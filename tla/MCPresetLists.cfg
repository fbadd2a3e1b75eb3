\* Two names are enough for rows of the same and of different names; two rows to
\* a tab, for one to be deleted beside another, and a third after it.
SPECIFICATION ListsSpec
CONSTANTS
  a = a
  b = b
  Names <- TwoNames
  Factory <- OneFactory
  Pages <- SomePages
  MaxRows = 2
  MaxListed <- Listed
INVARIANTS
  ListsTypeOK
  NothingOutOfReach
  EndsOnlyInShorterTab
