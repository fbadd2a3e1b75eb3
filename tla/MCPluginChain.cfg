\* Three plugins and slots for them, five changes of the rack: chains of every length
\* rebuilt in every order under one pass and one walk of the worker, which may end
\* the program.
SPECIFICATION Spec
CONSTANTS
  Plugins = {p1, p2, p3}
  NULL = NULL
  MAX_PLUGINS = 3
  MaxEdits = 5
SYMMETRY Symmetry
INVARIANTS
  SettledChain
  PassIsPrefix
  WalkDiesOnlyByEdits
PROPERTIES
  PassIsComplete
  WalkIsComplete
CHECK_DEADLOCK FALSE
