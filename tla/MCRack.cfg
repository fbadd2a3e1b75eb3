\* Five rows, so that a preset of three can follow one of two, and three moves: a row
\* that passes another and is passed again.
SPECIFICATION Spec
CONSTANTS
  MaxRows = 5
  MaxMoves = 3
INVARIANTS
  TypeOK
  RowsDriveTheirPlugins
  KnobsFollowMoves
  OnlyEditsEndIt
CHECK_DEADLOCK FALSE
