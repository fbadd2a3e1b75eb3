\* Two recordings and a queue of two: the worker may carry a block from one
\* recording into the next, and the queue may refuse.  The process may die or
\* simply run out of blocks.
SPECIFICATION Spec
CONSTANTS
  LockFreeSize = 2
  MaxBlocks = 4
  MaxRecordings = 2
INVARIANTS
  GapsAreDropped
  OnlyBacklogFromBefore
  NothingElseIsLost
  OneBlockAfterStop
  DiesOnlyInFlight
CHECK_DEADLOCK FALSE
