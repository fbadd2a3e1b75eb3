\* Three buffers and five blocks of one or two samples: two buffers are filled twice,
\* and the worker may be a whole turn late, but never stops.
SPECIFICATION FairSpec
CONSTANTS
  SpareBuffers = 3
  LockFreeSize = 3
  BufferSize = 2
  BlockLengths = {1, 2}
  MaxBlocks = 5
INVARIANTS
  TypeOK
  WholeAndInOrder
  RefusedOnlyAfterOverrun
  NeverOlder
PROPERTIES
  OverrunNeedsFullPool
  EveryBlockProcessed
