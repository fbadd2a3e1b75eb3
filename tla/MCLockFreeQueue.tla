--------------------------- MODULE MCLockFreeQueue ---------------------------
(* LockFreeQueue on a small index type, so that the counters wrap. *)
EXTENDS LockFreeQueue, Bitwise

\* mask() is written with % in LockFreeQueue: over every value of the index type
\* it is the bitwise and of the source.
ASSUME MaskIsBitwiseAnd == \A n \in Counters : mask(n) = n & (Capacity - 1)
=============================================================================
