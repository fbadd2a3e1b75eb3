----------------------- MODULE MCLockFreeQueueManager -----------------------
(* Instances of LockFreeQueueManager small enough to overrun the pool. *)
EXTENDS LockFreeQueueManager
=============================================================================
