----------------------------- MODULE BoundedFifo -----------------------------
(***************************************************************************)
(* What src/LockFreeQueue.h promises its two callers: a first-in first-out *)
(* queue of at most Capacity items, whose push refuses an item when the    *)
(* queue is full and whose pop and peek refuse when it is empty.           *)
(*                                                                         *)
(* The state is the content of the queue and the last answer each caller   *)
(* got.  Every operation is one atomic step; LockFreeQueue is shown to     *)
(* implement this specification with several steps per operation.          *)
(***************************************************************************)
EXTENDS Naturals, Sequences

CONSTANTS Items,      \* the values a caller may push
          Capacity,   \* the most items the queue holds
          NoItem      \* what a caller's variable holds before the first answer

VARIABLES fifo,      \* the items in the queue, oldest first
          accepted,  \* what the last push returned
          got        \* what the last pop or peek returned, and the item it stored

vars == <<fifo, accepted, got>>

Answers == [ok : BOOLEAN, item : Items \cup {NoItem}]

TypeOK ==
  /\ fifo \in Seq(Items)
  /\ Len(fifo) \in 0..Capacity
  /\ accepted \in BOOLEAN
  /\ got \in Answers

Init ==
  /\ fifo = <<>>
  /\ accepted = FALSE
  /\ got = [ok |-> FALSE, item |-> NoItem]

Push(item) ==
  /\ Len(fifo) < Capacity
  /\ fifo' = Append(fifo, item)
  /\ accepted' = TRUE
  /\ UNCHANGED got

PushRefused ==
  /\ Len(fifo) = Capacity
  /\ accepted' = FALSE
  /\ UNCHANGED <<fifo, got>>

Pop ==
  /\ fifo # <<>>
  /\ fifo' = Tail(fifo)
  /\ got' = [ok |-> TRUE, item |-> Head(fifo)]
  /\ UNCHANGED accepted

Peek ==
  /\ fifo # <<>>
  /\ got' = [ok |-> TRUE, item |-> Head(fifo)]
  /\ UNCHANGED <<fifo, accepted>>

\* pop and peek of an empty queue return false and leave the caller's variable
NothingToTake ==
  /\ fifo = <<>>
  /\ got' = [got EXCEPT !.ok = FALSE]
  /\ UNCHANGED <<fifo, accepted>>

Next ==
  \/ \E item \in Items : Push(item)
  \/ PushRefused
  \/ Pop
  \/ Peek
  \/ NothingToTake

Spec == Init /\ [][Next]_vars
=============================================================================
