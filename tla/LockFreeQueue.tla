---------------------------- MODULE LockFreeQueue ----------------------------
(***************************************************************************)
(* LockFreeQueue<T, CAPACITY, INDEX_TYPE> of src/LockFreeQueue.h, the      *)
(* single-producer single-consumer ring that carries audio buffers from    *)
(* the JACK callback to the file writing thread.                           *)
(*                                                                         *)
(* One action is one access of the two shared counters or of one slot, so  *)
(* the steps of push interleave with those of pop and peek in every way    *)
(* two threads allow.  The counters are std::atomic with the default,      *)
(* sequentially consistent order.  Each thread is the only one to change   *)
(* its own counter, so a test that loads both counters is one step: the    *)
(* load of the other thread's counter.                                     *)
(***************************************************************************)
EXTENDS Integers, Sequences

CONSTANTS Items,      \* T: the values pushed
          NoItem,     \* an uninitialised slot or variable of type T
          Capacity,   \* CAPACITY, a power of two
          IndexMod    \* the number of values of INDEX_TYPE: counters wrap there

\* static_assert(isPowerOfTwo(CAPACITY)) and "must be less than the maximum
\* value permissible in INDEX_TYPE": the range of the index is a larger power
\* of two, hence a multiple of the capacity.
ASSUME QueueAssumption ==
  /\ Capacity \in Nat \ {0}
  /\ IndexMod \in Nat
  /\ Capacity < IndexMod
  /\ IndexMod % Capacity = 0
  /\ NoItem \notin Items

VARIABLES buffer,        \* T buffer[CAPACITY]
          writeCounter,  \* changed by the producer only
          readCounter,   \* changed by the consumer only
          producer,      \* where the producer is inside push
          pushing,       \* push's argument
          accepted,      \* what the last push returned
          consumer,      \* where the consumer is inside pop or peek
          val,           \* the caller's variable that pop or peek fills
          got            \* what the last pop or peek returned, and the item it left

pushVars == <<producer, pushing, accepted>>
popVars == <<consumer, val, got>>
vars == <<buffer, writeCounter, readCounter, pushVars, popVars>>

Counters == 0..IndexMod - 1
Slots == 0..Capacity - 1

\* n & (CAPACITY - 1), for CAPACITY a power of two
mask(n) == n % Capacity

\* INDEX_TYPE is unsigned: the difference of the counters wraps
size == (writeCounter - readCounter) % IndexMod

isEmpty == readCounter = writeCounter

\* mutation: the test leaves room for one item more than there are slots
isFullOneLate == size > Capacity
isFull == size = Capacity

\* mutation: the counter does not wrap with its type
successorUnbounded(n) == n + 1
\* ++ on an atomic of an unsigned type
successor(n) == (n + 1) % IndexMod

TypeOK ==
  /\ buffer \in [Slots -> Items \cup {NoItem}]
  /\ writeCounter \in Counters
  /\ readCounter \in Counters
  /\ producer \in {"idle", "store", "publish"}
  /\ pushing \in Items \cup {NoItem}
  /\ accepted \in BOOLEAN
  /\ consumer \in {"idle", "load", "release", "peek"}
  /\ val \in Items \cup {NoItem}
  /\ got \in [ok : BOOLEAN, item : Items \cup {NoItem}]

Init ==
  /\ buffer = [s \in Slots |-> NoItem]
  /\ writeCounter = 0
  /\ readCounter = 0
  /\ producer = "idle"
  /\ pushing = NoItem
  /\ accepted = FALSE
  /\ consumer = "idle"
  /\ val = NoItem
  /\ got = [ok |-> FALSE, item |-> NoItem]

-----------------------------------------------------------------------------
(* push *)

PushFull ==
  /\ producer = "idle"
  /\ isFull
  /\ accepted' = FALSE
  /\ UNCHANGED <<buffer, writeCounter, readCounter, producer, pushing, popVars>>

PushBegin(item) ==
  /\ producer = "idle"
  /\ ~isFull
  /\ pushing' = item
  /\ producer' = "store"
  /\ UNCHANGED <<buffer, writeCounter, readCounter, accepted, popVars>>

\* mutation: the counter is published before the slot is filled
PushStorePublishesFirst ==
  /\ producer = "store"
  /\ writeCounter' = successor(writeCounter)
  /\ producer' = "publish"
  /\ UNCHANGED <<buffer, readCounter, pushing, accepted, popVars>>

PushStore ==
  /\ producer = "store"
  /\ buffer' = [buffer EXCEPT ![mask(writeCounter)] = pushing]
  /\ producer' = "publish"
  /\ UNCHANGED <<writeCounter, readCounter, pushing, accepted, popVars>>

PushPublish ==
  /\ producer = "publish"
  /\ writeCounter' = successor(writeCounter)
  /\ accepted' = TRUE
  /\ producer' = "idle"
  /\ UNCHANGED <<buffer, readCounter, pushing, popVars>>

-----------------------------------------------------------------------------
(* pop and peek *)

TakeEmpty ==
  /\ consumer = "idle"
  /\ isEmpty
  /\ got' = [got EXCEPT !.ok = FALSE]
  /\ UNCHANGED <<buffer, writeCounter, readCounter, pushVars, consumer, val>>

PopBegin ==
  /\ consumer = "idle"
  /\ ~isEmpty
  /\ consumer' = "load"
  /\ UNCHANGED <<buffer, writeCounter, readCounter, pushVars, val, got>>

\* mutation: the slot is released before it is loaded
PopLoadReleasesFirst ==
  /\ consumer = "load"
  /\ readCounter' = successor(readCounter)
  /\ val' = buffer[mask(readCounter)]
  /\ consumer' = "release"
  /\ UNCHANGED <<buffer, writeCounter, pushVars, got>>

PopLoad ==
  /\ consumer = "load"
  /\ val' = buffer[mask(readCounter)]
  /\ consumer' = "release"
  /\ UNCHANGED <<buffer, writeCounter, readCounter, pushVars, got>>

PopRelease ==
  /\ consumer = "release"
  /\ readCounter' = successor(readCounter)
  /\ got' = [ok |-> TRUE, item |-> val]
  /\ consumer' = "idle"
  /\ UNCHANGED <<buffer, writeCounter, pushVars, val>>

PeekBegin ==
  /\ consumer = "idle"
  /\ ~isEmpty
  /\ consumer' = "peek"
  /\ UNCHANGED <<buffer, writeCounter, readCounter, pushVars, val, got>>

PeekLoad ==
  /\ consumer = "peek"
  /\ val' = buffer[mask(readCounter)]
  /\ got' = [ok |-> TRUE, item |-> val']
  /\ consumer' = "idle"
  /\ UNCHANGED <<buffer, writeCounter, readCounter, pushVars>>

-----------------------------------------------------------------------------
Push ==
  \/ PushFull
  \/ \E item \in Items : PushBegin(item)
  \/ PushStore
  \/ PushPublish

Pop ==
  \/ TakeEmpty
  \/ PopBegin
  \/ PopLoad
  \/ PopRelease
  \/ PeekBegin
  \/ PeekLoad

Next == Push \/ Pop

Spec == Init /\ [][Next]_vars

-----------------------------------------------------------------------------
(* Properties *)

\* The content the two threads agree on: the slots from readCounter up to, not
\* including, writeCounter.
content == [i \in 1..size |-> buffer[mask(readCounter + i - 1)]]

\* However the accesses of push interleave with those of pop and peek, and
\* wherever the counters wrap, the two calls behave as the atomic operations of
\* a bounded first-in first-out queue: push takes effect when it publishes
\* writeCounter (LockFreeQueue.h:105), pop when it advances readCounter (89).
Fifo == INSTANCE BoundedFifo WITH fifo <- content
ImplementsFifo == Fifo!Spec

\* The producer never stores into a slot that holds an item not yet taken: not
\* the one being loaded and not one still waiting, although the test for space
\* (LockFreeQueue.h:101) is made before the store (104) and the consumer moves
\* on in between.
StoreHitsFreeSlot ==
  producer \in {"store", "publish"} =>
    \A i \in 1..size : mask(readCounter + i - 1) # mask(writeCounter)

\* What pop is about to return is still the head of the queue: the slot it has
\* loaded (LockFreeQueue.h:88) is not overwritten before it advances (89).
LoadedItemIsHead == consumer = "release" => size > 0 /\ val = content[1]
=============================================================================
