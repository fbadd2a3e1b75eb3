------------------------ MODULE LockFreeQueue_proofs ------------------------
(***************************************************************************)
(* For every capacity, index type and set of items: the slots in use are   *)
(* never overwritten and the queue implements BoundedFifo.                 *)
(***************************************************************************)
EXTENDS LockFreeQueue, CommonLemmas

-----------------------------------------------------------------------------
(* Arithmetic of the counters *)

\* The capacity and the range of the index are positive.
LEMMA Positive == Capacity \in Nat \ {0} /\ IndexMod \in Nat \ {0}
BY QueueAssumption

\* Reducing a counter modulo the index type first does not change its slot.
LEMMA SlotOfWrapped ==
  ASSUME NEW n \in Int
  PROVE  mask(n % IndexMod) = mask(n)
<1> DEFINE k == IndexMod \div Capacity
           j == n \div IndexMod
<1>1. k \in Int /\ IndexMod = Capacity * k
  BY QueueAssumption, DivisionWithRemainder
<1>2. j \in Int /\ n % IndexMod \in Int /\ n = IndexMod * j + (n % IndexMod)
  BY Positive, DivisionWithRemainder
<1> HIDE DEF k, j
<1>3. n = (n % IndexMod) + Capacity * (k * j) /\ k * j \in Int
  BY <1>1, <1>2, Positive
<1> DEFINE m == n % IndexMod
           c == k * j
<1>4. m \in Int /\ c \in Int /\ n = m + Capacity * c
  BY <1>2, <1>3
<1> HIDE DEF m, c
<1>5. (m + Capacity * c) % Capacity = m % Capacity
  BY <1>4, Positive, RemainderOfShift
<1>6. mask(m) = mask(n)
  BY <1>4, <1>5 DEF mask
<1> QED BY <1>6 DEF m

\* The write counter is the read counter advanced by the size: the producer's
\* slot comes right after the content.
LEMMA WriteSlotFollowsContent ==
  ASSUME NEW r \in Counters, NEW w \in Counters
  PROVE  mask(w) = mask(r + ((w - r) % IndexMod))
<1> DEFINE d == (w - r) % IndexMod
           j == (w - r) \div IndexMod
<1>1. r \in Int /\ w \in Int /\ w - r \in Int /\ w \in 0..IndexMod - 1
  BY Positive DEF Counters
<1>2. d \in Int /\ j \in Int /\ w - r = IndexMod * j + d
  BY <1>1, Positive, DivisionWithRemainder
<1> HIDE DEF d, j
<1>3. r + d = w + IndexMod * (-j) /\ -j \in Int
  BY <1>1, <1>2, Positive
<1>4. (r + d) % IndexMod = w
  <2>1. (w + IndexMod * (-j)) % IndexMod = w % IndexMod
    BY <1>1, <1>3, Positive, RemainderOfShift
  <2>2. w % IndexMod = w
    BY <1>1, Positive, SmallRemainder
  <2> QED BY <1>3, <2>1, <2>2
<1>5. mask((r + d) % IndexMod) = mask(r + d)
  BY <1>1, <1>2, SlotOfWrapped
<1> QED BY <1>4, <1>5 DEF d

\* Advancing the write counter of a queue that is not full grows it by one.
LEMMA SizeAfterPublish ==
  ASSUME NEW r \in Counters, NEW w \in Counters,
         (w - r) % IndexMod < Capacity
  PROVE  (successor(w) - r) % IndexMod = ((w - r) % IndexMod) + 1
<1> DEFINE d == (w - r) % IndexMod
           j == (w - r) \div IndexMod
<1>1. r \in Int /\ w \in Int /\ w - r \in Int /\ w \in 0..IndexMod - 1
  BY Positive DEF Counters
<1>2. d \in 0..IndexMod - 1 /\ j \in Int /\ w - r = IndexMod * j + d
  BY <1>1, Positive, DivisionWithRemainder
<1>3. d < Capacity
  OBVIOUS
<1> HIDE DEF d, j
<1>4. d + 1 \in 0..IndexMod - 1
  BY <1>2, <1>3, QueueAssumption
<1>5. successor(w) = IF w = IndexMod - 1 THEN 0 ELSE w + 1
  BY <1>1, Positive, RemainderOfSuccessor DEF successor
<1>6. CASE w = IndexMod - 1
  <2>1. successor(w) - r = IndexMod * (j - 1) + (d + 1)
    BY <1>1, <1>2, <1>5, <1>6, Positive
  <2>2. successor(w) - r \in Int /\ j - 1 \in Int
    BY <1>1, <1>2, <1>5, <1>6
  <2>3. (successor(w) - r) % IndexMod = d + 1
    BY <1>4, <2>1, <2>2, Positive, RemainderIsUnique
  <2> QED BY <2>3 DEF d
<1>7. CASE w # IndexMod - 1
  <2>1. successor(w) - r = IndexMod * j + (d + 1)
    BY <1>1, <1>2, <1>5, <1>7, Positive
  <2>2. successor(w) - r \in Int
    BY <1>1, <1>5, <1>7
  <2>3. (successor(w) - r) % IndexMod = d + 1
    BY <1>2, <1>4, <2>1, <2>2, Positive, RemainderIsUnique
  <2> QED BY <2>3 DEF d
<1> QED BY <1>6, <1>7

\* Advancing the read counter of a queue that is not empty shrinks it by one.
LEMMA SizeAfterRelease ==
  ASSUME NEW r \in Counters, NEW w \in Counters, (w - r) % IndexMod > 0
  PROVE  (w - successor(r)) % IndexMod = ((w - r) % IndexMod) - 1
<1> DEFINE d == (w - r) % IndexMod
           j == (w - r) \div IndexMod
<1>1. r \in Int /\ w \in Int /\ w - r \in Int /\ r \in 0..IndexMod - 1
  BY Positive DEF Counters
<1>2. d \in 0..IndexMod - 1 /\ j \in Int /\ w - r = IndexMod * j + d
  BY <1>1, Positive, DivisionWithRemainder
<1>3. d > 0
  OBVIOUS
<1> HIDE DEF d, j
<1>4. d - 1 \in 0..IndexMod - 1
  BY <1>2, <1>3, Positive
<1>5. successor(r) = IF r = IndexMod - 1 THEN 0 ELSE r + 1
  BY <1>1, Positive, RemainderOfSuccessor DEF successor
<1>6. CASE r = IndexMod - 1
  <2>1. w - successor(r) = IndexMod * (j + 1) + (d - 1)
    BY <1>1, <1>2, <1>5, <1>6, Positive
  <2>2. w - successor(r) \in Int /\ j + 1 \in Int
    BY <1>1, <1>2, <1>5, <1>6
  <2>3. (w - successor(r)) % IndexMod = d - 1
    BY <1>4, <2>1, <2>2, Positive, RemainderIsUnique
  <2> QED BY <2>3 DEF d
<1>7. CASE r # IndexMod - 1
  <2>1. w - successor(r) = IndexMod * j + (d - 1)
    BY <1>1, <1>2, <1>5, <1>7, Positive
  <2>2. w - successor(r) \in Int
    BY <1>1, <1>5, <1>7
  <2>3. (w - successor(r)) % IndexMod = d - 1
    BY <1>2, <1>4, <2>1, <2>2, Positive, RemainderIsUnique
  <2> QED BY <2>3 DEF d
<1> QED BY <1>6, <1>7

\* Counters and sizes stay in their ranges; equal counters mean size zero.
LEMMA CounterRanges ==
  ASSUME NEW r \in Counters, NEW w \in Counters
  PROVE  /\ successor(r) \in Counters
         /\ (w - r) % IndexMod \in 0..IndexMod - 1
         /\ (w - r) % IndexMod = 0 <=> r = w
         /\ mask(r) \in Slots
<1>1. r \in 0..IndexMod - 1 /\ w \in 0..IndexMod - 1 /\ r \in Int /\ w - r \in Int
  BY Positive DEF Counters
<1>2. successor(r) \in Counters
  BY <1>1, Positive, RemainderOfSuccessor DEF successor, Counters
<1>3. mask(r) \in Slots
  BY <1>1, Positive, DivisionWithRemainder DEF mask, Slots
<1>4. (w - r) % IndexMod \in 0..IndexMod - 1
  BY <1>1, Positive, DivisionWithRemainder
<1>5. ASSUME r = w PROVE (w - r) % IndexMod = 0
  BY <1>1, <1>5, Positive, SmallRemainder
<1>6. ASSUME r < w PROVE (w - r) % IndexMod # 0
  BY <1>1, <1>6, Positive, SmallRemainder
<1>7. ASSUME w < r PROVE (w - r) % IndexMod # 0
  <2>1. w - r = IndexMod * (-1) + (w - r + IndexMod) /\ w - r + IndexMod \in 0..IndexMod - 1
    BY <1>1, <1>7, Positive
  <2> QED BY <1>1, <1>7, <2>1, Positive, RemainderIsUnique
<1> QED BY <1>1, <1>2, <1>3, <1>4, <1>5, <1>6, <1>7

\* Advancing the read counter renames the slots that remain by one.
LEMMA SlotAfterRelease ==
  ASSUME NEW r \in Counters, NEW i \in Nat
  PROVE  mask(successor(r) + i) = mask(r + 1 + i)
<1>1. r \in 0..IndexMod - 1 /\ r + 1 + i \in Int
  BY Positive DEF Counters
<1>2. successor(r) = IF r = IndexMod - 1 THEN 0 ELSE r + 1
  BY <1>1, Positive, RemainderOfSuccessor DEF successor
<1>3. CASE r # IndexMod - 1
  BY <1>2, <1>3
<1>4. CASE r = IndexMod - 1
  <2>1. r + 1 + i = i + IndexMod * 1 /\ i \in Int
    BY <1>1, <1>4, Positive
  <2>2. (i + IndexMod * 1) % IndexMod = i % IndexMod
    BY i \in Int, 1 \in Int, Positive, RemainderOfShift
  <2>3. mask(r + 1 + i) = mask(i)
    <3>1. mask((r + 1 + i) % IndexMod) = mask(r + 1 + i)
      BY <1>1, SlotOfWrapped
    <3>2. mask(i % IndexMod) = mask(i)
      BY <2>1, SlotOfWrapped
    <3> QED BY <2>1, <2>2, <3>1, <3>2
  <2>4. successor(r) + i = i
    BY <1>2, <1>4
  <2> QED BY <2>3, <2>4
<1> QED BY <1>3, <1>4

\* The slots of the content are distinct from the slot right after them.
LEMMA FreeSlotIsFree ==
  ASSUME NEW r \in Counters, NEW w \in Counters,
         (w - r) % IndexMod < Capacity,
         NEW i \in 1..((w - r) % IndexMod)
  PROVE  mask(r + i - 1) # mask(w)
<1> DEFINE d == (w - r) % IndexMod
<1>1. r \in Int /\ d \in Nat /\ d < Capacity /\ i \in 1..d
  BY Positive, CounterRanges DEF Counters
<1>2. mask(w) = mask(r + d)
  BY WriteSlotFollowsContent
<1> HIDE DEF d
<1>3. r + i - 1 < r + d /\ (r + d) - (r + i - 1) < Capacity + 1
  BY <1>1, Positive
<1>4. r + i - 1 \in Int /\ r + d \in Int /\ (r + d) - (r + i - 1) <= d
  BY <1>1
<1>5. (r + i - 1) % Capacity # (r + d) % Capacity
  BY <1>1, <1>3, <1>4, Positive, NearNumbersDiffer
<1> QED BY <1>2, <1>5 DEF mask

-----------------------------------------------------------------------------
(* The inductive invariant *)

\* The queue never holds more than it has slots; the producer works on a slot
\* only while there is room, and has filled it before it publishes it; the
\* consumer works on the head only while there is one, and has loaded it before
\* it releases it.
QueueInv ==
  /\ size <= Capacity
  /\ producer # "idle" => size < Capacity /\ pushing \in Items
  /\ producer = "publish" => buffer[mask(writeCounter)] = pushing
  /\ consumer # "idle" => size > 0
  /\ consumer = "release" => val = buffer[mask(readCounter)]

\* Every state of the queue is well typed (LockFreeQueue.h:161-163: slots hold
\* items, counters stay in their index type).
THEOREM QueueTyped == Spec => []TypeOK
<1>1. Init => TypeOK
  <2>1. 0 \in Counters
    BY Positive DEF Counters
  <2>2. ASSUME Init PROVE got \in [ok : BOOLEAN, item : Items \cup {NoItem}]
    BY <2>2 DEF Init
  <2> QED BY <2>1, <2>2 DEF Init, TypeOK
<1>2. TypeOK /\ [Next]_vars => TypeOK'
  <2> SUFFICES ASSUME TypeOK, [Next]_vars PROVE TypeOK'
    OBVIOUS
  <2> USE DEF TypeOK
  <2>0. /\ successor(writeCounter) \in Counters
        /\ successor(readCounter) \in Counters
        /\ mask(readCounter) \in Slots
    BY CounterRanges
  <2>1. CASE PushFull
    BY <2>1 DEF PushFull, popVars
  <2>2. ASSUME NEW item \in Items, PushBegin(item) PROVE TypeOK'
    BY <2>2 DEF PushBegin, popVars
  <2>3. CASE PushStore
    BY <2>3 DEF PushStore, popVars
  <2>4. CASE PushPublish
    BY <2>0, <2>4 DEF PushPublish, popVars
  <2>5. CASE TakeEmpty
    BY <2>5 DEF TakeEmpty, pushVars
  <2>6. CASE PopBegin
    BY <2>6 DEF PopBegin, pushVars
  <2>7. CASE PopLoad
    BY <2>0, <2>7 DEF PopLoad, pushVars
  <2>8. CASE PopRelease
    BY <2>0, <2>8 DEF PopRelease, pushVars
  <2>9. CASE PeekBegin
    BY <2>9 DEF PeekBegin, pushVars
  <2>10. CASE PeekLoad
    BY <2>0, <2>10 DEF PeekLoad, pushVars
  <2>11. CASE UNCHANGED vars
    BY <2>11 DEF vars, pushVars, popVars
  <2> QED BY <2>1, <2>2, <2>3, <2>4, <2>5, <2>6, <2>7, <2>8, <2>9, <2>10, <2>11
          DEF Next, Push, Pop
<1> QED BY <1>1, <1>2, PTL DEF Spec

\* A step of the queue preserves the inductive invariant.
LEMMA QueueInvStep == TypeOK /\ QueueInv /\ [Next]_vars => QueueInv'
<1> SUFFICES ASSUME TypeOK, QueueInv, [Next]_vars PROVE QueueInv'
  OBVIOUS
<1> USE DEF QueueInv
<1>0. /\ size \in Nat
      /\ size = 0 <=> readCounter = writeCounter
      /\ mask(writeCounter) \in Slots
  BY CounterRanges DEF TypeOK, size
<1>1. CASE PushFull
  BY <1>1 DEF PushFull, popVars, size
<1>2. ASSUME NEW item \in Items, PushBegin(item) PROVE QueueInv'
  BY <1>0, <1>2, Positive DEF PushBegin, popVars, isFull, size
<1>3. CASE PushStore
  <2>1. consumer = "release" => mask(readCounter) # mask(writeCounter)
    <3> SUFFICES ASSUME consumer = "release"
                 PROVE  mask(readCounter) # mask(writeCounter)
      OBVIOUS
    <3>1. size < Capacity /\ 1 \in 1..size
      BY <1>0, <1>3 DEF PushStore
    <3>2. mask(readCounter + 1 - 1) # mask(writeCounter)
      BY <3>1, FreeSlotIsFree DEF TypeOK, size
    <3>3. readCounter + 1 - 1 = readCounter
      BY Positive DEF TypeOK, Counters
    <3> QED BY <3>2, <3>3
  <2>2. size' = size /\ UNCHANGED <<consumer, val, readCounter, writeCounter, pushing>>
    BY <1>3 DEF PushStore, popVars, size
  <2>3. buffer'[mask(writeCounter)] = pushing
    BY <1>0, <1>3 DEF PushStore, TypeOK
  <2>4. consumer = "release" => buffer'[mask(readCounter)] = buffer[mask(readCounter)]
    BY <1>3, <2>1, CounterRanges DEF PushStore, TypeOK
  <2> QED BY <1>3, <2>2, <2>3, <2>4 DEF PushStore, mask
<1>4. CASE PushPublish
  <2>1. size' = size + 1
    BY <1>4, SizeAfterPublish DEF PushPublish, TypeOK, size
  <2> QED BY <1>0, <1>4, <2>1, Positive DEF PushPublish, popVars, mask
<1>5. CASE TakeEmpty
  BY <1>5 DEF TakeEmpty, pushVars, size
<1>6. CASE PopBegin
  BY <1>0, <1>6 DEF PopBegin, pushVars, isEmpty, size
<1>7. CASE PopLoad
  BY <1>7 DEF PopLoad, pushVars, size
<1>8. CASE PopRelease
  <2>1. size' = size - 1
    BY <1>8, SizeAfterRelease DEF PopRelease, TypeOK, size
  <2> QED BY <1>0, <1>8, <2>1, Positive DEF PopRelease, pushVars, mask
<1>9. CASE PeekBegin
  BY <1>0, <1>9 DEF PeekBegin, pushVars, isEmpty, size
<1>10. CASE PeekLoad
  BY <1>10 DEF PeekLoad, pushVars, size
<1>11. CASE UNCHANGED vars
  BY <1>11 DEF vars, pushVars, popVars, size
<1> QED BY <1>1, <1>2, <1>3, <1>4, <1>5, <1>6, <1>7, <1>8, <1>9, <1>10, <1>11
        DEF Next, Push, Pop

\* The inductive invariant holds in every state.
LEMMA QueueInvHolds == Spec => []QueueInv
<1>1. Init => QueueInv
  <2> SUFFICES ASSUME Init PROVE QueueInv
    OBVIOUS
  <2>1. 0 \in Counters
    BY Positive DEF Counters
  <2>2. size = 0
    BY <2>1, CounterRanges DEF Init, size
  <2> QED BY <2>2, Positive DEF Init, QueueInv
<1> QED BY <1>1, QueueTyped, QueueInvStep, PTL DEF Spec

-----------------------------------------------------------------------------
(* The safety properties *)

\* The producer never stores into a slot whose item has not been taken
\* (LockFreeQueue.h:101-105), whatever the capacity and the index type.
THEOREM NoOverwrite == Spec => []StoreHitsFreeSlot
<1>1. TypeOK /\ QueueInv => StoreHitsFreeSlot
  BY FreeSlotIsFree DEF StoreHitsFreeSlot, TypeOK, QueueInv, size
<1> QED BY <1>1, QueueTyped, QueueInvHolds, PTL

\* What pop has loaded is still the head of the queue when it advances
\* (LockFreeQueue.h:88-89).
THEOREM LoadedStaysHead == Spec => []LoadedItemIsHead
<1>1. TypeOK /\ QueueInv => LoadedItemIsHead
  <2> SUFFICES ASSUME TypeOK, QueueInv, consumer = "release"
               PROVE  size > 0 /\ val = content[1]
    BY DEF LoadedItemIsHead
  <2>1. size \in Nat /\ size > 0 /\ val = buffer[mask(readCounter)]
    BY CounterRanges DEF TypeOK, QueueInv, size
  <2>2. readCounter + 1 - 1 = readCounter
    BY Positive DEF TypeOK, Counters
  <2>3. content[1] = buffer[mask(readCounter + 1 - 1)]
    BY <2>1 DEF content
  <2> QED BY <2>1, <2>2, <2>3
<1> QED BY <1>1, QueueTyped, QueueInvHolds, PTL

-----------------------------------------------------------------------------
(* Refinement *)

\* The content is a sequence as long as the queue, listing the slots in order.
LEMMA ContentIsSequence ==
  ASSUME TypeOK
  PROVE  /\ size \in Nat
         /\ Len(content) = size
         /\ DOMAIN content = 1..size
         /\ \A i \in 1..size : content[i] = buffer[mask(readCounter + i - 1)]
<1>1. size \in Nat
  BY CounterRanges DEF TypeOK, size
<1> QED BY <1>1 DEF content

\* Every slot of the content lies in the ring.
LEMMA ContentSlots ==
  ASSUME TypeOK, NEW i \in Nat
  PROVE  mask(readCounter + i) \in Slots
<1>1. readCounter + i \in Int
  BY Positive DEF TypeOK, Counters
<1> QED BY <1>1, Positive, DivisionWithRemainder DEF mask, Slots

\* Publishing the write counter appends the item stored before.
LEMMA PublishAppends ==
  ASSUME TypeOK, TypeOK', QueueInv, PushPublish
  PROVE  content' = Append(content, pushing)
<1>1. /\ size' = size + 1
      /\ readCounter' = readCounter
      /\ buffer' = buffer
  BY SizeAfterPublish DEF PushPublish, QueueInv, TypeOK, size
<1>2. buffer[mask(readCounter + size)] = pushing
  BY WriteSlotFollowsContent DEF TypeOK, QueueInv, PushPublish, size
<1>3. size \in Nat /\ content = [i \in 1..size |-> buffer[mask(readCounter + i - 1)]]
  BY ContentIsSequence DEF content
<1>4. content' = [i \in 1..size + 1 |-> buffer[mask(readCounter + i - 1)]]
  BY <1>1 DEF content, mask
<1>5. readCounter + (size + 1) - 1 = readCounter + size
  BY <1>3, Positive DEF TypeOK, Counters
<1>6. Append(content, pushing) =
        [i \in 1..size + 1 |-> IF i <= size THEN content[i] ELSE pushing]
  <2>1. Len(content) = size
    BY ContentIsSequence
  <2> QED BY <1>3, <2>1
<1>7. ASSUME NEW i \in 1..size + 1
      PROVE  buffer[mask(readCounter + i - 1)]
               = IF i <= size THEN content[i] ELSE pushing
  <2>1. CASE i <= size
    BY <1>3, <2>1
  <2>2. CASE ~(i <= size)
    <3>1. i = size + 1
      BY <1>3, <2>2
    <3> QED BY <1>2, <1>5, <2>2, <3>1
  <2> QED BY <2>1, <2>2
<1> QED BY <1>4, <1>6, <1>7

\* Storing into the free slot changes nothing the consumer can see.
LEMMA StoreKeepsContent ==
  ASSUME TypeOK, QueueInv, PushStore
  PROVE  content' = content
<1>1. size' = size /\ readCounter' = readCounter /\ size \in Nat
  BY CounterRanges DEF PushStore, TypeOK, size
<1>2. ASSUME NEW i \in 1..size
      PROVE  buffer'[mask(readCounter + i - 1)] = buffer[mask(readCounter + i - 1)]
  <2>1. mask(readCounter + i - 1) # mask(writeCounter)
    BY FreeSlotIsFree DEF TypeOK, QueueInv, PushStore, size
  <2>2. i - 1 \in Nat /\ readCounter + (i - 1) = readCounter + i - 1
    BY <1>1, Positive DEF TypeOK, Counters
  <2>3. mask(readCounter + i - 1) \in Slots
    BY <2>2, ContentSlots
  <2> QED BY <2>1, <2>3 DEF PushStore, TypeOK
<1>3. content' = [i \in 1..size |-> buffer'[mask(readCounter + i - 1)]]
  BY <1>1 DEF content, mask
<1> QED BY <1>2, <1>3 DEF content

\* Advancing the read counter removes the head.
LEMMA ReleaseDropsHead ==
  ASSUME TypeOK, TypeOK', QueueInv, PopRelease
  PROVE  content # <<>> /\ content' = Tail(content) /\ val = Head(content)
<1>1. /\ size' = size - 1
      /\ readCounter' = successor(readCounter)
      /\ buffer' = buffer
      /\ size \in Nat /\ size > 0
      /\ val = buffer[mask(readCounter)]
  BY SizeAfterRelease, CounterRanges DEF PopRelease, QueueInv, TypeOK, size
<1>2. content = [i \in 1..size |-> buffer[mask(readCounter + i - 1)]]
  BY DEF content
<1>3. content' = [i \in 1..size - 1 |-> buffer[mask(successor(readCounter) + i - 1)]]
  BY <1>1 DEF content, mask
<1>4. Len(content) = size /\ content # <<>>
  BY <1>1, <1>2
<1>5. Tail(content) = [i \in 1..size - 1 |-> content[i + 1]]
  BY <1>1, <1>2, <1>4
<1>6. ASSUME NEW i \in 1..size - 1
      PROVE  buffer[mask(successor(readCounter) + i - 1)] = content[i + 1]
  <2>1. i - 1 \in Nat /\ i + 1 \in 1..size
    BY <1>1
  <2>2. mask(successor(readCounter) + (i - 1)) = mask(readCounter + 1 + (i - 1))
    BY <2>1, SlotAfterRelease DEF TypeOK
  <2>3. /\ successor(readCounter) + (i - 1) = successor(readCounter) + i - 1
        /\ readCounter + 1 + (i - 1) = readCounter + (i + 1) - 1
    BY <2>1, CounterRanges, Positive DEF TypeOK, Counters
  <2> QED BY <1>2, <2>1, <2>2, <2>3
<1>7. Head(content) = val
  <2>1. readCounter + 1 - 1 = readCounter
    BY Positive DEF TypeOK, Counters
  <2>2. content[1] = buffer[mask(readCounter + 1 - 1)]
    BY <1>1, <1>2
  <2> QED BY <1>1, <1>4, <2>1, <2>2
<1> QED BY <1>3, <1>4, <1>5, <1>6, <1>7

\* A step that touches neither counter nor slot keeps the content.
LEMMA ContentUnchanged ==
  ASSUME UNCHANGED <<buffer, writeCounter, readCounter>>
  PROVE  content' = content
BY DEF content, size, mask

\* The ring with its two counters behaves, for every capacity and index type, as
\* the bounded first-in first-out queue its callers rely on.
THEOREM Refinement == Spec => ImplementsFifo
<1>1. Init => Fifo!Init
  <2> SUFFICES ASSUME Init PROVE Fifo!Init
    OBVIOUS
  <2>1. 0 \in Counters
    BY Positive DEF Counters
  <2>2. size = 0
    BY <2>1, CounterRanges DEF Init, size
  <2>3. content = <<>>
    BY <2>2 DEF content
  <2> QED BY <2>3 DEF Init, Fifo!Init
<1>2. TypeOK /\ TypeOK' /\ QueueInv /\ [Next]_vars => [Fifo!Next]_(Fifo!vars)
  <2> SUFFICES ASSUME TypeOK, TypeOK', QueueInv, [Next]_vars
               PROVE  Fifo!Next \/ UNCHANGED <<content, accepted, got>>
    BY DEF Fifo!vars
  <2>0. size \in Nat /\ Len(content) = size
    BY ContentIsSequence
  <2>1. CASE PushFull
    BY <2>0, <2>1, ContentUnchanged
       DEF PushFull, popVars, isFull, Fifo!Next, Fifo!PushRefused
  <2>2. ASSUME NEW item \in Items, PushBegin(item)
        PROVE  UNCHANGED <<content, accepted, got>>
    BY <2>2, ContentUnchanged DEF PushBegin, popVars
  <2>3. CASE PushStore
    BY <2>3, StoreKeepsContent DEF PushStore, popVars
  <2>4. CASE PushPublish
    <3>1. content' = Append(content, pushing)
      BY <2>4, PublishAppends
    <3>2. Fifo!Push(pushing) /\ pushing \in Items
      BY <2>0, <2>4, <3>1 DEF PushPublish, popVars, QueueInv, Fifo!Push
    <3> QED BY <3>2 DEF Fifo!Next
  <2>5. CASE TakeEmpty
    <3>1. size = 0
      BY <2>5, CounterRanges DEF TakeEmpty, isEmpty, TypeOK, size
    <3>2. content = <<>>
      BY <3>1 DEF content
    <3> QED BY <2>5, <3>2, ContentUnchanged
            DEF TakeEmpty, pushVars, Fifo!Next, Fifo!NothingToTake
  <2>6. CASE PopBegin
    BY <2>6, ContentUnchanged DEF PopBegin, pushVars
  <2>7. CASE PopLoad
    BY <2>7, ContentUnchanged DEF PopLoad, pushVars
  <2>8. CASE PopRelease
    <3>1. content # <<>> /\ content' = Tail(content) /\ val = Head(content)
      BY <2>8, ReleaseDropsHead
    <3> QED BY <2>8, <3>1 DEF PopRelease, pushVars, Fifo!Next, Fifo!Pop
  <2>9. CASE PeekBegin
    BY <2>9, ContentUnchanged DEF PeekBegin, pushVars
  <2>10. CASE PeekLoad
    <3>1. content # <<>> /\ content' = content
      BY <2>0, <2>10, ContentUnchanged DEF PeekLoad, QueueInv
    <3>2. val' = Head(content)
      <4>1. readCounter + 1 - 1 = readCounter
        BY Positive DEF TypeOK, Counters
      <4>2. content[1] = buffer[mask(readCounter + 1 - 1)]
        BY <2>0, <2>10, ContentIsSequence DEF PeekLoad, QueueInv
      <4> QED BY <2>0, <2>10, <3>1, <4>1, <4>2 DEF PeekLoad
    <3> QED BY <2>10, <3>1, <3>2 DEF PeekLoad, pushVars, Fifo!Next, Fifo!Peek
  <2>11. CASE UNCHANGED vars
    BY <2>11, ContentUnchanged DEF vars, pushVars, popVars
  <2> QED BY <2>1, <2>2, <2>3, <2>4, <2>5, <2>6, <2>7, <2>8, <2>9, <2>10, <2>11
          DEF Next, Push, Pop
<1> QED BY <1>1, <1>2, QueueTyped, QueueInvHolds, PTL
        DEF Spec, ImplementsFifo, Fifo!Spec
=============================================================================
