--------------------- MODULE LockFreeQueueManager_proofs ---------------------
(***************************************************************************)
(* For every pool and queue size with the pool no larger than the queue:   *)
(* the pool is overrun only by a full backlog, and until then disk_write   *)
(* sees every block whole and in order; after it, nothing older than the   *)
(* block it is taken for.                                                  *)
(***************************************************************************)
EXTENDS LockFreeQueueManager, CommonLemmas

-----------------------------------------------------------------------------
(* Typing *)

\* The sizes are positive and the two registered functions are known.
LEMMA Sizes ==
  /\ SpareBuffers \in Nat \ {0}
  /\ LockFreeSize \in Nat \ {0}
  /\ SpareBuffers <= LockFreeSize
  /\ BufferSize \in Nat
  /\ BlockLengths \subseteq 1..BufferSize
  /\ Len(functions) = 2
  /\ functions[1] = "disk_write"
  /\ functions[2] = "check_notify"
BY ManagerAssumption DEF functions

\* The counter stays in the pool when it moves on.
LEMMA NextBufferType == \A b \in Buffers : nextBuffer(b) \in Buffers
BY Sizes DEF Buffers, nextBuffer

\* While the callback copies, a sample remains to be copied; the worker runs one
\* of the functions, and disk_write reads samples that exist.
ProgressInv ==
  /\ callback = "copy" => block.copied < block.length
  /\ Busy => function \in 1..3
  /\ worker = "read" => Len(reading.data) <= reading.length /\ function = 1

\* A step keeps the places inside process() and main() meaningful.
LEMMA ProgressStep == TypeOK /\ ProgressInv /\ [Next]_vars => ProgressInv'
<1> SUFFICES ASSUME TypeOK, ProgressInv, [Next]_vars PROVE ProgressInv'
  OBVIOUS
<1> USE DEF ProgressInv, Busy
<1>0. /\ block \in [id : Nat, length : Lengths, copied : Lengths]
      /\ reading \in [length : Lengths, data : Seq(Nat)]
      /\ function \in 0..3
      /\ functions_count \in 0..2
  BY Sizes DEF TypeOK
<1>1. CASE InitManager
  BY <1>1 DEF InitManager, workerVars
<1>2. CASE AddFunction
  BY <1>2 DEF AddFunction, callbackVars, workerVars
<1>3. ASSUME NEW n \in BlockLengths, ProcessBegin(n) PROVE ProgressInv'
  BY <1>3, Sizes DEF ProcessBegin, workerVars
<1>4. CASE ProcessCopy
  BY <1>0, <1>4, Sizes DEF ProcessCopy, workerVars, Lengths
<1>5. CASE ProcessLength
  BY <1>5 DEF ProcessLength, workerVars
<1>6. CASE ProcessPush
  BY <1>6 DEF ProcessPush, workerVars
<1>7. CASE WorkerPop
  BY <1>7 DEF WorkerPop, callbackVars
<1>8. CASE WorkerSleep
  BY <1>8 DEF WorkerSleep, callbackVars
<1>9. CASE WorkerWake
  BY <1>9 DEF WorkerWake, callbackVars
<1>10. CASE WorkerNoMoreFunctions
  BY <1>10 DEF WorkerNoMoreFunctions, callbackVars
<1>11. CASE DiskWriteBegin
  <2>1. function = 1
    BY <1>0, <1>11, Sizes DEF DiskWriteBegin
  <2>2. reading'.data = <<>> /\ reading'.length \in Lengths
    BY <1>11, Sizes DEF DiskWriteBegin, TypeOK
  <2>3. Len(reading'.data) <= reading'.length
    BY <2>2, Sizes DEF Lengths
  <2> QED BY <1>11, <2>1, <2>3 DEF DiskWriteBegin, callbackVars
<1>12. CASE DiskWriteRead
  <2>1. /\ reading'.length = reading.length
        /\ \E x : reading'.data = Append(reading.data, x)
    BY <1>0, <1>12 DEF DiskWriteRead
  <2>2. Len(reading'.data) = Len(reading.data) + 1
    BY <1>0, <2>1
  <2> QED BY <1>0, <1>12, <2>1, <2>2, Sizes DEF DiskWriteRead, callbackVars, Lengths
<1>13. CASE DiskWriteEnd
  BY <1>0, <1>13 DEF DiskWriteEnd, callbackVars
<1>14. CASE CheckNotify
  <2>1. function = 2
    BY <1>0, <1>14, Sizes DEF CheckNotify, TypeOK
  <2> QED BY <1>14, <2>1 DEF CheckNotify, callbackVars
<1>15. CASE UNCHANGED vars
  BY <1>15 DEF vars, callbackVars, workerVars
<1> QED BY <1>1, <1>2, <1>3, <1>4, <1>5, <1>6, <1>7, <1>8, <1>9, <1>10, <1>11,
           <1>12, <1>13, <1>14, <1>15
        DEF Next, Engine, Process, Worker

\* A step keeps the state well typed.
LEMMA TypeStep == TypeOK /\ ProgressInv /\ [Next]_vars => TypeOK'
<1> SUFFICES ASSUME TypeOK, ProgressInv, [Next]_vars PROVE TypeOK'
  OBVIOUS
<1> USE DEF TypeOK
<1>1. CASE InitManager
  <2>1. 0 \in Buffers
    BY Sizes DEF Buffers
  <2> QED BY <1>1, <2>1 DEF InitManager, workerVars
<1>2. CASE AddFunction
  BY <1>2, Sizes DEF AddFunction, callbackVars, workerVars
<1>3. ASSUME NEW n \in BlockLengths, ProcessBegin(n) PROVE TypeOK'
  <2>1. n \in Lengths /\ 0 \in Lengths
    BY Sizes DEF Lengths
  <2> QED BY <1>3, <2>1 DEF ProcessBegin, engineVars, workerVars
<1>4. CASE ProcessCopy
  <2>1. /\ block.copied + 1 \in Samples
        /\ block.copied + 1 \in Lengths
    BY SMTT(30), <1>4, Sizes DEF ProcessCopy, ProgressInv, Samples, Lengths
  <2>2. pAudioBuffer' \in [Buffers -> [pos : Lengths, data : [Samples -> Nat]]]
    BY <1>4, <2>1 DEF ProcessCopy
  <2>3. block' \in [id : Nat, length : Lengths, copied : Lengths]
    BY <1>4, <2>1 DEF ProcessCopy
  <2>4. callback' \in {"idle", "copy", "length", "push"}
    BY <1>4 DEF ProcessCopy
  <2> QED BY <1>4, <2>2, <2>3, <2>4 DEF ProcessCopy, engineVars, workerVars
<1>5. CASE ProcessLength
  BY <1>5 DEF ProcessLength, engineVars, workerVars
<1>6. CASE ProcessPush
  <2>1. [id |-> block.id, length |-> block.length] \in Blocks
    BY DEF Blocks
  <2>2. buffer_counter' \in Buffers
    BY <1>6, NextBufferType DEF ProcessPush
  <2>3. lockFreeQueue' \in Seq(Buffers) /\ refused' \in Nat
    <3>1. \/ lockFreeQueue' = Append(lockFreeQueue, buffer_counter) /\ refused' = refused
          \/ lockFreeQueue' = lockFreeQueue /\ refused' = refused + 1
      BY <1>6 DEF ProcessPush
    <3>2. lockFreeQueue \in Seq(Buffers) /\ buffer_counter \in Buffers /\ refused \in Nat
      OBVIOUS
    <3> QED BY ONLY SMTT(30), <3>1, <3>2
  <2>4. sent' \in Seq(Blocks)
    <3>1. \/ sent' = sent
          \/ sent' = Append(sent, [id |-> block.id, length |-> block.length])
      BY <1>6 DEF ProcessPush
    <3>2. sent \in Seq(Blocks)
      OBVIOUS
    <3> QED BY ONLY <2>1, <3>1, <3>2
  <2> QED BY <1>6, <2>2, <2>3, <2>4 DEF ProcessPush, engineVars, workerVars
<1>7. CASE WorkerPop
  BY <1>7, Sizes DEF WorkerPop, engineVars, callbackVars
<1>8. CASE WorkerSleep
  BY <1>8 DEF WorkerSleep, engineVars, callbackVars
<1>9. CASE WorkerWake
  BY <1>9 DEF WorkerWake, engineVars, callbackVars
<1>10. CASE WorkerNoMoreFunctions
  BY <1>10 DEF WorkerNoMoreFunctions, engineVars, callbackVars
<1>11. CASE DiskWriteBegin
  <2>1. reading' \in [length : Lengths, data : Seq(Nat)]
    BY <1>11 DEF DiskWriteBegin
  <2> QED BY <1>11, <2>1 DEF DiskWriteBegin, engineVars, callbackVars
<1>12. CASE DiskWriteRead
  <2>1. Len(reading.data) + 1 \in Samples
    <3>1. Len(reading.data) < reading.length
      BY <1>12 DEF DiskWriteRead
    <3>2. reading.data \in Seq(Nat) /\ reading.length \in 0..BufferSize
      BY DEF Lengths
    <3> QED BY ONLY <3>1, <3>2, Sizes DEF Samples
  <2>2. pAudioBuffer[buffer].data[Len(reading.data) + 1] \in Nat
    BY <2>1
  <2>3. reading' \in [length : Lengths, data : Seq(Nat)]
    <3> DEFINE sample == pAudioBuffer[buffer].data[Len(reading.data) + 1]
    <3>1. reading' = [reading EXCEPT !.data = Append(@, sample)]
      BY <1>12 DEF DiskWriteRead
    <3>2. reading \in [length : Lengths, data : Seq(Nat)] /\ sample \in Nat
      BY <2>2
    <3> HIDE DEF sample
    <3> QED BY ONLY SMTT(30), <3>1, <3>2
  <2> QED BY <1>12, <2>3 DEF DiskWriteRead, engineVars, callbackVars
<1>13. CASE DiskWriteEnd
  <2>1. [nth |-> popped, data |-> reading.data] \in [nth : Nat, data : Seq(Nat)]
    OBVIOUS
  <2>2. seen' \in Seq([nth : Nat, data : Seq(Nat)])
    BY <1>13, <2>1 DEF DiskWriteEnd
  <2>3. function' \in 0..Len(functions) + 1
    BY <1>13, Sizes DEF DiskWriteEnd, ProgressInv
  <2> QED BY <1>13, <2>2, <2>3 DEF DiskWriteEnd, engineVars, callbackVars
<1>14. CASE CheckNotify
  <2>1. function' \in 0..Len(functions) + 1
    BY <1>14, Sizes DEF CheckNotify
  <2> QED BY <1>14, <2>1 DEF CheckNotify, engineVars, callbackVars
<1>15. CASE UNCHANGED vars
  BY <1>15 DEF vars, engineVars, callbackVars, workerVars
<1> QED BY <1>1, <1>2, <1>3, <1>4, <1>5, <1>6, <1>7, <1>8, <1>9, <1>10, <1>11,
           <1>12, <1>13, <1>14, <1>15
        DEF Next, Engine, Process, Worker

\* Every state is well typed (LockFreeQueue.h:170-182).
THEOREM ManagerTyped == Spec => [](TypeOK /\ ProgressInv)
<1>1. Init => TypeOK
  <2>1. 0 \in Buffers /\ 0 \in Lengths /\ 0 \in 0..Len(functions)
    BY Sizes DEF Buffers, Lengths
  <2>2. Init => pAudioBuffer \in [Buffers -> [pos : Lengths, data : [Samples -> Nat]]]
    BY <2>1 DEF Init
  <2>3. Init => /\ block \in [id : Nat, length : Lengths, copied : Lengths]
                /\ reading \in [length : Lengths, data : Seq(Nat)]
    BY <2>1 DEF Init
  <2>4. Init => /\ lockFreeQueue \in Seq(Buffers) /\ sent \in Seq(Blocks)
                /\ seen \in Seq([nth : Nat, data : Seq(Nat)])
                /\ function \in 0..Len(functions) + 1
    BY Sizes DEF Init
  <2>5. Init => /\ ready \in BOOLEAN /\ overrun \in BOOLEAN
                /\ buffer \in Buffers /\ buffer_counter \in Buffers
                /\ functions_count \in 0..Len(functions)
    BY <2>1 DEF Init
  <2> HIDE DEF functions
  <2> QED BY ONLY <2>2, <2>3, <2>4, <2>5 DEF Init, TypeOK
<1>2. Init => ProgressInv
  BY DEF Init, ProgressInv, Busy
<1> QED BY <1>1, <1>2, TypeStep, ProgressStep, PTL DEF Spec

-----------------------------------------------------------------------------
(* Before the first overrun *)

\* The blocks in use: the one the worker is busy with and those still queued.
FirstInUse == IF Busy THEN popped ELSE popped + 1
InUse == FirstInUse..Len(sent)

\* The buffer the k-th accepted block went to, as long as none was refused.
slotOf(k) == (k - 1) % SpareBuffers

\* A buffer holds a whole block.
Holds(b, r) ==
  /\ pAudioBuffer[b].pos = r.length
  /\ \A i \in 1..r.length : pAudioBuffer[b].data[i] = r.id

\* The queue holds what was accepted and not popped, whatever happened.
CountInv ==
  /\ Len(sent) = popped + Len(lockFreeQueue)
  /\ Busy => popped >= 1
  /\ ~ready => sent = <<>> /\ callback = "idle"

\* The blocks take the buffers of the pool in turn.
TurnInv ==
  /\ refused = 0
  /\ buffer_counter = Len(sent) % SpareBuffers
  /\ \A i \in 1..Len(lockFreeQueue) : lockFreeQueue[i] = slotOf(popped + i)
  /\ Busy => buffer = slotOf(popped)
  /\ callback # "idle" => Len(sent) - FirstInUse + 1 < SpareBuffers

OrderInv == CountInv /\ (~overrun => TurnInv)

\* The backlog is the number of blocks in use.
LEMMA BacklogCounts ==
  ASSUME TypeOK, CountInv
  PROVE  /\ Backlog = Len(sent) - FirstInUse + 1
         /\ FirstInUse \in Nat \ {0}
         /\ Len(sent) \in Nat /\ Len(lockFreeQueue) \in Nat /\ popped \in Nat
BY DEF TypeOK, CountInv, Backlog, FirstInUse

\* While blocks take the buffers in turn, the buffers in use are the slots of
\* the blocks in use.
LEMMA BuffersInUse ==
  ASSUME TypeOK, CountInv, TurnInv, NEW k \in InUse
  PROVE  slotOf(k) \in Waiting \cup Held
<1>0. k \in Int /\ FirstInUse <= k /\ k <= Len(sent)
  BY BacklogCounts DEF InUse
<1>1. CASE k = popped /\ Busy
  BY <1>1 DEF TurnInv, Held
<1>2. CASE ~(k = popped /\ Busy)
  <2>1. k - popped \in 1..Len(lockFreeQueue)
    BY <1>0, <1>2, BacklogCounts DEF FirstInUse, CountInv
  <2>2. lockFreeQueue[k - popped] = slotOf(popped + (k - popped))
    BY <2>1 DEF TurnInv
  <2>3. popped + (k - popped) = k
    BY <1>0, BacklogCounts
  <2> QED BY <2>1, <2>2, <2>3 DEF Waiting
<1> QED BY <1>1, <1>2

\* A backlog as long as the pool covers the buffer whose turn it is.
LEMMA FullBacklogOverruns ==
  ASSUME TypeOK, CountInv, TurnInv, Backlog >= SpareBuffers
  PROVE  buffer_counter \in Waiting \cup Held
<1> DEFINE k == Len(sent) - SpareBuffers + 1
<1>1. k \in InUse
  BY BacklogCounts, Sizes DEF InUse
<1>2. slotOf(k) = buffer_counter
  <2>1. (Len(sent) + SpareBuffers * (-1)) % SpareBuffers = Len(sent) % SpareBuffers
    <3>1. Len(sent) \in Int /\ -1 \in Int
      BY BacklogCounts
    <3> QED BY ONLY <3>1, Sizes, RemainderOfShift
  <2>2. k - 1 = Len(sent) + SpareBuffers * (-1)
    BY BacklogCounts, Sizes
  <2> QED BY <2>1, <2>2 DEF slotOf, TurnInv
<1> QED BY <1>1, <1>2, BuffersInUse

\* A shorter backlog leaves that buffer to none of the blocks in use.
LEMMA TurnIsFree ==
  ASSUME TypeOK, CountInv, TurnInv, Len(sent) - FirstInUse + 1 < SpareBuffers,
         NEW k \in InUse
  PROVE  slotOf(k) # buffer_counter
<1>1. /\ k - 1 \in Int /\ Len(sent) \in Int
      /\ k - 1 < Len(sent) /\ Len(sent) - (k - 1) < SpareBuffers
  BY BacklogCounts, Sizes DEF InUse
<1>2. (k - 1) % SpareBuffers # Len(sent) % SpareBuffers
  BY <1>1, Sizes, NearNumbersDiffer
<1> QED BY <1>2 DEF slotOf, TurnInv

\* A step keeps the count, and the turns until the first overrun.
LEMMA OrderStep ==
  TypeOK /\ TypeOK' /\ ProgressInv /\ OrderInv /\ [Next]_vars => OrderInv'
<1> SUFFICES ASSUME TypeOK, TypeOK', ProgressInv, OrderInv, [Next]_vars
             PROVE  OrderInv'
  OBVIOUS
<1>0. /\ Len(sent) \in Nat /\ Len(lockFreeQueue) \in Nat /\ popped \in Nat
      /\ CountInv
  BY BacklogCounts DEF OrderInv
<1> USE DEF OrderInv, CountInv, TurnInv, Busy, FirstInUse, slotOf
<1>1. CASE InitManager
  <2>1. /\ ~ready /\ buffer_counter' = 0 /\ sent = <<>> /\ ready'
        /\ UNCHANGED <<lockFreeQueue, callback, sent, refused, overrun, worker, buffer, popped>>
    BY <1>1 DEF InitManager, workerVars
  <2>2. 0 % SpareBuffers = 0
    BY Sizes, SmallRemainder
  <2> QED BY <2>1, <2>2
<1>2. CASE AddFunction
  BY <1>2 DEF AddFunction, callbackVars, workerVars
<1>3. ASSUME NEW n \in BlockLengths, ProcessBegin(n) PROVE OrderInv'
  <2>1. UNCHANGED <<lockFreeQueue, buffer_counter, sent, refused, workerVars>>
    BY <1>3 DEF ProcessBegin
  <2>2. ~overrun' => ~overrun /\ Backlog < SpareBuffers
    <3> SUFFICES ASSUME ~overrun' PROVE ~overrun /\ ~(Backlog >= SpareBuffers)
      BY <1>0, BacklogCounts, Sizes
    <3>1. ~overrun /\ buffer_counter \notin Waiting \cup Held
      BY <1>3 DEF ProcessBegin
    <3>2. CountInv /\ TurnInv
      BY <3>1
    <3> QED BY ONLY TypeOK, <3>1, <3>2, FullBacklogOverruns
  <2>3. /\ ready' /\ Backlog = Len(sent) - FirstInUse + 1
        /\ worker' = worker /\ buffer' = buffer /\ popped' = popped
    BY <1>0, <1>3, BacklogCounts DEF ProcessBegin, engineVars, workerVars
  <2> QED BY <1>0, <2>1, <2>2, <2>3
<1>4. CASE ProcessCopy
  BY <1>4 DEF ProcessCopy, engineVars, workerVars
<1>5. CASE ProcessLength
  BY <1>5 DEF ProcessLength, engineVars, workerVars
<1>6. CASE ProcessPush
  <2>0. /\ UNCHANGED <<ready, overrun, worker, buffer, popped>>
        /\ callback' = "idle" /\ ready
        /\ buffer_counter' = nextBuffer(buffer_counter)
    BY <1>6 DEF ProcessPush, engineVars, workerVars
  <2>1. CASE lockFreeQueue' = lockFreeQueue /\ sent' = sent /\ Len(lockFreeQueue) = LockFreeSize
    <3>1. overrun
      <4> SUFFICES ASSUME ~overrun PROVE FALSE
        OBVIOUS
      <4>1. Len(sent) - FirstInUse + 1 < SpareBuffers
        BY <1>6 DEF ProcessPush
      <4> QED BY <1>0, <2>1, <4>1, Sizes
    <3> QED BY <1>0, <2>0, <2>1, <3>1
  <2>2. CASE /\ lockFreeQueue' = Append(lockFreeQueue, buffer_counter)
             /\ sent' = Append(sent, [id |-> block.id, length |-> block.length])
             /\ refused' = refused
    <3>1. Len(lockFreeQueue') = Len(lockFreeQueue) + 1 /\ Len(sent') = Len(sent) + 1
      <4>1. lockFreeQueue \in Seq(Buffers) /\ sent \in Seq(Blocks)
        BY DEF TypeOK
      <4> QED BY ONLY <2>2, <4>1
    <3>2. CountInv'
      BY <1>0, <2>0, <3>1
    <3>3. ASSUME ~overrun PROVE TurnInv'
      <4>1. refused' = 0
        BY <2>2, <3>3
      <4>2. buffer_counter' = Len(sent') % SpareBuffers
        <5>1. (Len(sent) + 1) % SpareBuffers =
                IF Len(sent) % SpareBuffers = SpareBuffers - 1 THEN 0
                ELSE (Len(sent) % SpareBuffers) + 1
          <6>1. Len(sent) \in Int
            BY <1>0
          <6> QED BY ONLY <6>1, Sizes, RemainderOfNext
        <5>2. Len(sent) % SpareBuffers \in 0..SpareBuffers - 1
          <6>1. Len(sent) \in Int
            BY <1>0
          <6> QED BY ONLY <6>1, Sizes, DivisionWithRemainder
        <5>3. buffer_counter = Len(sent) % SpareBuffers
          BY <3>3
        <5> QED BY SMTT(30), <2>0, <3>1, <5>1, <5>2, <5>3, Sizes DEF nextBuffer
      <4>3. ASSUME NEW i \in 1..Len(lockFreeQueue')
            PROVE  lockFreeQueue'[i] = slotOf(popped + i)
        <5>1. CASE i <= Len(lockFreeQueue)
          <6>1. i \in 1..Len(lockFreeQueue)
            BY <1>0, <3>1, <5>1
          <6>2. lockFreeQueue'[i] = lockFreeQueue[i]
            BY <2>2, <6>1 DEF TypeOK
          <6> QED BY <3>3, <6>1, <6>2
        <5>2. CASE i = Len(lockFreeQueue) + 1
          <6>1. lockFreeQueue'[i] = buffer_counter
            BY <2>2, <5>2 DEF TypeOK
          <6>2. popped + i - 1 = Len(sent)
            BY <1>0, <5>2
          <6>3. buffer_counter = Len(sent) % SpareBuffers
            BY <3>3
          <6>4. popped + i = popped + i /\ popped \in Nat /\ i \in Nat /\ Len(sent) \in Nat
            BY <1>0, <5>2
          <6> QED BY ONLY <6>1, <6>2, <6>3, <6>4 DEF slotOf
        <5> QED BY <1>0, <3>1, <5>1, <5>2
      <4> QED BY <2>0, <3>3, <4>1, <4>2, <4>3
    <3> QED BY <2>0, <3>2, <3>3
  <2> QED BY <1>6, <2>1, <2>2 DEF ProcessPush
<1>7. CASE WorkerPop
  <2>0. /\ UNCHANGED <<ready, callback, sent, refused, overrun, buffer_counter>>
        /\ worker = "poll" /\ worker' = "run" /\ popped' = popped + 1
        /\ lockFreeQueue # <<>>
        /\ lockFreeQueue' = Tail(lockFreeQueue) /\ buffer' = Head(lockFreeQueue)
    BY <1>7 DEF WorkerPop, engineVars, callbackVars
  <2>1. /\ Len(lockFreeQueue) >= 1
        /\ Len(lockFreeQueue') = Len(lockFreeQueue) - 1
        /\ buffer' = lockFreeQueue[1]
        /\ \A i \in 1..Len(lockFreeQueue') : lockFreeQueue'[i] = lockFreeQueue[i + 1]
    BY SMTT(30), <2>0 DEF TypeOK
  <2>2. CountInv'
    BY <1>0, <2>0, <2>1
  <2>3. ASSUME ~overrun PROVE TurnInv'
    <3>1. buffer' = slotOf(popped')
      <4>1. 1 \in 1..Len(lockFreeQueue)
        BY <1>0, <2>1
      <4> QED BY <2>0, <2>1, <2>3, <4>1
    <3>2. ASSUME NEW i \in 1..Len(lockFreeQueue')
          PROVE  lockFreeQueue'[i] = slotOf(popped' + i)
      <4>1. i + 1 \in 1..Len(lockFreeQueue) /\ i \in Nat
        BY <1>0, <2>1
      <4>2. lockFreeQueue[i + 1] = slotOf(popped + (i + 1))
        BY <2>3, <4>1
      <4>3. popped + (i + 1) = popped' + i
        BY <1>0, <2>0, <4>1
      <4> QED BY <2>1, <4>2, <4>3
    <3>3. FirstInUse' = FirstInUse
      BY <1>0, <2>0
    <3> QED BY <2>0, <2>3, <3>1, <3>2, <3>3
  <2> QED BY <2>0, <2>2, <2>3
<1>8. CASE WorkerSleep
  BY <1>8 DEF WorkerSleep, engineVars, callbackVars
<1>9. CASE WorkerWake
  BY <1>9 DEF WorkerWake, engineVars, callbackVars
<1>10. CASE WorkerNoMoreFunctions
  <2>1. /\ UNCHANGED <<ready, callback, sent, refused, overrun, buffer_counter,
                        lockFreeQueue, popped>>
        /\ worker = "run" /\ worker' = "poll"
    BY <1>10 DEF WorkerNoMoreFunctions, engineVars, callbackVars
  <2>2. FirstInUse' = FirstInUse + 1
    BY <1>0, <2>1
  <2>3. Len(sent) - FirstInUse + 1 < SpareBuffers => Len(sent) - (FirstInUse + 1) + 1 < SpareBuffers
    BY <1>0, BacklogCounts, Sizes
  <2> QED BY <1>0, <2>1, <2>2, <2>3
<1>11. CASE DiskWriteBegin
  BY <1>11 DEF DiskWriteBegin, engineVars, callbackVars
<1>12. CASE DiskWriteRead
  BY <1>12 DEF DiskWriteRead, engineVars, callbackVars
<1>13. CASE DiskWriteEnd
  BY <1>13 DEF DiskWriteEnd, engineVars, callbackVars
<1>14. CASE CheckNotify
  BY <1>14 DEF CheckNotify, engineVars, callbackVars
<1>15. CASE UNCHANGED vars
  BY <1>15 DEF vars, engineVars, callbackVars, workerVars
<1> QED BY <1>1, <1>2, <1>3, <1>4, <1>5, <1>6, <1>7, <1>8, <1>9, <1>10, <1>11,
           <1>12, <1>13, <1>14, <1>15
        DEF Next, Engine, Process, Worker

\* Counts and turns hold in every state.
LEMMA OrderHolds == Spec => []OrderInv
<1>1. Init => OrderInv
  <2>1. 0 % SpareBuffers = 0
    BY Sizes, SmallRemainder
  <2> QED BY <2>1 DEF Init, OrderInv, CountInv, TurnInv, Busy
<1> QED BY <1>1, ManagerTyped, OrderStep, PTL DEF Spec

\* A fill runs into a buffer still in use only when the backlog is as long as the
\* pool (LockFreeQueue.cpp:82-93), for every pool no larger than the queue.
THEOREM OverrunTakesFullPool == Spec => OverrunNeedsFullPool
<1>1. TypeOK /\ OrderInv /\ [Next]_vars
        => [~overrun /\ overrun' => Backlog >= SpareBuffers]_vars
  <2> SUFFICES ASSUME TypeOK, OrderInv, Next, ~overrun, overrun'
               PROVE  Backlog >= SpareBuffers
    BY DEF vars
  <2>1. PICK n \in BlockLengths : ProcessBegin(n)
    BY DEF Next, Engine, Process, Worker, InitManager, AddFunction, ProcessCopy,
           ProcessLength, ProcessPush, WorkerPop, WorkerSleep, WorkerWake,
           WorkerNoMoreFunctions, DiskWriteBegin, DiskWriteRead, DiskWriteEnd,
           CheckNotify, callbackVars
  <2>2. buffer_counter \in Waiting \cup Held
    BY <2>1 DEF ProcessBegin
  <2>3. CountInv /\ TurnInv
    BY DEF OrderInv
  <2>4. Len(sent) - FirstInUse + 1 < SpareBuffers
          => \A k \in InUse : slotOf(k) # buffer_counter
    BY <2>3, TurnIsFree
  <2>5. PICK k \in InUse : buffer_counter = slotOf(k)
    <3>1. CASE buffer_counter \in Held
      <4>1. Busy /\ buffer_counter = slotOf(popped)
        BY <2>3, <3>1 DEF Held, TurnInv
      <4>2. popped \in InUse
        BY <2>3, <4>1, BacklogCounts DEF InUse, FirstInUse, CountInv
      <4> QED BY <4>1, <4>2
    <3>2. CASE buffer_counter \in Waiting
      <4>1. PICK i \in 1..Len(lockFreeQueue) : buffer_counter = lockFreeQueue[i]
        BY <3>2 DEF Waiting
      <4>2. buffer_counter = slotOf(popped + i)
        BY <2>3, <4>1 DEF TurnInv
      <4>3. popped + i \in InUse
        BY <2>3, BacklogCounts DEF InUse, FirstInUse, CountInv
      <4> QED BY <4>2, <4>3
    <3> QED BY <2>2, <3>1, <3>2
  <2> QED BY <2>3, <2>4, <2>5, BacklogCounts, Sizes
<1> QED BY <1>1, ManagerTyped, OrderHolds, PTL DEF Spec, OverrunNeedsFullPool

\* A push is refused only after a waiting block has been overwritten
\* (LockFreeQueue.cpp:88), as long as the pool is no larger than the queue.
THEOREM RefusalComesTooLate == Spec => []RefusedOnlyAfterOverrun
<1>1. OrderInv => RefusedOnlyAfterOverrun
  BY DEF OrderInv, TurnInv, RefusedOnlyAfterOverrun
<1> QED BY <1>1, OrderHolds, PTL

-----------------------------------------------------------------------------
(* What disk_write sees before the first overrun *)

\* The block being copied is in its buffer as far as it has been copied.
CopiedInv ==
  /\ callback # "idle" =>
       \A i \in 1..block.copied : pAudioBuffer[buffer_counter].data[i] = block.id
  /\ callback \in {"length", "push"} => block.copied = block.length
  /\ callback = "push" => pAudioBuffer[buffer_counter].pos = block.length

\* Every block in use is whole in its buffer.
StoredInv == \A k \in InUse : Holds(slotOf(k), sent[k])

\* disk_write has read a beginning of the block the worker popped last.
ReadInv ==
  worker = "read" =>
    /\ reading.length = sent[popped].length
    /\ \A i \in 1..Len(reading.data) : reading.data[i] = sent[popped].id

\* What disk_write has finished is whole and in order.
SeenInv ==
  /\ \A j \in 1..Len(seen) :
       /\ seen[j].nth \in 1..popped
       /\ Busy /\ function = 1 => seen[j].nth < popped
       /\ seen[j].data = [i \in 1..sent[seen[j].nth].length |-> sent[seen[j].nth].id]
  /\ \A j, k \in 1..Len(seen) : j < k => seen[j].nth < seen[k].nth

ContentInv == CopiedInv /\ StoredInv /\ ReadInv /\ SeenInv

\* A sequence whose members are all the same.
LEMMA OneNumber ==
  ASSUME NEW q \in Seq(Nat), NEW n, Len(q) = n, NEW v, \A i \in 1..Len(q) : q[i] = v
  PROVE  q = [i \in 1..n |-> v]
OBVIOUS

\* Writing to the buffer whose turn it is leaves the stored blocks alone.
LEMMA StoredElsewhere ==
  ASSUME TypeOK, CountInv, TurnInv, StoredInv, callback # "idle",
         UNCHANGED <<sent, popped, worker>>,
         \A b \in Buffers : b # buffer_counter => pAudioBuffer'[b] = pAudioBuffer[b]
  PROVE  StoredInv'
<1>1. InUse' = InUse
  BY DEF InUse, FirstInUse, Busy
<1>2. ASSUME NEW k \in InUse PROVE Holds(slotOf(k), sent[k])'
  <2>1. slotOf(k) # buffer_counter
    BY TurnIsFree DEF TurnInv
  <2>2. slotOf(k) \in Buffers
    <3>1. k - 1 \in Int
      BY BacklogCounts DEF InUse
    <3> QED BY ONLY <3>1, Sizes, DivisionWithRemainder DEF slotOf, Buffers
  <2>3. Holds(slotOf(k), sent[k])
    BY DEF StoredInv
  <2> QED BY <2>1, <2>2, <2>3 DEF Holds, slotOf
<1> QED BY <1>1, <1>2 DEF StoredInv, slotOf

\* A step of the callback keeps the contents.
LEMMA ContentStepProcess ==
  ASSUME TypeOK, TypeOK', ProgressInv, CountInv, TurnInv, ContentInv, Process
  PROVE  ~overrun' => ContentInv'
<1> SUFFICES ASSUME ~overrun' PROVE ContentInv'
  OBVIOUS
<1> USE DEF ContentInv
<1>0. /\ UNCHANGED <<worker, buffer, function, reading, popped, seen>>
      /\ ReadInv /\ SeenInv
  BY DEF Process, ProcessBegin, ProcessCopy, ProcessLength, ProcessPush, workerVars
<1>1. /\ Len(sent) \in Nat /\ popped \in Nat /\ popped <= Len(sent)
      /\ Len(lockFreeQueue) \in Nat /\ Busy => popped \in 1..Len(sent)
  BY BacklogCounts DEF CountInv
<1>2. ASSUME \A k \in 1..Len(sent) : sent'[k] = sent[k] PROVE ReadInv' /\ SeenInv'
  <2>1. ReadInv'
    BY <1>0, <1>1, <1>2 DEF ReadInv, Busy
  <2>2. \A j \in 1..Len(seen) : seen[j].nth \in 1..Len(sent)
    <3>1. \A j \in 1..Len(seen) : seen[j].nth \in 1..popped
      BY <1>0 DEF SeenInv
    <3> QED BY ONLY <1>1, <3>1
  <2> QED BY <1>0, <1>2, <2>1, <2>2 DEF SeenInv, Busy
<1>3. ASSUME NEW n \in BlockLengths, ProcessBegin(n) PROVE ContentInv'
  <2>1. UNCHANGED <<pAudioBuffer, sent>> /\ block'.copied = 0 /\ callback' = "copy"
    BY <1>3 DEF ProcessBegin
  <2>2. CopiedInv'
    BY <2>1 DEF CopiedInv
  <2>3. StoredInv'
    BY <1>0, <2>1 DEF StoredInv, InUse, FirstInUse, Busy, Holds, slotOf
  <2> QED BY <1>2, <2>1, <2>2, <2>3
<1>4. CASE ProcessCopy
  <2>1. /\ UNCHANGED <<sent, buffer_counter>> /\ callback = "copy"
        /\ block'.id = block.id /\ block'.length = block.length
        /\ block'.copied = block.copied + 1
        /\ callback' = IF block.copied + 1 = block.length THEN "length" ELSE "copy"
        /\ block.copied \in Nat
    BY <1>4, Sizes DEF ProcessCopy, TypeOK, Lengths
  <2>2. /\ \A b \in Buffers : b # buffer_counter => pAudioBuffer'[b] = pAudioBuffer[b]
        /\ \A i \in Samples : i # block.copied + 1 =>
             pAudioBuffer'[buffer_counter].data[i] = pAudioBuffer[buffer_counter].data[i]
        /\ pAudioBuffer'[buffer_counter].data[block.copied + 1] = block.id
    <3>1. block.copied + 1 \in Samples
      BY <2>1, Sizes DEF ProgressInv, TypeOK, Samples, Lengths
    <3> QED BY SMTT(30), <1>4, <3>1 DEF ProcessCopy, TypeOK
  <2>3. \A i \in 1..block.copied : i \in Samples /\ i # block.copied + 1
    <3>1. block.copied < block.length /\ block.length \in 0..BufferSize
      BY <2>1 DEF ProgressInv, TypeOK, Lengths
    <3> QED BY ONLY <2>1, <3>1, Sizes DEF Samples
  <2>4. \A i \in 1..block.copied + 1 : pAudioBuffer'[buffer_counter].data[i] = block.id
    <3> SUFFICES ASSUME NEW i \in 1..block.copied + 1
                 PROVE  pAudioBuffer'[buffer_counter].data[i] = block.id
      OBVIOUS
    <3>1. CASE i = block.copied + 1
      BY <2>2, <3>1
    <3>2. CASE i \in 1..block.copied
      BY <2>1, <2>2, <2>3, <3>2 DEF CopiedInv
    <3> QED BY <2>1, <3>1, <3>2
  <2>5. CopiedInv'
    BY <2>1, <2>4 DEF CopiedInv
  <2>6. StoredInv'
    BY <1>0, <2>1, <2>2, StoredElsewhere
  <2> QED BY <1>2, <2>1, <2>5, <2>6
<1>5. CASE ProcessLength
  <2>1. /\ UNCHANGED <<sent, buffer_counter, block>> /\ callback = "length" /\ callback' = "push"
        /\ pAudioBuffer' = [pAudioBuffer EXCEPT ![buffer_counter].pos = block.length]
    BY <1>5 DEF ProcessLength
  <2>2. /\ \A b \in Buffers : b # buffer_counter => pAudioBuffer'[b] = pAudioBuffer[b]
        /\ pAudioBuffer'[buffer_counter].data = pAudioBuffer[buffer_counter].data
        /\ pAudioBuffer'[buffer_counter].pos = block.length
    BY <2>1 DEF TypeOK
  <2>3. CopiedInv'
    BY <2>1, <2>2 DEF CopiedInv
  <2>4. StoredInv'
    BY <1>0, <2>1, <2>2, StoredElsewhere
  <2> QED BY <1>2, <2>1, <2>3, <2>4
<1>6. CASE ProcessPush
  <2>0. callback = "push" /\ callback' = "idle" /\ UNCHANGED pAudioBuffer
    BY <1>6 DEF ProcessPush
  <2>1. Len(lockFreeQueue) < LockFreeSize
    <3>1. Len(sent) - FirstInUse + 1 < SpareBuffers
      BY <2>0 DEF TurnInv
    <3>2. Len(lockFreeQueue) <= Len(sent) - FirstInUse + 1
      BY <1>1 DEF CountInv, FirstInUse
    <3> QED BY <1>1, <3>1, <3>2, BacklogCounts, Sizes
  <2>2. sent' = Append(sent, [id |-> block.id, length |-> block.length])
    BY <1>1, <1>6, <2>1, Sizes DEF ProcessPush
  <2>3. /\ Len(sent') = Len(sent) + 1
        /\ \A k \in 1..Len(sent) : sent'[k] = sent[k]
        /\ sent'[Len(sent) + 1] = [id |-> block.id, length |-> block.length]
    <3>1. sent \in Seq(Blocks)
      BY DEF TypeOK
    <3> QED BY ONLY <2>2, <3>1
  <2>4. Holds(buffer_counter, [id |-> block.id, length |-> block.length])
    BY <2>0 DEF Holds, ContentInv, CopiedInv
  <2>5. slotOf(Len(sent) + 1) = buffer_counter
    <3>1. (Len(sent) + 1) - 1 = Len(sent)
      BY <1>1
    <3>2. buffer_counter = Len(sent) % SpareBuffers
      BY DEF TurnInv
    <3> QED BY ONLY <3>1, <3>2 DEF slotOf
  <2>6. FirstInUse' = FirstInUse
    BY <1>0 DEF FirstInUse, Busy
  <2>7. ASSUME NEW k \in InUse' PROVE Holds(slotOf(k), sent'[k])
    <3>1. k \in InUse \/ k = Len(sent) + 1
      BY <1>1, <2>3, <2>6, BacklogCounts DEF InUse
    <3>2. CASE k \in InUse
      <4>1. k \in 1..Len(sent)
        BY <1>1, <3>2, BacklogCounts DEF InUse
      <4> QED BY <2>3, <3>2, <4>1 DEF StoredInv
    <3>3. CASE k = Len(sent) + 1
      BY <2>3, <2>4, <2>5, <3>3
    <3> QED BY <3>1, <3>2, <3>3
  <2>8. StoredInv'
    BY <2>0, <2>7 DEF StoredInv, Holds, slotOf
  <2>9. CopiedInv'
    BY <2>0 DEF CopiedInv
  <2> QED BY <1>2, <2>3, <2>8, <2>9
<1> QED BY <1>3, <1>4, <1>5, <1>6 DEF Process

\* A step of the worker keeps the contents.
LEMMA ContentStepWorker ==
  ASSUME TypeOK, TypeOK', ProgressInv, CountInv, TurnInv, ContentInv, Worker
  PROVE  ContentInv'
<1> USE DEF ContentInv
<1>0. /\ UNCHANGED <<pAudioBuffer, buffer_counter, callback, block, sent>>
      /\ CopiedInv /\ StoredInv /\ SeenInv
  BY DEF Worker, WorkerPop, WorkerSleep, WorkerWake, WorkerNoMoreFunctions,
         DiskWriteBegin, DiskWriteRead, DiskWriteEnd, CheckNotify, callbackVars
<1>1. /\ Len(sent) \in Nat /\ popped \in Nat /\ popped <= Len(sent)
      /\ Len(lockFreeQueue) \in Nat /\ Busy => popped \in 1..Len(sent)
  BY BacklogCounts DEF CountInv
<1>2. CopiedInv'
  BY <1>0 DEF CopiedInv
<1>3. ASSUME InUse' \subseteq InUse PROVE StoredInv'
  BY <1>0, <1>3 DEF StoredInv, Holds, slotOf
<1>4. ASSUME UNCHANGED popped, FirstInUse' >= FirstInUse, FirstInUse' \in Nat
      PROVE  StoredInv'
  <2>1. InUse' \subseteq InUse
    BY <1>0, <1>1, <1>4, BacklogCounts DEF InUse
  <2> QED BY <1>3, <2>1
<1>5. CASE WorkerPop
  <2>1. /\ worker = "poll" /\ worker' = "run" /\ popped' = popped + 1
        /\ function' = 1 /\ UNCHANGED <<seen, reading>>
    BY <1>5 DEF WorkerPop
  <2>2. InUse' = InUse
    BY <1>0, <2>1 DEF InUse, FirstInUse, Busy
  <2>3. SeenInv'
    BY <1>0, <1>1, <2>1 DEF SeenInv, Busy
  <2> QED BY <1>2, <1>3, <2>1, <2>2, <2>3 DEF ReadInv
<1>6. CASE WorkerSleep
  <2>1. /\ worker = "poll" /\ worker' = "sleep" /\ UNCHANGED <<popped, seen>>
    BY <1>6 DEF WorkerSleep
  <2> QED BY <1>0, <1>2, <1>3, <2>1
          DEF ReadInv, SeenInv, InUse, FirstInUse, Busy
<1>7. CASE WorkerWake
  <2>1. /\ worker = "sleep" /\ worker' = "poll" /\ UNCHANGED <<popped, seen>>
    BY <1>7 DEF WorkerWake
  <2> QED BY <1>0, <1>2, <1>3, <2>1
          DEF ReadInv, SeenInv, InUse, FirstInUse, Busy
<1>8. CASE WorkerNoMoreFunctions
  <2>1. worker = "run" /\ worker' = "poll" /\ UNCHANGED <<popped, seen>>
    BY <1>8 DEF WorkerNoMoreFunctions
  <2>2. FirstInUse' >= FirstInUse /\ FirstInUse' \in Nat
    BY <1>1, <2>1 DEF FirstInUse, Busy
  <2> QED BY <1>0, <1>2, <1>4, <2>1, <2>2 DEF ReadInv, SeenInv, Busy
<1>9. CASE DiskWriteBegin
  <2>1. /\ worker = "run" /\ worker' = "read" /\ UNCHANGED <<popped, seen, function>>
        /\ reading' = [length |-> pAudioBuffer[buffer].pos, data |-> <<>>]
    BY <1>9 DEF DiskWriteBegin
  <2>2. InUse' = InUse
    BY <1>0, <2>1 DEF InUse, FirstInUse, Busy
  <2>3. popped \in InUse /\ buffer = slotOf(popped)
    BY <1>1, <2>1 DEF InUse, FirstInUse, Busy, TurnInv
  <2>4. pAudioBuffer[buffer].pos = sent[popped].length
    BY <1>0, <2>3 DEF StoredInv, Holds
  <2>5. ReadInv'
    BY <1>0, <2>1, <2>4 DEF ReadInv
  <2>6. SeenInv'
    BY <1>0, <2>1 DEF SeenInv, Busy
  <2> QED BY <1>2, <1>3, <2>2, <2>5, <2>6
<1>10. CASE DiskWriteRead
  <2> DEFINE n == Len(reading.data)
  <2>1. /\ worker = "read" /\ UNCHANGED <<worker, popped, seen, function>>
        /\ n < reading.length /\ n \in Nat
        /\ reading'.length = reading.length
        /\ reading'.data = Append(reading.data, pAudioBuffer[buffer].data[n + 1])
        /\ reading.data \in Seq(Nat) /\ reading.length \in Nat
    <3>1. /\ worker = "read" /\ UNCHANGED <<worker, popped, seen, function>>
          /\ n < reading.length
          /\ reading' = [reading EXCEPT !.data = Append(@, pAudioBuffer[buffer].data[Len(@) + 1])]
      BY <1>10 DEF DiskWriteRead
    <3>2. reading \in [length : Lengths, data : Seq(Nat)]
      BY DEF TypeOK
    <3>3. reading.data \in Seq(Nat) /\ reading.length \in Nat
      BY ONLY <3>2, Sizes DEF Lengths
    <3>4. n \in Nat
      BY ONLY <3>3
    <3>5. /\ reading'.length = reading.length
          /\ reading'.data = Append(reading.data, pAudioBuffer[buffer].data[n + 1])
      BY ONLY <3>1, <3>2
    <3> QED BY <3>1, <3>3, <3>4, <3>5
  <2>2. InUse' = InUse
    BY <1>0, <2>1 DEF InUse, FirstInUse, Busy
  <2>3. popped \in InUse /\ buffer = slotOf(popped)
    BY <1>1, <2>1 DEF InUse, FirstInUse, Busy, TurnInv
  <2>4. pAudioBuffer[buffer].data[n + 1] = sent[popped].id
    <3>1. Holds(slotOf(popped), sent[popped]) /\ reading.length = sent[popped].length
      BY <1>0, <2>1, <2>3 DEF StoredInv, ReadInv
    <3>2. n + 1 \in 1..sent[popped].length
      BY <2>1, <3>1
    <3> QED BY <2>3, <3>1, <3>2 DEF Holds
  <2>5. \A i \in 1..Len(reading'.data) : reading'.data[i] = sent[popped].id
    <3>1. \A i \in 1..n : reading.data[i] = sent[popped].id
      BY <2>1 DEF ReadInv
    <3> HIDE DEF n
    <3>2. n = Len(reading.data)
      BY DEF n
    <3> QED BY ONLY <2>1, <2>4, <3>1, <3>2
  <2>6. ReadInv'
    BY <1>0, <2>1, <2>5 DEF ReadInv
  <2>7. SeenInv'
    BY <1>0, <2>1 DEF SeenInv, Busy
  <2> QED BY <1>2, <1>3, <2>2, <2>6, <2>7
<1>11. CASE DiskWriteEnd
  <2>1. /\ worker = "read" /\ worker' = "run" /\ UNCHANGED popped
        /\ function = 1 /\ function' = 2
        /\ Len(reading.data) = reading.length
        /\ seen' = Append(seen, [nth |-> popped, data |-> reading.data])
    BY <1>11 DEF DiskWriteEnd, ProgressInv
  <2>2. InUse' = InUse
    BY <1>0, <2>1 DEF InUse, FirstInUse, Busy
  <2>3. reading.data = [i \in 1..sent[popped].length |-> sent[popped].id]
    <3>1. /\ reading.data \in Seq(Nat)
          /\ reading.length = sent[popped].length
          /\ \A i \in 1..Len(reading.data) : reading.data[i] = sent[popped].id
      BY <2>1 DEF TypeOK, ReadInv
    <3>2. Len(reading.data) = sent[popped].length
      BY <2>1, <3>1
    <3> QED BY ONLY <3>1, <3>2, OneNumber
  <2>4. /\ Len(seen') = Len(seen) + 1 /\ Len(seen) \in Nat
        /\ \A j \in 1..Len(seen) : seen'[j] = seen[j]
        /\ seen'[Len(seen) + 1] = [nth |-> popped, data |-> reading.data]
    <3>1. seen \in Seq([nth : Nat, data : Seq(Nat)])
      BY DEF TypeOK
    <3> QED BY ONLY <2>1, <3>1
  <2>5. \A j \in 1..Len(seen) : seen[j].nth < popped /\ seen[j].nth \in 1..popped
    BY <1>0, <2>1 DEF SeenInv, Busy
  <2>6. ASSUME NEW j \in 1..Len(seen')
        PROVE  /\ seen'[j].nth \in 1..popped
               /\ seen'[j].data = [i \in 1..sent[seen'[j].nth].length |-> sent[seen'[j].nth].id]
    <3>1. CASE j \in 1..Len(seen)
      BY <1>0, <2>4, <3>1 DEF SeenInv
    <3>2. CASE j = Len(seen) + 1
      <4>1. popped \in 1..popped
        BY <1>1, <2>1 DEF Busy
      <4>2. seen'[j].nth = popped /\ seen'[j].data = reading.data
        BY <2>4, <3>2
      <4> QED BY <2>3, <4>1, <4>2
    <3> QED BY <2>4, <3>1, <3>2
  <2>7. ASSUME NEW j \in 1..Len(seen'), NEW k \in 1..Len(seen'), j < k
        PROVE  seen'[j].nth < seen'[k].nth
    <3>1. j \in 1..Len(seen)
      BY <2>4, <2>7
    <3>2. CASE k \in 1..Len(seen)
      BY <1>0, <2>4, <2>7, <3>1, <3>2 DEF SeenInv
    <3>3. CASE k = Len(seen) + 1
      BY <2>4, <2>5, <3>1, <3>3
    <3> QED BY <2>4, <3>2, <3>3
  <2>8. SeenInv'
    BY <1>0, <2>1, <2>6, <2>7 DEF SeenInv
  <2> QED BY <1>2, <1>3, <2>1, <2>2, <2>8 DEF ReadInv
<1>12. CASE CheckNotify
  <2>1. /\ worker = "run" /\ UNCHANGED <<worker, popped, seen>>
        /\ function' = function + 1 /\ function \in 1..3
    BY <1>12 DEF CheckNotify, ProgressInv, Busy
  <2>2. function' # 1
    BY <2>1
  <2> QED BY <1>0, <1>2, <1>3, <2>1, <2>2
          DEF ReadInv, SeenInv, InUse, FirstInUse, Busy
<1> QED BY <1>5, <1>6, <1>7, <1>8, <1>9, <1>10, <1>11, <1>12 DEF Worker

\* Until the first overrun the pool, the worker and what it has seen agree.
LEMMA ContentHolds == Spec => [](~overrun => ContentInv)
<1>1. Init => ContentInv
  BY DEF Init, ContentInv, CopiedInv, StoredInv, ReadInv, SeenInv, InUse, FirstInUse, Busy
<1>2. ASSUME TypeOK, TypeOK', ProgressInv, OrderInv, [Next]_vars, ~overrun => ContentInv
      PROVE  (~overrun => ContentInv)'
  <2> SUFFICES ASSUME ~overrun' PROVE ContentInv'
    OBVIOUS
  <2>1. ~overrun
    BY <1>2 DEF Next, vars, Engine, Process, Worker, InitManager, AddFunction,
         ProcessBegin, ProcessCopy, ProcessLength, ProcessPush, WorkerPop, WorkerSleep,
         WorkerWake, WorkerNoMoreFunctions, DiskWriteBegin, DiskWriteRead, DiskWriteEnd,
         CheckNotify, callbackVars
  <2>2. CountInv /\ TurnInv /\ ContentInv
    BY <1>2, <2>1 DEF OrderInv
  <2>3. CASE Process
    BY <1>2, <2>2, <2>3, ContentStepProcess
  <2>4. CASE Worker
    BY <1>2, <2>2, <2>4, ContentStepWorker
  <2>5. CASE Engine
    <3>1. /\ UNCHANGED <<pAudioBuffer, callback, block, sent, workerVars>>
          /\ buffer_counter' = buffer_counter \/ callback = "idle"
      BY <2>2, <2>5 DEF Engine, InitManager, AddFunction, callbackVars, CountInv
    <3> QED BY <2>2, <3>1 DEF ContentInv, CopiedInv, StoredInv, ReadInv, SeenInv, InUse,
               FirstInUse, Busy, Holds, slotOf, workerVars
  <2>6. CASE UNCHANGED vars
    BY <2>2, <2>6 DEF vars, callbackVars, workerVars, ContentInv, CopiedInv, StoredInv,
       ReadInv, SeenInv, InUse, FirstInUse, Busy, Holds, slotOf
  <2> QED BY <1>2, <2>3, <2>4, <2>5, <2>6 DEF Next
<1> QED BY <1>1, <1>2, ManagerTyped, OrderHolds, PTL DEF Spec

\* While no fill has run into a buffer still in use, disk_write sees the blocks the
\* callback sent, each at most once, in order and whole (LockFreeQueue.cpp:82-88,
\* FileWriter.cpp:260-261).
THEOREM WholeUntilOverrun == Spec => []WholeAndInOrder
<1>1. TypeOK /\ OrderInv /\ (~overrun => ContentInv) => WholeAndInOrder
  <2> SUFFICES ASSUME TypeOK, OrderInv, ContentInv, ~overrun PROVE WholeAndInOrder
    BY DEF WholeAndInOrder
  <2>1. popped \in Nat /\ Len(sent) \in Nat /\ popped <= Len(sent)
    BY BacklogCounts DEF OrderInv, CountInv
  <2>2. \A j \in 1..Len(seen) : seen[j].nth \in 1..popped
    BY DEF ContentInv, SeenInv
  <2>3. \A j \in 1..Len(seen) : seen[j].nth \in 1..Len(sent)
    BY ONLY <2>1, <2>2
  <2> QED BY <2>3 DEF WholeAndInOrder, ContentInv, SeenInv
<1> QED BY <1>1, ManagerTyped, OrderHolds, ContentHolds, PTL

-----------------------------------------------------------------------------
(* What disk_write sees, overrun or not *)

LEMMA EntriesTyped ==
  ASSUME NEW S, NEW q \in Seq(S)
  PROVE  \A i \in 1..Len(q) : q[i] \in S
OBVIOUS

\* None of the first n samples of a buffer belongs to a block before id.
NotOlder(b, n, id) == \A i \in 1..n : pAudioBuffer[b].data[i] >= id

\* The pool holds nothing newer than the block being copied.
NoneNewer ==
  /\ \A b \in Buffers : \A i \in Samples : pAudioBuffer[b].data[i] <= block.id
  /\ \A k \in 1..Len(sent) : sent[k].id <= block.id

\* A buffer that was pushed for a block holds nothing older, as far as its length goes,
\* from the push until the worker is done with it.
WaitingNotOlder ==
  \A i \in 1..Len(lockFreeQueue) :
    NotOlder(lockFreeQueue[i], pAudioBuffer[lockFreeQueue[i]].pos, sent[popped + i].id)

HeldNotOlder ==
  /\ Busy => NotOlder(buffer, pAudioBuffer[buffer].pos, sent[popped].id)
  /\ worker = "read" =>
       /\ NotOlder(buffer, reading.length, sent[popped].id)
       /\ \A i \in 1..Len(reading.data) : reading.data[i] >= sent[popped].id

SeenNotOlder ==
  \A j \in 1..Len(seen) :
    /\ seen[j].nth \in 1..popped
    /\ \A i \in 1..Len(seen[j].data) : seen[j].data[i] >= sent[seen[j].nth].id

AgeInv == CopiedInv /\ NoneNewer /\ WaitingNotOlder /\ HeldNotOlder /\ SeenNotOlder

\* The callback replaces samples by newer ones only, and gives a buffer another length
\* only when so many of its samples are of the block being copied.
PoolGrows ==
  /\ block.id <= block'.id
  /\ \A b \in Buffers : \A i \in Samples : pAudioBuffer[b].data[i] <= pAudioBuffer'[b].data[i]
  /\ \A b \in Buffers : \/ pAudioBuffer'[b].pos = pAudioBuffer[b].pos
                        \/ \A i \in 1..pAudioBuffer'[b].pos : pAudioBuffer'[b].data[i] = block.id

LEMMA PoolStep ==
  ASSUME TypeOK, TypeOK', ProgressInv, CopiedInv, NoneNewer, Process
  PROVE  PoolGrows /\ CopiedInv' /\ \A b \in Buffers : \A i \in Samples :
                                      pAudioBuffer'[b].data[i] <= block'.id
<1>0. /\ pAudioBuffer \in [Buffers -> [pos : Lengths, data : [Samples -> Nat]]]
      /\ block \in [id : Nat, length : Lengths, copied : Lengths] /\ buffer_counter \in Buffers
      /\ \A b \in Buffers : \A i \in Samples : pAudioBuffer[b].data[i] \in Nat
      /\ \A b \in Buffers : \A i \in Samples : pAudioBuffer[b].data[i] <= block.id
  <2>1. /\ pAudioBuffer \in [Buffers -> [pos : Lengths, data : [Samples -> Nat]]]
        /\ block \in [id : Nat, length : Lengths, copied : Lengths] /\ buffer_counter \in Buffers
    BY DEF TypeOK
  <2>2. \A b \in Buffers : \A i \in Samples : pAudioBuffer[b].data[i] \in Nat
    BY ONLY <2>1
  <2> QED BY <2>1, <2>2 DEF NoneNewer
<1>1. ASSUME NEW n \in BlockLengths, ProcessBegin(n)
      PROVE  PoolGrows /\ CopiedInv' /\ \A b \in Buffers : \A i \in Samples :
                                          pAudioBuffer'[b].data[i] <= block'.id
  <2>1. /\ UNCHANGED pAudioBuffer /\ block'.id = block.id + 1 /\ block'.copied = 0
        /\ callback' = "copy"
    BY <1>1 DEF ProcessBegin
  <2> QED BY <1>0, <2>1 DEF PoolGrows, CopiedInv
<1>2. CASE ProcessCopy
  <2>1. /\ UNCHANGED buffer_counter /\ callback = "copy"
        /\ block'.id = block.id /\ block'.length = block.length
        /\ block'.copied = block.copied + 1
        /\ callback' = IF block.copied + 1 = block.length THEN "length" ELSE "copy"
        /\ block.copied \in Nat /\ block.copied + 1 \in Samples
    <3>1. /\ UNCHANGED buffer_counter /\ callback = "copy"
          /\ block' = [block EXCEPT !.copied = @ + 1] /\ block.copied < block.length
          /\ callback' = IF block.copied + 1 = block.length THEN "length" ELSE "copy"
      BY <1>2 DEF ProcessCopy, ProgressInv
    <3>2. block'.id = block.id /\ block'.length = block.length /\ block'.copied = block.copied + 1
      BY ONLY <1>0, <3>1
    <3>3. block.copied \in 0..BufferSize /\ block.length \in 0..BufferSize
      BY ONLY <1>0 DEF Lengths
    <3>4. block.copied \in Nat /\ block.copied + 1 \in Samples
      BY ONLY <3>1, <3>3, Sizes DEF Samples
    <3> QED BY <3>1, <3>2, <3>4
  <2>2. /\ \A b \in Buffers : b # buffer_counter => pAudioBuffer'[b] = pAudioBuffer[b]
        /\ pAudioBuffer'[buffer_counter].pos = pAudioBuffer[buffer_counter].pos
        /\ \A i \in Samples : i # block.copied + 1 =>
             pAudioBuffer'[buffer_counter].data[i] = pAudioBuffer[buffer_counter].data[i]
        /\ pAudioBuffer'[buffer_counter].data[block.copied + 1] = block.id
    BY <1>0, <1>2, <2>1 DEF ProcessCopy
  <2>3. \A b \in Buffers : \A i \in Samples :
          /\ pAudioBuffer[b].data[i] <= pAudioBuffer'[b].data[i]
          /\ pAudioBuffer'[b].data[i] <= block.id
    <3> SUFFICES ASSUME NEW b \in Buffers, NEW i \in Samples
                 PROVE  /\ pAudioBuffer[b].data[i] <= pAudioBuffer'[b].data[i]
                        /\ pAudioBuffer'[b].data[i] <= block.id
      OBVIOUS
    <3>1. pAudioBuffer'[b].data[i] \in {pAudioBuffer[b].data[i], block.id}
      BY <2>2
    <3> QED BY <1>0, <3>1
  <2>4. \A i \in 1..block.copied + 1 : i \in 1..block.copied \/ i = block.copied + 1
    BY <2>1
  <2>5. \A i \in 1..block.copied : i \in Samples /\ i # block.copied + 1
    BY <2>1, Sizes DEF Samples
  <2>6. CopiedInv'
    BY <2>1, <2>2, <2>4, <2>5 DEF CopiedInv
  <2> QED BY <1>0, <2>1, <2>2, <2>3, <2>6 DEF PoolGrows
<1>3. CASE ProcessLength
  <2>1. /\ UNCHANGED <<buffer_counter, block>> /\ callback = "length" /\ callback' = "push"
        /\ \A b \in Buffers : b # buffer_counter => pAudioBuffer'[b] = pAudioBuffer[b]
        /\ pAudioBuffer'[buffer_counter].data = pAudioBuffer[buffer_counter].data
        /\ pAudioBuffer'[buffer_counter].pos = block.length
    BY <1>0, <1>3 DEF ProcessLength
  <2>2. \A b \in Buffers : pAudioBuffer'[b].data = pAudioBuffer[b].data
    BY <2>1
  <2>3. CopiedInv'
    BY <2>1 DEF CopiedInv
  <2>4. \A i \in 1..pAudioBuffer'[buffer_counter].pos :
          pAudioBuffer'[buffer_counter].data[i] = block.id
    BY <2>1 DEF CopiedInv
  <2> QED BY <1>0, <2>1, <2>2, <2>3, <2>4 DEF PoolGrows
<1>4. CASE ProcessPush
  <2>1. UNCHANGED <<pAudioBuffer, block>> /\ callback' = "idle"
    BY <1>4 DEF ProcessPush
  <2> QED BY <1>0, <2>1 DEF PoolGrows, CopiedInv
<1> QED BY <1>1, <1>2, <1>3, <1>4 DEF Process

\* So a buffer that holds nothing older still does.
LEMMA StillNotOlder ==
  ASSUME TypeOK, TypeOK', PoolGrows, NEW b \in Buffers, NEW id \in Nat, id <= block.id
  PROVE  /\ NotOlder(b, pAudioBuffer[b].pos, id) =>
              \A i \in 1..pAudioBuffer'[b].pos : pAudioBuffer'[b].data[i] >= id
         /\ \A n \in Lengths : NotOlder(b, n, id) =>
              \A i \in 1..n : pAudioBuffer'[b].data[i] >= id
<1>1. /\ pAudioBuffer[b].pos \in Lengths /\ block.id \in Nat
      /\ \A i \in Samples : pAudioBuffer[b].data[i] \in Nat /\ pAudioBuffer'[b].data[i] \in Nat
  <2>1. /\ pAudioBuffer \in [Buffers -> [pos : Lengths, data : [Samples -> Nat]]]
        /\ pAudioBuffer' \in [Buffers -> [pos : Lengths, data : [Samples -> Nat]]]
        /\ block \in [id : Nat, length : Lengths, copied : Lengths]
    BY DEF TypeOK
  <2> QED BY ONLY <2>1, b \in Buffers
<1>2. ASSUME NEW n \in Lengths, NotOlder(b, n, id), NEW i \in 1..n
      PROVE  pAudioBuffer'[b].data[i] >= id
  <2>1. i \in Samples
    BY Sizes DEF Lengths, Samples
  <2> QED BY <1>1, <1>2, <2>1 DEF NotOlder, PoolGrows
<1>3. CASE pAudioBuffer'[b].pos = pAudioBuffer[b].pos
  BY <1>1, <1>2, <1>3
<1>4. CASE \A i \in 1..pAudioBuffer'[b].pos : pAudioBuffer'[b].data[i] = block.id
  BY <1>1, <1>2, <1>4
<1> QED BY <1>2, <1>3, <1>4 DEF PoolGrows

LEMMA AgeStepProcess ==
  ASSUME TypeOK, TypeOK', ProgressInv, CountInv, AgeInv, Process
  PROVE  AgeInv'
<1>0. UNCHANGED <<worker, buffer, function, reading, popped, seen>>
  BY DEF Process, ProcessBegin, ProcessCopy, ProcessLength, ProcessPush, workerVars
<1>1. /\ Len(sent) \in Nat /\ popped \in Nat /\ Len(lockFreeQueue) \in Nat
      /\ Len(sent) = popped + Len(lockFreeQueue)
      /\ Busy => popped \in 1..Len(sent)
  BY BacklogCounts DEF CountInv
<1>2. /\ PoolGrows /\ CopiedInv'
      /\ \A b \in Buffers : \A i \in Samples : pAudioBuffer'[b].data[i] <= block'.id
  BY PoolStep DEF AgeInv
<1>3. \A k \in 1..Len(sent) : sent[k].id \in Nat /\ sent[k].id <= block.id
  <2>1. sent \in Seq(Blocks)
    BY DEF TypeOK
  <2>2. \A k \in 1..Len(sent) : sent[k] \in Blocks
    BY ONLY <2>1, EntriesTyped
  <2>3. \A r \in Blocks : r.id \in Nat
    BY ONLY TRUE DEF Blocks
  <2> QED BY <2>2, <2>3 DEF AgeInv, NoneNewer
<1>4. /\ block.id \in Nat /\ block'.id \in Nat /\ buffer \in Buffers
      /\ reading.length \in Lengths
      /\ \A i \in 1..Len(lockFreeQueue) : lockFreeQueue[i] \in Buffers
  <2>1. /\ block \in [id : Nat, length : Lengths, copied : Lengths]
        /\ block' \in [id : Nat, length : Lengths, copied : Lengths]
        /\ buffer \in Buffers /\ lockFreeQueue \in Seq(Buffers)
        /\ reading \in [length : Lengths, data : Seq(Nat)]
    BY DEF TypeOK
  <2> QED BY ONLY <2>1
\* The blocks accepted so far stay as they are, and what is said of them with them.
<1>5. ASSUME \A k \in 1..Len(sent) : sent'[k] = sent[k]
      PROVE  HeldNotOlder' /\ SeenNotOlder'
  <2>1. HeldNotOlder'
    <3> SUFFICES ASSUME Busy
                 PROVE  /\ \A i \in 1..pAudioBuffer'[buffer].pos :
                             pAudioBuffer'[buffer].data[i] >= sent[popped].id
                        /\ worker = "read" =>
                             /\ \A i \in 1..reading.length :
                                  pAudioBuffer'[buffer].data[i] >= sent[popped].id
                             /\ \A i \in 1..Len(reading.data) : reading.data[i] >= sent[popped].id
      BY <1>0, <1>1, <1>5 DEF HeldNotOlder, NotOlder, Busy
    <3>1. popped \in 1..Len(sent)
      BY <1>1
    <3> QED BY <1>2, <1>3, <1>4, <3>1, StillNotOlder DEF AgeInv, HeldNotOlder
  <2>2. SeenNotOlder'
    <3>1. \A j \in 1..Len(seen) : seen[j].nth \in 1..Len(sent)
      <4>1. \A j \in 1..Len(seen) : seen[j].nth \in 1..popped
        BY DEF AgeInv, SeenNotOlder
      <4> QED BY ONLY <1>1, <4>1
    <3> QED BY <1>0, <1>5, <3>1 DEF AgeInv, SeenNotOlder
  <2> QED BY <2>1, <2>2
\* So do the buffers waiting.
<1>6. \A i \in 1..Len(lockFreeQueue) :
        \A s \in 1..pAudioBuffer'[lockFreeQueue[i]].pos :
          pAudioBuffer'[lockFreeQueue[i]].data[s] >= sent[popped + i].id
  <2> SUFFICES ASSUME NEW i \in 1..Len(lockFreeQueue)
               PROVE  \A s \in 1..pAudioBuffer'[lockFreeQueue[i]].pos :
                        pAudioBuffer'[lockFreeQueue[i]].data[s] >= sent[popped + i].id
    OBVIOUS
  <2>1. popped + i \in 1..Len(sent)
    BY <1>1
  <2>2. NotOlder(lockFreeQueue[i], pAudioBuffer[lockFreeQueue[i]].pos, sent[popped + i].id)
    BY DEF AgeInv, WaitingNotOlder
  <2> QED BY <1>2, <1>3, <1>4, <2>1, <2>2, StillNotOlder
<1>7. CASE UNCHANGED <<sent, lockFreeQueue>>
  <2>1. NoneNewer'
    BY <1>2, <1>3, <1>4, <1>7 DEF NoneNewer, PoolGrows
  <2>2. WaitingNotOlder'
    BY <1>0, <1>6, <1>7 DEF WaitingNotOlder, NotOlder
  <2> QED BY <1>2, <1>5, <1>7, <2>1, <2>2 DEF AgeInv
<1>8. CASE ProcessPush /\ lockFreeQueue' = Append(lockFreeQueue, buffer_counter)
             /\ sent' = Append(sent, [id |-> block.id, length |-> block.length])
  <2>1. /\ Len(sent') = Len(sent) + 1 /\ Len(lockFreeQueue') = Len(lockFreeQueue) + 1
        /\ \A k \in 1..Len(sent) : sent'[k] = sent[k]
        /\ sent'[Len(sent) + 1] = [id |-> block.id, length |-> block.length]
        /\ \A i \in 1..Len(lockFreeQueue) : lockFreeQueue'[i] = lockFreeQueue[i]
        /\ lockFreeQueue'[Len(lockFreeQueue) + 1] = buffer_counter
    <3>1. sent \in Seq(Blocks) /\ lockFreeQueue \in Seq(Buffers)
      BY DEF TypeOK
    <3> QED BY ONLY <1>8, <3>1
  <2>2. UNCHANGED <<block, pAudioBuffer>> /\ callback = "push"
    BY <1>8 DEF ProcessPush
  <2>3. NoneNewer'
    <3>1. \A k \in 1..Len(sent') : k \in 1..Len(sent) \/ k = Len(sent) + 1
      BY <1>1, <2>1
    <3>2. \A k \in 1..Len(sent') : sent'[k].id <= block.id
      BY <1>3, <1>4, <2>1, <3>1
    <3> QED BY <1>2, <2>2, <3>2 DEF NoneNewer
  <2>4. \A s \in 1..pAudioBuffer[buffer_counter].pos :
          pAudioBuffer[buffer_counter].data[s] >= block.id
    BY <1>4, <2>2 DEF AgeInv, CopiedInv
  <2>5. WaitingNotOlder'
    <3> SUFFICES ASSUME NEW i \in 1..Len(lockFreeQueue')
                 PROVE  \A s \in 1..pAudioBuffer[lockFreeQueue'[i]].pos :
                          pAudioBuffer[lockFreeQueue'[i]].data[s] >= sent'[popped + i].id
      BY <1>0, <2>2 DEF WaitingNotOlder, NotOlder
    <3>1. CASE i \in 1..Len(lockFreeQueue)
      <4>1. popped + i \in 1..Len(sent)
        BY <1>1, <3>1
      <4> QED BY <1>6, <2>1, <2>2, <3>1, <4>1
    <3>2. CASE i = Len(lockFreeQueue) + 1
      <4>1. popped + i = Len(sent) + 1
        BY <1>1, <3>2
      <4> QED BY <2>1, <2>4, <3>2, <4>1
    <3> QED BY <1>1, <2>1, <3>1, <3>2
  <2> QED BY <1>2, <1>5, <2>1, <2>3, <2>5 DEF AgeInv
<1> QED BY <1>7, <1>8 DEF Process, ProcessBegin, ProcessCopy, ProcessLength, ProcessPush

LEMMA AgeStepWorker ==
  ASSUME TypeOK, TypeOK', ProgressInv, CountInv, AgeInv, Worker
  PROVE  AgeInv'
<1>0. UNCHANGED <<pAudioBuffer, buffer_counter, callback, block, sent>>
  BY DEF Worker, WorkerPop, WorkerSleep, WorkerWake, WorkerNoMoreFunctions,
         DiskWriteBegin, DiskWriteRead, DiskWriteEnd, CheckNotify, callbackVars
<1>1. /\ Len(sent) \in Nat /\ popped \in Nat /\ Len(lockFreeQueue) \in Nat
      /\ Len(sent) = popped + Len(lockFreeQueue)
      /\ Busy => popped \in 1..Len(sent)
  BY BacklogCounts DEF CountInv
<1>2. CopiedInv' /\ NoneNewer'
  BY <1>0 DEF AgeInv, CopiedInv, NoneNewer
<1>3. CASE WorkerPop
  <2>1. /\ worker = "poll" /\ worker' = "run" /\ popped' = popped + 1 /\ UNCHANGED seen
        /\ Len(lockFreeQueue) >= 1 /\ Len(lockFreeQueue') = Len(lockFreeQueue) - 1
        /\ buffer' = lockFreeQueue[1]
        /\ \A i \in 1..Len(lockFreeQueue') : lockFreeQueue'[i] = lockFreeQueue[i + 1]
    <3>1. lockFreeQueue \in Seq(Buffers) /\ lockFreeQueue # <<>>
      BY <1>3 DEF WorkerPop, TypeOK
    <3> QED BY <1>3, <3>1 DEF WorkerPop
  <2>2. WaitingNotOlder'
    <3> SUFFICES ASSUME NEW i \in 1..Len(lockFreeQueue')
                 PROVE  NotOlder(lockFreeQueue[i + 1], pAudioBuffer[lockFreeQueue[i + 1]].pos,
                                 sent[popped + 1 + i].id)
      BY <1>0, <2>1 DEF WaitingNotOlder, NotOlder
    <3>1. i + 1 \in 1..Len(lockFreeQueue) /\ popped + 1 + i = popped + (i + 1)
      BY <1>1, <2>1
    <3> QED BY <3>1 DEF AgeInv, WaitingNotOlder
  <2>3. HeldNotOlder'
    <3>1. NotOlder(lockFreeQueue[1], pAudioBuffer[lockFreeQueue[1]].pos, sent[popped + 1].id)
      BY <1>1, <2>1 DEF AgeInv, WaitingNotOlder
    <3> QED BY <1>0, <2>1, <3>1 DEF HeldNotOlder, NotOlder
  <2>4. SeenNotOlder'
    <3>1. \A j \in 1..Len(seen) : seen[j].nth \in 1..popped + 1
      BY <1>1 DEF AgeInv, SeenNotOlder
    <3> QED BY <1>0, <2>1, <3>1 DEF AgeInv, SeenNotOlder
  <2> QED BY <1>2, <2>2, <2>3, <2>4 DEF AgeInv
<1>4. ASSUME UNCHANGED <<lockFreeQueue, popped, seen, buffer>>
      PROVE  WaitingNotOlder' /\ SeenNotOlder'
             /\ (Busy => \A i \in 1..pAudioBuffer[buffer].pos :
                           pAudioBuffer[buffer].data[i] >= sent[popped].id)
  BY <1>0, <1>4 DEF AgeInv, WaitingNotOlder, SeenNotOlder, HeldNotOlder, NotOlder
<1>5. CASE WorkerSleep \/ WorkerWake \/ WorkerNoMoreFunctions \/ CheckNotify
  <2>1. UNCHANGED <<lockFreeQueue, popped, seen, buffer>> /\ worker' # "read" /\ (Busy' => Busy)
    BY <1>5 DEF WorkerSleep, WorkerWake, WorkerNoMoreFunctions, CheckNotify, Busy
  <2>2. HeldNotOlder'
    BY <1>0, <1>4, <2>1 DEF HeldNotOlder, NotOlder
  <2> QED BY <1>2, <1>4, <2>1, <2>2 DEF AgeInv
<1>6. CASE DiskWriteBegin
  <2>1. /\ UNCHANGED <<lockFreeQueue, popped, seen, buffer>> /\ Busy /\ worker' = "read"
        /\ reading'.length = pAudioBuffer[buffer].pos /\ reading'.data = <<>>
    BY <1>6 DEF DiskWriteBegin, Busy
  <2>2. HeldNotOlder'
    BY <1>0, <1>4, <2>1 DEF HeldNotOlder, NotOlder
  <2> QED BY <1>2, <1>4, <2>1, <2>2 DEF AgeInv
<1>7. CASE DiskWriteRead
  <2> DEFINE n == Len(reading.data)
             sample == pAudioBuffer[buffer].data[n + 1]
  <2>1. UNCHANGED <<lockFreeQueue, popped, seen, buffer, worker>> /\ worker = "read"
        /\ n < reading.length
        /\ reading' = [reading EXCEPT !.data = Append(@, pAudioBuffer[buffer].data[Len(@) + 1])]
    BY <1>7 DEF DiskWriteRead
  <2>2. reading \in [length : Lengths, data : Seq(Nat)]
    BY DEF TypeOK
  <2>3. reading.data \in Seq(Nat) /\ reading.length \in Nat
    BY ONLY <2>2, Sizes DEF Lengths
  <2>4. reading'.length = reading.length /\ reading'.data = Append(reading.data, sample)
    BY ONLY <2>1, <2>2
  <2>5. sample >= sent[popped].id
    <3>1. n + 1 \in 1..reading.length
      BY <2>1, <2>3
    <3> QED BY <2>1, <3>1 DEF AgeInv, HeldNotOlder, NotOlder
  <2>6. \A i \in 1..n : reading.data[i] >= sent[popped].id
    BY <2>1 DEF AgeInv, HeldNotOlder
  <2>7. \A i \in 1..Len(reading'.data) : reading'.data[i] >= sent[popped].id
    <3>1. n = Len(reading.data)
      OBVIOUS
    <3> HIDE DEF n, sample
    <3> QED BY ONLY <2>3, <2>4, <2>5, <2>6, <3>1
  <2>8. HeldNotOlder'
    <3>1. Busy /\ NotOlder(buffer, reading.length, sent[popped].id)
      BY <2>1 DEF AgeInv, HeldNotOlder, Busy
    <3> QED BY <1>0, <1>4, <2>1, <2>4, <2>7, <3>1 DEF HeldNotOlder, NotOlder
  <2> QED BY <1>2, <1>4, <2>1, <2>8 DEF AgeInv
<1>8. CASE DiskWriteEnd
  <2>1. /\ UNCHANGED <<lockFreeQueue, popped, buffer>>
        /\ worker = "read" /\ worker' = "run"
        /\ seen' = Append(seen, [nth |-> popped, data |-> reading.data])
    BY <1>8 DEF DiskWriteEnd
  <2>2. /\ Len(seen') = Len(seen) + 1 /\ Len(seen) \in Nat
        /\ \A j \in 1..Len(seen) : seen'[j] = seen[j]
        /\ seen'[Len(seen) + 1] = [nth |-> popped, data |-> reading.data]
    <3>1. seen \in Seq([nth : Nat, data : Seq(Nat)])
      BY DEF TypeOK
    <3> QED BY ONLY <2>1, <3>1
  <2>3. popped \in 1..popped /\ \A i \in 1..Len(reading.data) : reading.data[i] >= sent[popped].id
    BY <1>1, <2>1 DEF AgeInv, HeldNotOlder, Busy
  <2>4. SeenNotOlder'
    <3> SUFFICES ASSUME NEW j \in 1..Len(seen')
                 PROVE  /\ seen'[j].nth \in 1..popped
                        /\ \A i \in 1..Len(seen'[j].data) : seen'[j].data[i] >= sent[seen'[j].nth].id
      BY <1>0, <2>1 DEF SeenNotOlder
    <3>1. CASE j \in 1..Len(seen)
      BY <2>2, <3>1 DEF AgeInv, SeenNotOlder
    <3>2. CASE j = Len(seen) + 1
      <4>1. seen'[j].nth = popped /\ seen'[j].data = reading.data
        BY <2>2, <3>2
      <4> QED BY <2>3, <4>1
    <3> QED BY <2>2, <3>1, <3>2
  <2>5. HeldNotOlder' /\ WaitingNotOlder'
    BY <1>0, <2>1 DEF AgeInv, HeldNotOlder, WaitingNotOlder, NotOlder, Busy
  <2> QED BY <1>2, <2>4, <2>5 DEF AgeInv
<1> QED BY <1>3, <1>5, <1>6, <1>7, <1>8 DEF Worker

\* Even after an overrun disk_write takes no sample for newer than it is
\* (LockFreeQueue.cpp:82-93, FileWriter.cpp:260-261), for blocks of any lengths.
THEOREM LateIsNewer == Spec => []NeverOlder
<1>1. Init => AgeInv
  <2>1. Init => Len(sent) = 0 /\ Len(lockFreeQueue) = 0 /\ Len(seen) = 0 /\ ~Busy
    BY DEF Init, Busy
  <2>2. Init => \A b \in Buffers : \A i \in Samples : pAudioBuffer[b].data[i] <= block.id
    BY DEF Init
  <2> QED BY <2>1, <2>2 DEF Init, AgeInv, CopiedInv, NoneNewer, WaitingNotOlder, HeldNotOlder,
             SeenNotOlder, Busy
<1>2. ASSUME TypeOK, TypeOK', ProgressInv, OrderInv, AgeInv, [Next]_vars
      PROVE  AgeInv'
  <2>1. CountInv
    BY <1>2 DEF OrderInv
  <2>2. CASE Process
    BY <1>2, <2>1, <2>2, AgeStepProcess
  <2>3. CASE Worker
    BY <1>2, <2>1, <2>3, AgeStepWorker
  <2>4. CASE Engine
    <3>1. /\ UNCHANGED <<pAudioBuffer, lockFreeQueue, callback, block, sent, workerVars>>
          /\ buffer_counter' = buffer_counter \/ callback = "idle"
      BY <2>1, <2>4 DEF Engine, InitManager, AddFunction, callbackVars, CountInv
    <3> QED BY <1>2, <3>1 DEF AgeInv, CopiedInv, NoneNewer, WaitingNotOlder, HeldNotOlder,
               SeenNotOlder, NotOlder, Busy, workerVars
  <2>5. CASE UNCHANGED vars
    BY <1>2, <2>5 DEF vars, callbackVars, workerVars, AgeInv, CopiedInv, NoneNewer,
       WaitingNotOlder, HeldNotOlder, SeenNotOlder, NotOlder, Busy
  <2> QED BY <1>2, <2>2, <2>3, <2>4, <2>5 DEF Next
<1>3. TypeOK /\ AgeInv => NeverOlder
  <2> SUFFICES ASSUME TypeOK, AgeInv PROVE NeverOlder
    OBVIOUS
  <2>1. seen \in Seq([nth : Nat, data : Seq(Nat)])
    BY DEF TypeOK
  <2>2. \A j \in 1..Len(seen) : seen[j] \in [nth : Nat, data : Seq(Nat)]
    BY ONLY <2>1, EntriesTyped
  <2>3. \A d \in Seq(Nat) : DOMAIN d = 1..Len(d)
    OBVIOUS
  <2> QED BY <2>2, <2>3 DEF NeverOlder, AgeInv, SeenNotOlder
<1> QED BY <1>1, <1>2, <1>3, ManagerTyped, OrderHolds, PTL DEF Spec
=============================================================================
