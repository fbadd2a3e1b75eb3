------------------------ MODULE LockFreeQueueManager ------------------------
(***************************************************************************)
(* LockFreeQueueManager of src/LockFreeQueue.cpp: the JACK callback copies *)
(* each block of samples into the next buffer of a pool and pushes that    *)
(* buffer; a worker thread pops buffers and runs the registered functions  *)
(* on each.                                                                *)
(*                                                                         *)
(* The pool is a ring of SpareBuffers buffers that process() fills in turn *)
(* without asking whether the buffer it is about to fill is still queued   *)
(* or still being read; it also ignores that push may refuse.  The model   *)
(* keeps that: a fill is one step per sample, a read is one step per       *)
(* sample, and the two meet in the same buffer when the worker is late.    *)
(*                                                                         *)
(* The queue itself is the atomic bounded FIFO that LockFreeQueue is shown *)
(* to implement.  Samples are abstracted to the number of the block they   *)
(* belong to, so a buffer whose samples carry two numbers is torn.         *)
(***************************************************************************)
EXTENDS Integers, Sequences

CONSTANTS SpareBuffers,  \* SPARE_BUFFERS, the size of the pool
          LockFreeSize,  \* LOCK_FREE_SIZE, the capacity of the queue
          BufferSize,    \* buffer_size: the samples a buffer has room for
          BlockLengths,  \* the block lengths JACK asks for
          MaxBlocks      \* bound: how many blocks are captured

\* Both sizes are 128 in the code; what is said here needs only that the pool is
\* no larger than the queue.  BufferSize is JACK's period when init() runs; no
\* callback tells the program when the period grows, and process() does not
\* compare, so that it does not grow is assumed.
ASSUME ManagerAssumption ==
  /\ SpareBuffers \in Nat \ {0}
  /\ LockFreeSize \in Nat
  /\ SpareBuffers <= LockFreeSize
  /\ BufferSize \in Nat
  /\ BlockLengths \subseteq 1..BufferSize
  /\ MaxBlocks \in Nat

VARIABLES ready,           \* the pool exists and the worker runs
          functions_count, \* how many functions are registered so far
          pAudioBuffer,    \* the pool: per buffer its length and its samples
          buffer_counter,  \* the buffer the next block goes to
          lockFreeQueue,   \* buffers pushed and not yet popped
          callback,        \* where the JACK callback is inside process()
          block,           \* the block being copied: its number and length
          worker,          \* where the worker thread is inside main()
          buffer,          \* the buffer the worker has popped last
          function,        \* index of the function the worker runs
          reading          \* what disk_write has read of the buffer so far

\* history
VARIABLES sent,      \* the blocks whose buffer was accepted by push, in order
          popped,    \* how many of them the worker has popped
          refused,   \* how many pushes were refused
          seen,      \* what disk_write has read, one entry per block
          overrun    \* a fill began on a buffer still queued or being read

engineVars == <<ready, functions_count>>
callbackVars == <<buffer_counter, callback, block, sent, refused, overrun>>
workerVars == <<worker, buffer, function, reading, popped, seen>>
vars == <<engineVars, pAudioBuffer, lockFreeQueue, callbackVars, workerVars>>

Buffers == 0..SpareBuffers - 1
Samples == 1..BufferSize
Lengths == 0..BufferSize
Blocks == [id : Nat, length : Lengths]

\* The functions Engine registers, in this order (engine.cc:166-167): far fewer
\* than MAX_FUNCTIONS, so add_function never refuses one.
functions == <<"disk_write", "check_notify">>

TypeOK ==
  /\ ready \in BOOLEAN
  /\ functions_count \in 0..Len(functions)
  /\ pAudioBuffer \in [Buffers -> [pos : Lengths, data : [Samples -> Nat]]]
  /\ buffer_counter \in Buffers
  /\ lockFreeQueue \in Seq(Buffers)
  /\ callback \in {"idle", "copy", "length", "push"}
  /\ block \in [id : Nat, length : Lengths, copied : Lengths]
  /\ worker \in {"poll", "run", "read", "sleep"}
  /\ buffer \in Buffers
  /\ function \in 0..Len(functions) + 1
  /\ reading \in [length : Lengths, data : Seq(Nat)]
  /\ sent \in Seq(Blocks)
  /\ popped \in Nat
  /\ refused \in Nat
  /\ seen \in Seq([nth : Nat, data : Seq(Nat)])
  /\ overrun \in BOOLEAN

Init ==
  /\ ready = FALSE
  /\ functions_count = 0
  /\ pAudioBuffer = [b \in Buffers |-> [pos |-> 0, data |-> [s \in Samples |-> 0]]]
  /\ buffer_counter = 0
  /\ lockFreeQueue = <<>>
  /\ callback = "idle"
  /\ block = [id |-> 0, length |-> 0, copied |-> 0]
  /\ worker = "poll"
  /\ buffer = 0
  /\ function = 0
  /\ reading = [length |-> 0, data |-> <<>>]
  /\ sent = <<>>
  /\ popped = 0
  /\ refused = 0
  /\ seen = <<>>
  /\ overrun = FALSE

-----------------------------------------------------------------------------
(* The Engine constructor, on the GTK thread *)

\* init(): the pool is allocated, then the worker thread starts.  JACK has been
\* calling back since openAudio, but process() returns at once until now.
InitManager ==
  /\ ~ready
  /\ buffer_counter' = 0
  /\ ready' = TRUE
  /\ UNCHANGED <<functions_count, pAudioBuffer, lockFreeQueue, callback, block, sent,
                 refused, overrun, workerVars>>

AddFunction ==
  /\ ready
  /\ functions_count < Len(functions)
  /\ functions_count' = functions_count + 1
  /\ UNCHANGED <<ready, pAudioBuffer, lockFreeQueue, callbackVars, workerVars>>

-----------------------------------------------------------------------------
(* process(), on the JACK thread *)

\* The worker uses a buffer from the pop that returned it to the end of the last
\* function it runs on it.
Busy == worker \in {"run", "read"}
Held == IF Busy THEN {buffer} ELSE {}
Waiting == {lockFreeQueue[i] : i \in 1..Len(lockFreeQueue)}

Backlog == Len(lockFreeQueue) + (IF Busy THEN 1 ELSE 0)

ProcessBegin(n) ==
  /\ callback = "idle"
  /\ ready
  /\ block.id < MaxBlocks
  /\ block' = [id |-> block.id + 1, length |-> n, copied |-> 0]
  /\ callback' = "copy"
  /\ overrun' = (overrun \/ buffer_counter \in Waiting \cup Held)
  /\ UNCHANGED <<engineVars, pAudioBuffer, lockFreeQueue, buffer_counter, sent,
                 refused, workerVars>>

\* mutation: the copy stops one sample short
ProcessCopyShort ==
  /\ callback = "copy"
  /\ pAudioBuffer' =
       [pAudioBuffer EXCEPT ![buffer_counter].data[block.copied + 1] = block.id]
  /\ block' = [block EXCEPT !.copied = @ + 1]
  /\ callback' = IF block.copied + 2 >= block.length THEN "length" ELSE "copy"
  /\ UNCHANGED <<engineVars, lockFreeQueue, buffer_counter, sent, refused, overrun,
                 workerVars>>

ProcessCopy ==
  /\ callback = "copy"
  /\ pAudioBuffer' =
       [pAudioBuffer EXCEPT ![buffer_counter].data[block.copied + 1] = block.id]
  /\ block' = [block EXCEPT !.copied = @ + 1]
  /\ callback' = IF block.copied + 1 = block.length THEN "length" ELSE "copy"
  /\ UNCHANGED <<engineVars, lockFreeQueue, buffer_counter, sent, refused, overrun,
                 workerVars>>

ProcessLength ==
  /\ callback = "length"
  /\ pAudioBuffer' = [pAudioBuffer EXCEPT ![buffer_counter].pos = block.length]
  /\ callback' = "push"
  /\ UNCHANGED <<engineVars, lockFreeQueue, buffer_counter, block, sent, refused,
                 overrun, workerVars>>

\* mutation: the counter wraps one buffer late
nextBufferLate(b) == IF b + 1 > SpareBuffers THEN 0 ELSE b + 1

\* mutation: the last buffer of the pool is never used
nextBufferEarly(b) == IF b + 2 >= SpareBuffers THEN 0 ELSE b + 1

nextBuffer(b) == IF b + 1 >= SpareBuffers THEN 0 ELSE b + 1

\* mutation: the queue is shorter than the pool by one
ProcessPushSmallQueue ==
  /\ callback = "push"
  /\ \/ /\ Len(lockFreeQueue) < LockFreeSize - 1
        /\ lockFreeQueue' = Append(lockFreeQueue, buffer_counter)
        /\ sent' = Append(sent, [id |-> block.id, length |-> block.length])
        /\ UNCHANGED refused
     \/ /\ Len(lockFreeQueue) >= LockFreeSize - 1
        /\ refused' = refused + 1
        /\ UNCHANGED <<lockFreeQueue, sent>>
  /\ buffer_counter' = nextBuffer(buffer_counter)
  /\ callback' = "idle"
  /\ UNCHANGED <<engineVars, pAudioBuffer, block, overrun, workerVars>>

\* mutation: the counter moves on before the push
ProcessPushAdvancesFirst ==
  /\ callback = "push"
  /\ Len(lockFreeQueue) < LockFreeSize
  /\ lockFreeQueue' = Append(lockFreeQueue, nextBuffer(buffer_counter))
  /\ sent' = Append(sent, [id |-> block.id, length |-> block.length])
  /\ buffer_counter' = nextBuffer(buffer_counter)
  /\ callback' = "idle"
  /\ UNCHANGED <<engineVars, pAudioBuffer, block, refused, overrun, workerVars>>

\* What push does is decided here; that it may refuse is ignored, and the counter
\* moves on all the same.
ProcessPush ==
  /\ callback = "push"
  /\ \/ /\ Len(lockFreeQueue) < LockFreeSize
        /\ lockFreeQueue' = Append(lockFreeQueue, buffer_counter)
        /\ sent' = Append(sent, [id |-> block.id, length |-> block.length])
        /\ UNCHANGED refused
     \/ /\ Len(lockFreeQueue) = LockFreeSize
        /\ refused' = refused + 1
        /\ UNCHANGED <<lockFreeQueue, sent>>
  /\ buffer_counter' = nextBuffer(buffer_counter)
  /\ callback' = "idle"
  /\ UNCHANGED <<engineVars, pAudioBuffer, block, overrun, workerVars>>

-----------------------------------------------------------------------------
(* main(), on the worker thread *)

WorkerPop ==
  /\ worker = "poll"
  /\ ready
  /\ lockFreeQueue # <<>>
  /\ buffer' = Head(lockFreeQueue)
  /\ lockFreeQueue' = Tail(lockFreeQueue)
  /\ popped' = popped + 1
  /\ function' = 1
  /\ worker' = "run"
  /\ UNCHANGED <<engineVars, pAudioBuffer, callbackVars, reading, seen>>

WorkerSleep ==
  /\ worker = "poll"
  /\ ready
  /\ lockFreeQueue = <<>>
  /\ worker' = "sleep"
  /\ UNCHANGED <<engineVars, pAudioBuffer, lockFreeQueue, callbackVars, buffer,
                 function, reading, popped, seen>>

WorkerWake ==
  /\ worker = "sleep"
  /\ worker' = "poll"
  /\ UNCHANGED <<engineVars, pAudioBuffer, lockFreeQueue, callbackVars, buffer,
                 function, reading, popped, seen>>

\* mutation: the loop ends at the functions there will be, not those registered
WorkerNoMoreFunctionsEver ==
  /\ worker = "run"
  /\ function > Len(functions)
  /\ worker' = "poll"
  /\ UNCHANGED <<engineVars, pAudioBuffer, lockFreeQueue, callbackVars, buffer,
                 function, reading, popped, seen>>

\* The loop over the functions ends at the count as it is now: a block popped
\* before a function is registered is not given to it.
WorkerNoMoreFunctions ==
  /\ worker = "run"
  /\ function > functions_count
  /\ worker' = "poll"
  /\ UNCHANGED <<engineVars, pAudioBuffer, lockFreeQueue, callbackVars, buffer,
                 function, reading, popped, seen>>

\* disk_write takes the length and then reads that many samples.
DiskWriteBegin ==
  /\ worker = "run"
  /\ function <= functions_count
  /\ functions[function] = "disk_write"
  /\ reading' = [length |-> pAudioBuffer[buffer].pos, data |-> <<>>]
  /\ worker' = "read"
  /\ UNCHANGED <<engineVars, pAudioBuffer, lockFreeQueue, callbackVars, buffer,
                 function, popped, seen>>

DiskWriteRead ==
  /\ worker = "read"
  /\ Len(reading.data) < reading.length
  /\ reading' = [reading EXCEPT
       !.data = Append(@, pAudioBuffer[buffer].data[Len(@) + 1])]
  /\ UNCHANGED <<engineVars, pAudioBuffer, lockFreeQueue, callbackVars, worker,
                 buffer, function, popped, seen>>

DiskWriteEnd ==
  /\ worker = "read"
  /\ Len(reading.data) = reading.length
  /\ seen' = Append(seen, [nth |-> popped, data |-> reading.data])
  /\ function' = function + 1
  /\ worker' = "run"
  /\ UNCHANGED <<engineVars, pAudioBuffer, lockFreeQueue, callbackVars, buffer,
                 reading, popped>>

\* check_notify does not look at the buffer it is given.
CheckNotify ==
  /\ worker = "run"
  /\ function <= functions_count
  /\ functions[function] = "check_notify"
  /\ function' = function + 1
  /\ UNCHANGED <<engineVars, pAudioBuffer, lockFreeQueue, callbackVars, worker,
                 buffer, reading, popped, seen>>

-----------------------------------------------------------------------------
Engine == InitManager \/ AddFunction

Process ==
  \/ \E n \in BlockLengths : ProcessBegin(n)
  \/ ProcessCopy
  \/ ProcessLength
  \/ ProcessPush

Worker ==
  \/ WorkerPop
  \/ WorkerSleep
  \/ WorkerWake
  \/ WorkerNoMoreFunctions
  \/ DiskWriteBegin
  \/ DiskWriteRead
  \/ DiskWriteEnd
  \/ CheckNotify

Next == Engine \/ Process \/ Worker

Spec == Init /\ [][Next]_vars

\* The worker is an ordinary thread whose sleep ends: it always takes its next
\* step in time.  Nothing is assumed of JACK or of the user.
FairSpec == Spec /\ WF_vars(Worker)

-----------------------------------------------------------------------------
(* Properties *)

\* While no fill has run into a buffer still in use, disk_write sees the blocks
\* the callback sent, each once, in order and whole: every sample carries the
\* number of the block, and there are as many as the block is long
\* (LockFreeQueue.cpp:82-88 against FileWriter.cpp:260-261).
WholeAndInOrder ==
  ~overrun =>
    /\ \A j \in 1..Len(seen) :
         /\ seen[j].nth \in 1..Len(sent)
         /\ seen[j].data = [i \in 1..sent[seen[j].nth].length |-> sent[seen[j].nth].id]
    /\ \A j, k \in 1..Len(seen) : j < k => seen[j].nth < seen[k].nth

\* A fill can run into a buffer still in use (LockFreeQueue.cpp:82-85) only once
\* as many blocks are queued or being read as the pool has buffers: with a
\* smaller backlog the turn of the counter protects every one of them.
OverrunNeedsFullPool ==
  [][~overrun /\ overrun' => Backlog >= SpareBuffers]_vars

\* The queue is no smaller than the pool, so push never refuses a block
\* (LockFreeQueue.cpp:88) before an earlier one has been overwritten: dropping
\* the newest block, the queue's answer to a late worker, comes too late.
RefusedOnlyAfterOverrun == refused > 0 => overrun

\* Every block that push accepted is popped, and the functions run on it to the
\* end, however late the worker is (LockFreeQueue.cpp:102-113).
EveryBlockProcessed ==
  \A k \in 1..MaxBlocks :
    Len(sent) >= k ~> popped >= k /\ worker \in {"poll", "sleep"}

\* Even after an overrun a sample is never older than the block it is taken for:
\* a late worker writes newer audio in place of older, never older for newer.
\* This holds for blocks of any lengths (LockFreeQueue.cpp:82-87): the length is set
\* after the samples, and until then is that of a block that was whole.
NeverOlder ==
  \A j \in 1..Len(seen) :
    \A i \in DOMAIN seen[j].data : seen[j].data[i] >= sent[seen[j].nth].id
=============================================================================
