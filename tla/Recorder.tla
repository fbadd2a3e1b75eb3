------------------------------ MODULE Recorder ------------------------------
(***************************************************************************)
(* Recording, as three threads make it: the JACK callback queues blocks    *)
(* (src/process.cc), the worker hands each to FileWriter::disk_write, and  *)
(* the GTK thread starts and stops recordings and silences the callback    *)
(* while it changes the plugin chain (src/FileWriter.cpp, src/engine.cc).  *)
(* Nothing but the flag `ready' keeps disk_write from the encoder and the  *)
(* file while the GTK thread opens or closes them.                         *)
(*                                                                         *)
(* Blocks are numbered as JACK delivers them.  What is in their samples,   *)
(* and the pool they travel in, is LockFreeQueueManager's.  The encoder is *)
(* abstracted to one block in, one block out, or an error and the block is *)
(* lost.  Only MP3 is modelled: it is the initial fileType and nothing     *)
(* calls the setter.                                                       *)
(***************************************************************************)
EXTENDS Integers, Sequences

CONSTANTS LockFreeSize,  \* LOCK_FREE_SIZE, the capacity of the queue
          MaxBlocks,     \* bound: how many blocks JACK delivers
          MaxRecordings  \* bound: how many recordings are started

ASSUME RecorderAssumption ==
  /\ LockFreeSize \in Nat
  /\ MaxBlocks \in Nat
  /\ MaxRecordings \in Nat

VARIABLES bypass,        \* the callback neither runs plugins nor queues
          callback,      \* where the JACK callback is
          captured,      \* how many blocks JACK has delivered
          lockFreeQueue, \* blocks pushed and not yet popped
          worker,        \* where the worker is inside disk_write
          buffer,        \* the block it was given last
          encoded,       \* what mp3_buffer holds: a block, or Garbage
          gtk,           \* where the GTK thread is
          ready,         \* FileWriter::ready
          lame,          \* the encoder
          outputFile,    \* the file
          mp3_buffer,    \* the memory between them
          dead           \* the process has crashed

\* history
VARIABLES dropped,    \* blocks that were bypassed, or that push or lame refused
          recordings, \* what is in each file, and what was waiting around it
          unopened,   \* fopen has failed for the recording under way
          inFlight,   \* disk_write passed its test before the last stop and goes on
          late        \* writes after the last stop and before the next start

audioVars == <<bypass, callback, captured, lockFreeQueue, dropped>>
workerVars == <<worker, buffer, encoded, inFlight, late>>
fileVars == <<ready, lame, outputFile, mp3_buffer, unopened>>
vars == <<audioVars, workerVars, fileVars, gtk, dead, recordings>>

Garbage == 0
Blocks == 1..MaxBlocks
Handles == {"null", "open", "freed"}

\* Every block that has been captured and that disk_write has not finished with.
Backlog ==
  {lockFreeQueue[i] : i \in 1..Len(lockFreeQueue)}
    \cup (IF worker = "poll" THEN {} ELSE {buffer})
    \cup (IF callback = "push" THEN {captured} ELSE {})

Recording == [written : Seq(Blocks \cup {Garbage}),
              from    : 0..MaxBlocks,       \* captured when `ready' was set
              before  : SUBSET Blocks,      \* the backlog then
              stopped : BOOLEAN,
              upTo    : 0..MaxBlocks,       \* captured when `ready' was cleared
              after   : SUBSET Blocks]      \* the backlog then

TypeOK ==
  /\ bypass \in BOOLEAN
  /\ callback \in {"idle", "push"}
  /\ captured \in 0..MaxBlocks
  /\ lockFreeQueue \in Seq(Blocks)
  /\ worker \in {"poll", "test", "encode", "fwrite"}
  /\ buffer \in 0..MaxBlocks
  /\ encoded \in Blocks \cup {Garbage}
  /\ gtk \in {"idle", "rebuild", "lame", "outputFile", "mp3_buffer", "ready",
              "flush", "lame_close", "fclose", "clear", "free"}
  /\ ready \in BOOLEAN
  /\ lame \in Handles /\ outputFile \in Handles /\ mp3_buffer \in Handles
  /\ dead \in BOOLEAN
  /\ dropped \in SUBSET Blocks
  /\ recordings \in Seq(Recording)
  /\ unopened \in BOOLEAN
  /\ inFlight \in BOOLEAN
  /\ late \in Nat

Init ==
  /\ bypass = FALSE
  /\ callback = "idle"
  /\ captured = 0
  /\ lockFreeQueue = <<>>
  /\ worker = "poll"
  /\ buffer = 0
  /\ encoded = Garbage
  /\ gtk = "idle"
  /\ ready = FALSE
  /\ lame = "null" /\ outputFile = "null" /\ mp3_buffer = "null"
  /\ dead = FALSE
  /\ dropped = {}
  /\ recordings = <<>>
  /\ unopened = FALSE
  /\ inFlight = FALSE
  /\ late = 0

-----------------------------------------------------------------------------
(* The JACK callback: Processor::process and LockFreeQueueManager::process *)

\* A block that arrives while `bypass' is set is copied to the output and that is
\* all: it never reaches the queue.
ProcessBypass ==
  /\ callback = "idle"
  /\ captured < MaxBlocks
  /\ bypass
  /\ captured' = captured + 1
  /\ dropped' = dropped \cup {captured + 1}
  /\ UNCHANGED <<bypass, callback, lockFreeQueue, workerVars, fileVars, gtk, dead,
                 recordings>>

ProcessBegin ==
  /\ callback = "idle"
  /\ captured < MaxBlocks
  /\ ~bypass
  /\ captured' = captured + 1
  /\ callback' = "push"
  /\ UNCHANGED <<bypass, lockFreeQueue, dropped, workerVars, fileVars, gtk, dead,
                 recordings>>

\* mutation: a full queue makes room by forgetting its oldest block
ProcessPushForgetsOldest ==
  /\ callback = "push"
  /\ lockFreeQueue' = IF Len(lockFreeQueue) < LockFreeSize
                      THEN Append(lockFreeQueue, captured)
                      ELSE Append(Tail(lockFreeQueue), captured)
  /\ callback' = "idle"
  /\ UNCHANGED <<bypass, captured, dropped, workerVars, fileVars, gtk, dead, recordings>>
ProcessPush ==
  /\ callback = "push"
  /\ \/ /\ Len(lockFreeQueue) < LockFreeSize
        /\ lockFreeQueue' = Append(lockFreeQueue, captured)
        /\ UNCHANGED dropped
     \/ /\ Len(lockFreeQueue) = LockFreeSize
        /\ dropped' = dropped \cup {captured}
        /\ UNCHANGED lockFreeQueue
  /\ callback' = "idle"
  /\ UNCHANGED <<bypass, captured, workerVars, fileVars, gtk, dead, recordings>>

-----------------------------------------------------------------------------
(* disk_write, on the worker *)

\* mutation: the block is left in the queue
WorkerPeek ==
  /\ worker = "poll"
  /\ lockFreeQueue # <<>>
  /\ buffer' = Head(lockFreeQueue)
  /\ worker' = "test"
  /\ UNCHANGED <<audioVars, encoded, inFlight, late, fileVars, gtk, dead, recordings>>

WorkerPop ==
  /\ worker = "poll"
  /\ lockFreeQueue # <<>>
  /\ buffer' = Head(lockFreeQueue)
  /\ lockFreeQueue' = Tail(lockFreeQueue)
  /\ worker' = "test"
  /\ UNCHANGED <<bypass, callback, captured, dropped, encoded, inFlight, late,
                 fileVars, gtk, dead, recordings>>

\* mutation: no test of `ready'
DiskWriteNoTest ==
  /\ worker = "test"
  /\ worker' = "encode"
  /\ UNCHANGED <<audioVars, buffer, encoded, inFlight, late, fileVars, gtk, dead,
                 recordings>>

DiskWriteTest ==
  /\ worker = "test"
  /\ worker' = IF ready THEN "encode" ELSE "poll"
  /\ UNCHANGED <<audioVars, buffer, encoded, inFlight, late, fileVars, gtk, dead,
                 recordings>>

\* disk_write returns, and with it the call that a stop may have overtaken.
DiskWriteReturns == worker' = "poll" /\ inFlight' = FALSE

\* lame may refuse a block, and must when it was never initialised: an error of
\* lame_init_params is logged and the recording goes on.  With the encoder flushed or
\* gone, or its memory gone, anything else may come of the call too: the process dies,
\* or garbage is left.
DiskWriteEncode ==
  /\ worker = "encode"
  /\ LET usable == lame = "open" /\ mp3_buffer = "open" /\ gtk # "lame_close" IN
       \/ /\ usable
          /\ encoded' = buffer
          /\ worker' = "fwrite"
          /\ UNCHANGED <<dropped, inFlight, dead>>
       \/ /\ dropped' = dropped \cup {buffer}
          /\ DiskWriteReturns
          /\ UNCHANGED <<encoded, dead>>
       \/ /\ ~usable
          /\ encoded' = Garbage
          /\ worker' = "fwrite"
          /\ UNCHANGED <<dropped, inFlight, dead>>
       \/ /\ ~usable
          /\ dead' = TRUE
          /\ UNCHANGED <<dropped, encoded, worker, inFlight>>
  /\ UNCHANGED <<bypass, callback, captured, lockFreeQueue, buffer, late, fileVars, gtk,
                 recordings>>

Written(block) ==
  [recordings EXCEPT ![Len(recordings)].written = Append(@, block)]

\* fwrite to no file kills the process, to one already closed may; from memory
\* already freed it writes garbage or kills it.
DiskWriteFwrite ==
  /\ worker = "fwrite"
  /\ \/ /\ outputFile = "open"
        /\ recordings' = Written(IF mp3_buffer = "open" THEN encoded ELSE Garbage)
        /\ DiskWriteReturns
        /\ UNCHANGED dead
     \/ /\ outputFile = "freed"
        /\ DiskWriteReturns
        /\ UNCHANGED <<recordings, dead>>
     \/ /\ outputFile # "open" \/ mp3_buffer # "open"
        /\ dead' = TRUE
        /\ UNCHANGED <<recordings, worker, inFlight>>
  /\ late' = IF ready THEN late ELSE late + 1
  /\ UNCHANGED <<audioVars, buffer, encoded, fileVars, gtk>>

-----------------------------------------------------------------------------
(* The GTK thread *)

\* Adding a plugin, moving one up and loading a file into one set `bypass' first and
\* clear it last.
ChainBegin ==
  /\ gtk = "idle"
  /\ bypass' = TRUE
  /\ gtk' = "rebuild"
  /\ UNCHANGED <<callback, captured, lockFreeQueue, dropped, workerVars, fileVars,
                 dead, recordings>>

ChainEnd ==
  /\ gtk = "rebuild"
  /\ bypass' = FALSE
  /\ gtk' = "idle"
  /\ UNCHANGED <<callback, captured, lockFreeQueue, dropped, workerVars, fileVars,
                 dead, recordings>>

\* The toggle button is on: a recording is under way.
Recorded == recordings # <<>> /\ ~recordings[Len(recordings)].stopped

\* startRecording: openFile, then `ready'.  A file of its own for each recording
\* stands for a name of its own: names are made of the time to the second.
StartLame ==
  /\ gtk = "idle"
  /\ ~Recorded
  /\ Len(recordings) < MaxRecordings
  /\ lame' = "open"
  /\ gtk' = "outputFile"
  /\ UNCHANGED <<audioVars, workerVars, ready, outputFile, mp3_buffer, unopened, dead,
                 recordings>>

StartOutputFile ==
  /\ gtk = "outputFile"
  /\ \E opened \in BOOLEAN :
       /\ outputFile' = IF opened THEN "open" ELSE "null"
       /\ unopened' = ~opened
  /\ recordings' = Append(recordings,
       [written |-> <<>>, from |-> 0, before |-> Backlog,
        stopped |-> FALSE, upTo |-> 0, after |-> {}])
  /\ gtk' = "mp3_buffer"
  /\ UNCHANGED <<audioVars, workerVars, ready, lame, mp3_buffer, dead>>

\* What the fresh memory holds nobody has written.
StartBuffer ==
  /\ gtk = "mp3_buffer"
  /\ mp3_buffer' = "open"
  /\ encoded' = IF worker = "fwrite" THEN Garbage ELSE encoded
  /\ gtk' = "ready"
  /\ UNCHANGED <<audioVars, worker, buffer, inFlight, late, ready, lame, outputFile,
                 unopened, dead, recordings>>

StartReady ==
  /\ gtk = "ready"
  /\ ready' = TRUE
  /\ late' = 0
  /\ LET n == Len(recordings) IN
       recordings' = [recordings EXCEPT ![n].from = captured,
                                        ![n].before = recordings[n].before \cup Backlog]
  /\ gtk' = "idle"
  /\ UNCHANGED <<audioVars, worker, buffer, encoded, inFlight, lame, outputFile,
                 mp3_buffer, unopened, dead>>

\* mutation: `ready' stays set while the file is closed
StopReadyForgotten ==
  /\ gtk = "idle"
  /\ Recorded
  /\ inFlight' = (worker \in {"encode", "fwrite"})
  /\ recordings' = [recordings EXCEPT ![Len(recordings)] =
                      [@ EXCEPT !.stopped = TRUE, !.upTo = captured, !.after = Backlog]]
  /\ gtk' = "flush"
  /\ UNCHANGED <<audioVars, worker, buffer, encoded, late, fileVars, dead>>

\* stopRecording: `ready', then closeFile.
StopReady ==
  /\ gtk = "idle"
  /\ Recorded
  /\ ready' = FALSE
  /\ inFlight' = (worker \in {"encode", "fwrite"})
  /\ recordings' = [recordings EXCEPT ![Len(recordings)] =
                      [@ EXCEPT !.stopped = TRUE, !.upTo = captured, !.after = Backlog]]
  /\ gtk' = "flush"
  /\ UNCHANGED <<audioVars, worker, buffer, encoded, late, lame, outputFile,
                 mp3_buffer, unopened, dead>>

\* closeFile flushes lame into fresh memory, writes all of that memory to the file
\* however little lame put there, and closes the file.  The flush is not safe while the
\* worker is inside lame, and there must be a file.
StopFlush ==
  /\ gtk = "flush"
  /\ \/ /\ outputFile # "null"
        /\ recordings' = Written(Garbage)
        /\ gtk' = "lame_close"
        /\ UNCHANGED dead
     \/ /\ outputFile = "null" \/ worker = "encode"
        /\ dead' = TRUE
        /\ UNCHANGED <<gtk, recordings>>
  /\ UNCHANGED <<audioVars, workerVars, fileVars>>

StopLameClose ==
  /\ gtk = "lame_close"
  /\ \/ /\ lame' = "freed"
        /\ gtk' = "fclose"
        /\ UNCHANGED dead
     \/ /\ worker = "encode"
        /\ dead' = TRUE
        /\ UNCHANGED <<lame, gtk>>
  /\ UNCHANGED <<audioVars, workerVars, ready, outputFile, mp3_buffer, unopened,
                 recordings>>

StopFclose ==
  /\ gtk = "fclose"
  /\ outputFile' = "freed"
  /\ gtk' = "clear"
  /\ UNCHANGED <<audioVars, workerVars, ready, lame, mp3_buffer, unopened, dead,
                 recordings>>

StopClear ==
  /\ gtk = "clear"
  /\ outputFile' = "null"
  /\ lame' = "null"
  /\ gtk' = "free"
  /\ UNCHANGED <<audioVars, workerVars, ready, mp3_buffer, unopened, dead, recordings>>

StopFree ==
  /\ gtk = "free"
  /\ mp3_buffer' = "freed"
  /\ gtk' = "idle"
  /\ UNCHANGED <<audioVars, workerVars, ready, lame, outputFile, unopened, dead,
                 recordings>>

-----------------------------------------------------------------------------
Process == ProcessBypass \/ ProcessBegin \/ ProcessPush

Worker == WorkerPop \/ DiskWriteTest \/ DiskWriteEncode \/ DiskWriteFwrite

Chain == ChainBegin \/ ChainEnd

startRecording == StartLame \/ StartOutputFile \/ StartBuffer \/ StartReady

stopRecording ==
  StopReady \/ StopFlush \/ StopLameClose \/ StopFclose \/ StopClear \/ StopFree

Next == ~dead /\ (Process \/ Worker \/ Chain \/ startRecording \/ stopRecording)

Spec == Init /\ [][Next]_vars

-----------------------------------------------------------------------------
(* Properties *)

\* A file holds blocks in the order JACK delivered them, none twice, and between two
\* of them only blocks that were bypassed or refused are missing; if the first is
\* carried over from the last recording, by a disk_write that a stop overtook
\* (FileWriter.cpp:276-287), blocks from before the start are missing too.  What
\* nobody wrote lies only at the ends: the memory that every stop appends
\* (FileWriter.cpp:199-201), around which the overtaken disk_write may put one block or
\* more of it, and what such a disk_write puts first in the next file.
GapsAreDropped ==
  \A r \in 1..Len(recordings) :
    LET w == recordings[r].written IN
    /\ \A i \in 1..Len(w) :
         w[i] = Garbage => i = 1 \/ (i >= Len(w) - 1 /\ recordings[r].stopped)
    /\ \A i, j \in 1..Len(w) :
         i < j /\ w[i] # Garbage /\ w[j] # Garbage =>
           /\ w[i] < w[j]
           /\ w[i] + 1..w[j] - 1 \subseteq
                dropped \cup {w[k] : k \in 1..Len(w)}
                        \cup (IF i = 1 THEN 1..recordings[r].from ELSE {})

\* A recording holds nothing older than its start (FileWriter.cpp:346-347), except
\* blocks that were still waiting then: pressing record reaches back in time by
\* the backlog.
OnlyBacklogFromBefore ==
  \A r \in 1..Len(recordings) :
    \A i \in 1..Len(recordings[r].written) :
      LET b == recordings[r].written[i] IN
      b > recordings[r].from \/ b \in recordings[r].before \cup {Garbage}

\* What was captured between start and stop is in the file, unless the callback
\* bypassed it, the queue or lame refused it (FileWriter.cpp:284-285), or it was still
\* waiting at the stop: closing does not wait for those blocks (FileWriter.cpp:365-371).
NothingElseIsLost ==
  \A r \in 1..Len(recordings) :
    LET rec == recordings[r] IN
    rec.stopped =>
      rec.from + 1..rec.upTo \subseteq
        dropped \cup rec.after \cup {rec.written[i] : i \in 1..Len(rec.written)}

\* Once `ready' is cleared at most one block is written before the next start: the
\* one whose test came before (FileWriter.cpp:276 against 370).
OneBlockAfterStop == late <= 1

\* The process survives every interleaving of disk_write with stop and start in
\* which disk_write is not past its test when `ready' is cleared, and the file
\* could be opened (FileWriter.cpp:276, 370-371; 183, 347).
DiesOnlyInFlight == dead => inFlight \/ unopened
=============================================================================
