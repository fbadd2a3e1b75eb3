--------------------------- MODULE Recorder_proofs ---------------------------
(***************************************************************************)
(* What is in a file, and when a stop may end the program, for every       *)
(* length of the queue and any number of blocks and recordings.            *)
(***************************************************************************)
EXTENDS Recorder, TLAPS

-----------------------------------------------------------------------------
(* Sequences *)

\* Changing the last member of a sequence.
LEMMA LastChanged ==
  ASSUME NEW S, NEW q \in Seq(S), q # <<>>, NEW x \in S
  PROVE  /\ [q EXCEPT ![Len(q)] = x] \in Seq(S)
         /\ Len([q EXCEPT ![Len(q)] = x]) = Len(q)
         /\ [q EXCEPT ![Len(q)] = x][Len(q)] = x
         /\ \A r \in 1..Len(q) : r # Len(q) => [q EXCEPT ![Len(q)] = x][r] = q[r]
OBVIOUS

\* The members of a sequence.
members(q) == {q[i] : i \in 1..Len(q)}

LEMMA AppendMembers ==
  ASSUME NEW S, NEW q \in Seq(S), NEW x
  PROVE  members(Append(q, x)) = members(q) \cup {x}
<1>1. Len(Append(q, x)) = Len(q) + 1 /\ Append(q, x)[Len(q) + 1] = x
      /\ \A i \in 1..Len(q) : Append(q, x)[i] = q[i]
  OBVIOUS
<1>2. \A i \in 1..Len(q) + 1 : i \in 1..Len(q) \/ i = Len(q) + 1
  OBVIOUS
<1> QED BY <1>1, <1>2 DEF members

LEMMA HeadMembers ==
  ASSUME NEW S, NEW q \in Seq(S), q # <<>>
  PROVE  members(q) = {Head(q)} \cup members(Tail(q)) /\ Head(q) \in S /\ Tail(q) \in Seq(S)
<1>1. Len(q) \in Nat \ {0} /\ Len(Tail(q)) = Len(q) - 1 /\ Head(q) = q[1]
      /\ \A i \in 1..Len(q) - 1 : Tail(q)[i] = q[i + 1]
  OBVIOUS
<1>2. \A i \in 1..Len(q) : i = 1 \/ i - 1 \in 1..Len(q) - 1
  BY <1>1
<1>3. members(q) \subseteq {Head(q)} \cup members(Tail(q))
  <2> SUFFICES ASSUME NEW i \in 1..Len(q) PROVE q[i] \in {Head(q)} \cup members(Tail(q))
    BY DEF members
  <2>1. CASE i = 1
    BY <2>1, <1>1
  <2>2. CASE i - 1 \in 1..Len(q) - 1
    BY <2>2, <1>1 DEF members
  <2> QED BY <2>1, <2>2, <1>2
<1>4. members(Tail(q)) \subseteq members(q)
  <2> SUFFICES ASSUME NEW i \in 1..Len(q) - 1 PROVE q[i + 1] \in members(q)
    BY <1>1 DEF members
  <2> QED BY <1>1 DEF members
<1>5. Head(q) \in members(q)
  BY <1>1 DEF members
<1> QED BY <1>3, <1>4, <1>5

-----------------------------------------------------------------------------
(* The backlog *)

inWorker == IF worker = "poll" THEN {} ELSE {buffer}
inCallback == IF callback = "push" THEN {captured} ELSE {}

LEMMA BacklogParts == Backlog = members(lockFreeQueue) \cup inWorker \cup inCallback
BY DEF Backlog, members, inWorker, inCallback

\* What waits has been captured.
Waiting == Backlog \subseteq 1..captured

\* All actions, for the case splits.
LEMMA Actions ==
  ASSUME [Next]_vars
  PROVE  \/ ProcessBypass \/ ProcessBegin \/ ProcessPush
         \/ WorkerPop \/ DiskWriteTest \/ DiskWriteEncode \/ DiskWriteFwrite
         \/ ChainBegin \/ ChainEnd
         \/ StartLame \/ StartOutputFile \/ StartBuffer \/ StartReady
         \/ StopReady \/ StopFlush \/ StopLameClose \/ StopFclose \/ StopClear \/ StopFree
         \/ UNCHANGED vars
BY DEF Next, Process, Worker, Chain, startRecording, stopRecording

LEMMA Alive ==
  ASSUME [Next]_vars
  PROVE  ~dead \/ UNCHANGED vars
BY DEF Next

\* What the steps that only the GTK thread makes leave alone.
gtkKeeps == UNCHANGED <<callback, captured, lockFreeQueue, dropped, worker, buffer>>

LEMMA GtkKeeps ==
  ASSUME ChainBegin \/ ChainEnd \/ StartLame \/ StartOutputFile \/ StartBuffer \/ StartReady
         \/ StopReady \/ StopFlush \/ StopLameClose \/ StopFclose \/ StopClear \/ StopFree
         \/ UNCHANGED vars
  PROVE  gtkKeeps
BY DEF gtkKeeps, ChainBegin, ChainEnd, StartLame, StartOutputFile, StartBuffer, StartReady,
       StopReady, StopFlush, StopLameClose, StopFclose, StopClear, StopFree,
       vars, audioVars, workerVars, fileVars

\* A block leaves the backlog only when it is dropped or the worker has done with it,
\* and what JACK delivers is in the backlog or dropped.
LeavesOnlyDone ==
  /\ captured' \in captured..captured + 1
  /\ captured' # captured => captured' \in dropped' \cup Backlog'
  /\ dropped \subseteq dropped'
  /\ Backlog' \subseteq Backlog \cup (captured + 1..captured')
  /\ \A b \in Backlog :
       b \in dropped' \cup Backlog' \/ (b = buffer /\ worker # "poll" /\ worker' = "poll")
  /\ Waiting'

LEMMA BacklogStep ==
  ASSUME TypeOK, Waiting, [Next]_vars
  PROVE  LeavesOnlyDone
<1> DEFINE Q == members(lockFreeQueue)
<1>1. Backlog = Q \cup inWorker \cup inCallback
  BY BacklogParts
<1>2. Backlog' = Q' \cup inWorker' \cup inCallback'
  BY DEF Backlog, members, inWorker, inCallback, Q
<1>3. captured \in Nat /\ Backlog \subseteq 1..captured
  BY DEF TypeOK, Waiting
<1>4. lockFreeQueue \in Seq(Blocks)
  BY DEF TypeOK
<1> HIDE DEF Q
<1> USE <1>1, <1>2, <1>3 DEF LeavesOnlyDone, Waiting, inWorker, inCallback
<1>5. CASE gtkKeeps
  <2>1. Q' = Q
    BY <1>5 DEF gtkKeeps, Q
  <2> QED BY <2>1, <1>5 DEF gtkKeeps
<1>6. CASE ProcessBypass
  <2>1. Q' = Q
    BY <1>6 DEF ProcessBypass, Q
  <2> QED BY <2>1, <1>6 DEF ProcessBypass, workerVars
<1>7. CASE ProcessBegin
  <2>1. Q' = Q
    BY <1>7 DEF ProcessBegin, Q
  <2> QED BY <2>1, <1>7 DEF ProcessBegin, workerVars
<1>8. CASE ProcessPush
  <2>1. CASE lockFreeQueue' = Append(lockFreeQueue, captured) /\ UNCHANGED dropped
    <3>1. Q' = Q \cup {captured}
      BY <2>1, <1>4, AppendMembers DEF Q
    <3> QED BY <3>1, <2>1, <1>8 DEF ProcessPush, workerVars
  <2>2. CASE dropped' = dropped \cup {captured} /\ UNCHANGED lockFreeQueue
    <3>1. Q' = Q
      BY <2>2 DEF Q
    <3> QED BY <3>1, <2>2, <1>8 DEF ProcessPush, workerVars
  <2> QED BY <2>1, <2>2, <1>8 DEF ProcessPush
<1>9. CASE WorkerPop
  <2>1. Q = {Head(lockFreeQueue)} \cup Q'
    BY <1>9, <1>4, HeadMembers DEF WorkerPop, Q
  <2> QED BY <2>1, <1>9 DEF WorkerPop
<1>10. CASE DiskWriteTest \/ DiskWriteEncode \/ DiskWriteFwrite
  <2>1. UNCHANGED <<callback, captured, lockFreeQueue, buffer>> /\ worker # "poll"
        /\ dropped \subseteq dropped'
    BY <1>10 DEF DiskWriteTest, DiskWriteEncode, DiskWriteFwrite, audioVars
  <2>2. Q' = Q
    BY <2>1 DEF Q
  <2> QED BY <2>1, <2>2
<1> QED BY <1>5, <1>6, <1>7, <1>8, <1>9, <1>10, Actions, GtkKeeps

-----------------------------------------------------------------------------
(* The list of recordings *)

now == recordings[Len(recordings)]

\* Only the last recording changes, and into x.
BecomesLast(x) ==
  /\ recordings # <<>>
  /\ recordings' \in Seq(Recording)
  /\ recordings' # <<>>
  /\ Len(recordings') = Len(recordings)
  /\ now' = x
  /\ \A r \in 1..Len(recordings) : r # Len(recordings) => recordings'[r] = recordings[r]

LEMMA Becomes ==
  ASSUME recordings \in Seq(Recording), recordings # <<>>, NEW x \in Recording,
         recordings' = [recordings EXCEPT ![Len(recordings)] = x]
  PROVE  BecomesLast(x)
<1> DEFINE p == [recordings EXCEPT ![Len(recordings)] = x]
<1>1. /\ p \in Seq(Recording) /\ Len(p) = Len(recordings) /\ p[Len(recordings)] = x
      /\ \A r \in 1..Len(recordings) : r # Len(recordings) => p[r] = recordings[r]
  BY LastChanged
<1>2. recordings' = p
  OBVIOUS
<1>3. Len(recordings) \in Nat \ {0}
  OBVIOUS
<1> HIDE DEF p
<1> QED BY <1>1, <1>2, <1>3 DEF BecomesLast, now

LEMMA NowTyped ==
  ASSUME recordings \in Seq(Recording), recordings # <<>>
  PROVE  now \in Recording
BY DEF now

\* The effects on the last recording of the five steps that change one.
LEMMA AfterFwrite ==
  ASSUME TypeOK, recordings # <<>>, NEW b \in Blocks \cup {Garbage}, recordings' = Written(b)
  PROVE  BecomesLast([now EXCEPT !.written = Append(now.written, b)])
<1>1. now \in Recording
  BY NowTyped DEF TypeOK
<1>2. Append(now.written, b) \in Seq(Blocks \cup {Garbage})
  BY <1>1 DEF Recording
<1>3. [now EXCEPT !.written = Append(now.written, b)] \in Recording
  BY <1>1, <1>2 DEF Recording
<1>4. recordings' = [recordings EXCEPT ![Len(recordings)] = [now EXCEPT !.written = Append(now.written, b)]]
  BY DEF Written, now
<1> QED BY <1>3, <1>4, Becomes DEF TypeOK

LEMMA Appended ==
  ASSUME TypeOK, recordings # <<>>, NEW b \in Blocks \cup {Garbage}, recordings' = Written(b)
  PROVE  /\ now' \in Recording /\ BecomesLast(now')
         /\ now'.from = now.from /\ now'.before = now.before /\ now'.upTo = now.upTo
         /\ now'.after = now.after /\ now'.stopped = now.stopped
         /\ now'.written = Append(now.written, b)
         /\ members(now'.written) = members(now.written) \cup {b}
         /\ UNCHANGED Recorded
<1> DEFINE x == [now EXCEPT !.written = Append(now.written, b)]
<1>1. now \in Recording
  BY NowTyped DEF TypeOK
<1>2. BecomesLast(x)
  BY AfterFwrite
<1>3. now.written \in Seq(Blocks \cup {Garbage})
  BY <1>1 DEF Recording
<1>4. /\ x \in Recording
      /\ x.from = now.from /\ x.before = now.before /\ x.upTo = now.upTo
      /\ x.after = now.after /\ x.stopped = now.stopped
      /\ x.written = Append(now.written, b)
  <2>1. Append(now.written, b) \in Seq(Blocks \cup {Garbage})
    BY <1>3
  <2> QED BY <2>1, <1>1 DEF Recording
<1>5. members(x.written) = members(now.written) \cup {b}
  BY <1>3, <1>4, AppendMembers
<1> HIDE DEF x
<1>6. now' = x
  BY <1>2 DEF BecomesLast
<1>7. UNCHANGED Recorded
  BY <1>2, <1>4 DEF BecomesLast, Recorded, now
<1> QED BY <1>2, <1>4, <1>5, <1>6, <1>7

LEMMA AfterStart ==
  ASSUME TypeOK, recordings # <<>>, Backlog \subseteq Blocks, StartReady
  PROVE  BecomesLast([now EXCEPT !.from = captured, !.before = now.before \cup Backlog])
<1>1. now \in Recording
  BY NowTyped DEF TypeOK
<1>2. [now EXCEPT !.from = captured, !.before = now.before \cup Backlog] \in Recording
  BY <1>1 DEF Recording, TypeOK
<1>3. recordings' = [recordings EXCEPT ![Len(recordings)] =
                       [now EXCEPT !.from = captured, !.before = now.before \cup Backlog]]
  BY <1>1 DEF StartReady, now, TypeOK, Recording
<1> QED BY <1>2, <1>3, Becomes DEF TypeOK

LEMMA AfterStop ==
  ASSUME TypeOK, recordings # <<>>, Backlog \subseteq Blocks, StopReady
  PROVE  BecomesLast([now EXCEPT !.stopped = TRUE, !.upTo = captured, !.after = Backlog])
<1>1. now \in Recording
  BY NowTyped DEF TypeOK
<1>2. [now EXCEPT !.stopped = TRUE, !.upTo = captured, !.after = Backlog] \in Recording
  BY <1>1 DEF Recording, TypeOK
<1>3. recordings' = [recordings EXCEPT ![Len(recordings)] =
                       [now EXCEPT !.stopped = TRUE, !.upTo = captured, !.after = Backlog]]
  BY DEF StopReady, now
<1> QED BY <1>2, <1>3, Becomes DEF TypeOK

opened == [written |-> <<>>, from |-> 0, before |-> Backlog, stopped |-> FALSE, upTo |-> 0, after |-> {}]

LEMMA AfterOpen ==
  ASSUME TypeOK, Backlog \subseteq Blocks, StartOutputFile
  PROVE  /\ recordings' \in Seq(Recording)
         /\ recordings' # <<>>
         /\ Len(recordings') = Len(recordings) + 1
         /\ now' = opened
         /\ \A r \in 1..Len(recordings) : recordings'[r] = recordings[r]
<1>1. opened \in Recording
  BY RecorderAssumption DEF opened, Recording
<1>2. recordings' = Append(recordings, opened)
  BY DEF StartOutputFile, opened
<1>3. /\ Append(recordings, opened) \in Seq(Recording)
      /\ Len(Append(recordings, opened)) = Len(recordings) + 1
      /\ Append(recordings, opened)[Len(recordings) + 1] = opened
      /\ \A r \in 1..Len(recordings) : Append(recordings, opened)[r] = recordings[r]
  BY <1>1 DEF TypeOK
<1>4. Len(recordings) \in Nat
  BY DEF TypeOK
<1> QED BY <1>2, <1>3, <1>4 DEF now

-----------------------------------------------------------------------------
(* Types *)

LEMMA BacklogTyped ==
  ASSUME TypeOK, Waiting
  PROVE  /\ Backlog \subseteq Blocks
         /\ worker # "poll" => buffer \in Blocks
         /\ callback = "push" => captured \in Blocks
<1>1. captured \in 0..MaxBlocks /\ MaxBlocks \in Nat
  BY RecorderAssumption DEF TypeOK
<1>2. Backlog \subseteq 1..captured
  BY DEF Waiting
<1>3. 1..captured \subseteq Blocks
  BY <1>1 DEF Blocks
<1>4. worker # "poll" => buffer \in Backlog
  BY DEF Backlog
<1>5. callback = "push" => captured \in Backlog
  BY DEF Backlog
<1> QED BY <1>2, <1>3, <1>4, <1>5

Flags ==
  /\ bypass \in BOOLEAN /\ ready \in BOOLEAN /\ dead \in BOOLEAN
  /\ unopened \in BOOLEAN /\ inFlight \in BOOLEAN

LEMMA FlagsStep ==
  ASSUME Flags, [Next]_vars
  PROVE  Flags'
<1> USE DEF Flags, audioVars, workerVars, fileVars
<1>1. CASE ProcessBypass \/ ProcessBegin \/ ProcessPush \/ WorkerPop \/ DiskWriteTest
  BY <1>1, Zenon DEF ProcessBypass, ProcessBegin, ProcessPush, WorkerPop, DiskWriteTest
<1>2. CASE DiskWriteEncode \/ DiskWriteFwrite
  BY <1>2, Zenon DEF DiskWriteEncode, DiskWriteFwrite, DiskWriteReturns
<1>3. CASE ChainBegin \/ ChainEnd \/ StartLame \/ StartOutputFile \/ StartBuffer \/ StartReady
  BY <1>3, Zenon DEF ChainBegin, ChainEnd, StartLame, StartOutputFile, StartBuffer, StartReady
<1>4. CASE StopReady
  <2>1. inFlight' \in BOOLEAN
    <3>1. CASE worker \in {"encode", "fwrite"}
      BY <1>4, <3>1 DEF StopReady
    <3>2. CASE worker \notin {"encode", "fwrite"}
      BY <1>4, <3>2 DEF StopReady
    <3> QED BY <3>1, <3>2
  <2> QED BY <2>1, <1>4, Zenon DEF StopReady
<1>5. CASE StopFlush \/ StopLameClose \/ StopFclose \/ StopClear \/ StopFree
  BY <1>5, Zenon DEF StopFlush, StopLameClose, StopFclose, StopClear, StopFree
<1>6. CASE UNCHANGED vars
  BY <1>6 DEF vars
<1> QED BY <1>1, <1>2, <1>3, <1>4, <1>5, <1>6, Actions

\* What is left of TypeOK when the flags and the list of recordings are taken out.
TypedButRecordings ==
  /\ callback \in {"idle", "push"}
  /\ captured \in 0..MaxBlocks
  /\ lockFreeQueue \in Seq(Blocks)
  /\ worker \in {"poll", "test", "encode", "fwrite"}
  /\ buffer \in 0..MaxBlocks
  /\ encoded \in Blocks \cup {Garbage}
  /\ gtk \in {"idle", "rebuild", "lame", "outputFile", "mp3_buffer", "ready",
              "flush", "lame_close", "fclose", "clear", "free"}
  /\ lame \in Handles /\ outputFile \in Handles /\ mp3_buffer \in Handles
  /\ dropped \in SUBSET Blocks
  /\ late \in Nat

LEMMA Typed == TypeOK <=> Flags /\ TypedButRecordings /\ recordings \in Seq(Recording)
BY DEF TypeOK, Flags, TypedButRecordings

\* fwrite happens with a recording in the list.
Listed == (worker \in {"encode", "fwrite"} \/ ready \/ gtk \in {"mp3_buffer", "ready", "flush"}) => recordings # <<>>

LEMMA TypeStep ==
  ASSUME TypeOK, Waiting, Listed, [Next]_vars
  PROVE  TypeOK' /\ Listed'
<1>1. Backlog \subseteq Blocks /\ (worker # "poll" => buffer \in Blocks)
      /\ (callback = "push" => captured \in Blocks)
  BY BacklogTyped
<1>2. Flags /\ TypedButRecordings /\ recordings \in Seq(Recording)
  BY Typed
<1>3. SUFFICES TypedButRecordings' /\ recordings' \in Seq(Recording) /\ Listed'
  BY <1>2, FlagsStep DEF TypeOK, Flags, TypedButRecordings
<1> USE <1>1, <1>2, RecorderAssumption
    DEF TypedButRecordings, Listed, Handles, Blocks, audioVars, workerVars, fileVars
<1>4. CASE ProcessBypass \/ ProcessBegin
  <2>1. CASE ProcessBypass
    BY <2>1 DEF ProcessBypass
  <2>2. CASE ProcessBegin
    BY <2>2 DEF ProcessBegin
  <2> QED BY <1>4, <2>1, <2>2
<1>5. CASE ProcessPush
  <2>1. captured \in Blocks
    BY <1>5 DEF ProcessPush
  <2>2. dropped' \in SUBSET Blocks
    BY <2>1, <1>5 DEF ProcessPush
  <2>3. Append(lockFreeQueue, captured) \in Seq(Blocks)
    BY <2>1
  <2>4. lockFreeQueue' \in Seq(Blocks)
    BY <2>3, <1>5 DEF ProcessPush
  <2> QED BY <2>2, <2>4, <1>5 DEF ProcessPush
<1>6. CASE WorkerPop
  <2>1. Head(lockFreeQueue) \in Blocks /\ Tail(lockFreeQueue) \in Seq(Blocks)
    BY <1>6, HeadMembers DEF WorkerPop
  <2> QED BY <2>1, <1>6 DEF WorkerPop
<1>7. CASE DiskWriteTest
  BY <1>7 DEF DiskWriteTest
<1>8. CASE DiskWriteEncode
  <2>1. UNCHANGED <<callback, captured, lockFreeQueue, buffer, late, lame, outputFile, mp3_buffer,
                    ready, gtk, recordings>>
    BY <1>8, Zenon DEF DiskWriteEncode
  <2>2. worker = "encode" /\ buffer \in Blocks
    BY <1>8 DEF DiskWriteEncode
  <2>3. encoded' \in {encoded, buffer, Garbage} /\ dropped' \in {dropped, dropped \cup {buffer}}
        /\ worker' \in {"poll", "encode", "fwrite"}
    BY <1>8, <2>2 DEF DiskWriteEncode, DiskWriteReturns
  <2>4. TypedButRecordings'
    BY <2>1, <2>2, <2>3
  <2> QED BY <2>1, <2>2, <2>4
<1>9. CASE DiskWriteFwrite
  <2>1. TypedButRecordings'
    BY <1>9 DEF DiskWriteFwrite, DiskWriteReturns
  <2>2. CASE UNCHANGED recordings
    BY <2>1, <2>2, <1>9 DEF DiskWriteFwrite
  <2>3. CASE recordings' = Written(IF mp3_buffer = "open" THEN encoded ELSE Garbage)
    <3>1. recordings # <<>>
      BY <1>9 DEF DiskWriteFwrite
    <3>2. recordings' \in Seq(Recording) /\ recordings' # <<>>
      BY <2>3, <3>1, AfterFwrite DEF BecomesLast
    <3> QED BY <2>1, <3>2
  <2> QED BY <2>2, <2>3, <1>9 DEF DiskWriteFwrite
<1>10. CASE ChainBegin \/ ChainEnd
  <2>1. CASE ChainBegin
    BY <2>1 DEF ChainBegin
  <2>2. CASE ChainEnd
    BY <2>2 DEF ChainEnd
  <2> QED BY <1>10, <2>1, <2>2
<1>11. CASE StartLame
  BY <1>11 DEF StartLame
<1>12. CASE StartOutputFile
  <2>1. recordings' \in Seq(Recording) /\ recordings' # <<>>
    BY <1>12, AfterOpen
  <2>2. outputFile' \in Handles
    BY <1>12 DEF StartOutputFile
  <2> QED BY <2>1, <2>2, <1>12 DEF StartOutputFile
<1>13. CASE StartBuffer
  BY <1>13 DEF StartBuffer
<1>14. CASE StartReady
  <2>1. recordings' \in Seq(Recording) /\ recordings' # <<>>
    BY <1>14, AfterStart DEF BecomesLast, StartReady
  <2> QED BY <2>1, <1>14 DEF StartReady
<1>15. CASE StopReady
  <2>1. recordings # <<>>
    BY <1>15 DEF StopReady, Recorded
  <2>2. recordings' \in Seq(Recording) /\ recordings' # <<>>
    BY <1>15, <2>1, AfterStop DEF BecomesLast
  <2> QED BY <2>2, <1>15 DEF StopReady
<1>16. CASE StopFlush \/ StopLameClose \/ StopFclose \/ StopClear \/ StopFree
  <2>1. CASE StopFlush
    <3>1. recordings # <<>>
      BY <2>1 DEF StopFlush
    <3>2. recordings' = Written(Garbage) => recordings' \in Seq(Recording) /\ recordings' # <<>>
      BY <3>1, AfterFwrite DEF BecomesLast
    <3> QED BY <3>1, <3>2, <2>1 DEF StopFlush
  <2>2. CASE StopLameClose
    BY <2>2 DEF StopLameClose
  <2>3. CASE StopFclose
    BY <2>3 DEF StopFclose
  <2>4. CASE StopClear
    BY <2>4 DEF StopClear
  <2>5. CASE StopFree
    BY <2>5 DEF StopFree
  <2> QED BY <1>16, <2>1, <2>2, <2>3, <2>4, <2>5
<1>17. CASE UNCHANGED vars
  BY <1>17 DEF vars
<1> QED
  BY <1>4, <1>5, <1>6, <1>7, <1>8, <1>9, <1>10, <1>11, <1>12, <1>13, <1>14, <1>15, <1>16, <1>17, Actions

-----------------------------------------------------------------------------
(* The flag, the handles and what a stop overtakes *)

\* While `ready' is set everything is open that could be opened, and while it is not
\* a disk_write past its test is one that a stop has overtaken.
Guarded ==
  /\ ready => gtk \in {"idle", "rebuild"}
  /\ ready \/ gtk \in {"outputFile", "mp3_buffer", "ready"} => lame = "open"
  /\ ready \/ gtk = "ready" => mp3_buffer = "open"
  /\ ready \/ gtk \in {"mp3_buffer", "ready", "flush"} =>
       /\ unopened => outputFile = "null"
       /\ ~unopened => outputFile = "open"
  /\ worker \in {"encode", "fwrite"} /\ ~ready => inFlight

\* The toggle button is on exactly while `ready' is set or about to be.
Toggled ==
  /\ gtk \in {"idle", "rebuild"} => (ready <=> Recorded)
  /\ gtk \in {"mp3_buffer", "ready"} => Recorded
  /\ gtk \notin {"idle", "rebuild", "mp3_buffer", "ready"} => ~Recorded

\* A block written since the stop was the one in flight.
LateWasInFlight == late = 0 \/ (late = 1 /\ ~ready /\ (dead \/ ~inFlight))

LEMMA GuardedStep ==
  ASSUME TypeOK, Guarded, Toggled, [Next]_vars
  PROVE  Guarded'
<1>1. Flags /\ TypedButRecordings
  BY Typed
<1> USE <1>1 DEF Flags, TypedButRecordings, Guarded, Handles, audioVars, workerVars, fileVars
<1>2. CASE ProcessBypass
  BY <1>2 DEF ProcessBypass
<1>3. CASE ProcessBegin
  BY <1>3 DEF ProcessBegin
<1>4. CASE ProcessPush
  BY <1>4 DEF ProcessPush
<1>5. CASE WorkerPop
  BY <1>5 DEF WorkerPop
<1>6. CASE DiskWriteTest
  BY <1>6 DEF DiskWriteTest
<1>7. CASE DiskWriteEncode
  BY <1>7 DEF DiskWriteEncode, DiskWriteReturns
<1>8. CASE DiskWriteFwrite
  BY <1>8 DEF DiskWriteFwrite, DiskWriteReturns
<1>9. CASE ChainBegin
  BY <1>9 DEF ChainBegin
<1>10. CASE ChainEnd
  BY <1>10 DEF ChainEnd
<1>11. CASE StartLame
  BY <1>11 DEF StartLame, Toggled
<1>12. CASE StartOutputFile
  BY <1>12 DEF StartOutputFile
<1>13. CASE StartBuffer
  BY <1>13 DEF StartBuffer
<1>14. CASE StartReady
  BY <1>14 DEF StartReady
<1>15. CASE StopReady
  <2>1. ready
    BY <1>15 DEF StopReady, Toggled
  <2>2. CASE worker \in {"encode", "fwrite"}
    <3>1. inFlight' = TRUE
      BY <1>15, <2>2 DEF StopReady
    <3> QED BY <2>1, <3>1, <1>15 DEF StopReady
  <2>3. CASE worker \notin {"encode", "fwrite"}
    BY <1>15, <2>1, <2>3 DEF StopReady
  <2> QED BY <2>2, <2>3
<1>16. CASE StopFlush
  BY <1>16 DEF StopFlush
<1>17. CASE StopLameClose
  BY <1>17 DEF StopLameClose
<1>18. CASE StopFclose
  BY <1>18 DEF StopFclose
<1>19. CASE StopClear
  BY <1>19 DEF StopClear
<1>20. CASE StopFree
  BY <1>20 DEF StopFree
<1>21. CASE UNCHANGED vars
  BY <1>21 DEF vars
<1> QED
  BY <1>2, <1>3, <1>4, <1>5, <1>6, <1>7, <1>8, <1>9, <1>10, <1>11, <1>12, <1>13, <1>14, <1>15, <1>16, <1>17, <1>18, <1>19, <1>20, <1>21, Actions

LEMMA ToggledStep ==
  ASSUME TypeOK, Waiting, Listed, Guarded, Toggled, [Next]_vars
  PROVE  Toggled'
<1>1. Flags /\ TypedButRecordings /\ recordings \in Seq(Recording)
  BY Typed
<1>2. Backlog \subseteq Blocks
  BY BacklogTyped
<1> USE <1>1 DEF Flags, TypedButRecordings, Toggled, audioVars, workerVars, fileVars
<1>3. CASE ProcessBypass
  <2>1. UNCHANGED Recorded
    BY <1>3 DEF ProcessBypass, Recorded
  <2> QED BY <2>1, <1>3 DEF ProcessBypass
<1>4. CASE ProcessBegin
  <2>1. UNCHANGED Recorded
    BY <1>4 DEF ProcessBegin, Recorded
  <2> QED BY <2>1, <1>4 DEF ProcessBegin
<1>5. CASE ProcessPush
  <2>1. UNCHANGED Recorded
    BY <1>5 DEF ProcessPush, Recorded
  <2> QED BY <2>1, <1>5 DEF ProcessPush
<1>6. CASE WorkerPop
  <2>1. UNCHANGED Recorded
    BY <1>6 DEF WorkerPop, Recorded
  <2> QED BY <2>1, <1>6 DEF WorkerPop
<1>7. CASE DiskWriteTest
  <2>1. UNCHANGED Recorded
    BY <1>7 DEF DiskWriteTest, Recorded
  <2> QED BY <2>1, <1>7 DEF DiskWriteTest
<1>8. CASE DiskWriteEncode
  <2>1. UNCHANGED Recorded
    BY <1>8 DEF DiskWriteEncode, DiskWriteReturns, Recorded
  <2> QED BY <2>1, <1>8 DEF DiskWriteEncode, DiskWriteReturns
<1>9. CASE DiskWriteFwrite
  <2>1. UNCHANGED Recorded
    <3>1. recordings # <<>>
      BY <1>9 DEF DiskWriteFwrite, Listed
    <3>2. CASE recordings' = Written(IF mp3_buffer = "open" THEN encoded ELSE Garbage)
      <4>1. (IF mp3_buffer = "open" THEN encoded ELSE Garbage) \in Blocks \cup {Garbage}
        OBVIOUS
      <4>2. PICK w : BecomesLast([now EXCEPT !.written = w])
        BY <3>1, <3>2, <4>1, AfterFwrite
      <4>3. now \in Recording
        BY <3>1, NowTyped
      <4> QED BY <4>2, <4>3 DEF BecomesLast, Recorded, now, Recording
    <3>3. CASE UNCHANGED recordings
      BY <3>3 DEF Recorded
    <3> QED BY <3>2, <3>3, <1>9 DEF DiskWriteFwrite
  <2> QED BY <2>1, <1>9 DEF DiskWriteFwrite
<1>10. CASE ChainBegin
  <2>1. UNCHANGED Recorded
    BY <1>10 DEF ChainBegin, Recorded
  <2> QED BY <2>1, <1>10 DEF ChainBegin
<1>11. CASE ChainEnd
  <2>1. UNCHANGED Recorded
    BY <1>11 DEF ChainEnd, Recorded
  <2> QED BY <2>1, <1>11 DEF ChainEnd
<1>12. CASE StartLame
  <2>1. UNCHANGED Recorded
    BY <1>12 DEF StartLame, Recorded
  <2> QED BY <2>1, <1>12 DEF StartLame
<1>13. CASE StartOutputFile
  <2>1. Recorded'
    BY <1>13, <1>2, AfterOpen DEF Recorded, now, opened
  <2> QED BY <2>1, <1>13 DEF StartOutputFile
<1>14. CASE StartBuffer
  <2>1. UNCHANGED Recorded
    BY <1>14 DEF StartBuffer, Recorded
  <2> QED BY <2>1, <1>14 DEF StartBuffer
<1>15. CASE StartReady
  <2>1. recordings # <<>> /\ ~now.stopped
    BY <1>15 DEF StartReady, Recorded, now
  <2>2. now \in Recording
    BY <2>1, NowTyped
  <2>3. Recorded'
    BY <1>15, <1>2, <2>1, <2>2, AfterStart DEF BecomesLast, Recorded, now, Recording
  <2> QED BY <2>3, <1>15 DEF StartReady
<1>16. CASE StopReady
  <2>1. recordings # <<>>
    BY <1>16 DEF StopReady, Recorded
  <2>2. now \in Recording
    BY <2>1, NowTyped
  <2>3. ~Recorded'
    BY <1>16, <1>2, <2>1, <2>2, AfterStop DEF BecomesLast, Recorded, now, Recording
  <2> QED BY <2>3, <1>16 DEF StopReady
<1>17. CASE StopFlush
  <2>1. UNCHANGED Recorded
    <3>1. CASE recordings' = Written(Garbage)
      BY <1>17, <3>1, Appended DEF StopFlush, Listed
    <3>2. CASE UNCHANGED recordings
      BY <3>2 DEF Recorded
    <3> QED BY <3>1, <3>2, <1>17 DEF StopFlush
  <2> QED BY <2>1, <1>17 DEF StopFlush
<1>18. CASE StopLameClose
  <2>1. UNCHANGED Recorded
    BY <1>18 DEF StopLameClose, Recorded
  <2> QED BY <2>1, <1>18 DEF StopLameClose
<1>19. CASE StopFclose
  <2>1. UNCHANGED Recorded
    BY <1>19 DEF StopFclose, Recorded
  <2> QED BY <2>1, <1>19 DEF StopFclose
<1>20. CASE StopClear
  <2>1. UNCHANGED Recorded
    BY <1>20 DEF StopClear, Recorded
  <2> QED BY <2>1, <1>20 DEF StopClear
<1>21. CASE StopFree
  <2>1. UNCHANGED Recorded
    BY <1>21 DEF StopFree, Recorded
  <2> QED BY <2>1, <1>21 DEF StopFree, Guarded
<1>22. CASE UNCHANGED vars
  <2>1. UNCHANGED Recorded
    BY <1>22 DEF vars, Recorded
  <2> QED BY <2>1, <1>22 DEF vars
<1> QED
  BY <1>3, <1>4, <1>5, <1>6, <1>7, <1>8, <1>9, <1>10, <1>11, <1>12, <1>13, <1>14, <1>15, <1>16, <1>17, <1>18, <1>19, <1>20, <1>21, <1>22, Actions

LEMMA LateStep ==
  ASSUME TypeOK, Guarded, Toggled, LateWasInFlight, DiesOnlyInFlight, [Next]_vars
  PROVE  LateWasInFlight' /\ DiesOnlyInFlight'
<1>1. Flags /\ TypedButRecordings
  BY Typed
<1> USE <1>1 DEF Flags, TypedButRecordings, Guarded, Toggled, LateWasInFlight, DiesOnlyInFlight,
                 audioVars, workerVars, fileVars
<1>21. CASE UNCHANGED vars
  BY <1>21 DEF vars
<1>22. SUFFICES ASSUME ~dead PROVE LateWasInFlight' /\ DiesOnlyInFlight'
  BY <1>21, Alive
<1>2. CASE ProcessBypass
  BY <1>2 DEF ProcessBypass
<1>3. CASE ProcessBegin
  BY <1>3 DEF ProcessBegin
<1>4. CASE ProcessPush
  BY <1>4 DEF ProcessPush
<1>5. CASE WorkerPop
  BY <1>5 DEF WorkerPop
<1>6. CASE DiskWriteTest
  BY <1>6 DEF DiskWriteTest
<1>7. CASE DiskWriteEncode
  <2>1. UNCHANGED <<late, ready, unopened>>
    BY <1>7 DEF DiskWriteEncode
  <2>2. CASE UNCHANGED <<inFlight, dead>>
    BY <2>1, <2>2
  <2>3. CASE dead' = TRUE /\ UNCHANGED inFlight /\ (lame # "open" \/ mp3_buffer # "open" \/ gtk = "lame_close")
    <3>1. inFlight
      BY <1>7, <2>3 DEF DiskWriteEncode
    <3> QED BY <2>1, <2>3, <3>1
  <2>4. CASE inFlight' = FALSE /\ UNCHANGED dead
    BY <2>1, <2>4, <1>22
  <2> QED BY <2>2, <2>3, <2>4, <1>7 DEF DiskWriteEncode, DiskWriteReturns
<1>8. CASE DiskWriteFwrite
  <2>1. UNCHANGED <<ready, unopened>> /\ ~dead
    BY <1>8, <1>22 DEF DiskWriteFwrite
  <2>2. CASE ready
    BY <2>1, <2>2, <1>8 DEF DiskWriteFwrite, DiskWriteReturns
  <2>3. CASE ~ready
    <3>1. inFlight /\ late = 0
      BY <2>1, <2>3, <1>8 DEF DiskWriteFwrite
    <3>2. late' = 1 /\ ~ready'
      BY <2>1, <2>3, <3>1, <1>8 DEF DiskWriteFwrite
    <3>3. CASE inFlight' = FALSE /\ UNCHANGED dead
      BY <2>1, <3>2, <3>3
    <3>4. CASE dead' = TRUE /\ UNCHANGED inFlight
      BY <3>1, <3>2, <3>4
    <3> QED BY <3>3, <3>4, <1>8, Zenon DEF DiskWriteFwrite, DiskWriteReturns
  <2> QED BY <2>2, <2>3
<1>9. CASE ChainBegin
  BY <1>9 DEF ChainBegin
<1>10. CASE ChainEnd
  BY <1>10 DEF ChainEnd
<1>11. CASE StartLame
  BY <1>11 DEF StartLame
<1>12. CASE StartOutputFile
  BY <1>12, <1>22 DEF StartOutputFile
<1>13. CASE StartBuffer
  BY <1>13 DEF StartBuffer
<1>14. CASE StartReady
  BY <1>14 DEF StartReady
<1>15. CASE StopReady
  <2>1. ready
    BY <1>15 DEF StopReady
  <2>2. late' = 0 /\ dead' = dead
    BY <2>1, <1>15 DEF StopReady
  <2> QED BY <2>2, <1>22
<1>16. CASE StopFlush
  BY <1>16 DEF StopFlush
<1>17. CASE StopLameClose
  BY <1>17 DEF StopLameClose
<1>18. CASE StopFclose
  BY <1>18 DEF StopFclose
<1>19. CASE StopClear
  BY <1>19 DEF StopClear
<1>20. CASE StopFree
  BY <1>20 DEF StopFree
<1> QED
  BY <1>2, <1>3, <1>4, <1>5, <1>6, <1>7, <1>8, <1>9, <1>10, <1>11, <1>12, <1>13, <1>14, <1>15, <1>16, <1>17, <1>18, <1>19, <1>20, <1>21, Actions

-----------------------------------------------------------------------------
(* What is written *)

\* Of a block that waits and of the recording it may come into.
belongs(b) == b > now.from \/ b \in now.before

\* What may still be written belongs: the whole backlog while the recording is on,
\* and the block that disk_write is past its test with.
WaitingBelongs ==
  /\ Recorded => \A b \in Backlog : belongs(b)
  /\ recordings # <<>> => now.from <= captured

InHandBelongs ==
  /\ worker \in {"encode", "fwrite"} => belongs(buffer)
  /\ worker = "fwrite" => encoded \in {buffer, Garbage}

\* Until `ready' is set, what is written was waiting when the file was opened.
FreshWritten ==
  gtk \in {"mp3_buffer", "ready"} =>
    /\ members(now.written) \subseteq now.before \cup {Garbage}
    /\ worker \in {"encode", "fwrite"} => buffer \in now.before

\* A record of the list keeps to OnlyBacklogFromBefore.
FromOf(rec) ==
  \A b \in members(rec.written) : b > rec.from \/ b \in rec.before \cup {Garbage}

LEMMA FromAll == OnlyBacklogFromBefore <=> \A r \in 1..Len(recordings) : FromOf(recordings[r])
BY DEF OnlyBacklogFromBefore, FromOf, members

\* It does if the last one does and the others are as they were.
LEMMA FromKept ==
  ASSUME OnlyBacklogFromBefore, NEW x \in Recording, BecomesLast(x), FromOf(x)
  PROVE  OnlyBacklogFromBefore'
<1>1. Len(recordings) = Len(recordings') /\ recordings'[Len(recordings')] = x
      /\ \A r \in 1..Len(recordings) : r # Len(recordings) => recordings'[r] = recordings[r]
  BY DEF BecomesLast, now
<1>2. \A r \in 1..Len(recordings) : FromOf(recordings[r])
  BY FromAll
<1>3. \A r \in 1..Len(recordings') : FromOf(recordings'[r])
  BY <1>1, <1>2
<1> QED BY <1>3 DEF OnlyBacklogFromBefore, FromOf, members

\* The parts that speak of the backlog, in the steps that leave the recordings alone.
LEMMA WaitingBelongsKept ==
  ASSUME TypeOK, Waiting, WaitingBelongs, [Next]_vars, UNCHANGED recordings
  PROVE  WaitingBelongs'
<1>1. LeavesOnlyDone
  BY BacklogStep
<1>2. now' = now /\ Recorded' = Recorded
  BY DEF now, Recorded
<1>3. captured \in Nat /\ captured' \in Nat /\ captured <= captured'
  BY <1>1 DEF TypeOK, LeavesOnlyDone
<1>4. recordings # <<>> => now.from \in Nat
  BY NowTyped DEF TypeOK, Recording
<1>5. recordings' # <<>> => now'.from <= captured'
  BY <1>2, <1>3, <1>4 DEF WaitingBelongs
<1>6. ASSUME Recorded', NEW b \in Backlog' PROVE belongs(b)'
  <2>1. Recorded /\ recordings # <<>>
    BY <1>2, <1>6 DEF Recorded
  <2>2. CASE b \in Backlog
    <3>1. b > now.from \/ b \in now.before
      BY <2>1, <2>2 DEF WaitingBelongs, belongs
    <3> QED BY <3>1, <1>2 DEF belongs
  <2>3. CASE b \in captured + 1..captured'
    <3>1. b > now.from
      BY <2>1, <2>3, <1>3, <1>4 DEF WaitingBelongs
    <3> QED BY <3>1, <1>2 DEF belongs
  <2> QED BY <2>2, <2>3, <1>1, <1>6 DEF LeavesOnlyDone
<1> QED BY <1>5, <1>6 DEF WaitingBelongs

\* Everything that OnlyBacklogFromBefore rests on.
FromInv == WaitingBelongs /\ InHandBelongs /\ FreshWritten /\ OnlyBacklogFromBefore

inHand == worker \in {"encode", "fwrite"}

\* Where disk_write can get by a step that leaves the recordings alone.
LEMMA InHandFacts ==
  ASSUME TypeOK, [Next]_vars, UNCHANGED recordings
  PROVE  /\ inHand' => buffer' = buffer /\ (inHand \/ (worker = "test" /\ ready))
         /\ worker' = "fwrite" /\ encoded \in {buffer, Garbage} => encoded' \in {buffer, Garbage}
         /\ worker' = "fwrite" /\ worker # "fwrite" => encoded' \in {buffer, Garbage}
         /\ gtk' \in {"mp3_buffer", "ready"} => gtk \in {"mp3_buffer", "ready"}
         /\ gtk' = "flush" => gtk = "flush" \/ StopReady
<1> TypedButRecordings
  BY Typed
<1> USE DEF inHand, TypedButRecordings, audioVars, workerVars, fileVars
<1>1. CASE ProcessBypass
  BY <1>1 DEF ProcessBypass
<1>2. CASE ProcessBegin
  BY <1>2 DEF ProcessBegin
<1>3. CASE ProcessPush
  BY <1>3 DEF ProcessPush
<1>4. CASE WorkerPop
  BY <1>4 DEF WorkerPop
<1>5. CASE DiskWriteTest
  BY <1>5 DEF DiskWriteTest
<1>6. CASE DiskWriteEncode
  BY <1>6 DEF DiskWriteEncode, DiskWriteReturns
<1>7. CASE DiskWriteFwrite
  BY <1>7 DEF DiskWriteFwrite, DiskWriteReturns
<1>8. CASE ChainBegin
  BY <1>8 DEF ChainBegin
<1>9. CASE ChainEnd
  BY <1>9 DEF ChainEnd
<1>10. CASE StartLame
  BY <1>10 DEF StartLame
<1>11. CASE StartOutputFile
  <2>1. Len(recordings) \in Nat /\ Len(recordings') = Len(recordings) + 1
    BY <1>11 DEF StartOutputFile, TypeOK
  <2> QED BY <2>1
<1>12. CASE StartBuffer
  BY <1>12 DEF StartBuffer
<1>13. CASE StartReady
  BY <1>13 DEF StartReady
<1>14. CASE StopReady
  BY <1>14 DEF StopReady
<1>15. CASE StopFlush
  BY <1>15 DEF StopFlush
<1>16. CASE StopLameClose
  BY <1>16 DEF StopLameClose
<1>17. CASE StopFclose
  BY <1>17 DEF StopFclose
<1>18. CASE StopClear
  BY <1>18 DEF StopClear
<1>19. CASE StopFree
  BY <1>19 DEF StopFree
<1>20. CASE UNCHANGED vars
  BY <1>20 DEF vars
<1> QED
  BY <1>1, <1>2, <1>3, <1>4, <1>5, <1>6, <1>7, <1>8, <1>9, <1>10, <1>11, <1>12, <1>13, <1>14, <1>15, <1>16, <1>17, <1>18, <1>19, <1>20, Actions

\* The parts about disk_write, in the steps that leave the recordings alone.
LEMMA InHandKept ==
  ASSUME TypeOK, Listed, Guarded, Toggled, FromInv, [Next]_vars, UNCHANGED recordings
  PROVE  (InHandBelongs /\ FreshWritten)'
<1>1. now' = now
  BY DEF now
<1>2. ASSUME NEW b PROVE belongs(b)' <=> belongs(b')
  BY <1>1 DEF belongs
<1>3. TypedButRecordings
  BY Typed
<1>4. worker = "test" /\ ready => belongs(buffer) /\ gtk \notin {"mp3_buffer", "ready"}
  <2> SUFFICES ASSUME worker = "test", ready PROVE belongs(buffer) /\ gtk \notin {"mp3_buffer", "ready"}
    OBVIOUS
  <2>1. gtk \in {"idle", "rebuild"} /\ Recorded
    BY DEF Guarded, Toggled
  <2>2. buffer \in Backlog
    BY DEF Backlog
  <2> QED BY <2>1, <2>2 DEF FromInv, WaitingBelongs
<1>5. /\ inHand' => buffer' = buffer /\ (inHand \/ (worker = "test" /\ ready))
      /\ worker' = "fwrite" => encoded' \in {buffer, Garbage}
      /\ gtk' \in {"mp3_buffer", "ready"} => gtk \in {"mp3_buffer", "ready"}
  BY InHandFacts DEF FromInv, InHandBelongs
<1>6. InHandBelongs'
  <2>1. inHand' => belongs(buffer)
    BY <1>4, <1>5 DEF FromInv, InHandBelongs, inHand
  <2>2. inHand' => belongs(buffer)'
    BY <2>1, <1>1, <1>5 DEF belongs
  <2> QED BY <1>5, <2>2 DEF InHandBelongs, inHand
<1>7. FreshWritten'
  <2> SUFFICES ASSUME gtk' \in {"mp3_buffer", "ready"}
               PROVE  /\ members(now.written) \subseteq now.before \cup {Garbage}
                      /\ inHand' => buffer' \in now.before
    BY <1>1 DEF FreshWritten, members, inHand
  <2>1. gtk \in {"mp3_buffer", "ready"}
    BY <1>5
  <2>2. members(now.written) \subseteq now.before \cup {Garbage} /\ (inHand => buffer \in now.before)
    BY <2>1 DEF FromInv, FreshWritten, inHand
  <2> QED BY <2>1, <2>2, <1>4, <1>5
<1> QED BY <1>6, <1>7

\* Only five steps change the recordings.
LEMMA Changers ==
  ASSUME [Next]_vars
  PROVE  \/ UNCHANGED recordings
         \/ DiskWriteFwrite /\ worker' = "poll"
              /\ recordings' = Written(IF mp3_buffer = "open" THEN encoded ELSE Garbage)
         \/ StopFlush /\ gtk' = "lame_close" /\ recordings' = Written(Garbage)
         \/ StartOutputFile \/ StartReady \/ StopReady
<1> USE DEF vars
<1>1. ProcessBypass \/ ProcessBegin \/ ProcessPush \/ WorkerPop \/ DiskWriteTest
      \/ DiskWriteEncode \/ ChainBegin \/ ChainEnd \/ StartLame \/ StartBuffer
      \/ StopLameClose \/ StopFclose \/ StopClear \/ StopFree
      \/ UNCHANGED vars => UNCHANGED recordings
  BY DEF ProcessBypass, ProcessBegin, ProcessPush, WorkerPop, DiskWriteTest, DiskWriteEncode,
         ChainBegin, ChainEnd, StartLame, StartBuffer, StopLameClose, StopFclose,
         StopClear, StopFree
<1>2. DiskWriteFwrite => \/ UNCHANGED recordings
                         \/ /\ recordings' = Written(IF mp3_buffer = "open" THEN encoded ELSE Garbage)
                            /\ worker' = "poll"
  BY DEF DiskWriteFwrite, DiskWriteReturns
<1>3. StopFlush => \/ UNCHANGED recordings
                   \/ recordings' = Written(Garbage) /\ gtk' = "lame_close"
  BY DEF StopFlush
<1> QED BY <1>1, <1>2, <1>3, Actions

LEMMA SameFrom ==
  ASSUME UNCHANGED recordings, OnlyBacklogFromBefore
  PROVE  OnlyBacklogFromBefore'
BY DEF OnlyBacklogFromBefore

LEMMA FromStep ==
  ASSUME TypeOK, Waiting, Listed, Guarded, Toggled, FromInv, [Next]_vars
  PROVE  FromInv'
<1>1. TypedButRecordings /\ recordings \in Seq(Recording) /\ Backlog \subseteq Blocks
  BY Typed, BacklogTyped
<1>2. captured \in Nat /\ Backlog \subseteq 1..captured
  BY <1>1 DEF TypedButRecordings, Waiting
<1>3. recordings # <<>> => /\ now \in Recording
                           /\ now.written \in Seq(Blocks \cup {Garbage})
                           /\ now.from \in Nat
  BY <1>1, NowTyped DEF Recording
<1>4. recordings # <<>> => FromOf(now)
  BY <1>1, FromAll DEF FromInv, now
<1>5. CASE UNCHANGED recordings
  BY <1>5, WaitingBelongsKept, InHandKept, SameFrom DEF FromInv
<1>6. CASE DiskWriteFwrite /\ recordings' = Written(IF mp3_buffer = "open" THEN encoded ELSE Garbage)
  <2>1. worker = "fwrite" /\ recordings # <<>>
    BY <1>6 DEF DiskWriteFwrite, Listed
  <2>2. PICK b \in {encoded, Garbage} : recordings' = Written(b)
    BY <1>6
  <2>3. b \in {buffer, Garbage} /\ b \in Blocks \cup {Garbage}
    BY <1>1, <2>1 DEF FromInv, InHandBelongs, TypedButRecordings
  <2> DEFINE x == [now EXCEPT !.written = Append(now.written, b)]
  <2>4. BecomesLast(x)
    BY <2>1, <2>2, <2>3, AfterFwrite
  <2>5. /\ x \in Recording
        /\ x.from = now.from /\ x.before = now.before /\ x.stopped = now.stopped
        /\ members(x.written) = members(now.written) \cup {b}
    <3>1. Append(now.written, b) \in Seq(Blocks \cup {Garbage})
      BY <2>1, <2>3, <1>3
    <3>2. members(Append(now.written, b)) = members(now.written) \cup {b}
      BY <2>1, <1>3, AppendMembers
    <3> QED BY <2>1, <1>3, <3>1, <3>2 DEF Recording
  <2>6. now' = x
    BY <2>4 DEF BecomesLast
  <2> HIDE DEF x
  <2>7. Recorded' = Recorded
    BY <2>1, <2>4, <2>5, <2>6 DEF Recorded, BecomesLast, now
  <2>8. UNCHANGED <<captured, lockFreeQueue, callback, buffer, gtk, encoded>>
        /\ worker' \in {"poll", "fwrite"}
    BY <1>6, <2>1 DEF DiskWriteFwrite, DiskWriteReturns, audioVars
  <2>9. belongs(buffer)
    BY <2>1 DEF FromInv, InHandBelongs
  <2>10. FromOf(x)
    BY <1>4, <2>1, <2>3, <2>5, <2>9 DEF FromOf, belongs
  <2>11. OnlyBacklogFromBefore'
    BY <2>4, <2>5, <2>10, FromKept DEF FromInv
  <2>12. WaitingBelongs'
    <3>1. Backlog' \subseteq Backlog
      BY <2>1, <2>8 DEF Backlog
    <3> QED BY <3>1, <2>1, <2>5, <2>6, <2>7, <2>8 DEF FromInv, WaitingBelongs, belongs
  <2>13. InHandBelongs'
    BY <2>1, <2>5, <2>6, <2>8, <2>9 DEF FromInv, InHandBelongs, belongs
  <2>14. FreshWritten'
    <3> SUFFICES ASSUME gtk' \in {"mp3_buffer", "ready"}
                 PROVE  /\ members(x.written) \subseteq now.before \cup {Garbage}
                        /\ worker' \in {"encode", "fwrite"} => buffer' \in now.before
      BY <2>5, <2>6 DEF FreshWritten, members
    <3>1. gtk \in {"mp3_buffer", "ready"} /\ buffer \in now.before
          /\ members(now.written) \subseteq now.before \cup {Garbage}
      BY <2>1, <2>8 DEF FromInv, FreshWritten
    <3> QED BY <3>1, <2>3, <2>5, <2>8
  <2> QED BY <2>11, <2>12, <2>13, <2>14 DEF FromInv
<1>7. CASE StartOutputFile
  <2>1. /\ now' = opened /\ recordings' # <<>> /\ Len(recordings') = Len(recordings) + 1
        /\ \A r \in 1..Len(recordings) : recordings'[r] = recordings[r]
    BY <1>1, <1>7, AfterOpen
  <2>2. gtkKeeps
    BY <1>7, GtkKeeps
  <2>3. Backlog' = Backlog /\ UNCHANGED <<worker, buffer, captured, encoded>>
    BY <2>2, <1>7 DEF gtkKeeps, Backlog, StartOutputFile, workerVars
  <2>4. opened.from = 0 /\ opened.before = Backlog /\ members(opened.written) = {} /\ opened.written = <<>>
    BY DEF opened, members
  <2>5. \A b \in Backlog : b > 0
    BY <1>2
  <2>6. worker # "poll" => buffer \in Backlog
    BY DEF Backlog
  <2>7. WaitingBelongs'
    BY <2>1, <2>3, <2>4, <2>5, <1>2 DEF WaitingBelongs, belongs
  <2>8. InHandBelongs'
    BY <2>1, <2>3, <2>4, <2>6 DEF FromInv, InHandBelongs, belongs
  <2>9. FreshWritten'
    <3>1. members(now'.written) = {} /\ now'.before = Backlog
      BY <2>1, <2>4
    <3> QED BY <3>1, <2>3, <2>6 DEF FreshWritten, members
  <2>10. OnlyBacklogFromBefore'
    <3>1. Len(recordings) \in Nat
      BY <1>1
    <3>2. \A r \in 1..Len(recordings) : FromOf(recordings[r])
      BY FromAll DEF FromInv
    <3>3. FromOf(opened)
      BY <2>4 DEF FromOf
    <3>4. \A r \in 1..Len(recordings') : FromOf(recordings'[r])
      BY <3>1, <3>2, <3>3, <2>1 DEF now
    <3> QED BY <3>4 DEF OnlyBacklogFromBefore, FromOf, members
  <2> QED BY <2>7, <2>8, <2>9, <2>10 DEF FromInv
<1>8. CASE StartReady
  <2>1. recordings # <<>> /\ gtk = "ready"
    BY <1>8 DEF StartReady, Listed
  <2> DEFINE x == [now EXCEPT !.from = captured, !.before = now.before \cup Backlog]
  <2>2. BecomesLast(x)
    BY <1>1, <1>8, <2>1, AfterStart
  <2>3. /\ x \in Recording /\ x.from = captured /\ x.before = now.before \cup Backlog
        /\ x.written = now.written
    BY <1>1, <1>3, <2>1 DEF Recording, TypedButRecordings
  <2>4. now' = x
    BY <2>2 DEF BecomesLast
  <2> HIDE DEF x
  <2>5. gtkKeeps
    BY <1>8, GtkKeeps
  <2>6. Backlog' = Backlog /\ UNCHANGED <<worker, buffer, captured, encoded>> /\ gtk' = "idle"
    BY <2>5, <1>8 DEF gtkKeeps, Backlog, StartReady
  <2>7. worker # "poll" => buffer \in Backlog
    BY DEF Backlog
  <2>8. WaitingBelongs'
    BY <2>3, <2>4, <2>6, <1>2 DEF WaitingBelongs, belongs
  <2>9. InHandBelongs' /\ FreshWritten'
    BY <2>3, <2>4, <2>6, <2>7 DEF FromInv, InHandBelongs, FreshWritten, belongs
  <2>10. FromOf(x)
    BY <2>1, <2>3 DEF FromInv, FreshWritten, FromOf
  <2>11. OnlyBacklogFromBefore'
    BY <2>2, <2>3, <2>10, FromKept DEF FromInv
  <2> QED BY <2>8, <2>9, <2>11 DEF FromInv
<1>9. CASE StopReady
  <2>1. recordings # <<>>
    BY <1>9 DEF StopReady, Recorded
  <2> DEFINE x == [now EXCEPT !.stopped = TRUE, !.upTo = captured, !.after = Backlog]
  <2>2. BecomesLast(x)
    BY <1>1, <1>9, <2>1, AfterStop
  <2>3. /\ x \in Recording /\ x.from = now.from /\ x.before = now.before
        /\ x.written = now.written /\ x.stopped = TRUE
    BY <1>1, <1>3, <2>1 DEF Recording, TypedButRecordings
  <2>4. now' = x
    BY <2>2 DEF BecomesLast
  <2> HIDE DEF x
  <2>5. UNCHANGED <<worker, buffer, captured, encoded>> /\ gtk' = "flush"
    BY <1>9 DEF StopReady, audioVars
  <2>6. ~Recorded'
    BY <2>3, <2>4 DEF Recorded, now
  <2>7. WaitingBelongs' /\ InHandBelongs' /\ FreshWritten'
    BY <2>1, <2>3, <2>4, <2>5, <2>6
       DEF FromInv, WaitingBelongs, InHandBelongs, FreshWritten, belongs
  <2>8. OnlyBacklogFromBefore'
    BY <1>4, <2>1, <2>2, <2>3, FromKept DEF FromInv, FromOf
  <2> QED BY <2>7, <2>8 DEF FromInv
<1>10. CASE StopFlush /\ gtk' = "lame_close" /\ recordings' = Written(Garbage)
  <2>1. recordings # <<>>
    BY <1>10 DEF StopFlush, Listed
  <2>2. /\ now' \in Recording /\ BecomesLast(now')
        /\ now'.from = now.from /\ now'.before = now.before
        /\ members(now'.written) = members(now.written) \cup {Garbage}
        /\ UNCHANGED Recorded
    BY <2>1, <1>10, Appended
  <2>3. gtkKeeps /\ UNCHANGED encoded
    BY <1>10, GtkKeeps DEF StopFlush, workerVars
  <2>4. Backlog' = Backlog /\ UNCHANGED <<worker, buffer, captured, encoded>>
    BY <2>3 DEF gtkKeeps, Backlog
  <2>5. WaitingBelongs'
    BY <2>1, <2>2, <2>4 DEF FromInv, WaitingBelongs, belongs
  <2>6. InHandBelongs'
    BY <2>2, <2>4 DEF FromInv, InHandBelongs, belongs
  <2>7. FreshWritten'
    BY <1>10 DEF FreshWritten
  <2>8. FromOf(now)
    BY <1>4, <2>1
  <2>9. FromOf(now')
    BY <2>2, <2>8 DEF FromOf
  <2>10. OnlyBacklogFromBefore'
    BY <2>2, <2>9, FromKept DEF FromInv
  <2> QED BY <2>5, <2>6, <2>7, <2>10 DEF FromInv
<1> QED BY <1>5, <1>6, <1>7, <1>8, <1>9, <1>10, Changers

-----------------------------------------------------------------------------
(* What is lost *)

\* While `ready' is set, what was captured since the start is dropped, waits or is
\* written, and a block whose encoding was spoilt by a fresh buffer is older.
NothingElseMissing ==
  ready => /\ now.from + 1..captured \subseteq dropped \cup Backlog \cup members(now.written)
           /\ worker = "fwrite" => encoded = buffer \/ buffer <= now.from

LostOf(rec, gone) ==
  rec.stopped => rec.from + 1..rec.upTo \subseteq gone \cup rec.after \cup members(rec.written)

LEMMA LostAll ==
  NothingElseIsLost <=> \A r \in 1..Len(recordings) : LostOf(recordings[r], dropped)
BY DEF NothingElseIsLost, LostOf, members

LEMMA LostKept ==
  ASSUME NothingElseIsLost, NEW x \in Recording, BecomesLast(x), LostOf(x, dropped'),
         dropped \subseteq dropped'
  PROVE  NothingElseIsLost'
<1>1. Len(recordings) = Len(recordings') /\ recordings'[Len(recordings')] = x
      /\ \A r \in 1..Len(recordings) : r # Len(recordings) => recordings'[r] = recordings[r]
  BY DEF BecomesLast, now
<1>2. \A r \in 1..Len(recordings) : LostOf(recordings[r], dropped)
  BY LostAll
<1>3. \A r \in 1..Len(recordings') : LostOf(recordings'[r], dropped')
  BY <1>1, <1>2 DEF LostOf
<1> QED BY <1>3 DEF NothingElseIsLost, LostOf, members

LEMMA LostSame ==
  ASSUME NothingElseIsLost, UNCHANGED recordings, dropped \subseteq dropped'
  PROVE  NothingElseIsLost'
BY DEF NothingElseIsLost

LostInv == NothingElseMissing /\ NothingElseIsLost

\* While `ready' is set, disk_write gives up no block without having written it, but
\* those that lame refuses.
LEMMA NoneGivenUp ==
  ASSUME TypeOK, Guarded, [Next]_vars, UNCHANGED recordings, recordings \in Seq(Recording),
         ready, recordings # <<>>
  PROVE  worker # "poll" /\ worker' = "poll" => buffer \in dropped'
<1>1. lame = "open" /\ mp3_buffer = "open" /\ outputFile \in {"null", "open"}
  BY DEF Guarded
<1>2. CASE DiskWriteFwrite
  <2>1. CASE outputFile = "open"
    <3>1. recordings' = Written(encoded)
      BY <1>1, <1>2, <2>1 DEF DiskWriteFwrite
    <3>2. recordings' = [recordings EXCEPT ![Len(recordings)] = [now EXCEPT !.written = Append(now.written, encoded)]]
      BY <3>1 DEF Written, now
    <3>3. now \in Recording
      BY NowTyped
    <3>4. encoded \in Blocks \cup {Garbage}
      BY DEF TypeOK
    <3>5. BecomesLast([now EXCEPT !.written = Append(now.written, encoded)])
      BY <3>1, <3>4, AfterFwrite
    <3>6. now.written = Append(now.written, encoded)
      BY <3>3, <3>5 DEF BecomesLast, now, Recording
    <3>7. now.written \in Seq(Blocks \cup {Garbage})
      BY <3>3 DEF Recording
    <3>8. Len(Append(now.written, encoded)) = Len(now.written) + 1 /\ Len(now.written) \in Nat
      BY <3>7, <3>4
    <3> QED BY <3>6, <3>8
  <2>2. CASE outputFile = "null"
    BY <1>2, <2>2 DEF DiskWriteFwrite
  <2> QED BY <1>1, <2>1, <2>2
<1>3. CASE DiskWriteEncode
  BY <1>1, <1>3 DEF DiskWriteEncode, Guarded
<1>4. CASE DiskWriteTest
  BY <1>4 DEF DiskWriteTest
<1>5. CASE gtkKeeps
  BY <1>5 DEF gtkKeeps
<1>6. CASE ProcessBypass \/ ProcessBegin \/ ProcessPush \/ WorkerPop
  BY <1>6 DEF ProcessBypass, ProcessBegin, ProcessPush, WorkerPop, workerVars
<1> QED BY <1>2, <1>3, <1>4, <1>5, <1>6, Actions, GtkKeeps

\* The second part of NothingElseMissing, in the steps that leave the recordings alone.
LEMMA EncodedKept ==
  ASSUME TypeOK, Guarded, [Next]_vars, UNCHANGED recordings, ready', ~StartReady
  PROVE  ready /\ (worker' = "fwrite" =>
                       \/ encoded' = buffer'
                       \/ worker = "fwrite" /\ encoded # buffer /\ buffer' = buffer)
<1>1. ready
  BY Actions DEF ProcessBypass, ProcessBegin, ProcessPush, WorkerPop, DiskWriteTest, DiskWriteEncode,
     DiskWriteFwrite, ChainBegin, ChainEnd, StartLame, StartOutputFile, StartBuffer, StopReady,
     StopFlush, StopLameClose, StopFclose, StopClear, StopFree, fileVars, vars
<1>2. lame = "open" /\ mp3_buffer = "open" /\ gtk \in {"idle", "rebuild"}
  BY <1>1 DEF Guarded
<1> USE <1>2 DEF audioVars, workerVars, fileVars
<1>4. CASE DiskWriteEncode
  BY <1>4 DEF DiskWriteEncode, DiskWriteReturns
<1>5. CASE DiskWriteFwrite
  BY <1>5 DEF DiskWriteFwrite, DiskWriteReturns
<1>6. CASE ProcessBypass \/ ProcessBegin \/ ProcessPush \/ UNCHANGED vars
  BY <1>6 DEF ProcessBypass, ProcessBegin, ProcessPush, vars
<1>7. CASE WorkerPop \/ DiskWriteTest
  BY <1>7 DEF WorkerPop, DiskWriteTest
<1>8. CASE ChainBegin \/ ChainEnd \/ StartLame
  BY <1>8 DEF ChainBegin, ChainEnd, StartLame
<1>9. CASE StopReady
  BY <1>9 DEF StopReady
<1>10. CASE StartOutputFile \/ StartBuffer \/ StopFlush \/ StopLameClose \/ StopFclose \/ StopClear \/ StopFree
  BY <1>10 DEF StartOutputFile, StartBuffer, StopFlush, StopLameClose, StopFclose, StopClear, StopFree
<1> QED BY <1>1, <1>4, <1>5, <1>6, <1>7, <1>8, <1>9, <1>10, Actions

LEMMA LostStep ==
  ASSUME TypeOK, Waiting, Listed, Guarded, Toggled, FromInv, LostInv, [Next]_vars
  PROVE  LostInv'
<1>1. TypedButRecordings /\ recordings \in Seq(Recording) /\ Backlog \subseteq Blocks
  BY Typed, BacklogTyped
<1>2. captured \in Nat /\ Backlog \subseteq 1..captured
  BY <1>1 DEF TypedButRecordings, Waiting
<1>3. recordings # <<>> => /\ now \in Recording
                           /\ now.written \in Seq(Blocks \cup {Garbage})
                           /\ now.from \in Nat
  BY <1>1, NowTyped DEF Recording
<1>4. LeavesOnlyDone
  BY BacklogStep
<1>5. dropped \subseteq dropped'
  BY <1>4 DEF LeavesOnlyDone
<1>6. recordings # <<>> => LostOf(now, dropped)
  BY <1>1, LostAll DEF LostInv, now
<1>7. CASE StartReady
  <2>1. recordings # <<>>
    BY <1>7 DEF StartReady, Listed
  <2> DEFINE x == [now EXCEPT !.from = captured, !.before = now.before \cup Backlog]
  <2>2. BecomesLast(x)
    BY <1>1, <1>7, <2>1, AfterStart
  <2>3. x \in Recording /\ x.from = captured /\ x.stopped = now.stopped
    BY <1>1, <1>3, <2>1 DEF Recording, TypedButRecordings
  <2>4. now' = x
    BY <2>2 DEF BecomesLast
  <2>5. ~now.stopped
    BY <1>7, <2>1 DEF StartReady, Toggled, Recorded, now
  <2> HIDE DEF x
  <2>6. NothingElseIsLost'
    BY <1>5, <2>2, <2>3, <2>5, LostKept DEF LostInv, LostOf
  <2>7. UNCHANGED <<captured, worker, buffer>>
    BY <1>7 DEF StartReady, audioVars
  <2>8. worker # "poll" => buffer <= captured
    BY <1>2 DEF Backlog
  <2>9. NothingElseMissing'
    BY <2>3, <2>4, <2>7, <2>8, <1>2 DEF NothingElseMissing
  <2> QED BY <2>6, <2>9 DEF LostInv
<1>8. CASE UNCHANGED recordings /\ ~StartReady
  <2>1. NothingElseIsLost'
    BY <1>5, <1>8, LostSame DEF LostInv
  <2>2. SUFFICES ASSUME ready' PROVE NothingElseMissing'
    BY <2>1 DEF LostInv, NothingElseMissing
  <2>3. ready /\ (worker' = "fwrite" => encoded' = buffer' \/ buffer' <= now.from)
    BY <1>8, <2>2, EncodedKept DEF LostInv, NothingElseMissing
  <2>4. recordings # <<>> /\ now' = now
    BY <1>8, <2>3 DEF Listed, now
  <2>5. worker # "poll" /\ worker' = "poll" => buffer \in dropped'
    BY <1>1, <1>8, <2>3, <2>4, NoneGivenUp
  <2>6. now.from + 1..captured \subseteq dropped' \cup Backlog' \cup members(now.written)
    BY <1>4, <2>3, <2>5 DEF LostInv, NothingElseMissing, LeavesOnlyDone
  <2>7. captured' \in captured..captured + 1 /\ (captured' # captured => captured' \in dropped' \cup Backlog')
    BY <1>4 DEF LeavesOnlyDone
  <2>8. \A b \in now.from + 1..captured' : b \in now.from + 1..captured \/ b = captured'
    BY <1>2, <1>3, <2>4, <2>7
  <2>9. now.from + 1..captured' \subseteq dropped' \cup Backlog' \cup members(now.written)
    BY <2>6, <2>7, <2>8
  <2> QED BY <2>3, <2>4, <2>9 DEF NothingElseMissing, members
<1>9. CASE DiskWriteFwrite /\ recordings' = Written(IF mp3_buffer = "open" THEN encoded ELSE Garbage)
  <2>1. worker = "fwrite" /\ recordings # <<>>
    BY <1>9 DEF DiskWriteFwrite, Listed
  <2>2. PICK b \in {encoded, Garbage} : recordings' = Written(b) /\ (mp3_buffer = "open" => b = encoded)
    BY <1>9
  <2>3. b \in Blocks \cup {Garbage}
    BY <1>1, <2>1 DEF TypedButRecordings
  <2> DEFINE x == [now EXCEPT !.written = Append(now.written, b)]
  <2>4. BecomesLast(x)
    BY <2>1, <2>2, <2>3, AfterFwrite
  <2>5. /\ x \in Recording
        /\ x.from = now.from /\ x.stopped = now.stopped /\ x.upTo = now.upTo /\ x.after = now.after
        /\ members(x.written) = members(now.written) \cup {b}
    <3>1. Append(now.written, b) \in Seq(Blocks \cup {Garbage})
      BY <2>1, <2>3, <1>3
    <3>2. members(Append(now.written, b)) = members(now.written) \cup {b}
      BY <2>1, <1>3, AppendMembers
    <3> QED BY <2>1, <1>3, <3>1, <3>2 DEF Recording
  <2>6. now' = x
    BY <2>4 DEF BecomesLast
  <2> HIDE DEF x
  <2>7. NothingElseIsLost'
    BY <1>5, <1>6, <2>1, <2>4, <2>5, LostKept DEF LostInv, LostOf
  <2>8. UNCHANGED <<captured, buffer, ready>> /\ (worker' # "poll" => encoded' = encoded)
    BY <1>9 DEF DiskWriteFwrite, audioVars, fileVars
  <2>9. NothingElseMissing'
    <3> SUFFICES ASSUME ready PROVE NothingElseMissing'
      BY <2>8 DEF NothingElseMissing
    <3>1. b = encoded /\ (encoded = buffer \/ buffer <= now.from)
      BY <2>1, <2>2 DEF Guarded, LostInv, NothingElseMissing
    <3>2. now.from + 1..captured \subseteq dropped \cup Backlog \cup members(now.written)
      BY DEF LostInv, NothingElseMissing
    <3>3. \A c \in Backlog : c \in dropped' \cup Backlog' \/ c = buffer
      BY <1>4 DEF LeavesOnlyDone
    <3>4. now.from + 1..captured \subseteq dropped' \cup Backlog' \cup members(x.written)
      <4> SUFFICES ASSUME NEW c \in now.from + 1..captured
                   PROVE  c \in dropped' \cup Backlog' \cup members(x.written)
        OBVIOUS
      <4>1. CASE c = buffer
        BY <4>1, <3>1, <2>1, <2>5, <1>2, <1>3
      <4>2. CASE c # buffer
        BY <4>2, <3>2, <3>3, <1>5, <2>5
      <4> QED BY <4>1, <4>2
    <3>5. worker' = "fwrite" => encoded' = buffer' \/ buffer' <= now.from
      BY <3>1, <2>8
    <3>6. members(now.written)' = members(x.written)
      BY <2>6 DEF members
    <3> QED BY <2>5, <2>6, <2>8, <3>4, <3>5, <3>6 DEF NothingElseMissing
  <2> QED BY <2>7, <2>9 DEF LostInv
<1>10. CASE StartOutputFile
  <2>1. /\ now' = opened /\ Len(recordings') = Len(recordings) + 1
        /\ \A r \in 1..Len(recordings) : recordings'[r] = recordings[r]
    BY <1>1, <1>10, AfterOpen
  <2>2. ~ready'
    BY <1>10 DEF StartOutputFile, Guarded
  <2>3. Len(recordings) \in Nat
    BY <1>1
  <2>4. \A r \in 1..Len(recordings) : LostOf(recordings[r], dropped)
    BY LostAll DEF LostInv
  <2>5. LostOf(opened, dropped')
    BY DEF LostOf, opened
  <2>6. \A r \in 1..Len(recordings') : LostOf(recordings'[r], dropped')
    BY <1>5, <2>1, <2>3, <2>4, <2>5 DEF now, LostOf
  <2>7. NothingElseIsLost'
    BY <2>6 DEF NothingElseIsLost, LostOf, members
  <2> QED BY <2>2, <2>7 DEF LostInv, NothingElseMissing
<1>11. CASE StopReady
  <2>1. recordings # <<>> /\ ready
    BY <1>11 DEF StopReady, Recorded, Toggled
  <2> DEFINE x == [now EXCEPT !.stopped = TRUE, !.upTo = captured, !.after = Backlog]
  <2>2. BecomesLast(x)
    BY <1>1, <1>11, <2>1, AfterStop
  <2>3. /\ x \in Recording /\ x.from = now.from /\ x.upTo = captured /\ x.after = Backlog
        /\ x.written = now.written
    BY <1>1, <1>3, <2>1 DEF Recording, TypedButRecordings
  <2> HIDE DEF x
  <2>4. LostOf(x, dropped')
    BY <1>5, <2>1, <2>3 DEF LostOf, LostInv, NothingElseMissing
  <2>5. NothingElseIsLost'
    BY <1>5, <2>2, <2>3, <2>4, LostKept DEF LostInv
  <2>6. ~ready'
    BY <1>11 DEF StopReady
  <2> QED BY <2>5, <2>6 DEF LostInv, NothingElseMissing
<1>12. CASE StopFlush /\ gtk' = "lame_close" /\ recordings' = Written(Garbage)
  <2>1. recordings # <<>> /\ ~ready'
    BY <1>12 DEF StopFlush, Listed, Guarded, fileVars
  <2>2. /\ now' \in Recording /\ BecomesLast(now')
        /\ now'.from = now.from /\ now'.upTo = now.upTo /\ now'.after = now.after
        /\ now'.stopped = now.stopped
        /\ members(now'.written) = members(now.written) \cup {Garbage}
    BY <2>1, <1>12, Appended
  <2>3. LostOf(now, dropped)
    BY <1>6, <2>1
  <2>4. LostOf(now', dropped')
    BY <1>5, <2>2, <2>3 DEF LostOf
  <2>5. NothingElseIsLost'
    BY <1>5, <2>2, <2>4, LostKept DEF LostInv
  <2> QED BY <2>1, <2>5 DEF LostInv, NothingElseMissing
<1> QED BY <1>7, <1>8, <1>9, <1>10, <1>11, <1>12, Changers

-----------------------------------------------------------------------------
(* The order of the blocks *)

\* Blocks wait in the order they were captured in.
Sorted ==
  /\ \A i, j \in 1..Len(lockFreeQueue) : i < j => lockFreeQueue[i] < lockFreeQueue[j]
  /\ worker # "poll" => \A i \in 1..Len(lockFreeQueue) : buffer < lockFreeQueue[i]
  /\ callback = "push" => /\ \A i \in 1..Len(lockFreeQueue) : lockFreeQueue[i] < captured
                          /\ worker # "poll" => buffer < captured

LEMMA SortedStep ==
  ASSUME TypeOK, Waiting, Sorted, [Next]_vars
  PROVE  Sorted'
<1>1. lockFreeQueue \in Seq(Blocks) /\ captured \in Nat /\ Len(lockFreeQueue) \in Nat
  BY DEF TypeOK
<1>2. /\ \A i \in 1..Len(lockFreeQueue) : lockFreeQueue[i] \in 1..captured
      /\ worker # "poll" => buffer \in 1..captured
  BY DEF Waiting, Backlog
<1> USE <1>1, <1>2 DEF Sorted
<1>3. CASE gtkKeeps
  BY <1>3 DEF gtkKeeps
<1>4. CASE ProcessBypass
  BY <1>4 DEF ProcessBypass, workerVars
<1>5. CASE ProcessBegin
  BY <1>5 DEF ProcessBegin, workerVars
<1>6. CASE ProcessPush
  <2>1. CASE UNCHANGED lockFreeQueue
    BY <1>6, <2>1 DEF ProcessPush, workerVars
  <2>2. CASE lockFreeQueue' = Append(lockFreeQueue, captured)
    <3>1. /\ Len(lockFreeQueue') = Len(lockFreeQueue) + 1
          /\ lockFreeQueue'[Len(lockFreeQueue) + 1] = captured
          /\ \A i \in 1..Len(lockFreeQueue) : lockFreeQueue'[i] = lockFreeQueue[i]
      BY <2>2
    <3>2. \A i \in 1..Len(lockFreeQueue') : i \in 1..Len(lockFreeQueue) \/ i = Len(lockFreeQueue) + 1
      BY <3>1
    <3>3. callback = "push" /\ callback' = "idle" /\ UNCHANGED <<worker, buffer, captured>>
      BY <1>6 DEF ProcessPush, workerVars
    <3>4. \A a, b \in 1..Len(lockFreeQueue') : a < b => lockFreeQueue'[a] < lockFreeQueue'[b]
      BY <3>1, <3>2, <3>3
    <3>5. worker # "poll" => \A a \in 1..Len(lockFreeQueue') : buffer < lockFreeQueue'[a]
      BY <3>1, <3>2, <3>3
    <3> QED BY <3>3, <3>4, <3>5
  <2> QED BY <1>6, <2>1, <2>2 DEF ProcessPush
<1>7. CASE WorkerPop
  <2>1. /\ Len(lockFreeQueue) > 0 /\ buffer' = lockFreeQueue[1]
        /\ Len(lockFreeQueue') = Len(lockFreeQueue) - 1
        /\ \A i \in 1..Len(lockFreeQueue') : lockFreeQueue'[i] = lockFreeQueue[i + 1]
    BY <1>7 DEF WorkerPop
  <2>2. UNCHANGED <<callback, captured>>
    BY <1>7 DEF WorkerPop
  <2>3. /\ \A a \in 1..Len(lockFreeQueue') : a + 1 \in 1..Len(lockFreeQueue) /\ a + 1 > 1
        /\ 1 \in 1..Len(lockFreeQueue)
    BY <2>1
  <2>4. \A a, b \in 1..Len(lockFreeQueue') : a < b => lockFreeQueue'[a] < lockFreeQueue'[b]
    <3> SUFFICES ASSUME NEW a \in 1..Len(lockFreeQueue'), NEW b \in 1..Len(lockFreeQueue'), a < b
                 PROVE  lockFreeQueue'[a] < lockFreeQueue'[b]
      OBVIOUS
    <3>1. a + 1 < b + 1
      BY <2>1
    <3>2. lockFreeQueue[a + 1] < lockFreeQueue[b + 1]
      BY <2>3, <3>1
    <3> QED BY <2>1, <3>2
  <2>5. \A a \in 1..Len(lockFreeQueue') : buffer' < lockFreeQueue'[a]
    <3> SUFFICES ASSUME NEW a \in 1..Len(lockFreeQueue') PROVE buffer' < lockFreeQueue'[a]
      OBVIOUS
    <3>1. lockFreeQueue[1] < lockFreeQueue[a + 1]
      BY <2>3
    <3> QED BY <2>1, <3>1
  <2>6. callback = "push" => /\ \A a \in 1..Len(lockFreeQueue') : lockFreeQueue'[a] < captured
                            /\ buffer' < captured
    BY <2>1, <2>3
  <2> QED BY <2>2, <2>4, <2>5, <2>6
<1>8. CASE DiskWriteTest \/ DiskWriteEncode \/ DiskWriteFwrite
  <2>1. UNCHANGED <<callback, captured, lockFreeQueue, buffer>> /\ worker # "poll"
    BY <1>8 DEF DiskWriteTest, DiskWriteEncode, DiskWriteFwrite, audioVars
  <2> QED BY <2>1
<1> QED BY <1>3, <1>4, <1>5, <1>6, <1>7, <1>8, Actions, GtkKeeps

\* What disk_write has is the oldest block that waits.
LEMMA Oldest ==
  ASSUME TypeOK, Waiting, Sorted, worker # "poll"
  PROVE  buffer \in Backlog /\ \A b \in Backlog : b \in Nat /\ buffer <= b
<1>1. captured \in Nat /\ Backlog \subseteq 1..captured /\ lockFreeQueue \in Seq(Blocks)
  BY DEF TypeOK, Waiting
<1>2. buffer \in Backlog
  BY DEF Backlog
<1>3. ASSUME NEW b \in Backlog PROVE buffer <= b
  <2>1. CASE b = buffer
    BY <2>1, <1>1, <1>2
  <2>2. CASE callback = "push" /\ b = captured
    BY <2>2, <1>1, <1>2
  <2>3. CASE b \in {lockFreeQueue[k] : k \in 1..Len(lockFreeQueue)}
    BY <2>3, <1>1, <1>2, <1>3 DEF Sorted
  <2> QED BY <2>1, <2>2, <2>3, <1>3 DEF Backlog
<1> QED BY <1>1, <1>2, <1>3

\* The backlog has no gaps but what was dropped.
Gapless == \A b \in Backlog : b..captured \subseteq dropped \cup Backlog

LEMMA GaplessStep ==
  ASSUME TypeOK, Waiting, Sorted, Gapless, [Next]_vars
  PROVE  Gapless'
<1>1. LeavesOnlyDone
  BY BacklogStep
<1>2. captured \in Nat /\ Backlog \subseteq 1..captured /\ captured' \in captured..captured + 1
  BY <1>1 DEF TypeOK, Waiting, LeavesOnlyDone
<1> SUFFICES ASSUME NEW b \in Backlog', NEW c \in b..captured' PROVE c \in dropped' \cup Backlog'
  BY DEF Gapless
<1>3. CASE c = captured' /\ captured' # captured
  BY <1>1, <1>3 DEF LeavesOnlyDone
<1>4. CASE b \in Backlog /\ c <= captured
  <2>1. c \in dropped \cup Backlog
    BY <1>2, <1>4 DEF Gapless
  <2>2. CASE c = buffer /\ worker # "poll"
    <3>1. b = c
      BY <1>2, <1>4, <2>2, Oldest
    <3> QED BY <3>1
  <2> QED BY <1>1, <2>1, <2>2 DEF LeavesOnlyDone
<1>5. CASE b \notin Backlog
  BY <1>1, <1>2, <1>3, <1>5 DEF LeavesOnlyDone
<1> QED BY <1>1, <1>2, <1>3, <1>4, <1>5

\* What may be missing after the block at place i: all from before the start, if it
\* is the first.
earlier(rec, i) == IF i = 1 THEN 1..rec.from ELSE {}

\* A record of the list keeps to GapsAreDropped, when what was dropped is `gone'.
GapsOf(rec, gone) ==
  LET w == rec.written IN
  /\ \A i \in 1..Len(w) : w[i] = Garbage => i = 1 \/ (i >= Len(w) - 1 /\ rec.stopped)
  /\ \A i, j \in 1..Len(w) :
       i < j /\ w[i] # Garbage /\ w[j] # Garbage =>
         /\ w[i] < w[j]
         /\ w[i] + 1..w[j] - 1 \subseteq gone \cup members(w) \cup earlier(rec, i)

LEMMA GapsAll ==
  GapsAreDropped <=> \A r \in 1..Len(recordings) : GapsOf(recordings[r], dropped)
BY DEF GapsAreDropped, GapsOf, members, earlier

LEMMA GapsGrow ==
  ASSUME NEW rec, NEW gone, NEW more, gone \subseteq more, GapsOf(rec, gone)
  PROVE  GapsOf(rec, more)
BY DEF GapsOf

LEMMA GapsKept ==
  ASSUME GapsAreDropped, NEW x \in Recording, BecomesLast(x), GapsOf(x, dropped'),
         dropped \subseteq dropped'
  PROVE  GapsAreDropped'
<1>1. Len(recordings) = Len(recordings') /\ recordings'[Len(recordings')] = x
      /\ \A r \in 1..Len(recordings) : r # Len(recordings) => recordings'[r] = recordings[r]
  BY DEF BecomesLast, now
<1>2. \A r \in 1..Len(recordings) : GapsOf(recordings[r], dropped')
  BY GapsAll, GapsGrow
<1>3. \A r \in 1..Len(recordings') : GapsOf(recordings'[r], dropped')
  BY <1>1, <1>2
<1> QED BY <1>3 DEF GapsAreDropped, GapsOf, members, earlier

LEMMA GapsSame ==
  ASSUME GapsAreDropped, UNCHANGED recordings, dropped \subseteq dropped'
  PROVE  GapsAreDropped'
<1>1. \A r \in 1..Len(recordings) : GapsOf(recordings[r], dropped')
  BY GapsAll, GapsGrow
<1> QED BY <1>1 DEF GapsAreDropped, GapsOf, members, earlier

size == Len(now.written)

\* What it takes of one more block.
Follows(b) ==
  /\ b = Garbage => size = 0 \/ now.stopped
  /\ \A i \in 1..size : now.written[i] = Garbage => i = 1 \/ (i = size /\ now.stopped)
  /\ b # Garbage =>
       \A i \in 1..size :
         now.written[i] # Garbage =>
           /\ now.written[i] < b
           /\ now.written[i] + 1..b - 1 \subseteq
                dropped \cup members(now.written) \cup earlier(now, i)

LEMMA AppendGaps ==
  ASSUME now \in Recording, NEW b \in Blocks \cup {Garbage}, NEW x \in Recording,
         x.written = Append(now.written, b), x.from = now.from, x.stopped = now.stopped,
         GapsOf(now, dropped), Follows(b)
  PROVE  GapsOf(x, dropped)
<1> DEFINE w == now.written
           v == x.written
           n == Len(w)
           M == members(w)
           N == members(v)
<1>1. w \in Seq(Blocks \cup {Garbage}) /\ n \in Nat
  BY DEF Recording
<1>2. Len(v) = n + 1 /\ v[n + 1] = b /\ \A i \in 1..n : v[i] = w[i]
  BY <1>1
<1>3. size = n
  BY DEF size
<1>4. M \subseteq N
  BY <1>1, AppendMembers
<1>5. \A i, j \in 1..n : i < j /\ w[i] # Garbage /\ w[j] # Garbage =>
        w[i] < w[j] /\ w[i] + 1..w[j] - 1 \subseteq dropped \cup M \cup earlier(x, i)
  BY DEF GapsOf, earlier
<1>6. /\ b = Garbage => n = 0 \/ x.stopped
      /\ \A i \in 1..n : w[i] = Garbage => i = 1 \/ (i = n /\ x.stopped)
      /\ b # Garbage => \A i \in 1..n : w[i] # Garbage =>
           w[i] < b /\ w[i] + 1..b - 1 \subseteq dropped \cup M \cup earlier(x, i)
  BY <1>3 DEF Follows, earlier
<1> HIDE DEF w, v, n, M, N
<1>7. \A i \in 1..n + 1 : v[i] = Garbage => i = 1 \/ (i >= n /\ x.stopped)
  <2> SUFFICES ASSUME NEW i \in 1..n + 1, v[i] = Garbage PROVE i = 1 \/ (i >= n /\ x.stopped)
    OBVIOUS
  <2>1. CASE i = n + 1
    BY <2>1, <1>1, <1>2, <1>6
  <2>2. CASE i \in 1..n
    BY <2>2, <1>1, <1>2, <1>6
  <2> QED BY <1>1, <2>1, <2>2
<1>8. \A i, j \in 1..n + 1 : i < j /\ v[i] # Garbage /\ v[j] # Garbage =>
        v[i] < v[j] /\ v[i] + 1..v[j] - 1 \subseteq dropped \cup N \cup earlier(x, i)
  <2> SUFFICES ASSUME NEW i \in 1..n + 1, NEW j \in 1..n + 1, i < j, v[i] # Garbage, v[j] # Garbage
               PROVE  v[i] < v[j] /\ v[i] + 1..v[j] - 1 \subseteq dropped \cup N \cup earlier(x, i)
    OBVIOUS
  <2>1. i \in 1..n /\ v[i] = w[i]
    BY <1>1, <1>2
  <2>2. CASE j = n + 1
    <3>1. v[j] = b
      BY <2>2, <1>2
    <3>2. w[i] < b /\ w[i] + 1..b - 1 \subseteq dropped \cup M \cup earlier(x, i)
      BY <2>1, <3>1, <1>6
    <3> QED BY <2>1, <3>1, <3>2, <1>4
  <2>3. CASE j \in 1..n
    <3>1. v[j] = w[j]
      BY <2>3, <1>2
    <3>2. w[i] < w[j] /\ w[i] + 1..w[j] - 1 \subseteq dropped \cup M \cup earlier(x, i)
      BY <2>1, <2>3, <3>1, <1>5
    <3> QED BY <2>1, <3>1, <3>2, <1>4
  <2> QED BY <1>1, <2>2, <2>3
<1>9. Len(v) - 1 = n
  BY <1>1, <1>2
<1> QED BY <1>2, <1>7, <1>8, <1>9 DEF GapsOf, v, N

\* What the next block written must follow.  All that is in the file is older than all
\* that waits; what lies between them is dropped, written, waits, or is from before the
\* start.
WrittenIsOlder ==
  /\ members(now.written) \subseteq 0..captured
  /\ \A m \in members(now.written), b \in Backlog : m < b

NoneBetween ==
  ready \/ inHand =>
    \A i \in 1..size :
      now.written[i] # Garbage =>
        now.written[i] + 1..captured \subseteq
          dropped \cup Backlog \cup members(now.written) \cup earlier(now, i)

\* Until `ready' is set the one disk_write that a stop overtook may write, and nothing
\* more; in a recording that is over, garbage beyond the first block comes of the flush
\* and of the disk_write in flight, each once.
GarbageAtEnds ==
  /\ gtk \in {"mp3_buffer", "ready"} => size <= 1 /\ (inHand => size = 0)
  /\ ready /\ worker = "fwrite" /\ encoded # buffer => size = 0
  /\ now.stopped /\ (inHand \/ gtk = "flush") =>
       \A i \in 1..size : now.written[i] = Garbage => i = 1 \/ i = size
  /\ now.stopped /\ inHand /\ gtk = "flush" =>
       \A i \in 1..size : now.written[i] = Garbage => i = 1

GapInv ==
  /\ recordings # <<>> => WrittenIsOlder /\ NoneBetween /\ GarbageAtEnds
  /\ GapsAreDropped

LEMMA SizeFacts ==
  ASSUME TypeOK, recordings # <<>>
  PROVE  /\ now \in Recording /\ size \in Nat
         /\ \A i \in 1..size : now.written[i] \in members(now.written)
         /\ GapsAreDropped => GapsOf(now, dropped)
<1>1. now \in Recording /\ Len(recordings) \in 1..Len(recordings)
  BY NowTyped DEF TypeOK
<1>2. now.written \in Seq(Blocks \cup {Garbage})
  BY <1>1 DEF Recording
<1>3. size \in Nat
  BY <1>2 DEF size
<1>4. \A i \in 1..size : now.written[i] \in members(now.written)
  BY DEF size, members
<1>5. GapsAreDropped => GapsOf(now, dropped)
  BY <1>1, GapsAll DEF now
<1> QED BY <1>1, <1>3, <1>4, <1>5

\* Garbage in a recording that is not over is the first block.
LEMMA GarbageFirst ==
  ASSUME TypeOK, recordings # <<>>, GapsAreDropped, ~now.stopped
  PROVE  \A i \in 1..size : now.written[i] = Garbage => i = 1
BY SizeFacts DEF GapsOf, size

\* The block in hand may be written next.
LEMMA InHandFollows ==
  ASSUME TypeOK, Waiting, Guarded, Toggled, FromInv, Sorted, GapInv,
         recordings # <<>>, worker = "fwrite", NEW b \in {encoded, Garbage},
         mp3_buffer = "open" => b = encoded
  PROVE  Follows(b)
<1>1. size \in Nat /\ now \in Recording
      /\ \A i \in 1..size : now.written[i] \in members(now.written)
  BY SizeFacts
<1>2. buffer \in Backlog /\ \A c \in Backlog : c \in Nat /\ buffer <= c
  BY Oldest
<1>3. captured \in Nat /\ Backlog \subseteq 1..captured
  BY DEF TypeOK, Waiting
<1>4. b \in {buffer, Garbage} /\ buffer # Garbage
  BY <1>2, <1>3 DEF FromInv, InHandBelongs, Garbage
<1>5. WrittenIsOlder /\ NoneBetween /\ GarbageAtEnds /\ GapsAreDropped /\ inHand
  BY DEF GapInv, inHand
<1>6. b = Garbage => size = 0 \/ now.stopped
  <2> SUFFICES ASSUME b = Garbage, ~now.stopped PROVE size = 0
    OBVIOUS
  <2>1. Recorded
    BY DEF Recorded, now
  <2>2. CASE ready
    BY <2>2, <1>4, <1>5 DEF Guarded, GarbageAtEnds
  <2>3. CASE ~ready
    BY <2>1, <2>3, <1>5 DEF Toggled, GarbageAtEnds
  <2> QED BY <2>2, <2>3
<1>7. \A i \in 1..size : now.written[i] = Garbage => i = 1 \/ (i = size /\ now.stopped)
  <2>1. CASE now.stopped
    BY <2>1, <1>5 DEF GarbageAtEnds
  <2>2. CASE ~now.stopped
    BY <2>2, <1>5, GarbageFirst
  <2> QED BY <2>1, <2>2
<1>8. ASSUME b # Garbage, NEW i \in 1..size, now.written[i] # Garbage
      PROVE  /\ now.written[i] < b
             /\ now.written[i] + 1..b - 1 \subseteq
                  dropped \cup members(now.written) \cup earlier(now, i)
  <2>1. PICK m : m = now.written[i]
    OBVIOUS
  <2>2. m \in members(now.written)
    BY <2>1, <1>1
  <2>3. b = buffer /\ m < b /\ m \in 0..captured /\ b \in 1..captured
    BY <2>2, <1>2, <1>3, <1>4, <1>5, <1>8 DEF WrittenIsOlder
  <2>4. \A c \in m + 1..b - 1 : c \in m + 1..captured /\ c \notin Backlog
    BY <2>3, <1>2, <1>3
  <2>5. m + 1..captured \subseteq dropped \cup Backlog \cup members(now.written) \cup earlier(now, i)
    BY <2>1, <1>5, <1>8 DEF NoneBetween
  <2>6. m + 1..b - 1 \subseteq dropped \cup members(now.written) \cup earlier(now, i)
    BY <2>4, <2>5
  <2> QED BY <2>1, <2>3, <2>6
<1> QED BY <1>6, <1>7, <1>8 DEF Follows

\* So may the memory that the flush leaves.
LEMMA FlushFollows ==
  ASSUME TypeOK, Toggled, GapInv, recordings # <<>>, gtk = "flush"
  PROVE  Follows(Garbage) /\ now.stopped
<1>1. now.stopped
  BY DEF Toggled, Recorded, now
<1> QED BY <1>1 DEF GapInv, GarbageAtEnds, Follows

\* One more block that follows.
LEMMA FollowsKept ==
  ASSUME TypeOK, recordings # <<>>, GapsAreDropped, NEW b \in Blocks \cup {Garbage},
         recordings' = Written(b), Follows(b), dropped \subseteq dropped'
  PROVE  /\ GapsAreDropped'
         /\ size' = size + 1 /\ now'.written[size + 1] = b
         /\ \A i \in 1..size : now'.written[i] = now.written[i]
<1>1. now \in Recording /\ size \in Nat /\ GapsOf(now, dropped)
  BY SizeFacts
<1>2. /\ now' \in Recording /\ BecomesLast(now')
      /\ now'.from = now.from /\ now'.stopped = now.stopped
      /\ now'.written = Append(now.written, b)
  BY Appended
<1>3. GapsOf(now', dropped)
  BY <1>1, <1>2, AppendGaps
<1>4. GapsAreDropped'
  BY <1>2, <1>3, GapsGrow, GapsKept
<1>5. now.written \in Seq(Blocks \cup {Garbage})
  BY <1>1 DEF Recording
<1>6. /\ Len(Append(now.written, b)) = size + 1
      /\ Append(now.written, b)[size + 1] = b
      /\ \A i \in 1..size : Append(now.written, b)[i] = now.written[i]
  BY <1>5 DEF size
<1>7. size' = Len(now'.written)
  BY DEF size
<1> QED BY <1>2, <1>4, <1>6, <1>7

\* The steps that leave the recordings alone.
LEMMA GapInvKept ==
  ASSUME TypeOK, Waiting, Listed, Guarded, Toggled, GapInv,
         [Next]_vars, UNCHANGED recordings, ~StartReady, ~StopReady
  PROVE  GapInv'
<1>1. LeavesOnlyDone
  BY BacklogStep
<1>2. GapsAreDropped'
  BY <1>1, GapsSame DEF GapInv, LeavesOnlyDone
<1> SUFFICES ASSUME recordings # <<>> PROVE (WrittenIsOlder /\ NoneBetween /\ GarbageAtEnds)'
  BY <1>2 DEF GapInv
<1>3. WrittenIsOlder /\ NoneBetween /\ GarbageAtEnds
  BY DEF GapInv
<1>4. now' = now /\ size' = size
  BY DEF now, size
<1>5. now \in Recording /\ size \in Nat
      /\ \A i \in 1..size : now.written[i] \in members(now.written)
  BY SizeFacts
<1>6. /\ captured \in Nat /\ captured' \in captured..captured + 1
      /\ captured' # captured => captured' \in dropped' \cup Backlog'
  BY <1>1 DEF TypeOK, LeavesOnlyDone
<1>7. /\ inHand' => buffer' = buffer /\ (inHand \/ (worker = "test" /\ ready))
      /\ gtk' \in {"mp3_buffer", "ready"} => gtk \in {"mp3_buffer", "ready"}
      /\ gtk' = "flush" => gtk = "flush"
  BY InHandFacts
<1>8. ready' => ready /\ (worker' = "fwrite" =>
                              \/ encoded' = buffer'
                              \/ worker = "fwrite" /\ encoded # buffer /\ buffer' = buffer)
  BY EncodedKept
<1>9. ready => ~now.stopped /\ gtk \notin {"mp3_buffer", "ready"}
  BY DEF Guarded, Toggled, Recorded, now
<1>10. WrittenIsOlder'
  <2>1. members(now.written) \subseteq 0..captured'
    BY <1>3, <1>6 DEF WrittenIsOlder
  <2>2. ASSUME NEW m \in members(now.written), NEW b \in Backlog' PROVE m < b
    <3>1. CASE b \in Backlog
      BY <1>3, <2>2, <3>1 DEF WrittenIsOlder
    <3>2. CASE b \in captured + 1..captured'
      BY <1>3, <1>6, <2>2, <3>2 DEF WrittenIsOlder
    <3> QED BY <1>1, <2>2, <3>1, <3>2 DEF LeavesOnlyDone
  <2>3. members(now.written)' = members(now.written)
    BY <1>4 DEF members
  <2> QED BY <2>1, <2>2, <2>3 DEF WrittenIsOlder
<1>11. NoneBetween'
  <2> SUFFICES ASSUME ready' \/ inHand', NEW i \in 1..size, now.written[i] # Garbage,
                      NEW c \in now.written[i] + 1..captured'
               PROVE  c \in dropped' \cup Backlog' \cup members(now.written) \cup earlier(now, i)
    BY <1>4 DEF NoneBetween, members, earlier
  <2>1. PICK m : m = now.written[i]
    OBVIOUS
  <2>2. m + 1..captured \subseteq dropped \cup Backlog \cup members(now.written) \cup earlier(now, i)
    BY <1>3, <1>7, <1>8, <2>1 DEF NoneBetween
  <2>3. worker # "poll" /\ worker' = "poll" => buffer \in dropped'
    <3>1. CASE ready
      BY <3>1, NoneGivenUp DEF TypeOK
    <3>2. CASE inHand'
      BY <3>2 DEF inHand
    <3> QED BY <3>1, <3>2, <1>8
  <2>4. dropped \cup Backlog \subseteq dropped' \cup Backlog'
    BY <1>1, <2>3 DEF LeavesOnlyDone
  <2>5. m \in 0..captured
    BY <1>3, <1>5, <2>1 DEF WrittenIsOlder
  <2>6. c \in m + 1..captured \/ (c = captured' /\ captured' # captured)
    BY <1>6, <2>1, <2>5
  <2> QED BY <1>6, <2>2, <2>4, <2>6
<1>12. GarbageAtEnds'
  <2>1. now.stopped /\ inHand' => inHand
    BY <1>7, <1>9
  <2> QED BY <1>3, <1>4, <1>7, <1>8, <1>9, <2>1 DEF GarbageAtEnds
<1> QED BY <1>10, <1>11, <1>12

LEMMA GapStep ==
  ASSUME TypeOK, Waiting, Listed, Guarded, Toggled, FromInv, Sorted, Gapless, GapInv, [Next]_vars
  PROVE  GapInv'
<1>1. recordings \in Seq(Recording) /\ Backlog \subseteq Blocks
  BY BacklogTyped DEF TypeOK
<1>2. captured \in Nat /\ Backlog \subseteq 1..captured
  BY DEF TypeOK, Waiting
<1>3. LeavesOnlyDone
  BY BacklogStep
<1>4. dropped \subseteq dropped' /\ GapsAreDropped
  BY <1>3 DEF LeavesOnlyDone, GapInv
<1>5. recordings # <<>> =>
        /\ now \in Recording /\ size \in Nat
        /\ \A i \in 1..size : now.written[i] \in members(now.written)
        /\ GapsOf(now, dropped')
        /\ WrittenIsOlder /\ NoneBetween /\ GarbageAtEnds
  BY <1>4, SizeFacts, GapsGrow DEF GapInv
<1>6. CASE StartReady
  <2>1. recordings # <<>> /\ gtk = "ready" /\ ~now.stopped
    BY <1>6 DEF StartReady, Listed, Toggled, Recorded, now
  <2> DEFINE x == [now EXCEPT !.from = captured, !.before = now.before \cup Backlog]
  <2>2. BecomesLast(x)
    BY <1>1, <1>6, <2>1, AfterStart
  <2>3. x \in Recording /\ x.from = captured /\ x.written = now.written /\ x.stopped = now.stopped
    BY <1>5, <2>1, <1>1 DEF Recording, TypeOK
  <2> HIDE DEF x
  <2>4. now' = x /\ recordings' # <<>>
    BY <2>2 DEF BecomesLast
  <2>5. size' = size
    BY <2>3, <2>4 DEF size
  <2>6. size <= 1 /\ (inHand => size = 0)
    BY <1>5, <2>1 DEF GarbageAtEnds
  <2>7. gtkKeeps /\ UNCHANGED encoded /\ gtk' = "idle"
    BY <1>6, GtkKeeps DEF StartReady
  <2>8. UNCHANGED <<captured, worker, buffer>> /\ Backlog' = Backlog
    BY <2>7 DEF gtkKeeps, Backlog
  <2>9. WrittenIsOlder'
    <3>1. members(now.written)' = members(now.written)
      BY <2>3, <2>4 DEF members
    <3> QED BY <1>5, <2>1, <2>8, <3>1 DEF WrittenIsOlder
  <2>10. NoneBetween'
    <3> SUFFICES ASSUME NEW i \in 1..size
                 PROVE  now.written[i] + 1..captured \subseteq earlier(x, i)
      BY <2>3, <2>4, <2>5, <2>8 DEF NoneBetween, members, earlier
    <3>1. i = 1
      BY <1>5, <2>1, <2>6
    <3>2. PICK m : m = now.written[i]
      OBVIOUS
    <3>3. m \in 0..captured
      BY <1>5, <2>1, <3>2 DEF WrittenIsOlder
    <3>4. m + 1..captured \subseteq 1..captured
      BY <3>3, <1>2
    <3> QED BY <3>1, <3>2, <3>4, <2>3 DEF earlier
  <2>11. GarbageAtEnds'
    BY <1>5, <2>1, <2>3, <2>4, <2>5, <2>6, <2>7, <2>8 DEF GarbageAtEnds, inHand
  <2>12. GapsOf(x, dropped')
    <3>1. Len(x.written) \in Nat /\ Len(x.written) <= 1
      BY <1>5, <2>1, <2>3, <2>6 DEF size
    <3> QED BY <3>1 DEF GapsOf
  <2>13. GapsAreDropped'
    BY <1>4, <2>2, <2>3, <2>12, GapsKept
  <2> QED BY <2>9, <2>10, <2>11, <2>13 DEF GapInv
<1>7. CASE UNCHANGED recordings /\ ~StartReady /\ ~StopReady
  BY <1>7, GapInvKept
<1>8. CASE DiskWriteFwrite /\ worker' = "poll"
             /\ recordings' = Written(IF mp3_buffer = "open" THEN encoded ELSE Garbage)
  <2>1. worker = "fwrite" /\ recordings # <<>>
    BY <1>8 DEF DiskWriteFwrite, Listed
  <2>2. PICK b \in {encoded, Garbage} : recordings' = Written(b) /\ (mp3_buffer = "open" => b = encoded)
    BY <1>8
  <2>3. b \in {buffer, Garbage} /\ b \in Blocks \cup {Garbage}
    BY <2>1 DEF FromInv, InHandBelongs, TypeOK
  <2>4. Follows(b)
    BY <2>1, <2>2, InHandFollows
  <2>5. /\ now'.from = now.from /\ now'.stopped = now.stopped /\ recordings' # <<>>
        /\ members(now'.written) = members(now.written) \cup {b}
    BY <2>1, <2>2, <2>3, Appended DEF BecomesLast
  <2>6. /\ GapsAreDropped'
        /\ size' = size + 1 /\ now'.written[size + 1] = b
        /\ \A i \in 1..size : now'.written[i] = now.written[i]
    BY <1>4, <2>1, <2>2, <2>3, <2>4, FollowsKept
  <2>7. members(now.written)' = members(now'.written)
    BY DEF members
  <2>8. UNCHANGED <<captured, dropped, lockFreeQueue, callback, gtk, ready>> /\ ~inHand'
    BY <1>8 DEF DiskWriteFwrite, audioVars, fileVars, inHand
  <2>9. size \in Nat /\ \A i \in 1..size + 1 : i \in 1..size \/ i = size + 1
    BY <1>5, <2>1
  <2>10. buffer \in Backlog /\ buffer \in 1..captured
         /\ Backlog' \subseteq Backlog /\ Backlog \subseteq Backlog' \cup {buffer}
    BY <1>2, <1>8, <2>1, <2>8 DEF Backlog
  <2>11. \A c \in Backlog' : buffer < c /\ c \in 1..captured
    BY <1>2, <1>8, <2>1, <2>8 DEF Backlog, Sorted
  <2>12. WrittenIsOlder'
    <3>1. members(now'.written) \subseteq 0..captured
      BY <1>2, <1>5, <2>1, <2>3, <2>5, <2>10 DEF WrittenIsOlder, Garbage
    <3>2. \A m \in members(now'.written), c \in Backlog' : m < c
      BY <1>5, <2>1, <2>3, <2>5, <2>10, <2>11 DEF WrittenIsOlder, Garbage
    <3> QED BY <3>1, <3>2, <2>7, <2>8 DEF WrittenIsOlder
  <2>13. NoneBetween'
    <3> SUFFICES ASSUME ready, NEW i \in 1..size + 1, now'.written[i] # Garbage
                 PROVE  now'.written[i] + 1..captured \subseteq
                          dropped \cup Backlog' \cup members(now'.written) \cup earlier(now', i)
      BY <2>6, <2>7, <2>8 DEF NoneBetween, earlier
    <3>1. b = encoded /\ (encoded # buffer => size = 0)
      BY <1>5, <2>1, <2>2 DEF Guarded, GarbageAtEnds
    <3>2. b = buffer
      <4> SUFFICES ASSUME b # buffer PROVE FALSE
        OBVIOUS
      <4>1. b = Garbage /\ size = 0
        BY <2>3, <3>1
      <4> QED BY <4>1, <2>6
    <3>3. CASE i = size + 1
      <4>1. buffer..captured \subseteq dropped \cup Backlog
        BY <2>10 DEF Gapless
      <4>2. \A c \in buffer + 1..captured : c \in buffer..captured /\ c # buffer
        BY <2>10, <1>2
      <4> QED BY <4>1, <4>2, <3>2, <3>3, <2>6, <2>10
    <3>4. CASE i \in 1..size
      <4>1. PICK m : m = now.written[i]
        OBVIOUS
      <4>2. m + 1..captured \subseteq dropped \cup Backlog \cup members(now.written) \cup earlier(now, i)
        BY <1>5, <2>1, <2>6, <3>4, <4>1 DEF NoneBetween
      <4>3. earlier(now', i) = earlier(now, i)
        BY <2>5 DEF earlier
      <4> QED BY <4>1, <4>2, <4>3, <3>2, <3>4, <2>5, <2>6, <2>10
    <3> QED BY <2>9, <3>3, <3>4
  <2>14. GarbageAtEnds'
    <3>1. gtk \in {"mp3_buffer", "ready"} => size = 0
      BY <1>5, <2>1 DEF GarbageAtEnds, inHand
    <3>2. gtk = "flush" /\ now.stopped =>
            \A i \in 1..size + 1 : now'.written[i] = Garbage => i = 1 \/ i = size + 1
      BY <1>5, <2>1, <2>6, <2>9 DEF GarbageAtEnds, inHand
    <3> QED BY <3>1, <3>2, <1>8, <2>5, <2>6, <2>8, <2>9 DEF GarbageAtEnds
  <2> QED BY <2>6, <2>12, <2>13, <2>14 DEF GapInv
<1>9. CASE StartOutputFile
  <2>1. /\ now' = opened /\ Len(recordings') = Len(recordings) + 1
        /\ \A r \in 1..Len(recordings) : recordings'[r] = recordings[r]
    BY <1>1, <1>9, AfterOpen
  <2>2. opened.written = <<>> /\ members(opened.written) = {}
    BY DEF opened, members
  <2>3. size' = 0 /\ members(now.written)' = {}
    BY <2>1, <2>2 DEF size, members
  <2>4. (WrittenIsOlder /\ NoneBetween /\ GarbageAtEnds)'
    BY <2>3 DEF WrittenIsOlder, NoneBetween, GarbageAtEnds
  <2>5. GapsOf(opened, dropped')
    BY <2>2 DEF GapsOf
  <2>6. Len(recordings) \in Nat /\ \A r \in 1..Len(recordings) : GapsOf(recordings[r], dropped')
    BY <1>1, <1>4, GapsAll, GapsGrow
  <2>7. \A r \in 1..Len(recordings') : GapsOf(recordings'[r], dropped')
    BY <2>1, <2>5, <2>6 DEF now
  <2>8. GapsAreDropped'
    BY <2>7 DEF GapsAreDropped, GapsOf, members, earlier
  <2> QED BY <2>4, <2>8 DEF GapInv
<1>10. CASE StopReady
  <2>1. recordings # <<>> /\ ~now.stopped
    BY <1>10 DEF StopReady, Recorded, now
  <2> DEFINE x == [now EXCEPT !.stopped = TRUE, !.upTo = captured, !.after = Backlog]
  <2>2. BecomesLast(x)
    BY <1>1, <1>10, <2>1, AfterStop
  <2>3. x \in Recording /\ x.from = now.from /\ x.written = now.written /\ x.stopped = TRUE
    BY <1>1, <1>5, <2>1 DEF Recording, TypeOK
  <2> HIDE DEF x
  <2>4. now' = x /\ recordings' # <<>>
    BY <2>2 DEF BecomesLast
  <2>5. size' = size
    BY <2>3, <2>4 DEF size
  <2>6. gtkKeeps /\ ~ready' /\ gtk' = "flush"
    BY <1>10, GtkKeeps DEF StopReady
  <2>7. UNCHANGED <<captured, dropped>> /\ Backlog' = Backlog /\ inHand' = inHand
    BY <2>6 DEF gtkKeeps, Backlog, inHand
  <2>8. WrittenIsOlder'
    <3>1. members(now.written)' = members(now.written)
      BY <2>3, <2>4 DEF members
    <3> QED BY <1>5, <2>1, <2>7, <3>1 DEF WrittenIsOlder
  <2>9. NoneBetween'
    <3>1. now.written' = now.written /\ now.from' = now.from
      BY <2>3, <2>4
    <3>2. members(now.written)' = members(now.written) /\ \A i : earlier(now, i)' = earlier(now, i)
      BY <3>1 DEF members, earlier
    <3> SUFFICES ASSUME inHand', NEW i \in 1..size, now.written[i] # Garbage
                 PROVE  now.written[i] + 1..captured \subseteq
                          dropped \cup Backlog \cup members(now.written) \cup earlier(now, i)
      BY <2>5, <2>6, <2>7, <3>1, <3>2 DEF NoneBetween
    <3>3. inHand
      BY <2>7
    <3> QED BY <1>5, <2>1, <3>3 DEF NoneBetween
  <2>10. GarbageAtEnds'
    BY <1>4, <2>1, <2>3, <2>4, <2>5, <2>6, GarbageFirst DEF GarbageAtEnds
  <2>11. GapsOf(x, dropped')
    BY <1>5, <2>1, <2>3 DEF GapsOf, earlier
  <2>12. GapsAreDropped'
    BY <1>4, <2>2, <2>3, <2>11, GapsKept
  <2> QED BY <2>8, <2>9, <2>10, <2>12 DEF GapInv
<1>11. CASE StopFlush /\ gtk' = "lame_close" /\ recordings' = Written(Garbage)
  <2>1. recordings # <<>> /\ gtk = "flush" /\ ~ready
    BY <1>11 DEF StopFlush, Listed, Guarded
  <2>2. Follows(Garbage) /\ now.stopped
    BY <2>1, FlushFollows
  <2>3. /\ now'.from = now.from /\ now'.stopped = now.stopped /\ recordings' # <<>>
        /\ members(now'.written) = members(now.written) \cup {Garbage}
    BY <1>11, <2>1, Appended DEF BecomesLast
  <2>4. /\ GapsAreDropped'
        /\ size' = size + 1 /\ now'.written[size + 1] = Garbage
        /\ \A i \in 1..size : now'.written[i] = now.written[i]
    BY <1>4, <1>11, <2>1, <2>2, FollowsKept
  <2>5. members(now.written)' = members(now'.written)
    BY DEF members
  <2>6. gtkKeeps /\ ~ready'
    BY <1>11, <2>1, GtkKeeps DEF StopFlush, fileVars
  <2>7. UNCHANGED <<captured, dropped>> /\ Backlog' = Backlog /\ inHand' = inHand
    BY <2>6 DEF gtkKeeps, Backlog, inHand
  <2>8. size \in Nat /\ \A i \in 1..size + 1 : i \in 1..size \/ i = size + 1
    BY <1>5, <2>1
  <2>9. WrittenIsOlder'
    <3>1. members(now'.written) \subseteq 0..captured
      BY <1>2, <1>5, <2>1, <2>3 DEF WrittenIsOlder, Garbage
    <3>2. \A m \in members(now'.written), c \in Backlog : m < c
      BY <1>2, <1>5, <2>1, <2>3 DEF WrittenIsOlder, Garbage
    <3> QED BY <3>1, <3>2, <2>5, <2>7 DEF WrittenIsOlder
  <2>10. NoneBetween'
    <3> SUFFICES ASSUME inHand, NEW i \in 1..size + 1, now'.written[i] # Garbage
                 PROVE  now'.written[i] + 1..captured \subseteq
                          dropped \cup Backlog \cup members(now'.written) \cup earlier(now', i)
      BY <2>4, <2>5, <2>6, <2>7 DEF NoneBetween, earlier
    <3>1. i \in 1..size /\ now'.written[i] = now.written[i]
      BY <2>4, <2>8
    <3>2. PICK m : m = now.written[i]
      OBVIOUS
    <3>3. m + 1..captured \subseteq dropped \cup Backlog \cup members(now.written) \cup earlier(now, i)
      BY <1>5, <2>1, <3>1, <3>2 DEF NoneBetween
    <3>4. earlier(now', i) = earlier(now, i)
      BY <2>3 DEF earlier
    <3> QED BY <2>3, <3>1, <3>2, <3>3, <3>4
  <2>11. GarbageAtEnds'
    <3>1. inHand => \A i \in 1..size + 1 : now'.written[i] = Garbage => i = 1 \/ i = size + 1
      BY <1>5, <2>1, <2>2, <2>4, <2>8 DEF GarbageAtEnds
    <3> QED BY <3>1, <1>11, <2>4, <2>6, <2>7 DEF GarbageAtEnds
  <2> QED BY <2>4, <2>9, <2>10, <2>11 DEF GapInv
<1> QED BY <1>6, <1>7, <1>8, <1>9, <1>10, <1>11, Changers

-----------------------------------------------------------------------------
(* The theorems *)

RecorderInv ==
  /\ TypeOK /\ Waiting /\ Listed
  /\ Guarded /\ Toggled /\ LateWasInFlight /\ DiesOnlyInFlight
  /\ FromInv /\ LostInv
  /\ Sorted /\ Gapless /\ GapInv

LEMMA InvInit == Init => RecorderInv
<1> SUFFICES ASSUME Init PROVE RecorderInv
  OBVIOUS
<1>1. Flags
  BY Zenon DEF Init, Flags
<1>2. TypedButRecordings /\ recordings \in Seq(Recording)
  BY RecorderAssumption DEF Init, TypedButRecordings, Handles
<1>3. TypeOK
  BY <1>1, <1>2, Typed
<1>4. Backlog = {} /\ ~Recorded
  BY DEF Init, Backlog, Recorded
<1>5. Waiting /\ Listed /\ Guarded /\ Toggled /\ LateWasInFlight /\ DiesOnlyInFlight
  BY <1>4 DEF Init, Waiting, Listed, Guarded, Toggled, LateWasInFlight, DiesOnlyInFlight
<1>6. FromInv
  BY <1>4 DEF Init, FromInv, WaitingBelongs, InHandBelongs, FreshWritten, OnlyBacklogFromBefore
<1>7. LostInv
  BY DEF Init, LostInv, NothingElseMissing, NothingElseIsLost
<1>8. Sorted /\ Gapless /\ GapInv
  BY <1>4 DEF Init, Sorted, Gapless, GapInv, GapsAreDropped
<1> QED BY <1>3, <1>5, <1>6, <1>7, <1>8 DEF RecorderInv

LEMMA InvStep == RecorderInv /\ [Next]_vars => RecorderInv'
<1> SUFFICES ASSUME RecorderInv, [Next]_vars PROVE RecorderInv'
  OBVIOUS
<1> USE DEF RecorderInv
<1>1. TypeOK' /\ Listed'
  BY TypeStep
<1>2. Waiting'
  BY BacklogStep DEF LeavesOnlyDone
<1>3. Guarded' /\ Toggled' /\ LateWasInFlight' /\ DiesOnlyInFlight'
  BY GuardedStep, ToggledStep, LateStep
<1>4. FromInv' /\ LostInv'
  BY FromStep, LostStep
<1>5. Sorted' /\ Gapless' /\ GapInv'
  BY SortedStep, GaplessStep, GapStep
<1> QED BY <1>1, <1>2, <1>3, <1>4, <1>5

\* The recorder's state keeps its types, the list of recordings included.
THEOREM RecorderTyped == Spec => []TypeOK
<1>1. RecorderInv => TypeOK
  BY DEF RecorderInv
<1> QED BY <1>1, InvInit, InvStep, PTL DEF Spec

\* At most one block is written between a stop and the next start (FileWriter.cpp:276
\* against 370), for every length of the queue and any number of recordings.
THEOREM OneBlockLate == Spec => []OneBlockAfterStop
<1>1. RecorderInv => OneBlockAfterStop
  BY DEF RecorderInv, LateWasInFlight, OneBlockAfterStop
<1> QED BY <1>1, InvInit, InvStep, PTL DEF Spec

\* Only a disk_write that a stop has overtaken, or a file that could not be opened,
\* ends the process (FileWriter.cpp:276, 347, 370-371).
THEOREM DeathNeedsFlight == Spec => []DiesOnlyInFlight
<1>1. RecorderInv => DiesOnlyInFlight
  BY DEF RecorderInv
<1> QED BY <1>1, InvInit, InvStep, PTL DEF Spec

\* What a file holds from before its start was waiting then (FileWriter.cpp:346-347).
THEOREM BacklogFromBefore == Spec => []OnlyBacklogFromBefore
<1>1. RecorderInv => OnlyBacklogFromBefore
  BY DEF RecorderInv, FromInv
<1> QED BY <1>1, InvInit, InvStep, PTL DEF Spec

\* What was captured during a recording is in its file, or was bypassed, or refused by
\* the queue or by lame, or was waiting at the stop (FileWriter.cpp:284-285, 365-371).
THEOREM LosesNothingElse == Spec => []NothingElseIsLost
<1>1. RecorderInv => NothingElseIsLost
  BY DEF RecorderInv, LostInv
<1> QED BY <1>1, InvInit, InvStep, PTL DEF Spec

\* Between two blocks of a file only what was bypassed or refused is missing, the order
\* is JACK's and nothing comes twice (FileWriter.cpp:276-287); memory nobody wrote lies
\* only first, and at the end of a file that is closed (FileWriter.cpp:199-201).
THEOREM GapsOnlyDropped == Spec => []GapsAreDropped
<1>1. RecorderInv => GapsAreDropped
  BY DEF RecorderInv, GapInv
<1> QED BY <1>1, InvInit, InvStep, PTL DEF Spec
=============================================================================
