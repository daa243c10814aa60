--------------------------- MODULE MCBackgroundWork ---------------------------
(***************************************************************************)
(* Work the main thread hands to others and must live with when it is late *)
(* or never ends: the writer of a process recording and the Win32 process  *)
(* worker, whose stop has a time limit, and the tasks of the inventory     *)
(* pages.  They share no state, so each is explored by itself; the study   *)
(* is chosen at the start and kept.                                        *)
(***************************************************************************)
EXTENDS ProcessRecorder, SequenceTheorems, FiniteSetTheorems, TLAPS

CONSTANTS
    RetryDelay,                                       \* WindowsProcessRuntime
    Rows, Actions, MaxVersion                         \* InventoryPage

VARIABLES
    study,
    process_stop_requested, process_request_pending, process_completed,
    process_worker_abandoned, process_thread, process_event,
    process_lock_initialised, process_backend, windows_worker, ui,
    retry_after, allocated, used_after_release,
    page, version, refresh_pending, refresh_again, action_pending, task,
    collected, preserve, action, shown, available, selection, paused, visible,
    open, asked

windowsVars ==
    <<process_stop_requested, process_request_pending, process_completed,
      process_worker_abandoned, process_thread, process_event,
      process_lock_initialised, process_backend, windows_worker, ui,
      retry_after, allocated, used_after_release>>
pageVars ==
    <<page, version, refresh_pending, refresh_again, action_pending, task,
      collected, preserve, action, shown, available, selection, paused,
      visible, open, asked>>
allVars == <<study, vars, windowsVars, pageVars>>

Runtime == INSTANCE WindowsProcessRuntime WITH worker <- windows_worker

Pages == INSTANCE InventoryPage

ASSUME BackgroundAssumption ==
    /\ Runtime!RuntimeAssumption
    /\ Pages!InventoryAssumption

(* Where a study begins; the variables of the others have one value.        *)
StudyInit ==
    /\ study \in {"recorder", "windows", "pages"}
    /\ Init /\ Runtime!Init
    /\ Pages!Init /\ (study # "pages" => page = "services")

Recorder(A) ==
    /\ study = "recorder" /\ A
    /\ UNCHANGED <<study, windowsVars, pageVars>>
Win32(A) ==
    /\ study = "windows" /\ A
    /\ UNCHANGED <<study, vars, pageVars>>
Page(A) ==
    /\ study = "pages" /\ A
    /\ UNCHANGED <<study, vars, windowsVars>>

StudyNext ==
    \/ Recorder(Next) \/ Win32(Runtime!Next) \/ Page(Pages!Next)

(* The fairness of each component, as its own module states it.  Only one   *)
(* study runs, so one condition on a disjunction of steps of different      *)
(* studies says what a condition for each of them would.                    *)
StudySpec ==
    /\ StudyInit /\ [][StudyNext]_allVars
    /\ WF_allVars(\/ Recorder(WriterStep) \/ Win32(Runtime!Worker)
                  \/ Page(Pages!WorkerCollects(1) /\ UNCHANGED page))
    /\ WF_allVars(\/ Recorder(JoinSucceeds \/ JoinTimesOut)
                  \/ Win32(Runtime!Shell)
                  \/ Page(Pages!WorkerCollects(2) /\ UNCHANGED page))
    /\ WF_allVars(\/ Recorder(ReleaseRecorder) \/ Win32(Runtime!Tick)
                  \/ Page(Pages!RefreshCompletes(1) /\ UNCHANGED page))
    /\ WF_allVars(\/ Win32(Runtime!RequestScan)
                  \/ Page(Pages!RefreshCompletes(2) /\ UNCHANGED page))
    /\ WF_allVars(Page(Pages!PeriodicUpdate /\ UNCHANGED page))
    /\ SF_allVars(\/ Win32(Runtime!StartWorker)
                  \/ Page(Pages!CollectSucceeds(1) /\ UNCHANGED page))
    /\ SF_allVars(\/ Win32(Runtime!CreateBackend /\ windows_worker' = "publish")
                  \/ Page(Pages!CollectSucceeds(2) /\ UNCHANGED page))

-----------------------------------------------------------------------------
(* The file is a prefix of the accepted records, none is lost but to a      *)
(* failure that is remembered, and a join that returned in time left it     *)
(* closed and complete (process_recorder.c).                                *)
RowsAccountedFor ==
    RowsInOrder /\ NothingLostSilently /\ DrainedBeforeReturn

(* A stop that runs out of time endangers nobody: neither worker uses what  *)
(* joining, detaching or abandoning it released, nothing is left behind     *)
(* that nobody can reach, and a snapshot of a stopped worker is never       *)
(* delivered by its successor (lsm_process_recorder_stop,                   *)
(* lsm_windows_process_runtime_stop).                                       *)
StoppedWorkerSafe ==
    /\ TypeOK /\ Runtime!TypeOK
    /\ NoUseAfterFree
    /\ Runtime!NoUseAfterRelease /\ Runtime!NothingLeaked
    /\ Runtime!CompletedIsCurrent

(* The pending flags and the action counter of services.c, users.c,         *)
(* startup.c and filesystems.c stay in range and say exactly which tasks    *)
(* are out.                                                                 *)
TasksHonest == Pages!TypeOK /\ Pages!PendingHonest

(* Work that comes late does no harm: a page's results are applied in the   *)
(* order they were collected and never to a page that is closed, and "an    *)
(* abandoned worker is never restarted" (docs/ARCHITECTURE.md).             *)
LateWorkHarmless == Pages!ResultsInOrder /\ Runtime!AbandonedForGood

(* Every worker does what is asked of it: a stopped recorder is freed and    *)
(* accepted records are written; a request reaches a scan of the Win32      *)
(* worker, and a worker that failed or was stopped is replaced; and a page  *)
(* honours a refresh that was asked for.                                    *)
WorkersRespond ==
    /\ StopReclaims /\ EventuallyWritten
    /\ study = "windows" => Runtime!RequestServed /\ Runtime!WorkerReplaced
    /\ Pages!RequestHonoured

(***************************************************************************)
(* The proofs, for every queue length, number of records, retry delay, set *)
(* of actions and number of versions.                                      *)
(*                                                                         *)
(* The recorder is safe because its references count the two threads, and  *)
(* complete because what was accepted is, at every moment, what is in the  *)
(* file, in the writer's hands and in the queue, in that order.  The Win32 *)
(* worker is safe because its objects live as long as its thread handle,   *)
(* which only a join of an exited worker gives up.  A page's list grows    *)
(* no older because at most one collection is out, and its result is at    *)
(* least as new as what is shown.                                          *)
(***************************************************************************)

-----------------------------------------------------------------------------
(* The recorder.                                                            *)

MainHolds == main \in {"recording", "joining", "unref"}
WriterHolds == worker \in {"lock", "wait", "write", "close", "unref"}
WriterLeaving == worker \in {"close", "unref", "done"}

(* One reference per thread that still uses the recorder.                   *)
ReferencesCounted ==
    /\ references = (IF MainHolds THEN 1 ELSE 0) + (IF WriterHolds THEN 1 ELSE 0)
    /\ MainHolds => worker # "none"
    /\ main = "idle" => worker = "none" /\ ~freed
    /\ freed => main = "stopped" /\ ~WriterHolds

(* The file is open while the writer may still write to it.                 *)
FileOwned ==
    /\ worker \in {"lock", "wait", "write", "close"} => fileState = "open"
    /\ worker \in {"unref", "done"} => fileState = "closed"
    /\ worker = "none" => fileState # "open"

(* The record in the writer's hands.                                        *)
Held == IF node = 0 THEN <<>> ELSE <<node>>

(* Where the accepted records are.                                          *)
RecordsTracked ==
    /\ node # 0 <=> worker = "write"
    /\ IsPrefix(rows, accepted)
    /\ ~WriterLeaving => accepted = rows \o Held \o queue
    /\ WriterLeaving => /\ queue = <<>> /\ stop_requested
                        /\ failure = "none" => rows = accepted
    /\ drained => worker = "done"

RecorderInv == TypeOK /\ ReferencesCounted /\ FileOwned /\ RecordsTracked

-----------------------------------------------------------------------------
(* The Win32 process worker.                                                *)

(* The worker's objects exist exactly as long as its handle.                *)
ObjectsOwned ==
    /\ process_thread <=> windows_worker # "none"
    /\ process_lock_initialised <=> windows_worker # "none"
    /\ process_event # "none" <=> windows_worker # "none"
    /\ windows_worker = "none" => process_completed = "none"
    /\ ~used_after_release

(* A worker that was told to stop is joined or abandoned before the shell   *)
(* does anything else, and the structure outlives it.                       *)
StoppedIsGone ==
    /\ ui \in {"running", "starting", "signal", "take", "stop", "closing"}
         /\ process_stop_requested /\ ~process_worker_abandoned
         => windows_worker = "none"
    /\ ui \in {"starting", "signal", "take", "stopsignal", "join",
               "closesignal", "closejoin"} => windows_worker # "none"
    /\ ui \in {"gone", "exit"} /\ ~process_worker_abandoned
         => windows_worker = "none"
    /\ allocated <=> (ui # "exit" \/ process_worker_abandoned)
    /\ process_worker_abandoned \/ windows_worker = "destroy"
         => process_stop_requested
    /\ process_completed = "previous" => process_stop_requested
    /\ ui \in {"stopsignal", "join", "closesignal", "closejoin"}
         => process_stop_requested
    /\ process_completed = "previous" => windows_worker = "exited"
    /\ ui \in {"signal", "take"} => ~process_stop_requested

RuntimeInv == Runtime!TypeOK /\ ObjectsOwned /\ StoppedIsGone

-----------------------------------------------------------------------------
(* The inventory pages.                                                     *)

OutActions == {a \in Actions : action[a] \in {"run", "success", "failure"}}

(* One collection is out at a time, and the flags say so.                   *)
TasksApart ==
    /\ \A t, u \in Pages!Tasks : task[t] # "none" /\ task[u] # "none" => t = u
    /\ open => (refresh_pending <=> \E t \in Pages!Tasks : task[t] # "none")

(* The counter is the number of actions that are out.                       *)
ActionsCounted == open => action_pending = Cardinality(OutActions)

(* A finished collection is at least as new as the list.                    *)
ResultsNewer ==
    /\ shown <= version
    /\ \A t \in Pages!Tasks :
          task[t] = "success" => shown <= collected[t] /\ collected[t] <= version

PagesInv == Pages!TypeOK /\ TasksApart /\ ActionsCounted /\ ResultsNewer

BackgroundInv == RecorderInv /\ RuntimeInv /\ PagesInv
-----------------------------------------------------------------------------
(* What is in front of a sequence is a prefix of it.                        *)
LEMMA PrefixOfConcat ==
    ASSUME NEW S, NEW s \in Seq(S), NEW r \in Seq(S)
    PROVE  IsPrefix(s, s \o r)
<1> DEFINE c == s \o r
<1>1. /\ c \in Seq(S) /\ Len(c) = Len(s) + Len(r)
      /\ Len(s) \in Nat /\ Len(r) \in Nat
      /\ \A i \in 1 .. Len(s) : c[i] = s[i]
    BY ConcatProperties, LenProperties
<1>2. /\ \A i \in 1 .. Len(s) : s[i] \in S
      /\ \A i \in 1 .. Len(s) : c[i] \in S
    BY <1>1, ElementOfSeq
<1> HIDE DEF c
<1>3. /\ SubSeq(s, 1, Len(s)) \in Seq(S) /\ SubSeq(c, 1, Len(s)) \in Seq(S)
      /\ Len(SubSeq(s, 1, Len(s))) = Len(s)
      /\ Len(SubSeq(c, 1, Len(s))) = Len(s)
      /\ \A i \in 1 .. Len(s) : SubSeq(s, 1, Len(s))[i] = s[i]
      /\ \A i \in 1 .. Len(s) : SubSeq(c, 1, Len(s))[i] = c[i]
    BY <1>1, <1>2, SubSeqProperties
<1>4. SubSeq(s, 1, Len(s)) = SubSeq(c, 1, Len(s))
    BY <1>1, <1>3, SeqEqual
<1>5. IsPrefix(s, c)
    BY <1>1, <1>4 DEF IsPrefix
<1> QED
    BY <1>5 DEF c

(* Every step of the main thread and of the writer keeps the recorder's     *)
(* invariant.                                                               *)
LEMMA RecorderStep == RecorderInv /\ [Next]_vars => RecorderInv'
<1> SUFFICES ASSUME RecorderInv, [Next]_vars
             PROVE  RecorderInv'
    OBVIOUS
<1> USE RecorderAssumption
    DEF RecorderInv, TypeOK, ReferencesCounted, FileOwned, RecordsTracked,
        MainHolds, WriterHolds, WriterLeaving, Failures, WorkerStates,
        MainStates, Records, queueVars, lifeVars, diskVars, workerVars,
        ghostVars
<1>1. CASE RecordingStarts
  <2>1. TypeOK'
    BY <1>1 DEF RecordingStarts, InitialReferences
  <2>2. ReferencesCounted'
    BY <1>1 DEF RecordingStarts, InitialReferences
  <2>3. FileOwned'
    BY <1>1 DEF RecordingStarts, InitialReferences
  <2>4. RecordsTracked'
    BY <1>1 DEF RecordingStarts, InitialReferences, Held
  <2> QED
    BY <2>1, <2>2, <2>3, <2>4
<1>2. CASE RecordingRefused
  <2>1. TypeOK'
    BY <1>2 DEF RecordingRefused
  <2>2. ReferencesCounted'
    BY <1>2 DEF RecordingRefused
  <2>3. FileOwned'
    BY <1>2 DEF RecordingRefused
  <2>4. RecordsTracked'
    BY <1>2 DEF RecordingRefused, Held
  <2> QED
    BY <2>1, <2>2, <2>3, <2>4
<1>3. CASE AppendAccepted
  <2>1. TypeOK'
    BY <1>3 DEF AppendAccepted, Signal, QueueFull
  <2>2. ReferencesCounted'
    BY <1>3 DEF AppendAccepted, Signal, QueueFull
  <2>3. FileOwned'
    BY <1>3 DEF AppendAccepted, Signal, QueueFull
  <2>4. RecordsTracked'
    <3>1. /\ ~WriterLeaving /\ ~WriterLeaving' /\ ~drained /\ ~drained'
          /\ offered' \in Records
          /\ rows' = rows /\ node' = node /\ Held' = Held
          /\ queue' = Append(queue, offered')
          /\ accepted' = Append(accepted, offered')
          /\ (worker' = "write" <=> worker = "write")
      BY <1>3 DEF AppendAccepted, Signal, Held
    <3>2. /\ rows \in Seq(Records) /\ queue \in Seq(Records)
          /\ queue' \in Seq(Records) /\ node \in Records \cup {0}
          /\ accepted = rows \o Held \o queue
      BY <2>1, <3>1
    <3>3. Held \in Seq(Records)
      <4>1. CASE node = 0
        BY <4>1 DEF Held
      <4>2. CASE node \in Records
        <5>1. <<node>> \in Seq(Records)
          BY <4>2
        <5>2. Held = <<node>>
          BY <4>2 DEF Held
        <5> QED
          BY <5>1, <5>2
      <4> QED
        BY <3>2, <4>1, <4>2
    <3> HIDE DEF RecorderInv, Records, Held
    <3>4. accepted' = rows \o Held \o queue'
      <4>1. PICK x \in Seq(Records) : x = rows \o Held
        BY <3>2, <3>3, ConcatProperties
      <4>2. PICK e \in Records : e = offered'
        BY <3>1
      <4>3. accepted \in Seq(Records) /\ <<e>> \in Seq(Records)
        BY <3>2, <4>1, <4>2, ConcatProperties
      <4>4. accepted' = accepted \o <<e>> /\ queue' = queue \o <<e>>
        BY <3>1, <3>2, <4>2, <4>3, AppendIsConcat
      <4>5. (x \o queue) \o <<e>> = x \o (queue \o <<e>>)
        BY <3>2, <4>1, <4>3, ConcatAssociative, SMTT(30)
      <4> QED
        BY <3>2, <4>1, <4>4, <4>5
    <3>5. IsPrefix(rows, accepted')
      <4>1. rows \o Held \o queue' = rows \o (Held \o queue')
        BY <3>2, <3>3, ConcatAssociative
      <4>2. Held \o queue' \in Seq(Records)
        BY <3>2, <3>3, ConcatProperties
      <4> QED
        BY <3>2, <3>4, <4>1, <4>2, PrefixOfConcat
    <3> USE DEF RecorderInv
    <3> QED
      BY <3>1, <3>4, <3>5
  <2> QED
    BY <2>1, <2>2, <2>3, <2>4
<1>4. CASE AppendFails
  <2>1. TypeOK'
    BY <1>4 DEF AppendFails, StopRequested, Signal, QueueFull
  <2>2. ReferencesCounted'
    BY <1>4 DEF AppendFails, StopRequested, Signal, QueueFull
  <2>3. FileOwned'
    BY <1>4 DEF AppendFails, StopRequested, Signal, QueueFull
  <2>4. RecordsTracked'
    BY <1>4 DEF AppendFails, StopRequested, Signal, QueueFull, Held
  <2> QED
    BY <2>1, <2>2, <2>3, <2>4
<1>5. CASE lsm_process_record_stop
  <2>1. TypeOK'
    BY <1>5 DEF lsm_process_record_stop, StopRequested, Signal
  <2>2. ReferencesCounted'
    BY <1>5 DEF lsm_process_record_stop, StopRequested, Signal
  <2>3. FileOwned'
    BY <1>5 DEF lsm_process_record_stop, StopRequested, Signal
  <2>4. RecordsTracked'
    BY <1>5 DEF lsm_process_record_stop, StopRequested, Signal, Held
  <2> QED
    BY <2>1, <2>2, <2>3, <2>4
<1>6. CASE JoinSucceeds
  <2>1. TypeOK'
    BY <1>6 DEF JoinSucceeds
  <2>2. ReferencesCounted'
    BY <1>6 DEF JoinSucceeds
  <2>3. FileOwned'
    BY <1>6 DEF JoinSucceeds
  <2>4. RecordsTracked'
    BY <1>6 DEF JoinSucceeds, Held
  <2> QED
    BY <2>1, <2>2, <2>3, <2>4
<1>7. CASE JoinTimesOut
  <2>1. TypeOK'
    BY <1>7 DEF JoinTimesOut
  <2>2. ReferencesCounted'
    BY <1>7 DEF JoinTimesOut
  <2>3. FileOwned'
    BY <1>7 DEF JoinTimesOut
  <2>4. RecordsTracked'
    BY <1>7 DEF JoinTimesOut, Held
  <2> QED
    BY <2>1, <2>2, <2>3, <2>4
<1>8. CASE ReleaseRecorder
  <2>1. TypeOK'
    BY <1>8 DEF ReleaseRecorder, recorder_release
  <2>2. ReferencesCounted'
    BY <1>8 DEF ReleaseRecorder, recorder_release
  <2>3. FileOwned'
    BY <1>8 DEF ReleaseRecorder, recorder_release
  <2>4. RecordsTracked'
    BY <1>8 DEF ReleaseRecorder, recorder_release, Held
  <2> QED
    BY <2>1, <2>2, <2>3, <2>4
<1>9. CASE WriterWaits
  <2>1. TypeOK'
    BY <1>9 DEF WriterWaits
  <2>2. ReferencesCounted'
    BY <1>9 DEF WriterWaits
  <2>3. FileOwned'
    BY <1>9 DEF WriterWaits
  <2>4. RecordsTracked'
    BY <1>9 DEF WriterWaits, Held
  <2> QED
    BY <2>1, <2>2, <2>3, <2>4
<1>10. CASE SpuriousWakeup
  <2>1. TypeOK'
    BY <1>10 DEF SpuriousWakeup
  <2>2. ReferencesCounted'
    BY <1>10 DEF SpuriousWakeup
  <2>3. FileOwned'
    BY <1>10 DEF SpuriousWakeup
  <2>4. RecordsTracked'
    BY <1>10 DEF SpuriousWakeup, Held
  <2> QED
    BY <2>1, <2>2, <2>3, <2>4
<1>11. CASE WriterSeesStop
  <2>1. TypeOK'
    BY <1>11 DEF WriterSeesStop, WriterMayStop
  <2>2. ReferencesCounted'
    BY <1>11 DEF WriterSeesStop, WriterMayStop
  <2>3. FileOwned'
    BY <1>11 DEF WriterSeesStop, WriterMayStop
  <2>4. RecordsTracked'
    BY <1>11 DEF WriterSeesStop, WriterMayStop, Held
  <2> QED
    BY <2>1, <2>2, <2>3, <2>4
<1>12. CASE RecordTaken
  <2>1. TypeOK'
    BY <1>12, SMTT(30) DEF RecordTaken, TakeRecord
  <2>2. ReferencesCounted'
    BY <1>12 DEF RecordTaken, TakeRecord
  <2>3. FileOwned'
    BY <1>12 DEF RecordTaken, TakeRecord
  <2>4. RecordsTracked'
    <3>1. /\ node = 0 /\ Held = <<>> /\ queue # <<>>
          /\ node' = Head(queue) /\ queue' = Tail(queue)
          /\ UNCHANGED <<rows, accepted, drained>>
          /\ worker = "lock" /\ worker' = "write"
      BY <1>12 DEF RecordTaken, TakeRecord, Held
    <3>2. Head(queue) \in Records /\ Tail(queue) \in Seq(Records)
      BY <3>1, HeadTailProperties
    <3>3. Held' = <<Head(queue)>> /\ node' # 0
      BY <3>1, <3>2 DEF Held
    <3>4. queue = <<Head(queue)>> \o Tail(queue)
      BY <3>1, <3>2
    <3>5. <<Head(queue)>> \in Seq(Records)
      BY <3>2
    <3>6. rows \o <<>> \o queue = rows \o <<Head(queue)>> \o Tail(queue)
      <4>1. rows \in Seq(Records)
        OBVIOUS
      <4> HIDE DEF RecorderInv, Records
      <4>2. rows \o <<>> = rows
        BY <4>1, ConcatEmptySeq
      <4>3. rows \o <<Head(queue)>> \o Tail(queue)
              = rows \o (<<Head(queue)>> \o Tail(queue))
        BY <3>2, <3>5, <4>1, ConcatAssociative
      <4> QED
        BY <3>4, <4>2, <4>3
    <3>7. accepted' = rows' \o Held' \o queue'
      BY <3>1, <3>3, <3>6
    <3> QED
      BY <3>1, <3>3, <3>7
  <2> QED
    BY <2>1, <2>2, <2>3, <2>4
<1>13. CASE write_record
  <2>1. TypeOK'
    BY <1>13 DEF write_record
  <2>2. ReferencesCounted'
    BY <1>13 DEF write_record
  <2>3. FileOwned'
    BY <1>13 DEF write_record
  <2>4. RecordsTracked'
    <3>1. /\ node \in Records /\ Held = <<node>> /\ Held' = <<>>
          /\ node' = 0 /\ rows' = Append(rows, node)
          /\ UNCHANGED <<queue, accepted, drained>>
          /\ worker = "write" /\ worker' = "lock"
      BY <1>13 DEF write_record, Held
    <3>2. rows' = rows \o <<node>> /\ rows' \in Seq(Records)
      BY <2>1, <3>1, AppendIsConcat
    <3>3. accepted = rows' \o queue
      BY <3>1, <3>2
    <3>4. IsPrefix(rows', accepted')
      BY <3>1, <3>2, <3>3, PrefixOfConcat
    <3>5. accepted' = rows' \o Held' \o queue'
      BY <3>1, <3>2, <3>3, ConcatEmptySeq
    <3> QED
      BY <3>1, <3>4, <3>5
  <2> QED
    BY <2>1, <2>2, <2>3, <2>4
<1>14. CASE WriteFails
  <2>1. TypeOK'
    BY <1>14 DEF WriteFails, NoteFailure
  <2>2. ReferencesCounted'
    BY <1>14 DEF WriteFails, NoteFailure
  <2>3. FileOwned'
    BY <1>14 DEF WriteFails, NoteFailure
  <2>4. RecordsTracked'
    BY <1>14 DEF WriteFails, NoteFailure, Held
  <2> QED
    BY <2>1, <2>2, <2>3, <2>4
<1>15. CASE FileClosed
  <2>1. TypeOK'
    BY <1>15 DEF FileClosed, NoteFailure
  <2>2. ReferencesCounted'
    BY <1>15 DEF FileClosed, NoteFailure
  <2>3. FileOwned'
    BY <1>15 DEF FileClosed, NoteFailure
  <2>4. RecordsTracked'
    BY <1>15 DEF FileClosed, NoteFailure, Held
  <2> QED
    BY <2>1, <2>2, <2>3, <2>4
<1>16. CASE WriterExits
  <2>1. TypeOK'
    BY <1>16 DEF WriterExits, recorder_release
  <2>2. ReferencesCounted'
    BY <1>16 DEF WriterExits, recorder_release
  <2>3. FileOwned'
    BY <1>16 DEF WriterExits, recorder_release
  <2>4. RecordsTracked'
    BY <1>16 DEF WriterExits, recorder_release, Held
  <2> QED
    BY <2>1, <2>2, <2>3, <2>4
<1>17. CASE UNCHANGED vars
  <2>1. TypeOK'
    BY <1>17 DEF vars
  <2>2. ReferencesCounted'
    BY <1>17 DEF vars
  <2>3. FileOwned'
    BY <1>17 DEF vars
  <2>4. RecordsTracked'
    BY <1>17 DEF vars, Held
  <2> QED
    BY <2>1, <2>2, <2>3, <2>4
<1> QED
    BY <1>1, <1>2, <1>3, <1>4, <1>5, <1>6, <1>7, <1>8, <1>9, <1>10, <1>11,
       <1>12, <1>13, <1>14, <1>15, <1>16, <1>17
    DEF Next, MainStep, WriterStep, Over

(* Every step of the shell and of the Win32 worker keeps their invariant.   *)
LEMMA RuntimeStep ==
    RuntimeInv /\ [Runtime!Next]_(Runtime!vars) => RuntimeInv'
<1> SUFFICES ASSUME RuntimeInv, [Runtime!Next]_(Runtime!vars)
             PROVE  RuntimeInv'
    OBVIOUS
<1> USE BackgroundAssumption
    DEF RuntimeInv, ObjectsOwned, StoppedIsGone, Runtime!TypeOK,
        Runtime!Snapshots, Runtime!syncVars, Runtime!shellVars,
        Runtime!RuntimeAssumption
<1>1. CASE Runtime!CreateBackend
  <2>1. Runtime!TypeOK'
    BY <1>1 DEF Runtime!CreateBackend
  <2>2. ObjectsOwned'
    BY <1>1 DEF Runtime!CreateBackend
  <2>3. StoppedIsGone'
    BY <1>1 DEF Runtime!CreateBackend
  <2> QED
    BY <2>1, <2>2, <2>3
<1>2. CASE Runtime!PublishBackend
  <2>1. Runtime!TypeOK'
    BY <1>2 DEF Runtime!PublishBackend, Runtime!Touch
  <2>2. ObjectsOwned'
    BY <1>2 DEF Runtime!PublishBackend, Runtime!Touch
  <2>3. StoppedIsGone'
    BY <1>2 DEF Runtime!PublishBackend, Runtime!Touch
  <2> QED
    BY <2>1, <2>2, <2>3
<1>3. CASE Runtime!WaitForEvent
  <2>1. Runtime!TypeOK'
    BY <1>3 DEF Runtime!WaitForEvent, Runtime!Touch
  <2>2. ObjectsOwned'
    BY <1>3 DEF Runtime!WaitForEvent, Runtime!Touch
  <2>3. StoppedIsGone'
    BY <1>3 DEF Runtime!WaitForEvent, Runtime!Touch
  <2> QED
    BY <2>1, <2>2, <2>3
<1>4. CASE Runtime!Dispatch
  <2>1. Runtime!TypeOK'
    BY <1>4 DEF Runtime!Dispatch, Runtime!Touch
  <2>2. ObjectsOwned'
    BY <1>4 DEF Runtime!Dispatch, Runtime!Touch
  <2>3. StoppedIsGone'
    BY <1>4 DEF Runtime!Dispatch, Runtime!Touch
  <2> QED
    BY <2>1, <2>2, <2>3
<1>5. CASE Runtime!FinishScan
  <2>1. Runtime!TypeOK'
    BY <1>5 DEF Runtime!FinishScan, Runtime!Deliver, Runtime!Touch
  <2>2. ObjectsOwned'
    BY <1>5 DEF Runtime!FinishScan, Runtime!Deliver, Runtime!Touch
  <2>3. StoppedIsGone'
    BY <1>5 DEF Runtime!FinishScan, Runtime!Deliver, Runtime!Touch
  <2> QED
    BY <2>1, <2>2, <2>3
<1>6. CASE Runtime!LeaveWorker
  <2>1. Runtime!TypeOK'
    BY <1>6 DEF Runtime!LeaveWorker, Runtime!Touch
  <2>2. ObjectsOwned'
    BY <1>6 DEF Runtime!LeaveWorker, Runtime!Touch
  <2>3. StoppedIsGone'
    BY <1>6 DEF Runtime!LeaveWorker, Runtime!Touch
  <2> QED
    BY <2>1, <2>2, <2>3
<1>7. CASE Runtime!StartWorker
  <2>0. RetryDelay \in 0 .. RetryDelay
    OBVIOUS
  <2>1. Runtime!TypeOK'
    BY <1>7, <2>0
    DEF Runtime!StartWorker, Runtime!MayStart,
        Runtime!lsm_windows_process_runtime_available,
        Runtime!ReleaseCompleted, Runtime!ClearStop
  <2>2. ObjectsOwned'
    BY <1>7
    DEF Runtime!StartWorker, Runtime!MayStart,
        Runtime!lsm_windows_process_runtime_available,
        Runtime!ReleaseCompleted, Runtime!ClearStop
  <2>3. StoppedIsGone'
    BY <1>7
    DEF Runtime!StartWorker, Runtime!MayStart,
        Runtime!lsm_windows_process_runtime_available,
        Runtime!ReleaseCompleted, Runtime!ClearStop
  <2> QED
    BY <2>1, <2>2, <2>3
<1>8. CASE Runtime!StartFails
  <2>0. RetryDelay \in 0 .. RetryDelay
    OBVIOUS
  <2>1. Runtime!TypeOK'
    BY <1>8, <2>0
    DEF Runtime!StartFails, Runtime!MayStart,
        Runtime!lsm_windows_process_runtime_available,
        Runtime!ReleaseCompleted, Runtime!ClearStop
  <2>2. ObjectsOwned'
    BY <1>8
    DEF Runtime!StartFails, Runtime!MayStart,
        Runtime!lsm_windows_process_runtime_available,
        Runtime!ReleaseCompleted, Runtime!ClearStop
  <2>3. StoppedIsGone'
    BY <1>8
    DEF Runtime!StartFails, Runtime!MayStart,
        Runtime!lsm_windows_process_runtime_available,
        Runtime!ReleaseCompleted, Runtime!ClearStop
  <2> QED
    BY <2>1, <2>2, <2>3
<1>9. CASE Runtime!SignalStart
  <2>1. Runtime!TypeOK'
    BY <1>9 DEF Runtime!SignalStart
  <2>2. ObjectsOwned'
    BY <1>9 DEF Runtime!SignalStart
  <2>3. StoppedIsGone'
    BY <1>9 DEF Runtime!SignalStart
  <2> QED
    BY <2>1, <2>2, <2>3
<1>10. CASE Runtime!RequestScan
  <2>1. Runtime!TypeOK'
    BY <1>10
    DEF Runtime!RequestScan, Runtime!lsm_windows_process_runtime_available
  <2>2. ObjectsOwned'
    BY <1>10
    DEF Runtime!RequestScan, Runtime!lsm_windows_process_runtime_available
  <2>3. StoppedIsGone'
    BY <1>10
    DEF Runtime!RequestScan, Runtime!lsm_windows_process_runtime_available
  <2> QED
    BY <2>1, <2>2, <2>3
<1>11. CASE Runtime!SignalRequest
  <2>1. Runtime!TypeOK'
    BY <1>11 DEF Runtime!SignalRequest
  <2>2. ObjectsOwned'
    BY <1>11 DEF Runtime!SignalRequest
  <2>3. StoppedIsGone'
    BY <1>11 DEF Runtime!SignalRequest
  <2> QED
    BY <2>1, <2>2, <2>3
<1>12. CASE Runtime!TakeSnapshot
  <2>1. Runtime!TypeOK'
    BY <1>12 DEF Runtime!TakeSnapshot
  <2>2. ObjectsOwned'
    BY <1>12 DEF Runtime!TakeSnapshot
  <2>3. StoppedIsGone'
    BY <1>12 DEF Runtime!TakeSnapshot
  <2> QED
    BY <2>1, <2>2, <2>3
<1>13. CASE Runtime!Tick
  <2>1. Runtime!TypeOK'
    BY <1>13 DEF Runtime!Tick
  <2>2. ObjectsOwned'
    BY <1>13 DEF Runtime!Tick
  <2>3. StoppedIsGone'
    BY <1>13 DEF Runtime!Tick
  <2> QED
    BY <2>1, <2>2, <2>3
<1>14. CASE Runtime!CallStop
  <2>1. Runtime!TypeOK'
    BY <1>14 DEF Runtime!CallStop
  <2>2. ObjectsOwned'
    BY <1>14 DEF Runtime!CallStop
  <2>3. StoppedIsGone'
    BY <1>14 DEF Runtime!CallStop
  <2> QED
    BY <2>1, <2>2, <2>3
<1>15. CASE Runtime!RequestStop
  <2>1. Runtime!TypeOK'
    BY <1>15 DEF Runtime!RequestStop, Runtime!AfterStop
  <2>2. ObjectsOwned'
    BY <1>15 DEF Runtime!RequestStop, Runtime!AfterStop
  <2>3. StoppedIsGone'
    BY <1>15 DEF Runtime!RequestStop, Runtime!AfterStop
  <2> QED
    BY <2>1, <2>2, <2>3
<1>16. CASE Runtime!SignalStop
  <2>1. Runtime!TypeOK'
    BY <1>16 DEF Runtime!SignalStop
  <2>2. ObjectsOwned'
    BY <1>16 DEF Runtime!SignalStop
  <2>3. StoppedIsGone'
    BY <1>16 DEF Runtime!SignalStop
  <2> QED
    BY <2>1, <2>2, <2>3
<1>17. CASE Runtime!JoinWorker
  <2>1. Runtime!TypeOK'
    BY <1>17
    DEF Runtime!JoinWorker, Runtime!AfterStop, Runtime!ReleaseCompleted
  <2>2. ObjectsOwned'
    BY <1>17
    DEF Runtime!JoinWorker, Runtime!AfterStop, Runtime!ReleaseCompleted
  <2>3. StoppedIsGone'
    BY <1>17
    DEF Runtime!JoinWorker, Runtime!AfterStop, Runtime!ReleaseCompleted
  <2> QED
    BY <2>1, <2>2, <2>3
<1>18. CASE Runtime!AbandonWorker
  <2>1. Runtime!TypeOK'
    BY <1>18 DEF Runtime!AbandonWorker, Runtime!AfterStop
  <2>2. ObjectsOwned'
    BY <1>18 DEF Runtime!AbandonWorker, Runtime!AfterStop
  <2>3. StoppedIsGone'
    BY <1>18 DEF Runtime!AbandonWorker, Runtime!AfterStop
  <2> QED
    BY <2>1, <2>2, <2>3
<1>19. CASE Runtime!LeaveProgram
  <2>1. Runtime!TypeOK'
    BY <1>19 DEF Runtime!LeaveProgram, Runtime!FreeState
  <2>2. ObjectsOwned'
    BY <1>19 DEF Runtime!LeaveProgram, Runtime!FreeState
  <2>3. StoppedIsGone'
    BY <1>19 DEF Runtime!LeaveProgram, Runtime!FreeState
  <2> QED
    BY <2>1, <2>2, <2>3
<1>20. CASE UNCHANGED Runtime!vars
    BY <1>20 DEF Runtime!vars
<1> QED
    BY <1>1, <1>2, <1>3, <1>4, <1>5, <1>6, <1>7, <1>8, <1>9, <1>10, <1>11,
       <1>12, <1>13, <1>14, <1>15, <1>16, <1>17, <1>18, <1>19, <1>20
    DEF Runtime!Next, Runtime!Worker, Runtime!Shell, Runtime!Exited

(* What lsm_*_refresh makes of the flags and the tasks.                     *)
LEMMA RefreshKeepsApart ==
    ASSUME Pages!TypeOK, version' = version,
           NEW pending \in BOOLEAN, NEW again \in BOOLEAN,
           NEW tasks \in [Pages!Tasks -> Pages!TaskStates],
           NEW row \in Rows \cup {Pages!None},
           Pages!Refresh(pending, again, tasks, row),
           pending <=> \E t \in Pages!Tasks : tasks[t] # "none",
           \A t, u \in Pages!Tasks :
               tasks[t] # "none" /\ tasks[u] # "none" => t = u
    PROVE  /\ refresh_pending' \in BOOLEAN /\ refresh_again' \in BOOLEAN
           /\ task' \in [Pages!Tasks -> Pages!TaskStates]
           /\ preserve' \in [Pages!Tasks -> Rows \cup {Pages!None}]
           /\ asked' = version
           /\ refresh_pending' <=> \E t \in Pages!Tasks : task'[t] # "none"
           /\ \A t, u \in Pages!Tasks :
                  task'[t] # "none" /\ task'[u] # "none" => t = u
           /\ \A t \in Pages!Tasks :
                  task'[t] = "success" => tasks[t] = "success"
<1>1. CASE pending
    BY <1>1 DEF Pages!Refresh, Pages!RefreshBlocked, Pages!Remember,
        Pages!Coalesces, Pages!TypeOK
<1>2. CASE ~pending
  <2>1. \A t \in Pages!Tasks : tasks[t] = "none"
    BY <1>2
  <2>2. PICK t \in Pages!Tasks :
            /\ refresh_pending' = TRUE /\ refresh_again' = FALSE
            /\ task' = [tasks EXCEPT ![t] = "collect"]
            /\ preserve' = [preserve EXCEPT ![t] =
                               IF Pages!KeepsSelection THEN row
                               ELSE Pages!None]
    BY <1>2 DEF Pages!Refresh, Pages!RefreshBlocked
  <2>3. asked' = version
    BY DEF Pages!Refresh
  <2>4. /\ task'[t] = "collect"
        /\ \A u \in Pages!Tasks : u # t => task'[u] = "none"
    BY <2>1, <2>2
  <2>5. task' \in [Pages!Tasks -> Pages!TaskStates]
    BY <2>2 DEF Pages!TaskStates
  <2>6. preserve' \in [Pages!Tasks -> Rows \cup {Pages!None}]
    BY <2>2 DEF Pages!TypeOK
  <2> QED
    BY <2>2, <2>3, <2>4, <2>5, <2>6
<1> QED
    BY <1>1, <1>2

(* The page's module counts as this one does.                               *)
LEMMA SameCardinality ==
    \A S : /\ Pages!IsFiniteSet(S) <=> IsFiniteSet(S)
           /\ Pages!Cardinality(S) = Cardinality(S)
    BY DEF Pages!IsFiniteSet, IsFiniteSet, Pages!Cardinality, Cardinality

(* The actions that are out are finitely many.                              *)
LEMMA OutActionsFinite ==
    /\ IsFiniteSet(OutActions)
    /\ Cardinality(OutActions) \in 0 .. Cardinality(Actions)
<1>1. IsFiniteSet(Actions) /\ OutActions \subseteq Actions
  <2>1. IsFiniteSet(Actions)
    BY BackgroundAssumption, SameCardinality DEF Pages!InventoryAssumption
  <2> QED
    BY <2>1 DEF OutActions
<1>2. /\ IsFiniteSet(OutActions)
      /\ Cardinality(OutActions) <= Cardinality(Actions)
    BY <1>1, FS_Subset
<1>3. Cardinality(OutActions) \in Nat /\ Cardinality(Actions) \in Nat
    BY <1>1, <1>2, FS_CardinalityType
<1> QED
    BY <1>2, <1>3

(* Every step of a page, of its tasks and of the world keeps its invariant. *)
LEMMA PagesStep == PagesInv /\ [Pages!Next]_(Pages!vars) => PagesInv'
<1> SUFFICES ASSUME PagesInv, [Pages!Next]_(Pages!vars)
             PROVE  PagesInv'
    OBVIOUS
<1>a. /\ Cardinality(Actions) \in Nat /\ Pages!Cardinality(Actions) = Cardinality(Actions)
      /\ 0 \in 0 .. Cardinality(Actions)
    BY SameCardinality, BackgroundAssumption, FS_CardinalityType
    DEF Pages!InventoryAssumption
<1>b. ASSUME UNCHANGED action, UNCHANGED <<open, action_pending>>
      PROVE  ActionsCounted'
  <2>1. OutActions' = OutActions
    BY <1>b DEF OutActions
  <2> QED
    BY <1>b, <2>1 DEF PagesInv, ActionsCounted
<1>c. ASSUME open', action_pending' = Cardinality(OutActions')
      PROVE  ActionsCounted' /\ action_pending' \in 0 .. Pages!Cardinality(Actions)
  <2>1. Cardinality(OutActions') \in 0 .. Cardinality(Actions)
    <3>1. IsFiniteSet(Actions) /\ OutActions' \subseteq Actions
      <4>1. IsFiniteSet(Actions)
        BY BackgroundAssumption, SameCardinality DEF Pages!InventoryAssumption
      <4> QED
        BY <4>1 DEF OutActions
    <3>2. /\ IsFiniteSet(OutActions')
          /\ Cardinality(OutActions') <= Cardinality(Actions)
      BY <3>1, FS_Subset
    <3>3. Cardinality(OutActions') \in Nat
      BY <3>2, FS_CardinalityType
    <3> QED
      BY <1>a, <3>2, <3>3
  <2> QED
    BY <1>a, <1>c, <2>1 DEF ActionsCounted
<1>d. MaxVersion \in Nat /\ 0 \in 0 .. MaxVersion
    BY BackgroundAssumption DEF Pages!InventoryAssumption
<1> USE DEF PagesInv, TasksApart, ResultsNewer, Pages!TypeOK, Pages!Tasks,
        Pages!TaskStates, Pages!ActionStates, Pages!Versions,
        Pages!pendingVars, Pages!taskVars, Pages!listVars, Pages!appVars
<1>1. CASE UNCHANGED page /\ Pages!UserRefreshes
  <2>1. /\ UNCHANGED <<page, version, action_pending, collected, action, shown,
                       available, selection, paused, open>>
        /\ visible' \in BOOLEAN
        /\ Pages!Refresh(refresh_pending, refresh_again, task, selection)
    BY <1>1 DEF Pages!UserRefreshes, Pages!RefreshNow
  <2>2. open
    BY <1>1 DEF Pages!UserRefreshes
  <2> HIDE DEF Pages!TypeOK
  <2>3. /\ refresh_pending' \in BOOLEAN /\ refresh_again' \in BOOLEAN
        /\ task' \in [Pages!Tasks -> Pages!TaskStates]
        /\ preserve' \in [Pages!Tasks -> Rows \cup {Pages!None}]
        /\ asked' = version
        /\ refresh_pending' <=> \E t \in Pages!Tasks : task'[t] # "none"
        /\ \A t, u \in Pages!Tasks :
               task'[t] # "none" /\ task'[u] # "none" => t = u
        /\ \A t \in Pages!Tasks :
               task'[t] = "success" => task[t] = "success"
    <3>1. /\ refresh_pending \in BOOLEAN /\ refresh_again \in BOOLEAN
          /\ task \in [Pages!Tasks -> Pages!TaskStates]
          /\ selection \in Rows \cup {Pages!None}
      BY DEF Pages!TypeOK
    <3>2. /\ refresh_pending <=> \E t \in Pages!Tasks : task[t] # "none"
          /\ \A t, u \in Pages!Tasks :
               task[t] # "none" /\ task[u] # "none" => t = u
      BY <2>2
    <3> HIDE DEF Pages!Tasks, Pages!TaskStates, TasksApart
    <3> QED
      BY <2>1, <3>1, <3>2, RefreshKeepsApart
  <2> USE DEF Pages!TypeOK
  <2>4. Pages!TypeOK'
    BY <2>1, <2>3
  <2>5. TasksApart'
    BY <2>1, <2>3
  <2>6. ActionsCounted'
    BY <1>b, <2>1
  <2>7. ResultsNewer'
    BY <2>1, <2>3
  <2> QED
    BY <2>4, <2>5, <2>6, <2>7
<1>2. CASE UNCHANGED page /\ Pages!PeriodicUpdate
  <2>1. /\ UNCHANGED <<page, version, action_pending, collected, action, shown,
                       available, selection, paused, open>>
        /\ visible' \in BOOLEAN
        /\ Pages!Refresh(refresh_pending, refresh_again, task, selection)
    BY <1>2 DEF Pages!PeriodicUpdate, Pages!RefreshNow
  <2>2. open
    BY <1>2 DEF Pages!PeriodicUpdate
  <2> HIDE DEF Pages!TypeOK
  <2>3. /\ refresh_pending' \in BOOLEAN /\ refresh_again' \in BOOLEAN
        /\ task' \in [Pages!Tasks -> Pages!TaskStates]
        /\ preserve' \in [Pages!Tasks -> Rows \cup {Pages!None}]
        /\ asked' = version
        /\ refresh_pending' <=> \E t \in Pages!Tasks : task'[t] # "none"
        /\ \A t, u \in Pages!Tasks :
               task'[t] # "none" /\ task'[u] # "none" => t = u
        /\ \A t \in Pages!Tasks :
               task'[t] = "success" => task[t] = "success"
    <3>1. /\ refresh_pending \in BOOLEAN /\ refresh_again \in BOOLEAN
          /\ task \in [Pages!Tasks -> Pages!TaskStates]
          /\ selection \in Rows \cup {Pages!None}
      BY DEF Pages!TypeOK
    <3>2. /\ refresh_pending <=> \E t \in Pages!Tasks : task[t] # "none"
          /\ \A t, u \in Pages!Tasks :
               task[t] # "none" /\ task[u] # "none" => t = u
      BY <2>2
    <3> HIDE DEF Pages!Tasks, Pages!TaskStates, TasksApart
    <3> QED
      BY <2>1, <3>1, <3>2, RefreshKeepsApart
  <2> USE DEF Pages!TypeOK
  <2>4. Pages!TypeOK'
    BY <2>1, <2>3
  <2>5. TasksApart'
    BY <2>1, <2>3
  <2>6. ActionsCounted'
    BY <1>b, <2>1
  <2>7. ResultsNewer'
    BY <2>1, <2>3
  <2> QED
    BY <2>4, <2>5, <2>6, <2>7
<1>3. CASE UNCHANGED page /\ Pages!LeavePage
  <2>1. Pages!TypeOK'
    BY <1>3 DEF Pages!LeavePage
  <2>2. TasksApart'
    BY <1>3 DEF Pages!LeavePage
  <2>3. ActionsCounted'
    BY <1>b, <1>3 DEF Pages!LeavePage
  <2>4. ResultsNewer'
    BY <1>3 DEF Pages!LeavePage
  <2> QED
    BY <2>1, <2>2, <2>3, <2>4
<1>4. CASE UNCHANGED page /\ Pages!TogglePause
  <2>1. Pages!TypeOK'
    BY <1>4 DEF Pages!TogglePause
  <2>2. TasksApart'
    BY <1>4 DEF Pages!TogglePause
  <2>3. ActionsCounted'
    BY <1>b, <1>4 DEF Pages!TogglePause
  <2>4. ResultsNewer'
    BY <1>4 DEF Pages!TogglePause
  <2> QED
    BY <2>1, <2>2, <2>3, <2>4
<1>5. ASSUME NEW row \in Rows, UNCHANGED page,
             Pages!SelectRow(row)
      PROVE  PagesInv'
  <2>1. Pages!TypeOK'
    BY <1>5 DEF Pages!SelectRow
  <2>2. TasksApart'
    BY <1>5 DEF Pages!SelectRow
  <2>3. ActionsCounted'
    BY <1>b, <1>5 DEF Pages!SelectRow
  <2>4. ResultsNewer'
    BY <1>5 DEF Pages!SelectRow
  <2> QED
    BY <2>1, <2>2, <2>3, <2>4
<1>6. ASSUME NEW t \in Pages!Tasks, UNCHANGED page,
             Pages!CollectSucceeds(t)
      PROVE  PagesInv'
  <2>1. Pages!TypeOK'
    BY <1>6 DEF Pages!CollectSucceeds
  <2>2. TasksApart'
    BY <1>6 DEF Pages!CollectSucceeds
  <2>3. ActionsCounted'
    BY <1>b, <1>6 DEF Pages!CollectSucceeds
  <2>4. ResultsNewer'
    BY <1>6 DEF Pages!CollectSucceeds
  <2> QED
    BY <2>1, <2>2, <2>3, <2>4
<1>7. ASSUME NEW t \in Pages!Tasks, UNCHANGED page,
             Pages!CollectFails(t)
      PROVE  PagesInv'
  <2>1. Pages!TypeOK'
    BY <1>7 DEF Pages!CollectFails
  <2>2. TasksApart'
    BY <1>7 DEF Pages!CollectFails
  <2>3. ActionsCounted'
    BY <1>b, <1>7 DEF Pages!CollectFails
  <2>4. ResultsNewer'
    BY <1>7 DEF Pages!CollectFails
  <2> QED
    BY <2>1, <2>2, <2>3, <2>4
<1>8. ASSUME NEW t \in Pages!Tasks, UNCHANGED page,
             Pages!LateResult(t)
      PROVE  PagesInv'
  <2>1. Pages!TypeOK'
    BY <1>8 DEF Pages!LateResult, Pages!PageGone
  <2>2. TasksApart'
    BY <1>8 DEF Pages!LateResult, Pages!PageGone
  <2>3. ActionsCounted'
    BY <1>b, <1>8 DEF Pages!LateResult, Pages!PageGone
  <2>4. ResultsNewer'
    BY <1>8 DEF Pages!LateResult, Pages!PageGone
  <2> QED
    BY <2>1, <2>2, <2>3, <2>4
<1>9. CASE UNCHANGED page /\ Pages!WorldChanges
  <2>1. Pages!TypeOK'
    BY <1>d, <1>9 DEF Pages!WorldChanges
  <2>2. TasksApart'
    BY <1>9 DEF Pages!WorldChanges
  <2>3. ActionsCounted'
    BY <1>b, <1>9 DEF Pages!WorldChanges
  <2>4. ResultsNewer'
    BY <1>9 DEF Pages!WorldChanges
  <2> QED
    BY <2>1, <2>2, <2>3, <2>4
<1>10. CASE UNCHANGED page /\ Pages!Destroy
  <2>1. Pages!TypeOK'
    BY <1>a, <1>10 DEF Pages!Destroy
  <2>2. TasksApart'
    BY <1>10 DEF Pages!Destroy
  <2>3. ActionsCounted'
    BY <1>10 DEF ActionsCounted, Pages!Destroy
  <2>4. ResultsNewer'
    BY <1>10 DEF Pages!Destroy
  <2> QED
    BY <2>1, <2>2, <2>3, <2>4
<1>11. ASSUME NEW a \in Actions, UNCHANGED page,
             Pages!ActionSucceeds(a)
      PROVE  PagesInv'
  <2>1. Pages!TypeOK'
    BY <1>d, <1>11 DEF Pages!ActionSucceeds
  <2>2. TasksApart' /\ ResultsNewer'
    BY <1>11 DEF Pages!ActionSucceeds
  <2>3. OutActions' = OutActions
    BY <1>11 DEF Pages!ActionSucceeds, OutActions
  <2>4. ActionsCounted'
    BY <1>11, <2>3 DEF Pages!ActionSucceeds, ActionsCounted
  <2> QED
    BY <2>1, <2>2, <2>4
<1>12. ASSUME NEW a \in Actions, UNCHANGED page,
             Pages!ActionFails(a)
      PROVE  PagesInv'
  <2>1. Pages!TypeOK'
    BY <1>12 DEF Pages!ActionFails
  <2>2. TasksApart' /\ ResultsNewer'
    BY <1>12 DEF Pages!ActionFails
  <2>3. OutActions' = OutActions
    BY <1>12 DEF Pages!ActionFails, OutActions
  <2>4. ActionsCounted'
    BY <1>12, <2>3 DEF Pages!ActionFails, ActionsCounted
  <2> QED
    BY <2>1, <2>2, <2>4
<1>13. ASSUME NEW a \in Actions, UNCHANGED page,
             Pages!LateAction(a)
      PROVE  PagesInv'
  <2>1. Pages!TypeOK'
    BY <1>13 DEF Pages!LateAction
  <2>2. TasksApart' /\ ResultsNewer' /\ ActionsCounted'
    BY <1>13 DEF Pages!LateAction, ActionsCounted
  <2> QED
    BY <2>1, <2>2
<1>14. ASSUME NEW a \in Actions, UNCHANGED page,
             Pages!StartAction(a)
      PROVE  PagesInv'
  <2>1. /\ open /\ open' /\ action[a] = "none"
        /\ action_pending' = action_pending + 1
        /\ action' = [action EXCEPT ![a] = "run"]
        /\ UNCHANGED <<page, version, Pages!pendingVars, Pages!taskVars,
                       Pages!listVars, Pages!appVars, asked>>
    BY <1>14 DEF Pages!StartAction
  <2>2. OutActions' = OutActions \cup {a} /\ a \notin OutActions
    BY <2>1 DEF OutActions
  <2>3. Cardinality(OutActions') = Cardinality(OutActions) + 1
    BY <2>2, OutActionsFinite, FS_AddElement
  <2>4. action_pending' = Cardinality(OutActions')
    BY <2>1, <2>3 DEF ActionsCounted
  <2>5. ActionsCounted' /\ action_pending' \in 0 .. Pages!Cardinality(Actions)
    BY <1>c, <2>1, <2>4
  <2>6. Pages!TypeOK'
    BY <2>1, <2>5
  <2>7. TasksApart' /\ ResultsNewer'
    BY <2>1
  <2> QED
    BY <2>5, <2>6, <2>7
<1>15. ASSUME NEW a \in Actions, UNCHANGED page,
             Pages!ActionCompletes(a)
      PROVE  PagesInv'
  <2>1. /\ open /\ open' /\ action[a] \in {"success", "failure"}
        /\ action_pending' = action_pending - 1
        /\ action' = [action EXCEPT ![a] = "over"]
        /\ UNCHANGED <<page, version, collected, Pages!listVars, Pages!appVars>>
    BY <1>15 DEF Pages!ActionCompletes, Pages!CountedDown
  <2>2. OutActions' = OutActions \ {a} /\ a \in OutActions
    BY <2>1 DEF OutActions
  <2>3. Cardinality(OutActions') = Cardinality(OutActions) - 1
    BY <2>2, OutActionsFinite, FS_RemoveElement
  <2>4. action_pending' = Cardinality(OutActions')
    BY <2>1, <2>3 DEF ActionsCounted
  <2>5. ActionsCounted' /\ action_pending' \in 0 .. Pages!Cardinality(Actions)
    BY <1>c, <2>1, <2>4
  <2>6. /\ refresh_pending' \in BOOLEAN /\ refresh_again' \in BOOLEAN
        /\ task' \in [Pages!Tasks -> Pages!TaskStates]
        /\ preserve' \in [Pages!Tasks -> Rows \cup {Pages!None}]
        /\ asked' \in Pages!Versions
        /\ refresh_pending' <=> \E t \in Pages!Tasks : task'[t] # "none"
        /\ \A t, u \in Pages!Tasks :
               task'[t] # "none" /\ task'[u] # "none" => t = u
        /\ \A t \in Pages!Tasks :
               task'[t] = "success" => task[t] = "success"
    <3>1. CASE Pages!RefreshNow
      <4> HIDE DEF Pages!TypeOK
      <4>1. /\ refresh_pending \in BOOLEAN /\ refresh_again \in BOOLEAN
            /\ task \in [Pages!Tasks -> Pages!TaskStates]
            /\ selection \in Rows \cup {Pages!None}
            /\ version \in Pages!Versions /\ version' = version
        BY <2>1 DEF Pages!TypeOK
      <4>2. /\ refresh_pending <=> \E t \in Pages!Tasks : task[t] # "none"
            /\ \A t, u \in Pages!Tasks :
                 task[t] # "none" /\ task[u] # "none" => t = u
        BY <2>1
      <4> HIDE DEF Pages!Tasks, Pages!TaskStates, TasksApart, Pages!Versions
      <4> QED
        BY <3>1, <4>1, <4>2, RefreshKeepsApart DEF Pages!RefreshNow
    <3>2. CASE Pages!NoRefresh(refresh_pending, refresh_again, task)
      BY <2>1, <3>2 DEF Pages!NoRefresh
    <3> QED
      BY <1>15, <3>1, <3>2 DEF Pages!ActionCompletes
  <2>7. Pages!TypeOK'
    BY <2>1, <2>5, <2>6
  <2>8. TasksApart' /\ ResultsNewer'
    BY <2>1, <2>6
  <2> QED
    BY <2>5, <2>7, <2>8
<1>16. ASSUME NEW t \in Pages!Tasks, UNCHANGED page,
             Pages!RefreshCompletes(t)
      PROVE  PagesInv'
  <2> DEFINE returned == [task EXCEPT ![t] = "none"]
  <2>1. /\ open /\ open' /\ task[t] \in {"success", "failure"}
        /\ UNCHANGED <<page, version, collected, action, action_pending,
                       Pages!appVars>>
    BY <1>16 DEF Pages!RefreshCompletes
  <2>2. /\ shown' \in Pages!Versions /\ shown' <= version
        /\ available' \in BOOLEAN
        /\ selection' \in Rows \cup {Pages!None}
    <3>1. CASE task[t] = "success"
      BY <1>16, <3>1 DEF Pages!RefreshCompletes, Pages!Apply
    <3>2. CASE task[t] # "success" /\ Pages!KeepsOnFailure
      BY <1>16, <3>2 DEF Pages!RefreshCompletes, Pages!Apply
    <3>3. CASE task[t] # "success" /\ ~Pages!KeepsOnFailure
      <4>1. shown' = 0 /\ available' = FALSE /\ selection' = Pages!None
        BY <1>16, <3>3 DEF Pages!RefreshCompletes, Pages!Apply
      <4>2. version \in Nat /\ 0 \in Pages!Versions
        BY <1>d
      <4>3. shown' \in Pages!Versions /\ shown' <= version
        <5> HIDE DEF PagesInv, Pages!Versions
        <5> QED
          BY <4>1, <4>2
      <4>4. available' \in BOOLEAN /\ selection' \in Rows \cup {Pages!None}
        BY <4>1, Zenon
      <4> QED
        BY <4>3, <4>4
    <3> QED
      BY <3>1, <3>2, <3>3
  <2>3. /\ returned \in [Pages!Tasks -> Pages!TaskStates]
        /\ \A u \in Pages!Tasks : returned[u] = "none"
    BY <2>1
  <2>4. /\ refresh_pending' \in BOOLEAN /\ refresh_again' \in BOOLEAN
        /\ task' \in [Pages!Tasks -> Pages!TaskStates]
        /\ preserve' \in [Pages!Tasks -> Rows \cup {Pages!None}]
        /\ asked' \in Pages!Versions
        /\ refresh_pending' <=> \E u \in Pages!Tasks : task'[u] # "none"
        /\ \A u, v \in Pages!Tasks :
               task'[u] # "none" /\ task'[v] # "none" => u = v
        /\ \A u \in Pages!Tasks : task'[u] # "success"
    <3>1. CASE Pages!Refresh(FALSE, FALSE, returned, selection')
      <4> HIDE DEF Pages!TypeOK, returned
      <4>1. version \in Pages!Versions /\ version' = version
        BY <2>1 DEF Pages!TypeOK
      <4> HIDE DEF Pages!Tasks, Pages!TaskStates, TasksApart, Pages!Versions
      <4> QED
        BY <2>2, <2>3, <3>1, <4>1, RefreshKeepsApart
    <3>2. CASE Pages!NoRefresh(FALSE, FALSE, returned)
      BY <2>3, <3>2 DEF Pages!NoRefresh
    <3> QED
      BY <1>16, <3>1, <3>2 DEF Pages!RefreshCompletes, Pages!StillPending
  <2>5. Pages!TypeOK'
    BY <2>1, <2>2, <2>4
  <2>6. TasksApart' /\ ResultsNewer'
    BY <2>1, <2>2, <2>4
  <2>7. ActionsCounted'
    BY <1>b, <2>1
  <2> QED
    BY <2>5, <2>6, <2>7
<1>17. CASE UNCHANGED Pages!vars
    BY <1>b, <1>17 DEF Pages!vars, Pages!workVars
<1> QED
    BY <1>1, <1>2, <1>3, <1>4, <1>5, <1>6, <1>7, <1>8, <1>9, <1>10, <1>11,
       <1>12, <1>13, <1>14, <1>15, <1>16, <1>17
    DEF Pages!Next, Pages!TaskStep, Pages!WorkerCollects, Pages!Over

-----------------------------------------------------------------------------
(* All three begin in their invariants.                                     *)
LEMMA BackgroundInitially == StudyInit => BackgroundInv
<1> SUFFICES ASSUME StudyInit
             PROVE  BackgroundInv
    OBVIOUS
<1>1. RecorderInv
  <2> USE RecorderAssumption DEF StudyInit, Init
  <2>1. TypeOK
    <3>1. /\ queue \in Seq(Records) /\ rows \in Seq(Records)
          /\ accepted \in Seq(Records) /\ Len(queue) <= MAX_QUEUED
      OBVIOUS
    <3>2. references \in 0 .. 2 /\ offered \in 0 .. MaxRecords
      OBVIOUS
    <3> HIDE DEF Records
    <3> QED
      BY <3>1, <3>2 DEF TypeOK, Failures, WorkerStates, MainStates
  <2>2. ReferencesCounted /\ FileOwned
    BY DEF ReferencesCounted, FileOwned, MainHolds, WriterHolds
  <2>3. Held = <<>> /\ <<>> \in Seq(Records)
    BY DEF Held
  <2>4. IsPrefix(rows, accepted)
    <3>1. <<>> \o <<>> = <<>>
      BY ConcatEmptySeq, <2>3
    <3> QED
      BY <2>3, <3>1, PrefixOfConcat
  <2>5. accepted = rows \o Held \o queue
    BY <2>3, ConcatEmptySeq
  <2>6. RecordsTracked
    BY <2>4, <2>5 DEF RecordsTracked, WriterLeaving
  <2> QED
    BY <2>1, <2>2, <2>6 DEF RecorderInv
<1>2. RuntimeInv
  <2>1. retry_after \in 0 .. RetryDelay
    BY BackgroundAssumption
    DEF StudyInit, Runtime!Init, Runtime!RuntimeAssumption
  <2>2. Runtime!TypeOK
    BY <2>1 DEF StudyInit, Runtime!Init, Runtime!TypeOK, Runtime!Snapshots
  <2>3. ObjectsOwned /\ StoppedIsGone
    BY DEF StudyInit, Runtime!Init, ObjectsOwned, StoppedIsGone
  <2> QED
    BY <2>2, <2>3 DEF RuntimeInv
<1>3. PagesInv
  <2>1. /\ OutActions = {} /\ Cardinality({}) = 0
        /\ Cardinality(Actions) \in Nat
        /\ Pages!Cardinality(Actions) = Cardinality(Actions)
        /\ MaxVersion \in Nat \ {0}
    BY BackgroundAssumption, SameCardinality, FS_EmptySet, FS_CardinalityType
    DEF StudyInit, Pages!Init, OutActions, Pages!InventoryAssumption
  <2>2. Pages!TypeOK
    <3>1. /\ version \in Pages!Versions /\ shown \in Pages!Versions
          /\ asked \in Pages!Versions /\ 0 \in Pages!Versions
          /\ action_pending \in 0 .. Pages!Cardinality(Actions)
      BY <2>1 DEF StudyInit, Pages!Init, Pages!Versions
    <3>2. /\ task \in [Pages!Tasks -> Pages!TaskStates]
          /\ collected \in [Pages!Tasks -> Pages!Versions]
          /\ preserve \in [Pages!Tasks -> Rows \cup {Pages!None}]
          /\ action \in [Actions -> Pages!ActionStates]
      BY <3>1
      DEF StudyInit, Pages!Init, Pages!TaskStates, Pages!ActionStates
    <3> QED
      BY <3>1, <3>2 DEF StudyInit, Pages!Init, Pages!TypeOK
  <2>3. TasksApart /\ ActionsCounted /\ ResultsNewer
    BY <2>1
    DEF StudyInit, Pages!Init, TasksApart, ActionsCounted, ResultsNewer
  <2> QED
    BY <2>2, <2>3 DEF PagesInv
<1> QED
    BY <1>1, <1>2, <1>3 DEF BackgroundInv

(* A step belongs to one study and leaves the others alone.                 *)
LEMMA BackgroundStep ==
    ASSUME BackgroundInv, [StudyNext]_allVars
    PROVE  /\ BackgroundInv'
           /\ [Next]_vars
           /\ [Runtime!Next]_(Runtime!vars)
           /\ [Pages!Next]_(Pages!vars)
<1>1. [Next]_vars
    BY DEF StudyNext, Recorder, Win32, Page, allVars
<1>2. [Runtime!Next]_(Runtime!vars)
    BY DEF StudyNext, Recorder, Win32, Page, allVars, windowsVars,
           Runtime!vars, Runtime!syncVars, Runtime!shellVars
<1>3. [Pages!Next]_(Pages!vars)
    BY DEF StudyNext, Recorder, Win32, Page, allVars, pageVars, Pages!vars,
           Pages!workVars, Pages!pendingVars, Pages!taskVars,
           Pages!listVars, Pages!appVars
<1> QED
    BY <1>1, <1>2, <1>3, RecorderStep, RuntimeStep, PagesStep
    DEF BackgroundInv

-----------------------------------------------------------------------------
(* The inductive invariants of the three studies.                           *)
THEOREM BackgroundInvariant == StudySpec => []BackgroundInv
<1>1. BackgroundInv /\ [StudyNext]_allVars => BackgroundInv'
    BY BackgroundStep
<1> QED
    BY <1>1, BackgroundInitially, PTL DEF StudySpec

(* However the writer, the queue and the file fail, the CSV file is a       *)
(* prefix of the accepted records, an accepted record is lost only to a     *)
(* remembered failure, and a join in time leaves the file complete          *)
(* (process_recorder.c).                                                    *)
THEOREM RecordingComplete == StudySpec => []RowsAccountedFor
<1>1. BackgroundInv => RowsAccountedFor
  <2> SUFFICES ASSUME RecorderInv
               PROVE  RowsAccountedFor
      BY DEF BackgroundInv
  <2>1. RowsInOrder
    BY DEF RecorderInv, RecordsTracked, RowsInOrder
  <2>2. NothingLostSilently
    <3>1. CASE ~WriterLeaving
      BY <3>1 DEF RecorderInv, RecordsTracked, NothingLostSilently, Held
    <3>2. CASE WriterLeaving /\ failure = "none"
      <4>1. /\ node = 0 /\ queue = <<>> /\ rows = accepted
            /\ rows \in Seq(Records)
        BY <3>2 DEF RecorderInv, RecordsTracked, WriterLeaving, TypeOK
      <4>2. rows \o <<>> \o <<>> = rows
        BY <4>1, ConcatEmptySeq
      <4> QED
        BY <4>1, <4>2 DEF NothingLostSilently
    <3>3. CASE WriterLeaving /\ failure # "none"
      BY <3>3
      DEF RecorderInv, TypeOK, Failures, WriterLeaving, NothingLostSilently
    <3> QED
      BY <3>1, <3>2, <3>3
  <2>3. DrainedBeforeReturn
    BY DEF RecorderInv, RecordsTracked, FileOwned, WriterLeaving,
           DrainedBeforeReturn
  <2> QED
    BY <2>1, <2>2, <2>3 DEF RowsAccountedFor
<1> QED
    BY <1>1, BackgroundInvariant, PTL

(* A stop that runs out of time frees nothing a detached or abandoned       *)
(* worker may still use, leaks nothing else, and leaves no snapshot for a   *)
(* successor to deliver                                                     *)
(* (lsm_process_recorder_stop, lsm_windows_process_runtime_stop).           *)
THEOREM StopsAreSafe == StudySpec => []StoppedWorkerSafe
<1>1. BackgroundInv => StoppedWorkerSafe
  <2> SUFFICES ASSUME BackgroundInv
               PROVE  StoppedWorkerSafe
      OBVIOUS
  <2>1. NoUseAfterFree
    BY DEF BackgroundInv, RecorderInv, ReferencesCounted, FileOwned, TypeOK,
           WorkerStates, WriterHolds, NoUseAfterFree
  <2>2. Runtime!NoUseAfterRelease /\ Runtime!CompletedIsCurrent
    BY DEF BackgroundInv, RuntimeInv, ObjectsOwned, StoppedIsGone,
           Runtime!TypeOK, Runtime!Snapshots, Runtime!NoUseAfterRelease,
           Runtime!CompletedIsCurrent
  <2>3. Runtime!NothingLeaked
    BY DEF BackgroundInv, RuntimeInv, ObjectsOwned, StoppedIsGone,
           Runtime!TypeOK, Runtime!NothingLeaked
  <2> QED
    BY <2>1, <2>2, <2>3
    DEF StoppedWorkerSafe, BackgroundInv, RecorderInv, RuntimeInv
<1> QED
    BY <1>1, BackgroundInvariant, PTL

(* The pending flags and the action counter of the inventory pages say      *)
(* exactly which tasks are out (services.c, users.c, startup.c,             *)
(* filesystems.c).                                                          *)
THEOREM TasksAreHonest == StudySpec => []TasksHonest
<1>1. BackgroundInv => TasksHonest
  <2> SUFFICES ASSUME PagesInv
               PROVE  TasksHonest
      BY DEF BackgroundInv
  <2> DEFINE out == {t \in Pages!Tasks : task[t] # "none"}
  <2>1. Cardinality(out) <= 1
    <3>1. CASE out = {}
      BY <3>1, FS_EmptySet
    <3>2. CASE out # {}
      <4>1. PICK t \in Pages!Tasks : task[t] # "none"
        BY <3>2
      <4>2. out = {t}
        BY <4>1 DEF PagesInv, TasksApart
      <4>3. Cardinality({t}) = 1
        BY FS_Singleton
      <4> QED
        BY <4>2, <4>3
    <3> QED
      BY <3>1, <3>2
  <2>2. open => (refresh_pending <=> out # {})
    BY DEF PagesInv, TasksApart
  <2>3. open => action_pending =
                    Cardinality({a \in Actions :
                                   action[a] \in {"run", "success", "failure"}})
    BY DEF PagesInv, ActionsCounted, OutActions
  <2>4. Pages!PendingHonest
    BY <2>1, <2>2, <2>3, SameCardinality DEF Pages!PendingHonest
  <2> QED
    BY <2>4 DEF TasksHonest, PagesInv
<1> QED
    BY <1>1, BackgroundInvariant, PTL

(* Results reach a page in the order they were collected and never after    *)
(* it is closed, and an abandoned Win32 worker is never restarted.          *)
THEOREM LateWorkIsHarmless == StudySpec => LateWorkHarmless
<1> DEFINE Ordered == /\ available' => shown' >= shown
                      /\ ~open => UNCHANGED Pages!listVars
           ForGood == process_worker_abandoned =>
                          /\ process_worker_abandoned'
                          /\ \/ windows_worker' = windows_worker
                             \/ windows_worker' # "create"
<1>1. BackgroundInv /\ [StudyNext]_allVars => [Ordered]_(Pages!vars)
  <2> SUFFICES ASSUME PagesInv, Pages!Next
               PROVE  [Ordered]_(Pages!vars)
      BY BackgroundStep DEF BackgroundInv
  <2> USE DEF Pages!listVars
  <2>1. ASSUME NEW t \in Pages!Tasks, Pages!RefreshCompletes(t)
        PROVE  Ordered
    <3>1. open /\ (task[t] = "success" => shown <= collected[t])
      BY <2>1 DEF Pages!RefreshCompletes, PagesInv, ResultsNewer
    <3>2. collected[t] \in Nat /\ shown \in Nat
      BY DEF PagesInv, Pages!TypeOK, Pages!Versions
    <3>3. \/ task[t] = "success" /\ shown' = collected[t]
          \/ shown' = shown
          \/ available' = FALSE
      BY <2>1 DEF Pages!RefreshCompletes, Pages!Apply
    <3> QED
      BY <3>1, <3>2, <3>3
  <2>2. ASSUME UNCHANGED <<shown, available>>, open \/ UNCHANGED selection
        PROVE  Ordered
    <3>1. shown \in Nat
      BY DEF PagesInv, Pages!TypeOK, Pages!Versions
    <3> QED
      BY <2>2, <3>1
  <2>3. \/ \E t \in Pages!Tasks : Pages!RefreshCompletes(t)
        \/ UNCHANGED <<shown, available>> /\ (open \/ UNCHANGED selection)
        \/ UNCHANGED Pages!vars
    BY DEF Pages!Next, Pages!TaskStep, Pages!WorkerCollects, Pages!Over,
           Pages!UserRefreshes, Pages!LeavePage, Pages!TogglePause,
           Pages!PeriodicUpdate, Pages!SelectRow, Pages!StartAction,
           Pages!ActionCompletes, Pages!LateResult, Pages!PageGone,
           Pages!LateAction, Pages!Destroy, Pages!CollectSucceeds,
           Pages!CollectFails, Pages!ActionSucceeds, Pages!ActionFails,
           Pages!WorldChanges
  <2> QED
    BY <2>1, <2>2, <2>3
<1>2. BackgroundInv /\ [StudyNext]_allVars => [ForGood]_(Runtime!vars)
  <2> SUFFICES ASSUME Runtime!Next
               PROVE  [ForGood]_(Runtime!vars)
      BY BackgroundStep
  <2>1. CASE Runtime!StartWorker
    BY <2>1 DEF Runtime!StartWorker, Runtime!MayStart
  <2>2. CASE Runtime!StartFails
    BY <2>2 DEF Runtime!StartFails, Runtime!MayStart
  <2>3. CASE Runtime!Worker
    BY <2>3
    DEF Runtime!Worker, Runtime!CreateBackend, Runtime!PublishBackend,
        Runtime!WaitForEvent, Runtime!Dispatch, Runtime!FinishScan,
        Runtime!Deliver, Runtime!LeaveWorker
  <2>4. CASE Runtime!Shell
    BY <2>4
    DEF Runtime!Shell, Runtime!SignalStart, Runtime!SignalRequest,
        Runtime!TakeSnapshot, Runtime!RequestStop, Runtime!SignalStop,
        Runtime!JoinWorker, Runtime!AbandonWorker
  <2>5. CASE \/ Runtime!RequestScan \/ Runtime!CallStop
             \/ Runtime!LeaveProgram \/ Runtime!Tick \/ Runtime!Exited
    BY <2>5
    DEF Runtime!RequestScan, Runtime!CallStop, Runtime!LeaveProgram,
        Runtime!Tick, Runtime!Exited
  <2> QED
    BY <2>1, <2>2, <2>3, <2>4, <2>5 DEF Runtime!Next
<1> QED
    BY <1>1, <1>2, BackgroundInvariant, PTL
    DEF StudySpec, LateWorkHarmless, Pages!ResultsInOrder,
        Runtime!AbandonedForGood
=============================================================================
