---------------------------- MODULE ProcessRecorder ----------------------------
(***************************************************************************)
(* Recording one process to a CSV file: the main thread's start, append    *)
(* and stop handlers (src/process_actions.c) and the writer thread with    *)
(* its bounded queue (src/process_recorder.c).                             *)
(*                                                                         *)
(* A record is its ordinal number.  Failures are the errno classes the     *)
(* code tells apart: ENOBUFS (queue full), EIO (writing or closing the     *)
(* file) and ENOMEM (no memory for a record, never stored).  Granularity:  *)
(* one action per critical section of recorder->mutex and one per file     *)
(* operation done without it.                                              *)
(***************************************************************************)
EXTENDS Naturals, Sequences, SequencesExt

CONSTANTS
    MAX_QUEUED,     \* LSM_PROCESS_RECORDER_MAX_QUEUED, 4096.
    MaxRecords      \* Bound: samples the process table offers.

ASSUME RecorderAssumption == MAX_QUEUED \in Nat \ {0} /\ MaxRecords \in Nat

VARIABLES
    queue, stop_requested, failure,     \* Guarded by recorder->mutex.
    references, freed,
    rows, fileState,                    \* The CSV file and recorder->file.
    worker, node,                       \* The writer and the record it holds.
    main, reported,                     \* The main thread and its error box.
    offered, accepted, drained          \* History variables.

queueVars  == <<queue, stop_requested, failure>>
lifeVars   == <<references, freed>>
diskVars   == <<rows, fileState>>
workerVars == <<worker, node>>
ghostVars  == <<offered, accepted, drained>>

vars == <<queueVars, lifeVars, diskVars, workerVars, main, reported, ghostVars>>

Failures == {"none", "ENOBUFS", "EIO"}
WorkerStates == {"none", "lock", "wait", "write", "close", "unref", "done"}
MainStates == {"idle", "recording", "joining", "unref", "stopped"}
Records == 1 .. MaxRecords

TypeOK ==
    /\ queue \in Seq(Records)
    /\ Len(queue) <= MAX_QUEUED
    /\ stop_requested \in BOOLEAN
    /\ failure \in Failures
    /\ references \in 0 .. 2
    /\ freed \in BOOLEAN
    /\ rows \in Seq(Records)
    /\ fileState \in {"absent", "open", "closed"}
    /\ worker \in WorkerStates
    /\ node \in Records \cup {0}
    /\ main \in MainStates
    /\ reported \in Failures \cup {"ENOMEM"}
    /\ offered \in 0 .. MaxRecords
    /\ accepted \in Seq(Records)
    /\ drained \in BOOLEAN

Init ==
    /\ queue = <<>>
    /\ stop_requested = FALSE
    /\ failure = "none"
    /\ references = 0
    /\ freed = FALSE
    /\ rows = <<>>
    /\ fileState = "absent"
    /\ worker = "none"
    /\ node = 0
    /\ main = "idle"
    /\ reported = "none"
    /\ offered = 0
    /\ accepted = <<>>
    /\ drained = FALSE

-----------------------------------------------------------------------------
Signal == worker' = IF worker = "wait" THEN "lock" ELSE worker

(* The last reference also closes a file the writer never got to close.     *)
recorder_release ==
    /\ references' = references - 1
    /\ freed' = (references = 1)

InitialReferences == 2

(* lsm_process_record_set(TRUE): the file is created exclusively, its       *)
(* header written, the writer started.                                      *)
RecordingStarts ==
    /\ main = "idle"
    /\ main' = "recording"
    /\ references' = InitialReferences
    /\ fileState' = "open"
    /\ worker' = "lock"
    /\ UNCHANGED <<queueVars, freed, rows, node, reported, ghostVars>>

(* No log directory, no free name, no header or no thread: what had been    *)
(* acquired is released and the error shown.                                *)
RecordingRefused ==
    /\ main = "idle"
    /\ main' = "stopped"
    /\ freed' = TRUE
    /\ fileState' \in {"absent", "closed"}
    /\ reported' = "EIO"
    /\ UNCHANGED <<queueVars, references, rows, workerVars, ghostVars>>

QueueFull == Len(queue) >= MAX_QUEUED

AppendAccepted ==
    /\ main = "recording"
    /\ offered < MaxRecords
    /\ offered' = offered + 1
    /\ ~stop_requested
    /\ failure = "none"
    /\ ~QueueFull
    /\ queue' = Append(queue, offered')
    /\ accepted' = Append(accepted, offered')
    /\ Signal
    /\ UNCHANGED <<stop_requested, failure, lifeVars, diskVars, node, main,
                   reported, drained>>

(* lsm_process_recorder_stop, up to the join.                               *)
StopRequested ==
    /\ stop_requested' = TRUE
    /\ Signal
    /\ main' = "joining"

(* lsm_process_record_append meets a recorder that has failed, overflows    *)
(* its queue or gets no memory: the recording is stopped and the error      *)
(* shown.                                                                   *)
AppendFails ==
    /\ main = "recording"
    /\ offered < MaxRecords
    /\ offered' = offered + 1
    /\ \/ /\ failure # "none" \/ stop_requested
          /\ reported' = failure
          /\ UNCHANGED failure
       \/ /\ failure = "none" /\ ~stop_requested
          /\ QueueFull
          /\ failure' = "ENOBUFS"
          /\ reported' = "ENOBUFS"
       \/ /\ failure = "none"
          /\ reported' = "ENOMEM"
          /\ UNCHANGED failure
    /\ StopRequested
    /\ UNCHANGED <<queue, lifeVars, diskVars, node, accepted, drained>>

(* The user, the end of the process or the shutdown stops the recording.    *)
lsm_process_record_stop ==
    /\ main = "recording"
    /\ StopRequested
    /\ UNCHANGED <<queue, failure, lifeVars, diskVars, node, reported,
                   ghostVars>>

(* pthread_timedjoin_np within the shutdown wait ...                        *)
JoinSucceeds ==
    /\ main = "joining"
    /\ worker = "done"
    /\ main' = "unref"
    /\ drained' = TRUE
    /\ UNCHANGED <<queueVars, lifeVars, diskVars, workerVars, reported,
                   offered, accepted>>

(* ... or, when it times out, pthread_detach.                               *)
JoinTimesOut ==
    /\ main = "joining"
    /\ main' = "unref"
    /\ UNCHANGED <<queueVars, lifeVars, diskVars, workerVars, reported,
                   ghostVars>>

ReleaseRecorder ==
    /\ main = "unref"
    /\ main' = "stopped"
    /\ recorder_release
    /\ UNCHANGED <<queueVars, diskVars, workerVars, reported, ghostVars>>

-----------------------------------------------------------------------------
(* recorder_thread_main.                                                    *)

WriterWaits ==
    /\ worker = "lock"
    /\ queue = <<>>
    /\ ~stop_requested
    /\ worker' = "wait"
    /\ UNCHANGED <<queueVars, lifeVars, diskVars, node, main, reported,
                   ghostVars>>

SpuriousWakeup ==
    /\ worker = "wait"
    /\ worker' = "lock"
    /\ UNCHANGED <<queueVars, lifeVars, diskVars, node, main, reported,
                   ghostVars>>

WriterMayStop == stop_requested /\ queue = <<>>

WriterSeesStop ==
    /\ worker = "lock"
    /\ WriterMayStop
    /\ worker' = "close"
    /\ UNCHANGED <<queueVars, lifeVars, diskVars, node, main, reported,
                   ghostVars>>

TakeRecord ==
    /\ node' = Head(queue)
    /\ queue' = Tail(queue)

RecordTaken ==
    /\ worker = "lock"
    /\ queue # <<>>
    /\ worker' = "write"
    /\ TakeRecord
    /\ UNCHANGED <<stop_requested, failure, lifeVars, diskVars, main, reported,
                   ghostVars>>

write_record ==
    /\ worker = "write"
    /\ worker' = "lock"
    /\ rows' = Append(rows, node)
    /\ node' = 0
    /\ UNCHANGED <<queueVars, lifeVars, fileState, main, reported, ghostVars>>

(* The first failure is the one that is kept.                               *)
NoteFailure(error) == failure' = IF failure = "none" THEN error ELSE failure

(* Mutant: the result of the write is not looked at.                        *)
Mut_WriteFails ==
    /\ worker = "write"
    /\ worker' = "lock"
    /\ node' = 0
    /\ UNCHANGED <<queueVars, lifeVars, diskVars, main, reported, ghostVars>>

(* A row that cannot be written ends the recording and empties the queue.   *)
WriteFails ==
    /\ worker = "write"
    /\ worker' = "close"
    /\ node' = 0
    /\ NoteFailure("EIO")
    /\ stop_requested' = TRUE
    /\ queue' = <<>>
    /\ UNCHANGED <<lifeVars, diskVars, main, reported, ghostVars>>

FileClosed ==
    /\ worker = "close"
    /\ worker' = "unref"
    /\ fileState' = "closed"
    /\ UNCHANGED failure \/ NoteFailure("EIO")
    /\ UNCHANGED <<queue, stop_requested, lifeVars, rows, node, main, reported,
                   ghostVars>>

WriterExits ==
    /\ worker = "unref"
    /\ worker' = "done"
    /\ recorder_release
    /\ UNCHANGED <<queueVars, diskVars, node, main, reported, ghostVars>>

-----------------------------------------------------------------------------
WriterStep ==
    \/ WriterWaits \/ WriterSeesStop \/ RecordTaken \/ write_record
    \/ WriteFails \/ FileClosed \/ WriterExits

MainStep ==
    \/ RecordingStarts \/ RecordingRefused
    \/ AppendAccepted \/ AppendFails \/ lsm_process_record_stop
    \/ JoinSucceeds \/ JoinTimesOut \/ ReleaseRecorder

(* The recording is over.                                                   *)
Over ==
    /\ main = "stopped"
    /\ freed
    /\ UNCHANGED vars

Next == WriterStep \/ SpuriousWakeup \/ MainStep \/ Over

Spec == Init /\ [][Next]_vars

(* Both threads are scheduled, file operations return, and the bounded join *)
(* returns one way or the other.                                            *)
FairSpec ==
    /\ Spec
    /\ WF_vars(WriterStep)
    /\ WF_vars(JoinSucceeds \/ JoinTimesOut)
    /\ WF_vars(ReleaseRecorder)

-----------------------------------------------------------------------------
(* Properties.                                                              *)

(* The file is a prefix of the records that were accepted, in their order:  *)
(* whatever fails or overflows, no row is skipped, repeated or reordered.   *)
RowsInOrder == IsPrefix(rows, accepted)

(* An accepted record is either written, about to be, or lost to a failure  *)
(* of the file that the recorder remembers.  The overflow that stops a      *)
(* recording loses none of the records accepted before it; only a write     *)
(* that fails while they are drained does, and ENOBUFS then stands for it.  *)
NothingLostSilently ==
    \/ failure = "EIO"
    \/ accepted = rows \o (IF node = 0 THEN <<>> ELSE <<node>>) \o queue
    \/ failure = "ENOBUFS" /\ worker \in {"close", "unref", "done"}

(* Once the bounded join has returned in time the file is closed, and holds *)
(* every accepted record unless writing it failed.                          *)
DrainedBeforeReturn ==
    drained => /\ fileState = "closed"
               /\ failure = "none" => rows = accepted

(* Neither the writer nor the main thread uses a freed recorder, and the    *)
(* memory is not given back while the file is still open.                   *)
NoUseAfterFree ==
    freed => /\ worker \in {"none", "done"}
             /\ main = "stopped"
             /\ fileState # "open"

(* Stopping always ends: the main thread is not held by blocked storage,    *)
(* and the detached writer drains, closes the file and frees the recorder.  *)
StopReclaims == (main = "joining") ~> (main = "stopped" /\ freed)

(* An accepted record is not left lying in the queue.                       *)
EventuallyWritten ==
    \A r \in Records :
        (r \in ToSet(queue)) ~> (r \in ToSet(rows) \/ failure # "none")

=============================================================================
