---------------------------- MODULE ProcessScanner ----------------------------
(***************************************************************************)
(* The coalescing background process scanner (src/process_scanner.c): one  *)
(* detached worker thread, the GTK main thread that owns the handle, and   *)
(* the idle source through which the worker announces a completed scan.    *)
(*                                                                         *)
(* Granularity.  Everything between a lock and the matching unlock of      *)
(* scanner->mutex is one action; what a thread does after the unlock (the  *)
(* scan itself, queueing the idle source, dropping a reference) is an      *)
(* action of its own, so that the other thread can run in between.         *)
(***************************************************************************)
EXTENDS Naturals

CONSTANTS
    Flags,           \* Sets of optional process fields a view can ask for.
    ExecutableFlag,  \* LSM_PROCESS_SCAN_EXECUTABLE, the first request.
    MaxRequests      \* Bound: accepted calls of lsm_process_scanner_request.

ASSUME ScannerAssumption ==
    /\ ExecutableFlag \in Flags
    /\ MaxRequests \in Nat

VARIABLES
    request_pending, requested_flags, active_flags, scan_in_progress,
    completed,               \* Scan that produced the unread list; 0 is NULL.
    ready_dispatch_pending,
    ready_callback,          \* A callback is registered.
    stop_requested,
    references,
    freed,                   \* scanner_release() has freed the structure.
    worker,                  \* Where the worker thread is.
    main,                    \* Where the main thread is.
    held,                    \* The application holds the scanner's handle.
    idle,                    \* Idle sources queued on the main context.
    \* History variables.
    scans,                   \* Scans started; names the snapshot of a scan.
    taken,                   \* Newest snapshot handed to the application.
    posted,                  \* Newest snapshot ever published.
    requests,                \* Accepted requests.
    wanted,                  \* Flags of the newest accepted request.
    settled,                 \* Flags of the scan that finished last.
    announced                \* A callback ran after the newest publication.

requestVars == <<request_pending, requested_flags, active_flags,
                 scan_in_progress, wanted, settled, requests, scans>>
resultVars  == <<completed, taken, posted>>
readyVars   == <<ready_dispatch_pending, ready_callback, idle, announced>>
lifeVars    == <<stop_requested, references, freed, held>>

vars == <<requestVars, resultVars, readyVars, lifeVars, worker, main>>

(* Program counters.  "lock": about to lock the mutex; "wait": inside       *)
(* pthread_cond_wait; "scan": scanning without the lock; "queue": about to  *)
(* call g_idle_add_full; "unref": about to drop the thread's own reference. *)
WorkerStates == {"none", "lock", "wait", "scan", "queue", "unref", "done"}

(* "create", "detach", "join", "unref_join": inside the constructor;        *)
(* "callback": the ready callback runs; "unref_dispatch": the idle source's *)
(* destroy notify is due; "unref_app": the destructor's last call is due.   *)
MainStates == {"create", "detach", "join", "unref_join", "idle", "queue",
               "callback", "unref_dispatch", "unref_app"}

TypeOK ==
    /\ request_pending \in BOOLEAN
    /\ requested_flags \in Flags
    /\ active_flags \in Flags
    /\ scan_in_progress \in BOOLEAN
    /\ completed \in Nat
    /\ ready_dispatch_pending \in BOOLEAN
    /\ ready_callback \in BOOLEAN
    /\ stop_requested \in BOOLEAN
    /\ references \in Nat
    /\ freed \in BOOLEAN
    /\ worker \in WorkerStates
    /\ main \in MainStates
    /\ held \in BOOLEAN
    /\ idle \in Nat
    /\ scans \in Nat
    /\ taken \in Nat
    /\ posted \in Nat
    /\ requests \in Nat
    /\ wanted \in Flags
    /\ settled \in Flags
    /\ announced \in BOOLEAN

(* Before lsm_process_scanner_create has started the worker.                *)
Init ==
    /\ request_pending = FALSE
    /\ requested_flags = ExecutableFlag
    /\ active_flags = ExecutableFlag
    /\ scan_in_progress = FALSE
    /\ completed = 0
    /\ ready_dispatch_pending = FALSE
    /\ ready_callback = FALSE
    /\ stop_requested = FALSE
    /\ references = 0
    /\ freed = FALSE
    /\ worker = "none"
    /\ main = "create"
    /\ held = FALSE
    /\ idle = 0
    /\ scans = 0
    /\ taken = 0
    /\ posted = 0
    /\ requests = 0
    /\ wanted = ExecutableFlag
    /\ settled = ExecutableFlag
    /\ announced = TRUE

-----------------------------------------------------------------------------
(* pthread_cond_signal: a waiting worker becomes runnable and re-evaluates  *)
(* its predicate; a signal nobody waits for is lost.                        *)
Signal == worker' = IF worker = "wait" THEN "lock" ELSE worker

scanner_release ==
    /\ references' = references - 1
    /\ freed' = (references = 1)

(* Mutant: the announcement travels without a reference of its own.         *)
Mut_scanner_retain == UNCHANGED <<references, freed>>

scanner_retain ==
    /\ references' = references + 1
    /\ freed' = freed

(* Mutant: the worker's own reference is not counted.                       *)
Mut_InitialReferences == 1

(* One reference for the application, one for the worker thread.            *)
InitialReferences == 2

-----------------------------------------------------------------------------
(* Construction, on the main thread.                                        *)

(* Every allocation and pthread_create succeeded: the worker can run.       *)
CreateThread ==
    /\ main = "create"
    /\ main' = "detach"
    /\ worker' = "lock"
    /\ references' = InitialReferences
    /\ request_pending' = TRUE
    /\ UNCHANGED <<requested_flags, active_flags, scan_in_progress, wanted,
                   settled, requests, scans, stop_requested, freed, held>>
    /\ UNCHANGED <<resultVars, readyVars>>

(* Any failure up to and including pthread_create frees the structure on    *)
(* the spot and returns NULL.                                               *)
CreateFails ==
    /\ main = "create"
    /\ main' = "idle"
    /\ freed' = TRUE
    /\ UNCHANGED <<stop_requested, references, held>>
    /\ UNCHANGED <<requestVars, resultVars, readyVars, worker>>

DetachSucceeds ==
    /\ main = "detach"
    /\ main' = "idle"
    /\ held' = TRUE
    /\ UNCHANGED <<stop_requested, references, freed>>
    /\ UNCHANGED <<requestVars, resultVars, readyVars, worker>>

DetachFails ==
    /\ main = "detach"
    /\ main' = "join"
    /\ stop_requested' = TRUE
    /\ Signal
    /\ UNCHANGED <<references, freed, held>>
    /\ UNCHANGED <<requestVars, resultVars, readyVars>>

JoinWorker ==
    /\ main = "join"
    /\ worker = "done"
    /\ main' = "unref_join"
    /\ UNCHANGED <<requestVars, resultVars, readyVars, lifeVars, worker>>

(* The joined path stores one reference over whatever is left and drops it. *)
ReleaseJoined ==
    /\ main = "unref_join"
    /\ main' = "idle"
    /\ references' = 0
    /\ freed' = TRUE
    /\ UNCHANGED <<stop_requested, held>>
    /\ UNCHANGED <<requestVars, resultVars, readyVars, worker>>

-----------------------------------------------------------------------------
(* The worker thread.                                                       *)

WorkerWaits ==
    /\ worker = "lock"
    /\ ~request_pending
    /\ ~stop_requested
    /\ worker' = "wait"
    /\ UNCHANGED <<requestVars, resultVars, readyVars, lifeVars, main>>

(* POSIX allows pthread_cond_wait to return without a signal.               *)
SpuriousWakeup ==
    /\ worker = "wait"
    /\ worker' = "lock"
    /\ UNCHANGED <<requestVars, resultVars, readyVars, lifeVars, main>>

WorkerSeesStop ==
    /\ worker = "lock"
    /\ stop_requested
    /\ worker' = "unref"
    /\ UNCHANGED <<requestVars, resultVars, readyVars, lifeVars, main>>

ScanBegins ==
    /\ worker = "lock"
    /\ ~stop_requested
    /\ request_pending
    /\ worker' = "scan"
    /\ active_flags' = requested_flags
    /\ request_pending' = FALSE
    /\ scan_in_progress' = TRUE
    /\ scans' = scans + 1
    /\ UNCHANGED <<requested_flags, wanted, settled, requests>>
    /\ UNCHANGED <<resultVars, readyVars, lifeVars, main>>

(* Mutant: the stop flag is not re-read after the scan.                     *)
Mut_MayPublish == TRUE

(* The stop flag is read again under the lock once the scan has returned.   *)
MayPublish == ~stop_requested

(* A scan that ends after the stop request is discarded.                    *)
ScanDiscarded ==
    /\ worker = "scan"
    /\ stop_requested
    /\ worker' = "unref"
    /\ scan_in_progress' = FALSE
    /\ settled' = active_flags
    /\ UNCHANGED <<request_pending, requested_flags, active_flags, wanted,
                   requests, scans>>
    /\ UNCHANGED <<resultVars, readyVars, lifeVars, main>>

(* Success replaces the unread list and, unless an announcement is already  *)
(* on its way, retains the scanner for a new one.                           *)
ScanSucceeds ==
    /\ worker = "scan"
    /\ MayPublish
    /\ scan_in_progress' = FALSE
    /\ settled' = active_flags
    /\ completed' = scans
    /\ posted' = scans
    /\ announced' = FALSE
    /\ IF ready_callback /\ ~ready_dispatch_pending
       THEN /\ ready_dispatch_pending' = TRUE
            /\ scanner_retain
            /\ worker' = "queue"
       ELSE /\ worker' = "lock"
            /\ UNCHANGED <<ready_dispatch_pending, references, freed>>
    /\ UNCHANGED <<request_pending, requested_flags, active_flags, wanted,
                   requests, scans, taken, ready_callback, idle,
                   stop_requested, held, main>>

(* A backend failure keeps the last completed list.                         *)
ScanFails ==
    /\ worker = "scan"
    /\ MayPublish
    /\ worker' = "lock"
    /\ scan_in_progress' = FALSE
    /\ settled' = active_flags
    /\ UNCHANGED <<request_pending, requested_flags, active_flags, wanted,
                   requests, scans>>
    /\ UNCHANGED <<resultVars, readyVars, lifeVars, main>>

WorkerQueuesDispatch ==
    /\ worker = "queue"
    /\ worker' = "lock"
    /\ idle' = idle + 1
    /\ UNCHANGED <<ready_dispatch_pending, ready_callback, announced>>
    /\ UNCHANGED <<requestVars, resultVars, lifeVars, main>>

WorkerExits ==
    /\ worker = "unref"
    /\ worker' = "done"
    /\ scanner_release
    /\ UNCHANGED <<stop_requested, held>>
    /\ UNCHANGED <<requestVars, resultVars, readyVars, main>>

-----------------------------------------------------------------------------
(* The public functions, on the main thread.  A ready callback may itself   *)
(* take a result or post a request.                                         *)

MayCall == held /\ main \in {"idle", "callback"}

(* Mutant: a list published before the registration is not announced.       *)
Mut_AnnounceEarlierResult(callback) == FALSE

AnnounceEarlierResult(callback) ==
    callback /\ completed # 0 /\ ~ready_dispatch_pending

lsm_process_scanner_set_ready_callback(callback) ==
    /\ held
    /\ main = "idle"
    /\ ~stop_requested
    /\ ready_callback' = callback
    /\ IF AnnounceEarlierResult(callback)
       THEN /\ ready_dispatch_pending' = TRUE
            /\ scanner_retain
            /\ main' = "queue"
       ELSE UNCHANGED <<ready_dispatch_pending, references, freed, main>>
    /\ UNCHANGED <<idle, announced, stop_requested, held, worker>>
    /\ UNCHANGED <<requestVars, resultVars>>

MainQueuesDispatch ==
    /\ main = "queue"
    /\ main' = "idle"
    /\ idle' = idle + 1
    /\ UNCHANGED <<ready_dispatch_pending, ready_callback, announced>>
    /\ UNCHANGED <<requestVars, resultVars, lifeVars, worker>>

(* Mutant: an obsolete follow-up stays queued.                              *)
Mut_CancelFollowUp == UNCHANGED request_pending

CancelFollowUp == request_pending' = FALSE

(* Mutant: the idle worker is not signalled.                                *)
Mut_WakeForRequest == UNCHANGED worker

WakeForRequest == IF request_pending THEN UNCHANGED worker ELSE Signal

(* A request made during a scan that already collects these fields cancels  *)
(* the queued follow-up; any other request becomes the one that is queued.  *)
lsm_process_scanner_request(flags) ==
    /\ MayCall
    /\ ~stop_requested
    /\ requests < MaxRequests
    /\ requests' = requests + 1
    /\ wanted' = flags
    /\ IF scan_in_progress
       THEN /\ IF flags = active_flags
               THEN /\ CancelFollowUp
                    /\ UNCHANGED requested_flags
               ELSE /\ requested_flags' = flags
                    /\ request_pending' = TRUE
            /\ UNCHANGED worker
       ELSE /\ requested_flags' = flags
            /\ request_pending' = TRUE
            /\ WakeForRequest
    /\ UNCHANGED <<active_flags, scan_in_progress, settled, scans, main>>
    /\ UNCHANGED <<resultVars, readyVars, lifeVars>>

lsm_process_scanner_take ==
    /\ MayCall
    /\ completed # 0
    /\ taken' = completed
    /\ completed' = 0
    /\ UNCHANGED <<posted, worker, main>>
    /\ UNCHANGED <<requestVars, readyVars, lifeVars>>

WakeForStop == Signal

lsm_process_scanner_destroy ==
    /\ held
    /\ main = "idle"
    /\ main' = "unref_app"
    /\ held' = FALSE
    /\ stop_requested' = TRUE
    /\ ready_callback' = FALSE
    /\ request_pending' = FALSE
    /\ WakeForStop
    /\ UNCHANGED <<requested_flags, active_flags, scan_in_progress, wanted,
                   settled, requests, scans, references, freed,
                   ready_dispatch_pending, idle, announced>>
    /\ UNCHANGED resultVars

ReleaseApp ==
    /\ main = "unref_app"
    /\ main' = "idle"
    /\ scanner_release
    /\ UNCHANGED <<stop_requested, held>>
    /\ UNCHANGED <<requestVars, resultVars, readyVars, worker>>

-----------------------------------------------------------------------------
(* The idle source, run by the main loop.                                   *)

ClearDispatchMark == ready_dispatch_pending' = FALSE

scanner_ready_dispatch ==
    /\ main = "idle"
    /\ idle > 0
    /\ idle' = idle - 1
    /\ ClearDispatchMark
    /\ IF ~stop_requested /\ ready_callback
       THEN /\ main' = "callback"
            /\ announced' = TRUE
       ELSE /\ main' = "unref_dispatch"
            /\ UNCHANGED announced
    /\ UNCHANGED <<ready_callback, worker>>
    /\ UNCHANGED <<requestVars, resultVars, lifeVars>>

CallbackReturns ==
    /\ main = "callback"
    /\ main' = "unref_dispatch"
    /\ UNCHANGED <<requestVars, resultVars, readyVars, lifeVars, worker>>

scanner_ready_dispatch_destroy ==
    /\ main = "unref_dispatch"
    /\ main' = "idle"
    /\ scanner_release
    /\ UNCHANGED <<stop_requested, held>>
    /\ UNCHANGED <<requestVars, resultVars, readyVars, worker>>

-----------------------------------------------------------------------------
WorkerStep ==
    \/ WorkerWaits \/ WorkerSeesStop \/ ScanBegins \/ ScanDiscarded
    \/ ScanSucceeds \/ ScanFails \/ WorkerQueuesDispatch \/ WorkerExits

CreateStep ==
    \/ CreateThread \/ CreateFails \/ DetachSucceeds \/ DetachFails
    \/ JoinWorker \/ ReleaseJoined

(* What the main loop runs on its own once it has been started.             *)
MainLoopStep ==
    \/ MainQueuesDispatch \/ ReleaseApp \/ scanner_ready_dispatch
    \/ CallbackReturns \/ scanner_ready_dispatch_destroy

ClientStep ==
    \/ \E flags \in Flags : lsm_process_scanner_request(flags)
    \/ \E callback \in BOOLEAN : lsm_process_scanner_set_ready_callback(callback)
    \/ lsm_process_scanner_take
    \/ lsm_process_scanner_destroy

(* The scanner has been torn down and nothing is left to run; without this  *)
(* disjunct TLC would report the normal end of a session as a deadlock.      *)
Stopped ==
    /\ freed
    /\ UNCHANGED vars

Next ==
    \/ CreateStep \/ WorkerStep \/ SpuriousWakeup \/ MainLoopStep
    \/ ClientStep \/ Stopped

Spec == Init /\ [][Next]_vars

(* Liveness assumes that the operating system schedules both threads, that   *)
(* the main loop keeps running and that a scan returns; whether it succeeds  *)
(* and what the client calls next is left open.                             *)
FairSpec ==
    /\ Spec
    /\ WF_vars(CreateStep)
    /\ WF_vars(WorkerStep)
    /\ WF_vars(MainLoopStep)

-----------------------------------------------------------------------------
(* Properties.                                                              *)

(* Reference counting (scanner_retain, scanner_release): the structure is    *)
(* freed only when the worker has ended, the application has given up its   *)
(* handle and no announcement is queued or running, so no thread ever       *)
(* touches freed memory.                                                    *)
NoUseAfterFree ==
    freed => /\ worker \in {"none", "done"}
             /\ ~held
             /\ main = "idle"
             /\ idle = 0

(* No lost wake-up: the worker sleeps in pthread_cond_wait only while there *)
(* is neither a request nor a stop for it, although request() signals only  *)
(* on the idle path and the constructor never signals the first request.    *)
NoLostWakeup ==
    worker = "wait" => ~request_pending /\ ~stop_requested

(* Coalescing keeps the newest request: it is the queued one, or the scan   *)
(* in flight collects its fields and nothing obsolete is queued behind it,  *)
(* or nothing is outstanding and the last scan to finish collected them.    *)
NewestRequestKept ==
    (held /\ ~stop_requested) =>
        \/ request_pending /\ requested_flags = wanted
        \/ ~request_pending /\ scan_in_progress /\ active_flags = wanted
        \/ ~request_pending /\ ~scan_in_progress /\ settled = wanted

(* A published list the registered callback has not been told about has an  *)
(* announcement under way, whichever of publication and registration came   *)
(* first (scanner_thread_main, lsm_process_scanner_set_ready_callback).     *)
ReadyNotMissed ==
    (completed # 0 /\ ready_callback /\ ~announced) =>
        /\ ready_dispatch_pending
        /\ idle + (IF worker = "queue" THEN 1 ELSE 0)
                + (IF main = "queue" THEN 1 ELSE 0) = 1

(* The scanner is a one-slot mailbox: lists reach the application in scan   *)
(* order and at most once, and nothing is published after the stop request. *)
Mailbox == INSTANCE LatestMailbox WITH
    slot <- IF freed THEN 0 ELSE completed,
    posted <- posted,
    delivered <- taken,
    closed <- stop_requested

(* Requesting, publishing, taking and stopping (process_scanner.c) are steps *)
(* of that mailbox or leave it alone.                                        *)
ImplementsMailbox == Mailbox!MailboxSpec

(* The newest request is eventually executed with its own flags, unless a   *)
(* newer one replaces it or the scanner is stopped.                         *)
RequestSettles ==
    \A flags \in Flags :
        (held /\ wanted = flags) ~>
            \/ ~request_pending /\ ~scan_in_progress /\ settled = flags
            \/ wanted # flags
            \/ stop_requested

(* A list published while a callback is registered is eventually announced  *)
(* to it, taken by a timer first, or the callback is withdrawn.             *)
ReadyAnnounced ==
    (completed # 0 /\ ready_callback) ~>
        (announced \/ completed = 0 \/ ~ready_callback)

(* The detached worker gives back everything: after a stop request the      *)
(* structure is eventually freed although nobody joins the thread.          *)
StopReclaims == stop_requested ~> freed

(* The worker answers everything that is asked of it: the newest request,   *)
(* the announcement of its lists and the stop (process_scanner.c).          *)
WorkerResponds == RequestSettles /\ ReadyAnnounced /\ StopReclaims

=============================================================================
