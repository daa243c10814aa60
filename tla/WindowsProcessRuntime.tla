------------------------ MODULE WindowsProcessRuntime ------------------------
(***************************************************************************)
(* The Win32 process worker (src/windows_process_runtime.c) and the part   *)
(* of the shell that owns it (src/main_windows.c).  Unlike the Linux       *)
(* scanner it can be stopped and started again; its stop waits only half a *)
(* second, after which a worker stuck in a native query is abandoned with  *)
(* everything it may still touch.                                          *)
(*                                                                         *)
(* Granularity: one action per critical section of process_lock, per event *)
(* operation and per kernel wait.                                          *)
(***************************************************************************)
EXTENDS Naturals

CONSTANTS
    RetryDelay       \* Ticks between two start attempts (5000 ms).

(* What the constant stands for.                                            *)
RuntimeAssumption == RetryDelay \in Nat

VARIABLES
    \* LsmWindowsProcessRuntime.
    process_stop_requested, process_request_pending, process_completed,
    process_worker_abandoned, process_thread, process_event,
    process_lock_initialised, process_backend,
    \* The worker thread and the UI thread.
    worker, ui,
    \* LsmWindowsUiState: the remaining retry delay and whether the containing
    \* allocation still exists.
    retry_after, allocated,
    \* History variable: whether a worker used the lock, the event or the
    \* structure after their release.
    used_after_release

syncVars  == <<process_thread, process_event, process_lock_initialised>>
shellVars == <<retry_after, allocated>>

vars == <<process_stop_requested, process_request_pending, process_completed,
          process_worker_abandoned, process_backend, syncVars, worker, ui,
          shellVars, used_after_release>>

(* The completed snapshot was collected by the present worker, or by one    *)
(* that has left: it is marked when its worker leaves.                      *)
Snapshots == {"none", "current", "previous"}

TypeOK ==
    /\ process_stop_requested \in BOOLEAN
    /\ process_request_pending \in BOOLEAN
    /\ process_completed \in Snapshots
    /\ process_worker_abandoned \in BOOLEAN
    /\ process_thread \in BOOLEAN
    /\ process_event \in {"none", "clear", "set"}
    /\ process_lock_initialised \in BOOLEAN
    /\ process_backend \in BOOLEAN
    /\ worker \in {"none", "create", "nobackend", "publish", "wait", "check",
                   "scan", "finish", "destroy", "exited"}
    /\ ui \in {"running", "starting", "signal", "take", "stop", "stopsignal",
               "join", "closing", "closesignal", "closejoin", "gone", "exit"}
    /\ retry_after \in 0 .. RetryDelay
    /\ allocated \in BOOLEAN
    /\ used_after_release \in BOOLEAN

Init ==
    /\ process_stop_requested = FALSE /\ process_request_pending = FALSE
    /\ process_completed = "none" /\ process_worker_abandoned = FALSE
    /\ process_thread = FALSE /\ process_event = "none"
    /\ process_lock_initialised = FALSE /\ process_backend = FALSE
    /\ worker = "none" /\ ui = "running"
    /\ retry_after = 0 /\ allocated = TRUE
    /\ used_after_release = FALSE

(* What the worker does to the lock or the event is safe only while they    *)
(* and the structure that holds them exist.                                 *)
Touch == used_after_release' =
            (used_after_release \/ ~allocated \/ ~process_lock_initialised
                                \/ process_event = "none")

-----------------------------------------------------------------------------
(* process_worker_main.                                                     *)

CreateBackend ==
    /\ worker = "create"
    /\ worker' \in {"publish", "nobackend"}
    /\ UNCHANGED <<process_stop_requested, process_request_pending,
                   process_completed, process_worker_abandoned,
                   process_backend, syncVars, ui, shellVars, used_after_release>>

(* The backend pointer, or NULL, is stored under the lock.                  *)
PublishBackend ==
    /\ worker \in {"publish", "nobackend"}
    /\ process_backend' = (worker = "publish")
    /\ worker' = IF worker = "publish" THEN "wait" ELSE "exited"
    /\ Touch
    /\ UNCHANGED <<process_stop_requested, process_request_pending,
                   process_completed, process_worker_abandoned, syncVars, ui,
                   shellVars>>

(* The event resets itself when it releases the worker.                     *)
WaitForEvent ==
    /\ worker = "wait" /\ process_event = "set"
    /\ process_event' = "clear"
    /\ worker' = "check"
    /\ Touch
    /\ UNCHANGED <<process_stop_requested, process_request_pending,
                   process_completed, process_worker_abandoned,
                   process_thread, process_lock_initialised, process_backend,
                   ui, shellVars>>

Dispatch ==
    /\ worker = "check"
    /\ worker' = CASE process_stop_requested -> "destroy"
                   [] process_request_pending -> "scan"
                   [] OTHER -> "wait"
    /\ process_request_pending' =
         (process_request_pending /\ process_stop_requested)
    /\ Touch
    /\ UNCHANGED <<process_stop_requested, process_completed,
                   process_worker_abandoned, process_backend, syncVars, ui,
                   shellVars>>

(* The result is dropped when a stop came in meanwhile, and a failed scan   *)
(* leaves the last completed snapshot in place.                             *)
Deliver(succeeded) ==
    /\ worker' = IF process_stop_requested THEN "destroy" ELSE "wait"
    /\ process_completed' = IF succeeded /\ ~process_stop_requested
                            THEN "current" ELSE process_completed

FinishScan ==
    /\ worker = "scan"
    /\ \E succeeded \in BOOLEAN : Deliver(succeeded)
    /\ Touch
    /\ UNCHANGED <<process_stop_requested, process_request_pending,
                   process_worker_abandoned, process_backend, syncVars, ui,
                   shellVars>>

LeaveWorker ==
    /\ worker = "destroy"
    /\ worker' = "exited"
    /\ process_backend' = FALSE
    /\ process_completed' = IF process_completed = "none" THEN "none" ELSE "previous"
    /\ Touch
    /\ UNCHANGED <<process_stop_requested, process_request_pending,
                   process_worker_abandoned, syncVars, ui, shellVars>>

-----------------------------------------------------------------------------
(* The UI thread.                                                           *)

lsm_windows_process_runtime_available ==
    /\ ~process_stop_requested
    /\ process_thread /\ process_lock_initialised
    /\ worker # "exited"

ClearStop == process_stop_requested' = FALSE

ReleaseCompleted == process_completed' = "none"

MayStart ==
    /\ ~lsm_windows_process_runtime_available
    /\ ~process_worker_abandoned
    /\ retry_after = 0

(* initialise_process_backend: a first start, or the replacement of a       *)
(* worker that has exited, at most once per retry delay.  Reaping releases  *)
(* the old synchronisation objects before new ones are created.  CreateEvent *)
(* or CreateThread may fail.                                                *)
StartWorker ==
    /\ ui = "running" /\ MayStart
    /\ retry_after' = RetryDelay
    /\ ReleaseCompleted
    /\ ClearStop
    /\ process_request_pending' = TRUE
    /\ process_thread' = TRUE /\ process_event' = "clear"
    /\ process_lock_initialised' = TRUE
    /\ worker' = "create"
    /\ ui' = "starting"
    /\ UNCHANGED <<process_worker_abandoned, process_backend, allocated,
                   used_after_release>>

StartFails ==
    /\ ui = "running" /\ MayStart
    /\ retry_after' = RetryDelay
    /\ ReleaseCompleted
    /\ process_thread' = FALSE /\ process_event' = "none"
    /\ process_lock_initialised' = FALSE
    /\ \/ /\ process_stop_requested' =
               (process_stop_requested \/ process_lock_initialised)
          /\ UNCHANGED process_request_pending
       \/ ClearStop /\ process_request_pending' = TRUE
    /\ worker' = "none"
    /\ UNCHANGED <<process_worker_abandoned, process_backend, ui, allocated,
                   used_after_release>>

(* The SetEvent that ends lsm_windows_process_runtime_start.                *)
SignalStart ==
    /\ ui = "starting"
    /\ process_event' = "set"
    /\ ui' = "running"
    /\ UNCHANGED <<process_stop_requested, process_request_pending,
                   process_completed, process_worker_abandoned,
                   process_thread, process_lock_initialised, process_backend,
                   worker, shellVars, used_after_release>>

(* refresh_processes: request, signal outside the lock, take.               *)
RequestScan ==
    /\ ui = "running"
    /\ lsm_windows_process_runtime_available
    /\ process_request_pending' = TRUE
    /\ ui' = "signal"
    /\ UNCHANGED <<process_stop_requested, process_completed,
                   process_worker_abandoned, process_backend, syncVars,
                   worker, shellVars, used_after_release>>

(* Mutant: the event is not set.                                            *)
Mut_SignalRequest ==
    /\ ui = "signal"
    /\ ui' = "take"
    /\ UNCHANGED <<process_stop_requested, process_request_pending,
                   process_completed, process_worker_abandoned, syncVars,
                   process_backend, worker, shellVars, used_after_release>>

SignalRequest ==
    /\ ui = "signal"
    /\ process_event' = "set"
    /\ ui' = "take"
    /\ UNCHANGED <<process_stop_requested, process_request_pending,
                   process_completed, process_worker_abandoned,
                   process_thread, process_lock_initialised, process_backend,
                   worker, shellVars, used_after_release>>

TakeSnapshot ==
    /\ ui = "take"
    /\ process_completed' = "none"
    /\ ui' = "running"
    /\ UNCHANGED <<process_stop_requested, process_request_pending,
                   process_worker_abandoned, process_backend, syncVars,
                   worker, shellVars, used_after_release>>

(* GetTickCount64 advances towards process_retry_after_ms.                  *)
Tick ==
    /\ retry_after > 0
    /\ retry_after' = retry_after - 1
    /\ UNCHANGED <<process_stop_requested, process_request_pending,
                   process_completed, process_worker_abandoned,
                   process_backend, syncVars, worker, ui, allocated,
                   used_after_release>>

(* lsm_windows_process_runtime_stop, called to reuse the runtime ("stop")   *)
(* or by destroy_state ("closing").                                         *)
CallStop ==
    /\ ui = "running"
    /\ ui' \in {"stop", "closing"}
    /\ UNCHANGED <<process_stop_requested, process_request_pending,
                   process_completed, process_worker_abandoned,
                   process_backend, syncVars, worker, shellVars, used_after_release>>

AfterStop == IF ui \in {"stop", "stopsignal", "join"} THEN "running" ELSE "gone"

RequestStop ==
    /\ ui \in {"stop", "closing"}
    /\ IF process_lock_initialised
       THEN /\ process_stop_requested' = TRUE
            /\ ui' = IF ui = "stop" THEN "stopsignal" ELSE "closesignal"
       ELSE UNCHANGED process_stop_requested /\ ui' = AfterStop
    /\ UNCHANGED <<process_request_pending, process_completed,
                   process_worker_abandoned, process_backend, syncVars,
                   worker, shellVars, used_after_release>>

SignalStop ==
    /\ ui \in {"stopsignal", "closesignal"}
    /\ process_event' = "set"
    /\ ui' = IF ui = "stopsignal" THEN "join" ELSE "closejoin"
    /\ UNCHANGED <<process_stop_requested, process_request_pending,
                   process_completed, process_worker_abandoned,
                   process_thread, process_lock_initialised, process_backend,
                   worker, shellVars, used_after_release>>

(* The worker left within the half second: release everything.              *)
JoinWorker ==
    /\ ui \in {"join", "closejoin"}
    /\ worker = "exited"
    /\ process_thread' = FALSE /\ process_event' = "none"
    /\ process_lock_initialised' = FALSE
    /\ ReleaseCompleted
    /\ worker' = "none"
    /\ ui' = AfterStop
    /\ UNCHANGED <<process_stop_requested, process_request_pending,
                   process_worker_abandoned, process_backend, shellVars,
                   used_after_release>>

(* Mutant: a worker that does not stop in time is treated like one that did. *)
Mut_AbandonWorker ==
    /\ ui \in {"join", "closejoin"}
    /\ worker # "exited"
    /\ process_thread' = FALSE /\ process_event' = "none"
    /\ process_lock_initialised' = FALSE
    /\ ui' = AfterStop
    /\ UNCHANGED <<process_stop_requested, process_request_pending,
                   process_completed, process_worker_abandoned,
                   process_backend, worker, shellVars, used_after_release>>

(* It did not: nothing it may still use is released.                        *)
AbandonWorker ==
    /\ ui \in {"join", "closejoin"}
    /\ worker # "exited"
    /\ process_worker_abandoned' = TRUE
    /\ ui' = AfterStop
    /\ UNCHANGED <<process_stop_requested, process_request_pending,
                   process_completed, process_backend, syncVars, worker,
                   shellVars, used_after_release>>

(* WinMain keeps the state an abandoned worker may still use.               *)
FreeState == allocated' = process_worker_abandoned

(* WinMain returns after WM_DESTROY has run destroy_state.                  *)
LeaveProgram ==
    /\ ui = "gone"
    /\ FreeState
    /\ ui' = "exit"
    /\ UNCHANGED <<process_stop_requested, process_request_pending,
                   process_completed, process_worker_abandoned,
                   process_backend, syncVars, worker, retry_after,
                   used_after_release>>

(* The process has ended: the one place where everything may stop.          *)
Exited == ui = "exit" /\ UNCHANGED vars

Worker == \/ CreateBackend \/ PublishBackend \/ WaitForEvent \/ Dispatch
          \/ FinishScan \/ LeaveWorker

Shell == \/ SignalStart \/ SignalRequest \/ TakeSnapshot
         \/ RequestStop \/ SignalStop \/ JoinWorker \/ AbandonWorker

Next == Worker \/ Shell \/ StartWorker \/ StartFails \/ RequestScan
        \/ CallStop \/ LeaveProgram \/ Exited \/ Tick

Spec == Init /\ [][Next]_vars

(* The worker and a handler that has begun keep running, time passes, the   *)
(* UI timer keeps refreshing the page, and neither native object creation   *)
(* nor backend construction fails for ever.                                 *)
Fairness ==
    /\ WF_vars(Worker) /\ WF_vars(Shell) /\ WF_vars(Tick)
    /\ SF_vars(StartWorker) /\ WF_vars(RequestScan)
    /\ SF_vars(CreateBackend /\ worker' = "publish")

FairSpec == Spec /\ Fairness

-----------------------------------------------------------------------------
(* The worker never uses the critical section, the event or the structure   *)
(* around them after they were released: joining, abandoning, reaping and   *)
(* freeing agree on who owns them, whatever the worker is doing when the    *)
(* half second runs out (lsm_windows_process_runtime_stop).                 *)
NoUseAfterRelease == ~used_after_release

(* "an abandoned worker is never restarted" (docs/ARCHITECTURE.md): after a *)
(* stop has timed out no worker is created again, and the flag stays set    *)
(* even when the abandoned worker ends later.                               *)
AbandonedForGood ==
    [][process_worker_abandoned =>
          process_worker_abandoned' /\ (worker' = worker \/ worker' # "create")]_vars

(* What is waiting to be taken was collected by the current worker: a       *)
(* replacement worker never delivers its predecessor's snapshot.            *)
CompletedIsCurrent ==
    (process_completed # "none" /\ ui \in {"signal", "take"})
        => process_completed = "current"

(* After the program has left nothing remains but what an abandoned worker  *)
(* may still touch: no snapshot, no thread handle, no allocation.           *)
NothingLeaked ==
    (ui = "exit" /\ ~process_worker_abandoned) =>
        /\ ~allocated /\ ~process_thread /\ ~process_lock_initialised
        /\ process_completed = "none" /\ process_event = "none"

(* A request reaches a scan: a started worker that has its backend takes it *)
(* up, also when it is the replacement of a stopped one.                    *)
RequestServed ==
    (process_request_pending /\ ui = "take")
        ~> \/ ~process_request_pending
           \/ worker = "exited"
           \/ ui \in {"stop", "closing", "gone", "exit"}

(* The process page comes back: as long as the shell runs, a worker that    *)
(* was stopped or failed to create its backend is replaced after the retry  *)
(* delay (initialise_process_backend).                                      *)
WorkerReplaced ==
    (ui = "running" /\ ~process_worker_abandoned)
        ~> \/ lsm_windows_process_runtime_available /\ process_backend
           \/ process_worker_abandoned
           \/ ui \in {"stop", "closing", "gone", "exit"}

=============================================================================
