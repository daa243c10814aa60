---------------------------- MODULE WindowsSampler ----------------------------
(***************************************************************************)
(* The sampling worker of the Windows monitor backend                      *)
(* (src/monitor_backend_windows.c) and the calls the shell makes to it     *)
(* (src/main_windows.c).  As on Linux one retained buffer is filled        *)
(* without the lock and copied under it; here the worker is woken by an    *)
(* event that resets itself, and the shell waits at most half a second for *)
(* it to stop, after which the last of the two to leave frees everything.  *)
(*                                                                         *)
(* Granularity: one action per critical section, per event operation, and  *)
(* four for windows_sample_once: the CPU and memory it writes first, the   *)
(* test whether the topology is due, which reads the request flag without  *)
(* the lock, the reset of that flag, and the devices it writes last.       *)
(***************************************************************************)
EXTENDS Naturals

VARIABLES
    sampler,        \* LsmWindowsSamplerState, and whether it is allocated.
    worker,         \* windows_sampler_thread and its locals.
    ui,             \* What the UI thread is doing to the sampler.
    monitor,        \* state->monitor: which sample its two halves come from.
    \* History variables.
    owed,           \* A topology request no enumeration has followed.
    overlapped,     \* One was made while a sample was under way or unread.
    misused         \* The sampler was used after it was freed.

vars == <<sampler, worker, ui, monitor, owed, overlapped, misused>>

(* Samples are numbered modulo this: only whether two numbers are equal     *)
(* matters, and the halves of the buffer are never more than one apart.     *)
Numbers == 0 .. 1

Halves == [head : Numbers, tail : Numbers]

Samplers ==
    [allocated : BOOLEAN, references : 0 .. 2, event : BOOLEAN,
     stop_requested : BOOLEAN, request_pending : BOOLEAN,
     sample_in_progress : BOOLEAN, sample_ready : BOOLEAN,
     topology_refresh_requested : BOOLEAN, sample : Halves]

Threads ==
    [at : {"none", "wait", "check", "head", "due", "clear", "tail", "finish",
           "release", "gone"},
     force : BOOLEAN, ok : BOOLEAN]

TypeOK ==
    /\ sampler \in Samplers
    /\ worker \in Threads
    /\ ui \in {"start", "unavailable", "signalstart", "running", "signal",
               "signalstop", "join", "exit"}
    /\ monitor \in Halves
    /\ {owed, overlapped, misused} \subseteq BOOLEAN

NoSampler ==
    [allocated |-> FALSE, references |-> 0, event |-> FALSE,
     stop_requested |-> FALSE, request_pending |-> FALSE,
     sample_in_progress |-> FALSE, sample_ready |-> FALSE,
     topology_refresh_requested |-> FALSE, sample |-> [head |-> 0, tail |-> 0]]

Init ==
    /\ sampler = NoSampler
    /\ worker = [at |-> "none", force |-> FALSE, ok |-> FALSE]
    /\ ui = "start"
    /\ monitor = NoSampler.sample
    /\ owed = FALSE /\ overlapped = FALSE /\ misused = FALSE

(* Every use of the sampler, its lock or its event.                         *)
Touch == misused' = (misused \/ ~sampler.allocated)

(* windows_sampler_release, by the thread that gives up its reference.      *)
windows_sampler_release(s) ==
    [s EXCEPT !.references = @ - 1, !.allocated = s.references > 1]

-----------------------------------------------------------------------------
(* windows_sampler_thread.                                                  *)

WaitForRequest ==
    /\ worker.at = "wait" /\ sampler.event
    /\ sampler' = [sampler EXCEPT !.event = FALSE]
    /\ worker' = [worker EXCEPT !.at = "check"]
    /\ Touch /\ UNCHANGED <<ui, monitor, owed, overlapped>>

(* A topology request is taken along with the request to sample.            *)
TakeRequest ==
    /\ worker.at = "check"
    /\ IF sampler.stop_requested \/ ~sampler.request_pending
       THEN /\ worker' = [worker EXCEPT !.at = IF sampler.stop_requested
                                               THEN "release" ELSE "wait"]
            /\ UNCHANGED sampler
       ELSE /\ worker' = [worker EXCEPT
                              !.at = "head",
                              !.force = sampler.topology_refresh_requested]
            /\ sampler' = [sampler EXCEPT
                               !.request_pending = FALSE,
                               !.sample_in_progress = TRUE,
                               !.topology_refresh_requested = FALSE]
    /\ Touch /\ UNCHANGED <<ui, monitor, owed, overlapped>>

(* update_cpu_snapshot and update_memory_snapshot, either of which may      *)
(* fail; the rest of the sample is collected all the same.                  *)
SampleHead ==
    /\ worker.at = "head"
    /\ sampler' = [sampler EXCEPT !.sample.head = (@ + 1) % 2]
    /\ \E ok \in BOOLEAN : worker' = [worker EXCEPT !.at = "due", !.ok = ok]
    /\ Touch /\ UNCHANGED <<ui, monitor, owed, overlapped>>

(* refresh_topology_and_devices: due when it was asked for, or when half a  *)
(* minute has passed since the last attempt.                                *)
TopologyDue ==
    /\ worker.at = "due"
    /\ \E elapsed \in BOOLEAN :
           worker' = [worker EXCEPT
                          !.at = IF \/ elapsed \/ worker.force
                                    \/ sampler.topology_refresh_requested
                                 THEN "clear" ELSE "tail"]
    /\ Touch /\ UNCHANGED <<sampler, ui, monitor, owed, overlapped>>

(* The flag is reset without the lock, and only then are disks, adapters    *)
(* and GPUs enumerated: whoever asked before is served.                     *)
RecordAttempt ==
    /\ worker.at = "clear"
    /\ sampler' = [sampler EXCEPT !.topology_refresh_requested = FALSE]
    /\ worker' = [worker EXCEPT !.at = "tail"]
    /\ owed' = FALSE
    /\ Touch /\ UNCHANGED <<ui, monitor, overlapped>>

(* The devices and their counters, and the number of the sample.            *)
SampleTail ==
    /\ worker.at = "tail"
    /\ sampler' = [sampler EXCEPT !.sample.tail = sampler.sample.head]
    /\ worker' = [worker EXCEPT !.at = "finish"]
    /\ Touch /\ UNCHANGED <<ui, monitor, owed, overlapped>>

FinishSample ==
    /\ worker.at = "finish"
    /\ sampler' = [sampler EXCEPT
                       !.sample_in_progress = FALSE,
                       !.sample_ready =
                           @ \/ (worker.ok /\ ~sampler.stop_requested)]
    /\ worker' = [worker EXCEPT !.at = "wait"]
    /\ Touch /\ UNCHANGED <<ui, monitor, owed, overlapped>>

LeaveThread ==
    /\ worker.at = "release"
    /\ sampler' = windows_sampler_release(sampler)
    /\ worker' = [worker EXCEPT !.at = "gone"]
    /\ Touch /\ UNCHANGED <<ui, monitor, owed, overlapped>>

-----------------------------------------------------------------------------
(* The UI thread.                                                           *)

(* initialise_monitor_backend tries once.  An allocation, CreateEvent or    *)
(* CreateThread may fail, and then nothing is left allocated.               *)
lsm_monitor_platform_init ==
    /\ ui = "start"
    /\ \/ /\ sampler' = [NoSampler EXCEPT !.allocated = TRUE, !.references = 2,
                                          !.request_pending = TRUE]
          /\ worker' = [worker EXCEPT !.at = "wait"]
          /\ ui' = "signalstart"
       \/ ui' = "unavailable" /\ UNCHANGED <<sampler, worker>>
    /\ UNCHANGED <<monitor, owed, overlapped, misused>>

(* SetEvent stands outside the lock.                                        *)
SignalRequest ==
    /\ ui \in {"signalstart", "signal"}
    /\ sampler' = [sampler EXCEPT !.event = TRUE]
    /\ ui' = "running"
    /\ Touch /\ UNCHANGED <<worker, monitor, owed, overlapped>>

(* Mutant: a sample under way is not looked at.                             *)
Mut_MayRequest == ~sampler.stop_requested /\ ~sampler.request_pending

MayRequest ==
    /\ ~sampler.stop_requested
    /\ ~sampler.request_pending
    /\ ~sampler.sample_in_progress

lsm_monitor_platform_update ==
    /\ ui = "running"
    /\ monitor' = IF sampler.sample_ready THEN sampler.sample ELSE monitor
    /\ sampler' = [sampler EXCEPT
                       !.sample_ready = FALSE,
                       !.request_pending = @ \/ MayRequest]
    /\ ui' = IF MayRequest THEN "signal" ELSE "running"
    /\ Touch /\ UNCHANGED <<worker, owed, overlapped>>

(* Unlike an update it asks for a sample whatever the worker is doing.      *)
lsm_monitor_platform_request_topology_refresh ==
    /\ ui = "running"
    /\ sampler' = [sampler EXCEPT !.topology_refresh_requested = TRUE,
                                  !.request_pending = TRUE,
                                  !.event = TRUE]
    /\ owed' = TRUE
    /\ overlapped' =
         (overlapped \/ sampler.sample_in_progress \/ sampler.sample_ready)
    /\ Touch /\ UNCHANGED <<worker, ui, monitor>>

(* lsm_monitor_platform_destroy.                                            *)
RequestStop ==
    /\ ui \in {"start", "unavailable", "running"}
    /\ IF ui = "running"
       THEN /\ sampler' = [sampler EXCEPT !.stop_requested = TRUE,
                                          !.request_pending = FALSE]
            /\ ui' = "signalstop"
            /\ owed' = FALSE
            /\ Touch
       ELSE ui' = "exit" /\ UNCHANGED <<sampler, owed, misused>>
    /\ UNCHANGED <<worker, monitor, overlapped>>

SignalStop ==
    /\ ui = "signalstop"
    /\ sampler' = [sampler EXCEPT !.event = TRUE]
    /\ ui' = "join"
    /\ Touch /\ UNCHANGED <<worker, monitor, owed, overlapped>>

(* The worker has left, or the half second is over.                         *)
LeaveSampler ==
    /\ ui = "join"
    /\ sampler' = windows_sampler_release(sampler)
    /\ ui' = "exit"
    /\ Touch /\ UNCHANGED <<worker, monitor, owed, overlapped>>

(* The window is closed; the worker may still be at its last sample.        *)
Exited == ui = "exit" /\ UNCHANGED vars

Worker == \/ WaitForRequest \/ TakeRequest \/ SampleHead \/ TopologyDue
          \/ RecordAttempt \/ SampleTail \/ FinishSample \/ LeaveThread

Shell == SignalRequest \/ SignalStop \/ LeaveSampler

Next ==
    \/ Worker \/ Shell \/ lsm_monitor_platform_init
    \/ lsm_monitor_platform_update
    \/ lsm_monitor_platform_request_topology_refresh
    \/ RequestStop \/ Exited

(* The scheduler runs both threads, and the timer of the window keeps       *)
(* calling refresh_active_page while the window is open.                    *)
FairSpec ==
    /\ Init /\ [][Next]_vars
    /\ WF_vars(Worker) /\ WF_vars(Shell) /\ WF_vars(lsm_monitor_platform_update)

-----------------------------------------------------------------------------
(* "Workers publish completed collection cycles, not partial inventories"   *)
(* (docs/ARCHITECTURE.md).  What lsm_monitor_platform_update copies was     *)
(* written by one windows_sample_once, as long as nobody asks for a         *)
(* topology refresh while a sample is under way or waits to be read; no     *)
(* caller of the Windows product asks for one at all.                       *)
SnapshotWhole == overlapped \/ monitor.head = monitor.tail

(* A topology request is not forgotten: until an enumeration that began     *)
(* after it, the flag or the worker still holds it, although the worker     *)
(* resets the flag without the lock (refresh_topology_and_devices).         *)
TopologyRequestKept ==
    owed => \/ sampler.topology_refresh_requested
            \/ worker.at \in {"head", "due"} /\ worker.force
            \/ worker.at = "clear"

(* Neither thread uses the sampler after the other has freed it, whichever  *)
(* of them leaves last, and it is freed once both have left.                *)
MemorySafe ==
    /\ ~misused
    /\ ui = "exit" /\ worker.at \in {"none", "gone"} => ~sampler.allocated

(* A request is never left without the signal that wakes the worker: it is  *)
(* sampled, and a topology request enumerated, unless the window is closed. *)
RequestServed ==
    /\ sampler.request_pending ~> ~sampler.request_pending
    /\ owed ~> ~owed
    /\ ui = "exit" ~> ~sampler.allocated
=============================================================================
