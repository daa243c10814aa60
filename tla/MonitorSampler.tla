---------------------------- MODULE MonitorSampler ----------------------------
(***************************************************************************)
(* The native sampling worker of the Linux monitor backend                 *)
(* (src/monitor_backend_linux.c).  One worker thread fills one retained    *)
(* sample buffer without holding the lock; the main thread copies that     *)
(* very buffer into the public snapshot.  There is no second buffer, so    *)
(* the request/in-progress/ready protocol is all that keeps the copy from  *)
(* reading a half-written sample.                                          *)
(*                                                                         *)
(* Granularity: one action per critical section of sampler->mutex, one for *)
(* the clock reading that opens sample_once and one for its end, so that   *)
(* the main thread can run while the collectors are writing.               *)
(*                                                                         *)
(* Time is in whole seconds.  Generations are counted modulo               *)
(* GenerationModulus (2^64 in the code), and 0 means "never sampled".      *)
(***************************************************************************)
EXTENDS Naturals

CONSTANTS
    GenerationModulus,     \* 2^64 in the code.
    ScanInterval,          \* LSM_TOPOLOGY_SCAN_INTERVAL_SECONDS, 5.
    BatteryInterval,       \* LSM_BATTERY_UPDATE_INTERVAL_SECONDS, 5.
    RetryInitial,          \* LSM_TOPOLOGY_RETRY_INITIAL_SECONDS, 1.
    MaxFailures,           \* UINT_MAX in the code.
    MaxClock               \* Bound: the last instant.

ASSUME SamplerAssumption ==
    /\ GenerationModulus \in Nat /\ GenerationModulus > 1
    /\ ScanInterval \in Nat
    /\ BatteryInterval \in Nat
    /\ RetryInitial \in Nat
    /\ MaxFailures \in Nat /\ MaxFailures > 3
    /\ MaxClock \in Nat

VARIABLES
    \* LsmLinuxSamplerState, guarded by its mutex.
    request_pending, sample_in_progress, sample_ready, stop_requested,
    topology_refresh_requested,
    \* Lifetime.
    references, freed,
    \* LsmLinuxMonitorBackendState, touched by the worker only.
    last_update, last_topology_scan, last_battery_update,
    topology_retry_pending, topology_retry_failures, topology_retry_not_before,
    \* The retained buffer and the public snapshot.
    sample, public,
    \* Threads and their locals.
    worker, main, force_topology, refresh_topology, refresh_batteries, sampled,
    clock,
    \* History variables.
    owed,          \* A topology request not answered, nor dropped by a stall.
    attempted      \* Instant of the latest topology scan.

protocolVars == <<request_pending, sample_in_progress, sample_ready,
                  stop_requested, topology_refresh_requested>>
lifeVars     == <<references, freed>>
retryVars    == <<last_update, last_topology_scan, last_battery_update,
                  topology_retry_pending, topology_retry_failures,
                  topology_retry_not_before, attempted>>
dataVars     == <<sample, public>>
localVars    == <<force_topology, refresh_topology, refresh_batteries, sampled>>

vars == <<protocolVars, lifeVars, retryVars, dataVars, localVars, worker, main,
          clock, owed>>

(* "discover": filling the buffer for the first time; "sample": a request   *)
(* has been taken, the clock not read yet; "collect": the collectors write  *)
(* the buffer; "finish": sample_once has returned; "unref": leaving.        *)
WorkerStates == {"none", "discover", "lock", "wait", "sample", "collect",
                 "finish", "unref", "done"}
MainStates == {"init", "running", "unref", "gone"}

Instants == 0 .. MaxClock

(* A snapshot: its completion identity, its time stamp and whether the copy *)
(* saw every field of one collection cycle.                                 *)
Snapshots == [generation : 0 .. GenerationModulus - 1,
              seconds : Instants, whole : BOOLEAN]

TypeOK ==
    /\ request_pending \in BOOLEAN
    /\ sample_in_progress \in BOOLEAN
    /\ sample_ready \in BOOLEAN
    /\ stop_requested \in BOOLEAN
    /\ topology_refresh_requested \in BOOLEAN
    /\ references \in 0 .. 2
    /\ freed \in BOOLEAN
    /\ last_update \in Instants
    /\ last_topology_scan \in Instants
    /\ last_battery_update \in Instants
    /\ topology_retry_pending \in BOOLEAN
    /\ topology_retry_failures \in 0 .. MaxFailures
    /\ topology_retry_not_before \in Nat
    /\ attempted \in Instants
    /\ sample \in Snapshots
    /\ public \in Snapshots
    /\ worker \in WorkerStates
    /\ main \in MainStates
    /\ force_topology \in BOOLEAN
    /\ refresh_topology \in BOOLEAN
    /\ refresh_batteries \in BOOLEAN
    /\ sampled \in BOOLEAN
    /\ clock \in Instants
    /\ owed \in BOOLEAN

EmptySnapshot == [generation |-> 0, seconds |-> 0, whole |-> TRUE]

(* lsm_monitor_platform_init has allocated nothing yet.                     *)
Init ==
    /\ request_pending = FALSE
    /\ sample_in_progress = FALSE
    /\ sample_ready = FALSE
    /\ stop_requested = FALSE
    /\ topology_refresh_requested = FALSE
    /\ references = 0
    /\ freed = FALSE
    /\ last_update = 0
    /\ last_topology_scan = 0
    /\ last_battery_update = 0
    /\ topology_retry_pending = FALSE
    /\ topology_retry_failures = 0
    /\ topology_retry_not_before = 0
    /\ attempted = 0
    /\ sample = EmptySnapshot
    /\ public = EmptySnapshot
    /\ worker = "none"
    /\ main = "init"
    /\ force_topology = FALSE
    /\ refresh_topology = FALSE
    /\ refresh_batteries = FALSE
    /\ sampled = FALSE
    /\ clock = 0
    /\ owed = FALSE

Tick ==
    /\ clock < MaxClock
    /\ clock' = clock + 1
    /\ UNCHANGED <<protocolVars, lifeVars, retryVars, dataVars, localVars,
                   worker, main, owed>>

-----------------------------------------------------------------------------
(* Mutant: the condition variable is not signalled.                         *)
Mut_Signal == UNCHANGED worker

(* pthread_cond_signal: a waiting worker re-evaluates its predicate.        *)
Signal == worker' = IF worker = "wait" THEN "lock" ELSE worker

sampler_release ==
    /\ references' = references - 1
    /\ freed' = (references = 1)

(* infiltratr_interval_due: an interval has passed since the last time.     *)
interval_due(now, last, interval) == now >= last + interval

topology_retry_delay(failures) ==
    CASE failures <= 1 -> RetryInitial
      [] failures = 2  -> 2
      [] failures = 3  -> 4
      [] OTHER         -> ScanInterval

(* The counter wraps past zero, which is reserved for "never sampled".      *)
NextGeneration(generation) ==
    IF (generation + 1) % GenerationModulus = 0
    THEN 1
    ELSE generation + 1

(* The collectors write the retained buffer in these states.                *)
BufferBeingWritten == worker \in {"discover", "collect"}

(* copy_public_snapshot: the public snapshot becomes what the buffer holds  *)
(* at this moment.                                                          *)
copy_public_snapshot ==
    public' = [sample EXCEPT !.whole = ~BufferBeingWritten]

-----------------------------------------------------------------------------
(* The main thread.                                                         *)

(* Mutant: the constructor's reference is the only one.                     *)
Mut_WorkerReference == 1

(* The constructor's reference and the worker's.                            *)
WorkerReference == 2

(* lsm_monitor_platform_init succeeds; the clock must read more than zero.  *)
PlatformInit ==
    /\ main = "init"
    /\ clock > 0
    /\ main' = "running"
    /\ worker' = "discover"
    /\ references' = WorkerReference
    /\ request_pending' = TRUE
    /\ last_update' = clock
    /\ last_topology_scan' = clock
    /\ last_battery_update' = clock
    /\ copy_public_snapshot
    /\ UNCHANGED <<sample_in_progress, sample_ready, stop_requested,
                   topology_refresh_requested, freed, topology_retry_pending,
                   topology_retry_failures, topology_retry_not_before,
                   attempted, sample, localVars, clock, owed>>

(* Any failure, thread creation included, releases everything and leaves    *)
(* no worker behind.                                                        *)
PlatformInitFails ==
    /\ main = "init"
    /\ main' = "gone"
    /\ freed' = TRUE
    /\ UNCHANGED <<protocolVars, references, retryVars, dataVars, localVars,
                   worker, clock, owed>>

(* Mutant: a sample in progress does not hold the next request back.        *)
Mut_MayRequest == ~request_pending

MayRequest == ~request_pending /\ ~sample_in_progress

(* A finished sample is published straight from the retained buffer, and    *)
(* only then is the worker told to fill that buffer again.                  *)
lsm_monitor_platform_update ==
    /\ main = "running"
    /\ IF sample_ready
       THEN copy_public_snapshot /\ sample_ready' = FALSE
       ELSE UNCHANGED <<public, sample_ready>>
    /\ IF MayRequest
       THEN request_pending' = TRUE /\ Signal
       ELSE UNCHANGED <<request_pending, worker>>
    /\ UNCHANGED <<sample_in_progress, stop_requested,
                   topology_refresh_requested, lifeVars, retryVars, sample,
                   localVars, main, clock, owed>>

(* Mutant: a topology request wakes the worker over an unread sample.       *)
Mut_MayRequestTopology == ~request_pending /\ ~sample_in_progress

MayRequestTopology ==
    ~sample_ready /\ ~request_pending /\ ~sample_in_progress

lsm_monitor_platform_request_topology_refresh ==
    /\ main = "running"
    /\ topology_refresh_requested' = TRUE
    /\ owed' = TRUE
    /\ IF MayRequestTopology
       THEN request_pending' = TRUE /\ Signal
       ELSE UNCHANGED <<request_pending, worker>>
    /\ UNCHANGED <<sample_in_progress, sample_ready, stop_requested, lifeVars,
                   retryVars, dataVars, localVars, main, clock>>

(* lsm_monitor_platform_destroy, up to pthread_detach.                      *)
destroy_sampler ==
    /\ main = "running"
    /\ main' = "unref"
    /\ stop_requested' = TRUE
    /\ Signal
    /\ UNCHANGED <<request_pending, sample_in_progress, sample_ready,
                   topology_refresh_requested, lifeVars, retryVars, dataVars,
                   localVars, clock, owed>>

ReleaseOwner ==
    /\ main = "unref"
    /\ main' = "gone"
    /\ sampler_release
    /\ UNCHANGED <<protocolVars, retryVars, dataVars, localVars, worker,
                   clock, owed>>

-----------------------------------------------------------------------------
(* The worker thread.                                                       *)

(* First discovery; what it could not complete is asked for again.          *)
DiscoveryEnds(complete) ==
    /\ worker = "discover"
    /\ worker' = "lock"
    /\ topology_refresh_requested' = (topology_refresh_requested \/ ~complete)
    /\ owed' = (owed \/ ~complete)
    /\ UNCHANGED <<request_pending, sample_in_progress, sample_ready,
                   stop_requested, lifeVars, retryVars, dataVars, localVars,
                   main, clock>>

WorkerWaits ==
    /\ worker = "lock"
    /\ ~request_pending
    /\ ~stop_requested
    /\ worker' = "wait"
    /\ UNCHANGED <<protocolVars, lifeVars, retryVars, dataVars, localVars,
                   main, clock, owed>>

SpuriousWakeup ==
    /\ worker = "wait"
    /\ worker' = "lock"
    /\ UNCHANGED <<protocolVars, lifeVars, retryVars, dataVars, localVars,
                   main, clock, owed>>

WorkerSeesStop ==
    /\ worker = "lock"
    /\ stop_requested
    /\ worker' = "unref"
    /\ UNCHANGED <<protocolVars, lifeVars, retryVars, dataVars, localVars,
                   main, clock, owed>>

(* Mutant: the topology request is dropped while it is being picked up.     *)
Mut_TakeTopologyRequest == force_topology' = FALSE

TakeTopologyRequest == force_topology' = topology_refresh_requested

RequestTaken ==
    /\ worker = "lock"
    /\ ~stop_requested
    /\ request_pending
    /\ worker' = "sample"
    /\ request_pending' = FALSE
    /\ sample_in_progress' = TRUE
    /\ TakeTopologyRequest
    /\ topology_refresh_requested' = FALSE
    /\ UNCHANGED <<sample_ready, stop_requested, lifeVars, retryVars, dataVars,
                   refresh_topology, refresh_batteries, sampled, main, clock,
                   owed>>

(* A retry that is due, or a scheduled scan when no retry is pending.       *)
TopologyDue(now) ==
    IF topology_retry_pending
    THEN now >= topology_retry_not_before
    ELSE interval_due(now, last_topology_scan, ScanInterval)

(* sample_once, from reading the clock to starting the collectors.          *)
CollectionBegins ==
    /\ worker = "sample"
    /\ clock > last_update
    /\ worker' = "collect"
    /\ last_update' = clock
    /\ refresh_topology' = (force_topology \/ TopologyDue(clock))
    /\ refresh_batteries' =
           interval_due(clock, last_battery_update, BatteryInterval)
    /\ attempted' = IF refresh_topology' THEN clock ELSE attempted
    /\ owed' = (topology_refresh_requested \/ (owed /\ ~refresh_topology'))
    /\ UNCHANGED <<protocolVars, lifeVars, last_topology_scan,
                   last_battery_update, topology_retry_pending,
                   topology_retry_failures, topology_retry_not_before,
                   dataVars, force_topology, sampled, main, clock>>

(* sample_once returns at once when the clock has not advanced; the         *)
(* topology request that was taken for this sample is not put back.         *)
ClockStalled ==
    /\ worker = "sample"
    /\ clock <= last_update
    /\ worker' = "finish"
    /\ sampled' = FALSE
    /\ owed' = (topology_refresh_requested \/ (owed /\ ~force_topology))
    /\ UNCHANGED <<protocolVars, lifeVars, retryVars, dataVars, force_topology,
                   refresh_topology, refresh_batteries, main, clock>>

(* The collectors have returned: the sample gets its identity, and a        *)
(* topology scan that was incomplete is put back with a growing delay.  All *)
(* time stamps are the instant at which the collection began.               *)
CollectionEnds(complete) ==
    /\ worker = "collect"
    /\ worker' = "finish"
    /\ sampled' = TRUE
    /\ sample' = [sample EXCEPT !.generation = NextGeneration(@),
                                !.seconds = last_update]
    /\ IF refresh_topology /\ complete
       THEN /\ last_topology_scan' = last_update
            /\ topology_retry_pending' = FALSE
            /\ topology_retry_failures' = 0
            /\ topology_retry_not_before' = 0
       ELSE IF refresh_topology
       THEN /\ topology_retry_pending' = TRUE
            /\ topology_retry_failures' =
                   IF topology_retry_failures < MaxFailures
                   THEN topology_retry_failures + 1
                   ELSE topology_retry_failures
            /\ topology_retry_not_before' =
                   last_update + topology_retry_delay(topology_retry_failures')
            /\ UNCHANGED last_topology_scan
       ELSE UNCHANGED <<last_topology_scan, topology_retry_pending,
                        topology_retry_failures, topology_retry_not_before>>
    /\ last_battery_update' =
           IF refresh_batteries THEN last_update ELSE last_battery_update
    /\ UNCHANGED <<protocolVars, lifeVars, last_update, attempted, public,
                   force_topology, refresh_topology, refresh_batteries, main,
                   clock, owed>>

SampleFinished ==
    /\ worker = "finish"
    /\ worker' = "lock"
    /\ sample_in_progress' = FALSE
    /\ sample_ready' = (sample_ready \/ (sampled /\ ~stop_requested))
    /\ UNCHANGED <<request_pending, stop_requested,
                   topology_refresh_requested, lifeVars, retryVars, dataVars,
                   localVars, main, clock, owed>>

WorkerExits ==
    /\ worker = "unref"
    /\ worker' = "done"
    /\ sampler_release
    /\ UNCHANGED <<protocolVars, retryVars, dataVars, localVars, main, clock,
                   owed>>

-----------------------------------------------------------------------------
WorkerStep ==
    \/ \E complete \in BOOLEAN : DiscoveryEnds(complete)
    \/ WorkerWaits \/ WorkerSeesStop \/ RequestTaken
    \/ CollectionBegins \/ ClockStalled
    \/ \E complete \in BOOLEAN : CollectionEnds(complete)
    \/ SampleFinished \/ WorkerExits

MainStep ==
    \/ PlatformInit \/ PlatformInitFails
    \/ lsm_monitor_platform_update
    \/ lsm_monitor_platform_request_topology_refresh
    \/ destroy_sampler \/ ReleaseOwner

(* The sampler has been torn down.                                          *)
Stopped ==
    /\ freed
    /\ UNCHANGED vars

Next == Tick \/ WorkerStep \/ SpuriousWakeup \/ MainStep \/ Stopped

Spec == Init /\ [][Next]_vars

(* The operating system schedules both threads, the clock runs (up to the   *)
(* bound), the collectors return and the refresh timer keeps firing.        *)
FairSpec ==
    /\ Spec
    /\ WF_vars(Tick)
    /\ WF_vars(WorkerStep)
    /\ WF_vars(PlatformInit \/ PlatformInitFails)
    /\ WF_vars(lsm_monitor_platform_update)
    /\ WF_vars(ReleaseOwner)

-----------------------------------------------------------------------------
(* Properties.                                                              *)

(* The public snapshot is always one complete collection cycle: although    *)
(* lsm_monitor_platform_update copies the worker's own buffer, it never     *)
(* does so while the collectors are writing it.                             *)
SnapshotWhole == public.whole

(* The worker's last reference frees the sampler, so neither thread can     *)
(* touch it afterwards.                                                     *)
NoUseAfterFree ==
    freed => worker \in {"none", "done"} /\ main = "gone"

(* Every completed sample is published exactly once and none is skipped or  *)
(* overwritten unread: successive public generations are consecutive with   *)
(* later times, and never fall back to 0, "never sampled", when the counter *)
(* wraps (lsm_monitor_platform_update, sample_once).                        *)
GenerationStep ==
    public' # public =>
        /\ public'.generation # 0
        /\ public'.generation = NextGeneration(public.generation)
        /\ public.generation # 0 => public'.seconds > public.seconds

GenerationsConsecutive == [][GenerationStep]_vars

(* A topology request, from the user interface or from an incomplete first  *)
(* discovery, is retained until a scan starts, whatever the worker is doing *)
(* when it arrives.  The one way to lose it is a sample whose clock reading *)
(* did not advance, which sampler_thread_main has already cleared it for.   *)
TopologyRequestKept ==
    owed =>
        \/ topology_refresh_requested
        \/ worker = "sample" /\ force_topology

(* Incomplete scans back off: unless one is requested explicitly, no two    *)
(* scans start closer together than the delay the failure count asks for.   *)
RetryStep ==
    (/\ CollectionBegins /\ ~force_topology
     /\ topology_retry_pending /\ refresh_topology') =>
        clock - attempted >=
            CASE topology_retry_failures = 1 -> RetryInitial
              [] topology_retry_failures = 2 -> 2
              [] topology_retry_failures = 3 -> 4
              [] OTHER -> ScanInterval

RetryBacksOff == [][RetryStep]_vars

(* A refresh request reaches the worker although only the call that finds   *)
(* the worker idle signals the condition variable.                          *)
RequestServed ==
    request_pending ~> (~request_pending \/ stop_requested)

(* After destroy the detached worker gives the sampler back by itself.      *)
StopReclaims == stop_requested ~> freed

(* The worker answers both: a request is taken up, a stop ends it and frees *)
(* what it shared (sampler_thread_main, lsm_monitor_platform_destroy).      *)
WorkerResponds == RequestServed /\ StopReclaims

-----------------------------------------------------------------------------
(* Both platforms: the worker above and that of the Windows backend         *)
(* (WindowsSampler).  A program has one of them, so each is explored by     *)
(* itself; the platform is chosen at the start and kept.                    *)

VARIABLES
    platform,
    sampler, sampler_thread, ui, monitor, asked, overlapped, misused

windowsVars ==
    <<sampler, sampler_thread, ui, monitor, asked, overlapped, misused>>
allVars == <<platform, vars, windowsVars>>

Windows == INSTANCE WindowsSampler WITH worker <- sampler_thread, owed <- asked

PlatformChosen ==
    platform \in {"linux", "windows"} /\ Init /\ Windows!Init

OnLinux(A) == platform = "linux" /\ A /\ UNCHANGED <<platform, windowsVars>>
OnWindows(A) == platform = "windows" /\ A /\ UNCHANGED <<platform, vars>>

PlatformNext == OnLinux(Next) \/ OnWindows(Windows!Next)

(* The fairness of each module; only one platform is there, so one          *)
(* condition on a disjunction says what one for each platform would.        *)
PlatformSpec ==
    /\ PlatformChosen /\ [][PlatformNext]_allVars
    /\ WF_allVars(OnLinux(Tick))
    /\ WF_allVars(OnLinux(WorkerStep) \/ OnWindows(Windows!Worker))
    /\ WF_allVars(OnLinux(PlatformInit \/ PlatformInitFails))
    /\ WF_allVars(\/ OnLinux(lsm_monitor_platform_update)
                  \/ OnWindows(Windows!lsm_monitor_platform_update))
    /\ WF_allVars(OnLinux(ReleaseOwner) \/ OnWindows(Windows!Shell))

-----------------------------------------------------------------------------
(* Flags, counters and deadlines stay in range, and neither thread uses the *)
(* sampler after the last reference freed it                                *)
(* (lsm_monitor_platform_destroy, sampler_thread_main,                      *)
(* windows_sampler_release).                                                *)
MemorySafe ==
    /\ TypeOK /\ NoUseAfterFree
    /\ Windows!TypeOK /\ Windows!MemorySafe

(* A sample is copied whole, never while the collectors write the buffer,   *)
(* on Windows as long as no topology request overtakes it                   *)
(* (lsm_monitor_platform_update, copy_monitor_snapshot).                    *)
SamplesWhole == SnapshotWhole /\ Windows!SnapshotWhole

(* A topology request is kept until a scan has served it, although on       *)
(* Windows its flag is reset without the lock                               *)
(* (lsm_monitor_platform_request_topology_refresh).  The exception, on      *)
(* Linux: a request taken with a sample whose clock reading did not advance *)
(* (monitor_backend_linux.c:158).                                           *)
RequestsKept == TopologyRequestKept /\ Windows!TopologyRequestKept

(* Generations are published in order, one by one across the wrap, and a    *)
(* topology scan that failed is tried again later and later                 *)
(* (sample_once, topology_retry_delay).                                     *)
SamplesPaced == GenerationsConsecutive /\ RetryBacksOff

(* Both workers take up a request, end when told to and free what they      *)
(* shared (sampler_thread_main, windows_sampler_thread).                    *)
SamplersRespond == WorkerResponds /\ Windows!RequestServed
=============================================================================
