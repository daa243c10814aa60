------------------------- MODULE MonitorSamplerProofs -------------------------
(***************************************************************************)
(* Proofs about the sampling workers of both platforms, for every modulus  *)
(* of the generation counter, every interval and every length of a run.    *)
(*                                                                         *)
(* Linux.  That a copy is whole and that generations are consecutive rest  *)
(* on the same fact: an unread sample excludes a request, and a request or *)
(* a sample under way excludes an unread sample, so the buffer is at most  *)
(* one generation ahead of the public snapshot, and only while the worker  *)
(* has nothing to write.  Back-off needs the instant at which the last     *)
(* scan began to be tied to the deadline computed when it ended.           *)
(*                                                                         *)
(* Windows.  Each thread owns one reference until it leaves, and the two   *)
(* halves of the buffer differ only between the actions that write them.   *)
(***************************************************************************)
EXTENDS MonitorSampler, TLAPS

-----------------------------------------------------------------------------
(* Linux.                                                                   *)

(* Who holds a reference to the sampler; init's failure leaves nobody.      *)
HoldersCounted ==
    /\ main = "init" => worker = "none" /\ references = 0 /\ ~freed
    /\ main \in {"running", "unref"} =>
           /\ worker # "none" /\ ~freed
           /\ references = IF worker = "done" THEN 1 ELSE 2
    /\ main = "gone" =>
           \/ worker \in {"none", "done"} /\ freed /\ references = 0
           \/ worker \notin {"none", "done"} /\ ~freed /\ references = 1
    /\ main \in {"init", "running"} => ~stop_requested

(* The three flags that keep reader and writer apart.                       *)
FlagsExclude ==
    /\ sample_in_progress <=> worker \in {"sample", "collect", "finish"}
    /\ sample_in_progress => ~request_pending
    /\ sample_ready => /\ ~request_pending /\ ~sample_in_progress
                       /\ worker \notin {"none", "discover"}

(* The buffer has a sample the public snapshot has not: it waits to be      *)
(* published, or was completed when the program was already stopping.       *)
BufferAhead == sample_ready \/ (worker = "finish" /\ sampled)

BufferNext ==
    /\ sample.generation = NextGeneration(public.generation)
    /\ sample.seconds > public.seconds

BufferShown ==
    sample.generation = public.generation /\ sample.seconds = public.seconds

BufferFollows ==
    /\ main = "init" => sample = EmptySnapshot /\ public = EmptySnapshot
    /\ ~stop_requested => IF BufferAhead THEN BufferNext ELSE BufferShown
    /\ sample.seconds <= last_update
    /\ worker = "collect" => sample.seconds < last_update
    /\ last_update <= clock

(* The deadline of a retry was computed from the instant the scan began.    *)
RetryAnchored ==
    /\ topology_retry_pending => topology_retry_failures >= 1
    /\ worker = "collect" /\ refresh_topology => attempted = last_update
    /\ (topology_retry_pending /\ ~(worker = "collect" /\ refresh_topology)) =>
           topology_retry_not_before =
               attempted + topology_retry_delay(topology_retry_failures)

LinuxInv ==
    /\ TypeOK
    /\ HoldersCounted
    /\ FlagsExclude
    /\ BufferFollows
    /\ RetryAnchored
    /\ SnapshotWhole
    /\ TopologyRequestKept

-----------------------------------------------------------------------------
(* Windows.                                                                 *)

ThreadGone == sampler_thread.at \in {"none", "gone"}

WindowsHolders ==
    /\ ui \in {"start", "unavailable"} =>
           ~sampler.allocated /\ sampler_thread.at = "none" /\ ~asked
    /\ ui \in {"signalstart", "running", "signal", "signalstop", "join"} =>
           /\ sampler.allocated /\ sampler_thread.at # "none"
           /\ sampler.references = IF ThreadGone THEN 1 ELSE 2
    /\ ui = "exit" =>
           IF ThreadGone THEN ~sampler.allocated
                         ELSE sampler.allocated /\ sampler.references = 1

SampleUnderWay ==
    sampler_thread.at \in {"head", "due", "clear", "tail", "finish"}

WindowsFlags ==
    /\ sampler.sample_in_progress <=> SampleUnderWay
    /\ sampler_thread.at \notin {"due", "clear", "tail"} =>
           sampler.sample.head = sampler.sample.tail
    /\ ~overlapped =>
           /\ sampler.sample_in_progress => ~sampler.request_pending
           /\ sampler.sample_ready =>
                  ~sampler.sample_in_progress /\ ~sampler.request_pending

WindowsInv ==
    /\ Windows!TypeOK
    /\ WindowsHolders
    /\ WindowsFlags
    /\ Windows!MemorySafe
    /\ Windows!SnapshotWhole
    /\ Windows!TopologyRequestKept

PlatformInv == LinuxInv /\ WindowsInv

-----------------------------------------------------------------------------
(* The successor of a generation is a generation and is not 0, which means  *)
(* "never sampled" (sample_once).                                           *)
LEMMA NextGenerationType ==
    ASSUME NEW g \in 0 .. GenerationModulus - 1
    PROVE  NextGeneration(g) \in 1 .. GenerationModulus - 1
<1>1. g + 1 < GenerationModulus \/ g + 1 = GenerationModulus
    BY SamplerAssumption
<1>2. CASE g + 1 < GenerationModulus
    BY <1>2, SamplerAssumption DEF NextGeneration
<1>3. CASE g + 1 = GenerationModulus
  <2>1. (g + 1) % GenerationModulus = 0
    BY <1>3, SamplerAssumption
  <2> QED
    BY <2>1, SamplerAssumption DEF NextGeneration
<1> QED
    BY <1>1, <1>2, <1>3

(* Every step of the Linux sampler keeps its invariant.                     *)
LEMMA LinuxStep == LinuxInv /\ [Next]_vars => LinuxInv'
<1> SUFFICES ASSUME LinuxInv, [Next]_vars
             PROVE  LinuxInv'
    OBVIOUS
<1> USE SamplerAssumption DEF LinuxInv, TypeOK, HoldersCounted, FlagsExclude,
       BufferFollows, BufferAhead, BufferNext, BufferShown, RetryAnchored,
       SnapshotWhole, TopologyRequestKept, WorkerStates, MainStates, Instants,
       Snapshots, protocolVars, lifeVars, retryVars, dataVars, localVars
<1>1. CASE Tick
    BY <1>1 DEF Tick
<1>2. CASE PlatformInit
  <2>1. TypeOK'
    BY <1>2 DEF PlatformInit, copy_public_snapshot, BufferBeingWritten,
                WorkerReference, EmptySnapshot
  <2>2. HoldersCounted'
    BY <1>2 DEF PlatformInit, copy_public_snapshot, BufferBeingWritten,
                WorkerReference, EmptySnapshot
  <2>3. FlagsExclude'
    BY <1>2 DEF PlatformInit, copy_public_snapshot, BufferBeingWritten,
                WorkerReference, EmptySnapshot
  <2>4. BufferFollows'
    BY <1>2 DEF PlatformInit, copy_public_snapshot, BufferBeingWritten,
                WorkerReference, EmptySnapshot
  <2>5. RetryAnchored'
    BY <1>2 DEF PlatformInit, copy_public_snapshot, BufferBeingWritten,
                WorkerReference, EmptySnapshot
  <2>6. SnapshotWhole' /\ TopologyRequestKept'
    BY <1>2 DEF PlatformInit, copy_public_snapshot, BufferBeingWritten,
                WorkerReference, EmptySnapshot
  <2> QED
    BY <2>1, <2>2, <2>3, <2>4, <2>5, <2>6
<1>3. CASE PlatformInitFails
    BY <1>3 DEF PlatformInitFails
<1>4. CASE lsm_monitor_platform_update
  <2>1. TypeOK'
    <3>1. public' \in Snapshots
      BY <1>4 DEF lsm_monitor_platform_update, copy_public_snapshot,
                  BufferBeingWritten
    <3>2. worker' \in WorkerStates
      BY <1>4 DEF lsm_monitor_platform_update, Signal
    <3>3. request_pending' \in BOOLEAN /\ sample_ready' \in BOOLEAN
      BY <1>4 DEF lsm_monitor_platform_update
    <3> QED
      BY <1>4, <3>1, <3>2, <3>3 DEF lsm_monitor_platform_update
  <2>2. HoldersCounted'
    BY <1>4 DEF lsm_monitor_platform_update, copy_public_snapshot,
                BufferBeingWritten, MayRequest, Signal
  <2>3. FlagsExclude'
    BY <1>4 DEF lsm_monitor_platform_update, copy_public_snapshot,
                BufferBeingWritten, MayRequest, Signal
  <2>4. BufferFollows'
    BY <1>4 DEF lsm_monitor_platform_update, copy_public_snapshot,
                BufferBeingWritten, MayRequest, Signal
  <2>5. RetryAnchored'
    BY <1>4 DEF lsm_monitor_platform_update, copy_public_snapshot,
                BufferBeingWritten, MayRequest, Signal
  <2>6. SnapshotWhole' /\ TopologyRequestKept'
    BY <1>4 DEF lsm_monitor_platform_update, copy_public_snapshot,
                BufferBeingWritten, MayRequest, Signal
  <2> QED
    BY <2>1, <2>2, <2>3, <2>4, <2>5, <2>6
<1>5. CASE lsm_monitor_platform_request_topology_refresh
  <2>1. TypeOK'
    BY <1>5, ZenonT(40) DEF lsm_monitor_platform_request_topology_refresh,
                MayRequestTopology, Signal
  <2>2. HoldersCounted'
    BY <1>5 DEF lsm_monitor_platform_request_topology_refresh,
                MayRequestTopology, Signal
  <2>3. FlagsExclude'
    BY <1>5 DEF lsm_monitor_platform_request_topology_refresh,
                MayRequestTopology, Signal
  <2>4. BufferFollows'
    BY <1>5 DEF lsm_monitor_platform_request_topology_refresh,
                MayRequestTopology, Signal
  <2>5. RetryAnchored'
    BY <1>5 DEF lsm_monitor_platform_request_topology_refresh,
                MayRequestTopology, Signal
  <2>6. SnapshotWhole' /\ TopologyRequestKept'
    BY <1>5 DEF lsm_monitor_platform_request_topology_refresh,
                MayRequestTopology, Signal
  <2> QED
    BY <2>1, <2>2, <2>3, <2>4, <2>5, <2>6
<1>6. CASE destroy_sampler
    BY <1>6 DEF destroy_sampler, Signal
<1>7. CASE ReleaseOwner
    BY <1>7 DEF ReleaseOwner, sampler_release
<1>8. ASSUME NEW complete \in BOOLEAN, DiscoveryEnds(complete)
      PROVE  LinuxInv'
    BY <1>8 DEF DiscoveryEnds
<1>9. CASE WorkerWaits
    BY <1>9 DEF WorkerWaits
<1>10. CASE SpuriousWakeup
    BY <1>10 DEF SpuriousWakeup
<1>11. CASE WorkerSeesStop
    BY <1>11 DEF WorkerSeesStop
<1>12. CASE RequestTaken
    BY <1>12, ZenonT(40) DEF RequestTaken, TakeTopologyRequest
<1>13. CASE CollectionBegins
    BY <1>13 DEF CollectionBegins, TopologyDue, interval_due
<1>14. CASE ClockStalled
    BY <1>14, ZenonT(40) DEF ClockStalled
<1>15. ASSUME NEW complete \in BOOLEAN, CollectionEnds(complete)
       PROVE  LinuxInv'
  <2>1. TypeOK'
    <3>1. sample' \in Snapshots
      <4>1. NextGeneration(sample.generation) \in 0 .. GenerationModulus - 1
        BY NextGenerationType
      <4> QED
        BY <1>15, <4>1 DEF CollectionEnds
    <3>2. topology_retry_failures' \in 0 .. MaxFailures
      BY <1>15 DEF CollectionEnds
    <3>3. topology_retry_not_before' \in Nat
      BY <1>15, <3>2 DEF CollectionEnds, topology_retry_delay
    <3>4. topology_retry_pending' \in BOOLEAN
      BY <1>15 DEF CollectionEnds
    <3>5. last_topology_scan' \in Instants /\ last_battery_update' \in Instants
      BY <1>15 DEF CollectionEnds
    <3> QED
      BY <1>15, <3>1, <3>2, <3>3, <3>4, <3>5 DEF CollectionEnds
  <2>2. HoldersCounted'
    BY <1>15, NextGenerationType DEF CollectionEnds, topology_retry_delay
  <2>3. FlagsExclude'
    BY <1>15, NextGenerationType DEF CollectionEnds, topology_retry_delay
  <2>4. BufferFollows'
    BY <1>15, NextGenerationType DEF CollectionEnds, topology_retry_delay
  <2>5. RetryAnchored'
    BY <1>15, NextGenerationType DEF CollectionEnds, topology_retry_delay
  <2>6. SnapshotWhole' /\ TopologyRequestKept'
    BY <1>15, NextGenerationType DEF CollectionEnds, topology_retry_delay
  <2> QED
    BY <2>1, <2>2, <2>3, <2>4, <2>5, <2>6
<1>16. CASE SampleFinished
  <2>1. TypeOK'
    BY <1>16, ZenonT(40) DEF SampleFinished
  <2>2. HoldersCounted'
    BY <1>16 DEF SampleFinished
  <2>3. FlagsExclude'
    BY <1>16 DEF SampleFinished
  <2>4. BufferFollows'
    BY <1>16 DEF SampleFinished
  <2>5. RetryAnchored'
    BY <1>16 DEF SampleFinished
  <2>6. SnapshotWhole' /\ TopologyRequestKept'
    BY <1>16 DEF SampleFinished
  <2> QED
    BY <2>1, <2>2, <2>3, <2>4, <2>5, <2>6
<1>17. CASE WorkerExits
    BY <1>17 DEF WorkerExits, sampler_release
<1>18. CASE UNCHANGED vars
    BY <1>18 DEF vars
<1> QED
    BY <1>1, <1>2, <1>3, <1>4, <1>5, <1>6, <1>7, <1>8, <1>9, <1>10, <1>11,
       <1>12, <1>13, <1>14, <1>15, <1>16, <1>17, <1>18
    DEF Next, WorkerStep, MainStep, Stopped

(* Every step of the Windows sampler keeps its invariant.                   *)
LEMMA WindowsStep == WindowsInv /\ [Windows!Next]_windowsVars => WindowsInv'
<1> SUFFICES ASSUME WindowsInv, [Windows!Next]_windowsVars
             PROVE  WindowsInv'
    OBVIOUS
<1> USE DEF WindowsInv, Windows!TypeOK, Windows!Samplers, Windows!Threads,
       Windows!Halves, Windows!Numbers,
       WindowsHolders, ThreadGone, SampleUnderWay, WindowsFlags,
       Windows!MemorySafe, Windows!SnapshotWhole, Windows!TopologyRequestKept,
       Windows!Touch
<1>1. CASE Windows!WaitForRequest
    BY <1>1 DEF Windows!WaitForRequest
<1>2. CASE Windows!TakeRequest
  <2>1. Windows!TypeOK'
    <3>1. CASE sampler.stop_requested \/ ~sampler.request_pending
      BY <1>2, <3>1 DEF Windows!TakeRequest
    <3>2. CASE ~sampler.stop_requested /\ sampler.request_pending
      <4>1. sampler' \in Windows!Samplers
        BY <1>2, <3>2, ZenonT(40) DEF Windows!TakeRequest
      <4>2. sampler_thread' \in Windows!Threads
        BY <1>2, <3>2, ZenonT(40) DEF Windows!TakeRequest
      <4> QED
        BY <1>2, <4>1, <4>2 DEF Windows!TakeRequest
    <3> QED
      BY <3>1, <3>2
  <2>2. WindowsHolders'
    BY <1>2, ZenonT(40) DEF Windows!TakeRequest
  <2>3. WindowsFlags'
    <3>1. CASE sampler.stop_requested \/ ~sampler.request_pending
      BY <1>2, <3>1 DEF Windows!TakeRequest
    <3>2. CASE ~sampler.stop_requested /\ sampler.request_pending
      BY <1>2, <3>2, ZenonT(40) DEF Windows!TakeRequest
    <3> QED
      BY <3>1, <3>2
  <2>4. Windows!MemorySafe'
    BY <1>2 DEF Windows!TakeRequest
  <2>5. Windows!SnapshotWhole' /\ Windows!TopologyRequestKept'
    BY <1>2 DEF Windows!TakeRequest
  <2> QED
    BY <2>1, <2>2, <2>3, <2>4, <2>5
<1>3. CASE Windows!SampleHead
  <2>1. Windows!TypeOK'
    <3>1. (sampler.sample.head + 1) % 2 \in 0 .. 1
      OBVIOUS
    <3> QED
      BY <1>3, <3>1 DEF Windows!SampleHead
  <2>2. WindowsHolders'
    BY <1>3 DEF Windows!SampleHead
  <2>3. WindowsFlags'
    BY <1>3 DEF Windows!SampleHead
  <2>4. Windows!MemorySafe'
    BY <1>3 DEF Windows!SampleHead
  <2>5. Windows!SnapshotWhole' /\ Windows!TopologyRequestKept'
    BY <1>3 DEF Windows!SampleHead
  <2> QED
    BY <2>1, <2>2, <2>3, <2>4, <2>5
<1>4. CASE Windows!TopologyDue
    BY <1>4 DEF Windows!TopologyDue
<1>5. CASE Windows!RecordAttempt
    BY <1>5 DEF Windows!RecordAttempt
<1>6. CASE Windows!SampleTail
    BY <1>6 DEF Windows!SampleTail
<1>7. CASE Windows!FinishSample
    BY <1>7, ZenonT(40) DEF Windows!FinishSample
<1>8. CASE Windows!LeaveThread
  <2>1. Windows!TypeOK'
    <3>1. sampler.references \in 1 .. 2
      BY <1>8 DEF Windows!LeaveThread
    <3>2. sampler.references - 1 \in 0 .. 2
      BY <3>1
    <3>3. (sampler.references > 1) \in BOOLEAN
      OBVIOUS
    <3> QED
      BY <1>8, <3>2, <3>3
      DEF Windows!LeaveThread, Windows!windows_sampler_release
  <2>2. WindowsHolders'
    BY <1>8 DEF Windows!LeaveThread, Windows!windows_sampler_release
  <2>3. WindowsFlags'
    BY <1>8 DEF Windows!LeaveThread, Windows!windows_sampler_release
  <2>4. Windows!MemorySafe'
    BY <1>8 DEF Windows!LeaveThread, Windows!windows_sampler_release
  <2>5. Windows!SnapshotWhole' /\ Windows!TopologyRequestKept'
    BY <1>8 DEF Windows!LeaveThread, Windows!windows_sampler_release
  <2> QED
    BY <2>1, <2>2, <2>3, <2>4, <2>5
<1>9. CASE Windows!lsm_monitor_platform_init
  <2>1. Windows!TypeOK'
    <3>1. CASE UNCHANGED <<sampler, sampler_thread>>
      BY <1>9, <3>1 DEF Windows!lsm_monitor_platform_init
    <3>2. CASE sampler' = [Windows!NoSampler EXCEPT !.allocated = TRUE,
                           !.references = 2, !.request_pending = TRUE]
               /\ sampler_thread' = [sampler_thread EXCEPT !.at = "wait"]
               /\ ui' = "signalstart"
      <4>1. sampler' = [allocated |-> TRUE, references |-> 2, event |-> FALSE,
                        stop_requested |-> FALSE, request_pending |-> TRUE,
                        sample_in_progress |-> FALSE, sample_ready |-> FALSE,
                        topology_refresh_requested |-> FALSE,
                        sample |-> [head |-> 0, tail |-> 0]]
        BY <3>2 DEF Windows!NoSampler
      <4>2. sampler' \in Windows!Samplers
        BY <4>1
      <4>3. sampler_thread' \in Windows!Threads
        BY <3>2
      <4> QED
        BY <1>9, <3>2, <4>2, <4>3 DEF Windows!lsm_monitor_platform_init
    <3> QED
      BY <1>9, <3>1, <3>2 DEF Windows!lsm_monitor_platform_init
  <2>2. WindowsHolders'
    BY <1>9 DEF Windows!lsm_monitor_platform_init, Windows!NoSampler
  <2>3. WindowsFlags'
    <3>1. CASE UNCHANGED <<sampler, sampler_thread>>
      BY <1>9, <3>1 DEF Windows!lsm_monitor_platform_init
    <3>2. CASE sampler' = [Windows!NoSampler EXCEPT !.allocated = TRUE,
                           !.references = 2, !.request_pending = TRUE]
               /\ sampler_thread' = [sampler_thread EXCEPT !.at = "wait"]
               /\ ui' = "signalstart"
      BY <1>9, <3>2 DEF Windows!lsm_monitor_platform_init, Windows!NoSampler
    <3> QED
      BY <1>9, <3>1, <3>2 DEF Windows!lsm_monitor_platform_init
  <2>4. Windows!MemorySafe'
    BY <1>9 DEF Windows!lsm_monitor_platform_init, Windows!NoSampler
  <2>5. Windows!SnapshotWhole' /\ Windows!TopologyRequestKept'
    <3>1. CASE UNCHANGED <<sampler, sampler_thread>>
      BY <1>9, <3>1 DEF Windows!lsm_monitor_platform_init
    <3>2. CASE sampler' = [Windows!NoSampler EXCEPT !.allocated = TRUE,
                           !.references = 2, !.request_pending = TRUE]
               /\ sampler_thread' = [sampler_thread EXCEPT !.at = "wait"]
               /\ ui' = "signalstart"
      BY <1>9, <3>2 DEF Windows!lsm_monitor_platform_init, Windows!NoSampler
    <3> QED
      BY <1>9, <3>1, <3>2 DEF Windows!lsm_monitor_platform_init
  <2> QED
    BY <2>1, <2>2, <2>3, <2>4, <2>5
<1>10. CASE Windows!SignalRequest
    BY <1>10 DEF Windows!SignalRequest
<1>11. CASE Windows!lsm_monitor_platform_update
    BY <1>11, ZenonT(40) DEF Windows!lsm_monitor_platform_update, Windows!MayRequest
<1>12. CASE Windows!lsm_monitor_platform_request_topology_refresh
    BY <1>12 DEF Windows!lsm_monitor_platform_request_topology_refresh
<1>13. CASE Windows!RequestStop
  <2>1. Windows!TypeOK'
    <3>1. CASE ui = "running"
      <4>1. sampler' = [sampler EXCEPT !.stop_requested = TRUE,
                                       !.request_pending = FALSE]
        BY <1>13, <3>1 DEF Windows!RequestStop
      <4>2. sampler' \in Windows!Samplers
        BY <4>1
      <4> QED
        BY <1>13, <3>1, <4>2 DEF Windows!RequestStop
    <3>2. CASE ui # "running"
      BY <1>13, <3>2 DEF Windows!RequestStop
    <3> QED
      BY <3>1, <3>2
  <2>2. WindowsHolders'
    BY <1>13 DEF Windows!RequestStop
  <2>3. WindowsFlags'
    BY <1>13, ZenonT(40) DEF Windows!RequestStop
  <2>4. Windows!MemorySafe'
    BY <1>13 DEF Windows!RequestStop
  <2>5. Windows!SnapshotWhole' /\ Windows!TopologyRequestKept'
    BY <1>13 DEF Windows!RequestStop
  <2> QED
    BY <2>1, <2>2, <2>3, <2>4, <2>5
<1>14. CASE Windows!SignalStop
    BY <1>14 DEF Windows!SignalStop
<1>15. CASE Windows!LeaveSampler
  <2>1. Windows!TypeOK'
    <3>1. sampler.references \in 1 .. 2
      BY <1>15 DEF Windows!LeaveSampler
    <3>2. sampler.references - 1 \in 0 .. 2
      BY <3>1
    <3>3. (sampler.references > 1) \in BOOLEAN
      OBVIOUS
    <3> QED
      BY <1>15, <3>2, <3>3
      DEF Windows!LeaveSampler, Windows!windows_sampler_release
  <2>2. WindowsHolders'
    BY <1>15 DEF Windows!LeaveSampler, Windows!windows_sampler_release
  <2>3. WindowsFlags'
    BY <1>15 DEF Windows!LeaveSampler, Windows!windows_sampler_release
  <2>4. Windows!MemorySafe'
    BY <1>15 DEF Windows!LeaveSampler, Windows!windows_sampler_release
  <2>5. Windows!SnapshotWhole' /\ Windows!TopologyRequestKept'
    BY <1>15 DEF Windows!LeaveSampler, Windows!windows_sampler_release
  <2> QED
    BY <2>1, <2>2, <2>3, <2>4, <2>5
<1>16. CASE UNCHANGED windowsVars
    BY <1>16 DEF windowsVars
<1> QED
    BY <1>1, <1>2, <1>3, <1>4, <1>5, <1>6, <1>7, <1>8, <1>9, <1>10, <1>11,
       <1>12, <1>13, <1>14, <1>15, <1>16
    DEF Windows!Next, Windows!Worker, Windows!Shell, Windows!Exited,
        Windows!vars, windowsVars

-----------------------------------------------------------------------------
(* The program is started on either platform.                               *)
LEMMA PlatformInitially == PlatformChosen => PlatformInv
<1> SUFFICES ASSUME PlatformChosen
             PROVE  PlatformInv
    OBVIOUS
<1>1. LinuxInv
  <2>1. EmptySnapshot \in Snapshots
    BY SamplerAssumption DEF EmptySnapshot, Snapshots, Instants
  <2>2. TypeOK
    <3>1. 0 \in Instants /\ 0 \in 0 .. MaxFailures /\ 0 \in 0 .. 2
      BY SamplerAssumption DEF Instants
    <3>2. sample \in Snapshots /\ public \in Snapshots
      BY <2>1 DEF PlatformChosen, Init
    <3>3. worker \in WorkerStates /\ main \in MainStates
      BY DEF PlatformChosen, Init, WorkerStates, MainStates
    <3> QED
      BY <3>1, <3>2, <3>3 DEF PlatformChosen, Init, TypeOK
  <2>3. HoldersCounted /\ FlagsExclude /\ RetryAnchored
    BY DEF PlatformChosen, Init, HoldersCounted, FlagsExclude, RetryAnchored
  <2>4. BufferFollows /\ SnapshotWhole /\ TopologyRequestKept
    BY DEF PlatformChosen, Init, BufferFollows, BufferAhead, BufferShown,
           SnapshotWhole, TopologyRequestKept, EmptySnapshot
  <2> QED
    BY <2>2, <2>3, <2>4 DEF LinuxInv
<1>2. WindowsInv
  <2>1. sampler \in Windows!Samplers /\ sampler_thread \in Windows!Threads
    BY DEF PlatformChosen, Windows!Init, Windows!NoSampler, Windows!Samplers,
           Windows!Threads, Windows!Halves, Windows!Numbers
  <2>2. Windows!TypeOK
    <3>1. monitor \in Windows!Halves
      BY DEF PlatformChosen, Windows!Init, Windows!NoSampler,
             Windows!Halves, Windows!Numbers
    <3> QED
      BY <2>1, <3>1 DEF PlatformChosen, Windows!Init, Windows!TypeOK
  <2>3. WindowsHolders /\ WindowsFlags
    BY DEF PlatformChosen, Windows!Init, Windows!NoSampler, WindowsHolders,
           ThreadGone, SampleUnderWay, WindowsFlags
  <2>4. Windows!MemorySafe /\ Windows!SnapshotWhole
        /\ Windows!TopologyRequestKept
    BY DEF PlatformChosen, Windows!Init, Windows!NoSampler,
           Windows!MemorySafe, Windows!SnapshotWhole,
           Windows!TopologyRequestKept
  <2> QED
    BY <2>2, <2>3, <2>4 DEF WindowsInv
<1> QED
    BY <1>1, <1>2 DEF PlatformInv

(* A step is one of the platform the program runs on; the other's variables *)
(* stand still.                                                             *)
LEMMA PlatformStep ==
    PlatformInv /\ [PlatformNext]_allVars => PlatformInv'
<1> SUFFICES ASSUME PlatformInv, [PlatformNext]_allVars
             PROVE  PlatformInv'
    OBVIOUS
<1>1. [Next]_vars /\ [Windows!Next]_windowsVars
    BY DEF PlatformNext, OnLinux, OnWindows, allVars
<1> QED
    BY <1>1, LinuxStep, WindowsStep DEF PlatformInv

(* What a step of the Linux sampler may do to the public snapshot and when  *)
(* it may scan: the copy takes the next generation, and a retry waits for   *)
(* its deadline.                                                            *)
LEMMA PacedStep ==
    LinuxInv /\ [Next]_vars => [GenerationStep]_vars /\ [RetryStep]_vars
<1> SUFFICES ASSUME LinuxInv, Next
             PROVE  GenerationStep /\ RetryStep
    BY DEF vars
<1>1. GenerationStep
  <2> SUFFICES ASSUME public' # public
               PROVE  GenerationStep
      BY DEF GenerationStep
  <2>1. CASE PlatformInit
    <3>1. sample = EmptySnapshot /\ public = EmptySnapshot /\ worker = "none"
      BY <2>1 DEF PlatformInit, LinuxInv, HoldersCounted, BufferFollows
    <3>2. public' = [sample EXCEPT !.whole = TRUE]
      BY <2>1, <3>1 DEF PlatformInit, copy_public_snapshot, BufferBeingWritten
    <3>3. public' = EmptySnapshot
      BY <3>1, <3>2, Zenon DEF EmptySnapshot
    <3> QED
      BY <3>1, <3>3
  <2>2. CASE lsm_monitor_platform_update
    <3>1. sample_ready /\ ~stop_requested /\ BufferNext
      BY <2>2 DEF lsm_monitor_platform_update, LinuxInv, HoldersCounted,
                  BufferFollows, BufferAhead
    <3>2. /\ public'.generation = sample.generation
          /\ public'.seconds = sample.seconds
      BY <2>2, <3>1 DEF lsm_monitor_platform_update, copy_public_snapshot,
                        LinuxInv, TypeOK, Snapshots
    <3>3. public.generation \in 0 .. GenerationModulus - 1
      BY DEF LinuxInv, TypeOK, Snapshots
    <3>4. NextGeneration(public.generation) # 0
      BY <3>3, NextGenerationType, SamplerAssumption
    <3> QED
      BY <3>1, <3>2, <3>4 DEF BufferNext, GenerationStep
  <2>3. PlatformInit \/ lsm_monitor_platform_update
    BY DEF Next, WorkerStep, MainStep, Stopped, Tick, SpuriousWakeup,
           PlatformInitFails, lsm_monitor_platform_request_topology_refresh,
           destroy_sampler, ReleaseOwner, DiscoveryEnds, WorkerWaits,
           WorkerSeesStop, RequestTaken, CollectionBegins, ClockStalled,
           CollectionEnds, SampleFinished, WorkerExits, vars, dataVars
  <2> QED
    BY <2>1, <2>2, <2>3
<1>2. RetryStep
  <2> SUFFICES ASSUME CollectionBegins, ~force_topology,
                      topology_retry_pending, refresh_topology'
               PROVE  RetryStep
      BY DEF RetryStep
  <2>1. clock >= topology_retry_not_before
    BY DEF CollectionBegins, TopologyDue
  <2>2. /\ topology_retry_not_before =
               attempted + topology_retry_delay(topology_retry_failures)
        /\ topology_retry_failures >= 1
    BY DEF CollectionBegins, LinuxInv, RetryAnchored
  <2> QED
    BY <2>1, <2>2, SamplerAssumption
    DEF RetryStep, topology_retry_delay, LinuxInv, TypeOK, Instants
<1> QED
    BY <1>1, <1>2

(* The invariants of both samplers hold throughout, for every length of a   *)
(* run, every interval and every modulus of the generation counter.         *)
THEOREM SamplerInvariant == PlatformSpec => []PlatformInv
<1> QED
    BY PlatformInitially, PlatformStep, PTL DEF PlatformSpec

(* Neither thread of either sampler uses it after the last reference freed  *)
(* it, and every variable keeps its type (sampler_thread_main,              *)
(* windows_sampler_release).                                                *)
THEOREM SamplersFreedLast == PlatformSpec => []MemorySafe
<1>1. PlatformInv => MemorySafe
    BY DEF PlatformInv, LinuxInv, HoldersCounted, TypeOK, MainStates,
           NoUseAfterFree, WindowsInv, MemorySafe
<1> QED
    BY <1>1, SamplerInvariant, PTL

(* lsm_monitor_platform_update never copies the buffer while the collectors *)
(* write it.                                                                *)
THEOREM SnapshotsCopiedWhole == PlatformSpec => []SamplesWhole
<1>1. PlatformInv => SamplesWhole
    BY DEF PlatformInv, LinuxInv, WindowsInv, SamplesWhole
<1> QED
    BY <1>1, SamplerInvariant, PTL

(* A topology request is held by the flag or by the worker until a scan     *)
(* begins, whatever the worker was doing when it arrived.                   *)
THEOREM TopologyRequestsKept == PlatformSpec => []RequestsKept
<1>1. PlatformInv => RequestsKept
    BY DEF PlatformInv, LinuxInv, WindowsInv, RequestsKept
<1> QED
    BY <1>1, SamplerInvariant, PTL

(* Published generations are consecutive across the wrap of the counter,    *)
(* and failed topology scans back off.                                      *)
THEOREM SamplesArePaced == PlatformSpec => SamplesPaced
<1>1. PlatformInv /\ [PlatformNext]_allVars =>
          [GenerationStep]_vars /\ [RetryStep]_vars
  <2> SUFFICES ASSUME PlatformInv, [PlatformNext]_allVars
               PROVE  [GenerationStep]_vars /\ [RetryStep]_vars
      OBVIOUS
  <2>1. LinuxInv /\ [Next]_vars
    BY DEF PlatformInv, PlatformNext, OnLinux, OnWindows, allVars
  <2> QED
    BY <2>1, PacedStep
<1> QED
    BY <1>1, SamplerInvariant, PTL
    DEF PlatformSpec, SamplesPaced, GenerationsConsecutive, RetryBacksOff
=============================================================================
