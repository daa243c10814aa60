----------------------------- MODULE Accelerators -----------------------------
(***************************************************************************)
(* Graphics processors and NPUs of the Linux sampler                       *)
(* (src/monitor_hardware.c, src/hardware_topology.c, src/intel_gpu.c,      *)
(* src/nvml.c, src/npu_telemetry.c).  The list of GPUs is made from DRM by *)
(* a topology scan and extended by NVML at every sample.  What is kept for *)
(* a GPU lies in three tables: the list, counter baselines by identity,    *)
(* and telemetry (file paths, an Intel backend with open counters) by      *)
(* position in the list.  Scans fail, reads fail, and drivers are unbound  *)
(* and bound again at any time.                                            *)
(*                                                                         *)
(* An identity is a number; those that NVML gives to GPUs it does not find *)
(* in the list come after those of DRM, as "nvml-..." does after           *)
(* "/sys/...".  A binding of a driver to a GPU is numbered, 0 while there  *)
(* is none.  A cumulative counter is the binding that counts and the time  *)
(* it was read.                                                            *)
(***************************************************************************)
EXTENDS Integers, FiniteSets, Sequences, Functions

CONSTANTS
    Gpus, Intel,        \* GPUs of DRM, and those with an Intel driver.
    NvmlOrder,          \* What NVML reports, in its order: the GPU of DRM a
                        \* device is, or 0, and its identity as NVML's.
    MaxGpus,            \* LSM_MAX_GPUS.
    NpuPresent,         \* The machine has an NPU.
    MinBusySample,      \* LSM_NPU_MIN_BUSY_SAMPLE_SECONDS.
    Elapsed,            \* How long samples can be apart.
    MaxTime, MaxBinds   \* Bounds: the clock, and bindings of drivers.

AcceleratorsAssumption ==
    /\ IsFiniteSet(Gpus) /\ Gpus \subseteq Nat /\ Intel \subseteq Gpus
    /\ NvmlOrder \in Seq([gpu : Nat, name : Nat \ Gpus])
    /\ MaxGpus \in Nat /\ MaxGpus >= Cardinality(Gpus)
    /\ NpuPresent \in BOOLEAN /\ MinBusySample \in Nat \ {0}
    /\ Elapsed \subseteq Nat \ {0} /\ MaxTime \in Nat /\ MaxBinds \in Nat \ {0}

NaN == [kind |-> "nan"]
FromNvml == [kind |-> "nvml"]
Interval(from, to) == [kind |-> "interval", from |-> from, to |-> to]
Average(from, to, span) ==
    [kind |-> "average", from |-> from, to |-> to, over |-> span]
NoReading == [binding |-> 0, at |-> 0]
Fresh == [initialized |-> FALSE, previous |-> NoReading]
NoTelemetry == [identity |-> 0, files |-> FALSE, backend |-> 0]

VARIABLES
    binding, binds,     \* The machine: the binding of each GPU; bindings made.
    step,               \* Where the sampling thread is.
    now, before,        \* The time of this sample and of the one before.
    gpus,               \* monitor->gpus: the identities listed.
    told,               \* What was listed when topology_generation last rose.
    gpu_states,         \* By identity: the engine counter kept.
    gpu_telemetry,      \* By position: telemetry caches.
    backends,           \* Every Intel backend ever made.
    nvml,               \* "none", "on", or "off" once it failed to start.
    nvml_index,         \* How many of its devices have been asked.
    use,                \* By identity: the utilization shown.
    npu, npu_use        \* The NPU's telemetry; the utilization shown.

machineVars == <<binding, binds>>
clockVars == <<now, before>>
listVars == <<gpus, told, gpu_states, gpu_telemetry>>
nvmlVars == <<nvml, nvml_index>>
npuVars == <<npu, npu_use>>
vars == <<machineVars, step, clockVars, listVars, backends, nvmlVars, use, npuVars>>

TypeOK ==
    /\ binding \in [Gpus -> 0 .. MaxBinds]
    /\ step \in {"initialise", "idle", "scan", "gpus", "nvml", "devices", "npus",
                 "stopped"}
    /\ Len(gpus) <= MaxGpus /\ Len(gpu_telemetry) <= MaxGpus
    /\ \A i \in DOMAIN backends : backends[i].destroyed \in 0 .. 2
    /\ nvml \in {"none", "on", "off"} /\ nvml_index \in 0 .. Len(NvmlOrder)

Init ==
    /\ binding = [g \in Gpus |-> 1] /\ binds = 1
    /\ step = "initialise" /\ now = 0 /\ before = 0
    /\ gpus = <<>> /\ told = <<>> /\ gpu_states = <<>> /\ gpu_telemetry = <<>>
    /\ backends = <<>> /\ nvml = "none" /\ nvml_index = 0
    /\ use = <<>>
    /\ npu = [initialised |-> FALSE, base |-> 0, elapsed |-> 0, last |-> NaN]
    /\ npu_use = NaN

-----------------------------------------------------------------------------
(* A driver lets go of a GPU, or takes it.                                  *)
MachineChanges(g) ==
    /\ \/ binding[g] # 0 /\ binding' = [binding EXCEPT ![g] = 0] /\ UNCHANGED binds
       \/ /\ binding[g] = 0 /\ binds < MaxBinds /\ binds' = binds + 1
          /\ binding' = [binding EXCEPT ![g] = binds + 1]
    /\ UNCHANGED <<step, clockVars, listVars, backends, nvmlVars, use, npuVars>>

-----------------------------------------------------------------------------
(* refresh_hardware_topology.                                               *)

(* enumerate_gpus, sorted by identity; a list that could not be read to the *)
(* end leaves the one there is, with the GPUs of NVML, sorted as well.      *)
InOrder(ids) ==
    [i \in 1 .. Cardinality(ids) |->
        CHOOSE g \in ids : Cardinality({h \in ids : h <= g}) = i]
enumerate_gpus(ok) ==
    InOrder(IF ok THEN {g \in Gpus : binding[g] # 0} ELSE Range(gpus))

(* hardware_membership_changed.                                             *)
hardware_membership_changed(found) == Range(found) # Range(gpus)

(* reconcile_gpu_states: baselines follow the identity.                     *)
reconcile_gpu_states(found) ==
    gpu_states' = [g \in Range(found) |->
                      IF g \in DOMAIN gpu_states THEN gpu_states[g] ELSE Fresh]

(* gpu_telemetry_cache_paths_valid: the files found once are still there;   *)
(* the Intel backend is not looked at.                                      *)
gpu_telemetry_cache_paths_valid(cache) ==
    cache.files => binding[cache.identity] # 0

(* The cache kept for an identity, if it may be used again.                 *)
Old(g) == {i \in DOMAIN gpu_telemetry : gpu_telemetry[i].identity = g}
Reusable(g) ==
    {i \in Old(g) : gpu_telemetry_cache_paths_valid(gpu_telemetry[i])}

(* Mutant: a cache that is handed on is destroyed as well.                  *)
Mut_Destroyed(found) == Range(gpu_telemetry)

(* destroy_gpu_telemetry: the caches of GPUs that left and those replaced.  *)
Destroyed(found) ==
    {gpu_telemetry[i] : i \in {j \in DOMAIN gpu_telemetry :
        \A g \in Range(found) : j \notin Reusable(g)}}

(* lsm_intel_gpu_create: counters are opened on what is bound now, if       *)
(* anything; there may be no memory for it.                                 *)
lsm_intel_gpu_create(g) ==
    [of |-> g, binding |-> binding[g], initialised |-> FALSE,
     previous |-> NoReading, destroyed |-> 0]

(* The files of a GPU that is bound are found, and those only.              *)
build_gpu_telemetry_cache(g, backend) ==
    [identity |-> g, backend |-> backend, files |-> g \in Gpus /\ binding[g] # 0]

(* synchronise_telemetry_caches: what can be reused is moved, the others    *)
(* are built.                                                               *)
synchronise_telemetry_caches(found) ==
    \E made \in SUBSET {g \in Range(found) \cap Intel : Reusable(g) = {}} :
        LET new == InOrder(made)
            Backend(g) == IF g \notin made THEN 0
                          ELSE Len(backends) + CHOOSE n \in DOMAIN new : new[n] = g
            gone == {cache.backend : cache \in Destroyed(found)}
            Left(b) == IF b \in gone THEN [backends[b] EXCEPT !.destroyed = @ + 1]
                       ELSE backends[b]
        IN  /\ gpu_telemetry' = [i \in DOMAIN found |->
                  IF Reusable(found[i]) # {}
                  THEN gpu_telemetry[CHOOSE j \in Reusable(found[i]) : TRUE]
                  ELSE build_gpu_telemetry_cache(found[i], Backend(found[i]))]
            /\ backends' = [b \in 1 .. Len(backends) + Cardinality(made) |->
                  IF b <= Len(backends) THEN Left(b)
                  ELSE lsm_intel_gpu_create(new[b - Len(backends)])]

refresh_hardware_topology ==
    \E ok \in BOOLEAN :
        LET found == enumerate_gpus(ok)
        IN  /\ gpus' = found
            /\ told' = IF hardware_membership_changed(found) THEN found ELSE told
            /\ reconcile_gpu_states(found)
            /\ synchronise_telemetry_caches(found)

(* lsm_hardware_initialise: GPUs are not sampled yet, NPUs are.             *)
lsm_hardware_initialise ==
    /\ step = "initialise" /\ step' = "npus"
    /\ refresh_hardware_topology
    /\ UNCHANGED <<machineVars, clockVars, nvmlVars, use, npuVars>>

(* lsm_hardware_update, with or without a scan.                             *)
lsm_hardware_update ==
    /\ step = "idle"
    /\ \E elapsed \in Elapsed :
          /\ now + elapsed <= MaxTime
          /\ now' = now + elapsed /\ before' = now
    /\ step' \in {"scan", "gpus"}
    /\ UNCHANGED <<machineVars, listVars, backends, nvmlVars, use, npuVars>>

Scan ==
    /\ step = "scan" /\ step' = "gpus"
    /\ refresh_hardware_topology
    /\ UNCHANGED <<machineVars, clockVars, nvmlVars, use, npuVars>>

-----------------------------------------------------------------------------
(* update_gpus.                                                             *)
Telemetry(i) == IF i \in DOMAIN gpu_telemetry THEN gpu_telemetry[i] ELSE NoTelemetry
Reading(g) == [binding |-> binding[g], at |-> now]

(* read_counter_sample: the counters of a driver that is gone give nothing. *)
CounterReadable(b, unread) ==
    /\ b # 0 /\ backends[b].of \notin unread
    /\ backends[b].binding # 0 /\ backends[b].binding = binding[backends[b].of]

(* counter_delta: a first reading only sets the baseline, a reading that    *)
(* fails leaves it.                                                         *)
counter_delta(b, unread) ==
    IF CounterReadable(b, unread) /\ backends[b].initialised
    THEN Interval(backends[b].previous, Reading(backends[b].of)) ELSE NaN

(* read_gpu_engine_busy: all of the files found, or nothing.                *)
read_gpu_engine_busy(i, unread) ==
    /\ Telemetry(i).files /\ gpus[i] \notin Intel \cup unread
    /\ binding[Telemetry(i).identity] # 0

(* "Reset the baseline so recovery cannot create a false spike."            *)
Unmeasured(state) == Fresh

(* The generic files of a GPU whose backend gave nothing.  A counter that   *)
(* another binding started may have gone back, which is no rate.            *)
EngineUse(i, unread, rolled) ==
    LET state == gpu_states[gpus[i]]
        reading == Reading(Telemetry(i).identity)
    IN  IF /\ gpus[i] \in DOMAIN gpu_states /\ read_gpu_engine_busy(i, unread)
           /\ state.initialized
           /\ ~(gpus[i] \in rolled /\ state.previous.binding # reading.binding)
        THEN Interval(state.previous, reading) ELSE NaN

(* Every GPU is sampled; `others' gave a frequency, a temperature or power  *)
(* through the Intel backend, which counts as a native sample too.          *)
update_gpus ==
    /\ step = "gpus" /\ step' = "nvml"
    /\ \E unread \in SUBSET Gpus, others \in SUBSET Intel,
          rolled \in SUBSET (Gpus \ Intel) :
          LET Delta(i) == counter_delta(Telemetry(i).backend, unread)
              Native(i) == /\ Telemetry(i).backend # 0
                           /\ Delta(i) # NaN \/ gpus[i] \in others
              Position(g) == CHOOSE i \in DOMAIN gpus : gpus[i] = g
          IN  /\ use' = [g \in Range(gpus) |->
                    LET i == Position(g)
                    IN  IF Native(i) THEN Delta(i) ELSE EngineUse(i, unread, rolled)]
              /\ gpu_states' = [g \in DOMAIN gpu_states |->
                    LET i == Position(g)
                    IN  IF Native(i) THEN gpu_states[g]
                        ELSE IF read_gpu_engine_busy(i, unread)
                        THEN [initialized |-> TRUE,
                              previous |-> Reading(Telemetry(i).identity)]
                        ELSE Unmeasured(gpu_states[g])]
              /\ backends' = [b \in DOMAIN backends |->
                    IF /\ \E i \in DOMAIN gpus : Telemetry(i).backend = b
                       /\ CounterReadable(b, unread)
                    THEN [backends[b] EXCEPT !.initialised = TRUE,
                                             !.previous = Reading(backends[b].of)]
                    ELSE backends[b]]
    /\ UNCHANGED <<machineVars, clockVars, gpus, told, gpu_telemetry, nvmlVars,
                   npuVars>>

(* gpu_for_nvml_device: the GPU listed under the device's PCI address, else *)
(* one under the identity NVML gives it.                                    *)
gpu_for_nvml_device(d) == IF d.gpu \in Range(gpus) THEN d.gpu ELSE d.name

(* append_nvml_gpu: an identity that is not listed is added at the end      *)
(* while there is room.                                                     *)
append_nvml_gpu(g) ==
    /\ gpus' = IF g \in Range(gpus) \/ Len(gpus) >= MaxGpus THEN gpus
               ELSE Append(gpus, g)
    /\ told' = IF gpus' # gpus THEN gpus' ELSE told

(* lsm_nvml_refresh: the library is tried once, then every device asked.    *)
lsm_nvml_refresh ==
    /\ step = "nvml"
    /\ nvml' \in IF nvml = "none" THEN {"on", "off"} ELSE {nvml}
    /\ step' = IF nvml' = "on" THEN "devices" ELSE "npus"
    /\ UNCHANGED <<machineVars, clockVars, listVars, backends, nvml_index, use,
                   npuVars>>

(* A device that gives a handle is listed, and its utilization, if it gives *)
(* one, replaces what was measured; a GPU just listed has none before.      *)
AskDevice ==
    /\ step = "devices" /\ nvml_index < Len(NvmlOrder)
    /\ nvml_index' = nvml_index + 1
    /\ LET g == gpu_for_nvml_device(NvmlOrder[nvml_index + 1])
           shown == [h \in DOMAIN use \cup {g} |->
                        IF h \in DOMAIN use THEN use[h] ELSE NaN]
       IN  \/ UNCHANGED <<gpus, told, use>>
           \/ /\ append_nvml_gpu(g)
              /\ use' \in IF g \in Range(gpus')
                          THEN {shown, [shown EXCEPT ![g] = FromNvml]} ELSE {use}
    /\ UNCHANGED <<machineVars, step, clockVars, gpu_states, gpu_telemetry,
                   backends, nvml, npuVars>>

DevicesAsked ==
    /\ step = "devices" /\ nvml_index = Len(NvmlOrder)
    /\ step' = "npus" /\ nvml_index' = 0
    /\ UNCHANGED <<machineVars, clockVars, listVars, backends, nvml, use, npuVars>>

-----------------------------------------------------------------------------
(* refresh_busy_time: the counter is read when enough time has been added   *)
(* up, and the last percentage is shown until then; there is none of a      *)
(* counter that went back.                                                  *)
BusyTime(elapsed, readable, forward) ==
    LET due == npu.elapsed + elapsed >= MinBusySample
        span == npu.elapsed + elapsed
    IN  IF ~due THEN [npu EXCEPT !.elapsed = span]
        ELSE IF ~readable
        THEN [initialised |-> FALSE, base |-> npu.base, elapsed |-> 0, last |-> NaN]
        ELSE [initialised |-> TRUE, base |-> now, elapsed |-> 0,
              last |-> IF npu.initialised /\ forward
                       THEN Average(npu.base, now, span) ELSE NaN]

(* lsm_npu_telemetry_refresh; the first one takes a second for granted.     *)
lsm_npu_telemetry_refresh ==
    /\ step = "npus" /\ step' = "idle"
    /\ \E readable \in IF NpuPresent THEN BOOLEAN ELSE {FALSE} :
       \E forward \in BOOLEAN :
          npu' = BusyTime(IF now = 0 THEN MinBusySample ELSE now - before,
                          readable, forward)
    /\ npu_use' = npu'.last
    /\ UNCHANGED <<machineVars, clockVars, listVars, backends, nvmlVars, use>>

(* lsm_hardware_shutdown.                                                   *)
lsm_hardware_shutdown ==
    /\ step = "idle" /\ step' = "stopped"
    /\ backends' = [b \in DOMAIN backends |->
          IF \E i \in DOMAIN gpu_telemetry : gpu_telemetry[i].backend = b
          THEN [backends[b] EXCEPT !.destroyed = @ + 1] ELSE backends[b]]
    /\ gpu_telemetry' = <<>>
    /\ UNCHANGED <<machineVars, clockVars, gpus, told, gpu_states, nvmlVars, use,
                   npuVars>>

Next ==
    \/ \E g \in Gpus : MachineChanges(g)
    \/ lsm_hardware_initialise \/ lsm_hardware_update \/ Scan \/ update_gpus
    \/ lsm_nvml_refresh \/ AskDevice \/ DevicesAsked
    \/ lsm_npu_telemetry_refresh \/ lsm_hardware_shutdown

Spec == Init /\ [][Next]_vars

-----------------------------------------------------------------------------
(* The telemetry at a position is that of the GPU listed there, however the *)
(* list was sorted, cut and extended since; GPUs beyond it came from NVML.  *)
TelemetryAligned ==
    /\ step # "stopped" => Len(gpu_telemetry) <= Len(gpus)
    /\ \A i \in DOMAIN gpu_telemetry :
          gpu_telemetry[i].identity = gpus[i] /\ gpus[i] \in DOMAIN gpu_states
    /\ step \in {"idle", "gpus"} => Range(gpus) = Range(told)

(* An Intel backend, with the counters it has open, is in one cache or was  *)
(* destroyed, once.                                                         *)
BackendsOwned ==
    \A b \in DOMAIN backends :
        backends[b].destroyed
            + Cardinality({i \in DOMAIN gpu_telemetry : gpu_telemetry[i].backend = b})
                = 1

(* A utilization shown was measured up to this sample and on the GPU it is  *)
(* shown for; one from engine files covers the time since the last sample,  *)
(* which it is divided by.  The exception is Intel's: a counter that could  *)
(* not be read in between is kept as it was (counter_delta), and what it    *)
(* has grown by in several samples is divided by the time of one.           *)
(* An NPU's covers exactly the time it is divided by, and is repeated only  *)
(* until the next reading is due.                                           *)
UseHonest ==
    /\ step = "npus" => \A g \in DOMAIN use : use[g].kind = "interval" =>
          /\ use[g].to.at = now /\ use[g].from.at < now
          /\ g \notin Intel => use[g].from.at = before
          /\ g \in Intel => use[g].from.binding = use[g].to.binding
    /\ step = "idle" /\ npu_use.kind # "nan" =>
          /\ npu_use.over = npu_use.to - npu_use.from
          /\ now - npu_use.to < MinBusySample

=============================================================================
