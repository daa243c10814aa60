----------------------------- MODULE MCCollectors -----------------------------
(***************************************************************************)
(* The collectors: the process backend the scanner calls, and those of the *)
(* sampling thread for disks and network interfaces, processors and        *)
(* memory, Bluetooth traffic, batteries of peripherals, GPUs and NPUs; and *)
(* what is made of a collection afterwards: the process table, the ring    *)
(* behind a graph and that of the Overview page.                           *)
(* They share no state, so each is explored by itself in studies of its    *)
(* own; a study is chosen at the start and kept.                           *)
(* A collector of which something is proved is followed by its inductive   *)
(* invariant and the lemmas about it, those of the process backends being  *)
(* in ProcessBackendProofs; the composition, the properties and the        *)
(* theorems come last.                                                     *)
(***************************************************************************)
EXTENDS ProcessBackendProofs, TLC

CONSTANTS
    Pids,                                                 \* ProcessBackend
    DiskNames, MaxDisk, NetNames, MaxNet, MaxCount,       \* StorageNetwork
    CpuRows, PolicyDirs, HwmonSensors, ZoneSensors, SearchInterval, \* CpuMemory
    Handles, Devices, LinkSlots, MaxPackets, MaxEvents,   \* BluetoothTraffic
    Paths, Addresses, MaxBatteries, MaxLogitech,          \* PeripheralBatteries
    Gpus, Intel, MaxGpus, MinBusySample, MaxBinds,        \* Accelerators
    Drives, Luids, LSM_MAX_NETS,                          \* WindowsDevices
    MaxSamples,
    Length, FixedPushes, FlipPushes,                      \* SampleRings
    Capacity, MaxGeneration, MaxTime,                     \* SampleRings
    Count, MaxMemory                                      \* ProcessTable

VARIABLES
    study,
    disk_at, net_at, born, counter, sockets, net_events, disks,
    disk_states, nets, net_states, told, refresh, complete,
    topology_refresh_requested, topology_retry_pending, step, sample,
    machine, online, policies, readable, now, stage, previous, usage,
    event_rate, read_at, online_at, source, source_at, frequency_available,
    settled, cache, temperature, listed, available, details, detail_at, good_reads,
    connection, events, packets, main, capabilities, fd, monitor_fd,
    thread_started, stop_requested, capture_available, links, reader, received,
    sampler, captured, accounting, device, owners, sender,
    plugged, connected, plugs, sampling, records, bluez, bluez_stop, collected,
    hidpp, hidpp_stop, request, slots, cancel_pipe, batteries, states, outcome,
    drives, adapters, due, elapsed, win_disks, baselines, backup, win_nets,
    net_slots, seen, discovered, slot_backup, row, win_told, win_step, win_sample,
    binding, binds, stage_of_gpus, clock, clock_before, gpus, gpus_told,
    gpu_states, gpu_telemetry, backends, nvml, nvml_index, use, npu, npu_use,
    ring, head, visible_points, newer_on_right, direction, pushed,
    overview_samples, count, next, last_generation, last_timestamp, have_last,
    monitor, record_log,
    ppid, direct, key, tree_mode, table_step, under, group_cache, group_order,
    table_collected

storageVars == <<disk_at, net_at, born, counter, sockets, net_events, disks,
                 disk_states, nets, net_states, told, refresh, complete,
                 topology_refresh_requested, topology_retry_pending, step,
                 sample>>
cpuVars == <<machine, online, policies, readable, now, stage, previous, usage,
             event_rate, read_at, online_at, source, source_at,
             frequency_available, settled, cache, temperature, listed, available, details,
             detail_at, good_reads>>
trafficVars == <<connection, events, packets, main, capabilities, fd,
                 monitor_fd, thread_started, stop_requested,
                 capture_available, links, reader, received, sampler,
                 captured, accounting, device, owners, sender>>
batteryVars == <<plugged, connected, plugs, sampling, records, bluez,
                 bluez_stop, collected, hidpp, hidpp_stop, request, slots,
                 cancel_pipe, batteries, states, outcome>>
gpuVars == <<binding, binds, stage_of_gpus, clock, clock_before, gpus,
             gpus_told, gpu_states, gpu_telemetry, backends, nvml, nvml_index,
             use, npu, npu_use>>
windowsVars == <<drives, adapters, due, elapsed, win_disks, baselines, backup,
                 win_nets, net_slots, seen, discovered, slot_backup, row,
                 win_told, win_step, win_sample>>

ringVars == <<ring, head, visible_points, newer_on_right, direction, pushed>>
overviewVars == <<overview_samples, count, next, last_generation,
                  last_timestamp, have_last, monitor, record_log>>
tableVars == <<ppid, direct, key, tree_mode, table_step, under, group_cache,
               group_order, table_collected>>
deviceVars == <<storageVars, cpuVars, trafficVars, batteryVars, gpuVars>>
madeVars == <<ringVars, overviewVars, tableVars, windowsVars, winProcessVars>>

-----------------------------------------------------------------------------
(* A machine with sensors only, one with processors that go off line and    *)
(* one with processors that have policies.                                  *)
Machines ==
    {[cpus |-> {}, policies |-> {}, hwmon |-> HwmonSensors, zones |-> ZoneSensors],
     [cpus |-> CpuRows, policies |-> {}, hwmon |-> {}, zones |-> {}],
     [cpus |-> {}, policies |-> PolicyDirs, hwmon |-> {}, zones |-> {}]}
Score ==
    [s \in HwmonSensors \cup ZoneSensors |->
        CASE s = "package" -> 100 [] s = "core" -> 30 [] OTHER -> 0]
Temperature == [s \in HwmonSensors \cup ZoneSensors |-> IF s = "core" THEN 2 ELSE 1]
Readings == INSTANCE CpuMemory WITH
    MaxSamples <- MaxSamples + 1,
    SourceInterval <- SearchInterval, DetailInterval <- SearchInterval

ASSUME ReadingsAssumption == Readings!CpuMemoryAssumption

(* Readings are honest: the proof, for any processors, policies, sensors,   *)
(* intervals and number of samples.                                         *)

(* The last sample in which the frequency, and that in which the memory was *)
(* read.                                                                    *)
FrequencyRead == IF stage = "frequency" THEN now - 1 ELSE now
MemoryRead == IF stage = "idle" THEN now ELSE now - 1

(* What TypeOK leaves open.                                                 *)
ReadingsTyped ==
    /\ Readings!TypeOK
    /\ now >= 1 /\ (stage # "idle" => now >= 2)
    /\ read_at \in Nat \X Nat /\ read_at[2] <= now
    /\ source_at \in Nat /\ settled \in Nat /\ good_reads \in Nat
    /\ frequency_available \in BOOLEAN

(* A baseline is of the last good reading, or the processor had no row in   *)
(* it and the baseline is older.                                            *)
BaselinesKept ==
    /\ Readings!All \in online_at[2]
    /\ \A r \in Readings!Rows :
          \/ previous[r] = read_at[2]
          \/ previous[r] < read_at[2] /\ r \notin online_at[2]
    /\ \A r \in Readings!Rows : usage[r].kind = "interval" =>
          /\ usage[r].to = read_at[2]
          /\ usage[r].from # read_at[1] =>
                usage[r].from < read_at[1] /\ r \notin online_at[1]
    /\ event_rate.kind = "rate" =>
          /\ event_rate.counted = Readings!Interval(read_at[1], read_at[2])
          /\ event_rate.seconds = 1

(* Policies that cannot be read have been so since the last search at most, *)
(* and the search is not due.                                               *)
SearchAwaited ==
    /\ source_at <= FrequencyRead
    /\ policies # {} /\ ~Readings!FrequencyReadable(source) =>
          settled <= FrequencyRead - source_at
    /\ stage = "thermal" =>
          /\ frequency_available = Readings!FrequencyReadable(source)
          /\ policies # {} /\ ~frequency_available =>
                now - source_at < SearchInterval

(* What is shown of a sensor can be read, and something is if it can.       *)
SensorShown ==
    stage = "memory" =>
        /\ temperature \in readable \cup {Readings!NoSensor}
        /\ listed /\ readable # {} => temperature # Readings!NoSensor

(* Details are those of the last attempt, with good readings since, or were *)
(* lost since then.                                                         *)
DetailsDated ==
    /\ detail_at <= MemoryRead /\ MemoryRead - detail_at < SearchInterval
    /\ details \in {0, detail_at}
    /\ details # 0 => good_reads > MemoryRead - details
    /\ details = 0 => good_reads <= MemoryRead - detail_at
    /\ stage = "idle" /\ now > 1 => available \in {0, now}

ReadingsInv ==
    /\ ReadingsTyped
    /\ BaselinesKept
    /\ SearchAwaited
    /\ SensorShown
    /\ DetailsDated

(* What the assumption says of the constants of the readings.               *)
LEMMA ReadingsConstants ==
    /\ SearchInterval \in Nat \ {0} /\ MaxSamples + 1 \in Nat
    /\ \A m \in Machines : /\ m.cpus \subseteq Nat \ {0}
                           /\ Readings!NoSensor \notin m.hwmon \cup m.zones
                           /\ IsFiniteSet(m.hwmon \cup m.zones)
                           /\ \A s \in m.hwmon \cup m.zones :
                                 Score[s] \in Nat /\ Temperature[s] \in Nat
<1>1. Readings!CpuMemoryAssumption
    BY ReadingsAssumption DEF ReadingsAssumption
<1>2. \A S : Readings!IsFiniteSet(S) <=> IsFiniteSet(S)
    BY DEF Readings!IsFiniteSet, IsFiniteSet
<1> QED
    BY <1>1, <1>2 DEF Readings!CpuMemoryAssumption, Readings!All

(* The sensor shown is one of those kept that can be read, if there is one. *)
LEMMA BestReadable ==
    ASSUME ReadingsTyped, NEW kept
    PROVE  IF kept \cap readable = {} THEN Readings!Best(kept) = Readings!NoSensor
           ELSE /\ Readings!Best(kept) \in kept \cap readable
                /\ Readings!Best(kept) # Readings!NoSensor
<1> DEFINE live == kept \cap readable
           top == {s \in live : \A t \in live : Score[s] >= Score[t]}
           hottest == {s \in top : \A t \in top : Temperature[s] >= Temperature[t]}
<1>1. /\ IsFiniteSet(machine.hwmon \cup machine.zones)
      /\ Readings!NoSensor \notin machine.hwmon \cup machine.zones
      /\ \A s \in machine.hwmon \cup machine.zones :
            Score[s] \in Nat /\ Temperature[s] \in Nat
      /\ readable \subseteq machine.hwmon \cup machine.zones
    BY ReadingsConstants
    DEF ReadingsTyped, Readings!TypeOK, Readings!Hwmon, Readings!Zones
<1>2. IsFiniteSet(live) /\ \A s \in live : Score[s] \in Nat /\ Temperature[s] \in Nat
    BY <1>1, FS_Subset
<1>3. ASSUME live # {} PROVE top # {}
    BY <1>2, <1>3, GreatestOf
<1>4. IsFiniteSet(top) /\ \A s \in top : Temperature[s] \in Nat
    BY <1>2, FS_Subset
<1> HIDE DEF top
<1>5. ASSUME live # {} PROVE hottest # {}
    BY <1>3, <1>4, <1>5, GreatestOf
<1>6. hottest \subseteq live
    BY DEF top
<1>7. Readings!Best(kept) =
          IF live = {} THEN Readings!NoSensor ELSE CHOOSE s \in hottest : TRUE
    BY DEF Readings!Best, top
<1> HIDE DEF hottest
<1>8. ASSUME live # {} PROVE Readings!Best(kept) \in live
    BY <1>5, <1>6, <1>7, <1>8
<1> QED
    BY <1>1, <1>7, <1>8

(* All baselines are taken when the program starts.                         *)
LEMMA ReadingsStart == Readings!Init => ReadingsInv
<1> SUFFICES ASSUME Readings!Init PROVE ReadingsInv
    OBVIOUS
<1> USE ReadingsConstants
<1>1. ReadingsTyped
  <2>1. /\ machine \in Machines /\ online \subseteq machine.cpus
        /\ policies = machine.policies /\ source = policies
        /\ readable = machine.hwmon \cup machine.zones
    BY DEF Readings!Init, Readings!Cpus, Readings!Policies, Readings!Hwmon,
           Readings!Zones
  <2>2. 0 \in Readings!Times /\ 1 \in Readings!Times
    BY DEF Readings!Times
  <2>3. previous \in [Readings!Rows -> Readings!Times] /\ DOMAIN usage = Readings!Rows
    BY <2>2 DEF Readings!Init
  <2>4. Readings!TypeOK
    BY <2>1, <2>2, <2>3
    DEF Readings!TypeOK, Readings!Init, Readings!Cpus, Readings!Policies,
        Readings!Hwmon, Readings!Zones, Readings!Stages
  <2>5. read_at = <<0, 1>> /\ <<0, 1>> \in Nat \X Nat
    BY DEF Readings!Init
  <2>6. frequency_available \in BOOLEAN
    BY Zenon DEF Readings!Init
  <2> QED
    BY <2>4, <2>5, <2>6 DEF ReadingsTyped, Readings!Init
<1>2. BaselinesKept
  <2>1. /\ online_at[2] = online \cup {0} /\ read_at[2] = 1
        /\ usage = [r \in Readings!Rows |-> Readings!NaN]
        /\ event_rate = Readings!NaN
        /\ previous = [r \in Readings!Rows |->
                          IF r \in online \cup {0} THEN 1 ELSE 0]
    BY DEF Readings!Init, Readings!All
  <2> QED
    BY <2>1 DEF BaselinesKept, Readings!NaN, Readings!All
<1>3. SearchAwaited
    BY DEF SearchAwaited, Readings!Init, Readings!FrequencyReadable,
           FrequencyRead
<1>4. SensorShown /\ DetailsDated
    BY DEF SensorShown, DetailsDated, Readings!Init, MemoryRead
<1> QED
    BY <1>1, <1>2, <1>3, <1>4 DEF ReadingsInv

(* Every collector, and every change of the machine, keeps the invariant.   *)
LEMMA ReadingsStep == ReadingsInv /\ [Readings!Next]_cpuVars => ReadingsInv'
<1> SUFFICES ASSUME ReadingsInv, [Readings!Next]_cpuVars PROVE ReadingsInv'
    OBVIOUS
<1> USE ReadingsConstants DEF ReadingsInv
<1>1. CASE Readings!MachineChanges
  <2> USE <1>1 DEF Readings!MachineChanges, Readings!cpuVars,
          Readings!frequencyVars, Readings!thermalVars, Readings!memoryVars
  <2>1. /\ machine' = machine /\ now' = now /\ stage' = "idle" /\ stage = "idle"
        /\ online' \subseteq machine.cpus /\ policies' \subseteq machine.policies
        /\ readable' \subseteq machine.hwmon \cup machine.zones
        /\ \/ policies' = policies /\ settled' = settled
           \/ settled' = 0
    BY DEF ReadingsTyped, Readings!TypeOK, Readings!Cpus, Readings!Policies,
           Readings!Hwmon, Readings!Zones
  <2>2. ReadingsTyped'
    BY <2>1
    DEF ReadingsTyped, Readings!TypeOK, Readings!Cpus, Readings!Policies,
        Readings!Hwmon, Readings!Zones, Readings!Rows, Readings!Stages,
        Readings!Times
  <2>3. BaselinesKept'
    BY <2>1 DEF BaselinesKept, Readings!Rows, Readings!Cpus
  <2>4. SearchAwaited'
    BY <2>1 DEF SearchAwaited, Readings!FrequencyReadable, FrequencyRead,
                ReadingsTyped, Readings!TypeOK, Readings!Times
  <2>5. SensorShown' /\ DetailsDated'
    BY <2>1 DEF SensorShown, DetailsDated, MemoryRead
  <2> QED
    BY <2>2, <2>3, <2>4, <2>5
<1>2. CASE Readings!ReadCpu
  <2> USE <1>2 DEF Readings!ReadCpu, Readings!machineVars,
          Readings!frequencyVars, Readings!thermalVars, Readings!memoryVars
  <2>1. /\ machine' = machine /\ now' = now + 1 /\ now' \in Readings!Times
        /\ now \in Nat /\ stage = "idle" /\ stage' = "frequency"
    BY DEF ReadingsTyped, Readings!TypeOK, Readings!Times
  <2>2. CASE UNCHANGED Readings!cpuVars
    <3>1. ReadingsTyped'
      BY <2>1, <2>2
      DEF ReadingsTyped, Readings!TypeOK, Readings!Cpus, Readings!Policies,
          Readings!Hwmon, Readings!Zones, Readings!Rows, Readings!Stages,
          Readings!cpuVars, Readings!Times
    <3>2. BaselinesKept'
      BY <2>1, <2>2 DEF BaselinesKept, Readings!Rows, Readings!Cpus,
                        Readings!cpuVars
    <3> QED
      BY <2>1, <3>1, <3>2
      DEF SearchAwaited, Readings!FrequencyReadable, FrequencyRead,
          SensorShown, DetailsDated, MemoryRead, ReadingsTyped
  <2>3. ASSUME NEW rolled, Readings!Applied(rolled) PROVE ReadingsInv'
    <3> DEFINE current == [r \in Readings!Rows |->
                   IF r \in online \cup {Readings!All} THEN now' ELSE 0]
    <3>1. /\ previous' = [r \in Readings!Rows |->
                IF r \in Readings!Counted THEN current[r] ELSE previous[r]]
          /\ usage' = [r \in Readings!Rows |->
                IF r \in Readings!Counted /\ current[r] > previous[r]
                   /\ r \notin rolled
                THEN Readings!Interval(previous[r], current[r])
                ELSE Readings!NaN]
          /\ event_rate' = Readings!PerSecond(
                Readings!Interval(previous[Readings!All], now'), now' - now)
          /\ read_at' = <<read_at[2], now'>>
          /\ online_at' = <<online_at[2], online \cup {Readings!All}>>
      BY <2>3 DEF Readings!Applied
    <3>2. Readings!Rows' = Readings!Rows /\ 0 \in Readings!Times
      BY <2>1 DEF Readings!Rows, Readings!Cpus, Readings!Times
    <3>3. /\ previous \in [Readings!Rows -> Readings!Times]
          /\ previous' \in [Readings!Rows -> Readings!Times]
      BY <2>1, <3>1, <3>2 DEF ReadingsTyped, Readings!TypeOK
    <3>4. ReadingsTyped'
      BY <2>1, <3>1, <3>2, <3>3
      DEF ReadingsTyped, Readings!TypeOK, Readings!Cpus, Readings!Policies,
          Readings!Hwmon, Readings!Zones, Readings!Stages, Readings!Times
    <3>5. /\ Readings!All \in Readings!Rows
          /\ online \cup {Readings!All} \subseteq Readings!Counted
      <4>1. machine.cpus \subseteq Nat /\ online \subseteq machine.cpus
        BY DEF ReadingsTyped, Readings!TypeOK, Readings!Cpus
      <4>2. /\ Readings!Rows = machine.cpus \cup {0} /\ Readings!All = 0
            /\ \A n \in Nat : n <= n
        BY DEF Readings!Rows, Readings!Cpus, Readings!All
      <4> QED
        BY <4>1, <4>2 DEF Readings!Counted
    <3>6. \A r \in Readings!Rows :
             \/ previous'[r] = read_at'[2]
             \/ previous'[r] < read_at'[2] /\ r \notin online_at'[2]
      BY <2>1, <3>1, <3>3, <3>5
      DEF BaselinesKept, ReadingsTyped, Readings!Times
    <3>7. ASSUME NEW r \in Readings!Rows, usage'[r].kind = "interval"
          PROVE  /\ usage'[r].to = read_at'[2]
                 /\ usage'[r].from # read_at'[1] =>
                       usage'[r].from < read_at'[1] /\ r \notin online_at'[1]
      <4>1. usage'[r] = Readings!Interval(previous[r], current[r])
            /\ current[r] > previous[r]
        BY <3>1, <3>7 DEF Readings!NaN
      <4>2. previous[r] \in Nat
        BY DEF ReadingsTyped, Readings!TypeOK, Readings!Times
      <4>3. current[r] = now'
        BY <4>1, <4>2
      <4> QED
        BY <2>1, <3>1, <4>1, <4>3 DEF BaselinesKept, Readings!Interval
    <3>8. /\ Readings!All \in online_at'[2]
          /\ event_rate'.counted = Readings!Interval(read_at'[1], read_at'[2])
          /\ event_rate'.seconds = 1
      <4>1. previous[Readings!All] = read_at[2]
        BY <3>5 DEF BaselinesKept
      <4> QED
        BY <2>1, <3>1, <4>1 DEF Readings!PerSecond
    <3>9. BaselinesKept'
      BY <3>2, <3>6, <3>7, <3>8 DEF BaselinesKept, Readings!All, Readings!Interval
    <3> QED
      BY <2>1, <3>4, <3>9
      DEF SearchAwaited, Readings!FrequencyReadable, FrequencyRead,
          SensorShown, DetailsDated, MemoryRead, ReadingsTyped
  <2> QED
    BY <2>2, <2>3
<1>3. CASE Readings!UpdateFrequency
  <2> USE <1>3 DEF Readings!UpdateFrequency, Readings!machineVars,
          Readings!cpuVars, Readings!thermalVars, Readings!memoryVars
  <2>1. /\ machine' = machine /\ now' = now /\ now \in Nat
        /\ stage = "frequency" /\ stage' = "thermal"
        /\ settled' = settled + 1 /\ policies' = policies
        /\ frequency_available' = Readings!FrequencyReadable(source')
        /\ source \subseteq machine.policies /\ policies \subseteq machine.policies
        /\ source_at \in Nat /\ settled \in Nat
    BY DEF ReadingsTyped, Readings!TypeOK, Readings!Times, Readings!Policies
  <2>2. \/ /\ Readings!SearchDue /\ source_at' = now
           /\ source' = IF policies # {} THEN policies ELSE source
        \/ ~Readings!SearchDue /\ source' = source /\ source_at' = source_at
    BY DEF Readings!create_cpu_frequency_source
  <2>3. ReadingsTyped'
    BY <2>1, <2>2
    DEF ReadingsTyped, Readings!TypeOK, Readings!Cpus, Readings!Policies,
        Readings!Hwmon, Readings!Zones, Readings!Rows, Readings!Stages,
        Readings!Times, Readings!FrequencyReadable
  <2>4. BaselinesKept'
    BY <2>1 DEF BaselinesKept, Readings!Rows, Readings!Cpus
  <2>5. SearchAwaited'
    <3>1. /\ source_at <= now - 1
          /\ policies # {} /\ ~Readings!FrequencyReadable(source) =>
                settled <= now - 1 - source_at
      BY <2>1 DEF SearchAwaited, FrequencyRead
    <3>2. \A S : (Readings!FrequencyReadable(S))' = Readings!FrequencyReadable(S)
      BY <2>1 DEF Readings!FrequencyReadable
    <3>3. CASE Readings!SearchDue /\ policies # {}
      <4>1. Readings!FrequencyReadable(source')
        BY <2>2, <3>3 DEF Readings!FrequencyReadable
      <4> QED
        BY <2>1, <2>2, <3>1, <3>2, <3>3, <4>1
        DEF SearchAwaited, FrequencyRead, Readings!FrequencyReadable
    <3>4. CASE policies = {}
      BY <2>1, <2>2, <3>1, <3>4
      DEF SearchAwaited, FrequencyRead, Readings!FrequencyReadable
    <3>5. CASE ~Readings!SearchDue
      <4>1. /\ source' = source /\ source_at' = source_at
            /\ ~Readings!FrequencyReadable(source) =>
                  now - source_at < SearchInterval
        BY <2>1, <2>2, <3>5 DEF Readings!SearchDue
      <4> QED
        BY <2>1, <3>1, <3>2, <4>1 DEF SearchAwaited, FrequencyRead
    <3> QED
      BY <3>3, <3>4, <3>5
  <2>6. SensorShown' /\ DetailsDated'
    BY <2>1 DEF SensorShown, DetailsDated, MemoryRead
  <2> QED
    BY <2>3, <2>4, <2>5, <2>6
<1>4. CASE Readings!ReadThermal
  <2> USE <1>4 DEF Readings!ReadThermal, Readings!machineVars,
          Readings!cpuVars, Readings!frequencyVars, Readings!memoryVars
  <2>1. /\ machine' = machine /\ now' = now /\ now \in Nat
        /\ stage = "thermal" /\ stage' = "memory" /\ readable' = readable
        /\ readable \subseteq machine.hwmon \cup machine.zones
        /\ cache \subseteq machine.hwmon \cup machine.zones
    BY DEF ReadingsTyped, Readings!TypeOK, Readings!Times, Readings!Hwmon,
           Readings!Zones
  <2>2. /\ \/ Readings!CacheServes /\ cache' = cache
           \/ /\ cache' \subseteq machine.hwmon \cup machine.zones
              /\ ~Readings!CacheServes
              /\ listed' /\ readable # {} => cache' \cap readable # {}
        /\ temperature' = Readings!Best(cache')
    <3>1. PICK h \in BOOLEAN, z \in BOOLEAN :
             LET hwmon == Readings!discover_hwmon_cpu_thermal(h)
                 zones == Readings!discover_thermal_zone_cpu_thermal(z)
             IN /\ cache' = IF Readings!CacheServes THEN cache
                            ELSE IF hwmon # {} THEN hwmon ELSE zones
                /\ listed' = (h /\ z)
      OBVIOUS
    <3>2. temperature' = Readings!Best(cache')
      BY <2>1 DEF Readings!Best
    <3> QED
      BY <2>1, <3>1, <3>2
      DEF Readings!discover_hwmon_cpu_thermal, Readings!Hwmon, Readings!Zones,
          Readings!discover_thermal_zone_cpu_thermal
  <2>3. ReadingsTyped'
    BY <2>1, <2>2
    DEF ReadingsTyped, Readings!TypeOK, Readings!Cpus, Readings!Policies,
        Readings!Hwmon, Readings!Zones, Readings!Rows, Readings!Stages
  <2>4. BaselinesKept'
    BY <2>1 DEF BaselinesKept, Readings!Rows, Readings!Cpus
  <2>5. SensorShown'
    <3>1. temperature' \in readable \cup {Readings!NoSensor}
      BY <2>2, BestReadable
    <3>2. ASSUME listed', readable # {} PROVE temperature' # Readings!NoSensor
      BY <2>2, <3>2, BestReadable DEF Readings!CacheServes
    <3> QED
      BY <2>1, <3>1, <3>2 DEF SensorShown
  <2>6. SearchAwaited' /\ DetailsDated'
    BY <2>1 DEF SearchAwaited, FrequencyRead, Readings!FrequencyReadable,
                DetailsDated, MemoryRead
  <2> QED
    BY <2>3, <2>4, <2>5, <2>6
<1>5. CASE Readings!UpdateMemory
  <2> USE <1>5 DEF Readings!UpdateMemory, Readings!machineVars,
          Readings!cpuVars, Readings!frequencyVars, Readings!thermalVars
  <2>1. /\ machine' = machine /\ now' = now /\ now \in Nat /\ now \in Readings!Times
        /\ stage = "memory" /\ stage' = "idle"
        /\ detail_at \in Nat /\ details \in Nat /\ good_reads \in Nat
        /\ 0 \in Readings!Times
    BY DEF ReadingsTyped, Readings!TypeOK, Readings!Times
  <2>2. LET again == now - detail_at >= SearchInterval
        IN  /\ detail_at' = IF again THEN now ELSE detail_at
            /\ \/ /\ available' = now /\ good_reads' = good_reads + 1
                  /\ details' = IF again THEN now ELSE details
               \/ available' = 0 /\ details' = 0 /\ good_reads' = 0
    BY DEF Readings!NothingKnown
  <2>3. ReadingsTyped'
    BY <2>1, <2>2
    DEF ReadingsTyped, Readings!TypeOK, Readings!Cpus, Readings!Policies,
        Readings!Hwmon, Readings!Zones, Readings!Rows, Readings!Stages
  <2>4. BaselinesKept'
    BY <2>1 DEF BaselinesKept, Readings!Rows, Readings!Cpus
  <2>5. SearchAwaited' /\ SensorShown'
    BY <2>1 DEF SearchAwaited, FrequencyRead, Readings!FrequencyReadable,
                SensorShown
  <2>6. DetailsDated'
    BY <2>1, <2>2 DEF DetailsDated, MemoryRead
  <2> QED
    BY <2>3, <2>4, <2>5, <2>6
<1>6. CASE UNCHANGED cpuVars
    BY <1>6 DEF cpuVars, ReadingsTyped, BaselinesKept, SearchAwaited,
        SensorShown, DetailsDated, FrequencyRead, MemoryRead, Readings!TypeOK,
        Readings!Cpus, Readings!Policies, Readings!Hwmon, Readings!Zones,
        Readings!Rows, Readings!FrequencyReadable
<1> QED
    BY <1>1, <1>2, <1>3, <1>4, <1>5, <1>6 DEF Readings!Next

-----------------------------------------------------------------------------
(* Disks that are swapped under one name, and interfaces renamed.           *)
Disks == INSTANCE StorageNetwork WITH
    NetNames <- {}, MaxNet <- 0, MaxSamples <- MaxSamples + 1
Networks == INSTANCE StorageNetwork WITH DiskNames <- {}, MaxDisk <- 0

ASSUME LinuxAssumption == Disks!StorageAssumption /\ Networks!StorageAssumption

(* Rates are honest: the proof for the disks of Linux, for any names and    *)
(* any number of devices and samples.                                       *)

(* What is kept of a device under a name, and the baseline beside it.       *)
Baseline == [device : Nat, count : Nat, at : Nat]
Rates ==
    {Disks!Zero, Disks!NaN} \cup [kind : {"rate"}, from : Baseline, to : Baseline]
Paired(table, baseline) ==
    /\ DOMAIN table = DOMAIN baseline
    /\ \A n \in DOMAIN table :
          /\ table[n] \in [device : Nat, rate : Rates]
          /\ baseline[n] \in [initialized : BOOLEAN, previous : Baseline]

(* The first sample comes after the initialisation.                         *)
SamplesCounted ==
    /\ sample \in Nat
    /\ step \in {"initialise", "networks"} => sample = 0
    /\ step \in {"refresh_disks", "refresh_networks", "update_disks",
                 "update_networks"} => sample > 0
    /\ born \in [disk : Nat, net : Nat]

(* A device that was listed has appeared.                                   *)
DisksTyped ==
    /\ Disks!TypeOK /\ Paired(disks, disk_states)
    /\ born.disk <= MaxDisk
    /\ \A n \in DiskNames : disk_at[n] <= born.disk
    /\ \A n \in DOMAIN disks : disks[n].device \in 1 .. born.disk

(* The sample in which the disks were last read.                            *)
DisksRead ==
    IF step \in {"refresh_disks", "refresh_networks", "update_disks"}
    THEN sample - 1 ELSE sample

(* A baseline is of the last sample; and once the name was read for another *)
(* device, the one listed does not come back under it.                      *)
DiskBaselines ==
    \A n \in DOMAIN disks : disk_states[n].initialized =>
        /\ disk_states[n].previous.at = DisksRead
        /\ disk_states[n].previous.device # disks[n].device =>
              disk_at[n] # disks[n].device

(* The lists under the present generation.                                  *)
DisksTold ==
    told = [disk |-> Disks!Attached(disks), net |-> Disks!InNameOrder(nets)]

(* From the reading of the disks to the next sample their rates are honest. *)
DiskRates ==
    step \in {"update_networks", "idle"} /\ sample > 0 =>
        \A n \in DOMAIN disks :
            LET rate == disks[n].rate
            IN /\ rate.kind # "zero"
               /\ rate.kind = "rate" =>
                     /\ rate.to.at = sample /\ rate.from.at = sample - 1
                     /\ rate.from.count <= rate.to.count
                     /\ rate.to.device = disks[n].device =>
                           rate.from.device = disks[n].device

DisksInv ==
    /\ SamplesCounted
    /\ DisksTyped
    /\ DiskBaselines
    /\ DiskRates
    /\ DisksTold

(* What is assumed of the constants of the Linux disks and interfaces.      *)
LEMMA StorageConstants ==
    /\ DiskNames \in SUBSET Nat /\ NetNames \in SUBSET Nat
    /\ MaxDisk \in Nat /\ MaxNet \in Nat /\ MaxCount \in Nat
    BY LinuxAssumption
    DEF LinuxAssumption, Disks!StorageAssumption, Networks!StorageAssumption

(* An empty table lists nothing.                                            *)
LEMMA NothingListed ==
    /\ Disks!InNameOrder(<<>>) = <<>> /\ Disks!Attached(<<>>) = <<>>
    /\ Networks!InNameOrder(<<>>) = <<>> /\ Networks!Attached(<<>>) = <<>>
<1>1. DOMAIN <<>> = {} /\ Cardinality({}) = 0
    BY FS_EmptySet
<1>2. /\ Disks!Cardinality({}) = 0 /\ Networks!Cardinality({}) = 0
    BY <1>1 DEF Disks!Cardinality, Networks!Cardinality, Cardinality
<1> QED
    BY <1>1, <1>2 DEF Disks!InNameOrder, Disks!Attached, Networks!InNameOrder,
                      Networks!Attached

(* What reading the counters of some of the devices makes of a table.       *)
Reckoning(table, baseline, sampled, reading, table2, baseline2) ==
    /\ \A n \in sampled : reading[n] \in Baseline
    /\ table2 = [n \in DOMAIN table |-> [table[n] EXCEPT !.rate =
           IF n \in sampled THEN Disks!Accounted(baseline[n], reading[n])
           ELSE Disks!NaN]]
    /\ baseline2 = [n \in DOMAIN baseline |->
           IF n \in sampled THEN [initialized |-> TRUE, previous |-> reading[n]]
           ELSE Disks!Lost(baseline[n])]
(* Reckoning keeps rates and baselines paired.                              *)
LEMMA Reckoned ==
    ASSUME NEW table, NEW baseline, Paired(table, baseline),
           NEW sampled, NEW reading, NEW table2, NEW baseline2,
           Reckoning(table, baseline, sampled, reading, table2, baseline2)
    PROVE  /\ Paired(table2, baseline2) /\ DOMAIN table2 = DOMAIN table
           /\ \A n \in DOMAIN table :
                 /\ table2[n].device = table[n].device
                 /\ baseline2[n].initialized =>
                       n \in sampled /\ baseline2[n].previous = reading[n]
                 /\ table2[n].rate.kind # "zero"
                 /\ table2[n].rate.kind = "rate" =>
                       /\ n \in sampled /\ baseline[n].initialized
                       /\ baseline[n].previous.count <= reading[n].count
                       /\ table2[n].rate.from = baseline[n].previous
                       /\ table2[n].rate.to = reading[n]
<1> USE DEF Paired, Reckoning
<1>1. ASSUME NEW n \in DOMAIN table
      PROVE  /\ table2[n] \in [device : Nat, rate : Rates]
             /\ baseline2[n] \in [initialized : BOOLEAN, previous : Baseline]
             /\ table2[n].device = table[n].device
             /\ baseline2[n].initialized =>
                   n \in sampled /\ baseline2[n].previous = reading[n]
             /\ table2[n].rate.kind # "zero"
             /\ table2[n].rate.kind = "rate" =>
                   /\ n \in sampled /\ baseline[n].initialized
                   /\ baseline[n].previous.count <= reading[n].count
                   /\ table2[n].rate.from = baseline[n].previous
                   /\ table2[n].rate.to = reading[n]
  <2>1. /\ table[n] \in [device : Nat, rate : Rates]
        /\ baseline[n] \in [initialized : BOOLEAN, previous : Baseline]
    OBVIOUS
  <2>2. CASE n \in sampled
    <3> DEFINE rate == Disks!Accounted(baseline[n], reading[n])
    <3>1. /\ table2[n] = [table[n] EXCEPT !.rate = rate]
          /\ baseline2[n] = [initialized |-> TRUE, previous |-> reading[n]]
      BY <2>2
    <3>2. /\ rate \in Rates /\ rate.kind # "zero"
          /\ rate.kind = "rate" =>
                /\ baseline[n].initialized
                /\ baseline[n].previous.count <= reading[n].count
                /\ rate.from = baseline[n].previous /\ rate.to = reading[n]
      BY <2>1, <2>2 DEF Disks!Accounted, Rates, Disks!Rate, Disks!NaN, Baseline
    <3> HIDE DEF rate
    <3>3. /\ table2[n] \in [device : Nat, rate : Rates]
          /\ table2[n].device = table[n].device /\ table2[n].rate = rate
      BY <2>1, <3>1, <3>2
    <3> QED
      BY <2>2, <3>1, <3>2, <3>3
  <2>3. CASE n \notin sampled
    <3>1. /\ table2[n] = [table[n] EXCEPT !.rate = Disks!NaN]
          /\ baseline2[n] = [baseline[n] EXCEPT !.initialized = FALSE]
      BY <2>3 DEF Disks!Lost
    <3> QED
      BY <2>1, <2>3, <3>1 DEF Rates, Disks!NaN
  <2> QED
    BY <2>2, <2>3
<1> QED
    BY <1>1

(* No disk is known at the start.                                           *)
LEMMA DisksStart == Disks!Init => DisksInv
<1> SUFFICES ASSUME Disks!Init PROVE DisksInv
    OBVIOUS
<1> USE StorageConstants
<1>1. SamplesCounted
    BY DEF Disks!Init, SamplesCounted
<1>2. DOMAIN disks = {} /\ DOMAIN nets = {} /\ DOMAIN disk_states = {}
      /\ DOMAIN net_states = {}
    BY DEF Disks!Init
<1>3. born.disk \in 0 .. MaxDisk
    BY DEF Disks!Init
<1>4. disk_at \in [DiskNames -> 1 .. MaxDisk \cup {0}]
      /\ \A n \in DiskNames : disk_at[n] <= born.disk
    BY <1>3 DEF Disks!Init, Disks!None
<1>5. DisksTyped
    BY <1>2, <1>3, <1>4 DEF DisksTyped, Disks!TypeOK, Disks!Init, Paired,
        Disks!DiskDevices, Disks!NetDevices, Disks!None
<1>6. DiskBaselines /\ DiskRates
    BY <1>2 DEF DiskBaselines, DiskRates, Disks!Init
<1>7. DisksTold
    BY NothingListed DEF DisksTold, Disks!Init
<1> QED
    BY <1>1, <1>5, <1>6, <1>7 DEF DisksInv

(* There are no interfaces in this study, and their list stays empty.       *)
LEMMA NoInterfaces ==
    ASSUME DisksInv, NEW ok, Disks!refresh_networks(ok)
    PROVE  /\ DOMAIN nets' = {} /\ DOMAIN net_states' = {}
           /\ told' = [disk |-> Disks!Attached(disks),
                       net |-> Disks!InNameOrder(nets')]
<1>1. DOMAIN nets = {} /\ DOMAIN net_states = {}
    BY DEF DisksInv, DisksTyped, Disks!TypeOK
<1>2. told = [disk |-> Disks!Attached(disks), net |-> Disks!InNameOrder(nets)]
    BY DEF DisksInv, DisksTold
<1>3. CASE ~ok
    BY <1>1, <1>2, <1>3 DEF Disks!refresh_networks, Disks!netVars, Disks!InNameOrder
<1>4. CASE ok
  <2>1. /\ Disks!ListNetworks
        /\ told' = IF Disks!InNameOrder(nets') # Disks!InNameOrder(nets)
                   THEN [told EXCEPT !.net = Disks!InNameOrder(nets')] ELSE told
    BY <1>4 DEF Disks!refresh_networks, Disks!NetworkMembershipChanged
  <2>2. DOMAIN nets' = {} /\ DOMAIN net_states' = {}
    BY <2>1 DEF Disks!ListNetworks
  <2> QED
    BY <1>2, <2>1, <2>2
<1> QED
    BY <1>3, <1>4

(* A listing keeps rate and baseline of a disk that is still there, and     *)
(* only of that one.                                                        *)
LEMMA DisksListed ==
    ASSUME DisksInv, NEW ok \in BOOLEAN, Disks!refresh_disks(ok),
           disk_at' = disk_at, born' = born
    PROVE  /\ Paired(disks', disk_states') /\ DOMAIN disks' \subseteq DiskNames
           /\ \A n \in DOMAIN disks' :
                 /\ disks'[n].device \in 1 .. born.disk
                 /\ disk_states'[n].initialized =>
                       /\ disk_states'[n].previous.at = DisksRead
                       /\ disk_states'[n].previous.device # disks'[n].device =>
                             disk_at[n] # disks'[n].device
           /\ told' = [disk |-> Disks!Attached(disks'),
                       net |-> Disks!InNameOrder(nets)]
<1>1. told = [disk |-> Disks!Attached(disks), net |-> Disks!InNameOrder(nets)]
    BY DEF DisksInv, DisksTold
<1> USE DEF DisksInv, DisksTyped
<1>2. CASE ~ok
  <2>1. disks' = disks /\ disk_states' = disk_states /\ told' = told
    BY <1>2 DEF Disks!refresh_disks, Disks!diskVars
  <2> QED
    BY <1>1, <2>1 DEF Paired, DiskBaselines, Disks!TypeOK
<1>3. CASE ok
  <2> DEFINE found == {n \in DiskNames : disk_at[n] # Disks!None}
  <2>1. /\ disks' = [n \in found |-> IF Disks!KeptDisk(n, disk_at[n]) THEN disks[n]
                        ELSE [device |-> disk_at[n], rate |-> Disks!Zero]]
        /\ disk_states' = [n \in found |-> IF Disks!KeptDisk(n, disk_at[n])
                        THEN disk_states[n] ELSE Disks!Fresh]
        /\ told' = IF Disks!Attached(disks') # Disks!Attached(disks)
                   THEN [told EXCEPT !.disk = Disks!Attached(disks')] ELSE told
    BY <1>3 DEF Disks!refresh_disks, Disks!ListDisks, Disks!DiskMembershipChanged
  <2>2. ASSUME NEW n \in found
        PROVE  /\ disks'[n].device \in 1 .. born.disk
               /\ disks'[n] \in [device : Nat, rate : Rates]
               /\ disk_states'[n] \in [initialized : BOOLEAN, previous : Baseline]
               /\ disk_states'[n].initialized =>
                       /\ disk_states'[n].previous.at = DisksRead
                       /\ disk_states'[n].previous.device # disks'[n].device =>
                             disk_at[n] # disks'[n].device
    <3>1. disk_at[n] \in 1 .. born.disk
      <4>1. n \in DiskNames /\ disk_at[n] # 0
        BY DEF Disks!None
      <4>2. disk_at[n] \in 1 .. MaxDisk \cup {0}
        BY <4>1 DEF Disks!TypeOK, Disks!DiskDevices, Disks!None
      <4> QED
        BY <4>1, <4>2, StorageConstants
    <3>2. CASE Disks!KeptDisk(n, disk_at[n])
      BY <2>1, <3>1, <3>2 DEF Disks!KeptDisk, Paired, DiskBaselines
    <3>3. CASE ~Disks!KeptDisk(n, disk_at[n])
      BY <2>1, <3>1, <3>3 DEF Disks!Fresh, Baseline, Disks!NoBase, Disks!None,
          Rates, SamplesCounted
    <3> QED
      BY <3>2, <3>3
  <2>3. DOMAIN disks' = found /\ DOMAIN disk_states' = found
    BY <2>1
  <2>4. Paired(disks', disk_states')
    BY <2>2, <2>3 DEF Paired
  <2> HIDE DEF found
  <2>5. told' = [disk |-> Disks!Attached(disks'), net |-> Disks!InNameOrder(nets)]
    BY <1>1, <2>1
  <2> QED
    BY <2>2, <2>3, <2>4, <2>5 DEF found
<1> QED
    BY <1>2, <1>3

(* Every step of the sampling thread and of the machine keeps the invariant. *)
LEMMA DisksStep == DisksInv /\ [Disks!Next]_storageVars => DisksInv'
<1> SUFFICES ASSUME DisksInv, [Disks!Next]_storageVars PROVE DisksInv'
    OBVIOUS
<1>0. SamplesCounted /\ DisksTyped /\ DiskBaselines /\ DiskRates /\ DisksTold
    BY DEF DisksInv
<1>a. SUFFICES /\ SamplesCounted' /\ DisksTyped' /\ DiskBaselines' /\ DiskRates'
               /\ told' = [disk |-> Disks!Attached(disks'),
                           net |-> Disks!InNameOrder(nets')]
    BY DEF DisksInv, DisksTold, Disks!Attached, Disks!InNameOrder
<1> DEFINE Told == told' = [disk |-> Disks!Attached(disks'),
                            net |-> Disks!InNameOrder(nets')]
           Goal == SamplesCounted' /\ DisksTyped' /\ DiskBaselines' /\ DiskRates'
                   /\ Told
<1> USE <1>0, StorageConstants
<1>1. ASSUME NEW n \in DiskNames, Disks!DiskChanges(n) PROVE Goal
  <2> USE <1>1 DEF Disks!DiskChanges, Disks!diskVars, Disks!netVars, Disks!scheduleVars
  <2>1. /\ disks' = disks /\ disk_states' = disk_states /\ told' = told
        /\ nets' = nets /\ net_states' = net_states
        /\ step' = step /\ sample' = sample /\ net_at' = net_at
    OBVIOUS
  <2>2. /\ born'.disk \in Nat /\ born'.disk <= MaxDisk /\ born.disk <= born'.disk
        /\ born' \in [disk : Nat, net : Nat]
        /\ \/ disk_at' = [disk_at EXCEPT ![n] = 0]
           \/ /\ disk_at' = [disk_at EXCEPT ![n] = born'.disk]
              /\ born.disk < born'.disk
    BY DEF DisksTyped, SamplesCounted, Disks!None
  <2>3. /\ disk_at \in [DiskNames -> 1 .. MaxDisk \cup {0}]
        /\ \A m \in DiskNames : disk_at[m] <= born.disk
        /\ born.disk \in Nat
    BY DEF DisksTyped, Disks!TypeOK, Disks!DiskDevices, Disks!None, SamplesCounted
  <2>4. /\ disk_at' \in [DiskNames -> 1 .. MaxDisk \cup {0}]
        /\ \A m \in DiskNames : disk_at'[m] <= born'.disk
    BY <2>2, <2>3
  <2>5. DisksTyped'
    BY <2>1, <2>2, <2>3, <2>4 DEF DisksTyped, Disks!TypeOK, Paired,
        Disks!DiskDevices, Disks!NetDevices, Disks!None
  <2>6. DiskBaselines'
    <3>1. \A m \in DOMAIN disks : disks[m].device \in 1 .. born.disk
                                  /\ m \in DiskNames
      BY DEF DisksTyped, Disks!TypeOK
    <3>2. \A m \in DOMAIN disks : disk_at[m] # disks[m].device =>
                                      disk_at'[m] # disks[m].device
      BY <2>2, <2>3, <3>1
    <3> QED
      BY <2>1, <3>2 DEF DiskBaselines, DisksRead
  <2>7. SamplesCounted' /\ DiskRates' /\ Told
    BY <2>1, <2>2 DEF SamplesCounted, DiskRates, DisksTold
  <2> QED
    BY <2>5, <2>6, <2>7
<1>2. CASE Disks!InitialiseDisks \/ Disks!RefreshDisks
  <2>1. /\ disk_at' = disk_at /\ born' = born /\ net_at' = net_at
        /\ nets' = nets /\ net_states' = net_states /\ sample' = sample
        /\ \/ step = "initialise" /\ step' \in {"networks", "idle"}
           \/ step = "refresh_disks" /\ step' = "refresh_networks"
    BY <1>2 DEF Disks!InitialiseDisks, Disks!RefreshDisks, Disks!machineVars,
                Disks!netVars, Disks!scheduleVars
  <2>2. PICK ok \in BOOLEAN : Disks!refresh_disks(ok)
    BY <1>2 DEF Disks!InitialiseDisks, Disks!RefreshDisks
  <2>8. /\ Paired(disks', disk_states') /\ DOMAIN disks' \subseteq DiskNames
        /\ \A n \in DOMAIN disks' :
              /\ disks'[n].device \in 1 .. born.disk
              /\ disk_states'[n].initialized =>
                    /\ disk_states'[n].previous.at = DisksRead
                    /\ disk_states'[n].previous.device # disks'[n].device =>
                          disk_at[n] # disks'[n].device
        /\ told' = [disk |-> Disks!Attached(disks'),
                    net |-> Disks!InNameOrder(nets)]
    BY <2>1, <2>2, DisksListed
  <2>3. DisksRead' = DisksRead /\ (step' = "idle" => sample' = 0)
    BY <2>1 DEF DisksRead, SamplesCounted
  <2>4. DisksTyped'
    <3>1. /\ DOMAIN disks' = DOMAIN disk_states' /\ DOMAIN disks' \subseteq DiskNames
          /\ \A n \in DOMAIN disks' : disks'[n].device \in 1 .. born.disk
      BY <2>8 DEF Paired
    <3>2. Paired(disks', disk_states') = Paired(disks, disk_states)'
      BY DEF Paired
    <3> QED
      BY <2>1, <2>8, <3>1, <3>2 DEF DisksTyped, Disks!TypeOK, Disks!DiskDevices,
          Disks!NetDevices, Disks!None
  <2>5. DiskBaselines'
    <3>1. ASSUME NEW n \in DOMAIN disks', disk_states'[n].initialized
          PROVE  /\ disk_states'[n].previous.at = DisksRead'
                 /\ disk_states'[n].previous.device # disks'[n].device =>
                          disk_at'[n] # disks'[n].device
      BY <2>1, <2>3, <2>8, <3>1
    <3> QED
      BY <3>1 DEF DiskBaselines
  <2>6. Told
    BY <2>1, <2>8
  <2>7. SamplesCounted' /\ DiskRates'
    BY <2>1, <2>3 DEF SamplesCounted, DiskRates
  <2> QED
    BY <2>4, <2>5, <2>6, <2>7
<1>3. CASE Disks!InitialiseNetworks \/ Disks!RefreshNetworks
  <2>1. /\ disk_at' = disk_at /\ born' = born /\ net_at' = net_at
        /\ disks' = disks /\ disk_states' = disk_states /\ sample' = sample
        /\ \/ step = "networks" /\ step' = "idle"
           \/ step = "refresh_networks" /\ step' = "update_disks"
    BY <1>3 DEF Disks!InitialiseNetworks, Disks!RefreshNetworks, Disks!machineVars,
                Disks!diskVars, Disks!scheduleVars
  <2>2. \/ \E ok \in BOOLEAN : Disks!refresh_networks(ok)
        \/ nets' = nets /\ net_states' = net_states /\ told' = told
    BY <1>3 DEF Disks!InitialiseNetworks, Disks!RefreshNetworks, Disks!netVars
  <2>3. /\ DOMAIN nets' = {} /\ DOMAIN net_states' = {}
        /\ told' = [disk |-> Disks!Attached(disks),
                    net |-> Disks!InNameOrder(nets')]
    <3>1. CASE \E ok \in BOOLEAN : Disks!refresh_networks(ok)
      BY <3>1, NoInterfaces
    <3>2. CASE nets' = nets /\ net_states' = net_states /\ told' = told
      BY <3>2 DEF DisksTyped, Disks!TypeOK, DisksTold
    <3> QED
      BY <2>2, <3>1, <3>2
  <2>4. DisksRead' = DisksRead /\ (step' = "idle" => sample' = 0)
    BY <2>1 DEF DisksRead, SamplesCounted
  <2>5. DisksTyped'
    BY <2>1, <2>3 DEF DisksTyped, Disks!TypeOK, Disks!DiskDevices,
        Disks!NetDevices, Disks!None, Paired
  <2>6. DiskBaselines' /\ DiskRates'
    BY <2>1, <2>4 DEF DiskBaselines, DiskRates, SamplesCounted
  <2>7. SamplesCounted' /\ Told
    BY <2>1, <2>3 DEF SamplesCounted
  <2> QED
    BY <2>5, <2>6, <2>7
<1>4. CASE Disks!BeginSample \/ Disks!RequestRefresh
  <2> USE <1>4 DEF Disks!BeginSample, Disks!RequestRefresh, Disks!machineVars,
          Disks!diskVars, Disks!netVars
  <2>1. /\ disk_at' = disk_at /\ born' = born /\ net_at' = net_at
        /\ disks' = disks /\ disk_states' = disk_states /\ told' = told
        /\ nets' = nets /\ net_states' = net_states
    OBVIOUS
  <2>2. \/ step' = step /\ sample' = sample
        \/ /\ step = "idle" /\ sample' = sample + 1
           /\ step' \in {"refresh_disks", "update_disks"}
    OBVIOUS
  <2>3. DisksRead' = DisksRead
    BY <2>2 DEF DisksRead, SamplesCounted
  <2>4. DisksTyped'
    BY <2>1, <2>2 DEF DisksTyped, Disks!TypeOK, Disks!DiskDevices,
        Disks!NetDevices, Disks!None, Paired
  <2>5. DiskBaselines' /\ DiskRates'
    BY <2>1, <2>2, <2>3 DEF DiskBaselines, DiskRates, SamplesCounted
  <2>6. SamplesCounted' /\ Told
    BY <2>1, <2>2 DEF SamplesCounted, DisksTold
  <2> QED
    BY <2>4, <2>5, <2>6
<1>5. CASE Disks!UpdateDisks
  <2> USE DEF Disks!machineVars, Disks!netVars, Disks!scheduleVars
  <2>1. /\ disk_at' = disk_at /\ born' = born /\ net_at' = net_at /\ told' = told
        /\ nets' = nets /\ net_states' = net_states /\ sample' = sample
        /\ step = "update_disks" /\ step' = "update_networks"
    BY <1>5 DEF Disks!UpdateDisks
  <2> DEFINE present == {disk_at[n] : n \in DiskNames} \ {Disks!None}
             read == {n \in DOMAIN disks : disk_at[n] # Disks!None}
  <2>2. PICK current \in Disks!Readings("disk", present), sampled \in {{}, read} :
          LET Reading(n) == [device |-> disk_at[n], count |-> current[disk_at[n]],
                             at |-> sample]
          IN /\ disks' = [n \in DOMAIN disks |-> [disks[n] EXCEPT !.rate =
                    IF n \in sampled
                    THEN Disks!Accounted(disk_states[n], Reading(n))
                    ELSE Disks!NaN]]
             /\ disk_states' = [n \in DOMAIN disk_states |->
                    IF n \in sampled
                    THEN [initialized |-> TRUE, previous |-> Reading(n)]
                    ELSE Disks!Lost(disk_states[n])]
    BY <1>5 DEF Disks!UpdateDisks
  <2> DEFINE reading == [n \in sampled |-> [device |-> disk_at[n],
                             count |-> current[disk_at[n]], at |-> sample]]
  <2>3. sampled \subseteq read /\ read \subseteq DOMAIN disks
    OBVIOUS
  <2>4. \A n \in read : /\ n \in DiskNames /\ disk_at[n] \in present
                         /\ disk_at[n] \in Nat
    <3>1. read \subseteq DiskNames /\ disk_at \in [DiskNames -> Nat]
      BY DEF DisksTyped, Disks!TypeOK, Disks!DiskDevices, Disks!None
    <3> QED
      BY <3>1
  <2>5. \A n \in sampled : reading[n] \in Baseline
    <3>1. current \in [present -> 0 .. MaxCount]
      BY DEF Disks!Readings
    <3> HIDE DEF present, read
    <3>2. \A n \in sampled : /\ disk_at[n] \in Nat
                              /\ current[disk_at[n]] \in Nat /\ sample \in Nat
      BY <2>3, <2>4, <3>1 DEF SamplesCounted
    <3> QED
      BY <3>2 DEF Baseline
  <2>6. Reckoning(disks, disk_states, sampled, reading, disks', disk_states')
    BY <2>2, <2>5 DEF Reckoning
  <2>7. \A n \in sampled : reading[n].device = disk_at[n] /\ reading[n].at = sample
    OBVIOUS
  <2> HIDE DEF reading, read, present
  <2>8. /\ Paired(disks', disk_states') /\ DOMAIN disks' = DOMAIN disks
        /\ \A n \in DOMAIN disks :
              /\ disks'[n].device = disks[n].device
              /\ disk_states'[n].initialized =>
                    n \in sampled /\ disk_states'[n].previous = reading[n]
              /\ disks'[n].rate.kind # "zero"
              /\ disks'[n].rate.kind = "rate" =>
                    /\ n \in sampled /\ disk_states[n].initialized
                    /\ disk_states[n].previous.count <= reading[n].count
                    /\ disks'[n].rate.from = disk_states[n].previous
                    /\ disks'[n].rate.to = reading[n]
    <3>1. Paired(disks, disk_states)
      BY DEF DisksTyped
    <3> QED
      BY <2>6, <3>1, Reckoned
  <2>9. DisksTyped'
    BY <2>1, <2>8 DEF DisksTyped, Disks!TypeOK, Disks!DiskDevices,
        Disks!NetDevices, Disks!None, Paired
  <2>10. DiskBaselines'
    <3>1. DisksRead' = sample
      BY <2>1 DEF DisksRead
    <3> QED
      BY <2>1, <2>7, <2>8, <3>1 DEF DiskBaselines
  <2>11. DiskRates'
    <3>1. DisksRead = sample - 1
      BY <2>1 DEF DisksRead
    <3> QED
      BY <2>1, <2>7, <2>8, <3>1 DEF DiskRates, DiskBaselines
  <2>12. SamplesCounted' /\ Told
    <3>1. Disks!Attached(disks') = Disks!Attached(disks)
      BY <2>8 DEF Disks!Attached
    <3> QED
      BY <2>1, <3>1 DEF SamplesCounted, DisksTold
  <2> QED
    BY <2>9, <2>10, <2>11, <2>12
<1>6. CASE Disks!UpdateNetworks
  <2>1. /\ disk_at' = disk_at /\ born' = born /\ net_at' = net_at /\ told' = told
        /\ disks' = disks /\ disk_states' = disk_states /\ sample' = sample
        /\ step = "update_networks" /\ step' = "idle"
        /\ DOMAIN nets' = DOMAIN nets /\ DOMAIN net_states' = DOMAIN net_states
    BY <1>6 DEF Disks!UpdateNetworks, Disks!diskVars
  <2>2. DOMAIN nets = {}
    BY DEF DisksTyped, Disks!TypeOK
  <2>3. DisksTyped'
    BY <2>1 DEF DisksTyped, Disks!TypeOK, Disks!DiskDevices, Disks!NetDevices,
        Disks!None, Paired
  <2>4. DiskBaselines' /\ DiskRates'
    BY <2>1 DEF DiskBaselines, DiskRates, DisksRead
  <2>5. Disks!InNameOrder(nets') = Disks!InNameOrder(nets)
    <3>1. Disks!Cardinality({}) = 0
      BY FS_EmptySet DEF Disks!Cardinality, Cardinality
    <3> QED
      BY <2>1, <2>2, <3>1 DEF Disks!InNameOrder
  <2>6. SamplesCounted' /\ Told
    BY <2>1, <2>5 DEF SamplesCounted, DisksTold
  <2> QED
    BY <2>3, <2>4, <2>6
<1>7. CASE UNCHANGED storageVars
    BY <1>7 DEF storageVars, SamplesCounted, DisksTyped, DiskBaselines, DiskRates,
        DisksRead, Paired, Disks!TypeOK, Disks!DiskDevices, Disks!NetDevices,
        DisksTold
<1> QED
    BY <1>1, <1>2, <1>3, <1>4, <1>5, <1>6, <1>7 DEF Disks!Next

(* For the interfaces, which are found by instance and keep rate and        *)
(* baseline under another name.                                             *)
NetsTyped ==
    /\ Networks!TypeOK /\ Paired(nets, net_states)
    /\ born.net <= MaxNet

(* The sample in which the interfaces were last read.                       *)
NetsRead ==
    IF step \in {"refresh_disks", "refresh_networks", "update_disks",
                 "update_networks"}
    THEN sample - 1 ELSE sample

(* A baseline is of the interface listed and of the last sample.            *)
NetBaselines ==
    \A n \in DOMAIN nets : net_states[n].initialized =>
        /\ net_states[n].previous.at = NetsRead
        /\ net_states[n].previous.device = nets[n].device

NetsTold ==
    told = [disk |-> Networks!Attached(disks), net |-> Networks!InNameOrder(nets)]

NetRates ==
    step = "idle" /\ sample > 0 =>
        \A n \in DOMAIN nets :
            LET rate == nets[n].rate
            IN /\ rate.kind # "zero"
               /\ rate.kind = "rate" =>
                     /\ rate.to.at = sample /\ rate.from.at = sample - 1
                     /\ rate.from.count <= rate.to.count
                     /\ rate.to.device = nets[n].device
                     /\ rate.from.device = nets[n].device

NetsInv ==
    /\ SamplesCounted
    /\ NetsTyped
    /\ NetBaselines
    /\ NetRates
    /\ NetsTold

(* The order in the list depends on the names and devices only.             *)
LEMMA OrderOfDevices ==
    ASSUME NEW table, NEW table2, DOMAIN table2 = DOMAIN table,
           DOMAIN table \in SUBSET Nat, IsFiniteSet(DOMAIN table),
           \A n \in DOMAIN table : table2[n].device = table[n].device
    PROVE  Networks!InNameOrder(table2) = Networks!InNameOrder(table)
<1> DEFINE D == DOMAIN table
           At(i) == CHOOSE n \in D : Networks!Cardinality({m \in D : m <= n}) = i
<1>1. \A S : Networks!Cardinality(S) = Cardinality(S)
    BY DEF Networks!Cardinality, Cardinality
<1>2. /\ Networks!InNameOrder(table) =
             [i \in 1 .. Networks!Cardinality(D) |-> table[At(i)].device]
      /\ Networks!InNameOrder(table2) =
             [i \in 1 .. Networks!Cardinality(D) |-> table2[At(i)].device]
    BY DEF Networks!InNameOrder
<1>3. ASSUME NEW i \in 1 .. Networks!Cardinality(D) PROVE At(i) \in D
  <2>1. PICK n \in D : Cardinality({m \in D : m <= n}) = i
    BY <1>1, Ranked
  <2>2. Networks!Cardinality({m \in D : m <= n}) = i
    BY <1>1, <2>1
  <2> QED
    BY <2>2
<1> HIDE DEF At
<1> QED
    BY <1>2, <1>3

(* Both instances speak of the same rates.                                  *)
LEMMA SameRates ==
    /\ Networks!NaN = Disks!NaN /\ Networks!Zero = Disks!Zero
    /\ \A state, reading :
          Networks!Accounted(state, reading) = Disks!Accounted(state, reading)
    /\ \A state : Networks!Lost(state) = Disks!Lost(state)
    BY DEF Networks!NaN, Disks!NaN, Networks!Zero, Disks!Zero, Networks!Lost,
           Disks!Lost, Networks!Accounted, Disks!Accounted, Networks!Rate, Disks!Rate

(* No interface is known at the start.                                      *)
LEMMA NetsStart == Networks!Init => NetsInv
<1> SUFFICES ASSUME Networks!Init PROVE NetsInv
    OBVIOUS
<1> USE StorageConstants
<1>1. SamplesCounted
    BY DEF Networks!Init, SamplesCounted
<1>2. DOMAIN disks = {} /\ DOMAIN nets = {} /\ DOMAIN disk_states = {}
      /\ DOMAIN net_states = {}
    BY DEF Networks!Init
<1>3. born.net \in 0 .. MaxNet
    BY DEF Networks!Init
<1>4. net_at \in [NetNames -> 1 .. MaxNet \cup {0}]
    BY <1>3 DEF Networks!Init, Networks!None
<1>5. NetsTyped
    BY <1>2, <1>3, <1>4 DEF NetsTyped, Networks!TypeOK, Networks!Init, Paired,
        Networks!DiskDevices, Networks!NetDevices, Networks!None
<1>6. NetBaselines /\ NetRates
    BY <1>2 DEF NetBaselines, NetRates, Networks!Init
<1>7. NetsTold
    BY NothingListed DEF NetsTold, Networks!Init
<1> QED
    BY <1>1, <1>5, <1>6, <1>7 DEF NetsInv

(* There are finitely many interfaces.                                      *)
LEMMA InterfacesFinite == IsFiniteSet(NetNames)
<1>1. Networks!IsFiniteSet(NetNames)
    BY LinuxAssumption DEF LinuxAssumption, Networks!StorageAssumption
<1> QED
    BY <1>1 DEF Networks!IsFiniteSet, IsFiniteSet

(* A listing moves rate and baseline with the interface.                    *)
LEMMA NetsListed ==
    ASSUME NetsInv, NEW ok \in BOOLEAN, Networks!refresh_networks(ok)
    PROVE  /\ Paired(nets', net_states') /\ DOMAIN nets' \subseteq NetNames
           /\ \A n \in DOMAIN nets' :
                 net_states'[n].initialized =>
                       /\ net_states'[n].previous.at = NetsRead
                       /\ net_states'[n].previous.device = nets'[n].device
           /\ told' = [disk |-> Networks!Attached(disks),
                       net |-> Networks!InNameOrder(nets')]
<1>1. told = [disk |-> Networks!Attached(disks), net |-> Networks!InNameOrder(nets)]
    BY DEF NetsInv, NetsTold
<1>2. NetsTyped /\ NetBaselines /\ SamplesCounted
    BY DEF NetsInv
<1>3. CASE ~ok
  <2>1. nets' = nets /\ net_states' = net_states /\ told' = told
    BY <1>3 DEF Networks!refresh_networks, Networks!netVars
  <2> QED
    BY <1>1, <1>2, <2>1 DEF NetsTyped, NetBaselines, Networks!TypeOK
<1>4. CASE ok
  <2> DEFINE found == {n \in NetNames : net_at[n] # Networks!None}
             Same(n) == Networks!SameNetwork(nets, net_at[n])
             Old(n) == CHOOSE m \in Same(n) : TRUE
  <2>1. /\ nets' = [n \in found |-> IF Same(n) # {} THEN nets[Old(n)]
                        ELSE [device |-> net_at[n], rate |-> Networks!Zero]]
        /\ net_states' = [n \in found |-> IF Same(n) # {}
                        THEN net_states[Old(n)] ELSE Networks!Fresh]
        /\ told' = IF Networks!InNameOrder(nets') # Networks!InNameOrder(nets)
                   THEN [told EXCEPT !.net = Networks!InNameOrder(nets')] ELSE told
    BY <1>4 DEF Networks!refresh_networks, Networks!ListNetworks,
                Networks!NetworkMembershipChanged
  <2>2. DOMAIN nets' = found /\ DOMAIN net_states' = found
    BY <2>1
  <2>3. ASSUME NEW n \in found
        PROVE  /\ nets'[n] \in [device : Nat, rate : Rates]
               /\ net_states'[n] \in [initialized : BOOLEAN, previous : Baseline]
               /\ net_states'[n].initialized =>
                       /\ net_states'[n].previous.at = NetsRead
                       /\ net_states'[n].previous.device = nets'[n].device
    <3>1. CASE Same(n) # {}
      <4>1. Old(n) \in DOMAIN nets
        BY <3>1 DEF Networks!SameNetwork
      <4>2. nets'[n] = nets[Old(n)] /\ net_states'[n] = net_states[Old(n)]
        BY <2>1, <3>1
      <4> HIDE DEF Old
      <4> QED
        BY <1>2, <4>1, <4>2 DEF NetsTyped, Paired, NetBaselines
    <3>2. CASE Same(n) = {}
      <4>1. net_at[n] \in Nat
        BY <1>2 DEF NetsTyped, Networks!TypeOK, Networks!NetDevices, Networks!None
      <4>2. /\ nets'[n] = [device |-> net_at[n], rate |-> Networks!Zero]
            /\ net_states'[n] = Networks!Fresh
        BY <2>1, <3>2
      <4> QED
        BY <4>1, <4>2, SameRates DEF Networks!Fresh, Baseline, Networks!NoBase,
            Networks!None, Rates
    <3> QED
      BY <3>1, <3>2
  <2>4. Paired(nets', net_states')
    BY <2>2, <2>3 DEF Paired
  <2>5. told' = [disk |-> Networks!Attached(disks),
                 net |-> Networks!InNameOrder(nets')]
    BY <1>1, <2>1
  <2>6. found \subseteq NetNames
    OBVIOUS
  <2> HIDE DEF found, Same, Old
  <2> QED
    BY <2>2, <2>3, <2>4, <2>5, <2>6
<1> QED
    BY <1>3, <1>4

(* There are no disks in this study, and their list stays empty.            *)
LEMMA NoDisks ==
    ASSUME NetsInv, NEW ok \in BOOLEAN, Networks!refresh_disks(ok)
    PROVE  /\ DOMAIN disks' = {} /\ DOMAIN disk_states' = {}
           /\ told' = [disk |-> Networks!Attached(disks'),
                       net |-> Networks!InNameOrder(nets)]
<1>1. DOMAIN disks = {} /\ DOMAIN disk_states = {}
    BY DEF NetsInv, NetsTyped, Networks!TypeOK
<1>2. told = [disk |-> Networks!Attached(disks), net |-> Networks!InNameOrder(nets)]
    BY DEF NetsInv, NetsTold
<1>3. CASE ~ok
    BY <1>1, <1>2, <1>3 DEF Networks!refresh_disks, Networks!diskVars
<1>4. CASE ok
  <2>1. /\ Networks!ListDisks
        /\ told' = IF Networks!Attached(disks') # Networks!Attached(disks)
                   THEN [told EXCEPT !.disk = Networks!Attached(disks')] ELSE told
    BY <1>4 DEF Networks!refresh_disks, Networks!DiskMembershipChanged
  <2>2. DOMAIN disks' = {} /\ DOMAIN disk_states' = {}
    BY <2>1 DEF Networks!ListDisks
  <2> QED
    BY <1>2, <2>1, <2>2
<1> QED
    BY <1>3, <1>4

(* Every step keeps the invariant of the interfaces.                        *)
LEMMA NetsStep == NetsInv /\ [Networks!Next]_storageVars => NetsInv'
<1> SUFFICES ASSUME NetsInv, [Networks!Next]_storageVars PROVE NetsInv'
    OBVIOUS
<1>0. SamplesCounted /\ NetsTyped /\ NetBaselines /\ NetRates /\ NetsTold
    BY DEF NetsInv
<1>a. SUFFICES /\ SamplesCounted' /\ NetsTyped' /\ NetBaselines' /\ NetRates'
               /\ told' = [disk |-> Networks!Attached(disks'),
                           net |-> Networks!InNameOrder(nets')]
    BY DEF NetsInv, NetsTold, Networks!Attached, Networks!InNameOrder
<1> DEFINE Told == told' = [disk |-> Networks!Attached(disks'),
                            net |-> Networks!InNameOrder(nets')]
           Goal == SamplesCounted' /\ NetsTyped' /\ NetBaselines' /\ NetRates'
                   /\ Told
<1> USE <1>0, StorageConstants
<1>1. ASSUME NEW n \in NetNames, Networks!InterfaceChanges(n) PROVE Goal
  <2> USE <1>1 DEF Networks!InterfaceChanges, Networks!diskVars, Networks!netVars,
          Networks!scheduleVars
  <2>1. /\ disks' = disks /\ disk_states' = disk_states /\ told' = told
        /\ nets' = nets /\ net_states' = net_states
        /\ step' = step /\ sample' = sample /\ disk_at' = disk_at
    OBVIOUS
  <2>2. /\ net_at \in [NetNames -> 1 .. MaxNet \cup {0}]
        /\ born \in [disk : Nat, net : Nat] /\ born.net <= MaxNet
    BY DEF NetsTyped, Networks!TypeOK, Networks!NetDevices, Networks!None,
           SamplesCounted
  <2>3. /\ net_at' \in [NetNames -> 1 .. MaxNet \cup {0}]
        /\ born' \in [disk : Nat, net : Nat] /\ born'.net <= MaxNet
    <3>1. CASE net_at' = [net_at EXCEPT ![n] = 0] /\ born' = born
      BY <2>2, <3>1
    <3>2. CASE /\ born.net < MaxNet /\ born' = [born EXCEPT !.net = @ + 1]
               /\ net_at' = [net_at EXCEPT ![n] = born.net + 1]
      BY <2>2, <3>2
    <3>3. CASE \E m \in NetNames :
                  /\ net_at' = [net_at EXCEPT ![n] = 0, ![m] = net_at[n]]
                  /\ born' = born
      BY <2>2, <3>3
    <3>4. CASE net_at' = net_at /\ born' = born
      BY <2>2, <3>4
    <3> QED
      BY <3>1, <3>2, <3>3, <3>4 DEF Networks!None
  <2>4. NetsTyped'
    BY <2>1, <2>3 DEF NetsTyped, Networks!TypeOK, Paired,
        Networks!DiskDevices, Networks!NetDevices, Networks!None
  <2>5. NetBaselines' /\ SamplesCounted' /\ NetRates' /\ Told
    BY <2>1, <2>3 DEF NetBaselines, NetsRead, SamplesCounted, NetRates, NetsTold
  <2> QED
    BY <2>4, <2>5
<1>2. CASE Networks!InitialiseDisks \/ Networks!RefreshDisks
  <2>1. /\ disk_at' = disk_at /\ born' = born /\ net_at' = net_at
        /\ nets' = nets /\ net_states' = net_states /\ sample' = sample
        /\ \/ step = "initialise" /\ step' \in {"networks", "idle"}
           \/ step = "refresh_disks" /\ step' = "refresh_networks"
    BY <1>2 DEF Networks!InitialiseDisks, Networks!RefreshDisks,
        Networks!machineVars, Networks!netVars, Networks!scheduleVars
  <2>2. PICK ok \in BOOLEAN : Networks!refresh_disks(ok)
    BY <1>2 DEF Networks!InitialiseDisks, Networks!RefreshDisks
  <2>3. /\ DOMAIN disks' = {} /\ DOMAIN disk_states' = {}
        /\ told' = [disk |-> Networks!Attached(disks'),
                    net |-> Networks!InNameOrder(nets)]
    BY <2>2, NoDisks
  <2>4. NetsRead' = NetsRead /\ (step' = "idle" => sample' = 0)
    BY <2>1 DEF NetsRead, SamplesCounted
  <2>5. NetsTyped'
    BY <2>1, <2>3 DEF NetsTyped, Networks!TypeOK, Networks!DiskDevices,
        Networks!NetDevices, Networks!None, Paired
  <2>6. NetBaselines' /\ NetRates'
    BY <2>1, <2>4 DEF NetBaselines, NetRates
  <2>7. SamplesCounted' /\ Told
    BY <2>1, <2>3 DEF SamplesCounted
  <2> QED
    BY <2>5, <2>6, <2>7
<1>3. CASE Networks!InitialiseNetworks \/ Networks!RefreshNetworks
  <2>1. /\ disk_at' = disk_at /\ born' = born /\ net_at' = net_at
        /\ disks' = disks /\ disk_states' = disk_states /\ sample' = sample
        /\ \/ step = "networks" /\ step' = "idle"
           \/ step = "refresh_networks" /\ step' = "update_disks"
    BY <1>3 DEF Networks!InitialiseNetworks, Networks!RefreshNetworks,
        Networks!machineVars, Networks!diskVars, Networks!scheduleVars
  <2>2. \/ \E ok \in BOOLEAN : Networks!refresh_networks(ok)
        \/ nets' = nets /\ net_states' = net_states /\ told' = told
    BY <1>3 DEF Networks!InitialiseNetworks, Networks!RefreshNetworks,
        Networks!netVars
  <2>3. /\ Paired(nets', net_states') /\ DOMAIN nets' \subseteq NetNames
        /\ \A n \in DOMAIN nets' :
              net_states'[n].initialized =>
                    /\ net_states'[n].previous.at = NetsRead
                    /\ net_states'[n].previous.device = nets'[n].device
        /\ told' = [disk |-> Networks!Attached(disks),
                    net |-> Networks!InNameOrder(nets')]
    <3>1. CASE \E ok \in BOOLEAN : Networks!refresh_networks(ok)
      BY <3>1, NetsListed
    <3>2. CASE nets' = nets /\ net_states' = net_states /\ told' = told
      BY <3>2 DEF NetsTyped, Networks!TypeOK, NetsTold, NetBaselines
    <3> QED
      BY <2>2, <3>1, <3>2
  <2>4. NetsRead' = NetsRead /\ (step' = "idle" => sample' = 0)
    BY <2>1 DEF NetsRead, SamplesCounted
  <2>5. NetsTyped'
    <3>1. Paired(nets', net_states') = Paired(nets, net_states)'
      BY DEF Paired
    <3>2. DOMAIN nets' = DOMAIN net_states'
      BY <2>3 DEF Paired
    <3> QED
      BY <2>1, <2>3, <3>1, <3>2 DEF NetsTyped, Networks!TypeOK,
          Networks!DiskDevices, Networks!NetDevices, Networks!None
  <2>6. NetBaselines' /\ NetRates'
    BY <2>1, <2>3, <2>4 DEF NetBaselines, NetRates
  <2>7. SamplesCounted' /\ Told
    BY <2>1, <2>3 DEF SamplesCounted
  <2> QED
    BY <2>5, <2>6, <2>7
<1>4. CASE Networks!BeginSample \/ Networks!RequestRefresh
  <2> USE <1>4 DEF Networks!BeginSample, Networks!RequestRefresh,
          Networks!machineVars, Networks!diskVars, Networks!netVars
  <2>1. /\ disk_at' = disk_at /\ born' = born /\ net_at' = net_at
        /\ disks' = disks /\ disk_states' = disk_states /\ told' = told
        /\ nets' = nets /\ net_states' = net_states
    OBVIOUS
  <2>2. \/ step' = step /\ sample' = sample
        \/ /\ step = "idle" /\ sample' = sample + 1
           /\ step' \in {"refresh_disks", "update_disks"}
    OBVIOUS
  <2>3. NetsRead' = NetsRead
    BY <2>2 DEF NetsRead, SamplesCounted
  <2>4. NetsTyped'
    BY <2>1, <2>2 DEF NetsTyped, Networks!TypeOK, Networks!DiskDevices,
        Networks!NetDevices, Networks!None, Paired
  <2>5. NetBaselines' /\ NetRates'
    BY <2>1, <2>2, <2>3 DEF NetBaselines, NetRates, SamplesCounted
  <2>6. SamplesCounted' /\ Told
    BY <2>1, <2>2 DEF SamplesCounted, NetsTold
  <2> QED
    BY <2>4, <2>5, <2>6
<1>5. CASE Networks!UpdateDisks
  <2>1. /\ disk_at' = disk_at /\ born' = born /\ net_at' = net_at /\ told' = told
        /\ nets' = nets /\ net_states' = net_states /\ sample' = sample
        /\ step = "update_disks" /\ step' = "update_networks"
        /\ DOMAIN disks' = DOMAIN disks /\ DOMAIN disk_states' = DOMAIN disk_states
    BY <1>5 DEF Networks!UpdateDisks, Networks!netVars, Networks!scheduleVars
  <2>2. DOMAIN disks = {}
    BY DEF NetsTyped, Networks!TypeOK
  <2>3. NetsTyped'
    BY <2>1 DEF NetsTyped, Networks!TypeOK, Networks!DiskDevices,
        Networks!NetDevices, Networks!None, Paired
  <2>4. NetBaselines' /\ NetRates'
    BY <2>1 DEF NetBaselines, NetRates, NetsRead
  <2>5. Networks!Attached(disks') = Networks!Attached(disks)
    BY <2>1, <2>2 DEF Networks!Attached
  <2>6. SamplesCounted' /\ Told
    BY <2>1, <2>5 DEF SamplesCounted, NetsTold
  <2> QED
    BY <2>3, <2>4, <2>6
<1>6. CASE Networks!UpdateNetworks
  <2>1. /\ disk_at' = disk_at /\ born' = born /\ net_at' = net_at /\ told' = told
        /\ disks' = disks /\ disk_states' = disk_states /\ sample' = sample
        /\ step = "update_networks" /\ step' = "idle"
    BY <1>6 DEF Networks!UpdateNetworks, Networks!diskVars
  <2> DEFINE present == {net_at[n] : n \in NetNames} \ {Networks!None}
  <2>2. PICK current \in Networks!Readings("net", present),
             sampled \in SUBSET DOMAIN nets :
          /\ \A n \in sampled : Networks!SuppliedBy(n)
          /\ LET Reading(n) == [device |-> net_at[n], count |-> current[net_at[n]],
                                at |-> sample]
             IN /\ nets' = [n \in DOMAIN nets |-> [nets[n] EXCEPT !.rate =
                       IF n \in sampled
                       THEN Networks!Accounted(net_states[n], Reading(n))
                       ELSE Networks!NaN]]
                /\ net_states' = [n \in DOMAIN net_states |->
                       IF n \in sampled
                       THEN [initialized |-> TRUE, previous |-> Reading(n)]
                       ELSE Networks!Lost(net_states[n])]
    BY <1>6 DEF Networks!UpdateNetworks
  <2> DEFINE reading == [n \in sampled |-> [device |-> net_at[n],
                             count |-> current[net_at[n]], at |-> sample]]
  <2>3. \A n \in sampled : /\ n \in NetNames /\ net_at[n] \in present
                           /\ net_at[n] \in Nat /\ net_at[n] = nets[n].device
    <3>1. sampled \subseteq NetNames /\ net_at \in [NetNames -> Nat]
      BY DEF NetsTyped, Networks!TypeOK, Networks!NetDevices, Networks!None
    <3> QED
      BY <2>2, <3>1 DEF Networks!SuppliedBy
  <2>4. \A n \in sampled : reading[n] \in Baseline
    <3>1. current \in [present -> 0 .. MaxCount]
      BY DEF Networks!Readings
    <3> HIDE DEF present
    <3>2. \A n \in sampled : /\ net_at[n] \in Nat
                             /\ current[net_at[n]] \in Nat /\ sample \in Nat
      BY <2>3, <3>1 DEF SamplesCounted
    <3> QED
      BY <3>2 DEF Baseline
  <2>5. Reckoning(nets, net_states, sampled, reading, nets', net_states')
    BY <2>2, <2>4, SameRates DEF Reckoning
  <2>6. \A n \in sampled : /\ reading[n].device = nets[n].device
                           /\ reading[n].at = sample
    BY <2>3
  <2> HIDE DEF reading, present
  <2>7. /\ Paired(nets', net_states') /\ DOMAIN nets' = DOMAIN nets
        /\ \A n \in DOMAIN nets :
              /\ nets'[n].device = nets[n].device
              /\ net_states'[n].initialized =>
                    n \in sampled /\ net_states'[n].previous = reading[n]
              /\ nets'[n].rate.kind # "zero"
              /\ nets'[n].rate.kind = "rate" =>
                    /\ n \in sampled /\ net_states[n].initialized
                    /\ net_states[n].previous.count <= reading[n].count
                    /\ nets'[n].rate.from = net_states[n].previous
                    /\ nets'[n].rate.to = reading[n]
    <3>1. Paired(nets, net_states)
      BY DEF NetsTyped
    <3> QED
      BY <2>5, <3>1, Reckoned
  <2>8. NetsTyped'
    BY <2>1, <2>7 DEF NetsTyped, Networks!TypeOK, Networks!DiskDevices,
        Networks!NetDevices, Networks!None, Paired
  <2>9. NetBaselines'
    <3>1. NetsRead' = sample
      BY <2>1 DEF NetsRead
    <3> QED
      BY <2>1, <2>6, <2>7, <3>1 DEF NetBaselines
  <2>10. NetRates'
    <3>1. NetsRead = sample - 1
      BY <2>1 DEF NetsRead
    <3> QED
      BY <2>1, <2>6, <2>7, <3>1 DEF NetRates, NetBaselines
  <2>11. SamplesCounted' /\ Told
    <3>1. IsFiniteSet(DOMAIN nets) /\ DOMAIN nets \in SUBSET Nat
      <4>1. DOMAIN nets \subseteq NetNames /\ IsFiniteSet(NetNames)
        BY InterfacesFinite DEF NetsTyped, Networks!TypeOK
      <4> QED
        BY <4>1, FS_Subset
    <3>2. Networks!InNameOrder(nets') = Networks!InNameOrder(nets)
      BY <2>7, <3>1, OrderOfDevices
    <3> QED
      BY <2>1, <3>2 DEF SamplesCounted, NetsTold
  <2> QED
    BY <2>8, <2>9, <2>10, <2>11
<1>7. CASE UNCHANGED storageVars
    BY <1>7 DEF storageVars, SamplesCounted, NetsTyped, NetBaselines, NetRates,
        NetsRead, Paired, Networks!TypeOK, Networks!DiskDevices,
        Networks!NetDevices, NetsTold
<1> QED
    BY <1>1, <1>2, <1>3, <1>4, <1>5, <1>6, <1>7 DEF Networks!Next

-----------------------------------------------------------------------------
(* The disks of the Windows backend, and its network adapters, of which     *)
(* there may be one more than it has room for.                              *)
WindowsDisks == INSTANCE WindowsDevices WITH
    Adapters <- {}, MaxSamples <- MaxSamples + 1, disks <- win_disks,
    nets <- win_nets, slots <- net_slots, told <- win_told, step <- win_step,
    sample <- win_sample
WindowsNetworks == INSTANCE WindowsDevices WITH
    Drives <- {}, Adapters <- Luids, disks <- win_disks,
    nets <- win_nets, slots <- net_slots, told <- win_told, step <- win_step,
    sample <- win_sample

ASSUME WindowsAssumption ==
    WindowsDisks!DevicesAssumption /\ WindowsNetworks!DevicesAssumption

(* The disks of the Windows backend, for any drive numbers and any number   *)
(* of samples.                                                              *)

WindowsRates(ids) ==
    {WindowsDisks!NaN, WindowsDisks!Zero} \cup
    [kind : {"rate"}, device : ids, from : Int, to : Int]

(* A list and the baselines at its positions, last read in sample n.        *)
DisksWhole(list, base, n) ==
    /\ DOMAIN list = DOMAIN base
    /\ \A i \in DOMAIN list :
          /\ list[i] \in [id : Drives, volumes : Nat, rate : WindowsRates(Drives)]
          /\ base[i] \in [valid : BOOLEAN, key : Drives, at : 0 .. MaxSamples + 1]
          /\ list[i].id = base[i].key
          /\ base[i].valid => base[i].at = n

VolumesRead(list) ==
    \A i, j \in DOMAIN list :
        list[i].volumes > 0 /\ list[i].volumes = list[j].volumes

(* There are no adapters in this study.                                     *)
WinDisksTyped ==
    /\ WindowsDisks!TypeOK
    /\ win_sample \in 0 .. MaxSamples + 1 /\ (win_step # "idle" => win_sample > 0)
    /\ win_nets = <<>> /\ discovered = <<>> /\ row \in Nat
    /\ win_step = "disks" => \A i \in DOMAIN seen : seen[i] \in Drives
    /\ win_step = "rows" => slot_backup \in [WindowsDisks!Slots ->
           [valid : BOOLEAN, key : {0}, at : 0 .. MaxSamples + 1]]

(* The sample in which the disks were last read.                            *)
WinDisksRead ==
    IF win_step \in {"numbers", "disks", "counters"} THEN win_sample - 1
    ELSE win_sample

(* A scan that is not taken over yet can be undone.                         *)
ScanUndone ==
    win_step \in {"disks", "volumes"} =>
        /\ DisksWhole(backup.disks, backup.baselines, win_sample - 1)
        /\ VolumesRead(backup.disks)
        /\ backup.told = WindowsDisks!Ids(backup.disks)

(* A rate, or the zero of a disk that is listed for the first time in this  *)
(* scan and whose counters could not be read.                               *)
DiskRate(disk, base) ==
    \/ disk.rate \in {WindowsDisks!NaN,
                      WindowsDisks!Rate(disk.id, win_sample - 1, win_sample)}
    \/ /\ disk.rate = WindowsDisks!Zero /\ ~base.valid
       /\ win_step = "volumes" \/ disk.volumes = win_sample

WinDiskRates ==
    win_step \notin {"numbers", "disks", "counters"} =>
        \A i \in DOMAIN win_disks : DiskRate(win_disks[i], baselines[i])

WinDisksTold ==
    win_told = [disks |-> WindowsDisks!Ids(win_disks),
                nets |-> WindowsDisks!Ids(win_nets)]

WinDisksInv ==
    /\ WinDisksTyped
    /\ DisksWhole(win_disks, baselines, WinDisksRead)
    /\ win_step # "volumes" => VolumesRead(win_disks)
    /\ ScanUndone
    /\ WinDiskRates
    /\ WinDisksTold

(* What is assumed of the constants of the Windows devices.                 *)
LEMMA WindowsConstants ==
    /\ MaxSamples \in Nat /\ LSM_MAX_NETS \in Nat \ {0}
    /\ IsFiniteSet(Drives) /\ IsFiniteSet(Luids)
<1>1. WindowsDisks!DevicesAssumption /\ WindowsNetworks!DevicesAssumption
    BY WindowsAssumption DEF WindowsAssumption
<1>2. \A S : /\ WindowsDisks!IsFiniteSet(S) <=> IsFiniteSet(S)
             /\ WindowsNetworks!IsFiniteSet(S) <=> IsFiniteSet(S)
    BY DEF WindowsDisks!IsFiniteSet, WindowsNetworks!IsFiniteSet, IsFiniteSet
<1> QED
    BY <1>1, <1>2 DEF WindowsDisks!DevicesAssumption,
        WindowsNetworks!DevicesAssumption

(* No Windows disk is known at the start.                                   *)
LEMMA WinDisksStart == WindowsDisks!Init => WinDisksInv
<1> SUFFICES ASSUME WindowsDisks!Init PROVE WinDisksInv
    OBVIOUS
<1> USE WindowsConstants DEF WindowsDisks!Init
<1>1. /\ DOMAIN win_disks = {} /\ DOMAIN baselines = {}
      /\ WindowsDisks!Ids(win_disks) = <<>> /\ WindowsDisks!Ids(win_nets) = <<>>
    BY DEF WindowsDisks!Ids
<1>2. /\ WindowsDisks!Range(WindowsDisks!Ids(win_disks)) \subseteq Drives
      /\ WindowsDisks!Range(WindowsDisks!Ids(win_nets)) \subseteq {}
    BY <1>1 DEF WindowsDisks!Range
<1>3. net_slots \in [WindowsDisks!Slots ->
          [valid : BOOLEAN, key : {} \cup {0}, at : 0 .. MaxSamples + 1]]
    BY DEF WindowsDisks!NoSlot
<1>4. WindowsDisks!TypeOK
    BY <1>2, <1>3 DEF WindowsDisks!TypeOK
<1>5. WinDisksTyped /\ ScanUndone /\ WinDiskRates /\ WinDisksTold
    BY <1>1, <1>4 DEF WinDisksTyped, ScanUndone, WinDiskRates, WinDisksTold
<1>6. DisksWhole(win_disks, baselines, WinDisksRead) /\ VolumesRead(win_disks)
    BY <1>1 DEF DisksWhole, VolumesRead
<1> QED
    BY <1>5, <1>6 DEF WinDisksInv

(* The list of disks as type correctness wants it.                          *)
LEMMA ListedDrives ==
    ASSUME NEW list, NEW base, NEW n, DisksWhole(list, base, n)
    PROVE  WindowsDisks!Range(WindowsDisks!Ids(list)) \subseteq Drives
    BY DEF DisksWhole, WindowsDisks!Range, WindowsDisks!Ids

(* Every step keeps the invariant of the Windows disks.                     *)
LEMMA WinDisksStep == WinDisksInv /\ [WindowsDisks!Next]_windowsVars => WinDisksInv'
<1> SUFFICES ASSUME WinDisksInv, [WindowsDisks!Next]_windowsVars
             PROVE  WinDisksInv'
    OBVIOUS
<1> DEFINE Read2 == IF win_step' \in {"numbers", "disks", "counters"}
                    THEN win_sample' - 1 ELSE win_sample'
           Undone2 == win_step' \in {"disks", "volumes"} =>
               /\ DisksWhole(backup'.disks, backup'.baselines, win_sample' - 1)
               /\ VolumesRead(backup'.disks)
               /\ backup'.told = WindowsDisks!Ids(backup'.disks)
           Told2 == win_told' = [disks |-> WindowsDisks!Ids(win_disks'),
                                 nets |-> WindowsDisks!Ids(win_nets')]
           Rates2 == win_step' \notin {"numbers", "disks", "counters"} =>
               \A i \in DOMAIN win_disks' :
                   \/ win_disks'[i].rate \in
                        {WindowsDisks!NaN, WindowsDisks!Rate(win_disks'[i].id,
                                               win_sample' - 1, win_sample')}
                   \/ /\ win_disks'[i].rate = WindowsDisks!Zero
                      /\ ~baselines'[i].valid
                      /\ \/ win_step' = "volumes"
                         \/ win_disks'[i].volumes = win_sample'
           Whole2 == /\ DisksWhole(win_disks', baselines', Read2)
                     /\ win_step' # "volumes" => VolumesRead(win_disks')
           Typed2 == /\ drives' \subseteq Drives /\ adapters' = {}
                     /\ net_slots' \in [WindowsDisks!Slots ->
                           [valid : BOOLEAN, key : {0}, at : 0 .. MaxSamples + 1]]
                     /\ win_step' \in {"idle", "numbers", "disks", "volumes",
                                       "counters", "adapters", "rows",
                                       "net_counters"}
                     /\ win_sample' \in 0 .. MaxSamples + 1
                     /\ win_step' # "idle" => win_sample' > 0
                     /\ win_nets' = <<>> /\ discovered' = <<>> /\ row' \in Nat
                     /\ win_step' = "disks" =>
                           \A i \in DOMAIN seen' : seen'[i] \in Drives
                     /\ win_step' = "rows" =>
                           slot_backup' \in [WindowsDisks!Slots ->
                              [valid : BOOLEAN, key : {0}, at : 0 .. MaxSamples + 1]]
           Goal == Typed2 /\ Whole2 /\ Undone2 /\ Rates2 /\ Told2
<1>a. SUFFICES Goal
  <2> SUFFICES ASSUME Goal PROVE WinDisksInv'
    OBVIOUS
  <2>1. (DisksWhole(win_disks, baselines, WinDisksRead))'
    <3>1. WinDisksRead' = Read2
      BY DEF WinDisksRead
    <3> QED
      BY <3>1 DEF DisksWhole
  <2>2. (win_step # "volumes" => VolumesRead(win_disks))' /\ ScanUndone'
    BY DEF VolumesRead, ScanUndone, DisksWhole, WindowsDisks!Ids
  <2>3. WinDiskRates' /\ WinDisksTold'
    BY DEF WinDiskRates, DiskRate, WinDisksTold, WindowsDisks!Ids,
           WindowsDisks!NaN, WindowsDisks!Zero, WindowsDisks!Rate
  <2>4. WindowsDisks!TypeOK'
    <3>1. WindowsDisks!Range(WindowsDisks!Ids(win_disks')) \subseteq Drives
      BY ListedDrives
    <3>2. WindowsDisks!Range(WindowsDisks!Ids(win_nets')) \subseteq {}
      BY DEF WindowsDisks!Range, WindowsDisks!Ids
    <3> QED
      BY <3>1, <3>2 DEF WindowsDisks!TypeOK, WindowsDisks!Slots,
          WindowsDisks!Range, WindowsDisks!Ids
  <2>5. WinDisksTyped'
    BY <2>4 DEF WinDisksTyped, WindowsDisks!Slots
  <2> QED
    BY <2>1, <2>2, <2>3, <2>5 DEF WinDisksInv
<1>b. /\ WinDisksTyped /\ DisksWhole(win_disks, baselines, WinDisksRead)
      /\ (win_step # "volumes" => VolumesRead(win_disks))
      /\ ScanUndone /\ WinDiskRates /\ WinDisksTold
    BY DEF WinDisksInv
<1>c. /\ drives \subseteq Drives /\ adapters = {}
      /\ net_slots \in [WindowsDisks!Slots ->
            [valid : BOOLEAN, key : {0}, at : 0 .. MaxSamples + 1]]
      /\ win_step \in {"idle", "numbers", "disks", "volumes", "counters",
                       "adapters", "rows", "net_counters"}
      /\ win_sample \in 0 .. MaxSamples + 1 /\ (win_step # "idle" => win_sample > 0)
      /\ win_nets = <<>> /\ discovered = <<>> /\ row \in Nat
    BY <1>b DEF WinDisksTyped, WindowsDisks!TypeOK
<1> USE WindowsConstants, <1>b, <1>c
<1>1. CASE WindowsDisks!MachineChanges
  <2>1. /\ win_disks' = win_disks /\ baselines' = baselines /\ backup' = backup
        /\ win_nets' = win_nets /\ net_slots' = net_slots /\ seen' = seen
        /\ discovered' = discovered /\ slot_backup' = slot_backup /\ row' = row
        /\ win_told' = win_told /\ win_step' = win_step /\ win_sample' = win_sample
        /\ drives' \subseteq Drives /\ adapters' = {}
    BY <1>1 DEF WindowsDisks!MachineChanges, WindowsDisks!rowVars
  <2>2. Typed2 /\ Told2
    BY <2>1 DEF WinDisksTyped, WinDisksTold
  <2>3. Whole2
    BY <2>1 DEF WinDisksRead
  <2>4. Undone2 /\ Rates2
    BY <2>1 DEF ScanUndone, WinDiskRates, DiskRate
  <2> QED
    BY <2>2, <2>3, <2>4
<1>2. CASE WindowsDisks!windows_sample_once
  <2>1. /\ win_disks' = win_disks /\ baselines' = baselines /\ backup' = backup
        /\ win_nets' = win_nets /\ net_slots' = net_slots /\ seen' = seen
        /\ discovered' = discovered /\ slot_backup' = slot_backup /\ row' = row
        /\ win_told' = win_told /\ win_sample' = win_sample + 1
        /\ drives' = drives /\ adapters' = adapters
        /\ win_step = "idle" /\ win_step' \in {"numbers", "counters"}
        /\ win_sample < MaxSamples + 1
    BY <1>2 DEF WindowsDisks!windows_sample_once, WindowsDisks!rowVars,
                WindowsDisks!machineVars
  <2>2. Typed2 /\ Told2
    BY <2>1 DEF WinDisksTyped, WinDisksTold
  <2>3. Whole2
    BY <2>1 DEF WinDisksRead
  <2>4. Undone2 /\ Rates2
    BY <2>1
  <2> QED
    BY <2>2, <2>3, <2>4
<1>3. CASE WindowsDisks!enumerate_physical_disk_numbers
  <2>1. /\ win_disks' = win_disks /\ baselines' = baselines
        /\ win_nets' = win_nets /\ net_slots' = net_slots
        /\ discovered' = discovered /\ slot_backup' = slot_backup /\ row' = row
        /\ win_told' = win_told /\ win_sample' = win_sample
        /\ drives' = drives /\ adapters' = adapters
        /\ win_step = "numbers" /\ win_step' \in {"disks", "counters"}
        /\ backup' = [disks |-> win_disks, baselines |-> baselines,
                      told |-> win_told.disks]
        /\ win_step' = "disks" =>
              seen' \in [1 .. WindowsDisks!Cardinality(drives) -> drives]
    BY <1>3 DEF WindowsDisks!enumerate_physical_disk_numbers, WindowsDisks!rowVars,
                WindowsDisks!machineVars, WindowsDisks!Orders
  <2>2. Typed2 /\ Told2
    BY <2>1 DEF WinDisksTyped, WinDisksTold
  <2>3. Whole2
    BY <2>1 DEF WinDisksRead
  <2>4. Undone2 /\ Rates2
    BY <2>1 DEF WinDisksRead, WinDisksTold
  <2> QED
    BY <2>2, <2>3, <2>4
<1>4. CASE WindowsDisks!enumerate_physical_disks
  <2>1. /\ win_nets' = win_nets /\ net_slots' = net_slots
        /\ discovered' = discovered /\ slot_backup' = slot_backup /\ row' = row
        /\ win_sample' = win_sample /\ backup' = backup
        /\ drives' = drives /\ adapters' = adapters /\ seen' = seen
        /\ win_step = "disks" /\ win_step' \in {"volumes", "counters"}
    BY <1>4 DEF WindowsDisks!enumerate_physical_disks, WindowsDisks!rowVars,
                WindowsDisks!machineVars
  <2>2. Typed2 /\ Undone2
    BY <2>1 DEF WinDisksTyped, ScanUndone
  <2>3. CASE ~(WindowsDisks!Range(seen) \subseteq drives)
    <3>1. /\ win_disks' = win_disks /\ baselines' = baselines
          /\ win_told' = win_told /\ win_step' = "counters"
      BY <1>4, <2>3 DEF WindowsDisks!enumerate_physical_disks
    <3> QED
      BY <2>1, <2>2, <3>1 DEF WinDisksRead, WinDisksTold
  <2>4. CASE WindowsDisks!Range(seen) \subseteq drives
    <3>1. PICK legible \in SUBSET WindowsDisks!Range(seen),
               forward \in SUBSET WindowsDisks!Range(seen) :
            /\ win_disks' = [i \in DOMAIN seen |->
                   [id |-> seen[i], volumes |-> 0,
                    rate |-> IF seen[i] \in legible
                             THEN WindowsDisks!Measured(seen[i],
                                      WindowsDisks!find_disk_baseline(seen[i]),
                                      seen[i] \in forward)
                             ELSE WindowsDisks!Zero]]
            /\ baselines' = [i \in DOMAIN seen |->
                   IF seen[i] \in legible THEN WindowsDisks!Current(seen[i])
                   ELSE [WindowsDisks!NoSlot EXCEPT !.key = seen[i]]]
            /\ win_told' = IF WindowsDisks!Ids(win_disks') = WindowsDisks!Ids(win_disks)
                           THEN win_told
                           ELSE [win_told EXCEPT !.disks =
                                     WindowsDisks!Ids(win_disks')]
            /\ win_step' = "volumes"
      BY <1>4, <2>4 DEF WindowsDisks!enumerate_physical_disks
    <3>2. DOMAIN win_disks' = DOMAIN seen /\ DOMAIN baselines' = DOMAIN seen
      BY <3>1
    <3>3. ASSUME NEW i \in DOMAIN seen
          PROVE  /\ win_disks'[i] \in [id : Drives, volumes : Nat,
                                       rate : WindowsRates(Drives)]
                 /\ \/ win_disks'[i].rate \in {WindowsDisks!NaN,
                         WindowsDisks!Rate(win_disks'[i].id, win_sample - 1, win_sample)}
                    \/ /\ win_disks'[i].rate = WindowsDisks!Zero
                       /\ ~baselines'[i].valid
                 /\ baselines'[i] \in [valid : BOOLEAN, key : Drives,
                                       at : 0 .. MaxSamples + 1]
                 /\ win_disks'[i].id = baselines'[i].key
                 /\ baselines'[i].valid => baselines'[i].at = win_sample
      <4> DEFINE old == WindowsDisks!find_disk_baseline(seen[i])
                 rate == IF seen[i] \in legible
                         THEN WindowsDisks!Measured(seen[i], old, seen[i] \in forward)
                         ELSE WindowsDisks!Zero
      <4>1. seen[i] \in Drives
        BY <2>1 DEF WinDisksTyped
      <4>2. win_disks'[i] = [id |-> seen[i], volumes |-> 0, rate |-> rate]
        BY <3>1
      <4>3. old.valid => old.at = win_sample - 1
        <5> DEFINE known == {j \in DOMAIN baselines :
                                 baselines[j].valid /\ baselines[j].key = seen[i]}
        <5>1. CASE known = {}
          <6>1. old = [WindowsDisks!NoSlot EXCEPT !.key = seen[i]]
            BY <5>1 DEF WindowsDisks!find_disk_baseline
          <6> QED
            BY <6>1 DEF WindowsDisks!NoSlot
        <5>2. CASE known # {}
          <6>1. PICK j \in known : old = baselines[j]
            BY <5>2 DEF WindowsDisks!find_disk_baseline
          <6> QED
            BY <2>1, <6>1 DEF DisksWhole, WinDisksRead
        <5> QED
          BY <5>1, <5>2
      <4>4. IF seen[i] \in legible
            THEN rate \in {WindowsDisks!NaN,
                           WindowsDisks!Rate(seen[i], win_sample - 1, win_sample)}
            ELSE rate = WindowsDisks!Zero
        BY <4>3 DEF WindowsDisks!Measured
      <4> HIDE DEF rate, old
      <4>5. rate \in WindowsRates(Drives)
        BY <4>1, <4>4 DEF WindowsRates, WindowsDisks!Rate
      <4>6. CASE seen[i] \in legible
        <5>1. baselines'[i] = [valid |-> TRUE, key |-> seen[i], at |-> win_sample]
          BY <3>1, <4>6 DEF WindowsDisks!Current
        <5> QED
          BY <4>1, <4>2, <4>4, <4>5, <4>6, <5>1
      <4>7. CASE seen[i] \notin legible
        <5>1. baselines'[i] = [valid |-> FALSE, key |-> seen[i], at |-> 0]
          BY <3>1, <4>7 DEF WindowsDisks!NoSlot
        <5> QED
          BY <4>1, <4>2, <4>4, <4>5, <4>7, <5>1
      <4> QED
        BY <4>6, <4>7
    <3>4. Read2 = win_sample
      BY <2>1, <3>1
    <3>5. Whole2
      BY <3>1, <3>2, <3>3, <3>4 DEF DisksWhole
    <3>6. Rates2
      BY <2>1, <3>1, <3>2, <3>3
    <3>7. Told2
      BY <2>1, <3>1 DEF WinDisksTold
    <3> QED
      BY <2>2, <3>5, <3>6, <3>7
  <2> QED
    BY <2>3, <2>4
<1>5. CASE WindowsDisks!enumerate_disk_volumes
  <2>1. /\ win_nets' = win_nets /\ net_slots' = net_slots
        /\ discovered' = discovered /\ slot_backup' = slot_backup /\ row' = row
        /\ win_sample' = win_sample
        /\ drives' = drives /\ adapters' = adapters
        /\ win_step = "volumes" /\ win_step' \in {"adapters", "counters"}
    BY <1>5 DEF WindowsDisks!enumerate_disk_volumes, WindowsDisks!rowVars,
                WindowsDisks!machineVars
  <2>2. Typed2 /\ Undone2
    BY <2>1
  <2>3. CASE /\ win_disks' = [i \in DOMAIN win_disks |->
                    [win_disks[i] EXCEPT !.volumes = win_sample]]
             /\ win_step' = "adapters"
             /\ baselines' = baselines /\ win_told' = win_told
    <3>1. DOMAIN win_disks' = DOMAIN win_disks
      BY <2>3
    <3>2. ASSUME NEW i \in DOMAIN win_disks
          PROVE  /\ win_disks'[i] \in [id : Drives, volumes : Nat,
                                       rate : WindowsRates(Drives)]
                 /\ win_disks'[i].volumes = win_sample
                 /\ win_disks'[i].id = win_disks[i].id
                 /\ win_disks'[i].rate = win_disks[i].rate
      <4>1. win_disks[i] \in [id : Drives, volumes : Nat,
                              rate : WindowsRates(Drives)]
        BY DEF DisksWhole
      <4>2. win_disks'[i] = [win_disks[i] EXCEPT !.volumes = win_sample]
        BY <2>3
      <4> QED
        BY <4>1, <4>2
    <3>3. Whole2
      BY <2>1, <2>3, <3>1, <3>2 DEF DisksWhole, WinDisksRead, VolumesRead
    <3>4. WindowsDisks!Ids(win_disks') = WindowsDisks!Ids(win_disks)
      BY <3>1, <3>2 DEF WindowsDisks!Ids
    <3>5. Rates2 /\ Told2
      BY <2>1, <2>3, <3>1, <3>2, <3>4 DEF WinDiskRates, DiskRate, WinDisksTold
    <3> QED
      BY <2>2, <3>3, <3>5
  <2>4. CASE WindowsDisks!RollBack /\ win_step' = "counters"
    <3>1. /\ win_disks' = backup.disks /\ baselines' = backup.baselines
          /\ win_told' = [win_told EXCEPT !.disks = backup.told]
      BY <2>4 DEF WindowsDisks!RollBack
    <3>2. Whole2 /\ Rates2 /\ Told2
      BY <2>1, <2>4, <3>1 DEF ScanUndone, WinDisksTold
    <3> QED
      BY <2>2, <3>2
  <2> QED
    BY <1>5, <2>3, <2>4 DEF WindowsDisks!enumerate_disk_volumes
<1>6. CASE WindowsDisks!update_physical_disk_performance
  <2>1. /\ win_nets' = win_nets /\ net_slots' = net_slots
        /\ discovered' = discovered /\ slot_backup' = slot_backup /\ row' = row
        /\ win_sample' = win_sample /\ win_told' = win_told
        /\ drives' = drives /\ adapters' = adapters
        /\ win_step = "counters" /\ win_step' \in {"adapters", "net_counters"}
    BY <1>6 DEF WindowsDisks!update_physical_disk_performance,
                WindowsDisks!rowVars, WindowsDisks!machineVars
  <2>2. Typed2 /\ Undone2
    BY <2>1
  <2>3. PICK legible \in SUBSET drives, forward \in SUBSET drives :
          /\ win_disks' = [i \in DOMAIN win_disks |->
                [win_disks[i] EXCEPT !.rate =
                    IF baselines[i].key \in legible
                    THEN WindowsDisks!Measured(baselines[i].key, baselines[i],
                                               baselines[i].key \in forward)
                    ELSE WindowsDisks!NaN]]
          /\ baselines' = [i \in DOMAIN baselines |->
                IF baselines[i].key \in legible
                THEN WindowsDisks!Current(baselines[i].key)
                ELSE [baselines[i] EXCEPT !.valid = FALSE]]
    BY <1>6 DEF WindowsDisks!update_physical_disk_performance
  <2>4. /\ DOMAIN win_disks' = DOMAIN win_disks
        /\ DOMAIN baselines' = DOMAIN baselines
        /\ DOMAIN baselines = DOMAIN win_disks
    BY <2>3 DEF DisksWhole
  <2>5. ASSUME NEW i \in DOMAIN win_disks
        PROVE  /\ win_disks'[i] \in [id : Drives, volumes : Nat,
                                     rate : WindowsRates(Drives)]
               /\ win_disks'[i].id = win_disks[i].id
               /\ win_disks'[i].volumes = win_disks[i].volumes
               /\ win_disks'[i].rate \in {WindowsDisks!NaN,
                      WindowsDisks!Rate(win_disks[i].id, win_sample - 1, win_sample)}
               /\ baselines'[i] \in [valid : BOOLEAN, key : Drives,
                                     at : 0 .. MaxSamples + 1]
               /\ baselines'[i].key = win_disks[i].id
               /\ baselines'[i].valid => baselines'[i].at = win_sample
    <3>1. /\ win_disks[i] \in [id : Drives, volumes : Nat,
                               rate : WindowsRates(Drives)]
          /\ baselines[i] \in [valid : BOOLEAN, key : Drives,
                               at : 0 .. MaxSamples + 1]
          /\ win_disks[i].id = baselines[i].key
          /\ baselines[i].valid => baselines[i].at = win_sample - 1
      BY <2>1 DEF DisksWhole, WinDisksRead
    <3> DEFINE rate == IF baselines[i].key \in legible
                       THEN WindowsDisks!Measured(baselines[i].key, baselines[i],
                                                  baselines[i].key \in forward)
                       ELSE WindowsDisks!NaN
    <3>2. win_disks'[i] = [win_disks[i] EXCEPT !.rate = rate]
      BY <2>3
    <3>3. rate \in {WindowsDisks!NaN,
                    WindowsDisks!Rate(win_disks[i].id, win_sample - 1, win_sample)}
      BY <3>1 DEF WindowsDisks!Measured
    <3> HIDE DEF rate
    <3>4. rate \in WindowsRates(Drives)
      BY <3>1, <3>3 DEF WindowsRates, WindowsDisks!Rate
    <3>5. /\ win_disks'[i] \in [id : Drives, volumes : Nat,
                                rate : WindowsRates(Drives)]
          /\ win_disks'[i].id = win_disks[i].id
          /\ win_disks'[i].volumes = win_disks[i].volumes
          /\ win_disks'[i].rate = rate
      BY <3>1, <3>2, <3>4
    <3>6. CASE baselines[i].key \in legible
      <4>1. baselines'[i] = [valid |-> TRUE, key |-> baselines[i].key,
                             at |-> win_sample]
        BY <2>3, <2>4, <3>6 DEF WindowsDisks!Current
      <4> QED
        BY <3>1, <3>3, <3>5, <4>1
    <3>7. CASE baselines[i].key \notin legible
      <4>1. baselines'[i] = [baselines[i] EXCEPT !.valid = FALSE]
        BY <2>3, <2>4, <3>7
      <4> QED
        BY <3>1, <3>3, <3>5, <4>1
    <3> QED
      BY <3>6, <3>7
  <2>6. Read2 = win_sample
    BY <2>1
  <2>7. Whole2
    BY <2>1, <2>4, <2>5, <2>6 DEF DisksWhole, VolumesRead
  <2>8. WindowsDisks!Ids(win_disks') = WindowsDisks!Ids(win_disks)
    BY <2>4, <2>5 DEF WindowsDisks!Ids
  <2>9. Rates2 /\ Told2
    BY <2>1, <2>4, <2>5, <2>8 DEF WinDisksTold
  <2> QED
    BY <2>2, <2>7, <2>9
<1>7. CASE \/ WindowsDisks!ListAdapters \/ WindowsDisks!ReadRow
           \/ WindowsDisks!RowFails \/ WindowsDisks!enumerate_networks
           \/ WindowsDisks!ReadCounters \/ WindowsDisks!update_network_counters
  <2> USE DEF WindowsDisks!ListAdapters, WindowsDisks!ReadRow,
          WindowsDisks!RowFails, WindowsDisks!enumerate_networks,
          WindowsDisks!ReadCounters, WindowsDisks!update_network_counters,
          WindowsDisks!machineVars
  <2>1. /\ win_disks' = win_disks /\ baselines' = baselines /\ backup' = backup
        /\ win_sample' = win_sample /\ drives' = drives /\ adapters' = adapters
        /\ win_step \in {"adapters", "rows", "net_counters"}
        /\ win_step' \in {"rows", "net_counters", "idle"}
    BY <1>7
  <2>2. ~WindowsDisks!ReadRow /\ ~WindowsDisks!ReadCounters
    <3>1. Len(<<>>) = 0
      OBVIOUS
    <3> QED
      BY <3>1
  <2>3. /\ win_nets' = <<>> /\ discovered' = <<>> /\ row' \in Nat
        /\ win_told' = win_told
    BY <1>7, <2>2
  <2>4. /\ net_slots' \in [WindowsDisks!Slots ->
              [valid : BOOLEAN, key : {0}, at : 0 .. MaxSamples + 1]]
        /\ win_step' = "rows" => slot_backup' = net_slots
    <3>1. CASE WindowsDisks!ListAdapters \/ WindowsDisks!update_network_counters
      BY <3>1
    <3>2. CASE WindowsDisks!RowFails
      BY <3>2 DEF WinDisksTyped
    <3>3. CASE WindowsDisks!enumerate_networks
      BY <3>3 DEF WindowsDisks!Cleared, WindowsDisks!NoSlot
    <3> QED
      BY <1>7, <2>2, <3>1, <3>2, <3>3
  <2>5. Typed2
    BY <2>1, <2>3, <2>4
  <2>6. Whole2 /\ Undone2 /\ Rates2
    BY <2>1 DEF WinDisksRead, WinDiskRates, DiskRate
  <2>7. Told2
    BY <2>1, <2>3 DEF WinDisksTold
  <2> QED
    BY <2>5, <2>6, <2>7
<1>8. CASE UNCHANGED windowsVars \/ WindowsDisks!Stopped
  <2>1. UNCHANGED windowsVars
    BY <1>8 DEF WindowsDisks!Stopped, WindowsDisks!vars, windowsVars,
                WindowsDisks!machineVars, WindowsDisks!rowVars
  <2>2. Typed2 /\ Told2
    BY <2>1 DEF windowsVars, WinDisksTyped, WinDisksTold
  <2>3. Whole2
    BY <2>1 DEF windowsVars, WinDisksRead
  <2>4. Undone2 /\ Rates2
    BY <2>1 DEF windowsVars, ScanUndone, WinDiskRates, DiskRate
  <2> QED
    BY <2>2, <2>3, <2>4
<1> QED
    BY <1>1, <1>2, <1>3, <1>4, <1>5, <1>6, <1>7, <1>8 DEF WindowsDisks!Next

(* The adapters of the Windows backend, for any LUIDs and any number of     *)
(* slots.                                                                   *)
NetRows == [id : Luids, rate : WindowsRates(Luids)]
NetIds == {win_nets[i].id : i \in DOMAIN win_nets}
RowIds == {discovered[i].id : i \in DOMAIN discovered}

(* Adapters that were read in this sample, of those that may have a slot.   *)
DoneIds ==
    CASE win_step = "idle" -> NetIds
      [] win_step = "rows" -> RowIds
      [] win_step = "net_counters" -> {win_nets[i].id : i \in 1 .. row}
      [] OTHER -> {}

(* Slots of known adapters, one of each, with the reading of sample n if it *)
(* is done, else of the one before.                                         *)
SlotsKept(table, known, done, n) ==
    /\ table \in [WindowsNetworks!Slots ->
           [valid : BOOLEAN, key : Luids \cup {0}, at : 0 .. MaxSamples]]
    /\ \A s \in WindowsNetworks!Slots : table[s].valid =>
          /\ table[s].key \in known
          /\ table[s].at = IF table[s].key \in done THEN n ELSE n - 1
          /\ \A t \in WindowsNetworks!Slots :
                table[t].valid /\ table[t].key = table[s].key => t = s

(* A list of adapters, none twice, where the rates of some were measured.   *)
NetsWhole(list, fresh, n) ==
    /\ list \in Seq(NetRows)
    /\ \A i, j \in DOMAIN list : list[i].id = list[j].id => i = j
    /\ \A i \in fresh : list[i].rate \in
           {WindowsNetworks!NaN, WindowsNetworks!Rate(list[i].id, n - 1, n)}

(* There are no disks in this study.                                        *)
WinNetsTyped ==
    /\ WindowsNetworks!TypeOK
    /\ win_sample \in 0 .. MaxSamples /\ (win_step # "idle" => win_sample > 0)
    /\ DOMAIN win_disks = {} /\ DOMAIN baselines = {}
    /\ win_step = "disks" => DOMAIN seen = {}
    /\ win_step \in {"disks", "volumes"} =>
          /\ DOMAIN backup.disks = {} /\ DOMAIN backup.baselines = {}
          /\ backup.told = WindowsNetworks!Ids(backup.disks)

(* How far a scan or a reading of counters has come.                        *)
RowsReached ==
    /\ row \in Nat
    /\ win_step \notin {"rows", "net_counters"} => row = 0
    /\ win_step # "rows" => discovered = <<>>
    /\ win_step = "net_counters" => row <= Len(win_nets)
    /\ win_step = "rows" =>
          /\ row = Len(discovered) /\ row <= Len(seen) /\ seen \in Seq(Luids)
          /\ \A i, j \in DOMAIN seen : seen[i] = seen[j] => i = j
          /\ \A i \in 1 .. row : discovered[i].id = seen[i]
          /\ NetsWhole(discovered, 1 .. row, win_sample)
          /\ SlotsKept(slot_backup, NetIds, {}, win_sample)

FreshRows ==
    CASE win_step = "idle" -> DOMAIN win_nets
      [] win_step = "net_counters" -> 1 .. row
      [] OTHER -> {}

WinNetsTold ==
    win_told = [disks |-> WindowsNetworks!Ids(win_disks),
                nets |-> WindowsNetworks!Ids(win_nets)]

WinNetsInv ==
    /\ WinNetsTyped
    /\ RowsReached
    /\ NetsWhole(win_nets, FreshRows, win_sample)
    /\ SlotsKept(net_slots, NetIds \cup RowIds, DoneIds, win_sample)
    /\ WinNetsTold

(* The slot found for an adapter is its own, the only one, or a free one.   *)
LEMMA SlotFound ==
    ASSUME NEW known, NEW done, NEW n, SlotsKept(net_slots, known, done, n),
           NEW luid
    PROVE  LET s == WindowsNetworks!net_baseline(luid)
           IN /\ s = 0 \/ s \in WindowsNetworks!Slots
              /\ \A t \in WindowsNetworks!Slots :
                    net_slots[t].valid /\ net_slots[t].key = luid => t = s
              /\ s # 0 /\ net_slots[s].valid => net_slots[s].key = luid
<1> DEFINE own == {s \in WindowsNetworks!Slots :
                       net_slots[s].valid /\ net_slots[s].key = luid}
           free == {s \in WindowsNetworks!Slots : ~net_slots[s].valid}
           s == WindowsNetworks!net_baseline(luid)
<1>1. WindowsNetworks!Slots \in SUBSET (Nat \ {0})
    BY WindowsConstants DEF WindowsNetworks!Slots
<1>2. s = CASE own # {} -> CHOOSE t \in own : TRUE
            [] own = {} /\ free # {} -> CHOOSE t \in free : \A u \in free : t <= u
            [] OTHER -> 0
    BY DEF WindowsNetworks!net_baseline
<1> DEFINE Found(x) ==
               /\ x = 0 \/ x \in WindowsNetworks!Slots
               /\ \A t \in WindowsNetworks!Slots :
                     net_slots[t].valid /\ net_slots[t].key = luid => t = x
               /\ x # 0 /\ net_slots[x].valid => net_slots[x].key = luid
<1>3. CASE own # {}
  <2>1. s \in own
    BY <1>2, <1>3
  <2>2. ASSUME NEW x \in own PROVE Found(x)
    BY <1>1 DEF SlotsKept
  <2>3. Found(s)
    <3> HIDE DEF s, own, Found
    <3> QED
      BY <2>1, <2>2
  <2> QED
    BY <2>3
<1>4. CASE own = {} /\ free # {}
  <2>1. \E t \in free : \A u \in free : t <= u
    <3>1. free \in SUBSET Nat
      BY <1>1
    <3> QED
      BY <1>4, <3>1, LeastOf
  <2>2. s \in free
    <3>1. s = CHOOSE t \in free : \A u \in free : t <= u
      BY <1>2, <1>4
    <3> HIDE DEF s
    <3> QED
      BY <2>1, <3>1
  <2>3. ASSUME NEW x \in free PROVE Found(x)
    BY <1>1, <1>4
  <2>4. Found(s)
    <3> HIDE DEF s, free, Found
    <3> QED
      BY <2>2, <2>3
  <2> QED
    BY <2>4
<1>5. CASE own = {} /\ free = {}
  <2>1. s = 0
    BY <1>2, <1>5
  <2>2. Found(0)
    BY <1>5
  <2>3. Found(s)
    <3> HIDE DEF s, Found
    <3> QED
      BY <2>1, <2>2
  <2> QED
    BY <2>3
<1> QED
    BY <1>3, <1>4, <1>5

(* A row that is read for the first time in the sample.                     *)
LEMMA RowKept ==
    ASSUME NEW known, NEW done, SlotsKept(net_slots, known, done, win_sample),
           win_sample \in 0 .. MaxSamples, NEW luid \in Luids, luid \notin done,
           WindowsNetworks!KeepReading(luid), NEW forward
    PROVE  /\ SlotsKept(net_slots', known \cup {luid}, done \cup {luid}, win_sample)
           /\ WindowsNetworks!RowRate(luid, forward) \in {WindowsNetworks!NaN,
                  WindowsNetworks!Rate(luid, win_sample - 1, win_sample)}
<1> DEFINE s == WindowsNetworks!net_baseline(luid)
<1>1. /\ s = 0 \/ s \in WindowsNetworks!Slots
      /\ \A t \in WindowsNetworks!Slots :
            net_slots[t].valid /\ net_slots[t].key = luid => t = s
      /\ s # 0 /\ net_slots[s].valid => net_slots[s].key = luid
    BY SlotFound
<1>2. net_slots' = IF s = 0 THEN net_slots
                   ELSE [net_slots EXCEPT ![s] = [valid |-> TRUE, key |-> luid,
                                                  at |-> win_sample]]
    BY DEF WindowsNetworks!KeepReading, WindowsNetworks!Current
<1>3. WindowsNetworks!RowRate(luid, forward) =
          IF s = 0 THEN WindowsNetworks!NaN
          ELSE WindowsNetworks!Measured(luid, net_slots[s], forward)
    BY DEF WindowsNetworks!RowRate
<1> HIDE DEF s
<1>4. CASE s = 0
  <2>1. 0 \notin WindowsNetworks!Slots
    BY DEF WindowsNetworks!Slots
  <2>2. net_slots' = net_slots
    BY <1>2, <1>4
  <2>3. SlotsKept(net_slots', known \cup {luid}, done \cup {luid}, win_sample)
    BY <1>1, <1>4, <2>1, <2>2 DEF SlotsKept
  <2> QED
    BY <1>3, <1>4, <2>3
<1>5. CASE s # 0
  <2>1. /\ s \in WindowsNetworks!Slots
        /\ net_slots' \in [WindowsNetworks!Slots ->
               [valid : BOOLEAN, key : Luids \cup {0}, at : 0 .. MaxSamples]]
        /\ net_slots'[s] = [valid |-> TRUE, key |-> luid, at |-> win_sample]
        /\ \A t \in WindowsNetworks!Slots : t # s => net_slots'[t] = net_slots[t]
    BY <1>1, <1>2, <1>5 DEF SlotsKept
  <2>2. SlotsKept(net_slots', known \cup {luid}, done \cup {luid}, win_sample)
    BY <1>1, <2>1 DEF SlotsKept
  <2>3. net_slots[s].valid => net_slots[s].at = win_sample - 1
    BY <1>1, <1>5, <2>1 DEF SlotsKept
  <2> QED
    BY <1>3, <1>5, <2>2, <2>3 DEF WindowsNetworks!Measured
<1> QED
    BY <1>4, <1>5

(* One that could not be read leaves no slot of its adapter.                *)
LEMMA RowDropped ==
    ASSUME NEW known, NEW done, SlotsKept(net_slots, known, done, win_sample),
           NEW luid \in Luids, WindowsNetworks!DropReading(luid)
    PROVE  SlotsKept(net_slots', known, done \cup {luid}, win_sample)
<1> DEFINE s == WindowsNetworks!net_baseline(luid)
<1>1. /\ s = 0 \/ s \in WindowsNetworks!Slots
      /\ \A t \in WindowsNetworks!Slots :
            net_slots[t].valid /\ net_slots[t].key = luid => t = s
    BY SlotFound
<1>2. net_slots' = IF s = 0 THEN net_slots
                   ELSE [net_slots EXCEPT ![s].key = luid, ![s].valid = FALSE]
    BY DEF WindowsNetworks!DropReading
<1> HIDE DEF s
<1>3. CASE s = 0
  <2>1. 0 \notin WindowsNetworks!Slots /\ net_slots' = net_slots
    BY <1>2, <1>3 DEF WindowsNetworks!Slots
  <2> QED
    BY <1>1, <1>3, <2>1 DEF SlotsKept
<1>4. CASE s # 0
  <2>1. s \in WindowsNetworks!Slots
    BY <1>1, <1>4
  <2>2. net_slots[s] \in [valid : BOOLEAN, key : Luids \cup {0}, at : 0 .. MaxSamples]
    BY <2>1 DEF SlotsKept
  <2> DEFINE rest == [net_slots[s] EXCEPT !.key = luid, !.valid = FALSE]
  <2>3. net_slots' = [net_slots EXCEPT ![s] = rest]
    BY <1>2, <1>4, <2>1 DEF SlotsKept
  <2>4. /\ rest \in [valid : BOOLEAN, key : Luids \cup {0}, at : 0 .. MaxSamples]
        /\ ~rest.valid
    BY <2>2
  <2> HIDE DEF rest
  <2>5. /\ net_slots' \in [WindowsNetworks!Slots ->
               [valid : BOOLEAN, key : Luids \cup {0}, at : 0 .. MaxSamples]]
        /\ ~net_slots'[s].valid
        /\ \A t \in WindowsNetworks!Slots : t # s => net_slots'[t] = net_slots[t]
    BY <2>1, <2>3, <2>4 DEF SlotsKept
  <2> QED
    BY <1>1, <2>1, <2>5 DEF SlotsKept
<1> QED
    BY <1>3, <1>4

(* No Windows adapter is known at the start.                                *)
LEMMA WinNetsStart == WindowsNetworks!Init => WinNetsInv
<1> SUFFICES ASSUME WindowsNetworks!Init PROVE WinNetsInv
    OBVIOUS
<1> USE WindowsConstants DEF WindowsNetworks!Init
<1>1. /\ DOMAIN win_disks = {} /\ DOMAIN baselines = {} /\ DOMAIN win_nets = {}
      /\ WindowsNetworks!Ids(win_disks) = <<>> /\ WindowsNetworks!Ids(win_nets) = <<>>
    BY DEF WindowsNetworks!Ids
<1>2. /\ WindowsNetworks!Range(WindowsNetworks!Ids(win_disks)) \subseteq {}
      /\ WindowsNetworks!Range(WindowsNetworks!Ids(win_nets)) \subseteq Luids
    BY <1>1 DEF WindowsNetworks!Range
<1>3. net_slots \in [WindowsNetworks!Slots ->
          [valid : BOOLEAN, key : Luids \cup {0}, at : 0 .. MaxSamples]]
    BY DEF WindowsNetworks!NoSlot
<1>4. WindowsNetworks!TypeOK
    BY <1>2, <1>3 DEF WindowsNetworks!TypeOK
<1>5. WinNetsTyped /\ RowsReached /\ WinNetsTold
    BY <1>1, <1>4 DEF WinNetsTyped, RowsReached, WinNetsTold
<1>6. FreshRows = {} /\ win_nets \in Seq(NetRows)
    BY <1>1 DEF FreshRows
<1>7. NetsWhole(win_nets, FreshRows, win_sample)
    BY <1>1, <1>6 DEF NetsWhole
<1>8. SlotsKept(net_slots, NetIds \cup RowIds, DoneIds, win_sample)
    BY <1>3 DEF SlotsKept, WindowsNetworks!NoSlot
<1> QED
    BY <1>5, <1>7, <1>8 DEF WinNetsInv
(* An action of the Windows disks when there are none.                      *)
LEMMA NoDrives ==
    ASSUME WinNetsTyped, WinNetsTold,
           \/ WindowsNetworks!enumerate_physical_disk_numbers
           \/ WindowsNetworks!enumerate_physical_disks
           \/ WindowsNetworks!enumerate_disk_volumes
           \/ WindowsNetworks!update_physical_disk_performance
    PROVE  /\ win_nets' = win_nets /\ net_slots' = net_slots
           /\ discovered' = discovered /\ slot_backup' = slot_backup /\ row' = row
           /\ win_sample' = win_sample /\ drives' = drives /\ adapters' = adapters
           /\ win_step \in {"numbers", "disks", "volumes", "counters"}
           /\ win_step' \in {"disks", "volumes", "counters", "adapters",
                             "net_counters"}
           /\ DOMAIN win_disks' = {} /\ DOMAIN baselines' = {}
           /\ win_step' = "disks" => DOMAIN seen' = {}
           /\ win_step' \in {"disks", "volumes"} =>
                 /\ DOMAIN backup'.disks = {} /\ DOMAIN backup'.baselines = {}
                 /\ backup'.told = WindowsNetworks!Ids(backup'.disks)
           /\ win_told' = [disks |-> WindowsNetworks!Ids(win_disks'),
                           nets |-> WindowsNetworks!Ids(win_nets)]
<1> DEFINE lists == [disks |-> WindowsNetworks!Ids(win_disks),
                     nets |-> WindowsNetworks!Ids(win_nets)]
<1>1. ASSUME NEW f, NEW g, DOMAIN f = {}, DOMAIN g = {}
      PROVE  WindowsNetworks!Ids(f) = WindowsNetworks!Ids(g)
    BY <1>1 DEF WindowsNetworks!Ids
<1>2. /\ drives = {} /\ DOMAIN win_disks = {} /\ DOMAIN baselines = {}
      /\ win_told = lists
      /\ win_step = "disks" => DOMAIN seen = {}
      /\ win_step \in {"disks", "volumes"} =>
            /\ DOMAIN backup.disks = {} /\ DOMAIN backup.baselines = {}
            /\ backup.told = WindowsNetworks!Ids(backup.disks)
    BY DEF WinNetsTyped, WinNetsTold, WindowsNetworks!TypeOK
<1> USE DEF WindowsNetworks!machineVars, WindowsNetworks!rowVars
<1>3. CASE WindowsNetworks!enumerate_physical_disk_numbers
  <2> USE DEF WindowsNetworks!enumerate_physical_disk_numbers
  <2>1. backup' = [disks |-> win_disks, baselines |-> baselines,
                   told |-> WindowsNetworks!Ids(win_disks)]
    BY <1>2, <1>3
  <2>2. win_step' = "disks" => DOMAIN seen' = {}
    <3>1. win_step' = "disks" =>
              seen' \in [1 .. WindowsNetworks!Cardinality(drives) -> {}]
      BY <1>2, <1>3 DEF WindowsNetworks!Orders
    <3> QED
      BY <3>1
  <2> QED
    BY <1>2, <1>3, <2>1, <2>2
<1>4. CASE WindowsNetworks!enumerate_physical_disks
  <2> USE DEF WindowsNetworks!enumerate_physical_disks
  <2>1. DOMAIN win_disks' = {} /\ DOMAIN baselines' = {}
    BY <1>2, <1>4
  <2>2. WindowsNetworks!Ids(win_disks') = WindowsNetworks!Ids(win_disks)
    BY <1>1, <1>2, <2>1
  <2> QED
    BY <1>2, <1>4, <2>1, <2>2
<1>5. CASE WindowsNetworks!enumerate_disk_volumes
  <2> USE DEF WindowsNetworks!enumerate_disk_volumes, WindowsNetworks!RollBack
  <2>1. DOMAIN win_disks' = {} /\ DOMAIN baselines' = {}
    BY <1>2, <1>5
  <2>2. /\ WindowsNetworks!Ids(win_disks') = WindowsNetworks!Ids(win_disks)
        /\ WindowsNetworks!Ids(backup.disks) = WindowsNetworks!Ids(win_disks)
    BY <1>1, <1>2, <1>5, <2>1
  <2>3. win_told' = win_told
    BY <1>2, <1>5, <2>2
  <2> QED
    BY <1>2, <1>5, <2>1, <2>2, <2>3
<1>6. CASE WindowsNetworks!update_physical_disk_performance
  <2> USE DEF WindowsNetworks!update_physical_disk_performance
  <2>1. DOMAIN win_disks' = {} /\ DOMAIN baselines' = {}
    BY <1>2, <1>6
  <2>2. WindowsNetworks!Ids(win_disks') = WindowsNetworks!Ids(win_disks)
    BY <1>1, <1>2, <2>1
  <2> QED
    BY <1>2, <1>6, <2>1, <2>2
<1> QED
    BY <1>3, <1>4, <1>5, <1>6

(* Every step keeps the invariant of the Windows adapters.                  *)
LEMMA WinNetsStep ==
    WinNetsInv /\ [WindowsNetworks!Next]_windowsVars => WinNetsInv'
<1> SUFFICES ASSUME WinNetsInv, [WindowsNetworks!Next]_windowsVars
             PROVE  WinNetsInv'
    OBVIOUS
<1> DEFINE NetIds2 == {win_nets'[i].id : i \in DOMAIN win_nets'}
           RowIds2 == {discovered'[i].id : i \in DOMAIN discovered'}
           Done2 == CASE win_step' = "idle" -> NetIds2
                      [] win_step' = "rows" -> RowIds2
                      [] win_step' = "net_counters" ->
                             {win_nets'[i].id : i \in 1 .. row'}
                      [] OTHER -> {}
           Fresh2 == CASE win_step' = "idle" -> DOMAIN win_nets'
                       [] win_step' = "net_counters" -> 1 .. row'
                       [] OTHER -> {}
           Typed2 ==
               /\ drives' = {} /\ adapters' \subseteq Luids
               /\ win_step' \in {"idle", "numbers", "disks", "volumes", "counters",
                                 "adapters", "rows", "net_counters"}
               /\ win_sample' \in 0 .. MaxSamples
               /\ win_step' # "idle" => win_sample' > 0
               /\ DOMAIN win_disks' = {} /\ DOMAIN baselines' = {}
               /\ win_step' = "disks" => DOMAIN seen' = {}
               /\ win_step' \in {"disks", "volumes"} =>
                     /\ DOMAIN backup'.disks = {} /\ DOMAIN backup'.baselines = {}
                     /\ backup'.told = WindowsNetworks!Ids(backup'.disks)
           Reached2 ==
               /\ row' \in Nat
               /\ win_step' \notin {"rows", "net_counters"} => row' = 0
               /\ win_step' # "rows" => discovered' = <<>>
               /\ win_step' = "net_counters" => row' <= Len(win_nets')
               /\ win_step' = "rows" =>
                     /\ row' = Len(discovered') /\ row' <= Len(seen')
                     /\ seen' \in Seq(Luids)
                     /\ \A i, j \in DOMAIN seen' : seen'[i] = seen'[j] => i = j
                     /\ \A i \in 1 .. row' : discovered'[i].id = seen'[i]
                     /\ NetsWhole(discovered', 1 .. row', win_sample')
                     /\ SlotsKept(slot_backup', NetIds2, {}, win_sample')
           Whole2 == NetsWhole(win_nets', Fresh2, win_sample')
           Kept2 == SlotsKept(net_slots', NetIds2 \cup RowIds2, Done2, win_sample')
           Told2 == win_told' = [disks |-> WindowsNetworks!Ids(win_disks'),
                                 nets |-> WindowsNetworks!Ids(win_nets')]
           Goal == Typed2 /\ Reached2 /\ Whole2 /\ Kept2 /\ Told2
<1>a. SUFFICES Goal
  <2> SUFFICES ASSUME Goal PROVE WinNetsInv'
    OBVIOUS
  <2>1. /\ NetIds' = NetIds2 /\ RowIds' = RowIds2
        /\ DoneIds' = Done2 /\ FreshRows' = Fresh2
    BY DEF NetIds, RowIds, DoneIds, FreshRows
  <2>2. (NetsWhole(win_nets, FreshRows, win_sample))'
    BY <2>1 DEF NetsWhole, NetRows, WindowsRates, WindowsNetworks!NaN,
                WindowsNetworks!Rate
  <2>3. (SlotsKept(net_slots, NetIds \cup RowIds, DoneIds, win_sample))'
    BY <2>1 DEF SlotsKept, WindowsNetworks!Slots
  <2>4. RowsReached'
    BY <2>1 DEF RowsReached, SlotsKept, WindowsNetworks!Slots, NetsWhole, NetRows,
                WindowsRates, WindowsNetworks!NaN, WindowsNetworks!Rate
  <2>5. WinNetsTold'
    BY DEF WinNetsTold, WindowsNetworks!Ids
  <2>6. WindowsNetworks!TypeOK'
    <3>1. WindowsNetworks!Range(WindowsNetworks!Ids(win_disks')) \subseteq {}
      BY DEF WindowsNetworks!Range, WindowsNetworks!Ids
    <3>2. WindowsNetworks!Range(WindowsNetworks!Ids(win_nets')) \subseteq Luids
      <4>1. \A i \in DOMAIN win_nets' : win_nets'[i] \in NetRows
        BY DEF NetsWhole
      <4>2. \A i \in DOMAIN win_nets' : win_nets'[i].id \in Luids
        BY <4>1 DEF NetRows
      <4> QED
        BY <4>2 DEF WindowsNetworks!Range, WindowsNetworks!Ids
    <3> QED
      BY <3>1, <3>2 DEF WindowsNetworks!TypeOK, WindowsNetworks!Slots, SlotsKept,
          WindowsNetworks!Range, WindowsNetworks!Ids
  <2>7. WinNetsTyped'
    BY <2>6 DEF WinNetsTyped, WindowsNetworks!Ids
  <2> QED
    BY <2>2, <2>3, <2>4, <2>5, <2>7 DEF WinNetsInv
<1>b. /\ WinNetsTyped /\ RowsReached /\ WinNetsTold
      /\ NetsWhole(win_nets, FreshRows, win_sample)
      /\ SlotsKept(net_slots, NetIds \cup RowIds, DoneIds, win_sample)
    BY DEF WinNetsInv
<1>c. /\ drives = {} /\ adapters \subseteq Luids
      /\ win_step \in {"idle", "numbers", "disks", "volumes", "counters",
                       "adapters", "rows", "net_counters"}
      /\ win_sample \in 0 .. MaxSamples /\ (win_step # "idle" => win_sample > 0)
      /\ DOMAIN win_disks = {} /\ DOMAIN baselines = {}
    BY <1>b DEF WinNetsTyped, WindowsNetworks!TypeOK
<1>d. win_step # "rows" => discovered = <<>> /\ RowIds = {}
    BY <1>b DEF RowsReached, RowIds
<1> USE WindowsConstants, <1>b, <1>c
<1> HIDE DEF Goal
(* Between the scan of the disks and the rows of the adapters nothing of    *)
(* the adapters changes.                                                    *)
<1>e. ASSUME win_step \in {"numbers", "disks", "volumes", "counters", "adapters"},
             win_step' \in {"numbers", "disks", "volumes", "counters", "adapters",
                            "net_counters"},
             win_nets' = win_nets, net_slots' = net_slots,
             discovered' = discovered, row' = row, win_sample' = win_sample
      PROVE  Reached2 /\ Whole2 /\ Kept2
  <2>1. row = 0 /\ discovered' = <<>> /\ RowIds2 = {} /\ Done2 = {} /\ Fresh2 = {}
    BY <1>e DEF RowsReached
  <2>2. DoneIds = {} /\ NetIds2 = NetIds
    BY <1>e DEF DoneIds, NetIds
  <2>3. Kept2
    BY <1>d, <1>e, <2>1, <2>2 DEF SlotsKept
  <2>4. Whole2
    BY <1>e, <2>1 DEF NetsWhole
  <2>5. Reached2
    <3>1. 0 <= Len(win_nets)
      BY DEF NetsWhole
    <3> QED
      BY <1>e, <2>1, <3>1
  <2> QED
    BY <2>3, <2>4, <2>5
<1>1. CASE WindowsNetworks!MachineChanges
  <2>1. /\ win_disks' = win_disks /\ baselines' = baselines /\ backup' = backup
        /\ win_nets' = win_nets /\ net_slots' = net_slots /\ seen' = seen
        /\ discovered' = discovered /\ slot_backup' = slot_backup /\ row' = row
        /\ win_told' = win_told /\ win_step' = win_step /\ win_sample' = win_sample
        /\ drives' = {} /\ adapters' \subseteq Luids
    BY <1>1 DEF WindowsNetworks!MachineChanges, WindowsNetworks!rowVars
  <2>2. Typed2 /\ Told2
    BY <2>1 DEF WinNetsTyped, WinNetsTold
  <2>3. Whole2 /\ Kept2
    BY <2>1 DEF FreshRows, DoneIds, NetIds, RowIds
  <2>4. Reached2
    BY <2>1 DEF RowsReached, NetIds
  <2> QED
    BY <2>2, <2>3, <2>4 DEF Goal
<1>2. CASE WindowsNetworks!windows_sample_once
  <2>1. /\ win_disks' = win_disks /\ baselines' = baselines /\ backup' = backup
        /\ win_nets' = win_nets /\ net_slots' = net_slots /\ seen' = seen
        /\ discovered' = discovered /\ slot_backup' = slot_backup /\ row' = row
        /\ win_told' = win_told /\ win_sample' = win_sample + 1
        /\ drives' = drives /\ adapters' = adapters
        /\ win_step = "idle" /\ win_step' \in {"numbers", "counters"}
        /\ win_sample < MaxSamples
    BY <1>2 DEF WindowsNetworks!windows_sample_once, WindowsNetworks!rowVars,
                WindowsNetworks!machineVars
  <2>2. Typed2 /\ Told2
    BY <2>1 DEF WinNetsTyped, WinNetsTold
  <2>3. Fresh2 = {} /\ Done2 = {} /\ RowIds2 = {} /\ NetIds2 = NetIds
        /\ DoneIds = NetIds
    BY <1>d, <2>1 DEF DoneIds, NetIds
  <2>4. Whole2
    BY <2>1, <2>3 DEF NetsWhole
  <2>5. Kept2
    BY <1>d, <2>1, <2>3 DEF SlotsKept
  <2>6. Reached2
    BY <2>1 DEF RowsReached
  <2> QED
    BY <2>2, <2>4, <2>5, <2>6 DEF Goal
<1>3. CASE \/ WindowsNetworks!enumerate_physical_disk_numbers
           \/ WindowsNetworks!enumerate_physical_disks
           \/ WindowsNetworks!enumerate_disk_volumes
           \/ WindowsNetworks!update_physical_disk_performance
  <2>1. /\ win_nets' = win_nets /\ net_slots' = net_slots
        /\ discovered' = discovered /\ slot_backup' = slot_backup /\ row' = row
        /\ win_sample' = win_sample /\ drives' = drives /\ adapters' = adapters
        /\ win_step \in {"numbers", "disks", "volumes", "counters"}
        /\ win_step' \in {"disks", "volumes", "counters", "adapters",
                          "net_counters"}
        /\ DOMAIN win_disks' = {} /\ DOMAIN baselines' = {}
        /\ win_step' = "disks" => DOMAIN seen' = {}
        /\ win_step' \in {"disks", "volumes"} =>
              /\ DOMAIN backup'.disks = {} /\ DOMAIN backup'.baselines = {}
              /\ backup'.told = WindowsNetworks!Ids(backup'.disks)
        /\ win_told' = [disks |-> WindowsNetworks!Ids(win_disks'),
                        nets |-> WindowsNetworks!Ids(win_nets)]
    BY <1>3, NoDrives
  <2>2. Typed2 /\ Told2
    BY <2>1
  <2>3. Reached2 /\ Whole2 /\ Kept2
    BY <1>e, <2>1
  <2> QED
    BY <2>2, <2>3 DEF Goal
<1>4. CASE WindowsNetworks!ListAdapters
  <2>1. /\ win_disks' = win_disks /\ baselines' = baselines /\ backup' = backup
        /\ win_nets' = win_nets /\ net_slots' = net_slots
        /\ discovered' = discovered /\ row' = row
        /\ win_told' = win_told /\ win_sample' = win_sample
        /\ drives' = drives /\ adapters' = adapters
        /\ win_step = "adapters" /\ win_step' \in {"rows", "net_counters"}
        /\ win_step' = "rows" => slot_backup' = net_slots
    BY <1>4 DEF WindowsNetworks!ListAdapters, WindowsNetworks!machineVars
  <2>2. Typed2 /\ Told2
    BY <2>1 DEF WinNetsTyped, WinNetsTold
  <2>3. CASE win_step' = "net_counters"
    BY <1>e, <2>1, <2>2, <2>3 DEF Goal
  <2>4. CASE win_step' = "rows"
    <3>1. PICK c : /\ c = WindowsNetworks!Cardinality(adapters)
                   /\ seen' \in [1 .. c -> adapters]
                   /\ WindowsNetworks!IsInjective(seen')
      BY <1>4, <2>4 DEF WindowsNetworks!ListAdapters, WindowsNetworks!Orders
    <3>2. c \in Nat
      <4>1. Cardinality(adapters) \in Nat
        BY FS_Subset, FS_CardinalityType
      <4>2. WindowsNetworks!Cardinality(adapters) = Cardinality(adapters)
        BY DEF WindowsNetworks!Cardinality, Cardinality,
               WindowsNetworks!IsFiniteSet, IsFiniteSet
      <4> QED
        BY <3>1, <4>1, <4>2
    <3>3. seen' \in Seq(Luids) /\ Len(seen') \in Nat
      BY <3>1, <3>2
    <3>4. \A i, j \in DOMAIN seen' : seen'[i] = seen'[j] => i = j
      BY <3>1 DEF WindowsNetworks!IsInjective
    <3>5. /\ row' = 0 /\ discovered' = <<>> /\ Len(discovered') = 0
          /\ RowIds2 = {} /\ Done2 = {} /\ Fresh2 = {}
          /\ DoneIds = {} /\ NetIds2 = NetIds
      BY <2>1, <2>4 DEF RowsReached, DoneIds, NetIds
    <3>6. Whole2
      BY <2>1, <3>5 DEF NetsWhole
    <3>7. Kept2 /\ SlotsKept(slot_backup', NetIds2, {}, win_sample')
      BY <1>d, <2>1, <2>4, <3>5 DEF SlotsKept
    <3>8. NetsWhole(discovered', 1 .. row', win_sample')
      BY <3>5 DEF NetsWhole
    <3>9. Reached2
      BY <2>4, <3>3, <3>4, <3>5, <3>7, <3>8
    <3> QED
      BY <2>2, <3>6, <3>7, <3>9 DEF Goal
  <2> QED
    BY <2>1, <2>3, <2>4
<1>5. CASE WindowsNetworks!ReadRow
  <2> DEFINE luid == seen[row + 1]
  <2>1. PICK forward \in BOOLEAN :
            discovered' = Append(discovered, [id |-> luid,
                              rate |-> WindowsNetworks!RowRate(luid, forward)])
    BY <1>5 DEF WindowsNetworks!ReadRow
  <2>2. /\ win_disks' = win_disks /\ baselines' = baselines /\ backup' = backup
        /\ win_nets' = win_nets /\ WindowsNetworks!KeepReading(luid)
        /\ row' = row + 1 /\ slot_backup' = slot_backup /\ seen' = seen
        /\ win_told' = win_told /\ win_sample' = win_sample
        /\ drives' = drives /\ adapters' = adapters
        /\ win_step = "rows" /\ win_step' = "rows" /\ row < Len(seen)
    BY <1>5 DEF WindowsNetworks!ReadRow, WindowsNetworks!machineVars
  <2>3. /\ row \in Nat /\ row = Len(discovered) /\ seen \in Seq(Luids)
        /\ \A i, j \in DOMAIN seen : seen[i] = seen[j] => i = j
        /\ \A i \in 1 .. row : discovered[i].id = seen[i]
        /\ NetsWhole(discovered, 1 .. row, win_sample)
        /\ SlotsKept(slot_backup, NetIds, {}, win_sample)
    BY <2>2 DEF RowsReached
  <2>4. DoneIds = RowIds /\ NetIds2 = NetIds /\ Fresh2 = FreshRows /\ Done2 = RowIds2
    BY <2>2 DEF DoneIds, NetIds, FreshRows
  <2>5. luid \in Luids /\ luid \notin RowIds
    <3>1. DOMAIN discovered = 1 .. row /\ DOMAIN seen = 1 .. Len(seen)
      BY <2>3 DEF NetsWhole
    <3> QED
      BY <2>2, <2>3, <3>1 DEF RowIds
  <2> HIDE DEF luid
  <2>6. /\ SlotsKept(net_slots', (NetIds \cup RowIds) \cup {luid},
                     RowIds \cup {luid}, win_sample)
        /\ WindowsNetworks!RowRate(luid, forward) \in {WindowsNetworks!NaN,
               WindowsNetworks!Rate(luid, win_sample - 1, win_sample)}
    BY <2>2, <2>4, <2>5, RowKept
  <2> DEFINE new == [id |-> luid, rate |-> WindowsNetworks!RowRate(luid, forward)]
  <2>7. new \in NetRows /\ new.id = luid
        /\ new.rate \in {WindowsNetworks!NaN,
               WindowsNetworks!Rate(luid, win_sample - 1, win_sample)}
    BY <2>5, <2>6 DEF NetRows, WindowsRates, WindowsNetworks!Rate,
                      WindowsNetworks!NaN, WindowsDisks!NaN
  <2> HIDE DEF new
  <2>8. /\ discovered' = Append(discovered, new) /\ discovered \in Seq(NetRows)
    BY <2>1, <2>3 DEF new, NetsWhole
  <2>9. /\ discovered' \in Seq(NetRows) /\ Len(discovered') = row + 1
        /\ DOMAIN discovered' = 1 .. row + 1 /\ DOMAIN discovered = 1 .. row
        /\ discovered'[row + 1] = new
        /\ \A i \in 1 .. row : discovered'[i] = discovered[i]
    BY <2>3, <2>7, <2>8
  <2>10. RowIds2 = RowIds \cup {luid}
    BY <2>3, <2>7, <2>9 DEF RowIds
  <2>11. NetsWhole(discovered', 1 .. row', win_sample')
    <3>1. \A i \in 1 .. row : discovered[i].id # luid
      BY <2>5, <2>9 DEF RowIds
    <3>2. \A i, j \in 1 .. row + 1 : discovered'[i].id = discovered'[j].id => i = j
      <4> SUFFICES ASSUME NEW i \in 1 .. row + 1, NEW j \in 1 .. row + 1,
                          discovered'[i].id = discovered'[j].id
                   PROVE  i = j
        OBVIOUS
      <4>1. i \in 1 .. row \/ i = row + 1
        BY <2>3
      <4>2. j \in 1 .. row \/ j = row + 1
        BY <2>3
      <4>3. \A k, m \in 1 .. row : discovered[k].id = discovered[m].id => k = m
        BY <2>3, <2>9 DEF NetsWhole
      <4>4. \A k \in 1 .. row : discovered'[k].id = discovered[k].id
        BY <2>9
      <4>5. discovered'[row + 1].id = luid
        BY <2>7, <2>9
      <4> QED
        BY <3>1, <4>1, <4>2, <4>3, <4>4, <4>5
    <3>3. \A i \in 1 .. row + 1 : discovered'[i].rate \in {WindowsNetworks!NaN,
              WindowsNetworks!Rate(discovered'[i].id, win_sample - 1, win_sample)}
      <4> SUFFICES ASSUME NEW i \in 1 .. row + 1
                   PROVE  discovered'[i].rate \in {WindowsNetworks!NaN,
              WindowsNetworks!Rate(discovered'[i].id, win_sample - 1, win_sample)}
        OBVIOUS
      <4>1. i \in 1 .. row \/ i = row + 1
        BY <2>3
      <4> QED
        BY <2>3, <2>7, <2>9, <4>1 DEF NetsWhole
    <3> QED
      BY <2>2, <2>9, <3>2, <3>3 DEF NetsWhole
  <2>12. \A i \in 1 .. row' : discovered'[i].id = seen'[i]
    <3> SUFFICES ASSUME NEW i \in 1 .. row + 1 PROVE discovered'[i].id = seen[i]
      BY <2>2
    <3>1. i \in 1 .. row \/ i = row + 1
      BY <2>3
    <3> QED
      BY <2>3, <2>7, <2>9, <3>1 DEF luid
  <2>13. Typed2 /\ Told2
    BY <2>2 DEF WinNetsTyped, WinNetsTold
  <2>14. Whole2
    BY <2>2, <2>4
  <2>15. Kept2
    BY <2>2, <2>4, <2>6, <2>10 DEF SlotsKept
  <2>16. Reached2
    <3>1. row' \in Nat /\ row' <= Len(seen') /\ row' = Len(discovered')
      BY <2>2, <2>3, <2>9
    <3>2. /\ seen' \in Seq(Luids)
          /\ \A i, j \in DOMAIN seen' : seen'[i] = seen'[j] => i = j
          /\ SlotsKept(slot_backup', NetIds2, {}, win_sample')
      BY <2>2, <2>3, <2>4
    <3> HIDE DEF NetIds2
    <3> QED
      BY <2>2, <2>11, <2>12, <3>1, <3>2
  <2> QED
    BY <2>13, <2>14, <2>15, <2>16 DEF Goal
<1>6. CASE WindowsNetworks!RowFails
  <2>1. /\ win_disks' = win_disks /\ baselines' = baselines /\ backup' = backup
        /\ win_nets' = win_nets /\ net_slots' = slot_backup
        /\ row' = 0 /\ discovered' = <<>> /\ win_told' = win_told
        /\ win_sample' = win_sample /\ drives' = drives /\ adapters' = adapters
        /\ win_step = "rows" /\ win_step' = "net_counters"
    BY <1>6 DEF WindowsNetworks!RowFails, WindowsNetworks!machineVars
  <2>2. Typed2 /\ Told2
    BY <2>1 DEF WinNetsTyped, WinNetsTold
  <2>3. RowIds2 = {} /\ NetIds2 = NetIds /\ Done2 = {} /\ Fresh2 = {}
    BY <2>1 DEF NetIds
  <2>4. Kept2
    BY <2>1, <2>3 DEF RowsReached
  <2>5. Whole2 /\ Reached2
    BY <2>1, <2>3 DEF NetsWhole
  <2> QED
    BY <2>2, <2>4, <2>5 DEF Goal
<1>7. CASE WindowsNetworks!enumerate_networks
  <2>1. /\ win_disks' = win_disks /\ baselines' = baselines /\ backup' = backup
        /\ win_nets' = discovered /\ net_slots' = WindowsNetworks!Cleared(net_slots)
        /\ row' = 0 /\ discovered' = <<>>
        /\ win_told' = IF WindowsNetworks!Ids(win_nets') =
                          WindowsNetworks!Ids(win_nets) THEN win_told
                       ELSE [win_told EXCEPT !.nets = WindowsNetworks!Ids(win_nets')]
        /\ win_sample' = win_sample /\ drives' = drives /\ adapters' = adapters
        /\ win_step = "rows" /\ row = Len(seen) /\ win_step' = "idle"
    BY <1>7 DEF WindowsNetworks!enumerate_networks, WindowsNetworks!machineVars
  <2>2. Typed2
    BY <2>1 DEF WinNetsTyped
  <2>3. Told2
    BY <2>1 DEF WinNetsTold
  <2>4. /\ row \in Nat /\ row = Len(discovered) /\ seen \in Seq(Luids)
        /\ \A i \in 1 .. row : discovered[i].id = seen[i]
        /\ NetsWhole(discovered, 1 .. row, win_sample)
        /\ DOMAIN discovered = 1 .. row /\ DOMAIN seen = 1 .. row
    BY <2>1 DEF RowsReached, NetsWhole
  <2>5. /\ NetIds2 = RowIds /\ RowIds2 = {} /\ Done2 = RowIds /\ Fresh2 = 1 .. row
        /\ DoneIds = RowIds /\ WindowsNetworks!Range(seen) = RowIds
    BY <2>1, <2>4 DEF RowIds, DoneIds, WindowsNetworks!Range
  <2>6. Whole2
    BY <2>1, <2>4, <2>5
  <2>7. Reached2
    BY <2>1
  <2>8. Kept2
    <3>1. /\ net_slots' \in [WindowsNetworks!Slots ->
                [valid : BOOLEAN, key : Luids \cup {0}, at : 0 .. MaxSamples]]
          /\ \A s \in WindowsNetworks!Slots : net_slots'[s].valid =>
                /\ net_slots[s].valid /\ net_slots'[s] = net_slots[s]
                /\ net_slots[s].key \in RowIds
      <4>1. net_slots' = [s \in WindowsNetworks!Slots |->
                IF net_slots[s].valid /\ net_slots[s].key \notin RowIds
                THEN WindowsNetworks!NoSlot ELSE net_slots[s]]
        BY <2>1, <2>5 DEF WindowsNetworks!Cleared
      <4>2. /\ WindowsNetworks!NoSlot \in
                [valid : BOOLEAN, key : Luids \cup {0}, at : 0 .. MaxSamples]
            /\ ~WindowsNetworks!NoSlot.valid
        BY DEF WindowsNetworks!NoSlot
      <4>3. net_slots \in [WindowsNetworks!Slots ->
                [valid : BOOLEAN, key : Luids \cup {0}, at : 0 .. MaxSamples]]
        BY DEF SlotsKept
      <4> QED
        BY <4>1, <4>2, <4>3
    <3> QED
      BY <2>1, <2>5, <3>1 DEF SlotsKept
  <2> QED
    BY <2>2, <2>3, <2>6, <2>7, <2>8 DEF Goal
<1>8. CASE WindowsNetworks!ReadCounters
  <2> DEFINE luid == win_nets[row + 1].id
  <2>1. /\ win_disks' = win_disks /\ baselines' = baselines /\ backup' = backup
        /\ row' = row + 1 /\ discovered' = discovered /\ win_told' = win_told
        /\ win_sample' = win_sample /\ drives' = drives /\ adapters' = adapters
        /\ win_step = "net_counters" /\ win_step' = "net_counters"
        /\ row < Len(win_nets)
    BY <1>8 DEF WindowsNetworks!ReadCounters, WindowsNetworks!machineVars
  <2>2. /\ row \in Nat /\ win_nets \in Seq(NetRows)
        /\ DOMAIN win_nets = 1 .. Len(win_nets) /\ Len(win_nets) \in Nat
        /\ \A i, j \in DOMAIN win_nets : win_nets[i].id = win_nets[j].id => i = j
        /\ discovered' = <<>> /\ RowIds = {} /\ RowIds2 = {}
        /\ DoneIds = {win_nets[i].id : i \in 1 .. row} /\ FreshRows = 1 .. row
    BY <1>d, <2>1 DEF RowsReached, NetsWhole, DoneIds, FreshRows
  <2>3. /\ row + 1 \in DOMAIN win_nets /\ win_nets[row + 1] \in NetRows
        /\ luid \in Luids /\ luid \notin DoneIds /\ luid \in NetIds
    <3>1. row + 1 \in DOMAIN win_nets /\ win_nets[row + 1] \in NetRows
      BY <2>1, <2>2
    <3>2. luid \in Luids /\ luid \in NetIds
      BY <3>1 DEF NetRows, NetIds
    <3>3. \A i \in 1 .. row : i \in DOMAIN win_nets /\ i # row + 1
      BY <2>1, <2>2
    <3>4. \A i \in 1 .. row : win_nets[i].id # luid
      BY <2>2, <3>1, <3>3
    <3> QED
      BY <2>2, <3>1, <3>2, <3>4
  <2> DEFINE Good(x) == x \in {WindowsNetworks!NaN,
                               WindowsNetworks!Rate(luid, win_sample - 1, win_sample)}
  <2>4. \E x : /\ win_nets' = [win_nets EXCEPT ![row + 1].rate = x] /\ Good(x)
               /\ SlotsKept(net_slots', NetIds, DoneIds \cup {luid}, win_sample)
    <3> HIDE DEF luid, Good
    <3>1. NetIds \cup RowIds = NetIds /\ NetIds \cup {luid} = NetIds
      BY <2>2, <2>3
    <3>2. CASE WindowsNetworks!KeepReading(luid) /\ \E forward \in BOOLEAN :
              win_nets' = [win_nets EXCEPT ![row + 1].rate =
                               WindowsNetworks!RowRate(luid, forward)]
      <4>1. PICK forward \in BOOLEAN :
              win_nets' = [win_nets EXCEPT ![row + 1].rate =
                               WindowsNetworks!RowRate(luid, forward)]
        BY <3>2
      <4>2. /\ SlotsKept(net_slots', NetIds \cup {luid}, DoneIds \cup {luid},
                         win_sample)
            /\ WindowsNetworks!RowRate(luid, forward) \in {WindowsNetworks!NaN,
                   WindowsNetworks!Rate(luid, win_sample - 1, win_sample)}
        BY <2>3, <3>1, <3>2, RowKept
      <4> QED
        BY <3>1, <4>1, <4>2 DEF Good
    <3>3. CASE /\ WindowsNetworks!DropReading(luid)
               /\ win_nets' = [win_nets EXCEPT ![row + 1].rate = WindowsNetworks!NaN]
      <4>1. SlotsKept(net_slots', NetIds, DoneIds \cup {luid}, win_sample)
        BY <2>3, <3>1, <3>3, RowDropped
      <4>2. Good(WindowsNetworks!NaN)
        BY DEF Good
      <4> QED
        BY <3>3, <4>1, <4>2
    <3> QED
      BY <1>8, <3>2, <3>3 DEF WindowsNetworks!ReadCounters, luid
  <2>5. PICK x : /\ win_nets' = [win_nets EXCEPT ![row + 1].rate = x] /\ Good(x)
                 /\ SlotsKept(net_slots', NetIds, DoneIds \cup {luid}, win_sample)
    BY <2>4
  <2>6. x \in WindowsRates(Luids)
    BY <2>3, <2>5 DEF WindowsRates, WindowsNetworks!Rate, WindowsNetworks!NaN,
                      WindowsDisks!NaN
  <2>7. /\ win_nets' \in Seq(NetRows) /\ Len(win_nets') = Len(win_nets)
        /\ DOMAIN win_nets' = DOMAIN win_nets
        /\ win_nets'[row + 1].rate = x
        /\ \A i \in DOMAIN win_nets : win_nets'[i].id = win_nets[i].id
        /\ \A i \in DOMAIN win_nets : i # row + 1 => win_nets'[i] = win_nets[i]
    <3> DEFINE new == [win_nets[row + 1] EXCEPT !.rate = x]
    <3>1. new \in NetRows /\ new.id = win_nets[row + 1].id /\ new.rate = x
      BY <2>3, <2>6 DEF NetRows
    <3>2. win_nets' = [win_nets EXCEPT ![row + 1] = new]
      BY <2>3, <2>5
    <3> HIDE DEF new
    <3> QED
      BY <2>2, <2>3, <3>1, <3>2
  <2>8. /\ NetIds2 = NetIds /\ Fresh2 = 1 .. row + 1
        /\ Done2 = {win_nets'[i].id : i \in 1 .. row + 1}
    BY <2>1, <2>7 DEF NetIds
  <2>9. Done2 = DoneIds \cup {luid}
    <3>1. \A i \in 1 .. row + 1 : i \in DOMAIN win_nets /\
              (i \in 1 .. row \/ i = row + 1)
      BY <2>1, <2>2
    <3>2. \A i \in 1 .. row : i \in 1 .. row + 1
      BY <2>2
    <3>3. Done2 = {win_nets[i].id : i \in 1 .. row + 1}
      BY <2>7, <2>8, <3>1
    <3>4. row + 1 \in 1 .. row + 1
      BY <2>2
    <3> HIDE DEF Done2
    <3>5. \A y : y \in Done2 <=> y \in DoneIds \/ y = luid
      BY <2>2, <3>1, <3>2, <3>3, <3>4
    <3> QED
      BY <3>5
  <2>10. Kept2
    <3>1. NetIds2 \cup RowIds2 = NetIds
      BY <2>2, <2>8
    <3> HIDE DEF Done2, NetIds2, RowIds2
    <3> QED
      BY <2>1, <2>5, <2>9, <3>1
  <2>11. Whole2
    <3>1. \A i \in 1 .. row + 1 : win_nets'[i].rate \in {WindowsNetworks!NaN,
              WindowsNetworks!Rate(win_nets'[i].id, win_sample - 1, win_sample)}
      <4> SUFFICES ASSUME NEW i \in 1 .. row + 1
                   PROVE  win_nets'[i].rate \in {WindowsNetworks!NaN,
              WindowsNetworks!Rate(win_nets'[i].id, win_sample - 1, win_sample)}
        OBVIOUS
      <4>1. i \in DOMAIN win_nets /\ (i \in 1 .. row \/ i = row + 1)
        BY <2>1, <2>2
      <4> QED
        BY <2>2, <2>3, <2>5, <2>7, <4>1 DEF NetsWhole
    <3> QED
      BY <2>1, <2>2, <2>7, <2>8, <3>1 DEF NetsWhole
  <2>12. Typed2
    BY <2>1 DEF WinNetsTyped
  <2>13. Told2
    <3>1. WindowsNetworks!Ids(win_nets') = WindowsNetworks!Ids(win_nets)
      BY <2>7 DEF WindowsNetworks!Ids
    <3> QED
      BY <2>1, <3>1 DEF WinNetsTold
  <2>14. Reached2
    BY <2>1, <2>2, <2>7
  <2> QED
    BY <2>10, <2>11, <2>12, <2>13, <2>14 DEF Goal
<1>9. CASE WindowsNetworks!update_network_counters
  <2>1. /\ win_disks' = win_disks /\ baselines' = baselines /\ backup' = backup
        /\ win_nets' = win_nets /\ net_slots' = net_slots
        /\ row' = 0 /\ discovered' = discovered /\ win_told' = win_told
        /\ win_sample' = win_sample /\ drives' = drives /\ adapters' = adapters
        /\ win_step = "net_counters" /\ row = Len(win_nets) /\ win_step' = "idle"
    BY <1>9 DEF WindowsNetworks!update_network_counters, WindowsNetworks!machineVars
  <2>2. Typed2 /\ Told2
    BY <2>1 DEF WinNetsTyped, WinNetsTold
  <2>3. DOMAIN win_nets = 1 .. row
    BY <2>1 DEF NetsWhole
  <2>4. /\ NetIds2 = NetIds /\ RowIds2 = {} /\ RowIds = {} /\ Done2 = NetIds
        /\ DoneIds = NetIds /\ Fresh2 = FreshRows /\ discovered' = <<>>
    BY <1>d, <2>1, <2>3 DEF NetIds, DoneIds, FreshRows
  <2>5. Whole2 /\ Kept2
    BY <2>1, <2>4
  <2>6. Reached2
    BY <2>1, <2>4
  <2> QED
    BY <2>2, <2>5, <2>6 DEF Goal
<1>10. CASE UNCHANGED windowsVars \/ WindowsNetworks!Stopped
  <2>1. UNCHANGED windowsVars
    BY <1>10 DEF WindowsNetworks!Stopped, WindowsNetworks!vars, windowsVars,
                 WindowsNetworks!machineVars, WindowsNetworks!rowVars
  <2>2. Typed2 /\ Told2
    BY <2>1 DEF windowsVars, WinNetsTyped, WinNetsTold
  <2>3. Whole2 /\ Kept2
    BY <2>1 DEF windowsVars, FreshRows, DoneIds, NetIds, RowIds
  <2>4. Reached2
    BY <2>1 DEF windowsVars, RowsReached, NetIds
  <2> QED
    BY <2>2, <2>3, <2>4 DEF Goal
<1> QED
    BY <1>1, <1>2, <1>3, <1>4, <1>5, <1>6, <1>7, <1>8, <1>9, <1>10
       DEF WindowsNetworks!Next

-----------------------------------------------------------------------------
(* The Bluetooth device has a power supply of the kernel's as well.         *)
Peripherals == INSTANCE PeripheralBatteries WITH
    KernelAlso <- Addresses, MaxDevices <- MaxLogitech, born <- plugs,
    main <- sampling

ASSUME BatteriesAssumption == Peripherals!PeripheralsAssumption

(* Batteries of peripherals, for any paths and addresses, any number of     *)
(* rows and however long a worker takes.                                    *)

BatteriesTyped ==
    /\ Peripherals!TypeOK
    /\ plugs \in 0 .. MaxLogitech /\ connected \subseteq Addresses
    /\ sampling \in {"start_bluez", "start_hidpp", "run", "join_hidpp",
                     "stop_bluez", "join_bluez", "end"}

(* The HID++ worker is where the pipe says; it ends only when it is told to,*)
(* which is after the last enumeration.                                     *)
WorkerPlaced ==
    /\ hidpp = "none" <=> cancel_pipe = "none"
    /\ hidpp # "ended" /\ cancel_pipe # "none" => cancel_pipe = "open"
    /\ sampling \in {"start_bluez", "start_hidpp"} =>
          hidpp = "none" /\ batteries = {} /\ DOMAIN slots = {}
    /\ hidpp_stop => sampling \notin {"start_bluez", "start_hidpp", "run"}
    /\ hidpp = "ended" => hidpp_stop

BatteriesInv ==
    /\ BatteriesTyped
    /\ Peripherals!TablesAgree
    /\ WorkerPlaced

(* No battery is known at the start.                                        *)
LEMMA BatteriesStart == Peripherals!Init => BatteriesInv
<1> SUFFICES ASSUME Peripherals!Init PROVE BatteriesInv
    OBVIOUS
<1> USE DEF Peripherals!Init
<1>1. BatteriesTyped
    BY BatteriesAssumption, FS_EmptySet
    DEF BatteriesAssumption, Peripherals!PeripheralsAssumption, BatteriesTyped,
        Peripherals!TypeOK, Peripherals!None, Peripherals!Cardinality, Cardinality
<1>2. Peripherals!TablesAgree
    BY DEF Peripherals!TablesAgree, Peripherals!Tracked
<1> QED
    BY <1>1, <1>2 DEF BatteriesInv, WorkerPlaced

(* Every step of a sample or of the machine keeps the invariant.            *)
LEMMA BatteriesStep ==
    BatteriesInv /\ [Peripherals!Next]_batteryVars => BatteriesInv'
<1> SUFFICES ASSUME BatteriesInv, [Peripherals!Next]_batteryVars
             PROVE  BatteriesInv'
    OBVIOUS
<1> USE DEF BatteriesInv
<1>a. UNCHANGED <<batteries, states, outcome>> /\ sampling' = sampling
      /\ DOMAIN slots' = DOMAIN slots => Peripherals!TablesAgree'
    BY DEF Peripherals!TablesAgree, Peripherals!Tracked, Peripherals!Kernel,
           Peripherals!Bluez
<1>1. CASE UNCHANGED batteryVars
    BY <1>1, <1>a DEF batteryVars, BatteriesTyped, WorkerPlaced, Peripherals!TypeOK
<1>2. CASE Peripherals!MachineChanges
  <2>1. /\ UNCHANGED <<sampling, records, bluez, bluez_stop, collected, hidpp,
                       hidpp_stop, request, cancel_pipe, slots, batteries,
                       states, outcome>>
        /\ plugged' \in [Paths -> 0 .. MaxLogitech]
        /\ plugs' \in 0 .. MaxLogitech /\ connected' \subseteq Addresses
    BY <1>2, BatteriesAssumption
    DEF Peripherals!MachineChanges, Peripherals!bluezVars, Peripherals!hidppVars,
        Peripherals!tableVars, BatteriesTyped, Peripherals!TypeOK, Peripherals!None,
        BatteriesAssumption, Peripherals!PeripheralsAssumption
  <2> QED
    BY <2>1, <1>a DEF BatteriesTyped, WorkerPlaced, Peripherals!TypeOK
<1>3. CASE \/ Peripherals!StartBluez \/ Peripherals!StartHidpp
           \/ Peripherals!StopHidpp \/ Peripherals!JoinHidpp
           \/ Peripherals!StopBluez \/ Peripherals!JoinBluez
  <2> USE <1>3 DEF Peripherals!StartBluez, Peripherals!StartHidpp,
        Peripherals!StopHidpp, Peripherals!JoinHidpp, Peripherals!StopBluez,
        Peripherals!JoinBluez, Peripherals!machineVars, Peripherals!bluezVars,
        Peripherals!hidppVars, Peripherals!tableVars
  <2>1. BatteriesTyped'
    BY DEF BatteriesTyped, Peripherals!TypeOK
  <2>2. WorkerPlaced'
    BY DEF WorkerPlaced, BatteriesTyped, Peripherals!TypeOK
  <2>3. /\ UNCHANGED <<batteries, states>>
        /\ sampling' \in {"run", "join_hidpp"} =>
              /\ DOMAIN slots' = DOMAIN slots
              /\ \/ sampling \in {"run", "join_hidpp"}
                 \/ batteries = {} /\ DOMAIN slots = {}
    BY DEF WorkerPlaced
  <2>4. Peripherals!TablesAgree'
    BY ONLY <2>3, BatteriesInv DEF BatteriesInv, Peripherals!TablesAgree,
        Peripherals!Tracked, Peripherals!Kernel, Peripherals!Bluez
  <2> QED
    BY <2>1, <2>2, <2>4
<1>4. CASE \/ Peripherals!BluezCheck \/ Peripherals!BluezCollect
           \/ Peripherals!BluezPublish \/ Peripherals!BluezWait
  <2> USE <1>4 DEF Peripherals!BluezCheck, Peripherals!BluezCollect,
        Peripherals!BluezPublish, Peripherals!BluezWait, Peripherals!machineVars,
        Peripherals!hidppVars, Peripherals!tableVars
  <2>1. BatteriesTyped'
    BY DEF BatteriesTyped, Peripherals!TypeOK
  <2> QED
    BY <1>a, <2>1 DEF WorkerPlaced
<1>5. CASE Peripherals!SlotDue
  <2>1. /\ UNCHANGED <<plugged, connected, plugs, sampling, records, bluez,
                       bluez_stop, collected, hidpp, hidpp_stop, request,
                       cancel_pipe, batteries, states, outcome>>
        /\ DOMAIN slots' = DOMAIN slots
    BY <1>5 DEF Peripherals!SlotDue, Peripherals!machineVars,
        Peripherals!bluezVars, Peripherals!hidppVars, Peripherals!tableVars
  <2> QED
    BY <1>a, <2>1 DEF BatteriesTyped, WorkerPlaced, Peripherals!TypeOK
<1>6. CASE \/ Peripherals!HidppSelect \/ Peripherals!HidppQuery
           \/ Peripherals!HidppApply
  <2>1. /\ UNCHANGED <<plugged, connected, plugs, sampling, records, bluez,
                       bluez_stop, collected, hidpp_stop,
                       cancel_pipe, batteries, states, outcome>>
        /\ DOMAIN slots' = DOMAIN slots
        /\ hidpp \notin {"none", "ended"}
        /\ hidpp' \in {"select", "query", "apply", "ended"}
        /\ hidpp' = "ended" => hidpp_stop
    BY <1>6 DEF Peripherals!HidppSelect, Peripherals!HidppQuery,
        Peripherals!HidppApply, Peripherals!Found, Peripherals!machineVars,
        Peripherals!bluezVars, Peripherals!tableVars
  <2> QED
    BY <1>a, <2>1 DEF BatteriesTyped, WorkerPlaced, Peripherals!TypeOK
<1>7. CASE Peripherals!Enumerate
  <2> DEFINE Node(found, b) ==
                 IF \E p \in found : b = Peripherals!Logitech(plugged[p])
                 THEN CHOOSE p \in found : b = Peripherals!Logitech(plugged[p])
                 ELSE ""
             Supplies(shown) ==
                 {Peripherals!Logitech(plugged[p]) : p \in shown}
                 \cup {Peripherals!Kernel(a) : a \in connected \cap Addresses}
             Rows(shown) == Peripherals!Merged(Supplies(shown))
             Listed(shown, found) ==
                 /\ Peripherals!Cardinality(Rows(shown)) <= MaxBatteries
                 /\ batteries' = Rows(shown)
                 /\ states' = [b \in Rows(shown) |->
                        [bluez_record |-> b.kind = "bluez", hidraw |-> Node(found, b)]]
                 /\ Peripherals!set_devices(
                        {Node(found, b) : b \in Rows(shown)} \ {""})
                 /\ outcome' = "complete"
             Kept == UNCHANGED <<batteries, states, slots>> /\ outcome' = "failed"
  <2>0. \E shown \in SUBSET {p \in Paths : plugged[p] # Peripherals!None} :
        \E found \in SUBSET shown : Listed(shown, found) \/ Kept
    BY <1>7, Zenon DEF Peripherals!Enumerate, Peripherals!Restored
  <2>1. PICK shown \in SUBSET Paths, found \in SUBSET Paths :
             Listed(shown, found) \/ Kept
    <3> HIDE DEF Listed, Kept
    <3> QED
      BY <2>0
  <2>2. UNCHANGED <<plugged, connected, plugs, sampling, records, bluez,
                    bluez_stop, collected, hidpp, hidpp_stop, request,
                    cancel_pipe>> /\ sampling = "run"
    BY <1>7 DEF Peripherals!Enumerate, Peripherals!machineVars,
        Peripherals!bluezVars, Peripherals!hidppVars
  <2>3. CASE UNCHANGED <<batteries, states, slots>>
    BY <2>2, <2>3 DEF BatteriesTyped, WorkerPlaced, Peripherals!TypeOK,
        Peripherals!TablesAgree, Peripherals!Tracked, Peripherals!Kernel,
        Peripherals!Bluez
  <2>4. CASE ~UNCHANGED <<batteries, states, slots>>
    <3> DEFINE rows == Rows(shown)
    <3>1. \A b \in rows : Node(found, b) \in found \cup {""}
      OBVIOUS
    <3>2. /\ DOMAIN slots' = {Node(found, b) : b \in rows} \ {""}
          /\ batteries' = rows /\ Peripherals!Cardinality(rows) <= MaxBatteries
          /\ states' = [b \in rows |->
                 [bluez_record |-> b.kind = "bluez", hidraw |-> Node(found, b)]]
      BY <2>1, <2>4 DEF Peripherals!set_devices
    <3>3. \A a \in Addresses :
             ~(Peripherals!Kernel(a) \in rows /\ Peripherals!Bluez(a) \in rows)
      BY DEF Peripherals!Merged, Peripherals!Kernel, Peripherals!Bluez,
             Peripherals!Logitech
    <3> HIDE DEF rows, Node
    <3>4. BatteriesTyped'
      BY <2>2, <3>1, <3>2 DEF BatteriesTyped, Peripherals!TypeOK
    <3>5. Peripherals!Tracked' = {Node(found, b) : b \in rows} \ {""}
      BY <3>2 DEF Peripherals!Tracked
    <3>6. Peripherals!TablesAgree'
      BY <3>2, <3>3, <3>5 DEF Peripherals!TablesAgree, Peripherals!Kernel,
         Peripherals!Bluez
    <3> QED
      BY <2>2, <3>4, <3>6 DEF WorkerPlaced
  <2> QED
    BY <2>3, <2>4
<1> QED
    BY <1>1, <1>2, <1>3, <1>4, <1>5, <1>6, <1>7 DEF Peripherals!Next

(* The invariant is what the batteries promise.                             *)
LEMMA BatteriesKept ==
    BatteriesInv => /\ Peripherals!TypeOK /\ Peripherals!TablesAgree
                    /\ Peripherals!CancelPipeOwned
    BY DEF BatteriesInv, BatteriesTyped, WorkerPlaced, Peripherals!CancelPipeOwned,
           Peripherals!TypeOK

-----------------------------------------------------------------------------
Traffic == INSTANCE BluetoothTraffic WITH listed <- captured

ASSUME HciAssumption == Traffic!TrafficAssumption

(* Bluetooth traffic, for any handles, devices, slots, packets and changes  *)
(* of the connections.                                                      *)

SlotRecords ==
    [used : BOOLEAN, handle : Handles \cup {0}, address : Devices \cup {Traffic!NoOne},
     active : BOOLEAN, bytes : SUBSET Nat,
     counted_for : SUBSET (Devices \cup {Traffic!NoOne}),
     senders : SUBSET (Devices \cup {Traffic!NoOne})]

TrafficTyped ==
    /\ Traffic!TypeOK
    /\ packets \in Nat /\ received \in Handles
    /\ main \in {"start", "drop", "publish", "run", "join", "end"}
    /\ captured \in [Handles -> Devices \cup {Traffic!NoOne}]

(* A table of slots in which nothing is counted twice or for another, with  *)
(* the packets up to n.                                                     *)
LinksApart(table, n) ==
    /\ table \in [Traffic!Slots -> SlotRecords]
    /\ \A s \in Traffic!Slots :
          /\ table[s].bytes \subseteq 1 .. n
          /\ table[s].used => table[s].counted_for \subseteq
                                 {Traffic!NoOne, table[s].address}
    /\ \A s, t \in Traffic!Slots :
          table[s].used /\ table[t].used /\ table[s].handle = table[t].handle
             => s = t
    /\ \A s, t \in Traffic!Slots : s # t => table[s].bytes \cap table[t].bytes = {}

(* A table of slots in which address and bytes are of devices that have had *)
(* the handle, where `given' are the devices each handle was given to.      *)
LinksOwned(table, given) ==
    \A s \in Traffic!Slots : table[s].used =>
        /\ table[s].handle \in Handles
        /\ table[s].address \in given[table[s].handle] \cup {Traffic!NoOne}
        /\ table[s].senders \subseteq given[table[s].handle]

(* So are those of a list, and of the connections.                          *)
ListOwned(list, given) ==
    \A h \in Handles : list[h] \in given[h] \cup {Traffic!NoOne}

(* So is the packet in the reader's hands.                                  *)
OwnersInv ==
    /\ LinksOwned(links, owners)
    /\ ListOwned(connection, owners) /\ ListOwned(captured, owners)
    /\ reader = "account" => sender \in owners[received]

(* The packet in the reader's hands has not been counted.                   *)
PacketNew ==
    reader = "account" =>
        packets >= 1 /\ \A s \in Traffic!Slots : packets \notin links[s].bytes

(* What has happened to capabilities, descriptor and reader when the main   *)
(* thread is where it is.                                                   *)
StartOrdered ==
    /\ main \in {"start", "drop", "publish"} =>
          reader = "none" /\ ~monitor_fd /\ ~thread_started
    /\ main = "start" => fd = "none"
    /\ main = "publish" => fd = "bound"
    /\ main = "run" => IF thread_started THEN fd = "bound"
                       ELSE fd \in {"none", "closed"}
    /\ main \in {"publish", "run", "join"} => ~capabilities
    /\ main = "join" => stop_requested
    /\ main = "end" /\ fd \notin {"none", "closed"} => stop_requested
    /\ monitor_fd \/ reader # "none" => ~capabilities
    /\ reader \in {"check", "recv", "account"} => fd = "bound"
    /\ sampler # "idle" => main = "run"

TrafficInv ==
    /\ TrafficTyped
    /\ LinksApart(links, packets)
    /\ PacketNew
    /\ StartOrdered

(* What is assumed of the constants of the traffic capture.                 *)
LEMMA HciConstants ==
    /\ Handles # {} /\ Traffic!NoOne \notin Devices
    /\ LinkSlots \in Nat \ {0} /\ MaxPackets \in Nat /\ MaxEvents \in Nat
    /\ Traffic!Slots \subseteq Nat /\ 0 \notin Traffic!Slots
    /\ Traffic!FreeSlot \in SlotRecords
    BY HciAssumption DEF HciAssumption, Traffic!TrafficAssumption, Traffic!Slots,
        Traffic!FreeSlot, SlotRecords

(* link_for_handle_locked gives a slot of the table, its own if there is    *)
(* one.                                                                     *)
LEMMA LinkFound ==
    ASSUME NEW table, NEW h,
           Traffic!link_for_handle_locked(table, h) # 0
    PROVE  LET s == Traffic!link_for_handle_locked(table, h)
           IN  /\ s \in Traffic!Slots
               /\ \/ table[s].used /\ table[s].handle = h
                  \/ \A t \in Traffic!Slots : ~(table[t].used /\ table[t].handle = h)
<1> DEFINE own  == {s \in Traffic!Slots : table[s].used /\ table[s].handle = h}
           free == {s \in Traffic!Slots : ~table[s].used}
           idle == {s \in Traffic!Slots : ~table[s].active}
<1>1. ASSUME NEW S \in SUBSET Traffic!Slots, S # {} PROVE Traffic!Min(S) \in S
  <2>1. S \in SUBSET Nat
    BY HciConstants
  <2>2. \E n \in S : \A m \in S : n <= m
    BY <1>1, <2>1, LeastOf
  <2> QED
    BY <2>2 DEF Traffic!Min
<1>2. Traffic!link_for_handle_locked(table, h) =
        CASE own # {}  -> Traffic!Min(own)
          [] own = {} /\ free # {} -> Traffic!Min(free)
          [] own = {} /\ free = {} /\ idle # {} -> Traffic!Min(idle)
          [] OTHER -> 0
    BY DEF Traffic!link_for_handle_locked
<1>3. own \in SUBSET Traffic!Slots /\ free \in SUBSET Traffic!Slots
      /\ idle \in SUBSET Traffic!Slots
    OBVIOUS
<1>4. CASE own # {}
  <2>1. Traffic!link_for_handle_locked(table, h) = Traffic!Min(own)
    BY <1>2, <1>4
  <2>2. Traffic!Min(own) \in own
    BY <1>1, <1>3, <1>4
  <2> QED
    BY <2>1, <2>2
<1>5. CASE own = {}
  <2>1. CASE free # {}
    <3>1. Traffic!link_for_handle_locked(table, h) = Traffic!Min(free)
      BY <1>2, <1>5, <2>1
    <3> QED
      BY <1>1, <1>3, <1>5, <2>1, <3>1
  <2>2. CASE free = {}
    <3>1. idle # {} /\ Traffic!link_for_handle_locked(table, h) = Traffic!Min(idle)
      BY <1>2, <1>5, <2>2
    <3> QED
      BY <1>1, <1>3, <1>5, <3>1
  <2> QED
    BY <2>1, <2>2
<1> QED
    BY <1>4, <1>5

(* Taking a slot for a handle mixes nothing: another handle's bytes are     *)
(* dropped.                                                                 *)
LEMMA SlotTaken ==
    ASSUME NEW table, NEW n, LinksApart(table, n), NEW h \in Handles, NEW s,
           s = Traffic!link_for_handle_locked(table, h), s # 0
    PROVE  /\ s \in Traffic!Slots
           /\ LinksApart(Traffic!Slotted(table, s, h), n)
           /\ Traffic!Slotted(table, s, h)[s].used
           /\ Traffic!Slotted(table, s, h)[s].handle = h
           /\ \A t \in Traffic!Slots :
                 /\ Traffic!Slotted(table, s, h)[t].bytes \subseteq table[t].bytes
                 /\ \/ Traffic!Slotted(table, s, h)[t] = table[t]
                    \/ /\ t = s
                       /\ Traffic!Slotted(table, s, h)[t].address = Traffic!NoOne
                       /\ Traffic!Slotted(table, s, h)[t].senders = {}
<1>1. /\ s \in Traffic!Slots
      /\ \/ table[s].used /\ table[s].handle = h
         \/ \A t \in Traffic!Slots : ~(table[t].used /\ table[t].handle = h)
    BY LinkFound
<1>2. CASE table[s].used /\ table[s].handle = h
    BY <1>1, <1>2 DEF Traffic!Slotted
<1>3. CASE \A t \in Traffic!Slots : ~(table[t].used /\ table[t].handle = h)
  <2> DEFINE slot == [Traffic!FreeSlot EXCEPT !.used = TRUE, !.handle = h]
             new == [table EXCEPT ![s] = slot]
  <2>1. Traffic!Slotted(table, s, h) = new
    BY <1>1, <1>3 DEF Traffic!Slotted
  <2>2. /\ slot \in SlotRecords /\ slot.used /\ slot.handle = h
        /\ slot.bytes = {} /\ slot.counted_for = {} /\ slot.senders = {}
        /\ slot.address = Traffic!NoOne
    BY DEF Traffic!FreeSlot, SlotRecords
  <2> HIDE DEF slot
  <2>3. /\ new \in [Traffic!Slots -> SlotRecords] /\ new[s] = slot
        /\ \A t \in Traffic!Slots \ {s} : new[t] = table[t]
    BY <1>1, <2>2 DEF LinksApart
  <2> HIDE DEF new
  <2>4. LinksApart(new, n)
    BY <1>1, <1>3, <2>2, <2>3 DEF LinksApart
  <2> QED
    BY <1>1, <2>1, <2>2, <2>3, <2>4
<1> QED
    BY <1>1, <1>2, <1>3

(* A slot may be given what it was, some of it, or what no slot has.        *)
LEMMA SlotChanged ==
    ASSUME NEW table, NEW n, LinksApart(table, n), NEW s \in Traffic!Slots,
           NEW slot \in SlotRecords, slot.used, table[s].used,
           slot.handle = table[s].handle, slot.bytes \subseteq 1 .. n,
           slot.counted_for \subseteq {Traffic!NoOne, slot.address},
           \A t \in Traffic!Slots \ {s} : slot.bytes \cap table[t].bytes = {}
    PROVE  LinksApart([table EXCEPT ![s] = slot], n)
<1> DEFINE new == [table EXCEPT ![s] = slot]
<1>1. /\ new \in [Traffic!Slots -> SlotRecords] /\ new[s] = slot
      /\ \A t \in Traffic!Slots \ {s} : new[t] = table[t]
    BY DEF LinksApart
<1> HIDE DEF new
<1>2. LinksApart(new, n)
    BY <1>1 DEF LinksApart
<1> QED
    BY <1>2 DEF new

(* A slot taken for a handle, and then given an address or bytes of devices *)
(* that have had the handle, is owned as all others are.                    *)
LEMMA SlotOwned ==
    ASSUME NEW table, NEW n, LinksApart(table, n), NEW given,
           LinksOwned(table, given), NEW h \in Handles, NEW s,
           s = Traffic!link_for_handle_locked(table, h), s # 0,
           NEW slot, slot.handle = h,
           slot.address \in given[h] \cup
               {Traffic!NoOne, Traffic!Slotted(table, s, h)[s].address},
           slot.senders \subseteq given[h] \cup Traffic!Slotted(table, s, h)[s].senders
    PROVE  LinksOwned([Traffic!Slotted(table, s, h) EXCEPT ![s] = slot], given)
<1> DEFINE taken == Traffic!Slotted(table, s, h)
           new == [taken EXCEPT ![s] = slot]
<1>1. /\ s \in Traffic!Slots /\ taken[s].used /\ taken[s].handle = h
      /\ DOMAIN taken = Traffic!Slots
      /\ \A t \in Traffic!Slots :
            \/ taken[t] = table[t]
            \/ /\ t = s /\ taken[t].address = Traffic!NoOne
               /\ taken[t].senders = {}
  <2>1. LinksApart(taken, n)
    BY SlotTaken
  <2>2. DOMAIN taken = Traffic!Slots
    BY <2>1 DEF LinksApart
  <2> QED
    BY <2>2, SlotTaken
<1> HIDE DEF taken
<1>2. LinksOwned(taken, given)
    BY <1>1 DEF LinksOwned
<1>3. new[s] = slot /\ \A t \in Traffic!Slots \ {s} : new[t] = taken[t]
    BY <1>1
<1>4. /\ slot.address \in given[h] \cup {Traffic!NoOne, taken[s].address}
      /\ slot.senders \subseteq given[h] \cup taken[s].senders
    BY DEF taken
<1> HIDE DEF new
<1>5. LinksOwned(new, given)
    BY <1>1, <1>2, <1>3, <1>4 DEF LinksOwned
<1> QED
    BY <1>5 DEF new, taken

(* Nothing is captured at the start.                                        *)
LEMMA TrafficStart == Traffic!Init => TrafficInv /\ OwnersInv
<1> SUFFICES ASSUME Traffic!Init PROVE TrafficInv /\ OwnersInv
    OBVIOUS
<1> USE HciConstants DEF Traffic!Init
<1>1. \A s \in Traffic!Slots : links[s] = Traffic!FreeSlot
    OBVIOUS
<1>2. LinksApart(links, packets)
    BY <1>1 DEF LinksApart, Traffic!FreeSlot
<1>3. TrafficTyped
    BY <1>1 DEF TrafficTyped, Traffic!TypeOK, Traffic!FreeSlot
<1>4. /\ LinksOwned(links, owners)
      /\ ListOwned(connection, owners) /\ ListOwned(captured, owners)
    BY <1>1 DEF LinksOwned, ListOwned, Traffic!FreeSlot
<1> QED
    BY <1>2, <1>3, <1>4 DEF TrafficInv, OwnersInv, PacketNew, StartOrdered

(* Every step of the reader and of the sampler keeps the invariant.         *)
LEMMA TrafficStep == TrafficInv /\ [Traffic!Next]_trafficVars => TrafficInv'
<1> SUFFICES ASSUME TrafficInv, [Traffic!Next]_trafficVars PROVE TrafficInv'
    OBVIOUS
<1>0. TrafficTyped /\ LinksApart(links, packets) /\ PacketNew /\ StartOrdered
    BY DEF TrafficInv
<1>a. LinksApart(links', packets') /\ packets' \in Nat =>
          \A s \in Traffic!Slots : /\ links'[s].bytes \subseteq 1 .. packets'
                                   /\ links'[s].counted_for \subseteq
                                         Devices \cup {Traffic!NoOne}
                                   /\ links'[s].senders \subseteq
                                         Devices \cup {Traffic!NoOne}
    BY DEF LinksApart, SlotRecords
<1>b. UNCHANGED <<links, packets>> => LinksApart(links', packets')
    BY <1>0
<1> USE DEF Traffic!startVars, Traffic!worldVars, Traffic!readerVars,
            Traffic!samplerVars
<1>1. CASE UNCHANGED trafficVars
    BY <1>0, <1>1, <1>b DEF TrafficInv, trafficVars, TrafficTyped, PacketNew,
        StartOrdered, Traffic!TypeOK
<1>2. CASE Traffic!OpenMonitor \/ Traffic!DropCapabilities \/ Traffic!PublishMonitor
           \/ Traffic!RequestStop
  <2> USE <1>2 DEF Traffic!OpenMonitor, Traffic!DropCapabilities,
        Traffic!PublishMonitor, Traffic!RequestStop
  <2>1. UNCHANGED <<links, packets>>
    OBVIOUS
  <2>2. StartOrdered'
    BY <1>0 DEF StartOrdered, TrafficTyped, Traffic!TypeOK
  <2>3. PacketNew'
    BY <1>0, <2>1 DEF StartOrdered, PacketNew
  <2>4. TrafficTyped'
    BY <1>0, <2>1 DEF TrafficTyped, Traffic!TypeOK
  <2> QED
    BY <1>b, <2>1, <2>2, <2>3, <2>4 DEF TrafficInv
<1>3. CASE Traffic!JoinReader
  <2> USE <1>3 DEF Traffic!JoinReader
  <2>1. /\ packets' = packets /\ reader' = reader
        /\ \/ links' = links
           \/ reader = "ended" /\ links' = [s \in Traffic!Slots |-> Traffic!FreeSlot]
    OBVIOUS
  <2>2. LinksApart(links', packets')
    <3>1. CASE links' = links
      BY <1>0, <2>1, <3>1
    <3>2. CASE links' = [s \in Traffic!Slots |-> Traffic!FreeSlot]
      <4>1. \A s \in Traffic!Slots : links'[s] = Traffic!FreeSlot
        BY <3>2
      <4> QED
        BY <3>2, <4>1, HciConstants DEF LinksApart, Traffic!FreeSlot
    <3> QED
      BY <2>1, <3>1, <3>2
  <2>3. StartOrdered'
    BY <1>0 DEF StartOrdered, TrafficTyped, Traffic!TypeOK
  <2>4. PacketNew'
    BY <1>0, <2>1 DEF PacketNew
  <2>5. TrafficTyped'
    BY <1>0, <1>a, <2>1, <2>2 DEF TrafficTyped, Traffic!TypeOK
  <2> QED
    BY <2>2, <2>3, <2>4, <2>5 DEF TrafficInv
<1>4. CASE Traffic!ReaderChecks
  <2>1. UNCHANGED <<links, packets>>
    BY <1>4 DEF Traffic!ReaderChecks
  <2>2. StartOrdered' /\ PacketNew'
    BY <1>0, <1>4, <2>1 DEF StartOrdered, PacketNew, Traffic!ReaderChecks
  <2>3. TrafficTyped'
    BY <1>0, <1>4 DEF TrafficTyped, Traffic!TypeOK, Traffic!ReaderChecks
  <2> QED
    BY <1>b, <2>1, <2>2, <2>3 DEF TrafficInv
<1>5. CASE Traffic!ReaderReceives
  <2>1. links' = links /\ packets' \in {packets, packets + 1}
        /\ (reader' = "account" => packets' = packets + 1)
        /\ packets' <= MaxPackets
    BY <1>0, <1>5, HciConstants DEF Traffic!ReaderReceives, TrafficTyped, Traffic!TypeOK
  <2>2. LinksApart(links', packets')
    BY <1>0, <2>1 DEF LinksApart, TrafficTyped
  <2>3. PacketNew'
    BY <1>0, <2>1 DEF PacketNew, LinksApart, TrafficTyped
  <2>4. StartOrdered'
    BY <1>0, <1>5 DEF StartOrdered, Traffic!ReaderReceives
  <2>5. TrafficTyped'
    BY <1>0, <1>5, <1>a, <2>1, <2>2 DEF TrafficTyped, Traffic!TypeOK,
        Traffic!ReaderReceives
  <2> QED
    BY <2>2, <2>3, <2>4, <2>5 DEF TrafficInv
<1>6. CASE Traffic!ReaderAccounts
  <2> DEFINE s == Traffic!link_for_handle_locked(links, received)
             table == Traffic!Slotted(links, s, received)
             slot == [table[s] EXCEPT !.bytes = @ \cup {packets},
                                      !.counted_for = @ \cup {table[s].address},
                                      !.senders = @ \cup {sender}]
  <2>1. links' = IF s = 0 THEN links ELSE [table EXCEPT ![s] = slot]
    BY <1>6 DEF Traffic!ReaderAccounts, Traffic!account_packet
  <2>2. LinksApart(links', packets)
    <3>1. CASE s = 0
      BY <1>0, <2>1, <3>1
    <3>2. CASE s # 0
      <4>1. /\ s \in Traffic!Slots /\ LinksApart(table, packets) /\ table[s].used
            /\ \A t \in Traffic!Slots : table[t].bytes \subseteq links[t].bytes
        <5> received \in Handles
          BY <1>0 DEF TrafficTyped
        <5> QED
          BY <1>0, <3>2, SlotTaken
      <4> HIDE DEF s, table
      <4>2. /\ table[s] \in SlotRecords /\ packets >= 1 /\ packets \in Nat
            /\ sender \in Devices \cup {Traffic!NoOne}
        BY <1>0, <1>6, <4>1 DEF LinksApart, PacketNew, Traffic!ReaderAccounts,
           TrafficTyped, Traffic!TypeOK
      <4>3. /\ slot \in SlotRecords /\ slot.used = table[s].used
            /\ slot.handle = table[s].handle /\ slot.address = table[s].address
            /\ slot.bytes = table[s].bytes \cup {packets}
            /\ slot.counted_for = table[s].counted_for \cup {table[s].address}
        BY <4>2 DEF SlotRecords
      <4> HIDE DEF slot
      <4>4. \A t \in Traffic!Slots \ {s} : slot.bytes \cap table[t].bytes = {}
        BY <1>0, <1>6, <4>1, <4>3 DEF LinksApart, PacketNew, Traffic!ReaderAccounts
      <4>5. /\ slot.bytes \subseteq 1 .. packets
            /\ slot.counted_for \subseteq {Traffic!NoOne, slot.address}
        BY <4>1, <4>2, <4>3 DEF LinksApart
      <4>6. LinksApart([table EXCEPT ![s] = slot], packets)
        BY <4>1, <4>3, <4>4, <4>5, SlotChanged
      <4> QED
        BY <2>1, <3>2, <4>6
    <3> QED
      BY <3>1, <3>2
  <2> HIDE DEF s, table, slot
  <2>3. /\ packets' = packets /\ reader = "account" /\ reader' = "check"
        /\ UNCHANGED <<main, capabilities, fd, monitor_fd, thread_started,
               stop_requested, capture_available, sampler, captured, connection,
               received, sender, owners>>
    BY <1>6 DEF Traffic!ReaderAccounts
  <2>4. StartOrdered' /\ PacketNew'
    BY <1>0, <2>3 DEF StartOrdered, PacketNew
  <2>5. TrafficTyped'
    BY <1>0, <1>a, <2>2, <2>3 DEF TrafficTyped, Traffic!TypeOK
  <2> QED
    BY <2>2, <2>3, <2>4, <2>5 DEF TrafficInv
<1>7. CASE Traffic!FetchConnections \/ Traffic!UnlockLinks
           \/ (\E d \in Devices : Traffic!update_traffic(d))
           \/ (\E h \in Handles : Traffic!ConnectionChanges(h))
  <2>1. UNCHANGED <<links, packets, main, capabilities, fd, monitor_fd,
                    thread_started, stop_requested, reader, received, sender>>
    BY <1>7 DEF Traffic!FetchConnections, Traffic!UnlockLinks,
        Traffic!update_traffic, Traffic!ConnectionChanges
  <2>2. /\ connection' \in [Handles -> Devices \cup {Traffic!NoOne}]
        /\ captured' \in [Handles -> Devices \cup {Traffic!NoOne}]
        /\ sampler' \in {"idle", "apply", "locked"}
        /\ sampler' # "idle" => main = "run"
        /\ owners' \in [Handles -> SUBSET Devices]
    BY <1>0, <1>7 DEF Traffic!FetchConnections, Traffic!UnlockLinks,
        Traffic!update_traffic, Traffic!ConnectionChanges, TrafficTyped,
        Traffic!TypeOK, StartOrdered
  <2>3. StartOrdered' /\ PacketNew'
    BY <1>0, <2>1, <2>2 DEF StartOrdered, PacketNew
  <2>4. TrafficTyped'
    BY <1>0, <2>1, <2>2 DEF TrafficTyped, Traffic!TypeOK
  <2> QED
    BY <1>b, <2>1, <2>3, <2>4 DEF TrafficInv
<1>8. CASE Traffic!LockLinks
  <2>1. UNCHANGED <<packets, main, capabilities, fd, monitor_fd, connection,
                    captured, thread_started, stop_requested, reader, received,
                    sender, owners>>
        /\ sampler = "apply" /\ sampler' = "locked"
    BY <1>8 DEF Traffic!LockLinks
  <2>2. \A s \in Traffic!Slots :
           /\ links'[s] \in SlotRecords /\ links'[s].used = links[s].used
           /\ links'[s].handle = links[s].handle
           /\ links'[s].address = links[s].address
           /\ links'[s].bytes = links[s].bytes
           /\ links'[s].counted_for = links[s].counted_for
    <3> TAKE s \in Traffic!Slots
    <3>1. links'[s] = [links[s] EXCEPT !.active = FALSE] /\ links[s] \in SlotRecords
      BY <1>0, <1>8 DEF LinksApart, Traffic!LockLinks
    <3> QED
      BY <3>1 DEF SlotRecords
  <2>3. links' \in [Traffic!Slots -> SlotRecords]
    BY <1>8, <2>2 DEF Traffic!LockLinks
  <2>4. LinksApart(links', packets')
    BY <1>0, <2>1, <2>2, <2>3 DEF LinksApart
  <2>5. StartOrdered' /\ PacketNew'
    BY <1>0, <2>1, <2>2 DEF StartOrdered, PacketNew
  <2>6. TrafficTyped'
    BY <1>0, <1>a, <2>1, <2>4 DEF TrafficTyped, Traffic!TypeOK
  <2> QED
    BY <2>4, <2>5, <2>6 DEF TrafficInv
<1>9. ASSUME NEW h \in Handles, Traffic!BindConnection(h) PROVE TrafficInv'
  <2> DEFINE s == Traffic!link_for_handle_locked(links, h)
             table == Traffic!Slotted(links, s, h)
             slot == Traffic!Bound(table[s], captured[h])
  <2>1. /\ links' = IF s = 0 THEN links ELSE [table EXCEPT ![s] = slot]
        /\ captured' = [captured EXCEPT ![h] = Traffic!NoOne]
        /\ UNCHANGED <<packets, main, capabilities, fd, monitor_fd, connection,
                    sampler, thread_started, stop_requested, reader, received,
                    sender, owners>>
    BY <1>9 DEF Traffic!BindConnection
  <2>2. LinksApart(links', packets) /\ \A t \in Traffic!Slots :
                                           links'[t].bytes \subseteq links[t].bytes
    <3>1. CASE s = 0
      BY <1>0, <2>1, <3>1
    <3>2. CASE s # 0
      <4>1. /\ s \in Traffic!Slots /\ LinksApart(table, packets) /\ table[s].used
            /\ \A t \in Traffic!Slots : table[t].bytes \subseteq links[t].bytes
        BY <1>0, <3>2, SlotTaken
      <4> HIDE DEF s, table
      <4>2. /\ table[s] \in SlotRecords
            /\ table[s].counted_for \subseteq {Traffic!NoOne, table[s].address}
            /\ captured[h] \in Devices \cup {Traffic!NoOne}
            /\ table[s].bytes \subseteq 1 .. packets
        BY <1>0, <4>1 DEF LinksApart, TrafficTyped
      <4>3. /\ slot \in SlotRecords /\ slot.used = table[s].used
            /\ slot.handle = table[s].handle
            /\ slot.bytes \subseteq table[s].bytes
            /\ slot.counted_for \subseteq {Traffic!NoOne, slot.address}
        BY <4>2 DEF SlotRecords, Traffic!Bound
      <4> HIDE DEF slot
      <4>4. \A t \in Traffic!Slots \ {s} : slot.bytes \cap table[t].bytes = {}
        BY <4>1, <4>3 DEF LinksApart
      <4>5. LinksApart([table EXCEPT ![s] = slot], packets)
        BY <4>1, <4>2, <4>3, <4>4, SlotChanged
      <4>6. DOMAIN table = Traffic!Slots
        BY <4>1 DEF LinksApart
      <4> QED
        BY <2>1, <3>2, <4>1, <4>3, <4>5, <4>6
    <3> QED
      BY <3>1, <3>2
  <2> HIDE DEF s, table, slot
  <2>3. StartOrdered' /\ PacketNew'
    BY <1>0, <2>1, <2>2 DEF StartOrdered, PacketNew
  <2>4. TrafficTyped'
    BY <1>0, <1>a, <2>1, <2>2 DEF TrafficTyped, Traffic!TypeOK
  <2> QED
    BY <2>1, <2>2, <2>3, <2>4 DEF TrafficInv
<1> QED
    BY <1>1, <1>2, <1>3, <1>4, <1>5, <1>6, <1>7, <1>8, <1>9
       DEF Traffic!Next, Traffic!Reader

(* So does a slot stay with the devices that have had its handle.           *)
LEMMA OwnersStep ==
    TrafficInv /\ OwnersInv /\ [Traffic!Next]_trafficVars => OwnersInv'
<1> SUFFICES ASSUME TrafficInv, OwnersInv, [Traffic!Next]_trafficVars
             PROVE  OwnersInv'
    OBVIOUS
<1>0. /\ LinksApart(links, packets) /\ received \in Handles
      /\ connection \in [Handles -> Devices \cup {Traffic!NoOne}]
      /\ captured \in [Handles -> Devices \cup {Traffic!NoOne}]
      /\ owners \in [Handles -> SUBSET Devices]
      /\ LinksOwned(links, owners)
      /\ ListOwned(connection, owners) /\ ListOwned(captured, owners)
      /\ reader = "account" => sender \in owners[received]
    BY DEF TrafficInv, TrafficTyped, Traffic!TypeOK, OwnersInv
<1> USE DEF Traffic!startVars, Traffic!worldVars, Traffic!readerVars,
            Traffic!samplerVars
<1>1. CASE \/ UNCHANGED trafficVars
           \/ Traffic!OpenMonitor \/ Traffic!DropCapabilities
           \/ Traffic!PublishMonitor \/ Traffic!RequestStop \/ Traffic!ReaderChecks
           \/ Traffic!FetchConnections \/ Traffic!UnlockLinks
           \/ \E d \in Devices : Traffic!update_traffic(d)
  <2>1. /\ UNCHANGED <<links, owners, connection, received, sender>>
        /\ captured' \in {captured, connection}
        /\ reader' = "account" => reader = "account"
    BY <1>1 DEF trafficVars, Traffic!OpenMonitor, Traffic!DropCapabilities,
        Traffic!PublishMonitor, Traffic!RequestStop, Traffic!ReaderChecks,
        Traffic!FetchConnections, Traffic!UnlockLinks, Traffic!update_traffic
  <2> QED
    BY <1>0, <2>1 DEF OwnersInv, LinksOwned, ListOwned
<1>2. CASE Traffic!JoinReader
  <2>1. /\ UNCHANGED <<owners, connection, captured, received, sender, reader>>
        /\ \/ links' = links
           \/ links' = [s \in Traffic!Slots |-> Traffic!FreeSlot]
    BY <1>2 DEF Traffic!JoinReader
  <2>2. LinksOwned(links', owners)
    BY <1>0, <2>1 DEF LinksOwned, Traffic!FreeSlot
  <2> QED
    BY <1>0, <2>1, <2>2 DEF OwnersInv, LinksOwned, ListOwned
<1>3. CASE Traffic!ReaderReceives
  <2>1. /\ UNCHANGED <<links, owners, connection, captured>>
        /\ reader' = "account" => /\ received' \in Handles
                                  /\ connection[received'] # Traffic!NoOne
                                  /\ sender' = connection[received']
    BY <1>3 DEF Traffic!ReaderReceives
  <2>2. reader' = "account" => sender' \in owners[received']
    BY <1>0, <2>1 DEF ListOwned
  <2> QED
    BY <1>0, <2>1, <2>2 DEF OwnersInv, LinksOwned, ListOwned
<1>4. CASE Traffic!ReaderAccounts
  <2> DEFINE s == Traffic!link_for_handle_locked(links, received)
             table == Traffic!Slotted(links, s, received)
             slot == [table[s] EXCEPT !.bytes = @ \cup {packets},
                                      !.counted_for = @ \cup {table[s].address},
                                      !.senders = @ \cup {sender}]
  <2>1. /\ links' = IF s = 0 THEN links ELSE [table EXCEPT ![s] = slot]
        /\ reader = "account" /\ reader' = "check"
        /\ UNCHANGED <<owners, connection, captured, received, sender>>
    BY <1>4 DEF Traffic!ReaderAccounts, Traffic!account_packet
  <2>2. CASE s = 0
    BY <1>0, <2>1, <2>2 DEF OwnersInv, LinksOwned, ListOwned
  <2>3. CASE s # 0
    <3>1. /\ s \in Traffic!Slots /\ LinksApart(table, packets)
          /\ table[s].handle = received
      BY <1>0, <2>3, SlotTaken
    <3>2. table[s] \in SlotRecords
      BY <3>1 DEF LinksApart
    <3>3. /\ slot.handle = received /\ slot.address = table[s].address
          /\ slot.senders = table[s].senders \cup {sender}
      BY <3>1, <3>2 DEF SlotRecords
    <3>4. LinksOwned([table EXCEPT ![s] = slot], owners)
      <4>1. /\ slot.address \in owners[received] \cup {Traffic!NoOne,
                   Traffic!Slotted(links, s, received)[s].address}
            /\ slot.senders \subseteq owners[received] \cup
                   Traffic!Slotted(links, s, received)[s].senders
        BY <1>0, <2>1, <3>3
      <4> HIDE DEF slot
      <4> QED
        BY <1>0, <2>3, <3>3, <4>1, SlotOwned
    <3> HIDE DEF slot, table, s
    <3> QED
      BY <1>0, <2>1, <2>3, <3>4 DEF OwnersInv, LinksOwned, ListOwned
  <2> QED
    BY <2>2, <2>3
<1>5. CASE Traffic!LockLinks
  <2>1. /\ links' = [s \in Traffic!Slots |-> [links[s] EXCEPT !.active = FALSE]]
        /\ UNCHANGED <<owners, connection, captured, received, sender, reader>>
    BY <1>5 DEF Traffic!LockLinks
  <2>2. ASSUME NEW s \in Traffic!Slots
        PROVE  /\ links'[s].used = links[s].used
               /\ links'[s].handle = links[s].handle
               /\ links'[s].address = links[s].address
               /\ links'[s].senders = links[s].senders
    <3>1. links'[s] = [links[s] EXCEPT !.active = FALSE] /\ links[s] \in SlotRecords
      BY <1>0, <2>1 DEF LinksApart
    <3> QED
      BY <3>1 DEF SlotRecords
  <2> QED
    BY <1>0, <2>1, <2>2 DEF OwnersInv, LinksOwned, ListOwned
<1>6. ASSUME NEW h \in Handles, Traffic!BindConnection(h) PROVE OwnersInv'
  <2> DEFINE s == Traffic!link_for_handle_locked(links, h)
             table == Traffic!Slotted(links, s, h)
             slot == Traffic!Bound(table[s], captured[h])
  <2>1. /\ links' = IF s = 0 THEN links ELSE [table EXCEPT ![s] = slot]
        /\ captured' = [captured EXCEPT ![h] = Traffic!NoOne]
        /\ UNCHANGED <<owners, connection, received, sender, reader>>
    BY <1>6 DEF Traffic!BindConnection
  <2>2. ListOwned(captured', owners)
    BY <1>0, <2>1 DEF ListOwned
  <2>3. CASE s = 0
    BY <1>0, <2>1, <2>2, <2>3 DEF OwnersInv, LinksOwned, ListOwned
  <2>4. CASE s # 0
    <3>1. /\ s \in Traffic!Slots /\ LinksApart(table, packets)
          /\ table[s].handle = h
      BY <1>0, <2>4, SlotTaken
    <3>2. table[s] \in SlotRecords /\ captured[h] \in owners[h] \cup {Traffic!NoOne}
      BY <1>0, <3>1 DEF LinksApart, ListOwned
    <3>3. /\ slot.handle = h /\ slot.address = captured[h]
          /\ slot.senders \subseteq table[s].senders
      BY <3>1, <3>2 DEF SlotRecords, Traffic!Bound
    <3>4. LinksOwned([table EXCEPT ![s] = slot], owners)
      <4> HIDE DEF slot
      <4> QED
        BY <1>0, <2>4, <3>2, <3>3, SlotOwned
    <3> HIDE DEF slot, table, s
    <3> QED
      BY <1>0, <2>1, <2>2, <2>4, <3>4 DEF OwnersInv, LinksOwned, ListOwned
  <2> QED
    BY <2>3, <2>4
<1>7. ASSUME NEW h \in Handles, Traffic!ConnectionChanges(h) PROVE OwnersInv'
  <2>1. /\ UNCHANGED <<links, captured, received, sender, reader>>
        /\ \/ owners' = owners /\ connection' = [connection EXCEPT ![h] = Traffic!NoOne]
           \/ \E d \in Devices : /\ connection' = [connection EXCEPT ![h] = d]
                                 /\ owners' = [owners EXCEPT ![h] = @ \cup {d}]
    BY <1>7 DEF Traffic!ConnectionChanges
  <2>2. \A g \in Handles : owners[g] \subseteq owners'[g]
    BY <1>0, <2>1
  <2>3. ListOwned(connection', owners')
    BY <1>0, <2>1, <2>2 DEF ListOwned
  <2>4. LinksOwned(links', owners') /\ ListOwned(captured', owners')
    BY <1>0, <2>1, <2>2 DEF LinksOwned, ListOwned
  <2> QED
    BY <1>0, <2>1, <2>2, <2>3, <2>4 DEF OwnersInv, LinksOwned, ListOwned
<1> QED
    BY <1>1, <1>2, <1>3, <1>4, <1>5, <1>6, <1>7 DEF Traffic!Next, Traffic!Reader

(* The invariant is what the links promise.                                 *)
LEMMA TrafficKept ==
    TrafficInv /\ OwnersInv =>
        /\ Traffic!TypeOK /\ Traffic!CapabilitiesDropped
        /\ Traffic!DescriptorOwned /\ Traffic!LinksKeptApart
    BY DEF TrafficInv, TrafficTyped, StartOrdered, LinksApart, OwnersInv, LinksOwned,
           Traffic!CapabilitiesDropped, Traffic!DescriptorOwned,
           Traffic!LinksKeptApart

-----------------------------------------------------------------------------
(* Two GPUs, one of them Intel's, and two that NVML reports, one of which   *)
(* DRM has listed; and an NPU by itself, at irregular samples.              *)
Graphics == INSTANCE Accelerators WITH
    NvmlOrder <- <<[gpu |-> 2, name |-> 3], [gpu |-> 0, name |-> 4]>>,
    NpuPresent <- FALSE,
    Elapsed <- {1}, MaxTime <- MaxSamples,
    step <- stage_of_gpus, now <- clock, before <- clock_before,
    told <- gpus_told
Neural == INSTANCE Accelerators WITH
    Gpus <- {}, Intel <- {}, NvmlOrder <- <<>>, MaxGpus <- 0,
    NpuPresent <- TRUE, Elapsed <- {1, 2}, MaxTime <- 2 * MaxSamples,
    step <- stage_of_gpus, now <- clock, before <- clock_before,
    told <- gpus_told

ASSUME AcceleratorAssumption ==
    Graphics!AcceleratorsAssumption /\ Neural!AcceleratorsAssumption

(* GPUs, for any that DRM lists and any of them Intel's, and any number of  *)
(* samples, scans and changes of their drivers.                             *)

(* A list without repetition of the members of S.                           *)
ListOf(list, S) ==
    /\ list \in Seq(Nat) /\ Len(list) = Cardinality(S)
    /\ \A i \in 1 .. Len(list) : list[i] \in S
    /\ \A g \in S : \E i \in 1 .. Len(list) : list[i] = g
    /\ \A i, j \in 1 .. Len(list) : list[i] = list[j] => i = j

(* A greater member of a set has a greater rank.                            *)
LEMMA RankApart ==
    ASSUME NEW S \in SUBSET Nat, IsFiniteSet(S), NEW g \in S, NEW h \in S, g < h
    PROVE  Cardinality({n \in S : n <= g}) < Cardinality({n \in S : n <= h})
<1> DEFINE low == {n \in S : n <= g}
           high == {n \in S : n <= h}
<1>0. g \in Nat /\ h \in Nat /\ \A n \in S : n \in Nat
    OBVIOUS
<1>1. low \subseteq high /\ h \in high /\ h \notin low /\ high \subseteq S
  <2>1. \A n \in S : n <= g => n <= h
    BY <1>0
  <2>2. h <= h /\ ~(h <= g)
    BY <1>0
  <2> QED
    BY <2>1, <2>2
<1>2. IsFiniteSet(high) /\ IsFiniteSet(low)
    BY <1>1, FS_Subset
<1> HIDE DEF low, high
<1>3. Cardinality(low) <= Cardinality(high) /\ Cardinality(low) # Cardinality(high)
      /\ Cardinality(low) \in Nat /\ Cardinality(high) \in Nat
    BY <1>1, <1>2, FS_Subset, FS_CardinalityType
<1> QED
    BY <1>3 DEF low, high

(* A set in order is a list of its members.                                 *)
LEMMA InOrderLists ==
    ASSUME NEW S \in SUBSET Nat, IsFiniteSet(S)
    PROVE  ListOf(Graphics!InOrder(S), S)
<1> DEFINE n == Cardinality(S)
           Rank(g) == Graphics!Cardinality({h \in S : h <= g})
           At(i) == CHOOSE g \in S : Rank(g) = i
           list == Graphics!InOrder(S)
<1>0. \A T : Graphics!Cardinality(T) = Cardinality(T)
    BY DEF Graphics!Cardinality, Cardinality
<1>1. list = [i \in 1 .. n |-> At(i)]
  <2>1. list = [i \in 1 .. Graphics!Cardinality(S) |-> At(i)]
    BY DEF Graphics!InOrder
  <2> HIDE DEF At, list
  <2> QED
    BY <1>0, <2>1
<1>2. n \in Nat
    BY FS_CardinalityType
<1>3. ASSUME NEW i \in 1 .. n PROVE At(i) \in S /\ Rank(At(i)) = i
  <2>1. \E g \in S : Cardinality({h \in S : h <= g}) = i
    BY <1>3, Ranked
  <2>2. \E g \in S : Rank(g) = i
    BY <1>0, <2>1
  <2> QED
    BY <2>2
<1>4. ASSUME NEW g \in S PROVE Rank(g) \in 1 .. n
  <2>1. {h \in S : h <= g} \subseteq S /\ {h \in S : h <= g} # {}
    OBVIOUS
  <2>2. /\ IsFiniteSet({h \in S : h <= g})
        /\ Cardinality({h \in S : h <= g}) <= n
    BY <2>1, FS_Subset
  <2>3. Cardinality({h \in S : h <= g}) \in Nat /\ Cardinality({h \in S : h <= g}) # 0
    BY <2>1, <2>2, FS_CardinalityType, FS_EmptySet
  <2> QED
    BY <1>0, <1>2, <2>2, <2>3
<1>5. ASSUME NEW g \in S, NEW h \in S, Rank(g) = Rank(h) PROVE g = h
  <2>1. Rank(g) \in Nat /\ Rank(h) \in Nat
    BY <1>4
  <2>2. ~(g < h) /\ ~(h < g)
    BY <1>0, <1>5, <2>1, RankApart
  <2> QED
    BY <2>2
<1> HIDE DEF n, Rank, At
<1>6. \A g \in S : At(Rank(g)) = g
    BY <1>3, <1>4, <1>5
<1>7. list \in Seq(Nat) /\ Len(list) = n
  <2>1. \A i \in 1 .. n : At(i) \in Nat
    BY <1>3
  <2> QED
    BY <1>1, <1>2, <2>1
<1> HIDE DEF list
<1>8. \A i \in 1 .. n : list[i] = At(i)
    BY <1>1
<1> USE <1>7, <1>8, <1>3
<1>9. \A g \in S : \E i \in 1 .. n : list[i] = g
    BY <1>4, <1>6
<1>10. \A i, j \in 1 .. n : list[i] = list[j] => i = j
    OBVIOUS
<1> QED
    BY <1>9, <1>10 DEF ListOf, n, list

GpuReadings == [binding : Nat, at : Nat]
GpuStates == [initialized : BOOLEAN, previous : GpuReadings]
GpuCaches == [identity : Nat, files : BOOLEAN, backend : Nat]
IntelBackends ==
    [of : Gpus, binding : Nat, initialised : BOOLEAN, previous : GpuReadings,
     destroyed : {0, 1}]

(* The last sample in which GPUs were read.                                 *)
GpusRead == IF stage_of_gpus \in {"scan", "gpus"} THEN clock_before ELSE clock

(* There is no NPU in this study.                                           *)
GpusTyped ==
    /\ Graphics!TypeOK
    /\ binds \in Nat /\ clock \in Nat /\ clock_before \in Nat
    /\ npu \in [initialised : BOOLEAN, base : Nat, elapsed : Int,
                last : {Graphics!NaN}]
    /\ npu_use = Graphics!NaN

(* The list has no GPU twice, and what was told is of the same ones.        *)
ListWhole(list, told_) ==
    /\ list \in Seq(Nat)
    /\ \A i, j \in 1 .. Len(list) : list[i] = list[j] => i = j
    /\ Graphics!Range(told_) = Graphics!Range(list)

(* Caches lie beside their GPU, which has a state.                          *)
CachesBeside(caches, list, kept) ==
    /\ caches \in Seq(GpuCaches)
    /\ DOMAIN kept \subseteq Graphics!Range(list)
    /\ \A g \in DOMAIN kept : kept[g] \in GpuStates
    /\ \A i \in 1 .. Len(caches) :
          /\ caches[i].identity = list[i] /\ list[i] \in DOMAIN kept
          /\ caches[i].files => list[i] \in Gpus

(* A backend is of the GPU whose cache has it, and is in one cache until it *)
(* is destroyed.                                                            *)
BackendsHeld(caches, backs) ==
    /\ backs \in Seq(IntelBackends)
    /\ \A i \in 1 .. Len(caches) : caches[i].backend # 0 =>
          /\ caches[i].backend \in 1 .. Len(backs)
          /\ backs[caches[i].backend].destroyed = 0
          /\ backs[caches[i].backend].of = caches[i].identity
          /\ caches[i].identity \in Intel
    /\ \A i, j \in 1 .. Len(caches) :
          caches[i].backend # 0 /\ caches[i].backend = caches[j].backend => i = j
    /\ \A b \in 1 .. Len(backs) : backs[b].destroyed = 0 =>
          \E i \in 1 .. Len(caches) : caches[i].backend = b

(* Baselines of engine files are of the last sample; those of a backend are *)
(* of its own binding and no newer.                                         *)
GpuBaselines(kept, backs, last) ==
    /\ \A g \in DOMAIN kept \ Intel :
          kept[g].initialized => kept[g].previous.at = last
    /\ \A b \in 1 .. Len(backs) : backs[b].initialised =>
          /\ backs[b].previous.at <= last
          /\ backs[b].previous.binding = backs[b].binding

(* What is shown between a reading of the GPUs and the next.                *)
UsesMeasured ==
    stage_of_gpus \in {"nvml", "devices", "npus"} =>
        \A g \in DOMAIN use : use[g].kind = "interval" =>
            /\ use[g].to.at = clock /\ use[g].from.at < clock
            /\ g \notin Intel => use[g].from.at = clock_before
            /\ g \in Intel => use[g].from.binding = use[g].to.binding

GraphicsInv ==
    /\ GpusTyped
    /\ ListWhole(gpus, gpus_told)
    /\ CachesBeside(gpu_telemetry, gpus, gpu_states)
    /\ stage_of_gpus # "stopped" => Len(gpu_telemetry) <= Len(gpus)
    /\ BackendsHeld(gpu_telemetry, backends)
    /\ GpuBaselines(gpu_states, backends, GpusRead)
    /\ stage_of_gpus \in {"scan", "gpus"} => clock_before < clock
    /\ stage_of_gpus = "initialise" => DOMAIN use = {}
    /\ UsesMeasured

(* What is assumed of the constants of the GPUs and NPUs.                   *)
LEMMA AcceleratorConstants ==
    /\ IsFiniteSet(Gpus) /\ Gpus \subseteq Nat /\ Intel \subseteq Gpus
    /\ MaxGpus \in Nat /\ Cardinality(Gpus) <= MaxGpus
    /\ MinBusySample \in Nat \ {0} /\ MaxBinds \in Nat \ {0} /\ MaxSamples \in Nat
    /\ 3 \in Nat \ Gpus /\ 4 \in Nat \ Gpus
<1>1. Graphics!AcceleratorsAssumption
    BY AcceleratorAssumption DEF AcceleratorAssumption
<1>2. /\ IsFiniteSet(Gpus) /\ Cardinality(Gpus) <= MaxGpus
    BY <1>1 DEF Graphics!AcceleratorsAssumption, Graphics!IsFiniteSet, IsFiniteSet,
        Graphics!Cardinality, Cardinality
<1>3. 3 \in Nat \ Gpus /\ 4 \in Nat \ Gpus
    BY <1>1 DEF Graphics!AcceleratorsAssumption
<1> QED
    BY <1>1, <1>2, <1>3 DEF Graphics!AcceleratorsAssumption

(* No GPU is known at the start.                                            *)
LEMMA GraphicsStart == Graphics!Init => GraphicsInv
<1> SUFFICES ASSUME Graphics!Init PROVE GraphicsInv
    OBVIOUS
<1> USE AcceleratorConstants DEF Graphics!Init
<1>1. GpusTyped
    BY DEF GpusTyped, Graphics!TypeOK, Graphics!NaN
<1>2. ListWhole(gpus, gpus_told) /\ CachesBeside(gpu_telemetry, gpus, gpu_states)
    BY DEF ListWhole, CachesBeside, Graphics!Range
<1>3. BackendsHeld(gpu_telemetry, backends)
    BY DEF BackendsHeld
<1>4. GpuBaselines(gpu_states, backends, GpusRead) /\ UsesMeasured
    BY DEF GpuBaselines, UsesMeasured
<1> QED
    BY <1>1, <1>2, <1>3, <1>4 DEF GraphicsInv

(* A function on 1 .. n is a sequence of length n.                          *)
LEMMA SequenceOf ==
    ASSUME NEW S, NEW n \in Nat, NEW f \in [1 .. n -> S]
    PROVE  f \in Seq(S) /\ Len(f) = n
    OBVIOUS

(* A list has as many members as it is long.                                *)
LEMMA ListCounted ==
    ASSUME NEW list \in Seq(Nat), NEW S, S = Graphics!Range(list)
    PROVE  /\ S \in SUBSET Nat /\ IsFiniteSet(S) /\ Cardinality(S) <= Len(list)
           /\ \A i \in 1 .. Len(list) : list[i] \in S
           /\ \A g \in S : \E i \in 1 .. Len(list) : list[i] = g
<1>1. /\ list \in [1 .. Len(list) -> S] /\ Len(list) \in Nat
      /\ S \in SUBSET Nat /\ DOMAIN list = 1 .. Len(list)
      /\ \A g \in S : \E i \in 1 .. Len(list) : list[i] = g
    BY DEF Graphics!Range
<1>2. list \in Surjection(1 .. Len(list), S)
    BY <1>1 DEF Surjection
<1>3. IsFiniteSet(1 .. Len(list)) /\ Cardinality(1 .. Len(list)) = Len(list)
  <2> DEFINE n == Len(list)
  <2>1. n \in Nat /\ n \in Int /\ 1 \in Int
    BY <1>1
  <2> HIDE DEF n
  <2>2. IsFiniteSet(1 .. n) /\ Cardinality(1 .. n) = IF 1 > n THEN 0 ELSE n - 1 + 1
    BY <2>1, FS_Interval
  <2>3. Cardinality(1 .. n) = n
    BY <2>1, <2>2
  <2> QED
    BY <2>2, <2>3 DEF n
<1> QED
    BY <1>1, <1>2, <1>3, FS_Surjection

(* refresh_hardware_topology: the caches follow their GPUs to where those   *)
(* are listed now, and a backend that none of them has is destroyed.        *)
LEMMA TopologyRefreshed ==
    ASSUME GraphicsInv, stage_of_gpus \in {"initialise", "scan"},
           Graphics!refresh_hardware_topology
    PROVE  /\ ListWhole(gpus', gpus_told') /\ Len(gpus') <= MaxGpus
           /\ CachesBeside(gpu_telemetry', gpus', gpu_states')
           /\ Len(gpu_telemetry') = Len(gpus')
           /\ BackendsHeld(gpu_telemetry', backends')
           /\ GpuBaselines(gpu_states', backends', GpusRead)
<1> DEFINE Found(ok) == IF ok THEN {g \in Gpus : binding[g] # 0}
                        ELSE Graphics!Range(gpus)
<1>1. PICK ok \in BOOLEAN :
          LET found == Graphics!InOrder(Found(ok))
          IN  /\ gpus' = found
              /\ gpus_told' = IF Graphics!hardware_membership_changed(found)
                              THEN found ELSE gpus_told
              /\ Graphics!reconcile_gpu_states(found)
              /\ Graphics!synchronise_telemetry_caches(found)
    BY DEF Graphics!refresh_hardware_topology, Graphics!enumerate_gpus
<1> DEFINE S == Found(ok)
           found == Graphics!InOrder(S)
           n0 == Len(backends)
<1>2. /\ ListWhole(gpus, gpus_told)
      /\ CachesBeside(gpu_telemetry, gpus, gpu_states)
      /\ Len(gpu_telemetry) <= Len(gpus)
      /\ BackendsHeld(gpu_telemetry, backends)
      /\ GpuBaselines(gpu_states, backends, GpusRead)
      /\ GpusTyped
    BY DEF GraphicsInv
<1>3. S \in SUBSET Nat /\ IsFiniteSet(S) /\ Cardinality(S) <= MaxGpus
  <2>1. CASE ok
    <3>1. S \subseteq Gpus
      BY <2>1
    <3> HIDE DEF S
    <3>2. IsFiniteSet(S) /\ Cardinality(S) <= Cardinality(Gpus)
      BY <3>1, AcceleratorConstants, FS_Subset
    <3>3. Cardinality(S) \in Nat /\ Cardinality(Gpus) \in Nat
      BY <3>2, AcceleratorConstants, FS_CardinalityType
    <3> QED
      BY <3>1, <3>2, <3>3, AcceleratorConstants
  <2>2. CASE ~ok
    <3>1. S = Graphics!Range(gpus)
      BY <2>2
    <3> HIDE DEF S
    <3>2. Len(gpus) <= MaxGpus /\ gpus \in Seq(Nat)
      BY <1>2 DEF GpusTyped, Graphics!TypeOK, ListWhole
    <3>3. S \in SUBSET Nat /\ IsFiniteSet(S) /\ Cardinality(S) <= Len(gpus)
      BY <3>1, <3>2, ListCounted
    <3> QED
      BY <3>2, <3>3, AcceleratorConstants, FS_CardinalityType
  <2> QED
    BY <2>1, <2>2
<1>4. ListOf(found, S)
    BY <1>3, InOrderLists
<1> HIDE DEF S, found
<1>5. /\ gpus' = found
      /\ gpus_told' = IF Graphics!hardware_membership_changed(found)
                      THEN found ELSE gpus_told
      /\ Graphics!reconcile_gpu_states(found)
      /\ Graphics!synchronise_telemetry_caches(found)
    BY <1>1 DEF S, found
<1>6. /\ found \in Seq(Nat) /\ Len(found) = Cardinality(S) /\ Len(found) \in Nat
      /\ DOMAIN found = 1 .. Len(found) /\ Graphics!Range(found) = S
      /\ \A i, j \in 1 .. Len(found) : found[i] = found[j] => i = j
    BY <1>4 DEF ListOf, Graphics!Range
<1>7. ListWhole(gpus', gpus_told') /\ Len(gpus') <= MaxGpus
    BY <1>2, <1>3, <1>5, <1>6 DEF ListWhole, Graphics!hardware_membership_changed
<1>8. /\ DOMAIN gpu_states' = S
      /\ \A g \in S : gpu_states'[g] = IF g \in DOMAIN gpu_states THEN gpu_states[g]
                                       ELSE Graphics!Fresh
    BY <1>5, <1>6 DEF Graphics!reconcile_gpu_states
<1>9. PICK made \in SUBSET {g \in S \cap Intel : Graphics!Reusable(g) = {}} :
        LET new == Graphics!InOrder(made)
            Made(g) == IF g \notin made THEN 0
                          ELSE Len(backends) + CHOOSE n \in DOMAIN new : new[n] = g
            gone == {c.backend : c \in Graphics!Destroyed(found)}
            Left(b) == IF b \in gone THEN [backends[b] EXCEPT !.destroyed = @ + 1]
                       ELSE backends[b]
        IN  /\ gpu_telemetry' = [i \in DOMAIN found |->
                  IF Graphics!Reusable(found[i]) # {}
                  THEN gpu_telemetry[CHOOSE j \in Graphics!Reusable(found[i]) : TRUE]
                  ELSE Graphics!build_gpu_telemetry_cache(found[i], Made(found[i]))]
            /\ backends' = [b \in 1 .. Len(backends) + Graphics!Cardinality(made) |->
                  IF b <= Len(backends) THEN Left(b)
                  ELSE Graphics!lsm_intel_gpu_create(new[b - Len(backends)])]
  <2>1. Graphics!synchronise_telemetry_caches(found) /\ Graphics!Range(found) = S
    BY <1>5, <1>6
  <2> QED
    BY <2>1, Zenon DEF Graphics!synchronise_telemetry_caches
<1> DEFINE new == Graphics!InOrder(made)
           Number(g) == CHOOSE n \in DOMAIN new : new[n] = g
           Made(g) == IF g \notin made THEN 0 ELSE n0 + Number(g)
           gone == {c.backend : c \in Graphics!Destroyed(found)}
           Old(g) == CHOOSE j \in Graphics!Reusable(g) : TRUE
           t2 == gpu_telemetry'
           b2 == backends'
           m == Cardinality(made)
<1>10. /\ t2 = [i \in 1 .. Len(found) |->
                  IF Graphics!Reusable(found[i]) # {} THEN gpu_telemetry[Old(found[i])]
                  ELSE Graphics!build_gpu_telemetry_cache(found[i], Made(found[i]))]
       /\ b2 = [b \in 1 .. n0 + m |->
                  IF b <= n0
                  THEN IF b \in gone THEN [backends[b] EXCEPT !.destroyed = @ + 1]
                       ELSE backends[b]
                  ELSE Graphics!lsm_intel_gpu_create(new[b - n0])]
  <2>1. Graphics!Cardinality(made) = m
    BY DEF Graphics!Cardinality, Cardinality
  <2> QED
    BY <1>6, <1>9, <2>1
<1>11. /\ \A i \in 1 .. Len(gpu_telemetry) :
              gpu_telemetry[i] \in GpuCaches /\ gpu_telemetry[i].identity = gpus[i]
       /\ DOMAIN gpu_telemetry = 1 .. Len(gpu_telemetry)
       /\ \A i, j \in 1 .. Len(gpu_telemetry) :
              gpu_telemetry[i].identity = gpu_telemetry[j].identity => i = j
       /\ n0 \in Nat /\ Len(gpu_telemetry) \in Nat
  <2>1. /\ gpu_telemetry \in Seq(GpuCaches) /\ gpus \in Seq(Nat)
        /\ \A i \in 1 .. Len(gpu_telemetry) : gpu_telemetry[i].identity = gpus[i]
        /\ \A i, j \in 1 .. Len(gpus) : gpus[i] = gpus[j] => i = j
        /\ Len(gpu_telemetry) <= Len(gpus) /\ backends \in Seq(IntelBackends)
    BY <1>2 DEF ListWhole, CachesBeside, BackendsHeld
  <2>2. /\ Len(gpu_telemetry) \in Nat /\ Len(gpus) \in Nat /\ n0 \in Nat
        /\ DOMAIN gpu_telemetry = 1 .. Len(gpu_telemetry)
        /\ \A i \in 1 .. Len(gpu_telemetry) : gpu_telemetry[i] \in GpuCaches
    BY <2>1
  <2>3. \A i \in 1 .. Len(gpu_telemetry) : i \in 1 .. Len(gpus)
    BY <2>1, <2>2
  <2> QED
    BY <2>1, <2>2, <2>3
<1>12. ASSUME NEW g, NEW j \in Graphics!Reusable(g)
       PROVE  /\ j \in 1 .. Len(gpu_telemetry) /\ gpu_telemetry[j].identity = g
              /\ Old(g) = j /\ Graphics!Reusable(g) # {}
  <2>1. \A k \in Graphics!Reusable(g) :
           k \in 1 .. Len(gpu_telemetry) /\ gpu_telemetry[k].identity = g
    BY <1>11 DEF Graphics!Reusable, Graphics!Old
  <2>2. Old(g) \in Graphics!Reusable(g)
    BY <1>12
  <2> QED
    BY <1>11, <1>12, <2>1, <2>2
<1>13. /\ made \in SUBSET Nat /\ IsFiniteSet(made) /\ m \in Nat /\ made \subseteq Intel
       /\ made \subseteq S /\ \A g \in made : Graphics!Reusable(g) = {}
    BY <1>3, FS_Subset, FS_CardinalityType
<1>14. ListOf(new, made)
    BY <1>13, InOrderLists
<1>15. /\ \A g \in made : Number(g) \in 1 .. m /\ new[Number(g)] = g
       /\ \A k \in 1 .. m : new[k] \in made /\ Number(new[k]) = k
  <2>1. /\ DOMAIN new = 1 .. m
        /\ \A i \in 1 .. m : new[i] \in made
        /\ \A g \in made : \E i \in 1 .. m : new[i] = g
        /\ \A i, j \in 1 .. m : new[i] = new[j] => i = j
    BY <1>14 DEF ListOf
  <2> HIDE DEF new, m
  <2> QED
    BY <2>1
<1> HIDE DEF n0, new, Number, gone, Old, m
<1> DEFINE Kept(i) == Graphics!Reusable(found[i]) # {}
<1>16. ASSUME NEW i \in 1 .. Len(found), Kept(i)
       PROVE  /\ Old(found[i]) \in Graphics!Reusable(found[i])
              /\ Old(found[i]) \in 1 .. Len(gpu_telemetry)
              /\ t2[i] = gpu_telemetry[Old(found[i])]
              /\ t2[i].identity = found[i] /\ t2[i] \in GpuCaches
              /\ t2[i].files => found[i] \in Gpus
  <2>1. Old(found[i]) \in Graphics!Reusable(found[i])
    BY <1>16 DEF Old
  <2>2. t2[i] = gpu_telemetry[Old(found[i])]
    BY <1>10, <1>16
  <2>3. /\ Old(found[i]) \in 1 .. Len(gpu_telemetry)
        /\ gpu_telemetry[Old(found[i])].identity = found[i]
    BY <1>12, <2>1
  <2>4. \A k \in 1 .. Len(gpu_telemetry) :
           gpu_telemetry[k].files => gpu_telemetry[k].identity \in Gpus
    BY <1>2 DEF CachesBeside
  <2> QED
    BY <1>11, <2>1, <2>2, <2>3, <2>4
<1>17. ASSUME NEW i \in 1 .. Len(found), ~Kept(i)
       PROVE  /\ t2[i].identity = found[i] /\ t2[i] \in GpuCaches
              /\ t2[i].files => found[i] \in Gpus
              /\ t2[i].backend = IF found[i] \in made THEN n0 + Number(found[i])
                                 ELSE 0
  <2>1. t2[i] = Graphics!build_gpu_telemetry_cache(found[i], Made(found[i]))
    BY <1>10, <1>17
  <2>2. found[i] \in Nat /\ Made(found[i]) \in Nat
    BY <1>6, <1>11, <1>13, <1>15
  <2> DEFINE number == Made(found[i])
             there == found[i] \in Gpus /\ binding[found[i]] # 0
  <2>3. t2[i] = [identity |-> found[i], backend |-> number, files |-> there]
    BY <2>1 DEF Graphics!build_gpu_telemetry_cache
  <2>4. /\ there \in BOOLEAN /\ (there => found[i] \in Gpus) /\ number \in Nat
        /\ number = IF found[i] \in made THEN n0 + Number(found[i]) ELSE 0
    BY <2>2
  <2> HIDE DEF number, there
  <2> QED
    BY <2>2, <2>3, <2>4 DEF GpuCaches
<1>18. t2 \in Seq(GpuCaches) /\ Len(t2) = Len(found)
  <2>1. \A i \in 1 .. Len(found) : t2[i] \in GpuCaches
    BY <1>16, <1>17
  <2>2. t2 = [i \in 1 .. Len(found) |-> t2[i]]
    BY <1>10
  <2> HIDE DEF t2
  <2>3. t2 \in [1 .. Len(found) -> GpuCaches]
    BY <2>1, <2>2
  <2> QED
    BY <1>6, <2>3, SequenceOf
<1>19. CachesBeside(gpu_telemetry', gpus', gpu_states')
  <2>1. \A i \in 1 .. Len(found) : found[i] \in S
    BY <1>4 DEF ListOf
  <2>2. \A g \in S : gpu_states'[g] \in GpuStates
    <3>1. Graphics!Fresh \in GpuStates
      BY DEF Graphics!Fresh, Graphics!NoReading, GpuStates, GpuReadings
    <3>2. \A g \in DOMAIN gpu_states : gpu_states[g] \in GpuStates
      BY <1>2 DEF CachesBeside
    <3> QED
      BY <1>8, <3>1, <3>2
  <2> QED
    BY <1>5, <1>6, <1>8, <1>16, <1>17, <1>18, <2>1, <2>2 DEF CachesBeside
<1>20. ASSUME NEW b
       PROVE  b \in gone <=> \E k \in 1 .. Len(gpu_telemetry) :
                  /\ gpu_telemetry[k].backend = b
                  /\ \A g \in S : k \notin Graphics!Reusable(g)
    BY <1>6, <1>11 DEF gone, Graphics!Destroyed
<1>21. ASSUME NEW b \in 1 .. n0
       PROVE  /\ backends[b] \in IntelBackends /\ b2[b] \in IntelBackends
              /\ b2[b].of = backends[b].of
              /\ b2[b].initialised = backends[b].initialised
              /\ b2[b].previous = backends[b].previous
              /\ b2[b].binding = backends[b].binding
              /\ b2[b].destroyed = IF b \in gone THEN 1 ELSE backends[b].destroyed
  <2>1. backends[b] \in IntelBackends
    BY <1>2, <1>11 DEF BackendsHeld, n0
  <2>2. b \in gone => backends[b].destroyed = 0
    BY <1>2, <1>20, <1>11 DEF BackendsHeld
  <2>3. b2[b] = IF b \in gone THEN [backends[b] EXCEPT !.destroyed = @ + 1]
                ELSE backends[b]
    BY <1>10, <1>11, <1>13
  <2> QED
    BY <2>1, <2>2, <2>3 DEF IntelBackends
<1>22. ASSUME NEW k \in 1 .. m
       PROVE  /\ b2[n0 + k] \in IntelBackends /\ b2[n0 + k].of = new[k]
              /\ ~b2[n0 + k].initialised /\ b2[n0 + k].destroyed = 0
  <2>1. b2[n0 + k] = Graphics!lsm_intel_gpu_create(new[k])
    <3>1. n0 + k \in 1 .. n0 + m /\ ~(n0 + k <= n0) /\ (n0 + k) - n0 = k
      BY <1>11, <1>13
    <3> QED
      BY <1>10, <3>1
  <2>2. new[k] \in Gpus /\ binding[new[k]] \in Nat
    <3>1. new[k] \in Gpus
      BY <1>13, <1>15, AcceleratorConstants
    <3>2. binding \in [Gpus -> 0 .. MaxBinds]
      BY <1>2 DEF GpusTyped, Graphics!TypeOK
    <3>3. binding[new[k]] \in 0 .. MaxBinds
      BY <3>1, <3>2
    <3> QED
      BY <3>1, <3>3
  <2> QED
    BY <2>1, <2>2 DEF Graphics!lsm_intel_gpu_create, IntelBackends,
        Graphics!NoReading, GpuReadings
<1>23. ASSUME NEW b \in 1 .. n0 + m PROVE b \in 1 .. n0 \/ \E k \in 1 .. m : b = n0 + k
  <2>1. CASE b <= n0
    BY <1>11, <1>13, <2>1
  <2>2. CASE ~(b <= n0)
    <3>1. b - n0 \in 1 .. m /\ b = n0 + (b - n0)
      BY <1>11, <1>13, <2>2
    <3> QED
      BY <3>1
  <2> QED
    BY <2>1, <2>2
<1>24. b2 \in Seq(IntelBackends) /\ Len(b2) = n0 + m
  <2>1. \A b \in 1 .. n0 + m : b2[b] \in IntelBackends
    BY <1>21, <1>22, <1>23
  <2>2. n0 + m \in Nat
    BY <1>11, <1>13
  <2>3. b2 = [b \in 1 .. n0 + m |-> b2[b]]
    BY <1>10
  <2> HIDE DEF b2
  <2>4. b2 \in [1 .. n0 + m -> IntelBackends]
    BY <2>1, <2>3
  <2> QED
    BY <2>2, <2>4, SequenceOf
<1> HIDE DEF t2, b2
<1>25. GpuBaselines(gpu_states', backends', GpusRead)
  <2>1. ASSUME NEW g \in S \ Intel, gpu_states'[g].initialized
        PROVE  gpu_states'[g].previous.at = GpusRead
    BY <1>2, <1>8, <2>1 DEF GpuBaselines, Graphics!Fresh
  <2>2. ASSUME NEW b \in 1 .. n0 + m, b2[b].initialised
        PROVE  /\ b2[b].previous.at <= GpusRead
               /\ b2[b].previous.binding = b2[b].binding
    <3>1. b \in 1 .. n0
      BY <1>22, <1>23, <2>2
    <3>2. backends[b].initialised =>
             /\ backends[b].previous.at <= GpusRead
             /\ backends[b].previous.binding = backends[b].binding
      BY <1>2, <3>1 DEF GpuBaselines, n0
    <3> QED
      BY <1>21, <2>2, <3>1, <3>2
  <2> QED
    BY <1>8, <1>24, <2>1, <2>2 DEF GpuBaselines, b2
<1> HIDE DEF Kept
<1>26. /\ \A i \in 1 .. Len(gpu_telemetry) : gpu_telemetry[i].backend # 0 =>
              /\ gpu_telemetry[i].backend \in 1 .. n0
              /\ backends[gpu_telemetry[i].backend].destroyed = 0
              /\ backends[gpu_telemetry[i].backend].of = gpu_telemetry[i].identity
              /\ gpu_telemetry[i].identity \in Intel
       /\ \A i, j \in 1 .. Len(gpu_telemetry) :
              gpu_telemetry[i].backend # 0 /\ gpu_telemetry[i].backend = gpu_telemetry[j].backend
                  => i = j
       /\ \A b \in 1 .. n0 : backends[b].destroyed = 0 =>
              \E i \in 1 .. Len(gpu_telemetry) : gpu_telemetry[i].backend = b
    BY <1>2 DEF BackendsHeld, n0
<1>27. ASSUME NEW i \in 1 .. Len(found), Kept(i), t2[i].backend # 0
       PROVE  /\ t2[i].backend \in 1 .. n0 /\ t2[i].backend \notin gone
              /\ t2[i].identity \in Intel
              /\ backends[t2[i].backend].destroyed = 0
              /\ backends[t2[i].backend].of = t2[i].identity
  <2> DEFINE j == Old(found[i])
  <2>1. /\ j \in Graphics!Reusable(found[i]) /\ j \in 1 .. Len(gpu_telemetry)
        /\ t2[i] = gpu_telemetry[j] /\ found[i] \in S
    BY <1>4, <1>16, <1>27 DEF ListOf
  <2>2. t2[i].backend \notin gone
    BY <1>20, <1>26, <1>27, <2>1
  <2> QED
    BY <1>26, <1>27, <2>1, <2>2
<1>28. ASSUME NEW i \in 1 .. Len(found), ~Kept(i), t2[i].backend # 0
       PROVE  /\ found[i] \in made /\ Number(found[i]) \in 1 .. m
              /\ t2[i].backend = n0 + Number(found[i]) /\ t2[i].identity = found[i]
              /\ new[Number(found[i])] = found[i] /\ t2[i].identity \in Intel
    BY <1>13, <1>15, <1>17, <1>28
<1>29. ASSUME NEW i \in 1 .. Len(found), t2[i].backend # 0
       PROVE  /\ t2[i].backend \in 1 .. n0 + m /\ b2[t2[i].backend].destroyed = 0
              /\ b2[t2[i].backend].of = t2[i].identity /\ t2[i].identity \in Intel
  <2>1. CASE Kept(i)
    <3> DEFINE b == t2[i].backend
    <3>1. /\ b \in 1 .. n0 /\ b \notin gone /\ t2[i].identity \in Intel
          /\ backends[b].destroyed = 0 /\ backends[b].of = t2[i].identity
      BY <1>27, <1>29, <2>1
    <3> HIDE DEF b
    <3>2. b \in 1 .. n0 + m /\ b2[b].destroyed = 0 /\ b2[b].of = backends[b].of
      BY <1>11, <1>13, <1>21, <3>1
    <3> QED
      BY <3>1, <3>2 DEF b
  <2>2. CASE ~Kept(i)
    BY <1>11, <1>13, <1>22, <1>28, <1>29, <2>2, SMTT(20)
  <2> QED
    BY <2>1, <2>2
<1>30. ASSUME NEW i \in 1 .. Len(found), NEW j \in 1 .. Len(found),
              t2[i].backend # 0, t2[i].backend = t2[j].backend
       PROVE  i = j
  <2>1. CASE Kept(i) /\ Kept(j)
    <3>1. Old(found[i]) = Old(found[j])
      <4>1. /\ Old(found[i]) \in 1 .. Len(gpu_telemetry)
            /\ Old(found[j]) \in 1 .. Len(gpu_telemetry)
            /\ t2[i] = gpu_telemetry[Old(found[i])]
            /\ t2[j] = gpu_telemetry[Old(found[j])]
        BY <1>16, <2>1
      <4> QED
        BY <1>26, <1>30, <4>1
    <3>2. found[i] = found[j]
      BY <1>16, <2>1, <3>1
    <3> QED
      BY <1>6, <3>2
  <2>2. CASE ~Kept(i) /\ ~Kept(j)
    <3>1. Number(found[i]) = Number(found[j])
      BY <1>11, <1>28, <1>30, <2>2
    <3>2. found[i] = found[j]
      BY <1>28, <1>30, <2>2, <3>1
    <3> QED
      BY <1>6, <3>2
  <2>3. CASE Kept(i) /\ ~Kept(j)
    <3>1. t2[i].backend \in 1 .. n0 /\ t2[i].backend # 0
      BY <1>27, <1>30, <2>3
    <3>2. Number(found[j]) \in 1 .. m /\ t2[j].backend = n0 + Number(found[j])
      BY <1>28, <1>30, <2>3
    <3> QED
      BY <1>11, <1>13, <1>30, <3>1, <3>2
  <2>4. CASE ~Kept(i) /\ Kept(j)
    <3>1. t2[j].backend \in 1 .. n0 /\ t2[j].backend # 0
      BY <1>27, <1>30, <2>4
    <3>2. Number(found[i]) \in 1 .. m /\ t2[i].backend = n0 + Number(found[i])
      BY <1>28, <1>30, <2>4
    <3> QED
      BY <1>11, <1>13, <1>30, <3>1, <3>2
  <2> QED
    BY <2>1, <2>2, <2>3, <2>4
<1>31. ASSUME NEW b \in 1 .. n0 + m, b2[b].destroyed = 0
       PROVE  \E i \in 1 .. Len(found) : t2[i].backend = b
  <2>1. CASE b \in 1 .. n0
    <3>1. b \notin gone /\ backends[b].destroyed = 0
      BY <1>21, <1>31, <2>1
    <3>2. PICK k \in 1 .. Len(gpu_telemetry) : gpu_telemetry[k].backend = b
      BY <1>26, <2>1, <3>1
    <3>3. PICK g \in S : k \in Graphics!Reusable(g)
      BY <1>20, <3>1, <3>2
    <3>4. PICK i \in 1 .. Len(found) : found[i] = g
      BY <1>4 DEF ListOf
    <3>5. Old(found[i]) = k /\ Kept(i)
      BY <1>12, <3>3, <3>4 DEF Kept
    <3> QED
      BY <1>16, <3>2, <3>5
  <2>2. ASSUME NEW k \in 1 .. m, b = n0 + k
        PROVE  \E i \in 1 .. Len(found) : t2[i].backend = b
    <3>1. new[k] \in made /\ Number(new[k]) = k /\ new[k] \in S
      BY <1>13, <1>15
    <3>2. PICK i \in 1 .. Len(found) : found[i] = new[k]
      BY <1>4, <3>1 DEF ListOf
    <3>3. ~Kept(i)
      BY <1>13, <3>1, <3>2 DEF Kept
    <3> QED
      BY <1>17, <2>2, <3>1, <3>2, <3>3
  <2> QED
    BY <1>23, <2>1, <2>2
<1>32. BackendsHeld(gpu_telemetry', backends')
  <2>1. BackendsHeld(t2, b2)
    BY <1>18, <1>24, <1>29, <1>30, <1>31 DEF BackendsHeld
  <2> QED
    BY <2>1 DEF t2, b2
<1> QED
    BY <1>5, <1>7, <1>18, <1>19, <1>25, <1>32 DEF t2

(* What is found for the GPU at a position.                                 *)
LEMMA TelemetryFound ==
    ASSUME GraphicsInv, stage_of_gpus # "stopped", NEW i \in 1 .. Len(gpus), NEW t,
           t = Graphics!Telemetry(i)
    PROVE  /\ t.backend # 0 => /\ t.backend \in 1 .. Len(backends)
                               /\ backends[t.backend].of = gpus[i]
                               /\ gpus[i] \in Intel
           /\ t.files => t.identity = gpus[i] /\ gpus[i] \in Gpus
<1>1. /\ gpu_telemetry \in Seq(GpuCaches)
      /\ \A k \in 1 .. Len(gpu_telemetry) :
            /\ gpu_telemetry[k].identity = gpus[k]
            /\ gpu_telemetry[k].files => gpus[k] \in Gpus
            /\ gpu_telemetry[k].backend # 0 =>
                  /\ gpu_telemetry[k].backend \in 1 .. Len(backends)
                  /\ backends[gpu_telemetry[k].backend].of = gpu_telemetry[k].identity
                  /\ gpu_telemetry[k].identity \in Intel
    BY DEF GraphicsInv, CachesBeside, BackendsHeld
<1>2. CASE i \in DOMAIN gpu_telemetry
  <2>1. t = gpu_telemetry[i] /\ i \in 1 .. Len(gpu_telemetry)
    BY <1>1, <1>2 DEF Graphics!Telemetry
  <2> QED
    BY <1>1, <2>1
<1>3. CASE i \notin DOMAIN gpu_telemetry
  <2>1. t.backend = 0 /\ t.files = FALSE
    BY <1>3 DEF Graphics!Telemetry, Graphics!NoTelemetry
  <2> QED
    BY <2>1
<1> QED
    BY <1>2, <1>3

(* update_gpus: what is shown was measured, and the baselines are of now.   *)
LEMMA GpusSampled ==
    ASSUME GraphicsInv, Graphics!update_gpus
    PROVE  /\ CachesBeside(gpu_telemetry, gpus, gpu_states')
           /\ BackendsHeld(gpu_telemetry, backends')
           /\ GpuBaselines(gpu_states', backends', clock)
           /\ \A g \in DOMAIN use' : use'[g].kind = "interval" =>
                 /\ use'[g].to.at = clock /\ use'[g].from.at < clock
                 /\ g \notin Intel => use'[g].from.at = clock_before
                 /\ g \in Intel => use'[g].from.binding = use'[g].to.binding
<1> DEFINE T(i) == Graphics!Telemetry(i)
           Delta(i, unread) == Graphics!counter_delta(T(i).backend, unread)
           Native(i, unread, others) ==
               /\ T(i).backend # 0
               /\ Delta(i, unread) # Graphics!NaN \/ gpus[i] \in others
           Position(g) == CHOOSE i \in DOMAIN gpus : gpus[i] = g
<1>1. PICK unread \in SUBSET Gpus, others \in SUBSET Intel,
           rolled \in SUBSET (Gpus \ Intel) :
        /\ use' = [g \in Graphics!Range(gpus) |->
              IF Native(Position(g), unread, others) THEN Delta(Position(g), unread)
              ELSE Graphics!EngineUse(Position(g), unread, rolled)]
        /\ gpu_states' = [g \in DOMAIN gpu_states |->
              IF Native(Position(g), unread, others) THEN gpu_states[g]
              ELSE IF Graphics!read_gpu_engine_busy(Position(g), unread)
              THEN [initialized |-> TRUE,
                    previous |-> Graphics!Reading(T(Position(g)).identity)]
              ELSE Graphics!Unmeasured(gpu_states[g])]
        /\ backends' = [b \in DOMAIN backends |->
              IF /\ \E i \in DOMAIN gpus : T(i).backend = b
                 /\ Graphics!CounterReadable(b, unread)
              THEN [backends[b] EXCEPT !.initialised = TRUE,
                                       !.previous = Graphics!Reading(backends[b].of)]
              ELSE backends[b]]
    BY Zenon DEF Graphics!update_gpus
<1>2. stage_of_gpus = "gpus"
    BY DEF Graphics!update_gpus
<1>3. /\ GpusTyped /\ ListWhole(gpus, gpus_told)
      /\ CachesBeside(gpu_telemetry, gpus, gpu_states)
      /\ BackendsHeld(gpu_telemetry, backends)
      /\ GpuBaselines(gpu_states, backends, clock_before) /\ clock_before < clock
    BY <1>2 DEF GraphicsInv, GpusRead
<1>4. /\ gpus \in Seq(Nat) /\ DOMAIN gpus = 1 .. Len(gpus)
      /\ clock \in Nat /\ clock_before \in Nat
      /\ backends \in Seq(IntelBackends) /\ DOMAIN backends = 1 .. Len(backends)
      /\ binding \in [Gpus -> Nat]
  <2>1. binding \in [Gpus -> 0 .. MaxBinds] /\ 0 .. MaxBinds \subseteq Nat
    BY <1>3 DEF GpusTyped, Graphics!TypeOK
  <2> QED
    BY <1>3, <2>1 DEF GpusTyped, ListWhole, BackendsHeld
<1>5. \A g \in Gpus : /\ Graphics!Reading(g) \in GpuReadings
                      /\ Graphics!Reading(g).at = clock
                      /\ Graphics!Reading(g).binding = binding[g]
  <2>1. \A g \in Gpus : binding[g] \in Nat
    BY <1>4
  <2> QED
    BY <1>4, <2>1 DEF Graphics!Reading, GpuReadings
<1>6. ASSUME NEW g \in Graphics!Range(gpus)
      PROVE  Position(g) \in 1 .. Len(gpus) /\ gpus[Position(g)] = g
  <2>1. \E i \in DOMAIN gpus : gpus[i] = g
    BY <1>6 DEF Graphics!Range
  <2> QED
    BY <1>4, <2>1
<1>7. ASSUME NEW g \in Graphics!Range(gpus)
      PROVE  /\ T(Position(g)).backend # 0 =>
                   /\ T(Position(g)).backend \in 1 .. Len(backends)
                   /\ backends[T(Position(g)).backend].of = g /\ g \in Intel
             /\ T(Position(g)).files => T(Position(g)).identity = g /\ g \in Gpus
  <2> DEFINE i == Position(g)
             t == T(i)
  <2>1. i \in 1 .. Len(gpus) /\ gpus[i] = g /\ stage_of_gpus # "stopped"
    BY <1>2, <1>6
  <2>2. t = Graphics!Telemetry(i)
    OBVIOUS
  <2> HIDE DEF i, t
  <2>3. /\ t.backend # 0 => /\ t.backend \in 1 .. Len(backends)
                            /\ backends[t.backend].of = g /\ g \in Intel
        /\ t.files => t.identity = g /\ g \in Gpus
    BY <2>1, <2>2, TelemetryFound
  <2> QED
    BY <2>3 DEF i, t
<1> HIDE DEF T, Position
<1>8. ASSUME NEW b \in 1 .. Len(backends)
      PROVE  /\ backends[b] \in IntelBackends /\ backends'[b] \in IntelBackends
             /\ backends'[b].of = backends[b].of
             /\ backends'[b].destroyed = backends[b].destroyed
             /\ backends'[b].binding = backends[b].binding
             /\ backends'[b].initialised =>
                   /\ backends'[b].previous.at <= clock
                   /\ backends'[b].previous.binding = backends[b].binding
  <2> DEFINE r == Graphics!Reading(backends[b].of)
  <2>1. /\ backends[b] \in IntelBackends
        /\ backends[b].initialised =>
              /\ backends[b].previous.at <= clock_before
              /\ backends[b].previous.binding = backends[b].binding
    BY <1>3, <1>4 DEF GpuBaselines
  <2>2. /\ backends[b].of \in Gpus /\ r \in GpuReadings /\ r.at = clock
        /\ r.binding = binding[backends[b].of]
        /\ backends[b].initialised => backends[b].previous.at \in Nat
    BY <1>5, <2>1 DEF IntelBackends, GpuReadings
  <2>3. \/ backends'[b] = backends[b]
        \/ /\ backends'[b] = [backends[b] EXCEPT !.initialised = TRUE, !.previous = r]
           /\ Graphics!CounterReadable(b, unread)
    BY <1>1, <1>4
  <2>4. Graphics!CounterReadable(b, unread) => backends[b].binding = binding[backends[b].of]
    BY DEF Graphics!CounterReadable
  <2> HIDE DEF r
  <2>5. CASE backends'[b] = backends[b]
    BY <1>3, <1>4, <2>1, <2>2, <2>5
  <2>6. CASE /\ backends'[b] = [backends[b] EXCEPT !.initialised = TRUE, !.previous = r]
             /\ Graphics!CounterReadable(b, unread)
    <3>1. /\ backends'[b] \in IntelBackends
          /\ backends'[b].of = backends[b].of
          /\ backends'[b].destroyed = backends[b].destroyed
          /\ backends'[b].binding = backends[b].binding
          /\ backends'[b].previous = r
      BY <2>1, <2>2, <2>6 DEF IntelBackends
    <3> QED
      BY <1>4, <2>1, <2>2, <2>4, <2>6, <3>1
  <2> QED
    BY <2>3, <2>5, <2>6
<1>9. backends' \in Seq(IntelBackends) /\ Len(backends') = Len(backends)
  <2> DEFINE New(b) == IF /\ \E i \in DOMAIN gpus : T(i).backend = b
                          /\ Graphics!CounterReadable(b, unread)
                       THEN [backends[b] EXCEPT !.initialised = TRUE,
                                !.previous = Graphics!Reading(backends[b].of)]
                       ELSE backends[b]
  <2>0. backends' = [b \in DOMAIN backends |-> New(b)]
    BY <1>1
  <2> HIDE DEF New
  <2>1. /\ backends' = [b \in 1 .. Len(backends) |-> backends'[b]]
        /\ Len(backends) \in Nat
    BY <1>4, <2>0
  <2>2. backends' \in [1 .. Len(backends) -> IntelBackends]
    BY <1>8, <2>1
  <2> QED
    BY <2>1, <2>2, SequenceOf
<1>10. BackendsHeld(gpu_telemetry, backends')
    BY <1>3, <1>8, <1>9 DEF BackendsHeld
<1>11. ASSUME NEW g \in DOMAIN gpu_states
       PROVE  /\ gpu_states'[g] \in GpuStates
              /\ g \notin Intel /\ gpu_states'[g].initialized =>
                    gpu_states'[g].previous.at = clock
  <2> DEFINE i == Position(g)
             r == Graphics!Reading(T(i).identity)
  <2>1. g \in Graphics!Range(gpus) /\ gpu_states[g] \in GpuStates
    BY <1>3 DEF CachesBeside
  <2>2. gpu_states'[g] =
           IF Native(i, unread, others) THEN gpu_states[g]
           ELSE IF Graphics!read_gpu_engine_busy(i, unread)
           THEN [initialized |-> TRUE, previous |-> r]
           ELSE Graphics!Unmeasured(gpu_states[g])
    BY <1>1
  <2>3. Native(i, unread, others) => g \in Intel
    BY <1>7, <2>1
  <2>4. Graphics!read_gpu_engine_busy(i, unread) => r \in GpuReadings /\ r.at = clock
    <3>1. Graphics!read_gpu_engine_busy(i, unread) => T(i).files
      BY DEF Graphics!read_gpu_engine_busy, T
    <3> QED
      BY <1>5, <1>7, <2>1, <3>1
  <2>5. /\ Graphics!Unmeasured(gpu_states[g]) \in GpuStates
        /\ ~Graphics!Unmeasured(gpu_states[g]).initialized
    BY DEF Graphics!Unmeasured, Graphics!Fresh, Graphics!NoReading, GpuStates, GpuReadings
  <2> HIDE DEF i, r, Native
  <2>6. Graphics!read_gpu_engine_busy(i, unread) =>
           [initialized |-> TRUE, previous |-> r] \in GpuStates
    BY <2>4 DEF GpuStates
  <2> QED
    BY <2>1, <2>2, <2>3, <2>4, <2>5, <2>6
<1>12. CachesBeside(gpu_telemetry, gpus, gpu_states')
  <2>1. DOMAIN gpu_states' = DOMAIN gpu_states
    BY <1>1
  <2> QED
    BY <1>3, <1>11, <2>1 DEF CachesBeside
<1>13. GpuBaselines(gpu_states', backends', clock)
  <2>1. DOMAIN gpu_states' = DOMAIN gpu_states
    BY <1>1
  <2> QED
    BY <1>8, <1>9, <1>11, <2>1 DEF GpuBaselines
<1>14. ASSUME NEW g \in Graphics!Range(gpus), use'[g].kind = "interval"
       PROVE  /\ use'[g].to.at = clock /\ use'[g].from.at < clock
              /\ g \notin Intel => use'[g].from.at = clock_before
              /\ g \in Intel => use'[g].from.binding = use'[g].to.binding
  <2> DEFINE i == Position(g)
             b == T(i).backend
             shown == use'[g]
  <2>1. shown = IF Native(i, unread, others) THEN Delta(i, unread)
                ELSE Graphics!EngineUse(i, unread, rolled)
    BY <1>1, <1>14
  <2>2. Graphics!NaN.kind # "interval"
    BY DEF Graphics!NaN
  <2>3. CASE Native(i, unread, others)
    <3>1. /\ b # 0 /\ b \in 1 .. Len(backends) /\ backends[b].of = g /\ g \in Intel
          /\ shown = Graphics!counter_delta(b, unread)
      BY <1>7, <1>14, <2>1, <2>3
    <3> HIDE DEF b, shown
    <3>2. /\ Graphics!CounterReadable(b, unread) /\ backends[b].initialised
          /\ shown = Graphics!Interval(backends[b].previous, Graphics!Reading(g))
      BY <1>14, <2>2, <3>1 DEF Graphics!counter_delta, shown
    <3>3. shown.from = backends[b].previous /\ shown.to = Graphics!Reading(g)
      BY <3>2 DEF Graphics!Interval
    <3>4. /\ backends[b] \in IntelBackends
          /\ backends[b].previous.at <= clock_before
          /\ backends[b].previous.binding = backends[b].binding
      BY <1>3, <1>4, <3>1, <3>2 DEF GpuBaselines
    <3>5. backends[b].binding = binding[g]
      BY <3>1, <3>2 DEF Graphics!CounterReadable
    <3>6. Graphics!Reading(g).at = clock /\ Graphics!Reading(g).binding = binding[g]
      BY <1>5, <3>1, AcceleratorConstants
    <3>7. backends[b].previous.at \in Nat
      BY <3>4 DEF IntelBackends, GpuReadings
    <3>8. backends[b].previous.at < clock
      BY <1>3, <1>4, <3>4, <3>7
    <3> QED
      BY <3>1, <3>3, <3>4, <3>5, <3>6, <3>8 DEF shown
  <2>4. CASE ~Native(i, unread, others)
    <3> DEFINE r == Graphics!Reading(T(i).identity)
    <3>1. shown = Graphics!EngineUse(i, unread, rolled) /\ gpus[i] = g
      BY <1>6, <1>14, <2>1, <2>4
    <3> HIDE DEF i, Native, shown
    <3>2. /\ g \in DOMAIN gpu_states /\ Graphics!read_gpu_engine_busy(i, unread)
          /\ gpu_states[g].initialized
          /\ shown = Graphics!Interval(gpu_states[g].previous, r)
      BY <1>14, <2>2, <3>1 DEF Graphics!EngineUse, T, shown
    <3>3. shown.from = gpu_states[g].previous /\ shown.to = r
      BY <3>2 DEF Graphics!Interval
    <3>4. T(i).files /\ g \notin Intel
      BY <3>1, <3>2 DEF Graphics!read_gpu_engine_busy, T
    <3>5. r.at = clock
      BY <1>5, <1>7, <1>14, <3>4 DEF i
    <3>6. gpu_states[g].previous.at = clock_before
      BY <1>3, <3>2, <3>4 DEF GpuBaselines
    <3> QED
      BY <1>3, <3>3, <3>4, <3>5, <3>6 DEF shown
  <2> QED
    BY <2>3, <2>4
<1>15. DOMAIN use' = Graphics!Range(gpus)
    BY <1>1
<1> QED
    BY <1>10, <1>12, <1>13, <1>14, <1>15

(* AskDevice: a GPU that NVML names is listed once, behind those listed.    *)
LEMMA DeviceAsked ==
    ASSUME GraphicsInv, Graphics!AskDevice
    PROVE  /\ ListWhole(gpus', gpus_told') /\ Len(gpus') <= MaxGpus
           /\ Len(gpus) <= Len(gpus')
           /\ \A i \in 1 .. Len(gpus) : gpus'[i] = gpus[i]
           /\ Graphics!Range(gpus) \subseteq Graphics!Range(gpus')
           /\ \A g \in DOMAIN use' : use'[g].kind = "interval" =>
                 g \in DOMAIN use /\ use'[g] = use[g]
<1> DEFINE Reported == <<[gpu |-> 2, name |-> 3], [gpu |-> 0, name |-> 4]>>
           asked == Reported[nvml_index + 1]
           g == Graphics!gpu_for_nvml_device(asked)
           shown == [h \in DOMAIN use \cup {g} |->
                        IF h \in DOMAIN use THEN use[h] ELSE Graphics!NaN]
<1>1. \/ gpus' = gpus /\ gpus_told' = gpus_told /\ use' = use
      \/ /\ Graphics!append_nvml_gpu(g)
         /\ use' \in IF g \in Graphics!Range(gpus')
                     THEN {shown, [shown EXCEPT ![g] = Graphics!FromNvml]} ELSE {use}
    BY Zenon DEF Graphics!AskDevice
<1>2. /\ gpus \in Seq(Nat) /\ Len(gpus) <= MaxGpus
      /\ \A i, j \in 1 .. Len(gpus) : gpus[i] = gpus[j] => i = j
      /\ Graphics!Range(gpus_told) = Graphics!Range(gpus)
    BY DEF GraphicsInv, GpusTyped, Graphics!TypeOK, ListWhole
<1>3. g \in Nat
  <2>1. nvml_index + 1 \in 1 .. 2
    <3>1. nvml_index \in 0 .. Len(Reported) /\ nvml_index < Len(Reported)
      BY DEF GraphicsInv, GpusTyped, Graphics!TypeOK, Graphics!AskDevice
    <3> QED
      BY <3>1
  <2>2. asked = Reported[1] \/ asked = Reported[2]
    BY <2>1
  <2>3. asked.gpu \in Nat /\ asked.name \in Nat
    BY <2>2
  <2> HIDE DEF asked
  <2> QED
    BY <2>3 DEF Graphics!gpu_for_nvml_device
<1> HIDE DEF g
<1>4. CASE gpus' = gpus /\ gpus_told' = gpus_told /\ use' = use
    BY <1>2, <1>4 DEF ListWhole
<1>5. CASE /\ Graphics!append_nvml_gpu(g)
           /\ use' \in IF g \in Graphics!Range(gpus')
                       THEN {shown, [shown EXCEPT ![g] = Graphics!FromNvml]} ELSE {use}
  <2>1. \/ gpus' = gpus /\ gpus_told' = gpus_told
        \/ /\ gpus' = Append(gpus, g) /\ gpus_told' = Append(gpus, g)
           /\ g \notin Graphics!Range(gpus) /\ Len(gpus) < MaxGpus
    BY <1>2, <1>5, AcceleratorConstants DEF Graphics!append_nvml_gpu
  <2>2. /\ ListWhole(gpus', gpus_told') /\ Len(gpus') <= MaxGpus
        /\ Len(gpus) <= Len(gpus')
        /\ \A i \in 1 .. Len(gpus) : gpus'[i] = gpus[i]
        /\ Graphics!Range(gpus) \subseteq Graphics!Range(gpus')
    <3>1. CASE gpus' = gpus /\ gpus_told' = gpus_told
      BY <1>2, <3>1 DEF ListWhole
    <3>2. CASE /\ gpus' = Append(gpus, g) /\ gpus_told' = Append(gpus, g)
               /\ g \notin Graphics!Range(gpus) /\ Len(gpus) < MaxGpus
      <4> DEFINE list == Append(gpus, g)
                 n == Len(gpus)
      <4>1. /\ list \in Seq(Nat) /\ Len(list) = n + 1 /\ n \in Nat
            /\ \A i \in 1 .. n : list[i] = gpus[i]
            /\ list[n + 1] = g
        BY <1>2, <1>3
      <4>2. \A i \in 1 .. n : gpus[i] # g
        BY <1>2, <3>2 DEF Graphics!Range
      <4>3. /\ DOMAIN list = 1 .. n + 1 /\ DOMAIN gpus = 1 .. n
        BY <1>2, <4>1
      <4>4. \A i, j \in 1 .. n : gpus[i] = gpus[j] => i = j
        BY <1>2
      <4> HIDE DEF list, n
      <4>5. \A i \in 1 .. n + 1 : i \in 1 .. n \/ i = n + 1
        BY <4>1
      <4>6. \A i, j \in 1 .. n + 1 : list[i] = list[j] => i = j
        BY <4>1, <4>2, <4>4, <4>5
      <4>7. \A i \in 1 .. n : i \in 1 .. n + 1
        BY <4>1
      <4>8. Graphics!Range(gpus) \subseteq Graphics!Range(list)
        BY <4>1, <4>3, <4>7 DEF Graphics!Range
      <4>9. n + 1 <= MaxGpus /\ n <= n + 1
        BY <3>2, <4>1, AcceleratorConstants DEF n
      <4> QED
        BY <3>2, <4>1, <4>6, <4>8, <4>9 DEF ListWhole, list, n
    <3> QED
      BY <2>1, <3>1, <3>2
  <2>3. ASSUME NEW h \in DOMAIN use', use'[h].kind = "interval"
        PROVE  h \in DOMAIN use /\ use'[h] = use[h]
    <3>1. Graphics!NaN.kind # "interval" /\ Graphics!FromNvml.kind # "interval"
      BY DEF Graphics!NaN, Graphics!FromNvml
    <3>2. /\ DOMAIN shown = DOMAIN use \cup {g}
          /\ \A k \in DOMAIN use \cup {g} :
                shown[k] = IF k \in DOMAIN use THEN use[k] ELSE Graphics!NaN
      OBVIOUS
    <3>3. \/ use' = use \/ use' = shown
          \/ use' = [shown EXCEPT ![g] = Graphics!FromNvml]
      BY <1>5
    <3> HIDE DEF shown
    <3> QED
      BY <2>3, <3>1, <3>2, <3>3
  <2> QED
    BY <2>2, <2>3
<1> QED
    BY <1>1, <1>4, <1>5

(* lsm_hardware_shutdown destroys the backends that caches have.            *)
LEMMA HardwareShutDown ==
    ASSUME GraphicsInv, Graphics!lsm_hardware_shutdown
    PROVE  /\ CachesBeside(gpu_telemetry', gpus, gpu_states)
           /\ BackendsHeld(gpu_telemetry', backends')
           /\ GpuBaselines(gpu_states, backends', clock)
<1> DEFINE Held(b) == \E i \in DOMAIN gpu_telemetry : gpu_telemetry[i].backend = b
           New(b) == IF Held(b) THEN [backends[b] EXCEPT !.destroyed = @ + 1]
                     ELSE backends[b]
<1>1. /\ stage_of_gpus = "idle" /\ gpu_telemetry' = <<>>
      /\ backends' = [b \in DOMAIN backends |-> New(b)]
    BY DEF Graphics!lsm_hardware_shutdown
<1>2. /\ CachesBeside(gpu_telemetry, gpus, gpu_states)
      /\ BackendsHeld(gpu_telemetry, backends)
      /\ GpuBaselines(gpu_states, backends, clock)
    BY <1>1 DEF GraphicsInv, GpusRead
<1>3. /\ backends \in Seq(IntelBackends) /\ DOMAIN backends = 1 .. Len(backends)
      /\ gpu_telemetry \in Seq(GpuCaches)
      /\ DOMAIN gpu_telemetry = 1 .. Len(gpu_telemetry)
    BY <1>2 DEF BackendsHeld, CachesBeside
<1>4. ASSUME NEW b \in 1 .. Len(backends)
      PROVE  /\ New(b) \in IntelBackends /\ New(b).destroyed = 1
             /\ New(b).initialised = backends[b].initialised
             /\ New(b).previous = backends[b].previous
             /\ New(b).binding = backends[b].binding
  <2>0. backends[b] \in IntelBackends
    BY <1>3, <1>4
  <2>1. backends[b] \in IntelBackends /\ backends[b].destroyed \in {0, 1}
    BY <2>0 DEF IntelBackends
  <2>2. Held(b) <=> backends[b].destroyed = 0
    <3>1. ASSUME NEW i \in 1 .. Len(gpu_telemetry), gpu_telemetry[i].backend = b
          PROVE  backends[b].destroyed = 0
      <4>1. gpu_telemetry[i].backend # 0
        BY <1>4, <3>1
      <4> QED
        BY <1>2, <3>1, <4>1 DEF BackendsHeld
    <3>2. backends[b].destroyed = 0 =>
             \E i \in 1 .. Len(gpu_telemetry) : gpu_telemetry[i].backend = b
      BY <1>2, <1>4 DEF BackendsHeld
    <3> QED
      BY <1>3, <3>1, <3>2
  <2> HIDE DEF Held
  <2>3. CASE Held(b)
    <3>1. New(b) = [backends[b] EXCEPT !.destroyed = @ + 1]
      BY <2>3
    <3> HIDE DEF New
    <3> QED
      BY <2>1, <2>2, <2>3, <3>1 DEF IntelBackends
  <2>4. CASE ~Held(b)
    <3>1. New(b) = backends[b]
      BY <2>4
    <3> HIDE DEF New
    <3> QED
      BY <2>1, <2>2, <2>4, <3>1
  <2> QED
    BY <2>3, <2>4
<1> HIDE DEF New
<1>5. backends' \in Seq(IntelBackends) /\ Len(backends') = Len(backends)
  <2>1. backends' \in [1 .. Len(backends) -> IntelBackends] /\ Len(backends) \in Nat
    BY <1>1, <1>3, <1>4
  <2> QED
    BY <2>1, SequenceOf
<1>6. \A b \in 1 .. Len(backends) : backends'[b] = New(b)
    BY <1>1, <1>3
<1>7. CachesBeside(gpu_telemetry', gpus, gpu_states)
    BY <1>1, <1>2 DEF CachesBeside
<1>8. BackendsHeld(gpu_telemetry', backends')
    BY <1>1, <1>4, <1>5, <1>6 DEF BackendsHeld
<1>9. GpuBaselines(gpu_states, backends', clock)
    BY <1>2, <1>4, <1>5, <1>6 DEF GpuBaselines
<1> QED
    BY <1>7, <1>8, <1>9

(* Every step keeps the invariant of the GPUs.                              *)
LEMMA GraphicsStep ==
    GraphicsInv /\ [Graphics!Next]_gpuVars => GraphicsInv'
<1> SUFFICES ASSUME GraphicsInv, [Graphics!Next]_gpuVars
             PROVE  GraphicsInv'
    OBVIOUS
<1>0. /\ GpusTyped /\ ListWhole(gpus, gpus_told)
      /\ CachesBeside(gpu_telemetry, gpus, gpu_states)
      /\ stage_of_gpus # "stopped" => Len(gpu_telemetry) <= Len(gpus)
      /\ BackendsHeld(gpu_telemetry, backends)
      /\ GpuBaselines(gpu_states, backends, GpusRead)
      /\ stage_of_gpus \in {"scan", "gpus"} => clock_before < clock
      /\ stage_of_gpus = "initialise" => DOMAIN use = {}
      /\ UsesMeasured
    BY DEF GraphicsInv
<1>00. /\ binding \in [Gpus -> 0 .. MaxBinds] /\ Len(gpus) <= MaxGpus
       /\ Len(gpu_telemetry) <= MaxGpus
       /\ nvml \in {"none", "on", "off"} /\ nvml_index \in 0 .. 2
       /\ binds \in Nat /\ clock \in Nat /\ clock_before \in Nat
       /\ npu \in [initialised : BOOLEAN, base : Nat, elapsed : Int,
                   last : {Graphics!NaN}]
       /\ npu_use = Graphics!NaN
    BY <1>0 DEF GpusTyped, Graphics!TypeOK
<1>01. ASSUME BackendsHeld(gpu_telemetry', backends')
       PROVE  \A i \in DOMAIN backends' : backends'[i].destroyed \in 0 .. 2
  <2>1. \A i \in DOMAIN backends' : backends'[i] \in IntelBackends
    BY <1>01 DEF BackendsHeld
  <2> QED
    BY <2>1 DEF IntelBackends
<1>1. CASE UNCHANGED gpuVars
    BY <1>0, <1>1 DEF gpuVars, GraphicsInv, GpusTyped, Graphics!TypeOK, UsesMeasured,
        GpusRead
<1>2. ASSUME NEW g \in Gpus, Graphics!MachineChanges(g) PROVE GraphicsInv'
  <2>1. UNCHANGED <<stage_of_gpus, clock, clock_before, gpus, gpus_told, gpu_states,
                    gpu_telemetry, backends, nvml, nvml_index, use, npu, npu_use>>
    BY <1>2, SMTT(20)
    DEF Graphics!MachineChanges, Graphics!clockVars, Graphics!listVars,
        Graphics!nvmlVars, Graphics!npuVars
  <2>2. binding' \in [Gpus -> 0 .. MaxBinds] /\ binds' \in Nat
    BY <1>00, <1>2, AcceleratorConstants DEF Graphics!MachineChanges
  <2> QED
    BY <1>0, <2>1, <2>2 DEF GraphicsInv, GpusTyped, Graphics!TypeOK, UsesMeasured,
        GpusRead
<1>3. CASE Graphics!lsm_hardware_initialise
  <2>1. /\ stage_of_gpus = "initialise" /\ stage_of_gpus' = "npus"
        /\ Graphics!refresh_hardware_topology
        /\ UNCHANGED <<binding, binds, clock, clock_before, nvml, nvml_index, use,
                       npu, npu_use>>
    BY <1>3 DEF Graphics!lsm_hardware_initialise, Graphics!machineVars,
        Graphics!clockVars, Graphics!nvmlVars, Graphics!npuVars
  <2>2. /\ ListWhole(gpus', gpus_told') /\ Len(gpus') <= MaxGpus
        /\ CachesBeside(gpu_telemetry', gpus', gpu_states')
        /\ Len(gpu_telemetry') = Len(gpus')
        /\ BackendsHeld(gpu_telemetry', backends')
        /\ GpuBaselines(gpu_states', backends', GpusRead)
    BY <2>1, TopologyRefreshed
  <2>3. GpusRead = clock /\ GpusRead' = clock
    BY <2>1 DEF GpusRead
  <2>4. GpusTyped'
    BY <1>00, <1>01, <2>1, <2>2 DEF GpusTyped, Graphics!TypeOK
  <2>5. Len(gpu_telemetry') <= Len(gpus') /\ DOMAIN use' = {}
    BY <1>0, <2>1, <2>2 DEF ListWhole
  <2>6. UsesMeasured'
    BY <2>5 DEF UsesMeasured
  <2> QED
    BY <2>1, <2>2, <2>3, <2>4, <2>5, <2>6 DEF GraphicsInv
<1>4. CASE Graphics!Scan
  <2>1. /\ stage_of_gpus = "scan" /\ stage_of_gpus' = "gpus"
        /\ Graphics!refresh_hardware_topology
        /\ UNCHANGED <<binding, binds, clock, clock_before, nvml, nvml_index, use,
                       npu, npu_use>>
    BY <1>4 DEF Graphics!Scan, Graphics!machineVars,
        Graphics!clockVars, Graphics!nvmlVars, Graphics!npuVars
  <2>2. /\ ListWhole(gpus', gpus_told') /\ Len(gpus') <= MaxGpus
        /\ CachesBeside(gpu_telemetry', gpus', gpu_states')
        /\ Len(gpu_telemetry') = Len(gpus')
        /\ BackendsHeld(gpu_telemetry', backends')
        /\ GpuBaselines(gpu_states', backends', GpusRead)
    BY <2>1, TopologyRefreshed
  <2>3. GpusRead = clock_before /\ GpusRead' = clock_before
    BY <2>1 DEF GpusRead
  <2>4. GpusTyped'
    BY <1>00, <1>01, <2>1, <2>2 DEF GpusTyped, Graphics!TypeOK
  <2>5. Len(gpu_telemetry') <= Len(gpus') /\ clock_before' < clock'
    BY <1>0, <2>1, <2>2 DEF ListWhole
  <2>6. UsesMeasured'
    BY <2>1 DEF UsesMeasured
  <2> QED
    BY <2>1, <2>2, <2>3, <2>4, <2>5, <2>6 DEF GraphicsInv
<1>5. CASE Graphics!lsm_hardware_update
  <2>1. /\ stage_of_gpus = "idle" /\ stage_of_gpus' \in {"scan", "gpus"}
        /\ clock' = clock + 1 /\ clock_before' = clock
        /\ UNCHANGED <<binding, binds, gpus, gpus_told, gpu_states, gpu_telemetry,
                       backends, nvml, nvml_index, use, npu, npu_use>>
    BY <1>5 DEF Graphics!lsm_hardware_update, Graphics!machineVars,
        Graphics!listVars, Graphics!nvmlVars, Graphics!npuVars
  <2>2. GpusRead = clock /\ GpusRead' = clock /\ clock < clock + 1 /\ clock + 1 \in Nat
    BY <1>00, <2>1 DEF GpusRead
  <2>3. GpusTyped'
    BY <1>0, <1>00, <1>01, <2>1, <2>2 DEF GpusTyped, Graphics!TypeOK
  <2>4. UsesMeasured'
    BY <2>1 DEF UsesMeasured
  <2> QED
    BY <1>0, <2>1, <2>2, <2>3, <2>4 DEF GraphicsInv
<1>6. CASE Graphics!update_gpus
  <2>1. /\ stage_of_gpus = "gpus" /\ stage_of_gpus' = "nvml"
        /\ UNCHANGED <<binding, binds, clock, clock_before, gpus, gpus_told,
                       gpu_telemetry, nvml, nvml_index, npu, npu_use>>
    BY <1>6 DEF Graphics!update_gpus, Graphics!machineVars, Graphics!clockVars,
        Graphics!nvmlVars, Graphics!npuVars
  <2>2. /\ CachesBeside(gpu_telemetry, gpus, gpu_states')
        /\ BackendsHeld(gpu_telemetry, backends')
        /\ GpuBaselines(gpu_states', backends', clock)
        /\ \A g \in DOMAIN use' : use'[g].kind = "interval" =>
              /\ use'[g].to.at = clock /\ use'[g].from.at < clock
              /\ g \notin Intel => use'[g].from.at = clock_before
              /\ g \in Intel => use'[g].from.binding = use'[g].to.binding
    BY <1>6, GpusSampled
  <2>3. GpusRead' = clock
    BY <2>1 DEF GpusRead
  <2>4. GpusTyped'
    BY <1>00, <1>01, <2>1, <2>2 DEF GpusTyped, Graphics!TypeOK
  <2>5. UsesMeasured'
    BY <2>1, <2>2 DEF UsesMeasured
  <2> QED
    BY <1>0, <2>1, <2>2, <2>3, <2>4, <2>5 DEF GraphicsInv
<1>7. CASE Graphics!lsm_nvml_refresh
  <2>1. /\ stage_of_gpus = "nvml" /\ stage_of_gpus' \in {"devices", "npus"}
        /\ nvml' \in {"none", "on", "off"}
        /\ UNCHANGED <<binding, binds, clock, clock_before, gpus, gpus_told,
                       gpu_states, gpu_telemetry, backends, nvml_index, use, npu, npu_use>>
    BY <1>00, <1>7 DEF Graphics!lsm_nvml_refresh, Graphics!machineVars,
        Graphics!clockVars, Graphics!listVars, Graphics!npuVars
  <2>2. GpusRead = clock /\ GpusRead' = clock
    BY <2>1 DEF GpusRead
  <2>3. GpusTyped'
    BY <1>0, <1>00, <1>01, <2>1 DEF GpusTyped, Graphics!TypeOK
  <2>4. UsesMeasured'
    BY <1>0, <2>1 DEF UsesMeasured
  <2> QED
    BY <1>0, <2>1, <2>2, <2>3, <2>4 DEF GraphicsInv
<1>8. CASE Graphics!AskDevice
  <2>1. /\ stage_of_gpus = "devices" /\ nvml_index' = nvml_index + 1
        /\ nvml_index < Len(<<[gpu |-> 2, name |-> 3], [gpu |-> 0, name |-> 4]>>)
        /\ UNCHANGED <<binding, binds, stage_of_gpus, clock, clock_before, gpu_states,
                       gpu_telemetry, backends, nvml, npu, npu_use>>
    BY <1>8 DEF Graphics!AskDevice, Graphics!machineVars, Graphics!clockVars,
        Graphics!npuVars
  <2>2. /\ ListWhole(gpus', gpus_told') /\ Len(gpus') <= MaxGpus
        /\ Len(gpus) <= Len(gpus')
        /\ \A i \in 1 .. Len(gpus) : gpus'[i] = gpus[i]
        /\ Graphics!Range(gpus) \subseteq Graphics!Range(gpus')
        /\ \A g \in DOMAIN use' : use'[g].kind = "interval" =>
              g \in DOMAIN use /\ use'[g] = use[g]
    BY <1>8, DeviceAsked
  <2>3. /\ Len(gpu_telemetry) \in Nat /\ Len(gpus) \in Nat /\ Len(gpus') \in Nat
        /\ Len(gpu_telemetry) <= Len(gpus)
    BY <1>0, <2>1, <2>2 DEF CachesBeside, ListWhole
  <2>4. \A i \in 1 .. Len(gpu_telemetry) : i \in 1 .. Len(gpus)
    BY <2>3
  <2>5. CachesBeside(gpu_telemetry, gpus', gpu_states)
    BY <1>0, <2>2, <2>4 DEF CachesBeside
  <2>6. Len(gpu_telemetry) <= Len(gpus')
    BY <2>2, <2>3
  <2>7. nvml_index' \in 0 .. 2
    BY <1>00, <2>1
  <2>8. GpusTyped'
    BY <1>0, <1>00, <1>01, <2>1, <2>2, <2>7 DEF GpusTyped, Graphics!TypeOK
  <2>9. UsesMeasured'
    BY <1>0, <2>1, <2>2 DEF UsesMeasured
  <2>10. GpusRead' = GpusRead
    BY <2>1 DEF GpusRead
  <2> QED
    BY <1>0, <2>1, <2>2, <2>5, <2>6, <2>8, <2>9, <2>10 DEF GraphicsInv
<1>9. CASE Graphics!DevicesAsked
  <2>1. /\ stage_of_gpus = "devices" /\ stage_of_gpus' = "npus" /\ nvml_index' = 0
        /\ UNCHANGED <<binding, binds, clock, clock_before, gpus, gpus_told,
                       gpu_states, gpu_telemetry, backends, nvml, use, npu, npu_use>>
    BY <1>9 DEF Graphics!DevicesAsked, Graphics!machineVars,
        Graphics!clockVars, Graphics!listVars, Graphics!npuVars
  <2>2. GpusRead = clock /\ GpusRead' = clock
    BY <2>1 DEF GpusRead
  <2>3. GpusTyped'
    BY <1>0, <1>00, <1>01, <2>1 DEF GpusTyped, Graphics!TypeOK
  <2>4. UsesMeasured'
    BY <1>0, <2>1 DEF UsesMeasured
  <2> QED
    BY <1>0, <2>1, <2>2, <2>3, <2>4 DEF GraphicsInv
<1>10. CASE Graphics!lsm_npu_telemetry_refresh
  <2>1. /\ stage_of_gpus = "npus" /\ stage_of_gpus' = "idle"
        /\ npu_use' = npu'.last
        /\ UNCHANGED <<binding, binds, clock, clock_before, gpus, gpus_told,
                       gpu_states, gpu_telemetry, backends, nvml, nvml_index, use>>
    BY <1>10 DEF Graphics!lsm_npu_telemetry_refresh, Graphics!machineVars,
        Graphics!clockVars, Graphics!listVars, Graphics!nvmlVars
  <2>2. PICK forward \in BOOLEAN :
           npu' = Graphics!BusyTime(IF clock = 0 THEN MinBusySample
                                    ELSE clock - clock_before, FALSE, forward)
    BY <1>10 DEF Graphics!lsm_npu_telemetry_refresh
  <2> DEFINE passed == IF clock = 0 THEN MinBusySample ELSE clock - clock_before
  <2>3. passed \in Int
    BY <1>00, AcceleratorConstants
  <2>4. npu' = Graphics!BusyTime(passed, FALSE, forward)
    BY <2>2
  <2> HIDE DEF passed
  <2>5. \/ npu' = [npu EXCEPT !.elapsed = npu.elapsed + passed]
        \/ npu' = [initialised |-> FALSE, base |-> npu.base, elapsed |-> 0,
                   last |-> Graphics!NaN]
    BY <2>4 DEF Graphics!BusyTime
  <2>6. npu' \in [initialised : BOOLEAN, base : Nat, elapsed : Int,
                  last : {Graphics!NaN}]
    <3> DEFINE none == Graphics!NaN
               more == npu.elapsed + passed
               Only == {none}
               Npus == [initialised : BOOLEAN, base : Nat, elapsed : Int, last : Only]
    <3>1. npu \in Npus /\ none \in Only /\ more \in Int
      BY <1>00, <2>3
    <3>2. \/ npu' = [npu EXCEPT !.elapsed = more]
          \/ npu' = [initialised |-> FALSE, base |-> npu.base, elapsed |-> 0,
                     last |-> none]
      BY <2>5
    <3> HIDE DEF none, Only, more
    <3>3. npu.base \in Nat
      BY <3>1
    <3>4. ASSUME npu' = [npu EXCEPT !.elapsed = more] PROVE npu' \in Npus
      BY <3>1, <3>4
    <3>5. ASSUME npu' = [initialised |-> FALSE, base |-> npu.base, elapsed |-> 0,
                         last |-> none]
          PROVE  npu' \in Npus
      BY <3>1, <3>3, <3>5
    <3>6. npu' \in Npus
      BY <3>2, <3>4, <3>5
    <3> QED
      BY <3>6 DEF none, Only
  <2>7. npu_use' = Graphics!NaN
    BY <2>1, <2>6
  <2>8. GpusRead = clock /\ GpusRead' = clock
    BY <2>1 DEF GpusRead
  <2>9. GpusTyped'
    BY <1>0, <1>00, <1>01, <2>1, <2>6, <2>7 DEF GpusTyped, Graphics!TypeOK
  <2>10. UsesMeasured'
    BY <2>1 DEF UsesMeasured
  <2> QED
    BY <1>0, <2>1, <2>8, <2>9, <2>10 DEF GraphicsInv
<1>11. CASE Graphics!lsm_hardware_shutdown
  <2>1. /\ stage_of_gpus = "idle" /\ stage_of_gpus' = "stopped"
        /\ gpu_telemetry' = <<>>
        /\ UNCHANGED <<binding, binds, clock, clock_before, gpus, gpus_told,
                       gpu_states, nvml, nvml_index, use, npu, npu_use>>
    BY <1>11 DEF Graphics!lsm_hardware_shutdown, Graphics!machineVars,
        Graphics!clockVars, Graphics!nvmlVars, Graphics!npuVars
  <2>2. /\ CachesBeside(gpu_telemetry', gpus, gpu_states)
        /\ BackendsHeld(gpu_telemetry', backends')
        /\ GpuBaselines(gpu_states, backends', clock)
    BY <1>11, HardwareShutDown
  <2>3. GpusRead' = clock
    BY <2>1 DEF GpusRead
  <2>4. Len(gpu_telemetry') <= MaxGpus
    BY <2>1, AcceleratorConstants
  <2>5. GpusTyped'
    BY <1>0, <1>00, <1>01, <2>1, <2>2, <2>4 DEF GpusTyped, Graphics!TypeOK
  <2>6. UsesMeasured'
    BY <2>1 DEF UsesMeasured
  <2> QED
    BY <1>0, <2>1, <2>2, <2>3, <2>5, <2>6 DEF GraphicsInv
<1> QED
    BY <1>1, <1>2, <1>3, <1>4, <1>5, <1>6, <1>7, <1>8, <1>9, <1>10, <1>11
    DEF Graphics!Next

(* The invariant is what the GPUs promise.                                  *)
LEMMA GraphicsKept ==
    GraphicsInv => /\ Graphics!TypeOK /\ Graphics!TelemetryAligned
                   /\ Graphics!BackendsOwned /\ Graphics!UseHonest
<1> SUFFICES ASSUME GraphicsInv
             PROVE  /\ Graphics!TypeOK /\ Graphics!TelemetryAligned
                    /\ Graphics!BackendsOwned /\ Graphics!UseHonest
    OBVIOUS
<1>1. Graphics!TypeOK
    BY DEF GraphicsInv, GpusTyped
<1>2. Graphics!TelemetryAligned
    BY DEF GraphicsInv, CachesBeside, ListWhole, Graphics!TelemetryAligned
<1>3. ASSUME NEW b \in DOMAIN backends
      PROVE  backends[b].destroyed
                + Graphics!Cardinality({i \in DOMAIN gpu_telemetry :
                                            gpu_telemetry[i].backend = b}) = 1
  <2> DEFINE holders == {i \in DOMAIN gpu_telemetry : gpu_telemetry[i].backend = b}
  <2>1. /\ BackendsHeld(gpu_telemetry, backends) /\ gpu_telemetry \in Seq(GpuCaches)
        /\ DOMAIN gpu_telemetry = 1 .. Len(gpu_telemetry)
        /\ backends \in Seq(IntelBackends) /\ b \in 1 .. Len(backends)
    BY <1>3 DEF GraphicsInv, CachesBeside, BackendsHeld
  <2>2. backends[b] \in IntelBackends
    BY <2>1
  <2>3. backends[b].destroyed \in {0, 1} /\ b # 0
    BY <2>1, <2>2 DEF IntelBackends
  <2>4. Graphics!Cardinality(holders) = Cardinality(holders)
    BY DEF Graphics!Cardinality, Cardinality
  <2>5. CASE backends[b].destroyed = 0
    <3>1. PICK i \in 1 .. Len(gpu_telemetry) : gpu_telemetry[i].backend = b
      BY <2>1, <2>5 DEF BackendsHeld
    <3>2. holders = {i}
      BY <2>1, <2>3, <3>1 DEF BackendsHeld
    <3>3. Cardinality(holders) = 1
      BY <3>2, FS_Singleton
    <3> QED
      BY <2>4, <2>5, <3>3
  <2>6. CASE backends[b].destroyed = 1
    <3>1. holders = {}
      BY <2>1, <2>3, <2>6 DEF BackendsHeld
    <3>2. Cardinality(holders) = 0
      BY <3>1, FS_EmptySet
    <3> QED
      BY <2>4, <2>6, <3>2
  <2> QED
    BY <2>3, <2>5, <2>6
<1>4. Graphics!BackendsOwned
    BY <1>3 DEF Graphics!BackendsOwned
<1>5. Graphics!UseHonest
  <2>1. UsesMeasured /\ npu_use.kind = "nan"
    BY DEF GraphicsInv, GpusTyped, Graphics!NaN
  <2> QED
    BY <2>1 DEF UsesMeasured, Graphics!UseHonest
<1> QED
    BY <1>1, <1>2, <1>4, <1>5

(* The NPU by itself, which has been read up to this sample between two     *)
(* updates and up to the one before within them.                            *)
NpuUses == {Neural!NaN} \cup [kind : {"average"}, from : Nat, to : Nat, over : Int]
NpuStates == [initialised : BOOLEAN, base : Nat, elapsed : Nat, last : NpuUses]
NpuRead == IF stage_of_gpus \in {"idle", "stopped"} THEN clock ELSE clock_before

(* Where there is no GPU the lists of them stay empty.                      *)
EmptyList(list) == list \in Seq({}) /\ Len(list) = 0
NoGpus ==
    /\ binding \in [{} -> 0 .. MaxBinds]
    /\ stage_of_gpus \in {"initialise", "idle", "scan", "gpus", "nvml", "devices",
                          "npus", "stopped"}
    /\ EmptyList(gpus) /\ EmptyList(gpu_telemetry) /\ EmptyList(backends)
    /\ nvml \in {"none", "on", "off"} /\ nvml_index = 0 /\ DOMAIN use = {}

(* The baseline lies as far back as the time added up; the percentage ends  *)
(* where the next one begins.                                               *)
NpuAccounted ==
    /\ npu \in NpuStates /\ npu_use = npu.last
    /\ stage_of_gpus \in {"idle", "stopped"} => npu.elapsed < MinBusySample
    /\ npu.initialised => npu.base + npu.elapsed = NpuRead
    /\ npu.last.kind # "nan" =>
          /\ npu.initialised /\ npu.last.to = npu.base
          /\ npu.last.over = npu.base - npu.last.from

NeuralInv ==
    /\ NoGpus /\ NpuAccounted
    /\ clock \in Nat /\ clock_before \in Nat /\ clock_before <= clock
    /\ clock = 0 => stage_of_gpus \in {"initialise", "npus", "idle", "stopped"}
    /\ clock = 0 /\ stage_of_gpus \in {"initialise", "npus"} => ~npu.initialised

(* A list of no entries is empty.                                           *)
LEMMA EmptyMade ==
    ASSUME NEW f, DOMAIN f = 1 .. 0, f = [i \in 1 .. 0 |-> f[i]] PROVE EmptyList(f)
<1>1. f \in [1 .. 0 -> {}]
    OBVIOUS
<1> QED
    BY <1>1, SequenceOf DEF EmptyList

(* An empty list has no position and no member.                             *)
LEMMA EmptyDomain ==
    ASSUME NEW list, EmptyList(list) PROVE DOMAIN list = {} /\ Neural!Range(list) = {}
    BY DEF EmptyList, Neural!Range

(* No NPU is known at the start.                                            *)
LEMMA NeuralStart == Neural!Init => NeuralInv
<1> SUFFICES ASSUME Neural!Init PROVE NeuralInv
    OBVIOUS
<1> USE AcceleratorConstants DEF Neural!Init
<1>1. NoGpus
    BY DEF NoGpus, EmptyList
<1>2. NpuAccounted /\ ~npu.initialised
  <2>1. npu \in NpuStates
    <3>1. Neural!NaN \in NpuUses
      BY DEF NpuUses
    <3> QED
      BY <3>1 DEF NpuStates
  <2> QED
    BY <2>1 DEF NpuAccounted, Neural!NaN
<1> QED
    BY <1>1, <1>2 DEF NeuralInv

(* Scans find nothing and destroy nothing.                                  *)
LEMMA NothingFound ==
    ASSUME NoGpus, Neural!refresh_hardware_topology
    PROVE  EmptyList(gpus') /\ EmptyList(gpu_telemetry') /\ EmptyList(backends')
<1>1. Neural!Cardinality({}) = 0
  <2>1. Cardinality({}) = 0
    BY FS_EmptySet
  <2> QED
    BY <2>1 DEF Neural!Cardinality, Cardinality
<1> DEFINE found == Neural!InOrder({})
<1>2. EmptyList(found)
  <2>1. DOMAIN found = 1 .. 0 /\ found = [i \in 1 .. 0 |-> found[i]]
    BY <1>1 DEF Neural!InOrder
  <2> HIDE DEF found
  <2> QED
    BY <2>1, EmptyMade
<1>3. gpus' = found /\ Neural!synchronise_telemetry_caches(found)
  <2>1. Neural!Range(gpus) = {}
    BY EmptyDomain DEF NoGpus
  <2>2. \A ok \in BOOLEAN : Neural!enumerate_gpus(ok) = found
    BY <2>1 DEF Neural!enumerate_gpus
  <2> HIDE DEF found
  <2> QED
    BY <2>2 DEF Neural!refresh_hardware_topology
<1> HIDE DEF found
<1>4. DOMAIN found = {} /\ Neural!Range(found) = {}
    BY <1>2, EmptyDomain
<1>5. PICK made \in SUBSET {g \in Neural!Range(found) \cap {} : Neural!Reusable(g) = {}} :
        LET new == Neural!InOrder(made)
            Made(g) == IF g \notin made THEN 0
                          ELSE Len(backends) + CHOOSE n \in DOMAIN new : new[n] = g
            gone == {c.backend : c \in Neural!Destroyed(found)}
            Left(b) == IF b \in gone THEN [backends[b] EXCEPT !.destroyed = @ + 1]
                       ELSE backends[b]
        IN  /\ gpu_telemetry' = [i \in DOMAIN found |->
                  IF Neural!Reusable(found[i]) # {}
                  THEN gpu_telemetry[CHOOSE j \in Neural!Reusable(found[i]) : TRUE]
                  ELSE Neural!build_gpu_telemetry_cache(found[i], Made(found[i]))]
            /\ backends' = [b \in 1 .. Len(backends) + Neural!Cardinality(made) |->
                  IF b <= Len(backends) THEN Left(b)
                  ELSE Neural!lsm_intel_gpu_create(new[b - Len(backends)])]
    BY <1>3, Zenon DEF Neural!synchronise_telemetry_caches
<1>6. made = {} /\ Len(backends) = 0
    BY DEF NoGpus, EmptyList
<1>7. Len(backends) + Neural!Cardinality(made) = 0
    BY <1>1, <1>6
<1>8. EmptyList(gpu_telemetry')
  <2> DEFINE t == gpu_telemetry'
  <2>0. 1 .. 0 = {}
    OBVIOUS
  <2>1. DOMAIN t = 1 .. 0 /\ t = [i \in 1 .. 0 |-> t[i]]
    BY <1>4, <1>5, <2>0
  <2> HIDE DEF t
  <2>2. EmptyList(t)
    BY <2>1, EmptyMade
  <2> QED
    BY <2>2 DEF t
<1>9. EmptyList(backends')
  <2> DEFINE t == backends'
  <2>1. DOMAIN t = 1 .. 0 /\ t = [i \in 1 .. 0 |-> t[i]]
    BY <1>5, <1>7
  <2> HIDE DEF t
  <2>2. EmptyList(t)
    BY <2>1, EmptyMade
  <2> QED
    BY <2>2 DEF t
<1> QED
    BY <1>2, <1>3, <1>8, <1>9

(* Every step keeps the invariant of the NPUs.                              *)
LEMMA NeuralStep ==
    NeuralInv /\ [Neural!Next]_gpuVars => NeuralInv'
<1> SUFFICES ASSUME NeuralInv, [Neural!Next]_gpuVars
             PROVE  NeuralInv'
    OBVIOUS
<1>0. NoGpus /\ NpuAccounted /\ clock \in Nat /\ clock_before \in Nat
    BY DEF NeuralInv
<1>1. CASE UNCHANGED gpuVars
    BY <1>1 DEF gpuVars, NeuralInv, NoGpus, NpuAccounted, NpuRead
<1>2. CASE Neural!lsm_hardware_initialise \/ Neural!Scan
  <2>1. /\ \/ stage_of_gpus = "initialise" /\ stage_of_gpus' = "npus"
           \/ stage_of_gpus = "scan" /\ stage_of_gpus' = "gpus"
        /\ Neural!refresh_hardware_topology
        /\ UNCHANGED <<binding, clock, clock_before, nvml, nvml_index, use, npu, npu_use>>
    BY <1>2 DEF Neural!lsm_hardware_initialise, Neural!Scan, Neural!machineVars,
        Neural!clockVars, Neural!nvmlVars, Neural!npuVars
  <2>2. EmptyList(gpus') /\ EmptyList(gpu_telemetry') /\ EmptyList(backends')
    BY <1>0, <2>1, NothingFound
  <2>3. NoGpus'
    BY <1>0, <2>1, <2>2 DEF NoGpus
  <2>4. NpuAccounted'
    BY <1>0, <2>1 DEF NpuAccounted, NpuRead
  <2> QED
    BY <2>1, <2>3, <2>4 DEF NeuralInv
<1>3. CASE Neural!lsm_hardware_update
  <2>1. PICK passed \in {1, 2} : clock' = clock + passed /\ clock_before' = clock
    BY <1>3 DEF Neural!lsm_hardware_update
  <2>2. /\ stage_of_gpus = "idle" /\ stage_of_gpus' \in {"scan", "gpus"}
        /\ UNCHANGED <<binding, gpus, gpu_telemetry, backends, nvml, nvml_index, use,
                       npu, npu_use>>
    BY <1>3 DEF Neural!lsm_hardware_update, Neural!machineVars, Neural!listVars,
        Neural!nvmlVars, Neural!npuVars
  <2>3. NoGpus'
    BY <1>0, <2>2 DEF NoGpus
  <2>4. NpuAccounted'
    BY <1>0, <2>1, <2>2 DEF NpuAccounted, NpuRead
  <2>5. clock' \in Nat /\ clock_before' \in Nat /\ clock_before' <= clock' /\ clock' # 0
    BY <1>0, <2>1
  <2> QED
    BY <2>3, <2>4, <2>5 DEF NeuralInv
<1>4. CASE Neural!update_gpus
  <2>1. /\ stage_of_gpus = "gpus" /\ stage_of_gpus' = "nvml"
        /\ DOMAIN use' = Neural!Range(gpus)
        /\ UNCHANGED <<binding, clock, clock_before, gpus, gpu_telemetry, nvml,
                       nvml_index, npu, npu_use>>
    BY <1>4 DEF Neural!update_gpus, Neural!machineVars, Neural!clockVars,
        Neural!nvmlVars, Neural!npuVars
  <2>2. DOMAIN backends' = DOMAIN backends
        /\ backends' = [b \in DOMAIN backends |-> backends'[b]]
    BY <1>4 DEF Neural!update_gpus
  <2>3. DOMAIN use' = {} /\ DOMAIN backends = {}
    BY <1>0, <2>1, EmptyDomain DEF NoGpus
  <2>4. EmptyList(backends')
    <3> DEFINE t == backends'
    <3>1. DOMAIN t = 1 .. 0 /\ t = [b \in 1 .. 0 |-> t[b]]
      BY <2>2, <2>3
    <3> HIDE DEF t
    <3>2. EmptyList(t)
      BY <3>1, EmptyMade
    <3> QED
      BY <3>2 DEF t
  <2>5. NoGpus'
    BY <1>0, <2>1, <2>3, <2>4 DEF NoGpus
  <2>6. NpuAccounted'
    BY <1>0, <2>1 DEF NpuAccounted, NpuRead
  <2> QED
    BY <2>1, <2>5, <2>6 DEF NeuralInv
<1>5. CASE Neural!lsm_nvml_refresh \/ Neural!DevicesAsked
  <2>1. /\ \/ stage_of_gpus = "nvml" /\ stage_of_gpus' \in {"devices", "npus"}
           \/ stage_of_gpus = "devices" /\ stage_of_gpus' = "npus"
        /\ nvml' \in {"none", "on", "off"} /\ nvml_index' = 0
        /\ UNCHANGED <<binding, clock, clock_before, gpus, gpu_telemetry, backends,
                       use, npu, npu_use>>
    BY <1>0, <1>5 DEF Neural!lsm_nvml_refresh, Neural!DevicesAsked, Neural!machineVars,
        Neural!clockVars, Neural!listVars, Neural!npuVars, NoGpus
  <2>2. NoGpus'
    BY <1>0, <2>1 DEF NoGpus
  <2>3. NpuAccounted'
    BY <1>0, <2>1 DEF NpuAccounted, NpuRead
  <2> QED
    BY <2>1, <2>2, <2>3 DEF NeuralInv
<1>6. CASE Neural!lsm_npu_telemetry_refresh
  <2> DEFINE passed == IF clock = 0 THEN MinBusySample ELSE clock - clock_before
             span == npu.elapsed + passed
  <2>1. /\ stage_of_gpus = "npus" /\ stage_of_gpus' = "idle"
        /\ npu_use' = npu'.last
        /\ UNCHANGED <<binding, clock, clock_before, gpus, gpu_telemetry, backends,
                       nvml, nvml_index, use>>
    BY <1>6 DEF Neural!lsm_npu_telemetry_refresh, Neural!machineVars,
        Neural!clockVars, Neural!listVars, Neural!nvmlVars
  <2>2. PICK answered \in BOOLEAN, forward \in BOOLEAN :
           npu' = Neural!BusyTime(passed, answered, forward)
    BY <1>6 DEF Neural!lsm_npu_telemetry_refresh
  <2>3. /\ npu \in NpuStates /\ npu.elapsed \in Nat /\ npu.base \in Nat
        /\ npu.last \in NpuUses /\ npu.initialised \in BOOLEAN
        /\ npu.initialised => npu.base + npu.elapsed = clock_before
        /\ npu.last.kind # "nan" =>
              /\ npu.initialised /\ npu.last.to = npu.base
              /\ npu.last.over = npu.base - npu.last.from
    BY <1>0, <2>1 DEF NpuAccounted, NpuStates, NpuRead
  <2>4. passed \in Nat /\ span \in Nat /\ (clock = 0 => span >= MinBusySample)
    BY <1>0, <2>3, AcceleratorConstants DEF NeuralInv
  <2>5. npu.initialised => passed = clock - clock_before
    BY <2>1 DEF NeuralInv
  <2>6. npu.initialised => npu.base + span = clock /\ span = clock - npu.base
    BY <1>0, <2>3, <2>4, <2>5
  <2> HIDE DEF passed
  <2>7. Neural!NaN \in NpuUses /\ Neural!NaN.kind = "nan"
    BY DEF NpuUses, Neural!NaN
  <2>8. CASE ~(span >= MinBusySample)
    <3>1. npu' = [npu EXCEPT !.elapsed = span]
      BY <2>2, <2>8 DEF Neural!BusyTime
    <3> HIDE DEF span
    <3>2. /\ npu' \in NpuStates /\ npu'.elapsed = span /\ npu'.base = npu.base
          /\ npu'.last = npu.last /\ npu'.initialised = npu.initialised
      BY <2>3, <2>4, <3>1 DEF NpuStates
    <3>3. span < MinBusySample
      BY <2>4, <2>8, AcceleratorConstants
    <3>4. NpuAccounted'
      BY <2>1, <2>3, <2>6, <3>2, <3>3 DEF NpuAccounted, NpuRead
    <3>5. NoGpus'
      BY <1>0, <2>1 DEF NoGpus
    <3> QED
      BY <2>1, <3>4, <3>5 DEF NeuralInv
  <2>9. CASE span >= MinBusySample /\ ~answered
    <3>1. npu' = [initialised |-> FALSE, base |-> npu.base, elapsed |-> 0,
                  last |-> Neural!NaN]
      BY <2>2, <2>9 DEF Neural!BusyTime
    <3>2. npu' \in NpuStates
      BY <2>3, <2>7, <3>1 DEF NpuStates
    <3>3. NpuAccounted'
      BY <2>1, <2>7, <3>1, <3>2, AcceleratorConstants DEF NpuAccounted
    <3>4. NoGpus'
      BY <1>0, <2>1 DEF NoGpus
    <3> QED
      BY <2>1, <3>3, <3>4 DEF NeuralInv
  <2>10. CASE span >= MinBusySample /\ answered
    <3> DEFINE shown == IF npu.initialised /\ forward
                        THEN Neural!Average(npu.base, clock, span) ELSE Neural!NaN
    <3>1. npu' = [initialised |-> TRUE, base |-> clock, elapsed |-> 0, last |-> shown]
      BY <2>2, <2>10 DEF Neural!BusyTime
    <3>2. shown \in NpuUses
      <4> HIDE DEF span
      <4>1. Neural!Average(npu.base, clock, span) \in NpuUses
        BY <1>0, <2>3, <2>4 DEF Neural!Average, NpuUses
      <4> QED
        BY <2>7, <4>1
    <3>3. shown.kind # "nan" => shown.to = clock /\ shown.over = clock - shown.from
      <4> HIDE DEF span
      <4> QED
        BY <2>6, <2>7 DEF Neural!Average
    <3> HIDE DEF shown, span
    <3>4. npu' \in NpuStates /\ npu'.last = shown /\ npu'.base = clock
          /\ npu'.elapsed = 0 /\ npu'.initialised
      BY <1>0, <3>1, <3>2 DEF NpuStates
    <3>5. NpuAccounted'
      BY <1>0, <2>1, <3>3, <3>4, AcceleratorConstants DEF NpuAccounted, NpuRead
    <3>6. NoGpus'
      BY <1>0, <2>1 DEF NoGpus
    <3> QED
      BY <2>1, <3>5, <3>6 DEF NeuralInv
  <2> QED
    BY <2>8, <2>9, <2>10
<1>7. CASE Neural!lsm_hardware_shutdown
  <2>1. /\ stage_of_gpus = "idle" /\ stage_of_gpus' = "stopped"
        /\ gpu_telemetry' = <<>>
        /\ UNCHANGED <<binding, clock, clock_before, gpus, nvml, nvml_index, use, npu,
                       npu_use>>
    BY <1>7 DEF Neural!lsm_hardware_shutdown, Neural!machineVars,
        Neural!clockVars, Neural!nvmlVars, Neural!npuVars
  <2>2. DOMAIN backends' = DOMAIN backends
        /\ backends' = [b \in DOMAIN backends |-> backends'[b]]
    BY <1>7 DEF Neural!lsm_hardware_shutdown
  <2>3. DOMAIN backends = {}
    BY <1>0, EmptyDomain DEF NoGpus
  <2>4. EmptyList(backends')
    <3> DEFINE t == backends'
    <3>1. DOMAIN t = 1 .. 0 /\ t = [b \in 1 .. 0 |-> t[b]]
      BY <2>2, <2>3
    <3> HIDE DEF t
    <3>2. EmptyList(t)
      BY <3>1, EmptyMade
    <3> QED
      BY <3>2 DEF t
  <2>5. EmptyList(gpu_telemetry')
    BY <2>1 DEF EmptyList
  <2>6. NoGpus'
    BY <1>0, <2>1, <2>4, <2>5 DEF NoGpus
  <2>7. NpuAccounted'
    BY <1>0, <2>1 DEF NpuAccounted, NpuRead
  <2> QED
    BY <2>1, <2>6, <2>7 DEF NeuralInv
<1>8. ~Neural!AskDevice
    BY <1>0 DEF Neural!AskDevice, NoGpus
<1> QED
    BY <1>1, <1>2, <1>3, <1>4, <1>5, <1>6, <1>7, <1>8 DEF Neural!Next

(* The invariant is what the NPUs promise.                                  *)
LEMMA NeuralKept == NeuralInv => Neural!TypeOK /\ Neural!UseHonest
<1> SUFFICES ASSUME NeuralInv PROVE Neural!TypeOK /\ Neural!UseHonest
    OBVIOUS
<1>1. NoGpus /\ NpuAccounted /\ clock \in Nat
    BY DEF NeuralInv
<1>2. Neural!TypeOK
  <2>1. DOMAIN backends = {}
    BY <1>1, EmptyDomain DEF NoGpus
  <2> QED
    BY <1>1, <2>1 DEF NoGpus, EmptyList, Neural!TypeOK
<1>3. ASSUME stage_of_gpus = "idle", npu_use.kind # "nan"
      PROVE  /\ npu_use.over = npu_use.to - npu_use.from
             /\ clock - npu_use.to < MinBusySample
  <2>1. /\ npu.last.to = npu.base /\ npu.last.over = npu.base - npu.last.from
        /\ npu_use = npu.last /\ npu.elapsed < MinBusySample
        /\ npu.base + npu.elapsed = clock
        /\ npu.base \in Nat /\ npu.elapsed \in Nat
    BY <1>1, <1>3 DEF NpuAccounted, NpuStates, NpuRead
  <2>2. clock - npu.base = npu.elapsed
    BY <1>1, <2>1
  <2> QED
    BY <2>1, <2>2
<1>4. DOMAIN use = {}
    BY <1>1 DEF NoGpus
<1>5. Neural!UseHonest
    BY <1>3, <1>4 DEF Neural!UseHonest
<1> QED
    BY <1>2, <1>5

-----------------------------------------------------------------------------
(* The cgroup column is shown and hidden again, and strdup may fail.        *)
Changing ==
    [pids |-> Pids, scans |-> MaxScans, flags |-> {{}, {"CGROUP"}},
     texts |-> {"cgroup"}, fails |-> TRUE, refused |-> FALSE]

(* A page with the cgroup and GPU columns stays selected, for longer than   *)
(* any cached text may last; one PID changes hands, its I/O totals may be   *)
(* refused from scan to scan, and no strdup fails.                          *)
Steady ==
    [pids |-> ReusedPids, scans |-> MaxScans + 2, flags |-> {{"CGROUP", "GPU"}},
     texts |-> {"command", "cgroup"}, fails |-> FALSE, refused |-> TRUE]

(* A graph whose direction stays as it was chosen, and one that is turned.  *)
Fixed == INSTANCE SampleRings WITH
    MaxPushes <- FixedPushes, MayFlip <- FALSE, slots <- ring,
    samples <- overview_samples
Turned == INSTANCE SampleRings WITH
    MaxPushes <- FlipPushes, MayFlip <- TRUE, slots <- ring,
    samples <- overview_samples

(* Parents in any order, circles included, and two ways to group.           *)
Table == INSTANCE ProcessTable WITH
    Keyings <- {<<"a", "b", "a">>, <<"b", "b", "a">>},
    Rss <- <<1, 2, 2>>, Stopped <- {1, 3}, step <- table_step,
    cache <- group_cache, listed <- group_order, collected <- table_collected

ASSUME CollectorsAssumption ==
    /\ Backend(Changing)!BackendAssumption /\ Backend(Steady)!BackendAssumption
    /\ WindowsProcesses!BackendAssumption
    /\ Fixed!GraphAssumption /\ Turned!GraphAssumption
    /\ Fixed!OverviewAssumption /\ Table!TableAssumption

(* Where a study begins; the variables of the others have one value.        *)
Init ==
    /\ study \in {"changing", "steady", "disks", "networks", "readings",
                  "traffic", "peripherals", "graphics", "neural",
                  "fixed", "turned", "overview", "table", "windows_disks",
                  "windows_networks", "windows_processes"}
    /\ IF study = "steady" THEN Backend(Steady)!Init ELSE Backend(Changing)!Init
    /\ IF study = "networks" THEN Networks!Init
       ELSE Disks!Init /\ (study # "disks" => sockets /\ born.disk = 0)
    /\ Readings!Init /\ (study # "readings" => machine.zones # {})
    /\ Traffic!Init /\ Peripherals!Init
    /\ IF study = "neural" THEN Neural!Init ELSE Graphics!Init
    /\ IF study = "windows_networks" THEN WindowsNetworks!Init
       ELSE WindowsDisks!Init
    /\ WindowsProcesses!Init /\ (study # "windows_processes" => system_at = 0)
    /\ Fixed!GraphInit /\ (study \notin {"fixed", "turned"} => direction)
    /\ Fixed!OverviewInit
    /\ Table!Init /\ (study # "table" => key[1] = "a")

Process(A) == A /\ UNCHANGED <<study, deviceVars, madeVars>>
Storage(A) ==
    A /\ UNCHANGED <<study, processVars, cpuVars, trafficVars, batteryVars,
                     gpuVars, madeVars>>
Cpu(A) ==
    A /\ UNCHANGED <<study, processVars, storageVars, trafficVars, batteryVars,
                     gpuVars, madeVars>>
Hci(A) ==
    A /\ UNCHANGED <<study, processVars, storageVars, cpuVars, batteryVars,
                     gpuVars, madeVars>>
Battery(A) ==
    A /\ UNCHANGED <<study, processVars, storageVars, cpuVars, trafficVars,
                     gpuVars, madeVars>>
Gpu(A) ==
    A /\ UNCHANGED <<study, processVars, storageVars, cpuVars, trafficVars,
                     batteryVars, madeVars>>
Graph(A) ==
    A /\ UNCHANGED <<study, processVars, deviceVars, windowsVars, winProcessVars, overviewVars,
                     tableVars>>
Ring(A) ==
    A /\ UNCHANGED <<study, processVars, deviceVars, windowsVars, winProcessVars, ringVars,
                     tableVars>>
Rows(A) ==
    A /\ UNCHANGED <<study, processVars, deviceVars, windowsVars, winProcessVars, ringVars,
                     overviewVars>>
WinProcess(A) ==
    A /\ UNCHANGED <<study, processVars, deviceVars, windowsVars, ringVars,
                     overviewVars, tableVars>>
Windows(A) ==
    A /\ UNCHANGED <<study, processVars, deviceVars, winProcessVars, ringVars, overviewVars,
                     tableVars>>

Next ==
    \/ study = "changing" /\ Process(Backend(Changing)!Next)
    \/ study = "steady" /\ Process(Backend(Steady)!Next)
    \/ study = "disks" /\ Storage(Disks!Next)
    \/ study = "networks" /\ Storage(Networks!Next)
    \/ study = "readings" /\ Cpu(Readings!Next)
    \/ study = "traffic" /\ Hci(Traffic!Next)
    \/ study = "peripherals" /\ Battery(Peripherals!Next)
    \/ study = "graphics" /\ Gpu(Graphics!Next)
    \/ study = "neural" /\ Gpu(Neural!Next)
    \/ study = "fixed" /\ Graph(Fixed!GraphNext)
    \/ study = "turned" /\ Graph(Turned!GraphNext)
    \/ study = "overview" /\ Ring(Fixed!OverviewNext)
    \/ study = "table" /\ Rows(Table!Next)
    \/ study = "windows_disks" /\ Windows(WindowsDisks!Next)
    \/ study = "windows_networks" /\ Windows(WindowsNetworks!Next)
    \/ study = "windows_processes" /\ WinProcess(WindowsProcesses!Next)

Spec == Init /\ [][Next]_<<study, processVars, deviceVars, madeVars>>

-----------------------------------------------------------------------------
(* Whatever a scan ran into, the next one finds well-formed samples: after  *)
(* a complete scan one per row, in PID order (what the binary search needs), *)
(* and after a failed one exactly what it began with, with no string leaked, *)
(* shared or freed while it is used; and both sides of every rate count     *)
(* from the same earlier scan (lsm_process_scan, of Linux and of Windows;   *)
(* there except for the time of the system after a scan that could not read *)
(* it, process_backend_windows.c).                                          *)
SamplesConsistent ==
    /\ study = "changing" =>
          /\ Backend(Changing)!TypeOK /\ Backend(Changing)!SamplesIndexed
          /\ Backend(Changing)!FailedScanLeavesNoTrace /\ Backend(Changing)!StringsOwned
          /\ Backend(Changing)!RatesShareWindow
    /\ study = "steady" =>
          Backend(Steady)!TypeOK /\ Backend(Steady)!RatesShareWindow
    /\ study = "windows_processes" =>
          WindowsProcesses!TypeOK /\ WindowsProcesses!RatesShareWindow

(* However PIDs are reused, a row shows data of its own process: what       *)
(* lsm_process_enrich reads does, under any flags and failures, and what is *)
(* taken from a sample instead of /proc does too, with two exceptions that  *)
(* the steady study leaves out: a scan that does not ask for a column (the  *)
(* process_backend_reuse run shows it), and a strdup that fails for a text  *)
(* just read (process_backend_linux.c:1072, 1090, 1118).  Either way the    *)
(* sample keeps the old process's text under the new one's start ticks.     *)
RowsOwned ==
    /\ study = "changing" => Backend(Changing)!EnrichedOwned
    /\ study = "steady" => Backend(Steady)!RetainedOwned
    /\ study = "windows_processes" => WindowsProcesses!RowsOwned

(* A rate of a disk or interface is the difference of two readings of one   *)
(* device at consecutive samples, however devices are swapped, counters go  *)
(* back and readings fail; and lists under one topology generation have the *)
(* same devices in the same order, which is all the pages compare           *)
(* (monitor_storage_network.c, disk_accounting.c).  On Windows too, where a *)
(* scan that fails half way is rolled back, with its baselines, and slots   *)
(* of adapters that are gone become free (monitor_backend_windows.c).  The  *)
(* exception: a Windows disk that a scan lists without being able to read   *)
(* its counters shows the 0.0 of calloc until the next sample.              *)
RatesHonest ==
    /\ study = "disks" =>
          Disks!TypeOK /\ Disks!RatesHonest /\ Disks!GenerationTells
    /\ study = "networks" =>
          Networks!TypeOK /\ Networks!RatesHonest /\ Networks!GenerationTells
    /\ study = "windows_disks" =>
          /\ WindowsDisks!TypeOK /\ WindowsDisks!RatesHonest
          /\ WindowsDisks!ListsWhole /\ WindowsDisks!GenerationHonest
    /\ study = "windows_networks" =>
          /\ WindowsNetworks!TypeOK /\ WindowsNetworks!RatesHonest
          /\ WindowsNetworks!GenerationHonest /\ WindowsNetworks!SlotsOwned

(* Use, frequency, temperature and memory shown were measured, of what is   *)
(* there, over the time they are said to cover; and a reader that failed,   *)
(* or whose sources changed, works again as soon as its caches may be       *)
(* renewed (lsm_cpu_memory_update, lsm_sources_read_cpu_thermal).  Two      *)
(* exceptions: the use of a processor that was off line goes back to before *)
(* it went, or to the start of the machine; and interrupts and context      *)
(* switches counted over several samples, because one in between could not  *)
(* be read, are divided by the time of the last one (cpu_accounting.c).     *)
ReadingsHonest ==
    study = "readings" =>
        Readings!TypeOK /\ Readings!ReadingsHonest /\ Readings!ReadersRecover

(* What is kept of a device is of that device only. A slot of the Bluetooth *)
(* capture holds bytes of devices that have had its connection handle and   *)
(* none counted while it was bound to another address; the exception is a   *)
(* handle that is reused, whose new owner's packets count for the old one   *)
(* until a list fetched later is bound. The HCI monitor is read without     *)
(* privileges and never on a descriptor that was closed                     *)
(* (bluetooth_traffic.c); whatever part of an enumeration fails, batteries, *)
(* backend states and the slots of the HID++ worker, whose pipe outlives a  *)
(* join that timed out, name the same devices, none twice                   *)
(* (lsm_battery_enumerate, lsm_logitech_hidpp_stop); telemetry stays with   *)
(* its GPU however the list changes, is freed once, and utilization covers  *)
(* the time it is divided by, except an Intel GPU's after a sample that     *)
(* could not be read (monitor_hardware.c, intel_gpu.c, npu_telemetry.c).    *)
DevicesKeptApart ==
    /\ study = "traffic" =>
          /\ Traffic!TypeOK /\ Traffic!CapabilitiesDropped
          /\ Traffic!DescriptorOwned /\ Traffic!LinksKeptApart
    /\ study = "peripherals" =>
          /\ Peripherals!TypeOK /\ Peripherals!TablesAgree
          /\ Peripherals!CancelPipeOwned
    /\ study = "graphics" =>
          /\ Graphics!TypeOK /\ Graphics!TelemetryAligned
          /\ Graphics!BackendsOwned /\ Graphics!UseHonest
    /\ study = "neural" => Neural!TypeOK /\ Neural!UseHonest

(* A graph shows the newest samples: as long as its direction is kept the   *)
(* ring is the window of the newest and a shortened graph its newest part;  *)
(* also after it was turned the latest push is at its edge and lines are    *)
(* broken exactly at unavailable slots (sample_history.c, graph.c).  The    *)
(* Overview ring is the newest part of what was recorded, in time order,    *)
(* with a gap exactly where samples were lost and never at its end          *)
(* (lsm_overview_history_record).  The finished process table has one row   *)
(* for every process let through and, in a tree, for its ancestors, under   *)
(* its parent's row, and one group per key with the figures of its present  *)
(* members, however parents are wired and whatever an earlier collection    *)
(* left (rebuild_details_model, lsm_processes_collect_groups).              *)
ViewsFaithful ==
    /\ study = "fixed" =>
          Fixed!GraphTypeOK /\ Fixed!WindowIsNewest /\ Fixed!VisibleIsNewest
    /\ study = "turned" =>
          Turned!GraphTypeOK /\ Turned!NewestAtEdge /\ Turned!SegmentsFaithful
    /\ study = "overview" =>
          /\ Fixed!OverviewTypeOK
          /\ Fixed!RingIsNewest /\ Fixed!Chronological
          /\ Fixed!GapsWhereLost /\ Fixed!LatestIsSample
    /\ study = "table" =>
          Table!TypeOK /\ Table!TreeFaithful /\ Table!GroupsFaithful

-----------------------------------------------------------------------------
(* Whatever the study, the variables of the readings take a step of theirs  *)
(* or stay.                                                                 *)
LEMMA ReadingsApart ==
    [Next]_<<study, processVars, deviceVars, madeVars>> =>
        study' = study /\ [Readings!Next]_cpuVars
    BY DEF Next, Process, Storage, Cpu, Hci, Battery, Gpu, Graph, Ring, Rows,
           WinProcess, Windows, deviceVars

(* What is shown of processors, sensors and memory was measured, over the   *)
(* time it is said to cover, and no reader stays blind once its sources are *)
(* back: for any processors, policies and sensors, and any number of        *)
(* samples with any file unreadable, with the two exceptions ReadingsHonest *)
(* names (lsm_cpu_memory_update).                                           *)
THEOREM ReadingsAreHonest == Spec => []ReadingsHonest
<1>1. Init => ReadingsInv
    BY ReadingsStart DEF Init
<1>2. ReadingsInv /\ [Next]_<<study, processVars, deviceVars, madeVars>>
          => ReadingsInv'
    BY ReadingsStep, ReadingsApart
<1>3. ReadingsInv => ReadingsHonest
    BY ReadingsConstants
    DEF ReadingsInv, ReadingsTyped, BaselinesKept, SearchAwaited, SensorShown,
        DetailsDated, FrequencyRead, MemoryRead, ReadingsHonest,
        Readings!ReadingsHonest, Readings!ReadersRecover, Readings!TypeOK,
        Readings!Times, Readings!Cpus
<1> QED
    BY <1>1, <1>2, <1>3, PTL DEF Spec

(* Each study by itself, the others leave its variables alone.              *)
RatesInv ==
    /\ study = "disks" => DisksInv
    /\ study = "networks" => NetsInv
    /\ study = "windows_disks" => WinDisksInv
    /\ study = "windows_networks" => WinNetsInv

(* A step of one study of the rates leaves the others alone.                *)
LEMMA RatesApart ==
    [Next]_<<study, processVars, deviceVars, madeVars>> =>
        /\ study' = study
        /\ study = "disks" => [Disks!Next]_storageVars
        /\ study = "networks" => [Networks!Next]_storageVars
        /\ study = "windows_disks" => [WindowsDisks!Next]_windowsVars
        /\ study = "windows_networks" => [WindowsNetworks!Next]_windowsVars
    BY DEF Next, Process, Storage, Cpu, Hci, Battery, Gpu, Graph, Ring, Rows,
           WinProcess, Windows, deviceVars, madeVars

(* The invariant of the Linux disks gives their rates.                      *)
LEMMA DisksHonest ==
    DisksInv => Disks!TypeOK /\ Disks!RatesHonest /\ Disks!GenerationTells
<1> SUFFICES ASSUME DisksInv
             PROVE  Disks!TypeOK /\ Disks!RatesHonest /\ Disks!GenerationTells
    OBVIOUS
<1>1. Disks!TypeOK /\ DOMAIN nets = {} /\ DiskRates
    BY DEF DisksInv, DisksTyped, Disks!TypeOK
<1>2. Disks!RatesHonest
    BY <1>1 DEF DiskRates, Disks!RatesHonest
<1>3. Disks!GenerationTells
    BY DEF DisksInv, DisksTold, Disks!GenerationTells
<1> QED
    BY <1>1, <1>2, <1>3

(* The invariant of the Linux interfaces gives their rates.                 *)
LEMMA NetsHonest ==
    NetsInv => Networks!TypeOK /\ Networks!RatesHonest /\ Networks!GenerationTells
<1> SUFFICES ASSUME NetsInv
             PROVE  /\ Networks!TypeOK /\ Networks!RatesHonest
                    /\ Networks!GenerationTells
    OBVIOUS
<1>1. Networks!TypeOK /\ DOMAIN disks = {} /\ NetRates
    BY DEF NetsInv, NetsTyped, Networks!TypeOK
<1>2. Networks!RatesHonest
    BY <1>1 DEF NetRates, Networks!RatesHonest
<1>3. Networks!GenerationTells
    BY DEF NetsInv, NetsTold, Networks!GenerationTells
<1> QED
    BY <1>1, <1>2, <1>3

(* The invariant of the Windows disks gives their rates.                    *)
LEMMA WinDisksHonest ==
    WinDisksInv =>
        /\ WindowsDisks!TypeOK /\ WindowsDisks!RatesHonest
        /\ WindowsDisks!ListsWhole /\ WindowsDisks!GenerationHonest
<1> SUFFICES ASSUME WinDisksInv
             PROVE  /\ WindowsDisks!TypeOK /\ WindowsDisks!RatesHonest
                    /\ WindowsDisks!ListsWhole /\ WindowsDisks!GenerationHonest
    OBVIOUS
<1>1. /\ WindowsDisks!TypeOK /\ win_nets = <<>> /\ WinDiskRates /\ WinDisksTold
      /\ DisksWhole(win_disks, baselines, WinDisksRead)
      /\ win_step # "volumes" => VolumesRead(win_disks)
    BY DEF WinDisksInv, WinDisksTyped
<1>2. WindowsDisks!RatesHonest
  <2>1. DOMAIN win_nets = {}
    BY <1>1
  <2> QED
    BY <1>1, <2>1 DEF WinDiskRates, DiskRate, WindowsDisks!RatesHonest,
        WindowsDisks!NaN, WindowsDisks!Zero, WindowsDisks!Rate
<1>3. WindowsDisks!ListsWhole
    BY <1>1 DEF DisksWhole, VolumesRead, WindowsDisks!ListsWhole, WindowsDisks!Ids
<1>4. WindowsDisks!GenerationHonest
    BY <1>1 DEF WinDisksTold, WindowsDisks!GenerationHonest
<1> QED
    BY <1>1, <1>2, <1>3, <1>4

(* The invariant of the Windows adapters gives their rates.                 *)
LEMMA WinNetsHonest ==
    WinNetsInv =>
        /\ WindowsNetworks!TypeOK /\ WindowsNetworks!RatesHonest
        /\ WindowsNetworks!GenerationHonest /\ WindowsNetworks!SlotsOwned
<1> SUFFICES ASSUME WinNetsInv
             PROVE  /\ WindowsNetworks!TypeOK /\ WindowsNetworks!RatesHonest
                    /\ WindowsNetworks!GenerationHonest
                    /\ WindowsNetworks!SlotsOwned
    OBVIOUS
<1>1. /\ WindowsNetworks!TypeOK /\ DOMAIN win_disks = {} /\ RowsReached
      /\ WinNetsTold /\ NetsWhole(win_nets, FreshRows, win_sample)
      /\ SlotsKept(net_slots, NetIds \cup RowIds, DoneIds, win_sample)
    BY DEF WinNetsInv, WinNetsTyped
<1>2. WindowsNetworks!RatesHonest
    BY <1>1 DEF NetsWhole, FreshRows, WindowsNetworks!RatesHonest,
        WindowsNetworks!NaN, WindowsNetworks!Zero, WindowsNetworks!Rate
<1>3. WindowsNetworks!GenerationHonest
    BY <1>1 DEF WinNetsTold, WindowsNetworks!GenerationHonest
<1>4. WindowsNetworks!SlotsOwned
  <2> SUFFICES ASSUME win_step = "idle", NEW s \in WindowsNetworks!Slots,
                      net_slots[s].valid
               PROVE  /\ net_slots[s].key \in
                            WindowsNetworks!Range(WindowsNetworks!Ids(win_nets))
                      /\ \A t \in WindowsNetworks!Slots \ {s} :
                            net_slots[t].valid => net_slots[t].key # net_slots[s].key
    BY DEF WindowsNetworks!SlotsOwned
  <2>1. RowIds = {}
    BY <1>1 DEF RowsReached, RowIds
  <2>2. NetIds = WindowsNetworks!Range(WindowsNetworks!Ids(win_nets))
    BY DEF NetIds, WindowsNetworks!Range, WindowsNetworks!Ids
  <2> QED
    BY <1>1, <2>1, <2>2 DEF SlotsKept
<1> QED
    BY <1>1, <1>2, <1>3, <1>4

(* A rate shown of a disk, an interface or an adapter was taken from two    *)
(* consecutive readings of that very device, whatever was swapped, failed,  *)
(* ran backwards or was rolled back in between, and one topology generation *)
(* means one list: for any devices, tables of any size and any number of    *)
(* samples, on Linux and on Windows; only a Windows disk whose counters the *)
(* scan of this sample could not read shows a zero instead                  *)
(* (monitor_storage_network.c, disk_accounting.c,                           *)
(* monitor_backend_windows.c).                                              *)
THEOREM RatesAreHonest == Spec => []RatesHonest
<1>1. Init => RatesInv
  <2>1. Init /\ study = "disks" => Disks!Init
    BY DEF Init
  <2>2. Init /\ study = "networks" => Networks!Init
    BY DEF Init
  <2>3. Init /\ study = "windows_disks" => WindowsDisks!Init
    BY DEF Init
  <2>4. Init /\ study = "windows_networks" => WindowsNetworks!Init
    BY DEF Init
  <2> QED
    BY <2>1, <2>2, <2>3, <2>4, DisksStart, NetsStart, WinDisksStart, WinNetsStart
       DEF RatesInv
<1>2. RatesInv /\ [Next]_<<study, processVars, deviceVars, madeVars>> => RatesInv'
    BY RatesApart, DisksStep, NetsStep, WinDisksStep, WinNetsStep DEF RatesInv
<1>3. RatesInv => RatesHonest
    BY DisksHonest, NetsHonest, WinDisksHonest, WinNetsHonest
       DEF RatesInv, RatesHonest
<1> QED
    BY <1>1, <1>2, <1>3, PTL DEF Spec

DevicesInv ==
    /\ study = "traffic" => TrafficInv /\ OwnersInv
    /\ study = "peripherals" => BatteriesInv
    /\ study = "graphics" => GraphicsInv
    /\ study = "neural" => NeuralInv

(* A step of one study of the devices leaves the others alone.              *)
LEMMA DevicesApart ==
    [Next]_<<study, processVars, deviceVars, madeVars>> =>
        /\ study' = study
        /\ study = "traffic" => [Traffic!Next]_trafficVars
        /\ study = "peripherals" => [Peripherals!Next]_batteryVars
        /\ study = "graphics" => [Graphics!Next]_gpuVars
        /\ study = "neural" => [Neural!Next]_gpuVars
    BY DEF Next, Process, Storage, Cpu, Hci, Battery, Gpu, Graph, Ring, Rows,
           WinProcess, Windows, deviceVars, madeVars

(* What is kept of a device stays with it. For any Bluetooth handles,       *)
(* devices and slots a slot holds bytes of devices that have had its handle *)
(* only, none of them counted while it was bound to another address, and    *)
(* the reader never holds privileges or a descriptor that was closed; for   *)
(* any peripherals the tables of batteries and of HID++ slots agree, and    *)
(* the cancel pipe is closed by the one who owns it; for any GPUs a cache   *)
(* stays beside its GPU, its backend is destroyed exactly once, and a       *)
(* utilization other than Intel's covers the time it is divided by, as an   *)
(* NPU's does (bluetooth_traffic.c, lsm_battery_enumerate,                  *)
(* lsm_logitech_hidpp_stop, monitor_hardware.c, nvml.c, npu_telemetry.c).   *)
THEOREM DevicesStayApart == Spec => []DevicesKeptApart
<1>1. Init => DevicesInv
  <2>1. Init => Traffic!Init /\ Peripherals!Init
    BY DEF Init
  <2>2. Init /\ study = "graphics" => Graphics!Init
    BY DEF Init
  <2>3. Init /\ study = "neural" => Neural!Init
    BY DEF Init
  <2> QED
    BY <2>1, <2>2, <2>3, TrafficStart, BatteriesStart, GraphicsStart, NeuralStart
       DEF DevicesInv
<1>2. DevicesInv /\ [Next]_<<study, processVars, deviceVars, madeVars>>
          => DevicesInv'
    BY DevicesApart, TrafficStep, OwnersStep, BatteriesStep, GraphicsStep, NeuralStep
       DEF DevicesInv
<1>3. DevicesInv => DevicesKeptApart
    BY TrafficKept, BatteriesKept, GraphicsKept, NeuralKept
       DEF DevicesInv, DevicesKeptApart
<1> QED
    BY <1>1, <1>2, <1>3, PTL DEF Spec

(* The process backends, each study by itself.                              *)
ProcessesInv ==
    /\ study = "changing" => BackendInv(Changing)
    /\ study = "steady" => BackendInv(Steady) /\ OwnInv(Steady)
    /\ study = "windows_processes" => WinInv

(* A step of one study of the processes leaves the others alone.            *)
LEMMA ProcessesApart ==
    [Next]_<<study, processVars, deviceVars, madeVars>> =>
        /\ study' = study
        /\ study = "changing" => Backend(Changing)!Next \/ UNCHANGED processVars
        /\ study = "steady" => Backend(Steady)!Next \/ UNCHANGED processVars
        /\ study = "windows_processes" =>
              WindowsProcesses!Next \/ UNCHANGED winProcessVars
    BY DEF Next, Process, Storage, Cpu, Hci, Battery, Gpu, Graph, Ring, Rows,
           WinProcess, Windows, deviceVars, madeVars

(* What is assumed of the constants holds in each study.                    *)
LEMMA ProcessesAssumed ==
    /\ Backend(Changing)!BackendAssumption /\ Backend(Steady)!BackendAssumption
    /\ WindowsProcesses!BackendAssumption /\ AllAsked(Steady)
<1>1. AllAsked(Steady)
  <2>1. /\ Steady.fails = FALSE /\ Steady.flags = {{"CGROUP", "GPU"}}
        /\ Steady.texts = {"command", "cgroup"}
    BY DEF Steady
  <2> QED
    BY <2>1 DEF AllAsked
<1> QED
    BY <1>1, CollectorsAssumption

(* Each study of the processes begins in its invariant.                     *)
LEMMA ProcessesStart == Init => ProcessesInv
<1>1. Init /\ study = "changing" => Backend(Changing)!Init
    BY DEF Init
<1>2. Init /\ study = "steady" => Backend(Steady)!Init
    BY DEF Init
<1>3. Init => WindowsProcesses!Init
    BY DEF Init
<1> QED
    BY <1>1, <1>2, <1>3, ProcessesAssumed, BackendStart, OwnStart, WinStart
       DEF ProcessesInv

(* Every step of a study of the processes keeps its invariant.              *)
LEMMA ProcessesStep ==
    ProcessesInv /\ [Next]_<<study, processVars, deviceVars, madeVars>> => ProcessesInv'
<1> SUFFICES ASSUME ProcessesInv, [Next]_<<study, processVars, deviceVars, madeVars>>
             PROVE  ProcessesInv'
    OBVIOUS
<1>1. study' = study
    BY ProcessesApart
<1>2. ASSUME study = "changing" PROVE BackendInv(Changing)'
    BY <1>2, ProcessesApart, ProcessesAssumed, BackendStep DEF ProcessesInv
<1>3. ASSUME study = "steady" PROVE BackendInv(Steady)' /\ OwnInv(Steady)'
  <2>1. /\ BackendInv(Steady) /\ OwnInv(Steady)
        /\ Backend(Steady)!Next \/ UNCHANGED processVars
    BY <1>3, ProcessesApart DEF ProcessesInv
  <2>2. PlacesInv(Steady) /\ StringsInv(Steady) /\ EnrichInv(Steady)
    BY <2>1 DEF BackendInv
  <2>3. OwnInv(Steady)'
    BY <2>1, <2>2, ProcessesAssumed, OwnStep
  <2> QED
    BY <2>1, <2>3, ProcessesAssumed, BackendStep
<1>4. ASSUME study = "windows_processes" PROVE WinInv'
    BY <1>4, ProcessesApart, ProcessesAssumed, WinStep DEF ProcessesInv
<1> QED
    BY <1>1, <1>2, <1>3, <1>4 DEF ProcessesInv

(* Every scan leaves the samples as the next one needs them: in PID order   *)
(* and one per row, or exactly as a failed scan found them; every string    *)
(* with one owner and none leaked; and the two sides of a rate counting     *)
(* from one scan.  For any PIDs, processes that come and go during a scan,  *)
(* any number of scans, a generation counter of any size and strdup failing *)
(* at any time; on Windows too (process_backend_linux.c,                    *)
(* process_backend_windows.c).                                              *)
THEOREM SamplesStayConsistent == Spec => []SamplesConsistent
<1>1. ProcessesInv => SamplesConsistent
    BY ProcessesAssumed, BackendImplied, WinImplied DEF ProcessesInv, SamplesConsistent
<1> QED
    BY <1>1, ProcessesStart, ProcessesStep, PTL DEF Spec

(* A row shows its own process, whoever had the PID before or has it by the *)
(* time it is read: what lsm_process_enrich reads, under any flags; on      *)
(* Windows accounts and counters as well; and the texts and GPU figures the *)
(* Linux backend keeps in a sample, while every scan asks for the same      *)
(* columns and strdup succeeds (process_backend_linux.c,                    *)
(* process_backend_windows.c).                                              *)
THEOREM RowsStayOwned == Spec => []RowsOwned
<1>1. ProcessesInv => RowsOwned
  <2>1. OwnInv(Steady) => Backend(Steady)!RetainedOwned
    BY DEF OwnInv
  <2> QED
    BY <2>1, ProcessesAssumed, BackendImplied, WinImplied DEF ProcessesInv, RowsOwned
<1> QED
    BY <1>1, ProcessesStart, ProcessesStep, PTL DEF Spec

=============================================================================
