----------------------------- MODULE DeviceReaders -----------------------------
(***************************************************************************)
(* What the monitor reads about single devices: the answer of the          *)
(* Bluetooth service (src/bluetooth_battery.c) and what is shown of it, a   *)
(* battery (src/monitor_battery.c) with the reading of a Logitech device    *)
(* (src/logitech_hidpp_protocol.c), the graphics clients of a process       *)
(* (src/process_gpu.c), the counters of an Intel GPU (src/intel_gpu.c) with *)
(* the summary of its engines (src/monitor_hardware.c), and the list of     *)
(* NPUs (src/monitor_hardware.c, src/npu_telemetry.c).                      *)
(*                                                                         *)
(* One record variable per part; "study" says which part a behaviour is    *)
(* about.  NA stands for a value that could not be read (NaN).             *)
(***************************************************************************)
EXTENDS Integers, Sequences, FiniteSets, SequencesExt

CONSTANTS
    Studies,        \* The parts looked at.
    Replies,        \* Answers of GetManagedObjects, as sequences of objects.
    MaxAdapters,    \* LSM_BLUETOOTH_ADAPTER_MAX, 4.
    MaxDevices,     \* LSM_BLUETOOTH_DEVICE_MAX, 32.
    MaxBatteries,   \* LSM_BLUETOOTH_BATTERY_MAX, 16.
    Supplies,       \* States of a power supply's directory.
    Payloads,       \* Answers of a Logitech device.
    Descriptors,    \* Descriptor tables of a process, as sequences of files.
    MaxEngines,     \* LSM_PROCESS_GPU_MAX_ENGINES, 16.
    MaxRegions,     \* LSM_PROCESS_GPU_MAX_REGIONS, 32.
    MaxClients,     \* LSM_PROCESS_GPU_MAX_CLIENTS, 128.
    Events,         \* Event directories of a GPU's PMU.
    MaxCounters,    \* LSM_INTEL_MAX_COUNTERS, 64.
    Busy,           \* Percentages an engine may show.
    EnergyRange,    \* Range of the energy counter; it wraps there.
    Limits,         \* Temperature limits a driver may tell.
    Accels,         \* Contents of /sys/class/accel, as sets of entries.
    MaxNpus,        \* LSM_MAX_NPUS, 8.
    MaxChanges      \* Bound: changes of the world, and readings.

Parts == {"bluez", "supply", "drm", "gpu", "npus"}

NA == -1

DeviceAssumption ==
    /\ Studies \subseteq Parts
    /\ {MaxAdapters, MaxDevices, MaxBatteries, MaxEngines, MaxRegions, MaxClients,
        MaxCounters, EnergyRange, MaxNpus} \subseteq Nat \ {0}
    /\ Busy \subseteq 0 .. 100 /\ MaxChanges \in Nat

VARIABLES
    study,
    bt,         \* The service, the worker's cache and what is shown.
    supply,     \* The directory, the device's reading and the battery shown.
    drm,        \* The reading of a process's descriptors.
    gpu,        \* Counters, baselines and what is shown.
    accel       \* The directory, a walk through it and the list shown.

vars == <<study, bt, supply, drm, gpu, accel>>

None == "none"
FirstOf(texts) ==
    LET told == SelectSeq(texts, LAMBDA t : t # "") IN IF told = <<>> THEN "" ELSE told[1]

-----------------------------------------------------------------------------
(* The Bluetooth service.  An object has a path, interfaces, and the        *)
(* properties of its device, "" when missing; "under" is the part of its    *)
(* path before "/dev_", "pathaddress" the one after it.                     *)

AdapterPath(o) == FirstOf(<<o.adapter, o.under>>)
Of(objects, interface) == SelectSeq(objects, LAMBDA o : interface \in o.interfaces)
Refused == [ok |-> FALSE, list |-> <<>>]
Accepted(list) == [ok |-> TRUE, list |-> list]

(* An adapter with its devices: counted, and the connected ones named.      *)
AdapterRecord(objects, a) ==
    LET mine == SelectSeq(Of(objects, "device"), LAMBDA o : AdapterPath(o) = a.path)
        With(flag) == SelectSeq(mine, LAMBDA o : flag \in o.flags)
    IN [path |-> a.path, name |-> FirstOf(<<a.name, a.path>>), devices |-> Len(mine),
        paired |-> Len(With("paired")), trusted |-> Len(With("trusted")),
        connected |-> Len(With("connected")),
        names |-> [i \in DOMAIN With("connected") |->
                      LET o == With("connected")[i]
                      IN FirstOf(<<o.alias, o.name, o.address>>)]]

lsm_bluetooth_adapter_parse_objects_checked(objects) ==
    LET adapters == Of(objects, "adapter")
    IN IF Len(adapters) > MaxAdapters THEN Refused
       ELSE Accepted([i \in DOMAIN adapters |-> AdapterRecord(objects, adapters[i])])

(* The alias falls back on the name, then the address; the name on the      *)
(* alias.                                                                   *)
DeviceRecord(o) ==
    [path |-> o.path, controller |-> FirstOf(<<AdapterPath(o), "Bluetooth">>),
     address |-> o.address, flags |-> o.flags,
     alias |-> FirstOf(<<o.alias, o.name, o.address>>),
     name |-> FirstOf(<<o.name, o.alias, o.address, "Bluetooth device">>)]

lsm_bluetooth_device_parse_objects_checked(objects) ==
    LET devices == Of(objects, "device")
    IN IF Len(devices) > MaxDevices THEN Refused
       ELSE Accepted([i \in DOMAIN devices |-> DeviceRecord(devices[i])])

(* Only connected devices with a percentage that can be true.               *)
lsm_bluetooth_battery_parse_objects_checked(objects) ==
    LET charged == SelectSeq(Of(Of(objects, "battery"), "device"), LAMBDA o :
                       "connected" \in o.flags /\ o.percent \in 0 .. 100)
    IN IF Len(charged) > MaxBatteries THEN Refused
       ELSE Accepted([i \in DOMAIN charged |->
                [path |-> charged[i].path, percent |-> charged[i].percent,
                 address |-> FirstOf(<<charged[i].address, charged[i].pathaddress>>),
                 name |-> FirstOf(<<charged[i].alias, charged[i].name, "Bluetooth device">>)]])

(* All three lists of one answer, or none of them.                          *)
collect_bluez_snapshot(objects) ==
    LET batteries == lsm_bluetooth_battery_parse_objects_checked(objects)
        adapters == lsm_bluetooth_adapter_parse_objects_checked(objects)
        devices == lsm_bluetooth_device_parse_objects_checked(objects)
    IN [ok |-> batteries.ok /\ adapters.ok /\ devices.ok, batteries |-> batteries.list,
        adapters |-> adapters.list, devices |-> devices.list, from |-> objects]

NoSnapshot == [ok |-> TRUE, batteries |-> <<>>, adapters |-> <<>>, devices |-> <<>>,
               from |-> <<>>]

(* "number" counts the snapshots kept; a reader remembers which ones it     *)
(* copied from.                                                             *)
BluezInit(objects) ==
    [world |-> objects, changes |-> 0, asked |-> <<>>, cache |-> NoSnapshot, number |-> 0,
     held |-> [adapters |-> <<>>, number |-> 0],
     shown |-> [adapters |-> <<>>, devices |-> <<>>, of |-> <<0, 0>>, from |-> <<>>],
     pc |-> "idle"]

BluezChanges ==
    /\ study = "bluez" /\ bt.changes < MaxChanges
    /\ \E objects \in Replies : bt' = [bt EXCEPT !.world = objects, !.changes = @ + 1]
    /\ UNCHANGED <<study, supply, drm, gpu, accel>>

(* The worker's call; it may fail, and then nothing happens.                *)
BluezAnswers ==
    /\ study = "bluez" /\ bt.asked = <<>>
    /\ bt' = [bt EXCEPT !.asked = <<collect_bluez_snapshot(bt.world)>>]
    /\ UNCHANGED <<study, supply, drm, gpu, accel>>

bluetooth_worker ==
    /\ study = "bluez" /\ bt.asked # <<>> /\ bt.number < MaxChanges
    /\ bt' = IF bt.asked[1].ok
             THEN [bt EXCEPT !.cache = bt.asked[1], !.number = @ + 1, !.asked = <<>>]
             ELSE [bt EXCEPT !.asked = <<>>]
    /\ UNCHANGED <<study, supply, drm, gpu, accel>>

(* The sampler copies adapters and devices under two separate locks; the    *)
(* limits are the cache's own.                                              *)
lsm_bluetooth_adapter_snapshot ==
    /\ study = "bluez" /\ bt.pc = "idle"
    /\ bt' = [bt EXCEPT !.held = [adapters |-> bt.cache.adapters, number |-> bt.number],
                        !.pc = "devices"]
    /\ UNCHANGED <<study, supply, drm, gpu, accel>>

lsm_bluetooth_enumerate ==
    /\ study = "bluez" /\ bt.pc = "devices"
    /\ bt' = [bt EXCEPT !.pc = "idle", !.shown =
          [adapters |-> bt.held.adapters,
           devices |-> SelectSeq(bt.cache.devices,
                          LAMBDA d : "connected" \in d.flags /\ d.address # ""),
           of |-> <<bt.held.number, bt.number>>, from |-> bt.cache.from]]
    /\ UNCHANGED <<study, supply, drm, gpu, accel>>

(* What is shown is never part of an answer: a list that did not fit left   *)
(* the earlier ones alone.  When both lists come from one answer, each      *)
(* connected device stands under the adapter that counts it, whether the    *)
(* service named the adapter or only the path does; and the devices are     *)
(* never older than the adapters.                                           *)
BluezWhole ==
    study = "bluez" =>
        /\ bt.shown.of[1] <= bt.shown.of[2]
        /\ bt.shown.of[1] = bt.shown.of[2] =>
              \A i \in DOMAIN bt.shown.adapters :
                 LET a == bt.shown.adapters[i]
                     mine == {o \in Range(bt.shown.from) :
                                 "device" \in o.interfaces /\ "connected" \in o.flags
                                 /\ o.path \in {d.path : d \in {e \in Range(bt.shown.devices) :
                                                                   e.controller = a.path}}}
                     anonymous == {o \in Range(bt.shown.from) :
                                      /\ "device" \in o.interfaces /\ o.address = ""
                                      /\ "connected" \in o.flags /\ AdapterPath(o) = a.path}
                 IN a.connected = Cardinality(mine) + Cardinality(anonymous)
        /\ \A o \in Range(bt.shown.from) :
              ("device" \in o.interfaces /\ "connected" \in o.flags /\ o.address # "") =>
                 \E d \in Range(bt.shown.devices) : d.path = o.path

-----------------------------------------------------------------------------
(* A battery.  The directory's files are read one after another, and may    *)
(* change between two readings: status and charge first, then the           *)
(* electrical values, then the time left.  Energy in watt hours, power in   *)
(* watts, charge in ampere hours.                                           *)

set_level_from_percent(p) ==
    CASE p >= 100 -> "Full" [] p \in 81 .. 99 -> "High" [] p \in 31 .. 80 -> "Normal"
      [] p \in 11 .. 30 -> "Low" [] OTHER -> "Critical"

set_battery_status(s) ==
    CASE s = 0 -> "Discharging" [] s \in {1, 2} -> "Charging" [] s = 3 -> "Full"
      [] s = 4 -> "Charging slowly" [] s = 5 -> "Invalid battery"
      [] s = 6 -> "Thermal error" [] s = 7 -> "Charging error" [] OTHER -> "Unknown"

set_unified_battery_status(s) ==
    CASE s = 0 -> "Charging" [] s = 1 -> "Full" [] s = 2 -> "Discharging"
      [] s = 7 -> "Charging error" [] OTHER -> "Unknown"

Exact(p) == p \in 1 .. 100

lsm_logitech_hidpp_parse_1000(p) ==
    [status |-> set_battery_status(p.status), percent |-> IF Exact(p.percent) THEN p.percent ELSE NA,
     level |-> IF Exact(p.percent) THEN set_level_from_percent(p.percent)
               ELSE IF p.status = 3 THEN "Full" ELSE ""]

(* The highest bit set tells the level when no percentage does.             *)
lsm_logitech_hidpp_parse_1004(p) ==
    [status |-> set_unified_battery_status(p.status),
     percent |-> IF Exact(p.percent) THEN p.percent ELSE NA,
     level |-> CASE Exact(p.percent) -> set_level_from_percent(p.percent)
                 [] p.bits >= 8 -> "Full" [] p.bits \in 4 .. 7 -> "Normal"
                 [] p.bits \in 2 .. 3 -> "Low" [] p.bits = 1 -> "Critical" [] OTHER -> ""]

Reading(p) == IF p.feature = "1004" THEN lsm_logitech_hidpp_parse_1004(p)
              ELSE lsm_logitech_hidpp_parse_1000(p)

battery_energy_wh(energy, charge, voltage) ==
    CASE energy # NA -> energy [] charge # NA /\ voltage > 0 -> charge * voltage [] OTHER -> NA

battery_seconds_from_hours(wh, watts) == IF wh <= 0 THEN 0 ELSE (wh * 3600) \div watts

hidpp_status_matches(sysfs, hidpp) ==
    /\ hidpp # ""
    /\ sysfs \in {"", "Unknown"} \/ sysfs = hidpp

lsm_battery_apply_hidpp_reading(b, reading) ==
    IF ~hidpp_status_matches(b.status, reading.status) THEN b
    ELSE [b EXCEPT
            !.status = IF @ \in {"", "Unknown"} THEN reading.status ELSE @,
            !.level = IF reading.level # "" THEN reading.level ELSE @,
            !.percent = IF reading.percent # NA THEN reading.percent ELSE @,
            !.source = "hidpp", !.of = reading.status]

NoBattery == [status |-> "", percent |-> NA, level |-> "", peripheral |-> FALSE,
              energy |-> NA, full |-> NA, word |-> "", health |-> NA, power |-> NA, seconds |-> 0,
              ac |-> FALSE, acknown |-> FALSE, source |-> "sysfs", of |-> "", told |-> FALSE]

(* "of" and "told" remember where a value came from.                        *)
(* "extra" is a percentage known from the Bluetooth service, "hidraw" says  *)
(* that the battery belongs to a Logitech device.                           *)
SupplyInit(s, extra, hidraw) ==
    [dir |-> s, changes |-> 0, answer |-> <<>>, extra |-> extra, hidraw |-> hidraw,
     walked |-> <<>>, b |-> NoBattery, pc |-> "idle"]

SupplyChanges ==
    /\ study = "supply" /\ supply.changes < MaxChanges
    /\ \E s \in Supplies \ {supply.dir} :
          supply' = [supply EXCEPT !.dir = s, !.changes = @ + 1]
    /\ UNCHANGED <<study, bt, drm, gpu, accel>>

(* external: the device's worker has an answer.                             *)
DeviceAnswers ==
    /\ study = "supply" /\ supply.hidraw
    /\ \E p \in Payloads : supply' = [supply EXCEPT !.answer = <<Reading(p)>>]
    /\ UNCHANGED <<study, bt, drm, gpu, accel>>

(* The other supplies: one that is online ends the walk; an error makes it  *)
(* worth nothing.                                                           *)
power_supply_online ==
    /\ study = "supply" /\ supply.pc = "idle"
    /\ \/ supply' = [supply EXCEPT !.pc = "status", !.walked = <<supply.dir.mains>>]
       \/ supply' = [supply EXCEPT !.pc = "status", !.walked = <<>>]
    /\ UNCHANGED <<study, bt, drm, gpu, accel>>

Within(p) == IF p > 100 THEN 100 ELSE p

(* Status, health, scope, level and percentage; a scope that cannot be read *)
(* stays, and a percentage the files do not tell is the service's.          *)
ReadStatus ==
    LET s == supply.dir
    IN /\ study = "supply" /\ supply.pc = "status"
       /\ supply' = [supply EXCEPT !.pc = "energy",
              !.b.status = s.status, !.b.level = s.level, !.b.source = "sysfs",
              !.b.word = s.health, !.b.told = s.capacity # NA,
              !.b.peripheral = IF s.scope = "" THEN @ ELSE s.scope = "Device",
              !.b.percent = IF s.capacity # NA THEN Within(s.capacity) ELSE supply.extra]
       /\ UNCHANGED <<study, bt, drm, gpu, accel>>

Health(full, design) ==
    IF full # NA /\ design > 0 THEN Within((100 * full) \div design) ELSE NA

(* The health is the driver's word, or full against design.                 *)
ReadEnergy ==
    LET s == supply.dir
        full == battery_energy_wh(s.full, s.chargefull, s.voltage)
    IN /\ study = "supply" /\ supply.pc = "energy"
       /\ supply' = [supply EXCEPT !.pc = "time",
              !.b.energy = battery_energy_wh(s.energy, s.charge, s.voltage),
              !.b.full = full,
              !.b.health = IF supply.b.word \in {"", "Unknown"} THEN Health(full, s.design)
                           ELSE NA,
              !.b.power = CASE s.power # NA -> s.power
                            [] s.voltage # NA /\ s.current # NA -> s.voltage * s.current
                            [] OTHER -> NA,
              !.b.acknown = supply.walked # <<>> /\ ~supply.b.peripheral,
              !.b.ac = IF supply.walked # <<>> /\ ~supply.b.peripheral
                       THEN supply.walked[1] ELSE @]
       /\ UNCHANGED <<study, bt, drm, gpu, accel>>

(* The time left: the driver's, or estimated from what is missing when      *)
(* charging and from what is there when discharging.                        *)
SecondsLeft(b, file) ==
    CASE b.status \notin {"Charging", "Discharging"} -> 0
      [] file # NA -> file
      [] b.power <= 0 \/ b.energy = NA -> 0
      [] b.status = "Discharging" -> battery_seconds_from_hours(b.energy, b.power)
      [] b.full = NA -> 0
      [] OTHER -> battery_seconds_from_hours(b.full - b.energy, b.power)

lsm_battery_update ==
    LET timed == [supply.b EXCEPT !.seconds = SecondsLeft(supply.b,
                     IF supply.b.status = "Charging" THEN supply.dir.tofull
                     ELSE supply.dir.toempty)]
    IN /\ study = "supply" /\ supply.pc = "time"
       /\ supply' = [supply EXCEPT !.pc = "idle", !.b =
              IF supply.hidraw /\ supply.answer # <<>>
              THEN lsm_battery_apply_hidpp_reading(timed, supply.answer[1]) ELSE timed]
       /\ UNCHANGED <<study, bt, drm, gpu, accel>>

(* A battery between two updates: percentages are percentages; a time left  *)
(* belongs to a battery shown as charging or discharging, also when the     *)
(* charge exceeds the capacity; the mains are told only after a whole walk, *)
(* and never for a peripheral; a Logitech reading is shown only under its   *)
(* own status, and its level agrees with its percentage.                    *)
BatteryHonest ==
    (study = "supply" /\ supply.pc = "idle") =>
        LET b == supply.b
        IN /\ {b.percent, b.health} \subseteq 0 .. 100 \cup {NA}
           /\ b.seconds > 0 => b.status \in {"Charging", "Discharging"}
           /\ b.seconds \in Nat
           /\ b.acknown => supply.walked # <<>> /\ ~b.peripheral
           /\ b.acknown => b.ac = supply.walked[1]
           /\ b.source = "hidpp" =>
                 supply.hidraw /\ b.status # "" /\ b.status = b.of
           /\ (b.source = "hidpp" /\ b.percent # NA /\ ~b.told /\ supply.extra = NA) =>
                 b.level = set_level_from_percent(b.percent)

-----------------------------------------------------------------------------
(* The graphics clients of a process.  A descriptor's file is a set of      *)
(* lines read in any order: keys "driver", "pdev", "minor", "client",       *)
(* "engine", "capacity", "resident", "memory"; a value of NA does not       *)
(* parse.                                                                   *)

NoClient == [driver |-> "", device |-> "", id |-> NA, engines |-> <<>>, regions |-> <<>>,
             recognised |-> FALSE, complete |-> TRUE, memory |-> FALSE]
NoSummary == [engines |-> <<>>, bytes |-> 0, memory |-> FALSE]
At(list, name) == {i \in DOMAIN list : list[i].name = name}

(* The list with an engine's time added, or nothing when it is full.        *)
add_engine(engines, name, time, capacity, timed) ==
    LET at == At(engines, name)
    IN IF at # {}
       THEN LET i == CHOOSE j \in at : TRUE
            IN <<[engines EXCEPT ![i].time = @ + time, ![i].timed = @ \/ timed,
                     ![i].capacity = IF capacity > @ THEN capacity ELSE @]>>
       ELSE IF Len(engines) >= MaxEngines THEN <<>>
       ELSE <<Append(engines, [name |-> name, time |-> time, timed |-> timed,
                               capacity |-> IF capacity > 0 THEN capacity ELSE 1])>>

(* What is resident counts before what is allocated.                        *)
set_memory_region(regions, name, bytes, resident) ==
    LET at == At(regions, name)
    IN IF at # {}
       THEN LET i == CHOOSE j \in at : TRUE
            IN <<[regions EXCEPT
                     ![i].bytes = IF resident \/ ~regions[i].resident THEN bytes ELSE @,
                     ![i].resident = @ \/ resident]>>
       ELSE IF Len(regions) >= MaxRegions THEN <<>>
       ELSE <<Append(regions, [name |-> name, bytes |-> bytes, resident |-> resident])>>

(* A list that is full leaves the client incomplete.                        *)
WithEngines(c, list) ==
    IF list = <<>> THEN [c EXCEPT !.complete = FALSE] ELSE [c EXCEPT !.engines = list[1]]
WithRegions(c, list) ==
    IF list = <<>> THEN [c EXCEPT !.complete = FALSE] ELSE [c EXCEPT !.regions = list[1]]

read_client_file(c, l) ==
    CASE l.key = "driver" -> [c EXCEPT !.driver = l.name]
      [] l.key = "pdev" -> [c EXCEPT !.device = l.name]
      [] l.key = "minor" -> [c EXCEPT !.device = IF @ = "" THEN l.name ELSE @]
      [] l.key = "client" -> [c EXCEPT !.id = l.value]
      [] l.key = "capacity" ->
            IF l.value <= 0 THEN c
            ELSE WithEngines(c, add_engine(c.engines, l.name, 0, l.value, FALSE))
      [] l.key = "engine" ->
            IF l.value = NA THEN c
            ELSE [WithEngines(c, add_engine(c.engines, l.name, l.value, 1, TRUE))
                     EXCEPT !.recognised = TRUE]
      [] OTHER ->
            IF l.value = NA THEN c
            ELSE [WithRegions(c, set_memory_region(c.regions, l.name, l.value,
                                                   l.key = "resident"))
                     EXCEPT !.recognised = TRUE, !.memory = TRUE]

ClientKey(c, fd) == IF c.id # NA THEN <<c.driver, c.device, c.id>> ELSE <<"fd", "", fd>>

DrmInit(fds) ==
    [fds |-> fds, at |-> 1, left |-> IF fds = <<>> THEN {} ELSE fds[1].lines,
     client |-> NoClient, seen |-> {}, sum |-> NoSummary, pc |-> "read", ok |-> FALSE]

ReadLine ==
    /\ study = "drm" /\ drm.pc = "read" /\ drm.at <= Len(drm.fds)
    /\ \E l \in drm.left :
          drm' = [drm EXCEPT !.left = @ \ {l}, !.client = read_client_file(@, l)]
    /\ UNCHANGED <<study, bt, supply, gpu, accel>>

client_seen(seen, key) == key \in seen

(* The client's engines, under the name of its device, join the process's.  *)
JoinEngines(sum, c) ==
    FoldLeft(LAMBDA list, e :
                IF list = <<>> \/ ~e.timed THEN list
                ELSE add_engine(list[1], <<c.driver, c.device, e.name>>, e.time,
                                e.capacity, TRUE),
             <<sum.engines>>, c.engines)

BytesOf(c) == FoldLeft(LAMBDA n, r : n + r.bytes, 0, c.regions)

NextDescriptor(d) ==
    [d EXCEPT !.at = @ + 1, !.client = NoClient,
        !.left = IF d.at < Len(d.fds) THEN d.fds[d.at + 1].lines ELSE {}]
Incomplete(d) == [d EXCEPT !.pc = "done", !.sum = NoSummary, !.ok = FALSE]

FileEnds ==
    LET c == drm.client
        key == ClientKey(c, drm.at)
        joined == JoinEngines(drm.sum, c)
    IN /\ study = "drm" /\ drm.pc = "read" /\ drm.at <= Len(drm.fds) /\ drm.left = {}
       /\ drm' = IF ~c.complete THEN Incomplete(drm)
                 ELSE IF ~c.recognised \/ client_seen(drm.seen, key) THEN NextDescriptor(drm)
                 ELSE IF Cardinality(drm.seen) >= MaxClients \/ joined = <<>>
                 THEN Incomplete(drm)
                 ELSE NextDescriptor([drm EXCEPT !.seen = @ \cup {key},
                          !.sum.engines = joined[1], !.sum.bytes = @ + BytesOf(c),
                          !.sum.memory = @ \/ c.memory])
       /\ UNCHANGED <<study, bt, supply, gpu, accel>>

(* A file that cannot be opened any more is passed over; one that cannot be *)
(* read to its end, or a directory that cannot, leaves nothing.             *)
DescriptorCloses ==
    /\ study = "drm" /\ drm.pc = "read" /\ drm.at <= Len(drm.fds)
    /\ drm.left = drm.fds[drm.at].lines
    /\ drm' = NextDescriptor([drm EXCEPT !.fds[drm.at].lines = {}])
    /\ UNCHANGED <<study, bt, supply, gpu, accel>>

ReadFails ==
    /\ study = "drm" /\ drm.pc = "read"
    /\ drm' = Incomplete(drm)
    /\ UNCHANGED <<study, bt, supply, gpu, accel>>

lsm_process_gpu_read ==
    /\ study = "drm" /\ drm.pc = "read" /\ drm.at > Len(drm.fds)
    /\ drm' = [drm EXCEPT !.pc = "done",
                  !.ok = drm.sum.engines # <<>> \/ drm.sum.memory]
    /\ UNCHANGED <<study, bt, supply, gpu, accel>>

(* The files in truth: clients, what is resident in each region (or         *)
(* allocated, when the driver does not tell), and the time of each engine.  *)
Told(lines, key) == {l \in lines : l.key = key /\ l.value # NA}
TrueId(f) == [driver |-> {l.name : l \in {k \in f.lines : k.key = "driver"}},
              device |-> IF \E l \in f.lines : l.key = "pdev"
                         THEN {l.name : l \in {k \in f.lines : k.key = "pdev"}}
                         ELSE {l.name : l \in {k \in f.lines : k.key = "minor"}},
              id |-> {l.value : l \in Told(f.lines, "client")}]
TrueClients(fds) ==
    {f \in Range(fds) :
        \A g \in Range(fds) :
           (TrueId(f) = TrueId(g) /\ TrueId(f).id # {} /\ g.lines # {} /\ f.lines # {})
              => f.fd <= g.fd}
TrueBytes(f) ==
    MapThenSumSet(LAMBDA l : l.value,
        Told(f.lines, "resident") \cup
        {l \in Told(f.lines, "memory") :
            \A k \in Told(f.lines, "resident") : k.name # l.name})
TrueTime(f) == MapThenSumSet(LAMBDA l : l.value, Told(f.lines, "engine"))

(* The graphics use of a process does not depend on the order of a file's   *)
(* lines, counts a client once however many descriptors it holds, and is    *)
(* told whole or not at all.                                                *)
ClientsCountedOnce ==
    (study = "drm" /\ drm.pc = "done") =>
        IF ~drm.ok THEN drm.sum.engines = <<>> /\ drm.sum.bytes = 0
        ELSE /\ drm.sum.bytes = MapThenSumSet(TrueBytes, TrueClients(drm.fds))
             /\ FoldLeft(LAMBDA n, e : n + e.time, 0, drm.sum.engines) =
                   MapThenSumSet(TrueTime, TrueClients(drm.fds))

-----------------------------------------------------------------------------
(* An Intel GPU.  An event of its PMU has a class of engine, or is a        *)
(* frequency; "opens" says that the counter can be opened, which the        *)
(* system's policy may forbid.                                              *)

Classes == {"render", "compute", "video", "enhance", "copy"}
Order == <<"render", "compute", "video", "enhance", "copy", "overall">>

GpuInit(events, average, range, limits) ==
    [events |-> events, at |-> 1, engines |-> <<>>, frequency |-> FALSE, denied |-> FALSE,
     complete |-> TRUE, average |-> average, range |-> range, limits |-> limits,
     used |-> 0, base |-> NA, baseused |-> 0, readings |-> 0,
     shown |-> [busy |-> [c \in {} |-> 0], active |-> None, power |-> NA, spent |-> NA,
                source |-> None, clock |-> FALSE, warning |-> NA, critical |-> NA],
     pc |-> "discover"]

(* One entry of the event directory: more engines than fit make the         *)
(* discovery incomplete.                                                    *)
DiscoverEvent ==
    LET e == gpu.events[gpu.at]
        g == [gpu EXCEPT !.at = @ + 1,
                         !.denied = @ \/ (e.class # "unit" /\ ~e.opens)]
    IN /\ study = "gpu" /\ gpu.pc = "discover" /\ gpu.at <= Len(gpu.events)
       /\ gpu' = CASE e.class = "unit" -> g
                   [] e.class = "frequency" -> [g EXCEPT !.frequency = @ \/ e.opens]
                   [] Len(gpu.engines) >= MaxCounters ->
                         [gpu EXCEPT !.at = @ + 1, !.complete = FALSE]
                   [] e.opens -> [g EXCEPT !.engines = Append(@, e.class)]
                   [] OTHER -> g
       /\ UNCHANGED <<study, bt, supply, drm, accel>>

(* Counters of a discovery that was not whole are closed again.             *)
discover_events(g, complete) ==
    IF complete THEN [g EXCEPT !.pc = "ready"]
    ELSE [g EXCEPT !.pc = "ready", !.engines = <<>>, !.frequency = FALSE]

DiscoveryEnds ==
    /\ study = "gpu" /\ gpu.pc = "discover"
    /\ \/ gpu.at > Len(gpu.events) /\ gpu' = discover_events(gpu, gpu.complete)
       \/ gpu' = discover_events([gpu EXCEPT !.complete = FALSE], FALSE)
    /\ UNCHANGED <<study, bt, supply, drm, accel>>

(* external: energy is used.                                                *)
EnergyIsUsed ==
    /\ study = "gpu" /\ gpu.pc = "ready" /\ gpu.used < 2 * EnergyRange
    /\ gpu' = [gpu EXCEPT !.used = @ + 1]
    /\ UNCHANGED <<study, bt, supply, drm, accel>>

Highest(values) == CHOOSE v \in values : \A w \in values : w <= v

(* The engines read: by class the busiest, and the busiest of all; other    *)
(* classes count for the whole only.                                        *)
lsm_intel_gpu_refresh(engines, values) ==
    LET read == {i \in DOMAIN engines : values[i] # NA}
        named == {engines[i] : i \in read} \cap Classes
    IN [c \in named \cup (IF read = {} THEN {} ELSE {"overall"}) |->
           Highest({values[i] : i \in {j \in read : c = "overall" \/ engines[j] = c}})]

(* The first of the busiest, unless nothing is busy.                        *)
update_gpu_active_engine(busy) ==
    LET told == SelectSeq(Order, LAMBDA c : c \in DOMAIN busy)
        first == {i \in DOMAIN told :
                     /\ \A j \in DOMAIN told : busy[told[j]] <= busy[told[i]]
                     /\ \A j \in 1 .. i - 1 : busy[told[j]] < busy[told[i]]}
    IN IF told = <<>> THEN "N/A"
       ELSE LET i == CHOOSE k \in first : TRUE
            IN IF busy[told[i]] = 0 THEN "Idle" ELSE told[i]

(* Energy since the last reading; a counter that went back has wrapped when *)
(* its range is known, and else tells nothing.                              *)
update_power(g) ==
    LET value == g.used % EnergyRange
    IN [base |-> value,
        spent |-> CASE g.base = NA -> NA
                    [] value >= g.base -> value - g.base
                    [] g.range -> (EnergyRange - g.base) + value
                    [] OTHER -> NA]

(* The limits of the temperature, each only within reason, the warning only *)
(* below the critical one.                                                  *)
Within30And150(t) == IF t \in 30 .. 150 THEN t ELSE NA
TemperatureLimits(limits) ==
    LET w == Within30And150(limits.warning)
        c == Within30And150(limits.critical)
    IN [warning |-> IF c # NA /\ w > c THEN NA ELSE w, critical |-> c]

update_gpus ==
    /\ study = "gpu" /\ gpu.pc = "ready" /\ gpu.readings < MaxChanges
    /\ \E values \in [DOMAIN gpu.engines -> Busy \cup {NA}], energy, temperature \in BOOLEAN :
          LET busy == lsm_intel_gpu_refresh(gpu.engines, values)
              power == IF gpu.average \/ ~energy THEN [base |-> gpu.base, spent |-> NA]
                       ELSE update_power(gpu)
              any == busy # <<>> \/ gpu.frequency \/ temperature \/ gpu.average
                        \/ power.spent # NA
              limits == TemperatureLimits(gpu.limits)
          IN gpu' = [gpu EXCEPT !.readings = @ + 1, !.base = power.base,
                        !.baseused = IF gpu.average \/ ~energy THEN @ ELSE gpu.used,
                        !.shown = [busy |-> busy, active |-> update_gpu_active_engine(busy),
                                   power |-> power.spent, clock |-> gpu.frequency,
                                   spent |-> IF gpu.base = NA \/ gpu.average \/ ~energy
                                             THEN NA ELSE gpu.used - gpu.baseused,
                                   source |-> CASE busy # <<>> -> "PMU" [] any -> "driver"
                                                [] gpu.denied -> "restricted"
                                                [] OTHER -> @.source,
                                   warning |-> limits.warning,
                                   critical |-> limits.critical]]
    /\ UNCHANGED <<study, bt, supply, drm, accel>>

(* An Intel GPU has the counters of all events that open, or none; the      *)
(* engine named is one no other surpasses; the energy told was used since   *)
(* the reading before, also when the counter wrapped in between, as long as *)
(* it did so once; and a warning limit never lies above the critical one.   *)
EnginesTrue ==
    (study = "gpu" /\ gpu.pc = "ready") =>
        /\ gpu.engines # <<>> =>
              gpu.engines = [i \in 1 .. Len(gpu.engines) |->
                  SelectSeq(gpu.events, LAMBDA e :
                      e.opens /\ e.class \notin {"unit", "frequency"})[i].class]
        /\ gpu.engines # <<>> => gpu.complete
        /\ gpu.shown.active \notin {None, "N/A"} =>
              \A c \in DOMAIN gpu.shown.busy :
                 gpu.shown.busy[c] <= IF gpu.shown.active = "Idle" THEN 0
                                      ELSE gpu.shown.busy[gpu.shown.active]
        /\ gpu.shown.power # NA =>
              gpu.shown.spent >= EnergyRange \/ gpu.shown.power = gpu.shown.spent
        /\ (gpu.shown.warning # NA /\ gpu.shown.critical # NA) =>
              gpu.shown.warning <= gpu.shown.critical

-----------------------------------------------------------------------------
(* NPUs.  An entry of the class directory has the number of its device, the *)
(* driver bound to that, its product name and the attributes it offers.     *)
(* Histories: the devices that were there throughout the walk under way,    *)
(* and at some time during it; both, of the last walk that was whole; and   *)
(* the drivers each device has had.                                         *)

IntelDrivers == {"intel_vpu", "ivpu"}
IntelAttributes == {"npu_busy_time_us", "npu_memory_utilization", "current_freq"}

(* Attributes whose unit is known: an Intel driver's own, or names that say *)
(* it.  No attribute, no telemetry.                                         *)
lsm_npu_telemetry_create(driver, attributes) ==
    IF driver \in IntelDrivers THEN attributes \cap IntelAttributes
    ELSE attributes \ IntelAttributes

(* A device whose link cannot be followed any more goes by the link itself. *)
NpuRecord(n) ==
    [device |-> n.device, link |-> FALSE, driver |-> n.driver,
     name |-> FirstOf(<<n.product, n.driver, "NPU">>)]
LinkRecord(device) == [device |-> device, link |-> TRUE, driver |-> "", name |-> "NPU"]

SameNpu(a, b) == a.device = b.device /\ a.link = b.link

DevicesIn(dir) == {n.device : n \in dir}

AccelInit(dir) ==
    [dir |-> dir, changes |-> 0, walking |-> FALSE, left |-> {}, found |-> <<>>,
     complete |-> TRUE, shown |-> <<>>, telemetry |-> <<>>, throughout |-> {},
     met |-> {}, sure |-> {}, possible |-> {},
     bound |-> {<<n.device, n.driver>> : n \in dir}]

(* Devices come, go and change their driver, during a walk too; one that is *)
(* new may have its place before or behind the reader's.                    *)
AccelChanges ==
    /\ study = "npus" /\ accel.changes < MaxChanges
    /\ \E dir \in Accels :
          \E ahead \in SUBSET (IF accel.walking THEN DevicesIn(dir) \ accel.met ELSE {}) :
             accel' = [accel EXCEPT
                 !.dir = dir, !.changes = @ + 1, !.left = @ \cup ahead,
                 !.throughout = @ \cap DevicesIn(dir), !.met = @ \cup DevicesIn(dir),
                 !.bound = @ \cup {<<n.device, n.driver>> : n \in dir}]
    /\ UNCHANGED <<study, bt, supply, drm, gpu>>

WalkAccel ==
    /\ study = "npus" /\ ~accel.walking
    /\ accel' = [accel EXCEPT !.walking = TRUE, !.left = DevicesIn(accel.dir),
                     !.found = <<>>, !.complete = TRUE,
                     !.throughout = DevicesIn(accel.dir), !.met = DevicesIn(accel.dir)]
    /\ UNCHANGED <<study, bt, supply, drm, gpu>>

(* One entry; one that is gone may have been handed out already.            *)
ReadAccel(device) ==
    /\ study = "npus" /\ accel.walking /\ device \in accel.left
    /\ \/ /\ Len(accel.found) >= MaxNpus
          /\ accel' = [accel EXCEPT !.left = @ \ {device}, !.complete = FALSE]
       \/ /\ Len(accel.found) < MaxNpus
          /\ \E r \in {NpuRecord(n) : n \in {m \in accel.dir : m.device = device}}
                         \cup {LinkRecord(d) : d \in {device} \ DevicesIn(accel.dir)} :
                accel' = [accel EXCEPT !.left = @ \ {device}, !.found = Append(@, r)]
       \/ /\ device \notin DevicesIn(accel.dir)
          /\ accel' = [accel EXCEPT !.left = @ \ {device}]
    /\ UNCHANGED <<study, bt, supply, drm, gpu>>

(* lsm_hardware_topology_reconcile: in the order of their identities, with  *)
(* the driver known before where none is bound now.                         *)
Reconciled(found, old) ==
    LET Before(a, b) == (a.link /\ ~b.link) \/ (a.link = b.link /\ a.device < b.device)
        sorted == SortSeq(found, Before)
        known(r) == {o \in Range(old) : SameNpu(o, r) /\ r.driver = ""}
    IN [i \in DOMAIN sorted |-> [sorted[i] EXCEPT
           !.driver = IF known(sorted[i]) = {} THEN @
                      ELSE (CHOOSE o \in known(sorted[i]) : TRUE).driver]]

(* The list found replaces the one shown when it is whole.                  *)
enumerate_npus(a, complete) ==
    LET over == [a EXCEPT !.walking = FALSE, !.left = {}, !.found = <<>>,
                     !.throughout = {}, !.met = {}]
    IN IF complete THEN [over EXCEPT !.shown = Reconciled(a.found, a.shown),
                                     !.sure = a.throughout, !.possible = a.met]
       ELSE over

(* synchronise_telemetry_caches: an NPU that stays keeps its telemetry, and *)
(* a new one gets that of the driver it was found with.                     *)
SynchroniseNpus(a) ==
    [a EXCEPT !.telemetry = [i \in DOMAIN a.shown |->
        LET npu == a.shown[i]
            kept == {t \in Range(a.telemetry) : SameNpu(t, npu)}
            attributes == UNION {n.attributes : n \in {m \in a.dir : m.device = npu.device}}
        IN IF kept # {} THEN CHOOSE t \in kept : TRUE
           ELSE [device |-> npu.device, link |-> npu.link, driver |-> npu.driver,
                 sources |-> lsm_npu_telemetry_create(npu.driver, attributes)]]]

AccelEnds ==
    /\ study = "npus" /\ accel.walking
    /\ \/ accel.left = {} /\ accel' = SynchroniseNpus(enumerate_npus(accel, accel.complete))
       \/ accel' = SynchroniseNpus(enumerate_npus(accel, FALSE))
    /\ UNCHANGED <<study, bt, supply, drm, gpu>>

Rebound(device) ==
    \E a, b \in accel.bound : a[1] = device /\ b[1] = device /\ a # b

(* The NPUs shown are those of one whole walk: every one that was there     *)
(* throughout it, none that never was, none twice; one more than the list   *)
(* holds, or a failure, and the list stays as it was.  Each has beside it   *)
(* the telemetry of its own driver, with no attribute whose unit that       *)
(* driver does not define.  The exception: an NPU that changes its driver   *)
(* keeps the telemetry it had while it stays listed (monitor_hardware.c:423).*)
NpusWhole ==
    study = "npus" =>
        /\ accel.sure \subseteq {r.device : r \in Range(accel.shown)}
        /\ {r.device : r \in Range(accel.shown)} \subseteq accel.possible
        /\ \A i, j \in DOMAIN accel.shown :
              accel.shown[i].device = accel.shown[j].device => i = j
        /\ DOMAIN accel.telemetry = DOMAIN accel.shown
        /\ \A i \in DOMAIN accel.shown :
              LET npu == accel.shown[i]
                  t == accel.telemetry[i]
              IN /\ SameNpu(t, npu)
                 /\ t.driver = npu.driver \/ Rebound(npu.device)
                 /\ IF t.driver \in IntelDrivers THEN t.sources \subseteq IntelAttributes
                    ELSE t.sources \cap IntelAttributes = {}

-----------------------------------------------------------------------------
Init ==
    /\ study \in Studies
    /\ bt \in IF study = "bluez" THEN {BluezInit(o) : o \in Replies}
              ELSE {BluezInit(<<>>)}
    /\ supply \in IF study = "supply"
                  THEN {SupplyInit(s, e, h) : s \in Supplies, e \in {NA, 40}, h \in BOOLEAN}
                  ELSE {SupplyInit(CHOOSE s \in Supplies : TRUE, NA, FALSE)}
    /\ drm \in IF study = "drm" THEN {DrmInit(d) : d \in Descriptors} ELSE {DrmInit(<<>>)}
    /\ gpu \in IF study = "gpu"
               THEN {GpuInit(e, a, r, [warning |-> w, critical |-> c]) :
                        e \in Events, a, r \in BOOLEAN, w, c \in Limits \cup {NA}}
               ELSE {GpuInit(<<>>, FALSE, FALSE, [warning |-> NA, critical |-> NA])}
    /\ accel \in IF study = "npus" THEN {AccelInit(d) : d \in Accels} ELSE {AccelInit({})}

Next ==
    \/ BluezChanges \/ BluezAnswers \/ bluetooth_worker
    \/ lsm_bluetooth_adapter_snapshot \/ lsm_bluetooth_enumerate
    \/ SupplyChanges \/ DeviceAnswers \/ power_supply_online
    \/ ReadStatus \/ ReadEnergy \/ lsm_battery_update
    \/ ReadLine \/ FileEnds \/ DescriptorCloses \/ ReadFails \/ lsm_process_gpu_read
    \/ DiscoverEvent \/ DiscoveryEnds \/ EnergyIsUsed \/ update_gpus
    \/ AccelChanges \/ WalkAccel \/ AccelEnds
    \/ \E device \in UNION {DevicesIn(dir) : dir \in Accels} : ReadAccel(device)

Spec == Init /\ [][Next]_vars

TypeOK ==
    /\ study \in Studies
    /\ bt.number \in 0 .. MaxChanges /\ bt.pc \in {"idle", "devices"}
    /\ supply.pc \in {"idle", "status", "energy", "time"} /\ supply.b.seconds \in Nat
    /\ drm.pc \in {"read", "done"} /\ Len(drm.sum.engines) <= MaxEngines
    /\ gpu.pc \in {"discover", "ready"} /\ Len(gpu.engines) <= MaxCounters
    /\ Len(accel.shown) <= MaxNpus
=============================================================================
