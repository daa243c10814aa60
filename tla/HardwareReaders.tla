---------------------------- MODULE HardwareReaders ----------------------------
(***************************************************************************)
(* What the monitor reads once, or now and then, about the machine: the    *)
(* memory modules of the firmware's table (src/smbios_memory.c), the cores *)
(* and caches of the processor (src/cpu_direct.c, src/monitor_cpu_memory.c)*)
(* , the access point of a wireless interface (src/wifi_metadata.c) and    *)
(* its addresses (src/monitor_storage_network.c), pressure and memory      *)
(* accounting (src/pressure.c, src/memory_accounting.c), and the search    *)
(* for the users of a file (src/process_file_users.c).                     *)
(*                                                                         *)
(* One record variable per part; "study" says which part a behaviour is    *)
(* about.  Sizes are in KiB, times in ticks.                               *)
(***************************************************************************)
EXTENDS Integers, Sequences, FiniteSets, SequencesExt

CONSTANTS
    Studies,        \* The parts looked at.
    DmiTables,      \* Firmware tables, as sequences of structures.
    MaxModules,     \* LSM_SMBIOS_MAX_MODULES, 32.
    Processors,     \* Machines: processors, cores and caches.
    Wireless,       \* Names of wireless interfaces.
    AddressLists,   \* What getifaddrs may answer: name, family and address.
    MaxNets,        \* LSM_MAX_NETS, 64.
    Interval,       \* LSM_WIFI_METADATA_INTERVAL_SECONDS, in ticks.
    MaxTime,        \* Bound: ticks.
    PressureTexts,  \* Pressure files, as sequences of lines.
    Meminfo,        \* Contents of /proc/meminfo, by key; a key may be missing.
    Paths,          \* Files searched for.
    MaxChanges      \* Bound: changes of the world, and readings.

Parts == {"modules", "caches", "wifi", "addresses", "pressure", "memory", "search"}

HardwareAssumption ==
    /\ Studies \subseteq Parts
    /\ {MaxModules, MaxNets, Interval} \subseteq Nat \ {0}
    /\ MaxTime \in Nat /\ MaxChanges \in Nat

VARIABLES
    study,
    dmi,        \* The table, the cursor and what was read.
    cpu,        \* The machine, the probing thread and the totals.
    wifi,       \* Access points, cache and what the pages are given.
    nets,       \* The listed interfaces and their addresses.
    psi,        \* The pressure file and what was published of it.
    mem,        \* The accounting of memory.
    search      \* Searches, the window and its dialogs.

vars == <<study, dmi, cpu, wifi, nets, psi, mem, search>>

None == "none"

-----------------------------------------------------------------------------
(* Memory modules.  A structure has a type, a length and the fields that    *)
(* fit into it; "whole" says that it lies inside the table and its strings  *)
(* are terminated.  For the record of a device, "truth" is what the         *)
(* firmware meant.                                                          *)

Unknown16 == 65535
Extended16 == 32767
KiloBit == 32768

populated_memory_device(s) ==
    /\ s.length > 13 /\ s.size \notin {0, Unknown16}
    /\ s.size = Extended16 => s.length >= 32 /\ s.extended # 0

(* In megabytes, in kilobytes when the top bit says so, or in the extended  *)
(* field.                                                                   *)
memory_size_bytes(s) ==
    CASE s.length <= 13 \/ s.size \in {0, Unknown16} -> 0
      [] s.size = Extended16 -> IF s.length < 32 THEN 0 ELSE s.extended * 1024
      [] s.size >= KiloBit -> s.size - KiloBit
      [] OTHER -> s.size * 1024

(* The speed configured, or the one rated, each in 16 bits or extended.     *)
memory_speed(s) ==
    LET Read(at, wide, value, far) ==
            LET short == IF s.length >= at THEN value ELSE 0
                long == IF short = Unknown16 /\ s.length >= wide THEN far ELSE short
            IN IF long = Unknown16 THEN 0 ELSE long
        configured == Read(34, 92, s.configured, s.xconfigured)
    IN IF configured # 0 THEN configured ELSE Read(23, 88, s.rated, s.xrated)

form_factor_name(s) == IF s.length > 14 THEN s.form ELSE "N/A"

(* The string of a structure by its number; what is missing, empty or not   *)
(* text is not told.                                                        *)
copy_smbios_string(s, index) ==
    IF index \in DOMAIN s.strings /\ s.strings[index] \notin {"", "invalid"}
    THEN s.strings[index] ELSE "N/A"

NoModules == [total |-> 0, used |-> 0, speed |-> 0, form |-> "N/A", modules |-> <<>>]

(* One structure of type 17.                                                *)
ReadDevice(info, s) ==
    LET speed == memory_speed(s)
        form == form_factor_name(s)
    IN IF ~populated_memory_device(s) THEN [info EXCEPT !.total = @ + 1]
       ELSE [total |-> info.total + 1, used |-> info.used + 1,
             speed |-> IF speed > 0 /\ (info.speed = 0 \/ speed < info.speed)
                       THEN speed ELSE info.speed,
             form |-> IF info.form = "N/A" /\ form \notin {"Unknown", ""}
                      THEN form ELSE info.form,
             modules |-> Append(info.modules, [size |-> memory_size_bytes(s),
                                               speed |-> speed,
                                               locator |-> copy_smbios_string(s, s.locator)])]

DmiInit(table) ==
    [table |-> table, at |-> 1, info |-> NoModules, pc |-> "read", ok |-> FALSE]

(* The table is taken structure by structure; a broken one ends it, as does *)
(* the end marker.  read_table has the whole file or fails.                 *)
ReadStructure ==
    LET s == dmi.table[dmi.at]
    IN /\ study = "modules" /\ dmi.pc = "read" /\ dmi.at <= Len(dmi.table)
       /\ dmi' = IF ~s.whole THEN [dmi EXCEPT !.pc = "end"]
                 ELSE [dmi EXCEPT
                          !.info = IF s.type = 17 THEN ReadDevice(@, s) ELSE @,
                          !.at = @ + 1,
                          !.pc = IF s.type = 127 THEN "end" ELSE "read"]
       /\ UNCHANGED <<study, cpu, wifi, nets, psi, mem, search>>

(* More modules than fit: nothing is told.  No slot at all: nothing known.  *)
lsm_smbios_memory_read(info) ==
    IF Len(info.modules) > MaxModules THEN [info |-> NoModules, ok |-> FALSE]
    ELSE [info |-> info, ok |-> info.total > 0]

TableEnds ==
    /\ study = "modules"
    /\ dmi.pc = "end" \/ (dmi.pc = "read" /\ dmi.at > Len(dmi.table))
    /\ \/ LET result == lsm_smbios_memory_read(dmi.info)
          IN dmi' = [dmi EXCEPT !.pc = "done", !.info = result.info, !.ok = result.ok]
       \/ dmi' = [dmi EXCEPT !.pc = "done", !.info = NoModules]   \* read_table failed
    /\ UNCHANGED <<study, cpu, wifi, nets, psi, mem, search>>

(* What was meant by a table, up to where it breaks.                        *)
Meant(table) ==
    LET last == {i \in DOMAIN table : ~table[i].whole \/ table[i].type = 127}
        to == IF last = {} THEN Len(table)
              ELSE LET i == CHOOSE i \in last : \A j \in last : i <= j
                   IN IF table[i].whole THEN i ELSE i - 1
    IN SelectSeq(SubSeq(table, 1, to), LAMBDA s : s.type = 17)

(* What is told of the modules is what the firmware meant: every module     *)
(* with its size and speed, the slowest speed for all, every slot; and of a *)
(* table with more modules than fit, nothing.                               *)
ModulesTrue ==
    (study = "modules" /\ dmi.pc = "done") =>
        LET devices == Meant(dmi.table)
            fitted == SelectSeq(devices, LAMBDA s : s.truth.size > 0)
            speeds == {fitted[i].truth.speed : i \in DOMAIN fitted} \ {0}
        IN IF ~dmi.ok THEN dmi.info.modules = <<>> /\ dmi.info.used = 0
           ELSE /\ Len(fitted) <= MaxModules
                /\ dmi.info.total = Len(devices)
                /\ dmi.info.modules = [i \in DOMAIN fitted |-> fitted[i].truth]
                /\ dmi.info.used = Len(fitted)
                /\ IF speeds = {} THEN dmi.info.speed = 0
                   ELSE /\ dmi.info.speed \in speeds
                        /\ \A v \in speeds : dmi.info.speed <= v

-----------------------------------------------------------------------------
(* Cores and caches.  A machine's logical processors have an APIC number;   *)
(* the caches each one sees have a level, a type, a size and a number of    *)
(* sharers; in truth a cache is what the processors that share it see.      *)

(* The bits that tell that many sharers apart; at most 4096 share.          *)
ShiftFor(sharers) ==
    CHOOSE n \in 0 .. 12 : 2 ^ n >= sharers /\ (n = 0 \/ 2 ^ (n - 1) < sharers)

(* The number of a cache among its like: the APIC number without the bits   *)
(* that tell its sharers apart.                                             *)
GroupOf(apic, sharers) == apic \div (2 ^ ShiftFor(sharers))

CacheKey(p, c) == [group |-> GroupOf(p.apic, c.sharers), bytes |-> c.bytes,
                   level |-> c.level, type |-> c.type]

(* The instruction cache of level 1 is left out; a cache seen is not added  *)
(* again.                                                                   *)
add_cache_leaf(caches, p) ==
    caches \cup {CacheKey(p, c) :
        c \in {d \in p.caches : /\ d.level \in 1 .. 3
                                /\ ~(d.level = 1 /\ d.type = "instruction")}}

(* The processors online, or none when the list could not be had whole.     *)
read_topology_cpu_ids(machine, ok) == IF ok THEN machine.online ELSE {}

(* read_cpu_cache_totals: the kernel's own list of sharers is the key.      *)
read_cpu_cache_totals(machine, ids) ==
    {[group |-> c.with, level |-> c.level, type |-> c.type, bytes |-> c.bytes] :
        c \in UNION {{d \in machine.cpus[n].caches :
                         d.level > 1 \/ d.type = "data"} : n \in ids}}

CoreOf(p) == p.apic \div (2 ^ p.smt)

CpuInit(machine) ==
    [machine |-> machine, left |-> machine.allowed, cores |-> {}, caches |-> {},
     pc |-> "probe", mask |-> machine.allowed, missed |-> {}, told |-> <<>>]

(* scan_direct_topology, one processor at a time, on a thread of its own:   *)
(* a processor the scheduler refuses, or that went offline, is passed by.   *)
ProbeProcessor ==
    /\ study = "caches" /\ cpu.pc = "probe" /\ cpu.machine.direct /\ cpu.left # {}
    /\ LET n == CHOOSE n \in cpu.left : \A m \in cpu.left : n <= m
           p == cpu.machine.cpus[n]
       IN cpu' = IF n \in cpu.machine.online
                 THEN [cpu EXCEPT !.left = @ \ {n}, !.mask = {n},
                          !.cores = @ \cup {CoreOf(p)},
                          !.caches = add_cache_leaf(@, p)]
                 ELSE [cpu EXCEPT !.left = @ \ {n}, !.missed = @ \cup {n}]
    /\ UNCHANGED <<study, dmi, wifi, nets, psi, mem, search>>

ProcessorGoes(n) ==
    /\ study = "caches" /\ cpu.pc = "probe" /\ n \in cpu.machine.online
    /\ Cardinality(cpu.machine.online) > 1
    /\ cpu.machine.online = DOMAIN cpu.machine.cpus
    /\ cpu' = [cpu EXCEPT !.machine.online = @ \ {n}]
    /\ UNCHANGED <<study, dmi, wifi, nets, psi, mem, search>>

TotalOf(caches, level) ==
    LET at == {c \in caches : c.level = level}
    IN FoldSet(LAMBDA c, sum : c.bytes + sum, 0, at)

InstancesOf(caches, level) == Cardinality({c \in caches : c.level = level})

(* What is told of the caches: their total and how many there are.          *)
Told(cores, caches) ==
    [cores |-> cores,
     levels |-> [l \in 1 .. 3 |-> <<TotalOf(caches, l), InstancesOf(caches, l)>>]]

(* The probing thread restores its mask and ends, and the totals are told;  *)
(* a thread that could not be made leaves the processor at hand.            *)
lsm_cpu_direct_read_static ==
    /\ study = "caches" /\ cpu.pc = "probe" /\ cpu.machine.direct /\ cpu.left = {}
    /\ cpu' = [cpu EXCEPT !.pc = "done", !.mask = cpu.machine.allowed,
                  !.told = Told(Cardinality(cpu.cores), cpu.caches)]
    /\ UNCHANGED <<study, dmi, wifi, nets, psi, mem, search>>

ThreadRefused ==
    /\ study = "caches" /\ cpu.pc = "probe" /\ cpu.machine.direct
    /\ cpu.left = cpu.machine.allowed /\ cpu.missed = {}
    /\ \E n \in cpu.machine.online \cap cpu.machine.allowed :
          cpu' = [cpu EXCEPT !.pc = "alone", !.told =
              Told(Cardinality(cpu.machine.online), add_cache_leaf({}, cpu.machine.cpus[n]))]
    /\ UNCHANGED <<study, dmi, wifi, nets, psi, mem, search>>

(* read_cpu_static without CPUID: pairs of package and core, from a file    *)
(* that could be read to its end.                                           *)
read_cpu_static ==
    /\ study = "caches" /\ cpu.pc = "probe" /\ ~cpu.machine.direct
    /\ \E whole, ok \in BOOLEAN :
          cpu' = [cpu EXCEPT !.pc = IF ok THEN "done" ELSE "alone", !.told =
              Told(IF whole THEN Cardinality({cpu.machine.cpus[n].core :
                                                 n \in cpu.machine.online})
                   ELSE 0,
                   read_cpu_cache_totals(cpu.machine,
                                         read_topology_cpu_ids(cpu.machine, ok)))]
    /\ UNCHANGED <<study, dmi, wifi, nets, psi, mem, search>>

(* The machine's caches in truth, by the set of processors that share each. *)
TrueCaches(machine) ==
    {[with |-> c.with, level |-> c.level, type |-> c.type, bytes |-> c.bytes] :
        c \in UNION {{d \in machine.cpus[n].caches :
                         ~(d.level = 1 /\ d.type = "instruction")} :
                     n \in DOMAIN machine.cpus}}

(* Two caches that CPUID does not tell apart.                               *)
Confused(machine) ==
    \E n, m \in DOMAIN machine.cpus :
        \E c \in machine.cpus[n].caches, d \in machine.cpus[m].caches :
            /\ c.with # d.with
            /\ CacheKey(machine.cpus[n], c) = CacheKey(machine.cpus[m], d)

(* Every cache and every core is counted once, however many processors      *)
(* share it, when no processor went away meanwhile; and the probing never   *)
(* leaves a thread on fewer processors than it had.  The exception, where   *)
(* the totals come from CPUID: two caches of one level, type and size whose *)
(* processors differ in how many share (a core's own and a cluster's) can   *)
(* get one key and be counted as one cache (cpu_direct.c:105-116).          *)
CachesCountedOnce ==
    (study = "caches" /\ cpu.pc = "done") =>
        /\ cpu.mask = cpu.machine.allowed
        /\ (cpu.machine.online = DOMAIN cpu.machine.cpus
              /\ cpu.machine.allowed = DOMAIN cpu.machine.cpus) =>
              \A l \in 1 .. 3 :
                 LET instances == InstancesOf(TrueCaches(cpu.machine), l)
                 IN \/ cpu.told.levels[l] =
                          <<TotalOf(TrueCaches(cpu.machine), l), instances>>
                    \/ /\ cpu.machine.direct /\ Confused(cpu.machine)
                       /\ cpu.told.levels[l][2] < instances
        /\ cpu.told.cores <= Cardinality({cpu.machine.cpus[n].core :
                                             n \in DOMAIN cpu.machine.cpus})

-----------------------------------------------------------------------------
(* Wireless interfaces, once a sample, in the order of the list; and the    *)
(* addresses of all.  The world is what the driver would answer: an access  *)
(* point, or nothing.  An association has a number of its own.              *)

Cleared == [ssid |-> 0, signal |-> 0, at |-> 0]

WifiInit ==
    [now |-> 1, air |-> [n \in Wireless |-> 0], stamp |-> 0,
     cache |-> <<>>, busy |-> None, half |-> 0,
     shown |-> [n \in Wireless |-> Cleared], served |-> [n \in Wireless |-> 0],
     was |-> [n \in Wireless |-> [t \in 1 .. MaxTime |-> {0}]]]

Remember(w) == [w EXCEPT !.was =
    [n \in Wireless |-> [@[n] EXCEPT ![w.now] = @ \cup {w.air[n]}]]]

(* The interface joins another network, or leaves.                          *)
Associates(n) ==
    /\ study = "wifi" /\ wifi.stamp < MaxChanges
    /\ \E a \in {0, wifi.stamp + 1} :
          /\ a # wifi.air[n]
          /\ wifi' = Remember([wifi EXCEPT !.air[n] = a, !.stamp = @ + 1])
    /\ UNCHANGED <<study, dmi, cpu, nets, psi, mem, search>>

TimePasses ==
    /\ study = "wifi" /\ wifi.busy = None /\ wifi.now < MaxTime
    /\ wifi' = Remember([wifi EXCEPT !.now = @ + 1])
    /\ UNCHANGED <<study, dmi, cpu, nets, psi, mem, search>>

(* The record of a name, or room for one; a full cache has neither.         *)
find_record(w, n) ==
    LET at == {i \in DOMAIN w.cache : w.cache[i].name = n}
    IN IF at # {} THEN CHOOSE i \in at : TRUE
       ELSE IF Len(w.cache) < MaxNets THEN Len(w.cache) + 1 ELSE 0

NewRecord(n) == [name |-> n, ssid |-> 0, signal |-> 0, at |-> 0, valid |-> FALSE]
Stored(cache, i, record) == IF i > Len(cache) THEN Append(cache, record)
                            ELSE [cache EXCEPT ![i] = record]
(* external: due at first, and when the interval is over.                   *)
lsm_refresh_interval_due(now, last) == last = 0 \/ now - last >= Interval

ShownOf(record) ==
    IF record.valid THEN [ssid |-> record.ssid, signal |-> record.signal, at |-> record.at]
    ELSE Cleared

(* lsm_wifi_metadata_refresh: a record that is not due is shown as it is.   *)
ServeFromCache(n) ==
    LET i == find_record(wifi, n)
    IN /\ study = "wifi" /\ wifi.busy = None
       /\ \/ /\ i = 0 /\ wifi' = [wifi EXCEPT !.shown[n] = Cleared,
                                                   !.served[n] = wifi.now]
          \/ /\ i \in DOMAIN wifi.cache
             /\ ~lsm_refresh_interval_due(wifi.now, wifi.cache[i].at)
             /\ wifi' = [wifi EXCEPT !.shown[n] = ShownOf(wifi.cache[i]),
                                      !.served[n] = wifi.now]
       /\ UNCHANGED <<study, dmi, cpu, nets, psi, mem, search>>

(* collect_wifi_metadata asks one thing after the other: first the network, *)
(* then access point, signal, frequency and rate.                           *)
CollectBegins(n) ==
    LET i == find_record(wifi, n)
    IN /\ study = "wifi" /\ wifi.busy = None /\ i # 0
       /\ lsm_refresh_interval_due(wifi.now, IF i \in DOMAIN wifi.cache
                                             THEN wifi.cache[i].at ELSE 0)
       /\ wifi' = [wifi EXCEPT !.busy = n, !.half = wifi.air[n]]
       /\ UNCHANGED <<study, dmi, cpu, nets, psi, mem, search>>

(* The name and the time of the attempt stay, so that the next one waits.   *)
invalidate_record(record) == [NewRecord(record.name) EXCEPT !.at = wifi.now]

(* Whatever was answered makes a record; nothing at all invalidates it.     *)
Collected(record, ssid, signal) ==
    IF ssid = 0 /\ signal = 0 THEN invalidate_record(record)
    ELSE [record EXCEPT !.ssid = ssid, !.signal = signal, !.at = wifi.now, !.valid = TRUE]

CollectEnds ==
    LET n == wifi.busy
        i == find_record(wifi, n)
        old == IF i \in DOMAIN wifi.cache THEN wifi.cache[i] ELSE NewRecord(n)
        new == Collected(old, wifi.half, wifi.air[n])
    IN /\ study = "wifi" /\ n # None
       /\ wifi' = [wifi EXCEPT !.cache = Stored(@, i, new), !.busy = None, !.half = 0,
                      !.shown[n] = ShownOf(new), !.served[n] = wifi.now]
       /\ UNCHANGED <<study, dmi, cpu, nets, psi, mem, search>>

(* What is shown of an interface was true of it, and when it was last       *)
(* looked at the interval was not over: nothing outlives a failed           *)
(* collection, and nobody is given another interface's network.             *)
WifiTrue ==
    study = "wifi" =>
        /\ Len(wifi.cache) <= MaxNets
        /\ \A n \in Wireless :
              LET s == wifi.shown[n]
              IN s.at # 0 => /\ s.ssid \in wifi.was[n][s.at] /\ s.signal \in wifi.was[n][s.at]
                             /\ s.ssid # 0 \/ s.signal # 0
                             /\ wifi.served[n] - s.at < Interval
        /\ \A i \in DOMAIN wifi.cache :
              LET record == wifi.cache[i]
                  shown == wifi.shown[record.name]
              IN shown = ShownOf(record)

-----------------------------------------------------------------------------
(* Pressure.  A file is a sequence of lines; a line is its kind and tokens, *)
(* a token a name and a value; the last line may lack its end.              *)

PsiFields == {"avg10", "avg60", "avg300", "total"}

(* Every known token once and well formed; unknown ones are passed by.      *)
parse_pressure_line(line) ==
    LET Of(f) == {i \in DOMAIN line.tokens : line.tokens[i][1] = f}
    IN /\ \A i \in DOMAIN line.tokens : line.tokens[i][2] # "bad"
       /\ \A f \in PsiFields : Cardinality(Of(f)) = 1

(* All or nothing: a second line of a kind, a line that does not parse or a *)
(* text without its last newline spoils the whole.                          *)
lsm_pressure_parse(text) ==
    LET Lines(kind) == {i \in DOMAIN text : text[i].kind = kind}
        fine == /\ text # <<>> /\ text[Len(text)].ended
                /\ \A kind \in {"some", "full"} :
                      /\ Cardinality(Lines(kind)) <= 1
                      /\ \A i \in Lines(kind) : parse_pressure_line(text[i])
                /\ Lines("some") # {}
    IN [some |-> fine, full |-> fine /\ Lines("full") # {}, ok |-> fine]

(* A read may have got only the beginning of the text: some lines, and      *)
(* perhaps a part of the next.                                              *)
Torn(text) ==
    {SubSeq(text, 1, k) : k \in 0 .. Len(text)}
       \cup UNION {{Append(SubSeq(text, 1, k - 1), [text[k] EXCEPT !.ended = FALSE,
                       !.tokens = SubSeq(@, 1, m)]) : m \in 0 .. Len(text[k].tokens)} :
                   k \in DOMAIN text}

NoPressure == [some |-> FALSE, full |-> FALSE, ok |-> FALSE]

lsm_pressure_read ==
    /\ study = "pressure" /\ psi.reads < MaxChanges + 1
    /\ \E text \in PressureTexts :
          \/ psi' = [file |-> text, got |-> text, told |-> lsm_pressure_parse(text),
                     reads |-> psi.reads + 1]
          \/ \E got \in Torn(text) :
                psi' = [file |-> text, got |-> got, told |-> lsm_pressure_parse(got),
                        reads |-> psi.reads + 1]
          \/ psi' = [file |-> text, got |-> <<>>, told |-> NoPressure,
                     reads |-> psi.reads + 1]
    /\ UNCHANGED <<study, dmi, cpu, wifi, nets, mem, search>>

(* Pressure is told only from a text whose lines are whole and say it once: *)
(* never from the middle of a line, never beside a line that is wrong.      *)
PressureWhole ==
    study = "pressure" =>
        LET said(kind) == {i \in DOMAIN psi.got : psi.got[i].kind = kind}
        IN /\ psi.told.ok => \A i \in DOMAIN psi.got : psi.got[i].ended
           /\ psi.told.some => Cardinality(said("some")) = 1
           /\ psi.told.full => Cardinality(said("full")) = 1 /\ psi.told.some
           /\ (psi.told.ok /\ said("full") # {}) => psi.told.full
           /\ \A i \in DOMAIN psi.got :
                 (psi.told.ok /\ psi.got[i].kind \in {"some", "full"}) =>
                     /\ psi.got[i] \in ToSet(psi.file)
                     /\ \A f \in PsiFields : \E j \in DOMAIN psi.got[i].tokens :
                           psi.got[i].tokens[j][1] = f /\ psi.got[i].tokens[j][2] # "bad"

-----------------------------------------------------------------------------
(* Addresses.  The listed interfaces are renamed and replaced by refreshes  *)
(* of the list, which keep the addresses of an interface they know.         *)

FirstOf(list, name, family) ==
    LET at == {i \in DOMAIN list : list[i].name = name /\ list[i].family = family}
    IN IF at = {} THEN "" ELSE list[CHOOSE i \in at : \A j \in at : i <= j].address

NetsInit == [listed |-> [n \in Wireless |-> [ipv4 |-> "", ipv6 |-> ""]],
             system |-> <<>>, taken |-> <<>>, calls |-> 0]

(* The first address of each family, for all interfaces or for none.        *)
update_interface_addresses(list, ok) ==
    IF ~ok THEN nets.listed
    ELSE [n \in Wireless |-> [ipv4 |-> FirstOf(list, n, 4), ipv6 |-> FirstOf(list, n, 6)]]

ReadAddresses ==
    /\ study = "addresses" /\ nets.calls < MaxChanges + 1
    /\ \E list \in AddressLists, ok \in BOOLEAN :
          nets' = [listed |-> update_interface_addresses(list, ok), system |-> list,
                   taken |-> IF ok THEN list ELSE nets.taken, calls |-> nets.calls + 1]
    /\ UNCHANGED <<study, dmi, cpu, wifi, psi, mem, search>>

(* The addresses shown are all of the last list that could be had; a        *)
(* failure erases none.                                                     *)
AddressesWhole ==
    study = "addresses" => \A n \in Wireless :
        /\ nets.listed[n].ipv4 = FirstOf(nets.taken, n, 4)
        /\ nets.listed[n].ipv6 = FirstOf(nets.taken, n, 6)

-----------------------------------------------------------------------------
(* Memory accounting.  A reading has a value per key, or none; it may break *)
(* off, and it is asked for the details only now and then.                  *)

Details == {"Cached", "SReclaimable", "Shmem", "SUnreclaim", "PageTables",
            "HardwareCorrupted"}
At(reading, key) == IF key \in DOMAIN reading THEN reading[key] ELSE 0

NoMemory == [available |-> 0, committed |-> 0, limit |-> 0, cached |-> 0,
             kernel |-> <<0, 0, 0, 0>>]

MemInit == [told |-> NoMemory, reads |-> 0, last |-> <<>>, detailed |-> <<>>,
            cachedAt |-> <<>>]

(* Cache that can be given back, less what is shared.                       *)
Reclaimable(reading) ==
    LET combined == At(reading, "Cached") + At(reading, "SReclaimable")
    IN IF combined >= At(reading, "Shmem") THEN combined - At(reading, "Shmem") ELSE 0

Kernel(reading) == <<At(reading, "SReclaimable"), At(reading, "SUnreclaim"),
                     At(reading, "PageTables"), At(reading, "HardwareCorrupted")>>

AnyCached(reading) == {"Cached", "SReclaimable", "Shmem"} \cap DOMAIN reading # {}

(* Nothing, unless the file was read and closed and says what is available; *)
(* the commit charges stay when they are not said.                          *)
Accounted(told, reading, details, ok) ==
    IF ~ok \/ "MemAvailable" \notin DOMAIN reading THEN told
    ELSE [available |-> reading["MemAvailable"],
          committed |-> IF "Committed_AS" \in DOMAIN reading
                        THEN reading["Committed_AS"] ELSE told.committed,
          limit |-> IF "CommitLimit" \in DOMAIN reading
                    THEN reading["CommitLimit"] ELSE told.limit,
          cached |-> IF details /\ AnyCached(reading) THEN Reclaimable(reading)
                     ELSE told.cached,
          kernel |-> IF details THEN Kernel(reading) ELSE told.kernel]

(* A reading that broke off has the first keys only.                        *)
lsm_memory_accounting_read ==
    /\ study = "memory" /\ mem.reads < MaxChanges
    /\ \E reading \in Meminfo, details \in BOOLEAN, ok \in BOOLEAN :
       \E keys \in IF ok THEN {DOMAIN reading} ELSE SUBSET DOMAIN reading :
          LET got == [k \in keys |-> reading[k]]
              good == ok /\ "MemAvailable" \in keys
          IN mem' = [told |-> Accounted(mem.told, got, details, ok),
                     reads |-> mem.reads + 1,
                     last |-> IF good THEN <<got>> ELSE mem.last,
                     detailed |-> IF good /\ details THEN <<got>> ELSE mem.detailed,
                     cachedAt |-> IF good /\ details /\ AnyCached(got)
                                  THEN <<got>> ELSE mem.cachedAt]
    /\ UNCHANGED <<study, dmi, cpu, wifi, nets, psi, search>>

(* What is available is of the last whole reading, the details are all of   *)
(* the last one that asked for them; a reading that failed shows nowhere.   *)
MemoryWhole ==
    study = "memory" =>
        /\ mem.last = <<>> => mem.told = NoMemory
        /\ mem.last # <<>> => mem.told.available = mem.last[1]["MemAvailable"]
        /\ mem.detailed # <<>> => mem.told.kernel = Kernel(mem.detailed[1])
        /\ mem.cachedAt # <<>> => mem.told.cached = Reclaimable(mem.cachedAt[1])

-----------------------------------------------------------------------------
(* The search for the users of a file: chosen in a modal dialog, done by a  *)
(* worker, answered in another modal dialog; dialogs nest.                  *)

SearchInit == [window |-> "shown", chooser |-> FALSE, running |-> <<>>,
               ready |-> <<>>, dialogs |-> <<>>, log |-> {}, count |-> 0]

OpenSearch ==
    /\ study = "search" /\ search.window = "shown" /\ ~search.chooser
    /\ search.dialogs = <<>> /\ search.count < MaxChanges
    /\ search' = [search EXCEPT !.chooser = TRUE]
    /\ UNCHANGED <<study, dmi, cpu, wifi, nets, psi, mem>>

(* lsm_process_file_users_show, once the chooser is answered.               *)
lsm_process_file_users_show(path) ==
    /\ study = "search" /\ search.chooser
    /\ search' = [search EXCEPT !.chooser = FALSE, !.count = @ + 1,
           !.running = IF path = None THEN @
                       ELSE Append(@, [search |-> search.count + 1, path |-> path])]
    /\ UNCHANGED <<study, dmi, cpu, wifi, nets, psi, mem>>

(* The worker of any search may be first; it fails or has a count.          *)
file_users_worker(i, outcome) ==
    /\ study = "search"
    /\ search' = [search EXCEPT !.running = RemoveAt(@, i),
           !.ready = Append(@, [search |-> search.running[i].search,
                                path |-> search.running[i].path, outcome |-> outcome])]
    /\ UNCHANGED <<study, dmi, cpu, wifi, nets, psi, mem>>

Presented(window) == window = "shown"

(* The main loop, also the one of an open dialog, hands the result over.    *)
file_users_complete ==
    LET result == Head(search.ready)
    IN /\ study = "search" /\ search.ready # <<>>
       /\ search' = [search EXCEPT
              !.ready = Tail(@),
              !.dialogs = IF Presented(search.window) THEN Append(@, result) ELSE @,
              !.log = @ \cup {[search |-> result.search,
                               shown |-> Presented(search.window),
                               window |-> search.window]}]
       /\ UNCHANGED <<study, dmi, cpu, wifi, nets, psi, mem>>

CloseDialog ==
    /\ study = "search" /\ search.dialogs # <<>>
    /\ search' = [search EXCEPT !.dialogs = Front(@)]
    /\ UNCHANGED <<study, dmi, cpu, wifi, nets, psi, mem>>

(* The window is hidden or shown again; or it closes, with its dialogs.     *)
WindowChanges(state) ==
    /\ study = "search" /\ search.window \notin {"closed", state}
    /\ search' = [search EXCEPT !.window = state,
           !.chooser = @ /\ state # "closed",
           !.dialogs = IF state = "closed" THEN <<>> ELSE @]
    /\ UNCHANGED <<study, dmi, cpu, wifi, nets, psi, mem>>

(* Every search is answered once, by a dialog on a window that was shown,   *)
(* or not at all; no dialog outlives the window.                            *)
SearchAnswered ==
    study = "search" =>
        /\ \A e, f \in search.log : e.search = f.search => e = f
        /\ \A e \in search.log : e.shown <=> e.window = "shown"
        /\ \A i, j \in DOMAIN search.dialogs :
              search.dialogs[i].search = search.dialogs[j].search => i = j
        /\ search.window = "closed" => search.dialogs = <<>> /\ ~search.chooser
        /\ \A i \in DOMAIN search.running : \A e \in search.log :
              e.search # search.running[i].search

-----------------------------------------------------------------------------
Init ==
    /\ study \in Studies
    /\ IF study = "modules" THEN \E t \in DmiTables : dmi = DmiInit(t)
       ELSE dmi = DmiInit(<<>>)
    /\ IF study = "caches" THEN \E m \in Processors : cpu = CpuInit(m)
       ELSE cpu = CpuInit([allowed |-> {}, online |-> {}, cpus |-> <<>>, direct |-> TRUE])
    /\ wifi = WifiInit /\ nets = NetsInit
    /\ psi = [file |-> <<>>, got |-> <<>>, told |-> NoPressure, reads |-> 0]
    /\ mem = MemInit /\ search = SearchInit

HardwareStep ==
    \/ ReadStructure \/ TableEnds
    \/ ProbeProcessor \/ lsm_cpu_direct_read_static \/ ThreadRefused \/ read_cpu_static
    \/ \E n \in DOMAIN cpu.machine.cpus : ProcessorGoes(n)

KernelStep ==
    \/ \E n \in Wireless : Associates(n) \/ ServeFromCache(n) \/ CollectBegins(n)
    \/ TimePasses \/ CollectEnds \/ ReadAddresses
    \/ lsm_pressure_read \/ lsm_memory_accounting_read

SearchStep ==
    \/ OpenSearch \/ file_users_complete \/ CloseDialog
    \/ \E path \in Paths \cup {None} : lsm_process_file_users_show(path)
    \/ \E i \in DOMAIN search.running, outcome \in {"found", "failed"} :
          file_users_worker(i, outcome)
    \/ \E state \in {"shown", "hidden", "closed"} : WindowChanges(state)

Next == HardwareStep \/ KernelStep \/ SearchStep

Spec == Init /\ [][Next]_vars

TypeOK ==
    /\ dmi.pc \in {"read", "end", "done"} /\ dmi.ok \in BOOLEAN
    /\ cpu.pc \in {"probe", "done", "alone"}
    /\ wifi.now \in 1 .. MaxTime /\ wifi.busy \in Wireless \cup {None}
    /\ search.window \in {"shown", "hidden", "closed"}

================================================================================
