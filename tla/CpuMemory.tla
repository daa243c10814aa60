------------------------------ MODULE CpuMemory ------------------------------
(***************************************************************************)
(* Processor and memory part of a Linux sample (src/monitor_cpu_memory.c,  *)
(* src/cpu_accounting.c, src/memory_accounting.c and the thermal part of   *)
(* src/system_sources.c).  Processors go off line, cpufreq policies and    *)
(* sensors appear and disappear, and any file may fail to be read for one  *)
(* sample; what is kept for the next sample (baselines, paths, sensors,    *)
(* memory details) was made on a machine that has changed since.           *)
(*                                                                         *)
(* Samples are one second apart and number the clock.  A counter is the    *)
(* time it was read, 0 where /proc/stat has no row for a processor.        *)
(***************************************************************************)
EXTENDS Integers, FiniteSets, FiniteSetsExt, Functions

CONSTANTS
    Machines,              \* What a machine may have: processors after the
                           \* aggregate row, cpufreq policies and CPU sensors
                           \* of the two kinds.
    Score, Temperature,    \* Of a sensor: the score of its label; what it reads.
    SourceInterval,        \* Samples between two searches for policies.
    DetailInterval,        \* Samples between two readings of memory details.
    MaxSamples             \* Bound on the samples taken.

NaN == [kind |-> "nan"]
Interval(from, to) == [kind |-> "interval", from |-> from, to |-> to]
PerSecond(counted, seconds) ==
    [kind |-> "rate", counted |-> counted, seconds |-> seconds]
NoSensor == "no_sensor"
All == 0                   \* The aggregate row.

CpuMemoryAssumption ==
    /\ \A m \in Machines :
         /\ m.cpus \subseteq Nat \ {All} /\ NoSensor \notin m.hwmon \cup m.zones
         /\ IsFiniteSet(m.hwmon \cup m.zones)
         /\ \A s \in m.hwmon \cup m.zones : Score[s] \in Nat /\ Temperature[s] \in Nat
    /\ SourceInterval \in Nat \ {0} /\ DetailInterval \in Nat \ {0}
    /\ MaxSamples \in Nat

VARIABLES
    machine,                      \* The machine, and which of its processors,
    online, policies, readable,   \* policies and sensors can be read.
    now,                          \* The number of the sample.
    stage,                        \* Which collector is next.
    previous,                     \* Per row: the counter kept.
    usage, event_rate,            \* What is shown: an Interval, PerSecond or NaN.
    read_at, online_at,           \* History: the last two good readings, and
                                  \* the rows there were in each.
    source, source_at,            \* The policies kept, and when searched for.
    frequency_available,
    settled,                      \* History: samples since policies changed.
    cache,                        \* The sensors kept.
    temperature,                  \* The sensor shown.
    listed,                       \* History: every directory could be listed.
    available, details,           \* When MemAvailable and details were read;
    detail_at,                    \* 0 is a value of zero.  Last detail reading.
    good_reads                    \* History: good memory readings in a row.

machineVars == <<machine, online, policies, readable>>
cpuVars == <<previous, usage, event_rate, read_at, online_at>>
frequencyVars == <<source, source_at, frequency_available>>
thermalVars == <<cache, temperature, listed>>
memoryVars == <<available, details, detail_at, good_reads>>
vars == <<machineVars, now, stage, cpuVars, frequencyVars, settled, thermalVars,
          memoryVars>>

Cpus == machine.cpus
Policies == machine.policies
Hwmon == machine.hwmon
Zones == machine.zones
Rows == Cpus \cup {All}

Stages == {"idle", "frequency", "thermal", "memory"}
Times == 0 .. MaxSamples + 1

TypeOK ==
    /\ machine \in Machines /\ online \subseteq Cpus /\ policies \subseteq Policies
    /\ readable \subseteq Hwmon \cup Zones
    /\ stage \in Stages /\ now \in Times
    /\ previous \in [Rows -> Times] /\ DOMAIN usage = Rows
    /\ source \subseteq Policies /\ cache \subseteq Hwmon \cup Zones
    /\ available \in Times /\ details \in Times /\ detail_at \in Times

(* lsm_cpu_memory_initialise, at time 1: all baselines are taken.           *)
Init ==
    /\ machine \in Machines
    /\ online \in {Cpus} \cup {Cpus \ {c} : c \in Cpus}
    /\ policies = Policies
    /\ readable = Hwmon \cup Zones
    /\ now = 1 /\ stage = "idle"
    /\ previous = [r \in Rows |-> IF r \in online \cup {All} THEN 1 ELSE 0]
    /\ usage = [r \in Rows |-> NaN] /\ event_rate = NaN
    /\ read_at = <<0, 1>> /\ online_at = <<{}, online \cup {All}>>
    /\ source = policies /\ source_at = 1 /\ frequency_available = FALSE
    /\ settled = 0
    /\ cache = {} /\ temperature = NoSensor /\ listed = TRUE
    /\ available = 1 /\ details = 1 /\ detail_at = 1 /\ good_reads = 1

-----------------------------------------------------------------------------
(* The machine between two samples.                                         *)
MachineChanges ==
    /\ stage = "idle"
    /\ \/ /\ online' \in SUBSET Cpus \ {online}
          /\ Cardinality(SymDiff(online', online)) = 1
          /\ UNCHANGED <<policies, readable, settled>>
       \/ /\ policies' \in SUBSET Policies \ {policies} /\ settled' = 0
          /\ UNCHANGED <<online, readable>>
       \/ /\ readable' \in SUBSET (Hwmon \cup Zones) \ {readable}
          /\ UNCHANGED <<online, policies, settled>>
    /\ UNCHANGED <<machine, now, stage, cpuVars, frequencyVars, thermalVars,
                   memoryVars>>

(* cpu_accounting_parse_mutable counts the rows up to the last processor    *)
(* that is on line.                                                         *)
Counted == {r \in Rows : \E c \in online \cup {All} : r <= c}

(* lsm_cpu_accounting_apply: a row that is counted is compared with the one *)
(* before and kept, as zeros if its processor is off line; a row beyond     *)
(* shows nothing and keeps its baseline.  Interrupts and context switches   *)
(* since the last good reading, which was that of the aggregate row, are    *)
(* divided by the time since the last sample.  `rolled' are the rows whose  *)
(* idle time went back.                                                     *)
Applied(rolled) ==
    LET current == [r \in Rows |-> IF r \in online \cup {All} THEN now' ELSE 0]
    IN /\ usage' = [r \in Rows |->
              IF r \in Counted /\ current[r] > previous[r] /\ r \notin rolled
              THEN Interval(previous[r], current[r]) ELSE NaN]
       /\ previous' = [r \in Rows |-> IF r \in Counted THEN current[r]
                                      ELSE previous[r]]
       /\ event_rate' = PerSecond(Interval(previous[All], now'), now' - now)
       /\ read_at' = <<read_at[2], now'>>
       /\ online_at' = <<online_at[2], online \cup {All}>>

(* read_cpu_counters: a reading that fails changes nothing.                 *)
ReadCpu ==
    /\ stage = "idle" /\ now <= MaxSamples
    /\ now' = now + 1 /\ stage' = "frequency"
    /\ \/ \E rolled \in {{}} \cup {{r} : r \in Rows} : Applied(rolled)
       \/ UNCHANGED cpuVars
    /\ UNCHANGED <<machineVars, frequencyVars, settled, thermalVars, memoryVars>>

(* read_cpu_frequency_ghz: every path kept must be readable.                *)
FrequencyReadable(kept) == kept # {} /\ kept \subseteq policies

SearchDue == ~FrequencyReadable(source) /\ now - source_at >= SourceInterval

(* create_cpu_frequency_source: the policies there are, or nothing.         *)
create_cpu_frequency_source == policies

(* lsm_cpu_memory_update: what a search finds replaces the paths; a search  *)
(* that finds nothing leaves them.                                          *)
UpdateFrequency ==
    /\ stage = "frequency" /\ stage' = "thermal"
    /\ IF SearchDue
       THEN /\ source' = IF create_cpu_frequency_source # {}
                         THEN create_cpu_frequency_source ELSE source
            /\ source_at' = now
       ELSE UNCHANGED <<source, source_at>>
    /\ frequency_available' = FrequencyReadable(source')
    /\ settled' = settled + 1
    /\ UNCHANGED <<machineVars, now, cpuVars, thermalVars, memoryVars>>

(* cpu_thermal_cache_sample: of the sensors kept that can be read, the best *)
(* labelled and, among those, the hottest.                                  *)
Best(kept) ==
    LET live == kept \cap readable
        top == {s \in live : \A t \in live : Score[s] >= Score[t]}
        hottest == {s \in top : \A t \in top : Temperature[s] >= Temperature[t]}
    IN IF live = {} THEN NoSensor ELSE CHOOSE s \in hottest : TRUE

CacheServes == Best(cache) # NoSensor

(* The sensors of a kind that can be read now; a directory that cannot be   *)
(* listed in full gives none.                                               *)
discover_hwmon_cpu_thermal(ok) == IF ok THEN Hwmon \cap readable ELSE {}
discover_thermal_zone_cpu_thermal(ok) == IF ok THEN Zones \cap readable ELSE {}

(* lsm_sources_read_cpu_thermal: the cache, else the hwmon sensors that can *)
(* be read, else the thermal zones; finding none leaves the cache empty.    *)
ReadThermal ==
    /\ stage = "thermal" /\ stage' = "memory"
    /\ \E hwmon_listed, zones_listed \in BOOLEAN :
          LET hwmon == discover_hwmon_cpu_thermal(hwmon_listed)
              zones == discover_thermal_zone_cpu_thermal(zones_listed)
          IN /\ cache' = IF CacheServes THEN cache
                         ELSE IF hwmon # {} THEN hwmon ELSE zones
             /\ listed' = (hwmon_listed /\ zones_listed)
    /\ temperature' = Best(cache')
    /\ UNCHANGED <<machineVars, now, cpuVars, frequencyVars, settled, memoryVars>>

(* Mutant: the details of the last good reading outlive a failed one.       *)
Mut_NothingKnown == available' = 0 /\ UNCHANGED details

(* "Do not combine current counters with retained cache data."              *)
NothingKnown == available' = 0 /\ details' = 0

(* update_memory with lsm_memory_accounting_read: MemAvailable every time,  *)
(* the details when they are due, and nothing of a reading that fails.  The *)
(* attempt counts as a reading of the details either way.                   *)
UpdateMemory ==
    /\ stage = "memory" /\ stage' = "idle"
    /\ LET due == now - detail_at >= DetailInterval
       IN /\ detail_at' = IF due THEN now ELSE detail_at
          /\ \/ /\ available' = now /\ good_reads' = good_reads + 1
                /\ details' = IF due THEN now ELSE details
             \/ NothingKnown /\ good_reads' = 0
    /\ UNCHANGED <<machineVars, now, cpuVars, frequencyVars, settled, thermalVars>>

Next == MachineChanges \/ ReadCpu \/ UpdateFrequency \/ ReadThermal \/ UpdateMemory

Spec == Init /\ [][Next]_vars

-----------------------------------------------------------------------------
(* What is shown was measured: use of all processors covers the time        *)
(* between the last two good readings; that of one processor does too, or   *)
(* it was off line at the first of them and its use goes back to a reading  *)
(* before that, or to the start of the machine.  Interrupts and context     *)
(* switches are those between the same two readings, per second of the time *)
(* between them; the exception: if a sample between the two could not read  *)
(* them, they are still divided by the time since the last sample alone     *)
(* (elapsed of sample_once), and the rate is too high.                      *)
(* A temperature is that of a sensor that can be read.  Memory in use is of *)
(* this sample, and a detail is never older than its interval or than a     *)
(* failure.                                                                 *)
ReadingsHonest ==
    /\ \A r \in Rows : usage[r].kind = "interval" =>
          /\ usage[r].to = read_at[2]
          /\ usage[r].from # read_at[1] =>
                usage[r].from < read_at[1] /\ r \notin online_at[1]
    /\ event_rate.kind = "rate" =>
          /\ event_rate.counted = Interval(read_at[1], read_at[2])
          /\ read_at[1] = read_at[2] - 1 => event_rate.seconds = 1
    /\ stage = "idle" /\ now > 1 =>
          /\ available \in {0, now}
          /\ details # 0 => /\ now - details < DetailInterval
                            /\ good_reads > now - details
    /\ stage = "memory" => temperature \in readable \cup {NoSensor}

(* No reader stays blind: a temperature is shown whenever a sensor of       *)
(* either kind can be read and the directories can be listed; a frequency   *)
(* is shown at the latest SourceInterval samples after the policies stopped *)
(* changing; details are back DetailInterval good readings after a failure. *)
ReadersRecover ==
    /\ stage = "memory" /\ listed /\ readable # {} => temperature # NoSensor
    /\ stage = "thermal" /\ settled > SourceInterval /\ policies # {} =>
          frequency_available
    /\ stage = "idle" /\ good_reads >= DetailInterval => details # 0
=============================================================================
