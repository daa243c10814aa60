---------------------------- MODULE WindowsDevices ----------------------------
(***************************************************************************)
(* What one sample of the Windows monitor backend leaves for the next      *)
(* (src/monitor_backend_windows.c): the list of physical disks with the    *)
(* baselines that belong to it by position, and the network adapters with  *)
(* baselines in slots found by LUID.  Between two topology scans only the  *)
(* counters are read, through the number or LUID kept from the last scan;  *)
(* a scan that fails half way is rolled back.                              *)
(*                                                                         *)
(* A disk is its drive number and an adapter its LUID.  One counter stands *)
(* for all of a device, and a rate for the two samples it was taken from.  *)
(* The machine changes between any two steps.                              *)
(***************************************************************************)
EXTENDS Integers, FiniteSets, Sequences, SequencesExt

CONSTANTS
    Drives, Adapters,      \* Drive numbers and LUIDs that may appear.
    LSM_MAX_NETS,          \* Slots for baselines of adapters.
    MaxSamples             \* Bound on the samples taken.

DevicesAssumption ==
    /\ IsFiniteSet(Drives) /\ IsFiniteSet(Adapters)
    /\ LSM_MAX_NETS \in Nat \ {0} /\ MaxSamples \in Nat

(* A reading that is marked unknown, and the 0.0 of memory just allocated.  *)
NaN == [kind |-> "nan"]
Zero == [kind |-> "zero"]
Rate(device, from, to) ==
    [kind |-> "rate", device |-> device, from |-> from, to |-> to]

VARIABLES
    drives, adapters,      \* The machine: what is present.
    due, elapsed,          \* Locals of a sample: topology due; time passed.
    disks, baselines,      \* monitor->disks and state->disks, by position.
    backup,                \* Both, as they were before the scan.
    nets, slots,           \* monitor->nets; state->nets, by slot.
    seen,                  \* Numbers or adapters a scan has listed.
    discovered,            \* Locals of enumerate_networks: the rows so far,
    slot_backup,           \* and the slots as they were before.
    row,                   \* Rows read so far, of a scan or of monitor->nets.
    told,                  \* The lists when topology_generation last rose;
                           \* it stands for the number.
    step, sample

machineVars == <<drives, adapters>>
rowVars == <<discovered, slot_backup, row>>
vars == <<machineVars, due, elapsed, disks, baselines, backup, nets, slots,
          seen, rowVars, told, step, sample>>

Slots == 1 .. LSM_MAX_NETS
NoSlot == [valid |-> FALSE, key |-> 0, at |-> 0]
Ids(list) == [i \in DOMAIN list |-> list[i].id]
Orders(S) == {s \in [1 .. Cardinality(S) -> S] : IsInjective(s)}

Init ==
    /\ drives = Drives /\ adapters = Adapters
    /\ due = FALSE /\ elapsed = FALSE
    /\ disks = <<>> /\ baselines = <<>> /\ backup = <<>>
    /\ nets = <<>> /\ slots = [s \in Slots |-> NoSlot]
    /\ seen = <<>> /\ discovered = <<>> /\ slot_backup = <<>> /\ row = 0
    /\ told = [disks |-> <<>>, nets |-> <<>>]
    /\ step = "idle" /\ sample = 0

TypeOK ==
    /\ drives \subseteq Drives /\ adapters \subseteq Adapters
    /\ Range(Ids(disks)) \subseteq Drives /\ Range(Ids(nets)) \subseteq Adapters
    /\ slots \in [Slots -> [valid : BOOLEAN, key : Adapters \cup {0},
                            at : 0 .. MaxSamples]]
    /\ step \in {"idle", "numbers", "disks", "volumes", "counters",
                 "adapters", "rows", "net_counters"}

-----------------------------------------------------------------------------
(* A disk or an adapter arrives or leaves.                                  *)
MachineChanges ==
    /\ \/ \E d \in Drives :
             /\ drives' = IF d \in drives THEN drives \ {d} ELSE drives \cup {d}
             /\ UNCHANGED adapters
       \/ \E a \in Adapters :
             /\ adapters' = IF a \in adapters THEN adapters \ {a}
                            ELSE adapters \cup {a}
             /\ UNCHANGED drives
    /\ UNCHANGED <<due, elapsed, disks, baselines, backup, nets, slots, seen,
                   rowVars, told, step, sample>>

(* windows_sample_once reads the clock; the topology is due every half      *)
(* minute, counted from the last attempt, and when it was asked for.        *)
windows_sample_once ==
    /\ step = "idle" /\ sample < MaxSamples
    /\ sample' = sample + 1
    /\ due' \in IF sample = 0 THEN {TRUE} ELSE BOOLEAN
    /\ elapsed' \in IF sample = 0 THEN {FALSE} ELSE BOOLEAN
    /\ step' = IF due' THEN "numbers" ELSE "counters"
    /\ UNCHANGED <<machineVars, disks, baselines, backup, nets, slots, seen,
                   rowVars, told>>

(* update_disk_performance and its like for adapters: a counter becomes a   *)
(* rate against a valid baseline, unless no time has passed or it went      *)
(* back.                                                                    *)
Measured(id, base, forward) ==
    IF base.valid /\ elapsed /\ forward THEN Rate(id, base.at, sample) ELSE NaN
Current(id) == [valid |-> TRUE, key |-> id, at |-> sample]

(* enumerate_physical_disk_numbers: in whatever order SetupAPI lists them,  *)
(* or not at all.                                                           *)
enumerate_physical_disk_numbers ==
    /\ step = "numbers"
    /\ backup' = [disks |-> disks, baselines |-> baselines, told |-> told.disks]
    /\ \/ \E order \in Orders(drives) : seen' = order /\ step' = "disks"
       \/ UNCHANGED seen /\ step' = "counters"
    /\ UNCHANGED <<machineVars, due, elapsed, disks, baselines, nets, slots,
                   rowVars, told, sample>>

find_disk_baseline(number) ==
    LET old == {i \in DOMAIN baselines :
                    baselines[i].valid /\ baselines[i].key = number}
    IN IF old = {} THEN [NoSlot EXCEPT !.key = number]
       ELSE baselines[CHOOSE i \in old : TRUE]

(* enumerate_physical_disks: opens each number it has listed; one that has  *)
(* gone meanwhile spoils the scan.  A disk whose counters cannot be read is *)
(* listed without a baseline and with the zeros of calloc for a rate.       *)
enumerate_physical_disks ==
    /\ step = "disks"
    /\ IF Range(seen) \subseteq drives
       THEN \E readable, forward \in SUBSET Range(seen) :
            /\ disks' = [i \in DOMAIN seen |->
                   [id |-> seen[i], volumes |-> 0,
                    rate |-> IF seen[i] \in readable
                             THEN Measured(seen[i], find_disk_baseline(seen[i]),
                                           seen[i] \in forward)
                             ELSE Zero]]
            /\ baselines' = [i \in DOMAIN seen |->
                   IF seen[i] \in readable THEN Current(seen[i])
                   ELSE [NoSlot EXCEPT !.key = seen[i]]]
            /\ told' = IF Ids(disks') = Ids(disks) THEN told
                       ELSE [told EXCEPT !.disks = Ids(disks')]
            /\ step' = "volumes"
       ELSE UNCHANGED <<disks, baselines, told>> /\ step' = "counters"
    /\ UNCHANGED <<machineVars, due, elapsed, backup, nets, slots, seen, rowVars,
                   sample>>

(* refresh_topology_and_devices restores what the scan replaced.            *)
RollBack ==
    /\ disks' = backup.disks /\ baselines' = backup.baselines
    /\ told' = [told EXCEPT !.disks = backup.told]

(* enumerate_disk_volumes; the volumes of a disk stand for the scan that    *)
(* read them.                                                               *)
enumerate_disk_volumes ==
    /\ step = "volumes"
    /\ \/ /\ disks' = [i \in DOMAIN disks |->
                           [disks[i] EXCEPT !.volumes = sample]]
          /\ step' = "adapters"
          /\ UNCHANGED <<baselines, told>>
       \/ RollBack /\ step' = "counters"
    /\ seen' = <<>> /\ backup' = <<>>
    /\ UNCHANGED <<machineVars, due, elapsed, nets, slots, rowVars, sample>>

(* update_physical_disk_performance opens the number in the baseline at the *)
(* position of the disk.                                                    *)
update_physical_disk_performance ==
    /\ step = "counters"
    /\ \E readable \in SUBSET drives, forward \in SUBSET drives :
          LET Reads(i) == baselines[i].key \in readable
          IN /\ disks' = [i \in DOMAIN disks |->
                    [disks[i] EXCEPT !.rate =
                        IF Reads(i)
                        THEN Measured(baselines[i].key, baselines[i],
                                      baselines[i].key \in forward)
                        ELSE NaN]]
             /\ baselines' = [i \in DOMAIN baselines |->
                    IF Reads(i) THEN Current(baselines[i].key)
                    ELSE [baselines[i] EXCEPT !.valid = FALSE]]
    /\ step' = IF due THEN "adapters" ELSE "net_counters"
    /\ seen' = <<>> /\ backup' = <<>>
    /\ UNCHANGED <<machineVars, due, elapsed, nets, slots, rowVars, told, sample>>

-----------------------------------------------------------------------------
(* net_baseline: the valid slot of a LUID, else the first one that is free; *)
(* 0 when there is neither.                                                 *)
net_baseline(key) ==
    LET own == {s \in Slots : slots[s].valid /\ slots[s].key = key}
        free == {s \in Slots : ~slots[s].valid}
    IN CASE own # {} -> CHOOSE s \in own : TRUE
         [] own = {} /\ free # {} -> CHOOSE s \in free : \A t \in free : s <= t
         [] OTHER -> 0

(* An adapter whose row could be read: its rate, with its slot brought up   *)
(* to date; without a slot it has no rate.                                  *)
RowRate(key, forward) ==
    LET s == net_baseline(key)
    IN IF s = 0 THEN NaN ELSE Measured(key, slots[s], forward)
KeepReading(key) ==
    LET s == net_baseline(key)
    IN slots' = IF s = 0 THEN slots ELSE [slots EXCEPT ![s] = Current(key)]

(* A row that could not be read takes its slot away.                        *)
DropReading(key) ==
    LET s == net_baseline(key)
    IN slots' = IF s = 0 THEN slots
                ELSE [slots EXCEPT ![s].key = key, ![s].valid = FALSE]

(* enumerate_networks: GetAdaptersAddresses, and the backup.                *)
ListAdapters ==
    /\ step = "adapters"
    /\ \/ /\ \E order \in Orders(adapters) : seen' = order
          /\ slot_backup' = slots /\ step' = "rows"
       \/ UNCHANGED <<seen, slot_backup>> /\ step' = "net_counters"
    /\ UNCHANGED <<machineVars, due, elapsed, disks, baselines, backup, nets,
                   slots, discovered, row, told, sample>>

(* The next adapter of the list is read in place.                           *)
ReadRow ==
    /\ step = "rows" /\ row < Len(seen) /\ row < LSM_MAX_NETS
    /\ seen[row + 1] \in adapters
    /\ \E forward \in BOOLEAN :
          discovered' = Append(discovered, [id |-> seen[row + 1],
                                   rate |-> RowRate(seen[row + 1], forward)])
    /\ KeepReading(seen[row + 1]) /\ row' = row + 1
    /\ UNCHANGED <<machineVars, due, elapsed, disks, baselines, backup, nets,
                   seen, slot_backup, told, step, sample>>

(* GetIfEntry2 may refuse any of them, and one more than there is room for  *)
(* is refused: list and slots are then as they were.                        *)
RowFails ==
    /\ step = "rows" /\ row < Len(seen)
    /\ slots' = slot_backup
    /\ discovered' = <<>> /\ slot_backup' = <<>> /\ row' = 0 /\ seen' = <<>>
    /\ step' = "net_counters"
    /\ UNCHANGED <<machineVars, due, elapsed, disks, baselines, backup, nets,
                   told, sample>>

Cleared(table) ==
    [s \in Slots |-> IF table[s].valid /\ table[s].key \notin Range(seen)
                     THEN NoSlot ELSE table[s]]

(* All rows were read: slots of adapters not listed become free, and the    *)
(* list is taken over.                                                      *)
enumerate_networks ==
    /\ step = "rows" /\ row = Len(seen)
    /\ nets' = discovered /\ slots' = Cleared(slots)
    /\ told' = IF Ids(nets') = Ids(nets) THEN told
               ELSE [told EXCEPT !.nets = Ids(nets')]
    /\ discovered' = <<>> /\ slot_backup' = <<>> /\ row' = 0 /\ seen' = <<>>
    /\ step' = "idle"
    /\ UNCHANGED <<machineVars, due, elapsed, disks, baselines, backup, sample>>

(* update_network_counters: the next adapter of monitor->nets, by its LUID. *)
ReadCounters ==
    /\ step = "net_counters" /\ row < Len(nets)
    /\ LET key == nets[row + 1].id
       IN \/ /\ key \in adapters /\ KeepReading(key)
             /\ \E forward \in BOOLEAN :
                   nets' = [nets EXCEPT ![row + 1].rate = RowRate(key, forward)]
          \/ /\ DropReading(key)
             /\ nets' = [nets EXCEPT ![row + 1].rate = NaN]
    /\ row' = row + 1
    /\ UNCHANGED <<machineVars, due, elapsed, disks, baselines, backup, seen,
                   discovered, slot_backup, told, step, sample>>

update_network_counters ==
    /\ step = "net_counters" /\ row = Len(nets)
    /\ row' = 0 /\ step' = "idle"
    /\ UNCHANGED <<machineVars, due, elapsed, disks, baselines, backup, nets,
                   slots, seen, discovered, slot_backup, told, sample>>

(* The bound on the samples is reached.                                     *)
Stopped == step = "idle" /\ sample = MaxSamples /\ UNCHANGED vars

Next ==
    \/ MachineChanges \/ windows_sample_once
    \/ enumerate_physical_disk_numbers \/ enumerate_physical_disks
    \/ enumerate_disk_volumes \/ update_physical_disk_performance
    \/ ListAdapters \/ ReadRow \/ RowFails \/ enumerate_networks
    \/ ReadCounters \/ update_network_counters \/ Stopped

Spec == Init /\ [][Next]_vars

-----------------------------------------------------------------------------
(* "reset, replacement or invalid elapsed time breaks rate baselines"       *)
(* (docs/ARCHITECTURE.md): a rate shown after a sample belongs to the disk  *)
(* or adapter it stands beside and spans exactly the interval between the   *)
(* last two samples, whatever failed, came or went in between and whether   *)
(* a scan, its roll-back or the short way produced it.  The exception: a    *)
(* disk that the scan of this very sample listed without being able to read *)
(* its counters shows 0.0, which nobody measured, until the next sample.    *)
RatesHonest ==
    step = "idle" =>
        /\ \A list \in {disks, nets} : \A i \in DOMAIN list :
              list[i].rate \in {NaN, Zero, Rate(list[i].id, sample - 1, sample)}
        /\ \A i \in DOMAIN nets : nets[i].rate # Zero
        /\ \A i \in DOMAIN disks : disks[i].rate = Zero =>
              disks[i].volumes = sample /\ ~baselines[i].valid

(* The baseline at a position carries the number of the disk listed there,  *)
(* which is all the short way goes by, and a scan is taken over with the    *)
(* volumes it read or not at all (refresh_topology_and_devices).            *)
ListsWhole ==
    /\ Ids(disks) = [i \in DOMAIN baselines |-> baselines[i].key]
    /\ step # "volumes" =>
           \A i, j \in DOMAIN disks : /\ disks[i].volumes > 0
                                      /\ disks[i].volumes = disks[j].volumes

(* topology_generation tells the lists apart: it rose when they last        *)
(* changed, and a scan that was rolled back leaves it where it was.         *)
GenerationHonest ==
    step = "idle" => told = [disks |-> Ids(disks), nets |-> Ids(nets)]

(* No slot is held by an adapter that the last complete scan did not list,  *)
(* and none has two: a listed adapter finds room for its baseline.          *)
SlotsOwned ==
    step = "idle" =>
        \A s \in Slots : slots[s].valid =>
            /\ slots[s].key \in Range(Ids(nets))
            /\ \A t \in Slots \ {s} :
                   slots[t].valid => slots[t].key # slots[s].key
=============================================================================
