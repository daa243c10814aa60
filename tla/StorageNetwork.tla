---------------------------- MODULE StorageNetwork ----------------------------
(***************************************************************************)
(* Disks and network interfaces of the Linux sampler                       *)
(* (src/monitor_storage_network.c, src/disk_accounting.c and the network   *)
(* part of src/system_sources.c).  Devices come and go while a sample is   *)
(* being taken, and the kernel gives the name of one that left to the next *)
(* one.  A cumulative counter becomes a rate against a baseline kept from  *)
(* the previous sample, and the list of devices is read at other moments   *)
(* than the counters.                                                      *)
(*                                                                         *)
(* A device is a number, used once: what the kernel's diskseq, and the     *)
(* index with the MAC address of an interface, stand for.  One counter     *)
(* stands for all of a device.                                             *)
(***************************************************************************)
EXTENDS Integers, FiniteSets, TLC

CONSTANTS
    DiskNames, NetNames,   \* Kernel names, as numbers in name order.
    MaxDisk, MaxNet,       \* Bounds on the devices that ever appear.
    MaxCount,              \* Bound on what one counter reaches.
    MaxSamples             \* Bound on the samples taken.

None == 0
Zero == [kind |-> "zero"]       \* What calloc leaves in a rate.
NaN == [kind |-> "nan"]
Rate(from, to) == [kind |-> "rate", from |-> from, to |-> to]
NoBase == [device |-> None, count |-> 0, at |-> 0]
Fresh == [initialized |-> FALSE, previous |-> NoBase]

StorageAssumption ==
    /\ IsFiniteSet(DiskNames) /\ DiskNames \subseteq Nat
    /\ IsFiniteSet(NetNames) /\ NetNames \subseteq Nat
    /\ MaxDisk \in Nat /\ MaxNet \in Nat /\ MaxCount \in Nat
    /\ MaxSamples \in Nat \ {0}

VARIABLES
    disk_at, net_at,       \* The machine: which device has a name.
    born,                  \* How many devices of each kind have appeared.
    counter,               \* What each device's counter read last.
    sockets,               \* Both rtnetlink sockets could be opened.
    net_events,            \* The event socket holds something to read.
    disks, disk_states,    \* By name: the disk listed and its baseline.
    nets, net_states,      \* By name: interface listed, and its baseline.
    told,                  \* The devices listed when topology_generation was
                           \* last raised; it stands for the number.
    refresh, complete,     \* Locals of lsm_storage_update.
    topology_refresh_requested, topology_retry_pending,
    step,                  \* Where the sampling thread is.
    sample                 \* History: the number of the sample.

machineVars == <<disk_at, net_at, born, counter, net_events>>
diskVars == <<disks, disk_states>>
netVars == <<nets, net_states>>
scheduleVars == <<topology_refresh_requested, topology_retry_pending, sample>>
vars == <<machineVars, sockets, diskVars, netVars, told,
          refresh, complete, scheduleVars, step>>

DiskDevices == 1 .. MaxDisk
NetDevices == 1 .. MaxNet
Listed(table) == {[name |-> n, device |-> table[n].device] : n \in DOMAIN table}
Present(at) == {[name |-> n, device |-> at[n]] : n \in {m \in DOMAIN at : at[m] # None}}
Attached(table) == [n \in DOMAIN table |-> table[n].device]

TypeOK ==
    /\ disk_at \in [DiskNames -> DiskDevices \cup {None}]
    /\ net_at \in [NetNames -> NetDevices \cup {None}]
    /\ DOMAIN disks = DOMAIN disk_states /\ DOMAIN disks \subseteq DiskNames
    /\ DOMAIN nets = DOMAIN net_states /\ DOMAIN nets \subseteq NetNames
    /\ step \in {"initialise", "networks", "idle", "refresh_disks",
                 "refresh_networks", "update_disks", "update_networks"}

Init ==
    /\ born \in [disk : 0 .. MaxDisk, net : 0 .. MaxNet]
    /\ disk_at = [n \in DiskNames |-> IF n <= born.disk THEN n ELSE None]
    /\ net_at = [n \in NetNames |-> IF n <= born.net THEN n ELSE None]
    /\ counter = [disk |-> [d \in DiskDevices |-> 0], net |-> [d \in NetDevices |-> 0]]
    /\ sockets \in BOOLEAN /\ net_events = FALSE
    /\ disks = <<>> /\ disk_states = <<>> /\ nets = <<>> /\ net_states = <<>>
    /\ told = [disk |-> <<>>, net |-> <<>>]
    /\ refresh = FALSE /\ complete = TRUE
    /\ topology_refresh_requested = FALSE /\ topology_retry_pending = FALSE
    /\ step = "initialise" /\ sample = 0

-----------------------------------------------------------------------------
(* The machine: a disk leaves or takes a name, an interface leaves, takes   *)
(* or changes a name, or gets other addresses.  Only interfaces are         *)
(* announced, on the event socket.                                          *)
DiskChanges(n) ==
    /\ \/ disk_at[n] # None /\ disk_at' = [disk_at EXCEPT ![n] = None] /\ UNCHANGED born
       \/ /\ born.disk < MaxDisk /\ born' = [born EXCEPT !.disk = @ + 1]
          /\ disk_at' = [disk_at EXCEPT ![n] = born.disk + 1]
    /\ UNCHANGED <<net_at, counter, net_events, sockets, diskVars,
                   netVars, told, refresh, complete,
                   scheduleVars, step>>

InterfaceChanges(n) ==
    /\ \/ /\ net_at[n] # None /\ net_at' = [net_at EXCEPT ![n] = None]
          /\ UNCHANGED born
       \/ /\ net_at[n] = None /\ born.net < MaxNet
          /\ born' = [born EXCEPT !.net = @ + 1]
          /\ net_at' = [net_at EXCEPT ![n] = born.net + 1]
       \/ \E m \in NetNames :
             /\ net_at[n] # None /\ net_at[m] = None
             /\ net_at' = [net_at EXCEPT ![n] = None, ![m] = net_at[n]]
             /\ UNCHANGED born
       \/ net_at[n] # None /\ UNCHANGED <<net_at, born>>   \* addresses
    /\ net_events' = sockets
    /\ UNCHANGED <<disk_at, counter, sockets, diskVars, netVars,
                   told, refresh, complete, scheduleVars,
                   step>>

-----------------------------------------------------------------------------
(* find_old_disk, and reconcile_disk_states with find_disk_state: both want *)
(* the name and the instance.                                               *)
KeptDisk(n, d) == n \in DOMAIN disks /\ disks[n].device = d

(* refresh_disks, from a listing and a partition scan that both worked.     *)
ListDisks ==
    LET found == {n \in DiskNames : disk_at[n] # None}
    IN /\ disks' = [n \in found |->
              IF KeptDisk(n, disk_at[n]) THEN disks[n]
              ELSE [device |-> disk_at[n], rate |-> Zero]]
       /\ disk_states' = [n \in found |->
              IF KeptDisk(n, disk_at[n]) THEN disk_states[n] ELSE Fresh]

(* find_old_network and find_network_state: the instance decides, whatever  *)
(* its name.                                                                *)
SameNetwork(table, d) == {m \in DOMAIN table : table[m].device = d}

(* refresh_networks, from a dump or a directory that could be read.         *)
ListNetworks ==
    LET found == {n \in NetNames : net_at[n] # None}
        Old(n) == CHOOSE m \in SameNetwork(nets, net_at[n]) : TRUE
        Known(n) == SameNetwork(nets, net_at[n]) # {}
    IN /\ nets' = [n \in found |-> IF Known(n) THEN nets[Old(n)]
              ELSE [device |-> net_at[n], rate |-> Zero]]
       /\ net_states' = [n \in found |->
              IF Known(n) THEN net_states[Old(n)] ELSE Fresh]

(* Both refreshes raise the generation when what is listed changed: a disk  *)
(* by name and instance, an interface by instance only, in name order.      *)
DiskMembershipChanged == Attached(disks') # Attached(disks)
InNameOrder(table) ==
    [i \in 1 .. Cardinality(DOMAIN table) |->
        table[CHOOSE n \in DOMAIN table :
                 Cardinality({m \in DOMAIN table : m <= n}) = i].device]

NetworkMembershipChanged == InNameOrder(nets') # InNameOrder(nets)

(* A refresh that fails leaves the last complete list.                      *)
refresh_disks(ok) ==
    IF ~ok THEN UNCHANGED <<diskVars, told>>
    ELSE /\ ListDisks
         /\ told' = IF DiskMembershipChanged
                    THEN [told EXCEPT !.disk = Attached(disks')] ELSE told

refresh_networks(ok) ==
    IF ~ok THEN UNCHANGED <<netVars, told>>
    ELSE /\ ListNetworks
         /\ told' = IF NetworkMembershipChanged
                    THEN [told EXCEPT !.net = InNameOrder(nets')] ELSE told

-----------------------------------------------------------------------------
(* lsm_storage_initialise, in the worker before its first sample: the       *)
(* interfaces are looked for only when the disks were found.  Whatever      *)
(* failed, sampler_thread_main asks for a refresh of the topology.          *)
InitialiseDisks ==
    /\ step = "initialise"
    /\ \E ok \in BOOLEAN :
          /\ refresh_disks(ok) /\ step' = IF ok THEN "networks" ELSE "idle"
          /\ topology_refresh_requested' = (topology_refresh_requested \/ ~ok)
    /\ UNCHANGED <<machineVars, sockets, netVars, refresh, complete,
                   topology_retry_pending, sample>>

InitialiseNetworks ==
    /\ step = "networks"
    /\ \E ok \in BOOLEAN :
          /\ refresh_networks(ok) /\ step' = "idle"
          /\ topology_refresh_requested' = (topology_refresh_requested \/ ~ok)
    /\ UNCHANGED <<machineVars, sockets, diskVars, refresh, complete,
                   topology_retry_pending, sample>>

(* sample_once: a refresh is forced, due for a retry, or due by the clock   *)
(* when no retry is pending.  The hardware collectors' part in `complete'   *)
(* is left open.                                                            *)
BeginSample ==
    /\ step = "idle" /\ sample < MaxSamples
    /\ refresh' \in BOOLEAN
    /\ topology_refresh_requested => refresh'
    /\ topology_refresh_requested' = FALSE
    /\ complete' = TRUE /\ sample' = sample + 1
    /\ step' = IF refresh' THEN "refresh_disks" ELSE "update_disks"
    /\ UNCHANGED <<machineVars, sockets, diskVars, netVars,
                   told, topology_retry_pending>>

RefreshDisks ==
    /\ step = "refresh_disks" /\ step' = "refresh_networks"
    /\ \E ok \in BOOLEAN : refresh_disks(ok) /\ complete' = ok
    /\ UNCHANGED <<machineVars, sockets, netVars, refresh, scheduleVars>>

(* lsm_sources_network_topology_changed empties the event socket; without   *)
(* both sockets, or after an error on one, the answer is yes.               *)
RefreshNetworks ==
    /\ step = "refresh_networks"
    /\ \/ \E ok \in BOOLEAN :
             /\ refresh_networks(ok) /\ complete' = (complete /\ ok)
       \/ /\ sockets /\ ~net_events
          /\ UNCHANGED <<netVars, told, complete>>
    /\ net_events' = FALSE /\ step' = "update_disks"
    /\ UNCHANGED <<disk_at, net_at, born, counter, sockets, diskVars,
                   refresh, scheduleVars>>

(* A rate wants two readings, both of a counter that did not go back; a     *)
(* reading that is missing drops the baseline (lsm_disk_accounting_update,  *)
(* update_networks).                                                        *)
Accounted(state, reading) ==
    IF state.initialized /\ reading.count >= state.previous.count
    THEN Rate(state.previous, reading) ELSE NaN

(* Mutant: a sample without a reading keeps the baseline.                   *)
Mut_Lost(state) == state

Lost(state) == [state EXCEPT !.initialized = FALSE]

(* What the counters of a kind read now: each at least what it last read.   *)
Readings(kind, devices) ==
    {now \in [devices -> 0 .. MaxCount] : \A d \in devices : now[d] >= counter[kind][d]}

(* update_disks: /proc/diskstats gives counters by name, for all the disks  *)
(* there are or, when it cannot be read, for none.                          *)
UpdateDisks ==
    /\ step = "update_disks"
    /\ LET present == {disk_at[n] : n \in DiskNames} \ {None}
       IN \E now \in Readings("disk", present),
             sampled \in {{}, {n \in DOMAIN disks : disk_at[n] # None}} :
          /\ LET Reading(n) == [device |-> disk_at[n], count |-> now[disk_at[n]],
                                at |-> sample]
             IN /\ disks' = [n \in DOMAIN disks |-> [disks[n] EXCEPT !.rate =
                       IF n \in sampled THEN Accounted(disk_states[n], Reading(n))
                       ELSE NaN]]
                /\ disk_states' = [n \in DOMAIN disk_states |->
                       IF n \in sampled
                       THEN [initialized |-> TRUE, previous |-> Reading(n)]
                       ELSE Lost(disk_states[n])]
          /\ counter' = [counter EXCEPT !.disk = now @@ @]
    /\ step' = "update_networks"
    /\ UNCHANGED <<disk_at, net_at, born, net_events, sockets, netVars,
                   told, refresh, complete, scheduleVars>>

(* A record of the counters is used when both its name and its instance are *)
(* those of the interface listed.                                           *)
SuppliedBy(n) == net_at[n] # None /\ net_at[n] = nets[n].device

(* update_networks, then the end of sample_once: a refresh that was not     *)
(* complete is retried, a complete one settles the retry.                   *)
UpdateNetworks ==
    /\ step = "update_networks"
    /\ LET present == {net_at[n] : n \in NetNames} \ {None}
       IN \E now \in Readings("net", present), sampled \in SUBSET DOMAIN nets :
          /\ \A n \in sampled : SuppliedBy(n)
          /\ LET Reading(n) == [device |-> net_at[n], count |-> now[net_at[n]],
                                at |-> sample]
             IN /\ nets' = [n \in DOMAIN nets |-> [nets[n] EXCEPT !.rate =
                       IF n \in sampled THEN Accounted(net_states[n], Reading(n))
                       ELSE NaN]]
                /\ net_states' = [n \in DOMAIN net_states |->
                       IF n \in sampled
                       THEN [initialized |-> TRUE, previous |-> Reading(n)]
                       ELSE Lost(net_states[n])]
          /\ counter' = [counter EXCEPT !.net = now @@ @]
    /\ \E hardware_complete \in BOOLEAN :
          topology_retry_pending' =
              IF refresh THEN ~(complete /\ hardware_complete)
              ELSE topology_retry_pending
    /\ step' = "idle"
    /\ UNCHANGED <<disk_at, net_at, born, net_events, sockets, diskVars,
                   told, refresh, complete,
                   topology_refresh_requested, sample>>

(* lsm_monitor_platform_request_topology_refresh, from the user interface.  *)
RequestRefresh ==
    /\ ~topology_refresh_requested
    /\ topology_refresh_requested' = TRUE
    /\ UNCHANGED <<machineVars, sockets, diskVars, netVars, told, refresh, complete, topology_retry_pending, step, sample>>

Next ==
    \/ \E n \in DiskNames : DiskChanges(n)
    \/ \E n \in NetNames : InterfaceChanges(n)
    \/ InitialiseDisks \/ InitialiseNetworks \/ BeginSample \/ RefreshDisks
    \/ RefreshNetworks \/ UpdateDisks \/ UpdateNetworks
    \/ RequestRefresh

Spec == Init /\ [][Next]_vars

-----------------------------------------------------------------------------
(* A rate shown is the difference of two readings of one device, taken at   *)
(* the last sample and at this one: not over a sample that was missed, not  *)
(* from a counter that went back, not the zero a new entry starts with.     *)
(* For a disk it is so whenever the device listed is the one that was read; *)
(* a disk swapped since the last list is read by its name.                  *)
RatesHonest ==
    step = "idle" /\ sample > 0 =>
        /\ \A table \in {disks, nets} : \A n \in DOMAIN table :
              LET rate == table[n].rate
              IN /\ rate.kind # "zero"
                 /\ rate.kind = "rate" =>
                       /\ rate.to.at = sample /\ rate.from.at = sample - 1
                       /\ rate.from.count <= rate.to.count
                       /\ rate.to.device = table[n].device =>
                             rate.from.device = table[n].device
        /\ \A n \in DOMAIN nets :
              nets[n].rate.kind = "rate" => nets[n].rate.to.device = nets[n].device

(* The pages compare generations only: two lists under one generation have  *)
(* the same disks, and the same interfaces in the same order.               *)
GenerationTells ==
    /\ Attached(disks) = told.disk
    /\ InNameOrder(nets) = told.net

=============================================================================
