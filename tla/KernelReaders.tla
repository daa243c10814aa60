----------------------------- MODULE KernelReaders -----------------------------
(***************************************************************************)
(* How the inventories of the monitor are read from a kernel that does not *)
(* hold still (src/system_sources.c): the dump of network interfaces over  *)
(* rtnetlink with its fallback to sysfs, the mounts and partitions with    *)
(* the labels of the device manager's database (src/storage_metadata.c,    *)
(* src/monitor_storage_network.c), and the names of the hardware, with     *)
(* the cache of the PCI registry (src/pci_names.c).                        *)
(*                                                                         *)
(* One record variable per part; "study" says which part a behaviour is    *)
(* about.  The reader is the sampler's thread; the kernel's own steps are  *)
(* modelled as far as the reader can tell them apart.  The attributes of   *)
(* one directory entry are read in one step.                               *)
(***************************************************************************)
EXTENDS Integers, Sequences, FiniteSets, SequencesExt

CONSTANTS
    Studies,        \* The parts looked at.
    Adapters,       \* Interfaces that may exist: name, index, mac, bytes.
    MaxNets,        \* LSM_MAX_NETS, 64.
    Narrow,         \* The width of the old interface counters, 2^32.
    Blocks,         \* Block devices: parent, partition, number, file.
    Filesystems,    \* Mounts that may exist: number, target, filesystem.
    MaxMounts,      \* Mounts one listing holds, 2048.
    MaxPartitions,  \* Partition records one listing holds, 2048.
    PerDisk,        \* LSM_MAX_PARTITIONS, per disk.
    Registries,     \* Contents the override file may have, and "unreadable".
    Registry,       \* The names built in, by identifier.
    Devices,        \* Class devices: the directories above each.
    CacheSize,      \* LSM_PCI_CACHE_SIZE, 64.
    MaxSteps        \* Bound: changes of the machine, and listings.

Parts == {"links", "partitions", "names"}

KernelAssumption ==
    /\ Studies \subseteq Parts
    /\ {MaxNets, Narrow, MaxMounts, MaxPartitions, PerDisk, CacheSize}
          \subseteq Nat \ {0}
    /\ MaxSteps \in Nat
    /\ \A a \in Adapters : a.index \in Nat /\ a.bytes \in Nat

VARIABLES
    study,
    links,      \* The kernel's interfaces, the request socket, the reader.
    parts,      \* Block devices and mounts, the reader and what it listed.
    names       \* The override file, the cache and the last answer.

vars == <<study, links, parts, names>>

None == "none"

-----------------------------------------------------------------------------
(* Interfaces.  An adapter is one hardware instance: the kernel gives a     *)
(* name or an index to another one once the first is gone.                  *)

network_mac_identity_usable(mac) == mac \notin {"", "00"}

(* What an interface is recognised by, from one sample to the next.         *)
network_instance_identity(index, name, mac) ==
    CASE index > 0 /\ network_mac_identity_usable(mac) -> <<"ifindex", index, mac>>
      [] index > 0 -> <<"ifindex", index>>
      [] network_mac_identity_usable(mac) -> <<"mac", mac>>
      [] OTHER -> <<"name", name>>

(* One attribute of a link message; the 64-bit counters win, wherever they  *)
(* stand.                                                                   *)
apply_route_link_attribute(record, attribute) ==
    CASE attribute[1] = "STATS64" ->
           [record EXCEPT !.bytes = attribute[2], !.wide = TRUE]
      [] attribute[1] = "STATS" ->
           IF record.wide THEN record ELSE [record EXCEPT !.bytes = attribute[2]]
      [] OTHER -> [record EXCEPT ![attribute[1]] = attribute[2]]

EmptyLink == [name |-> "", mac |-> "", bytes |-> -1, wide |-> FALSE, adapter |-> 0]

(* external: what the kernel says of an adapter, its counters in either     *)
(* order.                                                                   *)
Attributes(a) ==
    <<<<"name", a.name>>, <<"mac", a.mac>>>>
        \o [i \in DOMAIN a.stats |->
              <<a.stats[i], IF a.stats[i] = "STATS" THEN a.bytes % Narrow ELSE a.bytes>>]

ReadLink(a) ==
    FoldLeft(apply_route_link_attribute, [EmptyLink EXCEPT !.adapter = a.adapter],
             Attributes(a))

(* The kernel's side of a dump, by ascending index: what is left after the  *)
(* interface sent last.                                                     *)
Left(k) == {a \in k.present : a.index > k.dump.after}
Lowest(set) == CHOOSE a \in set : \A b \in set : a.index <= b.index

NoDump == [on |-> FALSE, seq |-> 0, after |-> 0, changed |-> FALSE]

LinksInit(set) ==
    [kernel |-> [present |-> set, dump |-> NoDump, queue |-> <<>>, events |-> TRUE],
     reader |-> [pc |-> "idle", seq |-> 0, got |-> <<>>, overflow |-> FALSE,
                 walked |-> {}],
     listed |-> [ok |-> FALSE, records |-> <<>>], before |-> <<>>,
     during |-> [ever |-> {}, throughout |-> {}], steps |-> 0]

(* An adapter appears under a free name and index, or goes.  Everybody on   *)
(* the event socket is told; a dump in progress is marked as interrupted.   *)
InterfaceChanges(a) ==
    LET k == links.kernel
        now == IF a \in k.present THEN k.present \ {a} ELSE k.present \cup {a}
    IN /\ study = "links" /\ links.steps < MaxSteps /\ a.name # "lo"
       /\ \A b \in now \ {a} : b.name # a.name /\ b.index # a.index
       /\ links' = [links EXCEPT
              !.kernel = [k EXCEPT !.present = now, !.events = TRUE,
                                   !.dump.changed = @ \/ k.dump.on],
              !.during.ever = @ \cup now, !.during.throughout = @ \cap now,
              !.steps = @ + 1]
       /\ UNCHANGED <<parts, names, study>>

(* A sample that finds events empties the event socket and lists afresh.    *)
(* A request while an earlier dump still runs is answered with an error.    *)
ListNetworks ==
    LET k == links.kernel
        seq == links.reader.seq + 1
    IN /\ study = "links" /\ links.reader.pc = "idle" /\ k.events
       /\ links.steps < MaxSteps
       /\ links' = [links EXCEPT
              !.kernel = [k EXCEPT
                  !.events = FALSE,
                  !.dump = IF @.on THEN @
                           ELSE [on |-> TRUE, seq |-> seq, after |-> 0, changed |-> FALSE],
                  !.queue = IF k.dump.on
                            THEN Append(@, [seq |-> seq, type |-> "ERROR",
                                            intr |-> FALSE, link |-> EmptyLink, index |-> 0])
                            ELSE @],
              !.reader = [pc |-> "receive", seq |-> seq, got |-> <<>>,
                          overflow |-> FALSE, walked |-> {}],
              !.during = [ever |-> k.present, throughout |-> k.present],
              !.steps = @ + 1]
       /\ UNCHANGED <<parts, names, study>>

(* external: the kernel fills the next datagram of a dump.                  *)
KernelAnswers ==
    LET k == links.kernel
        done == Left(k) = {}
        Message(link, index) ==
            [seq |-> k.dump.seq, type |-> IF done THEN "DONE" ELSE "NEWLINK",
             intr |-> k.dump.changed, link |-> link, index |-> index]
    IN /\ study = "links" /\ k.dump.on /\ Len(k.queue) < 2
       /\ IF done
          THEN links' = [links EXCEPT !.kernel.dump = NoDump,
                             !.kernel.queue = Append(@, Message(EmptyLink, 0))]
          ELSE LET a == Lowest(Left(k))
               IN links' = [links EXCEPT
                      !.kernel.dump.after = a.index,
                      !.kernel.queue = Append(@, Message(ReadLink(a), a.index))]
       /\ UNCHANGED <<parts, names, study>>

(* A dump that is not complete is not used: sysfs is read instead.          *)
Fallback(reader) == [reader EXCEPT !.pc = "walk", !.got = <<>>, !.overflow = FALSE]

Record(link, index) ==
    [name |-> link.name, bytes |-> link.bytes, adapter |-> link.adapter,
     identity |-> network_instance_identity(index, link.name, link.mac)]

(* Mutant: an answer is taken for whatever request is under way.            *)
Mut_route_link_dump(reader, message) ==
    CASE message.type = "DONE" -> [reader EXCEPT !.pc = "finish"]
      [] message.intr \/ message.type = "ERROR" -> Fallback(reader)
      [] OTHER -> [reader EXCEPT !.got = Append(@, Record(message.link, message.index))]

(* One message: those of another request are skipped, an interrupted dump   *)
(* or an error fails, the loopback and an excess are left out.              *)
route_link_dump(reader, message) ==
    CASE message.seq # reader.seq -> reader
      [] message.intr \/ message.type = "ERROR" -> Fallback(reader)
      [] message.type = "DONE" ->
           IF reader.overflow THEN Fallback(reader) ELSE [reader EXCEPT !.pc = "finish"]
      [] message.link.name \in {"lo", ""} -> reader
      [] Len(reader.got) >= MaxNets -> [reader EXCEPT !.overflow = TRUE]
      [] OTHER -> [reader EXCEPT !.got = Append(@, Record(message.link, message.index))]

Receive ==
    /\ study = "links" /\ links.reader.pc = "receive" /\ links.kernel.queue # <<>>
    /\ links' = [links EXCEPT
           !.kernel.queue = Tail(@),
           !.reader = route_link_dump(links.reader, Head(links.kernel.queue))]
    /\ UNCHANGED <<parts, names, study>>

(* route_socket's receive timeout, a truncated or malformed datagram: what  *)
(* is left of the dump stays in the socket.                                 *)
ReceiveFails ==
    /\ study = "links" /\ links.reader.pc = "receive"
    /\ \/ links' = [links EXCEPT !.reader = Fallback(@)]
       \/ /\ links.kernel.queue # <<>>
          /\ links' = [links EXCEPT !.reader = Fallback(@), !.kernel.queue = Tail(@)]
    /\ UNCHANGED <<parts, names, study>>

list_networks_sysfs_checked(reader, record) ==
    IF Len(reader.got) >= MaxNets THEN [reader EXCEPT !.overflow = TRUE]
    ELSE [reader EXCEPT !.got = Append(@, record)]

(* One entry of /sys/class/net: of an interface that is gone by the time    *)
(* its attributes are read, only the name is left.                          *)
WalkNetwork ==
    LET r == links.reader
        there == links.kernel.present
        Next(a) == [list_networks_sysfs_checked(r, Record(a, a.index)) EXCEPT
                       !.walked = @ \cup {a.name}]
    IN /\ study = "links" /\ r.pc = "walk"
       /\ \/ \E a \in there : /\ a.name \notin r.walked \cup {"lo"}
                              /\ links' = [links EXCEPT !.reader = Next(a)]
          \/ \E a \in links.during.ever :
                /\ \A b \in there : b.name # a.name
                /\ a.name \notin r.walked \cup {"lo"}
                /\ links' = [links EXCEPT !.reader =
                       Next([a EXCEPT !.mac = "", !.index = 0, !.bytes = -1,
                                   !.adapter = 0])]
          \/ /\ \A a \in links.during.throughout : a.name \in r.walked \cup {"lo"}
             /\ links' = [links EXCEPT !.reader.pc =
                    IF r.overflow THEN "fail" ELSE "finish"]
          \/ links' = [links EXCEPT !.reader.pc = "fail"]    \* readdir, closedir
    /\ UNCHANGED <<parts, names, study>>

(* The count is stored last: a listing that failed is none.                 *)
ListingEnds ==
    LET r == links.reader
    IN /\ study = "links" /\ r.pc \in {"finish", "fail"}
       /\ links' = [links EXCEPT
              !.reader.pc = "idle",
              !.before = IF links.listed.ok THEN links.listed.records ELSE @,
              !.listed = [ok |-> r.pc = "finish",
                          records |-> IF r.pc = "finish" THEN r.got ELSE <<>>]]
       /\ UNCHANGED <<parts, names, study>>

(* A listing that counts holds every interface that was there throughout,   *)
(* once, and none that was not there while it was made: nothing of an       *)
(* earlier request, of an interrupted dump or of a directory too long to    *)
(* hold.                                                                    *)
ListingWhole ==
    (study = "links" /\ links.reader.pc = "idle" /\ links.listed.ok) =>
        LET recordOf(a) == {i \in DOMAIN links.listed.records :
                               links.listed.records[i].identity
                                  = network_instance_identity(a.index, a.name, a.mac)}
            wanted == {a \in links.during.throughout : a.name # "lo"}
        IN /\ \A a \in wanted : Cardinality(recordOf(a)) = 1
           /\ \A i \in DOMAIN links.listed.records : \E a \in links.during.ever :
                 a.name = links.listed.records[i].name
           /\ Len(links.listed.records) <= MaxNets

(* As long as no event waits, the listing is the machine: whatever changed  *)
(* while the interfaces were read is looked at again.                       *)
ListingCurrent ==
    (study = "links" /\ links.reader.pc = "idle" /\ links.listed.ok
       /\ ~links.kernel.events) =>
        {links.listed.records[i].identity : i \in DOMAIN links.listed.records}
            = {network_instance_identity(a.index, a.name, a.mac) :
                  a \in {b \in links.kernel.present : b.name # "lo"}}

(* Two adapters with addresses of their own are never taken for one         *)
(* another, though the kernel gives the second the name and the index of    *)
(* the first; and a counter is whole wherever its message had it.           *)
AdaptersToldApart ==
    study = "links" =>
        LET now == links.listed.records
            Addressed(r) == \E a \in Adapters :
                a.adapter = r.adapter /\ network_mac_identity_usable(a.mac)
        IN /\ \A i \in DOMAIN now, j \in DOMAIN links.before :
                 (/\ now[i].identity = links.before[j].identity
                  /\ Addressed(now[i]) /\ Addressed(links.before[j])) =>
                     now[i].adapter = links.before[j].adapter
           /\ \A i \in DOMAIN now, a \in Adapters :
                 (now[i].adapter = a.adapter /\ Contains(a.stats, "STATS64")) =>
                     now[i].bytes = a.bytes

-----------------------------------------------------------------------------
(* Mounts and partitions.                                                   *)

ignored_block_name(name) == Blocks[name].class # "disk"

(* The device manager's record of a block device, line by line: an empty    *)
(* property leaves the earlier one, a line that is cut off or too long      *)
(* spoils the record.                                                       *)
capture_property(metadata, line) ==
    IF line[1] = "torn" \/ line[2] = "long" THEN [metadata EXCEPT !.ok = FALSE]
    ELSE IF line[1] \in {"fs", "version", "role"} /\ line[2] # "" /\ metadata.ok
    THEN [metadata EXCEPT ![line[1]] = line[2]]
    ELSE metadata

read_metadata(name) ==
    FoldLeft(capture_property, [ok |-> TRUE, fs |-> "", version |-> "", role |-> ""],
             Blocks[name].file)

Fat(filesystem) == filesystem \in {"vfat", "msdos"}
FatVariants == {"FAT12", "FAT16", "FAT32"}

(* One role stands for the twelve that have a label.                        *)
gpt_partition_roles == [efi |-> "EFI System"]

partition_role(role) ==
    IF role \in DOMAIN gpt_partition_roles THEN gpt_partition_roles[role] ELSE ""

lsm_storage_metadata_type_label(name) ==
    LET m == read_metadata(name)
    IN CASE ~m.ok -> ""
         [] m.fs # "" /\ Fat(m.fs) /\ m.version \in FatVariants -> m.version
         [] m.fs # "" -> m.fs
         [] OTHER -> partition_role(m.role)

(* The block device and the disk of a device number, as sysfs has them now. *)
resolve_block_identity(present, number) ==
    LET found == {n \in present : Blocks[n].number = number}
    IN IF found = {} \/ number = 0 THEN None ELSE CHOOSE n \in found : TRUE

(* The kernel's name of the filesystem; a FAT is told more precisely.       *)
MountedLabel(name, filesystem) ==
    LET label == lsm_storage_metadata_type_label(name)
    IN IF Fat(filesystem) /\ label \in FatVariants THEN label ELSE filesystem

(* One mount: of no block device, or of one that is gone, it is passed by;  *)
(* one too many ends the listing.                                           *)
collect_mount(reader, mount, present) ==
    LET block == resolve_block_identity(present, mount.number)
    IN CASE mount.number = 0 -> reader
         [] Len(reader.mounts) >= MaxMounts -> [reader EXCEPT !.pc = "fail"]
         [] block = None -> reader
         [] OTHER -> [reader EXCEPT !.mounts = Append(@,
                [block |-> block, target |-> mount.target,
                 fs |-> MountedLabel(block, mount.filesystem)])]

PartitionsInit ==
    [present |-> DOMAIN Blocks, mounts |-> <<>>,
     reader |-> [pc |-> "idle", left |-> <<>>, mounts |-> <<>>, got |-> <<>>,
                 walked |-> {}, disks |-> {}],
     listed |-> <<>>, disks |-> [d \in {} |-> <<>>], steps |-> 0,
     seen |-> [snapshot |-> <<>>, throughout |-> {}, changed |-> FALSE,
              ok |-> FALSE]]

(* Something is mounted or unmounted, a device with its partitions goes or  *)
(* comes back.                                                              *)
StorageChanges ==
    LET s == parts
        Changed(new) == [new EXCEPT !.steps = @ + 1, !.seen.changed = TRUE,
                            !.seen.throughout = @ \cap new.present]
    IN /\ study = "partitions" /\ s.steps < MaxSteps - 1
       /\ \/ \E f \in Filesystems :
                /\ \A i \in DOMAIN s.mounts : s.mounts[i].target # f.target
                /\ f.number # 0 => resolve_block_identity(s.present, f.number) # None
                /\ parts' = Changed([s EXCEPT !.mounts = Append(@, f)])
          \/ \E i \in DOMAIN s.mounts :
                parts' = Changed([s EXCEPT !.mounts = RemoveAt(@, i)])
          \/ \E n \in DOMAIN Blocks :
                /\ \A i \in DOMAIN s.mounts : s.mounts[i].number # Blocks[n].number
                /\ n \in s.present => \A m \in s.present : Blocks[m].parent = n => m = n
                /\ n \notin s.present => Blocks[n].parent \in s.present \cup {n}
                /\ parts' = Changed([s EXCEPT !.present =
                       IF n \in @ THEN @ \ {n} ELSE @ \cup {n}])
       /\ UNCHANGED <<study, links, names>>

(* update_all_disk_partitions: the mounts are read first, in one go.        *)
ListPartitions ==
    LET s == parts
    IN /\ study = "partitions" /\ s.reader.pc = "idle" /\ s.steps < MaxSteps - 1
       /\ parts' = [s EXCEPT
              !.reader = [pc |-> "mounts", left |-> s.mounts, mounts |-> <<>>,
                          got |-> <<>>, walked |-> {},
                          disks |-> {n \in s.present : /\ ~Blocks[n].partition
                                                       /\ ~ignored_block_name(n)}],
              !.seen = [snapshot |-> s.mounts, throughout |-> s.present,
                        changed |-> FALSE, ok |-> FALSE],
              !.steps = @ + 1]
       /\ UNCHANGED <<study, links, names>>

(* lsm_mountinfo_visit_file_checked hands each mount on.                    *)
VisitMount ==
    LET r == parts.reader
    IN /\ study = "partitions" /\ r.pc = "mounts"
       /\ parts' = [parts EXCEPT !.reader =
              IF r.left = <<>> THEN [r EXCEPT !.pc = "walk"]
              ELSE [collect_mount(r, Head(r.left), parts.present) EXCEPT !.left = Tail(r.left)]]
       /\ UNCHANGED <<study, links, names>>

(* The records of one entry of /sys/class/block: one per mount, or one for  *)
(* a partition that has none.                                               *)
append_partition_record(r, name) ==
    LET own == SelectSeq(r.mounts, LAMBDA m : m.block = name)
        Row(target, fs) == [device |-> name, target |-> target,
                            fs |-> IF fs = "" THEN "partition" ELSE fs,
                            parent |-> Blocks[name].parent, mounted |-> target # ""]
    IN CASE ignored_block_name(Blocks[name].parent) -> <<>>
         [] own # <<>> -> [i \in DOMAIN own |-> Row(own[i].target, own[i].fs)]
         [] Blocks[name].partition -> <<Row("", lsm_storage_metadata_type_label(name))>>
         [] OTHER -> <<>>

(* A listing that does not fit, or that readdir or closedir failed, is no   *)
(* listing.                                                                 *)
WalkBlock ==
    LET r == parts.reader
    IN /\ study = "partitions" /\ r.pc = "walk"
       /\ \/ \E n \in parts.present \ r.walked :
                parts' = [parts EXCEPT !.reader =
                    [r EXCEPT !.got = @ \o append_partition_record(r, n),
                              !.walked = @ \cup {n}]]
          \/ /\ parts.seen.throughout \subseteq r.walked
             /\ parts' = [parts EXCEPT !.reader.pc =
                    IF Len(r.got) > MaxPartitions THEN "fail" ELSE "join"]
          \/ parts' = [parts EXCEPT !.reader.pc = "fail"]
       /\ UNCHANGED <<study, links, names>>

ListingFails ==
    /\ study = "partitions" /\ parts.reader.pc = "fail"
    /\ parts' = [parts EXCEPT !.reader.pc = "idle"]
    /\ UNCHANGED <<study, links, names>>

(* statvfs asks what is under the mount point now: another filesystem, if   *)
(* this one is gone.                                                        *)
append_partition(row) ==
    [device |-> row.device, target |-> row.target,
     used |-> IF ~row.mounted THEN None
              ELSE IF \E i \in DOMAIN parts.mounts : parts.mounts[i].target = row.target
              THEN row.target ELSE "below"]

OfDisk(rows, disk) == SelectSeq(rows, LAMBDA row : row.parent = disk)

(* What a disk keeps of the records: its own, as many as it holds.          *)
Joined(rows, disk) ==
    LET own == SubSeq(OfDisk(rows, disk), 1,
                      IF Len(OfDisk(rows, disk)) > PerDisk THEN PerDisk
                      ELSE Len(OfDisk(rows, disk)))
    IN [held |-> {append_partition(own[i]) : i \in DOMAIN own},
        system |-> \E i \in DOMAIN own : own[i].target = "/"]

update_all_disk_partitions ==
    LET r == parts.reader
    IN /\ study = "partitions" /\ r.pc = "join"
       /\ parts' = [parts EXCEPT
              !.reader.pc = "idle", !.listed = r.got, !.seen.ok = TRUE,
              !.disks = [d \in r.disks |-> Joined(r.got, d)]]
       /\ UNCHANGED <<study, links, names>>

(* What a record set made while nothing changed has to be.                  *)
Wanted(present, mounts) ==
    LET listed == {n \in present : ~ignored_block_name(Blocks[n].parent)}
        Of(n) == {i \in DOMAIN mounts : mounts[i].number = Blocks[n].number}
    IN UNION {{<<n, mounts[i].target>> : i \in Of(n)} : n \in listed}
          \cup {<<n, "">> : n \in {m \in listed : Blocks[m].partition /\ Of(m) = {}}}

(* The records of a finished listing are those of one machine: the mounts   *)
(* are those of one moment, a partition that was there throughout is never  *)
(* missing, and never both mounted and free.  A disk has all of its own and *)
(* no other, and is the system's exactly when the root is among them.  The  *)
(* exception: a disk holds LSM_MAX_PARTITIONS, and what its records have    *)
(* beyond these is dropped without a word, a root too                       *)
(* (monitor_storage_network.c:104, 171).                                    *)
PartitionsTrue ==
    (study = "partitions" /\ parts.seen.ok) =>
        LET s == parts
            rows == {<<s.listed[i].device, s.listed[i].target>> : i \in DOMAIN s.listed}
        IN /\ ~s.seen.changed => rows = Wanted(s.present, s.seen.snapshot)
           /\ rows \subseteq Wanted(DOMAIN Blocks, s.seen.snapshot)
                 \cup {<<n, "">> : n \in DOMAIN Blocks \ s.seen.throughout}
           /\ Wanted(s.seen.throughout, s.seen.snapshot) \subseteq rows
           /\ \A d \in DOMAIN s.disks :
                 LET own == {w \in rows : Blocks[w[1]].parent = d}
                     held == {<<p.device, p.target>> : p \in s.disks[d].held}
                 IN /\ held \subseteq own
                    /\ s.disks[d].system <=> \E w \in held : w[2] = "/"
                    /\ IF Len(OfDisk(s.listed, d)) <= PerDisk THEN held = own
                       ELSE Cardinality(s.disks[d].held) <= PerDisk

(* A label is one the device's whole record supports: a spoilt record gives *)
(* none.                                                                    *)
LabelsTrue ==
    study = "partitions" =>
        \A i \in DOMAIN parts.listed :
            LET row == parts.listed[i]
                file == Blocks[row.device].file
                spoilt == \E j \in DOMAIN file : file[j][1] = "torn" \/ file[j][2] = "long"
            IN ~row.mounted /\ spoilt => row.fs = "partition"

-----------------------------------------------------------------------------
(* The names of the hardware.  A device of a class is followed upwards to   *)
(* the device of the bus: a directory has a bus, identifiers (or none), a   *)
(* driver and, sometimes, names of its own.                                 *)

Depth == 12
NoHardware == [bus |-> "", id |-> "", driver |-> "", product |-> "", vendor |-> ""]

(* The first directory with identifiers; without one, the last with a       *)
(* driver.                                                                  *)
hardware_parent(chain) ==
    LET near == {i \in DOMAIN chain : i <= Depth}
        numbered == {i \in near : chain[i].id # ""}
        driven == {i \in near : chain[i].driver # ""}
    IN IF numbered # {} THEN chain[CHOOSE i \in numbered : \A j \in numbered : i <= j]
       ELSE IF driven # {} THEN chain[CHOOSE i \in driven : \A j \in driven : i >= j]
       ELSE NoHardware

EmptyName == [vendor |-> "", product |-> ""]

NamedIn(file, id) ==
    IF file \in {"absent", "unreadable"} \/ id \notin DOMAIN Registries[file]
    THEN EmptyName ELSE Registries[file][id]

(* populate_entry: the override file, if all of it could be read; then the  *)
(* registry, for each name that is still missing.                           *)
populate_entry(file, id) ==
    LET over == NamedIn(file, id)
        built == IF id \in DOMAIN Registry THEN Registry[id] ELSE EmptyName
    IN [id |-> id, vendor |-> IF over.vendor # "" THEN over.vendor ELSE built.vendor,
        product |-> IF over.product # "" THEN over.product ELSE built.product]

find_cached(cache, id) == {i \in DOMAIN cache : cache[i].id = id}

(* The oldest entry makes room.                                             *)
new_cache_entry(cache, entry) ==
    Append(IF Len(cache) < CacheSize THEN cache ELSE Tail(cache), entry)

(* The cache after a lookup; what cannot be parsed is not looked up.        *)
lsm_pci_names_lookup(cache, file, id) ==
    IF id = "malformed" \/ find_cached(cache, id) # {} THEN cache
    ELSE new_cache_entry(cache, populate_entry(file, id))

Found(cache, id) ==
    LET at == find_cached(cache, id)
    IN IF at = {} THEN EmptyName
       ELSE LET e == cache[CHOOSE i \in at : \A j \in at : i <= j]
            IN [vendor |-> e.vendor, product |-> e.product]

Virtual == {"hv_netvsc", "hyperv_drm", "hyperv_fb", "hv_storvsc"}

Looked(hardware) == hardware.bus = "pci" /\ hardware.id # ""

First(candidates) ==
    IF \E i \in DOMAIN candidates : candidates[i] # ""
    THEN candidates[CHOOSE i \in DOMAIN candidates :
            candidates[i] # "" /\ \A j \in DOMAIN candidates : j < i => candidates[j] = ""]
    ELSE "N/A"

(* The registry's name, the device's own, the hypervisor's, the bare        *)
(* identifier of a PCI device; in this order.                               *)
native_device_identity(hardware, known) ==
    LET virtual == hardware.driver \in Virtual
        numbered == hardware.bus = "pci" /\ hardware.id # ""
    IN [product |-> First(<<known.product, hardware.product,
                            IF virtual THEN "Hyper-V" ELSE "",
                            IF numbered THEN "PCI" ELSE "">>),
        vendor |-> First(<<known.vendor, hardware.vendor,
                           IF virtual THEN "Microsoft" ELSE "",
                           IF numbered THEN hardware.id ELSE "">>)]

NamesInit(file) ==
    [file |-> file, cache |-> <<>>, answers |-> [d \in DOMAIN Devices |-> {}],
     files |-> {file}, steps |-> 0]

(* One device is named, for the list of GPUs or of networks.                *)
NameDevice(d) ==
    LET hardware == hardware_parent(Devices[d])
        asked == Looked(hardware)
        cache == IF asked THEN lsm_pci_names_lookup(names.cache, names.file, hardware.id)
                 ELSE names.cache
        known == IF asked THEN Found(cache, hardware.id) ELSE EmptyName
    IN /\ study = "names" /\ names.steps < MaxSteps + 3
       /\ names' = [names EXCEPT
              !.cache = cache, !.steps = @ + 1,
              !.answers[d] = @ \cup {native_device_identity(hardware, known)}]
       /\ UNCHANGED <<study, links, parts>>

(* The override file is edited, or can no longer be read.                   *)
OverrideChanges(file) ==
    /\ study = "names" /\ names.steps < MaxSteps + 3 /\ file # names.file
    /\ names' = [names EXCEPT !.file = file, !.files = @ \cup {file}, !.steps = @ + 1]
    /\ UNCHANGED <<study, links, parts>>

(* What a device is called is what one of the registries there were says of *)
(* it, whatever the cache did in between; while the registry stays, always  *)
(* the same; and only a PCI device is named by PCI identifiers.             *)
NamesTrue ==
    study = "names" => \A d \in DOMAIN Devices :
        LET hardware == hardware_parent(Devices[d])
            Say(file) == native_device_identity(hardware,
                IF Looked(hardware) /\ hardware.id # "malformed"
                THEN [vendor |-> populate_entry(file, hardware.id).vendor,
                      product |-> populate_entry(file, hardware.id).product]
                ELSE EmptyName)
        IN /\ \A answer \in names.answers[d] : \E f \in names.files : answer = Say(f)
           /\ Cardinality(names.answers[d]) <= Cardinality(names.files)
           /\ hardware.bus # "pci" =>
                 \A answer \in names.answers[d] :
                    /\ answer.product # "PCI"
                    /\ \A id \in DOMAIN Registry :
                          Registry[id].product = "" \/ answer.product # Registry[id].product

CacheSound ==
    study = "names" =>
        /\ Len(names.cache) <= CacheSize
        /\ \A i, j \in DOMAIN names.cache : names.cache[i].id = names.cache[j].id => i = j

-----------------------------------------------------------------------------
Init ==
    /\ study \in Studies
    /\ IF study = "links" THEN \E set \in SUBSET Adapters :
             /\ \A a, b \in set : a # b => a.name # b.name /\ a.index # b.index
             /\ \E a \in set : a.name = "lo"
             /\ links = LinksInit(set)
       ELSE links = LinksInit({})
    /\ parts = PartitionsInit
    /\ IF study = "names" THEN \E f \in DOMAIN Registries \cup {"absent", "unreadable"} :
             names = NamesInit(f)
       ELSE names = NamesInit("absent")

LinksStep ==
    \/ \E a \in Adapters : InterfaceChanges(a)
    \/ ListNetworks \/ KernelAnswers \/ Receive \/ ReceiveFails
    \/ WalkNetwork \/ ListingEnds

PartitionsStep ==
    \/ StorageChanges \/ ListPartitions \/ VisitMount \/ WalkBlock
    \/ ListingFails \/ update_all_disk_partitions

NamesStep ==
    \/ \E d \in DOMAIN Devices : NameDevice(d)
    \/ \E f \in DOMAIN Registries \cup {"absent", "unreadable"} : OverrideChanges(f)

Next == LinksStep \/ PartitionsStep \/ NamesStep

Spec == Init /\ [][Next]_vars

TypeOK ==
    /\ links.reader.pc \in {"idle", "receive", "walk", "finish", "fail"}
    /\ links.kernel.present \subseteq Adapters
    /\ parts.reader.pc \in {"idle", "mounts", "walk", "join", "fail"}
    /\ parts.present \subseteq DOMAIN Blocks
    /\ names.file \in DOMAIN Registries \cup {"absent", "unreadable"}

================================================================================
