--------------------------- MODULE BluetoothTraffic ---------------------------
(***************************************************************************)
(* Capture of Bluetooth traffic (src/bluetooth_traffic.c): a reader thread *)
(* adds the bytes of every packet to a slot for its connection handle; the *)
(* sampling thread (src/monitor_bluetooth.c) binds handles to addresses    *)
(* from a list of connections and turns what the slots of an address hold  *)
(* into rates.  Handles are reused, and the list is already old when it is *)
(* applied.  src/main.c starts the capture before and stops it after       *)
(* everything else.                                                        *)
(*                                                                         *)
(* One controller, and one direction.  Packets are numbered, and what a     *)
(* slot has counted is the set of their numbers: a number of bytes stands   *)
(* for the bytes of different packets.                                      *)
(***************************************************************************)
EXTENDS Integers, FiniteSets, FiniteSetsExt

CONSTANTS
    Handles, Devices,   \* Connection handles and remote addresses.
    LinkSlots,          \* LSM_HCI_LINK_SLOTS.
    MaxPackets,         \* Bound on packets captured.
    MaxEvents           \* Bound on connections and disconnections.

NoOne == "no_address"

TrafficAssumption ==
    /\ IsFiniteSet(Handles) /\ Handles # {}
    /\ IsFiniteSet(Devices) /\ NoOne \notin Devices
    /\ LinkSlots \in Nat \ {0} /\ MaxPackets \in Nat /\ MaxEvents \in Nat

Slots == 1 .. LinkSlots
FreeSlot == [used |-> FALSE, handle |-> 0, address |-> NoOne, active |-> FALSE,
             bytes |-> {}, counted_for |-> {}, senders |-> {}]

VARIABLES
    connection,         \* The kernel's: Handles -> Devices \cup {NoOne}.
    events, packets,    \* How often it changed; packets captured.
    owners,             \* History: the devices each handle has been given to.
    main,               \* Where the main thread is in start and stop.
    capabilities,       \* The process still has CAP_NET_RAW.
    fd,                 \* The monitor socket: "none", "open", "bound", "closed".
    monitor_fd, thread_started, stop_requested, capture_available,
    links,              \* capture_state.links; counted_for and senders are
                        \* history: the addresses the slot had while the
                        \* bytes in it were counted, and the devices whose
                        \* packets they were.
    reader,             \* "none", "check", "recv", "account", "ended".
    received, sender,   \* The packet in the reader's buffer: its handle and,
                        \* as history, the device the handle then had.
    sampler,            \* "idle", "apply" with the list in `listed', or
                        \* "locked" while that is applied under the mutex:
    listed,             \* the list, or what of it is left to apply.
    accounting, device  \* Per address: the state kept and the device shown.

startVars == <<main, capabilities, fd, monitor_fd, thread_started,
               stop_requested, capture_available>>
worldVars == <<connection, events, packets, owners>>
readerVars == <<reader, received, sender>>
samplerVars == <<sampler, listed, accounting, device>>
vars == <<worldVars, startVars, readerVars, samplerVars, links>>

TypeOK ==
    /\ connection \in [Handles -> Devices \cup {NoOne}]
    /\ fd \in {"none", "open", "bound", "closed"}
    /\ reader \in {"none", "check", "recv", "account", "ended"}
    /\ \A s \in Slots : links[s].bytes \subseteq 1 .. packets
                        /\ links[s].counted_for \subseteq Devices \cup {NoOne}
                        /\ links[s].senders \subseteq Devices \cup {NoOne}
    /\ owners \in [Handles -> SUBSET Devices] /\ sender \in Devices \cup {NoOne}
    /\ packets <= MaxPackets /\ sampler \in {"idle", "apply", "locked"}

Init ==
    /\ connection = [h \in Handles |-> NoOne] /\ events = 0 /\ packets = 0
    /\ main = "start" /\ capabilities = TRUE /\ fd = "none"
    /\ monitor_fd = FALSE /\ thread_started = FALSE
    /\ stop_requested = FALSE /\ capture_available = FALSE
    /\ links = [s \in Slots |-> FreeSlot]
    /\ owners = [h \in Handles |-> {}]
    /\ reader = "none" /\ received \in {CHOOSE h \in Handles : TRUE}
    /\ sender = NoOne
    /\ sampler = "idle" /\ listed = connection
    /\ accounting = [d \in Devices |-> [initialized |-> FALSE, previous |-> 0]]
    /\ device = [d \in Devices |-> [traffic_available |-> FALSE, rate |-> 0]]

-----------------------------------------------------------------------------
(* lsm_bluetooth_traffic_start: the socket is opened and bound, then every  *)
(* capability is dropped, then the descriptor is published together with    *)
(* the reader.                                                              *)
OpenMonitor ==
    /\ main = "start"
    /\ fd' \in {"none", "open", "bound"}
    /\ main' = "drop"
    /\ UNCHANGED <<worldVars, capabilities, monitor_fd, thread_started,
                   stop_requested, capture_available, readerVars, samplerVars,
                   links>>

(* lsm_linux_drop_all_capabilities; main gives up when it fails.            *)
DropCapabilities ==
    /\ main = "drop"
    /\ \/ /\ capabilities' = FALSE
          /\ main' = IF fd = "bound" THEN "publish" ELSE "run"
       \/ /\ UNCHANGED capabilities
          /\ main' = "end"
    /\ fd' = IF main' # "publish" /\ fd # "none" THEN "closed" ELSE fd
    /\ UNCHANGED <<worldVars, monitor_fd, thread_started, stop_requested,
                   capture_available, readerVars, samplerVars, links>>

PublishMonitor ==
    /\ main = "publish"
    /\ main' = "run"
    /\ \/ /\ monitor_fd' = TRUE /\ capture_available' = TRUE
          /\ thread_started' = TRUE /\ reader' = "check"
          /\ UNCHANGED fd
       \/ /\ fd' = "closed"
          /\ UNCHANGED <<monitor_fd, capture_available, thread_started, reader>>
    /\ UNCHANGED <<worldVars, capabilities, stop_requested, received, sender,
                   samplerVars, links>>

(* lsm_bluetooth_traffic_stop, once the application is gone: the reader is  *)
(* asked to end and joined for half a second; then it is detached and       *)
(* everything it uses is left as it is.                                     *)
RequestStop ==
    /\ main = "run" /\ sampler = "idle"
    /\ IF thread_started THEN stop_requested' = TRUE /\ main' = "join"
       ELSE main' = "end" /\ UNCHANGED stop_requested
    /\ UNCHANGED <<worldVars, capabilities, fd, monitor_fd, thread_started,
                   capture_available, readerVars, samplerVars, links>>

JoinReader ==
    /\ main = "join"
    /\ \/ /\ reader = "ended"
          /\ fd' = "closed" /\ monitor_fd' = FALSE
          /\ thread_started' = FALSE /\ stop_requested' = FALSE
          /\ capture_available' = FALSE
          /\ links' = [s \in Slots |-> FreeSlot]
       \/ UNCHANGED <<fd, monitor_fd, thread_started, stop_requested,
                      capture_available, links>>
    /\ main' = "end"
    /\ UNCHANGED <<worldVars, capabilities, readerVars, samplerVars>>

-----------------------------------------------------------------------------
(* link_for_handle_locked: the handle's slot, else the first free one, else *)
(* the first that is not active; 0 when there is none.                      *)
link_for_handle_locked(table, h) ==
    LET own  == {s \in Slots : table[s].used /\ table[s].handle = h}
        free == {s \in Slots : ~table[s].used}
        idle == {s \in Slots : ~table[s].active}
    IN  CASE own # {}  -> Min(own)
          [] own = {} /\ free # {} -> Min(free)
          [] own = {} /\ free = {} /\ idle # {} -> Min(idle)
          [] OTHER -> 0

(* The table with a slot for the handle, cleared unless it was its own.     *)
Slotted(table, s, h) ==
    IF table[s].used /\ table[s].handle = h THEN table
    ELSE [table EXCEPT ![s] = [FreeSlot EXCEPT !.used = TRUE, !.handle = h]]

(* account_packet: the packet received last is counted.                     *)
account_packet(table, h) ==
    LET s == link_for_handle_locked(table, h) IN
    IF s = 0 THEN table
    ELSE [Slotted(table, s, h) EXCEPT
            ![s].bytes = @ \cup {packets},
            ![s].counted_for = @ \cup {Slotted(table, s, h)[s].address},
            ![s].senders = @ \cup {sender}]

(* monitor_reader: the flag and the descriptor are copied under the lock,   *)
(* recv waits outside it, for half a second at most.                        *)
ReaderChecks ==
    /\ reader = "check" /\ sampler # "locked"
    /\ reader' = IF stop_requested \/ ~monitor_fd THEN "ended" ELSE "recv"
    /\ UNCHANGED <<worldVars, startVars, received, sender, samplerVars, links>>

ReaderReceives ==
    /\ reader = "recv"
    /\ \/ /\ \E h \in Handles :
               /\ connection[h] # NoOne /\ packets < MaxPackets
               /\ received' = h /\ sender' = connection[h]
          /\ packets' = packets + 1
          /\ reader' = "account"
          /\ UNCHANGED capture_available
       \/ /\ reader' = "check"
          /\ UNCHANGED <<received, sender, packets, capture_available>>
       \/ /\ sampler # "locked" /\ capture_available' = FALSE
          /\ reader' = "ended"
          /\ UNCHANGED <<received, sender, packets>>
    /\ UNCHANGED <<connection, events, owners, main, capabilities, fd, monitor_fd,
                   thread_started, stop_requested, samplerVars, links>>

ReaderAccounts ==
    /\ reader = "account" /\ sampler # "locked"
    /\ links' = account_packet(links, received)
    /\ reader' = "check"
    /\ UNCHANGED <<worldVars, startVars, received, sender, samplerVars>>

-----------------------------------------------------------------------------
(* Mutant: the counters of a reused handle are kept.                        *)
Mut_Bound(slot, address) ==
    [slot EXCEPT !.address = address, !.active = TRUE]

(* A slot is bound to the address its handle has; bytes counted for another *)
(* address are dropped.                                                     *)
Bound(slot, address) ==
    LET clean == IF slot.address \notin {NoOne, address}
                 THEN [slot EXCEPT !.bytes = {}, !.counted_for = {}, !.senders = {}]
                 ELSE slot
    IN  [clean EXCEPT !.address = address, !.active = TRUE]

(* lsm_bluetooth_traffic_refresh_connections: the list is fetched, then the *)
(* mutex taken, every slot marked, and one connection after another bound.  *)
FetchConnections ==
    /\ main = "run" /\ sampler = "idle"
    /\ sampler' = "apply" /\ listed' = connection
    /\ UNCHANGED <<worldVars, startVars, readerVars, accounting, device, links>>

LockLinks ==
    /\ sampler = "apply" /\ sampler' = "locked"
    /\ links' = [s \in Slots |-> [links[s] EXCEPT !.active = FALSE]]
    /\ UNCHANGED <<worldVars, startVars, readerVars, listed, accounting, device>>

BindConnection(h) ==
    /\ sampler = "locked" /\ listed[h] # NoOne
    /\ LET s == link_for_handle_locked(links, h)
       IN  links' = IF s = 0 THEN links
                    ELSE [Slotted(links, s, h) EXCEPT ![s] = Bound(@, listed[h])]
    /\ listed' = [listed EXCEPT ![h] = NoOne]
    /\ UNCHANGED <<worldVars, startVars, readerVars, sampler, accounting, device>>

UnlockLinks ==
    /\ sampler = "locked" /\ \A h \in Handles : listed[h] = NoOne
    /\ sampler' = "idle"
    /\ UNCHANGED <<worldVars, startVars, readerVars, listed, accounting, device,
                   links>>

(* lsm_bluetooth_traffic_read_device, and apply_device or                   *)
(* mark_device_unavailable after it.  A counter that went back gives no     *)
(* rate.                                                                    *)
OfAddress(d) == {s \in Slots : links[s].used /\ links[s].address = d}
Bytes(d) == Cardinality(UNION {links[s].bytes : s \in OfAddress(d)})

update_traffic(d) ==
    /\ main = "run" /\ sampler = "idle"
    /\ LET readable == /\ capture_available
                       /\ \E s \in OfAddress(d) : links[s].active
           old == accounting[d]
           delta == Bytes(d) - old.previous
       IN  IF readable
           THEN /\ device' = [device EXCEPT ![d] =
                     [traffic_available |-> TRUE,
                      rate |-> IF old.initialized /\ delta > 0 THEN delta ELSE 0]]
                /\ accounting' = [accounting EXCEPT ![d] =
                     [initialized |-> TRUE, previous |-> Bytes(d)]]
           ELSE /\ device' = [device EXCEPT ![d] =
                     [traffic_available |-> FALSE, rate |-> 0]]
                /\ accounting' = [accounting EXCEPT ![d].initialized = FALSE]
    /\ UNCHANGED <<worldVars, startVars, readerVars, sampler, listed, links>>

-----------------------------------------------------------------------------
(* The kernel gives a handle to a device, or takes it back.                 *)
ConnectionChanges(h) ==
    /\ events < MaxEvents
    /\ events' = events + 1
    /\ IF connection[h] = NoOne
       THEN \E d \in Devices : /\ connection' = [connection EXCEPT ![h] = d]
                               /\ owners' = [owners EXCEPT ![h] = @ \cup {d}]
       ELSE connection' = [connection EXCEPT ![h] = NoOne] /\ UNCHANGED owners
    /\ UNCHANGED <<packets, startVars, readerVars, samplerVars, links>>

Reader == ReaderChecks \/ ReaderReceives \/ ReaderAccounts

Next ==
    \/ OpenMonitor \/ DropCapabilities \/ PublishMonitor
    \/ RequestStop \/ JoinReader
    \/ Reader
    \/ FetchConnections \/ LockLinks \/ UnlockLinks
    \/ \E h \in Handles : BindConnection(h)
    \/ \E d \in Devices : update_traffic(d)
    \/ \E h \in Handles : ConnectionChanges(h)

Spec == Init /\ [][Next]_vars

-----------------------------------------------------------------------------
(* "acquire the read-only monitor endpoint first, then discard capabilities *)
(* before publishing the descriptor or starting the reader thread".         *)
CapabilitiesDropped == monitor_fd \/ reader # "none" => ~capabilities

(* The reader never receives on a descriptor that was closed, and one that  *)
(* is open when all is over is the one a reader that did not end in time    *)
(* was left with.                                                           *)
DescriptorOwned ==
    /\ reader = "recv" => fd = "bound"
    /\ main = "end" /\ fd \notin {"none", "closed"} => stop_requested

(* Taking a slot over does not mix devices: a slot bound to an address      *)
(* holds no byte counted while it was bound to another, and the address and *)
(* the bytes are of devices that have had the handle of the slot, so those  *)
(* of a handle that was never given to a second device are its own.  One    *)
(* handle has one slot, and no packet is counted in two slots.  The         *)
(* exception, for a handle that is reused: packets of its new owner go to   *)
(* the address the slot has until a list fetched after the change is bound, *)
(* and bytes counted before the slot had any address go to whoever is bound *)
(* first (lsm_bluetooth_traffic_refresh_connections).                       *)
LinksKeptApart ==
    /\ \A s \in Slots : links[s].used =>
         /\ links[s].counted_for \subseteq {NoOne, links[s].address}
         /\ links[s].address \in owners[links[s].handle] \cup {NoOne}
         /\ links[s].senders \subseteq owners[links[s].handle]
    /\ \A s, t \in Slots :
         links[s].used /\ links[t].used /\ links[s].handle = links[t].handle
            => s = t
    /\ \A s, t \in Slots :
         s # t => links[s].bytes \cap links[t].bytes = {}

=============================================================================
