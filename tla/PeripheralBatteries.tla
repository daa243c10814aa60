------------------------- MODULE PeripheralBatteries -------------------------
(***************************************************************************)
(* Batteries of peripherals.  The sampling thread lists kernel power       *)
(* supplies, adds what a BlueZ worker cached and hands the hidraw nodes of *)
(* Logitech devices to a HID++ worker, whose readings it merges later      *)
(* (src/monitor_battery.c, src/bluetooth_battery.c, src/logitech_hidpp.c). *)
(* Both workers block for seconds without their lock, on a device asleep   *)
(* or on the system bus, while devices come and go and the list changes.   *)
(*                                                                         *)
(* A Logitech device is a number, used once; its hidraw node is a path,    *)
(* used again.  A Bluetooth device is its address; those of KernelAlso     *)
(* have a power supply of their own with that serial number.               *)
(***************************************************************************)
EXTENDS Integers, FiniteSets

CONSTANTS
    Paths,                 \* hidraw nodes.
    Addresses, KernelAlso, \* Bluetooth devices.
    MaxBatteries,          \* LSM_MAX_BATTERIES.
    MaxDevices             \* Bound on the Logitech devices ever plugged in.

None == 0
PeripheralsAssumption ==
    /\ IsFiniteSet(Paths) /\ IsFiniteSet(Addresses) /\ KernelAlso \subseteq Addresses
    /\ MaxBatteries \in Nat /\ MaxDevices \in Nat

VARIABLES
    plugged,               \* The machine: the device behind each path,
    connected,             \* and the Bluetooth devices connected.
    born,                  \* Devices plugged in so far.
    main,                  \* The thread that owns the monitor.
    records,               \* Addresses cached by the BlueZ worker.
    bluez, bluez_stop,     \* Where that worker is; stop_requested.
    collected,             \* The snapshot it is about to publish.
    hidpp, hidpp_stop,     \* The same for the HID++ worker.
    request,               \* The slot it copied, and what it read for it.
    slots,                 \* Per path tracked: the reading and whether due.
    cancel_pipe,           \* "none", "open" or "closed".
    batteries, states,     \* The rows listed, and the backend's state of each.
    outcome                \* How the last enumeration ended.

machineVars == <<plugged, connected, born>>
bluezVars == <<records, bluez, bluez_stop, collected>>
hidppVars == <<hidpp, hidpp_stop, request, cancel_pipe>>
tableVars == <<batteries, states, outcome>>
vars == <<machineVars, main, bluezVars, hidppVars, slots, tableVars>>

NoRequest == [path |-> "", read |-> None, ok |-> FALSE]
FreshSlot == [reading |-> None, valid |-> FALSE, due |-> TRUE]
Logitech(d) == [kind |-> "logitech", id |-> d]
Kernel(a) == [kind |-> "kernel", id |-> a]
Bluez(a) == [kind |-> "bluez", id |-> a]
Tracked == {states[b].hidraw : b \in DOMAIN states} \ {""}

TypeOK ==
    /\ plugged \in [Paths -> 0 .. MaxDevices]
    /\ records \subseteq Addresses /\ collected \subseteq Addresses
    /\ bluez \in {"none", "check", "collect", "publish", "wait", "ended"}
    /\ hidpp \in {"none", "select", "query", "apply", "ended"}
    /\ cancel_pipe \in {"none", "open", "closed"}
    /\ DOMAIN slots \subseteq Paths /\ Cardinality(batteries) <= MaxBatteries

Init ==
    /\ plugged = [p \in Paths |-> None] /\ connected = {} /\ born = 0
    /\ main = "start_bluez"
    /\ records = {} /\ bluez = "none" /\ bluez_stop = FALSE /\ collected = {}
    /\ hidpp = "none" /\ hidpp_stop = FALSE /\ request = NoRequest
    /\ cancel_pipe = "none"
    /\ slots = <<>> /\ batteries = {} /\ states = <<>> /\ outcome = "none"

-----------------------------------------------------------------------------
(* Devices come and go.                                                     *)
MachineChanges ==
    /\ \/ \E p \in Paths :
             /\ plugged[p] = None /\ born < MaxDevices /\ born' = born + 1
             /\ plugged' = [plugged EXCEPT ![p] = born + 1]
             /\ UNCHANGED connected
       \/ \E p \in Paths :
             /\ plugged[p] # None /\ plugged' = [plugged EXCEPT ![p] = None]
             /\ UNCHANGED <<connected, born>>
       \/ \E a \in Addresses :
             /\ connected' = IF a \in connected THEN connected \ {a} ELSE connected \cup {a}
             /\ UNCHANGED <<plugged, born>>
    /\ UNCHANGED <<main, bluezVars, hidppVars, slots, tableVars>>

-----------------------------------------------------------------------------
(* lsm_battery_start: a worker that cannot be started is done without.      *)
StartBluez ==
    /\ main = "start_bluez" /\ main' = "start_hidpp"
    /\ bluez' \in {"none", "check"}
    /\ UNCHANGED <<machineVars, records, bluez_stop, collected, hidppVars, slots,
                   tableVars>>

StartHidpp ==
    /\ main = "start_hidpp" /\ main' = "run"
    /\ \/ hidpp' = "select" /\ cancel_pipe' = "open"
       \/ UNCHANGED <<hidpp, cancel_pipe>>
    /\ UNCHANGED <<machineVars, bluezVars, hidpp_stop, request, slots, tableVars>>

(* lsm_battery_shutdown: each worker is asked to end and waited for, half a *)
(* second; one that takes longer is detached and keeps all it uses.         *)
StopHidpp ==
    /\ main = "run" /\ main' = "join_hidpp"
    /\ hidpp_stop' = (hidpp # "none")
    /\ UNCHANGED <<machineVars, bluezVars, hidpp, request, cancel_pipe, slots,
                   tableVars>>

JoinHidpp ==
    /\ main = "join_hidpp" /\ main' = "stop_bluez"
    /\ \/ hidpp = "ended" /\ cancel_pipe' = "closed" /\ slots' = <<>>
       \/ hidpp # "ended" /\ UNCHANGED <<cancel_pipe, slots>>
    /\ UNCHANGED <<machineVars, bluezVars, hidpp, hidpp_stop, request, tableVars>>

StopBluez ==
    /\ main = "stop_bluez" /\ main' = "join_bluez"
    /\ bluez_stop' = (bluez # "none")
    /\ UNCHANGED <<machineVars, records, bluez, collected, hidppVars, slots,
                   tableVars>>

JoinBluez ==
    /\ main = "join_bluez" /\ main' = "end"
    /\ records' = IF bluez = "ended" THEN {} ELSE records
    /\ UNCHANGED <<machineVars, bluez, bluez_stop, collected, hidppVars, slots,
                   tableVars>>

-----------------------------------------------------------------------------
(* bluetooth_worker: a snapshot of the bus, complete or not, is published   *)
(* whole, and a stop is looked for before and after the wait.               *)
BluezCheck ==
    /\ bluez = "check"
    /\ bluez' = IF bluez_stop THEN "ended" ELSE "collect"
    /\ UNCHANGED <<machineVars, main, records, bluez_stop, collected, hidppVars,
                   slots, tableVars>>

BluezCollect ==
    /\ bluez = "collect"
    /\ \/ bluez' = "publish" /\ collected' = connected
       \/ bluez' = "wait" /\ UNCHANGED collected
    /\ UNCHANGED <<machineVars, main, records, bluez_stop, hidppVars, slots,
                   tableVars>>

BluezPublish ==
    /\ bluez = "publish"
    /\ records' = IF bluez_stop THEN records ELSE collected
    /\ bluez' = "wait"
    /\ UNCHANGED <<machineVars, main, bluez_stop, collected, hidppVars, slots,
                   tableVars>>

(* wait_for_next_refresh ends by its deadline or by the broadcast of stop.  *)
BluezWait ==
    /\ bluez = "wait"
    /\ bluez' = IF bluez_stop THEN "ended" ELSE "check"
    /\ UNCHANGED <<machineVars, main, records, bluez_stop, collected, hidppVars,
                   slots, tableVars>>

-----------------------------------------------------------------------------
(* hidpp_worker: a due slot is copied, its next query put off, the device   *)
(* asked without the lock, and the slot found again by its path.            *)
HidppSelect ==
    /\ hidpp = "select"
    /\ \/ hidpp_stop /\ hidpp' = "ended" /\ UNCHANGED <<request, slots>>
       \/ \E p \in DOMAIN slots :
             /\ ~hidpp_stop /\ slots[p].due /\ hidpp' = "query"
             /\ request' = [NoRequest EXCEPT !.path = p]
             /\ slots' = [slots EXCEPT ![p].due = FALSE]
    /\ UNCHANGED <<machineVars, main, bluezVars, hidpp_stop, cancel_pipe, tableVars>>

(* query_device: an answer of the device behind the path now, or none: a    *)
(* timeout, a refusal, no device, or the cancellation of a stop.            *)
HidppQuery ==
    /\ hidpp = "query" /\ hidpp' = "apply"
    /\ \/ request' = [request EXCEPT !.read = plugged[request.path],
                                     !.ok = plugged[request.path] # None]
       \/ UNCHANGED request
    /\ UNCHANGED <<machineVars, main, bluezVars, hidpp_stop, cancel_pipe, slots,
                   tableVars>>

(* Mutant: the answer is put where the slot was, tracked or not.            *)
Mut_Found(p) == TRUE

Found(p) == p \in DOMAIN slots /\ ~hidpp_stop

HidppApply ==
    /\ hidpp = "apply" /\ hidpp' = "select" /\ request' = NoRequest
    /\ slots' = IF Found(request.path) /\ request.ok
                THEN [p \in DOMAIN slots \cup {request.path} |->
                         IF p = request.path
                         THEN [reading |-> request.read, valid |-> TRUE, due |-> FALSE]
                         ELSE slots[p]]
                ELSE slots
    /\ UNCHANGED <<machineVars, main, bluezVars, hidpp_stop, cancel_pipe, tableVars>>

(* The refresh or retry interval of a slot is over.                         *)
SlotDue ==
    /\ \E p \in DOMAIN slots :
          ~slots[p].due /\ slots' = [slots EXCEPT ![p].due = TRUE]
    /\ UNCHANGED <<machineVars, main, bluezVars, hidppVars, tableVars>>

-----------------------------------------------------------------------------
(* lsm_logitech_hidpp_set_devices: slots of paths still tracked stay.       *)
set_devices(paths) ==
    slots' = [p \in paths |-> IF p \in DOMAIN slots THEN slots[p] ELSE FreshSlot]

(* The rows and the states of before are put back together.                 *)
Restored(made) == UNCHANGED <<batteries, states, slots>>

(* merge_bluez_batteries: a record whose address is the serial number of a  *)
(* row enriches that row, any other one is a row of its own.                *)
Merged(rows) == rows \cup {Bluez(a) : a \in {x \in records : Kernel(x) \notin rows}}

(* lsm_battery_enumerate: supplies, then BlueZ, then the worker's list.  A  *)
(* peripheral without a charge to show is not listed, and the hidraw node   *)
(* of one that is may not be found.  It fails when the directory cannot be  *)
(* read, or when the rows do not fit.                                       *)
Enumerate ==
    /\ main = "run"
    /\ \E shown \in SUBSET {p \in Paths : plugged[p] # None} :
       \E found \in SUBSET shown :
          LET supplies == {Logitech(plugged[p]) : p \in shown}
                          \cup {Kernel(a) : a \in connected \cap KernelAlso}
              rows == Merged(supplies)
              Node(b) == IF \E p \in found : b = Logitech(plugged[p])
                         THEN CHOOSE p \in found : b = Logitech(plugged[p]) ELSE ""
              made == [b \in rows |-> [bluez_record |-> b.kind = "bluez",
                                       hidraw |-> Node(b)]]
          IN \/ /\ Cardinality(rows) <= MaxBatteries
                /\ batteries' = rows /\ states' = made
                /\ set_devices({Node(b) : b \in rows} \ {""})
                /\ outcome' = "complete"
             \/ Restored(made) /\ outcome' = "failed"
    /\ UNCHANGED <<machineVars, main, bluezVars, hidppVars>>

Next ==
    \/ MachineChanges \/ StartBluez \/ StartHidpp
    \/ StopHidpp \/ JoinHidpp \/ StopBluez \/ JoinBluez
    \/ BluezCheck \/ BluezCollect \/ BluezPublish \/ BluezWait
    \/ HidppSelect \/ HidppQuery \/ HidppApply \/ SlotDue \/ Enumerate

Spec == Init /\ [][Next]_vars

-----------------------------------------------------------------------------
(* The three tables of the sampling thread stay in step whatever part of an *)
(* enumeration fails: every row has its state and only rows have one, the   *)
(* worker tracks exactly the nodes the states name, also after an answer    *)
(* that arrived late, and no Bluetooth device is two rows.                  *)
TablesAgree ==
    /\ DOMAIN states = batteries
    /\ main \in {"run", "join_hidpp"} => DOMAIN slots = Tracked
    /\ \A a \in Addresses : ~(Kernel(a) \in batteries /\ Bluez(a) \in batteries)
    /\ \A b \in batteries : states[b].bluez_record <=> b.kind = "bluez"

(* The HID++ worker polls the read end of the cancel pipe for as long as it *)
(* runs: the pipe is closed only when the worker has been joined, never     *)
(* when the join timed out.                                                 *)
CancelPipeOwned == hidpp \in {"select", "query", "apply"} => cancel_pipe = "open"
=============================================================================
