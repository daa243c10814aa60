------------------------- MODULE ProcessActionsProofs -------------------------
(***************************************************************************)
(* Proofs about what the program does to other processes, for every set of *)
(* PIDs and windows and any number of processes that come and go.          *)
(*                                                                         *)
(* All three arguments rest on one fact of the kernel's: the start time of *)
(* a process is never given out again.  What was read, captured or opened  *)
(* for another process than the one meant can therefore do no harm, since  *)
(* the one meant is gone for good, and the check made afterwards fails.    *)
(***************************************************************************)
EXTENDS MCProcessActions, Sequences, FiniteSetTheorems, TLAPS

-----------------------------------------------------------------------------
(* The inspector.                                                           *)

Reading == {"check", "again"} \cup Inspector!Lists

(* What may be shown in a window: its own process's data, or none.          *)
OwnOrNone(w) == {0, Inspector!Incomplete, window_instance[w]}

(* A window's timer and task are there as its flags say, and nothing was    *)
(* left by an earlier use of its place.                                     *)
WindowKept(w) ==
    /\ refresh_timer[w] = timer[w]
    /\ timer[w] => window[w] = "open"
    /\ window[w] = "unopened" => /\ task[w] = "none"
                                 /\ ~inventory_pending[w]
                                 /\ lists[w] = Inspector!NoLists
    /\ window[w] = "open" => inventory_pending[w] = (task[w] # "none")

(* What a task has read is its window's unless that process is gone; what   *)
(* it returns as valid is its window's, and so is what the window shows.    *)
ReadingOwn(w) ==
    /\ window_instance[w] <= inspected
    /\ task[w] \in Reading => ~identity_valid[w]
    /\ task[w] \in Reading /\ inspected = window_instance[w] =>
           \A l \in Inspector!Lists : inventory[w][l] \in OwnOrNone(w)
    /\ task[w] = "returned" /\ identity_valid[w] =>
           \A l \in Inspector!Lists : inventory[w][l] \in OwnOrNone(w)
    /\ window[w] = "open" =>
           \A l \in Inspector!Lists : lists[w][l] \in OwnOrNone(w)

InspectorInv ==
    /\ Inspector!TypeOK
    /\ identity_valid \in [InspectorWindows -> BOOLEAN]
    /\ ~used_after_free
    /\ snapshot <= inspected
    /\ \A w \in InspectorWindows : WindowKept(w) /\ ReadingOwn(w)

(* What a step leaves alone of a window keeps the window's part.            *)
LEMMA WindowUntouched ==
    ASSUME NEW v \in InspectorWindows, WindowKept(v), ReadingOwn(v),
           inspected' = inspected,
           window'[v] = window[v], window_instance'[v] = window_instance[v],
           inventory_pending'[v] = inventory_pending[v],
           refresh_timer'[v] = refresh_timer[v], timer'[v] = timer[v],
           lists'[v] = lists[v], task'[v] = task[v],
           inventory'[v] = inventory[v],
           identity_valid'[v] = identity_valid[v]
    PROVE  WindowKept(v)' /\ ReadingOwn(v)'
  BY DEF WindowKept, ReadingOwn, OwnOrNone, Reading, Inspector!Lists,
         Inspector!NoLists, Inspector!Incomplete

(* A window begins with lists that nothing was read into.                   *)
LEMMA NoListsTyped ==
    /\ Inspector!NoLists \in [Inspector!Lists -> Inspector!Owners \cup {Inspector!Incomplete}]
    /\ \A l \in Inspector!Lists : Inspector!NoLists[l] = 0
  BY DEF Inspector!NoLists, Inspector!Owners, Inspector!Lists


(* Every step of a window, of its task and of the process inspected keeps   *)
(* the inspector's invariant.                                               *)
LEMMA InspectorStep ==
    InspectorInv /\ [Inspector!Next]_inspectorVars => InspectorInv'
<1> SUFFICES ASSUME InspectorInv, [Inspector!Next]_inspectorVars
             PROVE  InspectorInv'
    OBVIOUS
<1> USE DEF InspectorInv
<1> DEFINE Values == Inspector!Owners \cup {Inspector!Incomplete}
           Steps == {"none", "check", "again", "returned"} \cup Inspector!Lists
<1>a. MaxLife \in Nat
    BY ActionsAssumption DEF Inspector!InspectorAssumption
<1>b. /\ inspected \in Nat /\ snapshot \in Nat
      /\ \A w \in InspectorWindows : window_instance[w] \in Nat
    BY <1>a DEF Inspector!TypeOK, Inspector!Owners
<1>1. CASE Inspector!ProcessChanges
    BY <1>1, <1>a, <1>b
    DEF Inspector!ProcessChanges, Inspector!TypeOK, WindowKept, ReadingOwn,
        OwnOrNone
<1>2. CASE Inspector!SnapshotPublished
  <2>1. snapshot' \in Inspector!Owners /\ snapshot' <= inspected
    BY <1>2, <1>a
    DEF Inspector!SnapshotPublished, Inspector!Current, Inspector!TypeOK,
        Inspector!Owners
  <2> QED
    BY <1>2, <2>1, WindowUntouched
    DEF Inspector!SnapshotPublished, Inspector!TypeOK
<1>3. ASSUME NEW w \in InspectorWindows, Inspector!lsm_process_inspector_show(w)
      PROVE  InspectorInv'
  <2> DEFINE own == Inspector!lsm_process_inspection_identity_matches(snapshot)
  <2>1. /\ window[w] = "unopened" /\ snapshot # 0
        /\ task[w] = "none" /\ ~inventory_pending[w]
        /\ lists[w] = Inspector!NoLists
        /\ window' = [window EXCEPT ![w] = "open"]
        /\ window_instance' = [window_instance EXCEPT ![w] = snapshot]
        /\ refresh_timer' = [refresh_timer EXCEPT ![w] = TRUE]
        /\ timer' = [timer EXCEPT ![w] = TRUE]
        /\ UNCHANGED <<inspected, snapshot, used_after_free>>
    BY <1>3 DEF Inspector!lsm_process_inspector_show, WindowKept
  <2>2. \/ /\ lists' = [lists EXCEPT ![w] = Inspector!NoLists]
           /\ UNCHANGED <<inventory_pending, task, inventory, identity_valid>>
        \/ /\ inventory_pending' = [inventory_pending EXCEPT ![w] = TRUE]
           /\ task' = [task EXCEPT ![w] = "check"]
           /\ inventory' = [inventory EXCEPT ![w] = Inspector!NoLists]
           /\ identity_valid' = [identity_valid EXCEPT ![w] = FALSE]
           /\ UNCHANGED lists
    BY <1>3, <2>1 DEF Inspector!lsm_process_inspector_show,
                      Inspector!refresh_inventories
  <2>3a. /\ lists' \in [InspectorWindows -> [Inspector!Lists -> Values]]
         /\ inventory' \in [InspectorWindows -> [Inspector!Lists -> Values]]
    BY <2>1, <2>2, NoListsTyped DEF Inspector!TypeOK
  <2>3b. task' \in [InspectorWindows -> Steps]
    BY <2>2 DEF Inspector!TypeOK
  <2>3. Inspector!TypeOK' /\ identity_valid' \in [InspectorWindows -> BOOLEAN]
    BY <2>1, <2>2, <2>3a, <2>3b DEF Inspector!TypeOK
  <2>4. WindowKept(w)'
    <3>1. /\ window'[w] = "open"
          /\ refresh_timer'[w] = TRUE /\ timer'[w] = TRUE
      BY <2>1 DEF Inspector!TypeOK
    <3>2. inventory_pending'[w] = (task'[w] # "none")
      BY <2>1, <2>2 DEF Inspector!TypeOK
    <3> QED
      BY <3>1, <3>2 DEF WindowKept
  <2>5. ReadingOwn(w)'
    BY <2>1, <2>2, <1>b, NoListsTyped
    DEF Inspector!TypeOK, ReadingOwn, OwnOrNone, Reading, Inspector!Lists
  <2>6. ASSUME NEW v \in InspectorWindows, v # w
        PROVE  WindowKept(v)' /\ ReadingOwn(v)'
    BY <2>1, <2>2, <2>6, WindowUntouched DEF Inspector!TypeOK
  <2> QED
    BY <2>1, <2>3, <2>4, <2>5, <2>6
<1>4. ASSUME NEW w \in InspectorWindows, Inspector!refresh_clicked(w)
      PROVE  InspectorInv'
  <2>1. /\ window[w] = "open"
        /\ UNCHANGED <<inspected, snapshot, window, window_instance,
                       refresh_timer, timer, used_after_free>>
    BY <1>4 DEF Inspector!refresh_clicked
  <2>2. \/ UNCHANGED <<inventory_pending, task, inventory, identity_valid, lists>>
        \/ /\ lists' = [lists EXCEPT ![w] = Inspector!NoLists]
           /\ UNCHANGED <<inventory_pending, task, inventory, identity_valid>>
        \/ /\ inventory_pending' = [inventory_pending EXCEPT ![w] = TRUE]
           /\ task' = [task EXCEPT ![w] = "check"]
           /\ inventory' = [inventory EXCEPT ![w] = Inspector!NoLists]
           /\ identity_valid' = [identity_valid EXCEPT ![w] = FALSE]
           /\ UNCHANGED lists
    BY <1>4 DEF Inspector!refresh_clicked, Inspector!refresh_inventories
  <2>3a. /\ lists' \in [InspectorWindows -> [Inspector!Lists -> Values]]
         /\ inventory' \in [InspectorWindows -> [Inspector!Lists -> Values]]
    <3> DEFINE T == [Inspector!Lists -> Values]
    <3>1. /\ lists \in [InspectorWindows -> T]
          /\ inventory \in [InspectorWindows -> T]
          /\ Inspector!NoLists \in T
      BY NoListsTyped DEF Inspector!TypeOK
    <3> HIDE DEF T
    <3>2. lists' \in [InspectorWindows -> T] /\ inventory' \in [InspectorWindows -> T]
      BY <2>2, <3>1
    <3> QED
      BY <3>2 DEF T
  <2>3b. task' \in [InspectorWindows -> Steps]
    BY <2>2 DEF Inspector!TypeOK
  <2>3. Inspector!TypeOK' /\ identity_valid' \in [InspectorWindows -> BOOLEAN]
    BY <2>1, <2>2, <2>3a, <2>3b DEF Inspector!TypeOK
  <2>4. WindowKept(w)'
    BY <2>1, <2>2 DEF Inspector!TypeOK, WindowKept
  <2>5. ReadingOwn(w)'
    BY <2>1, <2>2, NoListsTyped
    DEF Inspector!TypeOK, ReadingOwn, OwnOrNone, Reading, Inspector!Lists
  <2>6. ASSUME NEW v \in InspectorWindows, v # w
        PROVE  WindowKept(v)' /\ ReadingOwn(v)'
    BY <2>1, <2>2, <2>6, WindowUntouched DEF Inspector!TypeOK
  <2> QED
    BY <2>1, <2>3, <2>4, <2>5, <2>6
<1>5. ASSUME NEW w \in InspectorWindows, Inspector!inspector_destroy(w)
      PROVE  InspectorInv'
    BY <1>5
    DEF Inspector!inspector_destroy, Inspector!TypeOK, WindowKept, ReadingOwn,
        OwnOrNone
<1>6. ASSUME NEW w \in InspectorWindows, Inspector!inspector_update(w)
      PROVE  InspectorInv'
  <2>1. /\ window[w] = "open" /\ ~used_after_free'
        /\ UNCHANGED <<inspected, snapshot, window, window_instance,
                       inventory_pending, task, inventory, identity_valid>>
    BY <1>6 DEF Inspector!inspector_update, WindowKept
  <2>2. \/ UNCHANGED <<lists, refresh_timer, timer>>
        \/ /\ lists' = [lists EXCEPT ![w] = Inspector!NoLists]
           /\ refresh_timer' = [refresh_timer EXCEPT ![w] = FALSE]
           /\ timer' = [timer EXCEPT ![w] = FALSE]
    BY <1>6 DEF Inspector!inspector_update
  <2>3a. lists' \in [InspectorWindows -> [Inspector!Lists -> Values]]
    BY <2>2, NoListsTyped DEF Inspector!TypeOK
  <2>3. Inspector!TypeOK'
    BY <2>1, <2>2, <2>3a DEF Inspector!TypeOK
  <2>4. WindowKept(w)'
    <3>1. /\ refresh_timer[w] = timer[w]
          /\ inventory_pending[w] = (task[w] # "none")
      BY <2>1 DEF WindowKept
    <3>2. refresh_timer'[w] = timer'[w]
      BY <2>2, <3>1 DEF Inspector!TypeOK
    <3> QED
      BY <2>1, <3>1, <3>2 DEF WindowKept
  <2>5. ReadingOwn(w)'
    BY <2>1, <2>2, NoListsTyped
    DEF Inspector!TypeOK, ReadingOwn, OwnOrNone, Reading, Inspector!Lists
  <2>6. ASSUME NEW v \in InspectorWindows, v # w
        PROVE  WindowKept(v)' /\ ReadingOwn(v)'
    BY <2>1, <2>2, <2>6, WindowUntouched DEF Inspector!TypeOK
  <2> QED
    BY <2>1, <2>3, <2>4, <2>5, <2>6
<1>7. ASSUME NEW w \in InspectorWindows,
             Inspector!process_inventory_worker(w)
      PROVE  InspectorInv'
  <2>0. UNCHANGED <<inspected, snapshot, window, window_instance,
                    inventory_pending, refresh_timer, timer, lists,
                    used_after_free>>
    BY <1>7 DEF Inspector!process_inventory_worker
  <2>1. CASE Inspector!WorkerChecks(w)
    <3> DEFINE own == inspected = window_instance[w]
    <3>1. \/ /\ task[w] = "check"
             /\ \E step \in {"details", "returned"} :
                   task' = [task EXCEPT ![w] = step]
             /\ UNCHANGED <<inventory, identity_valid>>
          \/ /\ task[w] = "again"
             /\ task' = [task EXCEPT ![w] = "returned"]
             /\ \E valid \in BOOLEAN :
                  /\ identity_valid' = [identity_valid EXCEPT ![w] = valid]
                  /\ valid => own
             /\ UNCHANGED inventory
      BY <2>1, <1>b
      DEF Inspector!WorkerChecks, Inspector!Current,
          Inspector!lsm_process_inspection_identity_matches
    <3>2. Inspector!TypeOK' /\ identity_valid' \in [InspectorWindows -> BOOLEAN]
      BY <2>0, <3>1, ZenonT(40) DEF Inspector!TypeOK, Inspector!Lists
    <3>3. WindowKept(w)'
      BY <2>0, <3>1 DEF Inspector!TypeOK, WindowKept
    <3>4. ReadingOwn(w)'
      BY <2>0, <3>1
      DEF Inspector!TypeOK, ReadingOwn, OwnOrNone, Reading, Inspector!Lists
    <3>5. ASSUME NEW v \in InspectorWindows, v # w
          PROVE  WindowKept(v)' /\ ReadingOwn(v)'
      BY <2>0, <3>1, <3>5, WindowUntouched DEF Inspector!TypeOK
    <3> QED
      BY <2>0, <3>2, <3>3, <3>4, <3>5
  <2>2. ASSUME NEW list \in Inspector!Lists,
               NEW next \in {"again"} \cup Inspector!Lists,
               Inspector!Reads(w, list, next)
        PROVE  InspectorInv'
    <3>1. PICK outcome \in {Inspector!Incomplete} \cup ({Inspector!Current} \ {0}) :
             /\ task[w] = list
             /\ task' = [task EXCEPT ![w] = next]
             /\ inventory' = [inventory EXCEPT ![w][list] = outcome]
             /\ UNCHANGED identity_valid
      BY <2>2 DEF Inspector!Reads
    <3>2. /\ outcome \in Values
          /\ outcome \in {Inspector!Incomplete, inspected}
      <4>1. Inspector!Current \in {0, inspected}
        BY DEF Inspector!Current
      <4>2. inspected = 0 \/ inspected \in Inspector!Owners
        BY <1>a DEF Inspector!TypeOK, Inspector!Owners
      <4> QED
        BY <4>1, <4>2
    <3>3. /\ inventory' \in [InspectorWindows -> [Inspector!Lists -> Values]]
          /\ inventory'[w] = [inventory[w] EXCEPT ![list] = outcome]
          /\ \A v \in InspectorWindows \ {w} : inventory'[v] = inventory[v]
      BY <3>1, <3>2 DEF Inspector!TypeOK
    <3>4. /\ task' \in [InspectorWindows -> Steps]
          /\ task'[w] = next
          /\ \A v \in InspectorWindows \ {w} : task'[v] = task[v]
      BY <3>1 DEF Inspector!TypeOK
    <3>5. Inspector!TypeOK'
      BY <2>0, <3>3, <3>4 DEF Inspector!TypeOK
    <3>6. WindowKept(w)'
      BY <2>0, <3>1, <3>4 DEF WindowKept, Inspector!Lists
    <3>7. ReadingOwn(w)'
      <4>1. task[w] \in Reading /\ task'[w] \in Reading
        BY <3>1, <3>4 DEF Reading
      <4>2. ASSUME inspected = window_instance[w], NEW l \in Inspector!Lists
            PROVE  inventory'[w][l] \in OwnOrNone(w)
        <5>1. inventory[w][l] \in OwnOrNone(w)
          BY <4>1, <4>2 DEF ReadingOwn
        <5>2. inventory[w] \in [Inspector!Lists -> Values]
          BY DEF Inspector!TypeOK
        <5> QED
          BY <5>1, <5>2, <3>2, <3>3, <4>2 DEF OwnOrNone
      <4>3. task'[w] # "returned"
        BY <3>4 DEF Inspector!Lists
      <4> QED
        BY <2>0, <3>1, <4>1, <4>2, <4>3 DEF ReadingOwn, OwnOrNone
    <3>8. ASSUME NEW v \in InspectorWindows, v # w
          PROVE  WindowKept(v)' /\ ReadingOwn(v)'
      BY <2>0, <3>1, <3>3, <3>4, <3>8, WindowUntouched
    <3> QED
      BY <2>0, <3>1, <3>5, <3>6, <3>7, <3>8
  <2> QED
    BY <1>7, <2>1, <2>2
    DEF Inspector!process_inventory_worker, Inspector!lsm_process_enrich,
        Inspector!open_files_checked, Inspector!memory_maps_checked,
        Inspector!threads_checked, Inspector!Lists
<1>8. ASSUME NEW w \in InspectorWindows,
             Inspector!process_inventory_complete(w)
      PROVE  InspectorInv'
  <2>1. /\ task[w] = "returned"
        /\ task' = [task EXCEPT ![w] = "none"]
        /\ UNCHANGED <<inspected, snapshot, window, window_instance,
                       refresh_timer, timer, inventory, identity_valid,
                       used_after_free>>
    BY <1>8 DEF Inspector!process_inventory_complete
  <2>2. \/ window[w] # "open" /\ UNCHANGED <<inventory_pending, lists>>
        \/ /\ window[w] = "open"
           /\ inventory_pending' = [inventory_pending EXCEPT ![w] = FALSE]
           /\ \/ /\ identity_valid[w]
                 /\ lists' = [lists EXCEPT ![w] = inventory[w]]
              \/ lists' = [lists EXCEPT ![w] = Inspector!NoLists]
    BY <1>8 DEF Inspector!process_inventory_complete
  <2>3. Inspector!TypeOK'
    BY <2>1, <2>2, NoListsTyped, ZenonT(40) DEF Inspector!TypeOK
  <2>4. WindowKept(w)'
    BY <2>1, <2>2 DEF Inspector!TypeOK, WindowKept
  <2>5. ReadingOwn(w)'
    BY <2>1, <2>2, NoListsTyped
    DEF Inspector!TypeOK, ReadingOwn, OwnOrNone, Reading, Inspector!Lists
  <2>6. ASSUME NEW v \in InspectorWindows, v # w
        PROVE  WindowKept(v)' /\ ReadingOwn(v)'
    BY <2>1, <2>2, <2>6, WindowUntouched DEF Inspector!TypeOK
  <2> QED
    BY <2>1, <2>3, <2>4, <2>5, <2>6
<1>9. CASE UNCHANGED inspectorVars
    BY <1>9, WindowUntouched DEF inspectorVars, Inspector!TypeOK
<1> QED
    BY <1>1, <1>2, <1>3, <1>4, <1>5, <1>6, <1>7, <1>8, <1>9
    DEF Inspector!Next, Inspector!MainThread, inspectorVars, Inspector!vars

(* The steps of the other studies leave the inspector alone.                *)
LEMMA InspectorNext == [Next]_vars => [Inspector!Next]_inspectorVars
  BY DEF Next, vars, Control, Policy, Pick, Inspect

(* "A recycled process identifier must never redirect an existing inspector *)
(* to a different process" (process_inspector.c): for any number of windows *)
(* and of births and deaths of the PID, a list shown was read from the      *)
(* window's own process, and neither the task nor the timer comes back to   *)
(* an inspector that was freed.                                             *)
THEOREM InspectorShowsOwn == Spec => []InspectorOwn
<1>1. Init => InspectorInv
    BY ActionsAssumption, NoListsTyped
    DEF Init, Inspector!Init, InspectorInv, Inspector!InspectorAssumption,
        Inspector!TypeOK, WindowKept, ReadingOwn, OwnOrNone, Reading,
        Inspector!Owners, Inspector!Lists
<1>2. InspectorInv /\ [Next]_vars => InspectorInv'
    BY InspectorStep, InspectorNext
<1>3. InspectorInv => InspectorOwn
    BY DEF InspectorInv, InspectorOwn, WindowKept, ReadingOwn, OwnOrNone,
           Inspector!ListsOwn, Inspector!InspectorTasksHonest
<1> QED
    BY <1>1, <1>2, <1>3, PTL DEF Spec

-----------------------------------------------------------------------------
(* Efficiency mode.                                                         *)

Nices == NiceValues \cup {0, Efficiency!EfficiencyNice}
Ios == IoValues \cup {Efficiency!IdleIo, Efficiency!DefaultIo}
Instances == 1 .. MaxPolicyInstance

Processes == [instance_id : 0 .. MaxPolicyInstance, nice : Nices, ioprio : Ios]
Calls == [pid : PolicyPids \cup {0}, instance_id : 0 .. MaxPolicyInstance,
          enabled : BOOLEAN, nice : Nices, ioprio : Ios, already : BOOLEAN,
          io_changed : BOOLEAN, restore_ioprio : BOOLEAN]
Entries == [pid : PolicyPids, instance_id : Instances, original_nice : Nices,
            original_ioprio : Ios, restore_ioprio : BOOLEAN]
Policies == [nice : Nices, ioprio : Ios \cup {"none"}]

Enabling == {"capture", "io", "nice"}
Disabling == {"lookup", "restore_io", "restore_nice"}

EfficiencyTyped ==
    /\ proc \in [PolicyPids -> Processes]
    /\ policy_born \in 0 .. MaxPolicyInstance
    /\ table \subseteq Entries /\ IsFiniteSet(table)
    /\ Cardinality(table) <= Capacity
    /\ policy_pc \in {"idle"} \cup Enabling \cup Disabling
    /\ call \in Calls
    /\ policy_pc # "idle" => /\ call.pid \in PolicyPids
                             /\ call.instance_id \in Instances
                             /\ call.enabled = (policy_pc \in Enabling)
    /\ before \in Policies
    /\ captured \in [Instances -> Policies]
    /\ owed \subseteq Instances
    /\ late \subseteq Instances

(* The process a call or an entry is about.                                 *)
Runs(pid, id) == proc[pid].instance_id = id

(* Start ticks are given out once: an entry, a call and a process that bear *)
(* the same are about one PID.                                              *)
TicksUnique ==
    /\ \A p \in PolicyPids : proc[p].instance_id <= policy_born
    /\ \A p, q \in PolicyPids :
         Runs(p, proc[q].instance_id) /\ ~Runs(p, 0) => p = q
    /\ \A s \in table :
         /\ s.instance_id <= policy_born
         /\ \A t \in table : t.instance_id = s.instance_id => t = s
         /\ \A p \in PolicyPids : Runs(p, s.instance_id) => p = s.pid
    /\ policy_pc # "idle" =>
         /\ call.instance_id <= policy_born
         /\ \A p \in PolicyPids : Runs(p, call.instance_id) => p = call.pid
         /\ \A s \in table : s.instance_id = call.instance_id => s.pid = call.pid
         /\ \A s \in table : s.pid = call.pid /\ Runs(s.pid, s.instance_id) =>
                s.instance_id = call.instance_id

(* An entry holds what was captured for its process.  One that says nothing *)
(* of the I/O priority is about a process that still has its own, unless a  *)
(* later enable changed it or is just trying to.                            *)
IoKept(s) ==
    ~s.restore_ioprio /\ Runs(s.pid, s.instance_id) /\ s.instance_id \notin late =>
        proc[s.pid].ioprio = s.original_ioprio
Trying(s) ==
    /\ policy_pc = "nice" /\ call.already /\ call.io_changed
    /\ call.instance_id = s.instance_id
EntriesCaptured ==
    \A s \in table :
        /\ captured[s.instance_id] = [nice |-> s.original_nice,
                                      ioprio |-> s.original_ioprio]
        /\ IoKept(s) \/ Trying(s)

(* The entry a running enable has made is the only one not yet owed.        *)
Made == policy_pc \in {"io", "nice"} /\ ~call.already
OwedListed ==
    /\ {s.instance_id : s \in table} =
          IF Made THEN owed \cup {call.instance_id} ELSE owed
    /\ Made => call.instance_id \notin owed
    /\ policy_pc \in {"io", "nice"} =>
          call.instance_id \in {s.instance_id : s \in table}

(* What a running call knows of its process, as long as that is there: an   *)
(* enable can undo what it did, and a disable knows what was captured.      *)
CallKnows ==
    LET p == proc[call.pid] IN
    /\ policy_pc \in {"capture", "io"} /\ Runs(call.pid, call.instance_id) =>
          Efficiency!Policy(p) = before
    /\ policy_pc \in {"io", "nice"} /\ Runs(call.pid, call.instance_id) =>
          /\ call.ioprio = before.ioprio
          /\ \A s \in table :
               s.instance_id = call.instance_id /\ ~s.restore_ioprio
               /\ s.instance_id \notin late => call.ioprio = s.original_ioprio
    /\ policy_pc = "nice" /\ Runs(call.pid, call.instance_id) =>
          /\ p.nice = before.nice
          /\ ~call.io_changed => p.ioprio = before.ioprio
    /\ policy_pc \in {"restore_io", "restore_nice"} =>
          \A s \in table : s.instance_id = call.instance_id =>
             /\ call.nice = s.original_nice
             /\ call.ioprio = s.original_ioprio
             /\ call.restore_ioprio = s.restore_ioprio
    /\ policy_pc = "restore_nice" /\ Runs(call.pid, call.instance_id) =>
          \A s \in table : s.instance_id = call.instance_id =>
             p.ioprio = s.original_ioprio \/ s.instance_id \in late

EfficiencyInv ==
    /\ EfficiencyTyped
    /\ TicksUnique
    /\ EntriesCaptured
    /\ OwedListed
    /\ CallKnows

(* The module's sets are counted as here.                                   *)
LEMMA PolicyCardinality == \A S : Efficiency!Cardinality(S) = Cardinality(S)
  BY DEF Efficiency!Cardinality, Cardinality, Efficiency!IsFiniteSet, IsFiniteSet

(* What the assumption says of the constants of the policies.               *)
LEMMA PolicyConstants ==
    /\ MaxPolicyInstance \in Nat /\ Capacity \in Nat /\ 0 \notin PolicyPids
    /\ Efficiency!NoProcess \in Processes
    /\ Efficiency!NoCall \in Calls
    /\ Efficiency!NoPolicy \in Policies
<1>1. MaxPolicyInstance \in Nat /\ Capacity \in Nat /\ 0 \notin PolicyPids
    BY ActionsAssumption DEF Efficiency!PolicyAssumption
<1>2. 0 \in 0 .. MaxPolicyInstance
    BY <1>1
<1> QED
    BY <1>1, <1>2
    DEF Efficiency!NoProcess, Efficiency!NoCall, Efficiency!NoPolicy,
        Processes, Calls, Policies, Nices, Ios

(* What a system call changes of the processes.                             *)
LEMMA IoSet ==
    ASSUME EfficiencyTyped, NEW pid \in PolicyPids, NEW io \in Ios,
           proc' = Efficiency!WithIo(pid, io)
    PROVE  /\ proc' \in [PolicyPids -> Processes]
           /\ \A q \in PolicyPids :
                /\ proc'[q].instance_id = proc[q].instance_id
                /\ proc'[q].nice = proc[q].nice
                /\ proc'[q].ioprio = IF q = pid THEN io ELSE proc[q].ioprio
  BY DEF EfficiencyTyped, Efficiency!WithIo, Processes

(* The same for setpriority.                                                *)
LEMMA NiceSet ==
    ASSUME EfficiencyTyped, NEW pid \in PolicyPids, NEW n \in Nices,
           proc' = Efficiency!WithNice(pid, n)
    PROVE  /\ proc' \in [PolicyPids -> Processes]
           /\ \A q \in PolicyPids :
                /\ proc'[q].instance_id = proc[q].instance_id
                /\ proc'[q].ioprio = proc[q].ioprio
                /\ proc'[q].nice = IF q = pid THEN n ELSE proc[q].nice
  BY DEF EfficiencyTyped, Efficiency!WithNice, Processes

(* The entry of the running call, and the table without it.                 *)
LEMMA FindsOwn ==
    ASSUME EfficiencyTyped, TicksUnique, policy_pc # "idle"
    PROVE  /\ Efficiency!efficiency_restore_find =
                {s \in table : s.instance_id = call.instance_id}
           /\ Efficiency!efficiency_restore_remove =
                {s \in table : s.instance_id # call.instance_id}
  BY DEF TicksUnique, Efficiency!efficiency_restore_find,
         Efficiency!efficiency_restore_remove

(* A table that only loses entries stays finite and within its capacity.    *)
LEMMA TableShrinks ==
    ASSUME EfficiencyTyped, NEW T \in SUBSET table
    PROVE  T \subseteq Entries /\ IsFiniteSet(T) /\ Cardinality(T) <= Capacity
<1>1. /\ IsFiniteSet(T) /\ Cardinality(T) <= Cardinality(table)
      /\ Cardinality(T) \in Nat /\ Cardinality(table) \in Nat
    BY FS_Subset, FS_CardinalityType DEF EfficiencyTyped
<1> QED
    BY <1>1, PolicyConstants DEF EfficiencyTyped

(* A call returns: the entries it leaves are still right when what it did   *)
(* to the processes agrees with them.                                       *)
LEMMA CallReturns ==
    ASSUME EfficiencyInv, policy_pc # "idle",
           policy_pc' = "idle", call' = Efficiency!NoCall,
           before' = Efficiency!NoPolicy,
           UNCHANGED <<policy_born, captured>>,
           proc' \in [PolicyPids -> Processes],
           \A q \in PolicyPids :
             proc'[q].instance_id = proc[q].instance_id,
           table' \subseteq table,
           \A s \in table' : IoKept(s)',
           owed' \subseteq Instances,
           late' \subseteq Instances,
           {s.instance_id : s \in table'} = owed'
    PROVE  EfficiencyInv'
<1>1. EfficiencyTyped'
  <2>1. table' \subseteq Entries /\ IsFiniteSet(table') /\ Cardinality(table') <= Capacity
    BY TableShrinks DEF EfficiencyInv
  <2> QED
    BY <2>1, PolicyConstants DEF EfficiencyInv, EfficiencyTyped
<1>2. TicksUnique'
    BY DEF EfficiencyInv, EfficiencyTyped, TicksUnique, Runs, Entries
<1>3. EntriesCaptured'
    BY DEF EfficiencyInv, EntriesCaptured
<1>4. OwedListed'
    BY DEF OwedListed, Made
<1>5. CallKnows'
    BY DEF CallKnows
<1> QED
    BY <1>1, <1>2, <1>3, <1>4, <1>5 DEF EfficiencyInv

(* A process of a call or an entry goes: nothing is known of it any more.   *)
LEMMA ExitKeeps ==
    ASSUME EfficiencyInv, NEW pid \in PolicyPids, Efficiency!Exit(pid)
    PROVE  EfficiencyInv'
<1>1. /\ proc' \in [PolicyPids -> Processes]
      /\ proc'[pid].instance_id = 0
      /\ \A q \in PolicyPids \ {pid} : proc'[q] = proc[q]
      /\ UNCHANGED <<policy_born, table, policy_pc, call, before, captured, owed, late>>
    BY PolicyConstants
    DEF EfficiencyInv, EfficiencyTyped, Efficiency!Exit, Efficiency!NoProcess
<1>2. EfficiencyTyped'
    BY <1>1 DEF EfficiencyInv, EfficiencyTyped
<1>3. \A s \in table : s.pid \in PolicyPids /\ s.instance_id \in Nat \ {0}
    BY PolicyConstants DEF EfficiencyInv, EfficiencyTyped, Entries, Instances
<1>4. TicksUnique'
    BY <1>1, <1>3, PolicyConstants
    DEF EfficiencyInv, EfficiencyTyped, TicksUnique, Runs, Instances
<1>5. EntriesCaptured'
  <2>1. ASSUME NEW s \in table, IoKept(s) PROVE IoKept(s)'
    <3>1. CASE s.pid = pid
      BY <1>1, <1>3, <3>1 DEF IoKept, Runs
    <3>2. CASE s.pid # pid
      BY <1>1, <1>3, <2>1, <3>2 DEF IoKept, Runs
    <3> QED
      BY <3>1, <3>2
  <2> QED
    BY <1>1, <2>1 DEF EfficiencyInv, EntriesCaptured, Trying
<1>6. OwedListed'
    BY <1>1 DEF EfficiencyInv, OwedListed, Made
<1>7. CallKnows'
  <2>1. policy_pc # "idle" =>
          call.pid \in PolicyPids /\ call.instance_id \in Nat \ {0}
    BY PolicyConstants DEF EfficiencyInv, EfficiencyTyped, Instances
  <2> QED
    BY <1>1, <2>1 DEF EfficiencyInv, CallKnows, Runs, Efficiency!Policy
<1> QED
    BY <1>2, <1>4, <1>5, <1>6, <1>7 DEF EfficiencyInv

(* A new process has start ticks of its own.                                *)
LEMMA SpawnKeeps ==
    ASSUME EfficiencyInv, NEW pid \in PolicyPids, Efficiency!Spawn(pid)
    PROVE  EfficiencyInv'
<1>1. /\ proc' \in [PolicyPids -> Processes]
      /\ proc'[pid].instance_id = policy_born + 1
      /\ \A q \in PolicyPids \ {pid} : proc'[q] = proc[q]
      /\ policy_born' = policy_born + 1
      /\ policy_born' \in 0 .. MaxPolicyInstance
      /\ UNCHANGED <<table, policy_pc, call, before, captured, owed, late>>
  <2>1. PICK n \in NiceValues, io \in IoValues :
          proc' = [proc EXCEPT ![pid] = [instance_id |-> policy_born + 1, nice |-> n,
                                         ioprio |-> io]]
    BY DEF Efficiency!Spawn
  <2>2. policy_born + 1 \in 0 .. MaxPolicyInstance
    BY PolicyConstants DEF Efficiency!Spawn, EfficiencyInv, EfficiencyTyped
  <2>3. [instance_id |-> policy_born + 1, nice |-> n, ioprio |-> io] \in Processes
    BY <2>2 DEF Processes, Nices, Ios
  <2> QED
    BY <2>1, <2>2, <2>3 DEF Efficiency!Spawn, EfficiencyInv, EfficiencyTyped
<1>2. EfficiencyTyped'
    BY <1>1 DEF EfficiencyInv, EfficiencyTyped
<1>3. /\ policy_born \in Nat
      /\ \A q \in PolicyPids : proc[q].instance_id \in Nat
      /\ \A s \in table : s.pid \in PolicyPids /\ s.instance_id \in Nat \ {0}
      /\ policy_pc # "idle" =>
           call.pid \in PolicyPids /\ call.instance_id \in Nat \ {0}
    BY PolicyConstants
    DEF EfficiencyInv, EfficiencyTyped, Entries, Processes, Instances
<1>4. TicksUnique'
  <2>1. /\ \A p \in PolicyPids : proc'[p].instance_id <= policy_born'
        /\ \A p, q \in PolicyPids :
             Runs(p, proc[q].instance_id)' /\ ~Runs(p, 0)' => p = q
    BY <1>1, <1>3 DEF EfficiencyInv, TicksUnique, Runs
  <2>2. \A s \in table' :
          /\ s.instance_id <= policy_born'
          /\ \A t \in table' : t.instance_id = s.instance_id => t = s
          /\ \A p \in PolicyPids : Runs(p, s.instance_id)' => p = s.pid
    BY <1>1, <1>3 DEF EfficiencyInv, TicksUnique, Runs
  <2>3. policy_pc' # "idle" =>
          /\ call'.instance_id <= policy_born'
          /\ \A p \in PolicyPids : Runs(p, call.instance_id)' => p = call'.pid
          /\ \A s \in table' : s.instance_id = call'.instance_id => s.pid = call'.pid
          /\ \A s \in table' : s.pid = call'.pid /\ Runs(s.pid, s.instance_id)' =>
                s.instance_id = call'.instance_id
    BY <1>1, <1>3 DEF EfficiencyInv, TicksUnique, Runs
  <2> QED
    BY <2>1, <2>2, <2>3 DEF TicksUnique
<1>5. EntriesCaptured'
  <2>1. \A s \in table : Runs(s.pid, s.instance_id)' => s.pid # pid
    BY <1>1, <1>3 DEF EfficiencyInv, TicksUnique, Runs
  <2>2. \A s \in table : s.pid # pid => proc'[s.pid] = proc[s.pid]
    BY <1>1, <1>3
  <2> QED
    BY <1>1, <2>1, <2>2 DEF EfficiencyInv, EntriesCaptured, IoKept, Trying, Runs
<1>6. OwedListed'
    BY <1>1 DEF EfficiencyInv, OwedListed, Made
<1>7. CallKnows'
    BY <1>1, <1>3
    DEF EfficiencyInv, TicksUnique, CallKnows, Runs, Efficiency!Policy
<1> QED
    BY <1>2, <1>4, <1>5, <1>6, <1>7 DEF EfficiencyInv

(* A call begins with what it finds, or a priority is changed between calls.*)
LEMMA IdleKeeps ==
    ASSUME EfficiencyInv, NEW pid \in PolicyPids,
           \/ \E enabled \in BOOLEAN : Efficiency!set_efficiency(pid, enabled)
           \/ \E n \in NiceValues : Efficiency!set_nice(pid, n)
    PROVE  EfficiencyInv'
<1>1. ASSUME NEW n \in NiceValues, Efficiency!set_nice(pid, n)
      PROVE  EfficiencyInv'
  <2>1. /\ policy_pc = "idle"
        /\ proc' = Efficiency!WithNice(pid, n) /\ n \in Nices
        /\ UNCHANGED <<policy_born, table, policy_pc, call, before, captured, owed, late>>
    BY <1>1 DEF Efficiency!set_nice, Nices
  <2>2. /\ proc' \in [PolicyPids -> Processes]
        /\ \A q \in PolicyPids : /\ proc'[q].instance_id = proc[q].instance_id
                                 /\ proc'[q].ioprio = proc[q].ioprio
    BY <2>1, NiceSet DEF EfficiencyInv
  <2>3. EfficiencyTyped'
    BY <2>1, <2>2 DEF EfficiencyInv, EfficiencyTyped
  <2>4. \A s \in table : s.pid \in PolicyPids
    BY DEF EfficiencyInv, EfficiencyTyped, Entries
  <2>5. TicksUnique'
    BY <2>1, <2>2, <2>4 DEF EfficiencyInv, TicksUnique, Runs
  <2>6. EntriesCaptured'
    BY <2>1, <2>2, <2>4, ZenonT(40) DEF EfficiencyInv, EntriesCaptured, IoKept, Trying, Runs
  <2>7. OwedListed' /\ CallKnows'
    BY <2>1 DEF EfficiencyInv, OwedListed, Made, CallKnows
  <2> QED
    BY <2>3, <2>5, <2>6, <2>7 DEF EfficiencyInv
<1>2. ASSUME NEW enabled \in BOOLEAN, Efficiency!set_efficiency(pid, enabled)
      PROVE  EfficiencyInv'
  <2>1. /\ policy_pc = "idle" /\ proc[pid].instance_id # 0
        /\ before' = Efficiency!Policy(proc[pid])
        /\ policy_pc' = IF enabled THEN "capture" ELSE "lookup"
        /\ UNCHANGED <<proc, policy_born, table, captured, owed, late>>
    BY <1>2 DEF Efficiency!set_efficiency
  <2>2. proc[pid] \in Processes
    BY DEF EfficiencyInv, EfficiencyTyped
  <2>3. /\ call' \in Calls
        /\ call'.pid = pid /\ call'.instance_id = proc[pid].instance_id
        /\ call'.enabled = enabled
    BY <1>2, <2>2, PolicyConstants
    DEF Efficiency!set_efficiency, Efficiency!NoCall, Calls, Processes
  <2>4. before' \in Policies
    BY <2>1, <2>2 DEF Efficiency!Policy, Processes, Policies
  <2>5. EfficiencyTyped'
    <3>1. call'.instance_id \in Instances
      BY <2>1, <2>2, <2>3, PolicyConstants DEF Processes, Instances
    <3> QED
      BY <2>1, <2>3, <2>4, <3>1
      DEF EfficiencyInv, EfficiencyTyped, Enabling, Disabling
  <2>6. TicksUnique'
    BY <2>1, <2>3 DEF EfficiencyInv, TicksUnique, Runs
  <2>7. EntriesCaptured'
    BY <2>1 DEF EfficiencyInv, EntriesCaptured, IoKept, Trying, Runs
  <2>8. OwedListed'
    BY <2>1 DEF EfficiencyInv, OwedListed, Made
  <2>9. CallKnows'
    BY <2>1, <2>3 DEF CallKnows, Runs
  <2> QED
    BY <2>5, <2>6, <2>7, <2>8, <2>9 DEF EfficiencyInv
<1> QED
    BY <1>1, <1>2

(* The steps of a call.                                                     *)
LEMMA CallKeeps ==
    ASSUME EfficiencyInv,
           \/ Efficiency!capture \/ Efficiency!set_idle_io
           \/ Efficiency!set_efficiency_nice \/ Efficiency!lookup
           \/ Efficiency!restore_io \/ Efficiency!restore_nice
    PROVE  EfficiencyInv'
<1> DEFINE found == Efficiency!efficiency_restore_find
           rest == Efficiency!efficiency_restore_remove
<1>a. EfficiencyTyped /\ TicksUnique /\ EntriesCaptured /\ OwedListed /\ CallKnows
    BY DEF EfficiencyInv
<1>b. policy_pc # "idle"
    BY DEF Efficiency!capture, Efficiency!set_idle_io,
           Efficiency!set_efficiency_nice, Efficiency!lookup,
           Efficiency!restore_io, Efficiency!restore_nice
<1>c. /\ call \in Calls /\ call.pid \in PolicyPids
      /\ call.instance_id \in Instances
      /\ call.enabled = (policy_pc \in Enabling)
      /\ call.nice \in Nices /\ call.ioprio \in Ios
      /\ \A s \in table : s \in Entries /\ s.pid \in PolicyPids
    BY <1>a, <1>b DEF EfficiencyTyped, Calls, Entries
<1>d. /\ found = {s \in table : s.instance_id = call.instance_id}
      /\ rest = {s \in table : s.instance_id # call.instance_id}
    BY <1>a, <1>b, FindsOwn
<1> HIDE DEF found, rest
<1>e. /\ proc \in [PolicyPids -> Processes]
      /\ owed \subseteq Instances /\ late \subseteq Instances
    BY <1>a DEF EfficiencyTyped
<1>f. \A s \in table : IoKept(s) \/ Trying(s)
    BY <1>a DEF EntriesCaptured
<1>g. \A s \in table : s.pid = call.pid /\ Runs(s.pid, s.instance_id) =>
        s.instance_id = call.instance_id
    BY <1>a, <1>b DEF TicksUnique
<1>1. CASE Efficiency!capture
  <2> DEFINE p == proc[call.pid]
  <2>0. policy_pc = "capture" /\ UNCHANGED <<proc, policy_born, late>>
    BY <1>1 DEF Efficiency!capture
  <2>1. CASE p.instance_id = 0 \/ Efficiency!efficiency_restore_reserve_fails
    <3>1. /\ policy_pc' = "idle" /\ call' = Efficiency!NoCall
          /\ before' = Efficiency!NoPolicy
          /\ UNCHANGED <<table, captured, owed>>
      BY <1>1, <2>1 DEF Efficiency!capture, Efficiency!Return
    <3>2. {s.instance_id : s \in table'} = owed'
      BY <1>a, <2>0, <3>1 DEF OwedListed, Made
    <3>3. \A s \in table' : IoKept(s)'
      BY <1>f, <2>0, <3>1 DEF IoKept, Trying, Runs
    <3> QED
      BY <1>e, <2>0, <3>1, <3>2, <3>3, CallReturns
  <2>2. CASE ~(p.instance_id = 0 \/ Efficiency!efficiency_restore_reserve_fails)
    <3>1. /\ policy_pc' = "io"
          /\ call' = [call EXCEPT !.already = (found # {}), !.ioprio = p.ioprio]
          /\ table' = Efficiency!Remembered(p)
          /\ captured' = IF found # {} THEN captured
                         ELSE [captured EXCEPT ![call.instance_id] = Efficiency!Policy(p)]
          /\ UNCHANGED <<before, owed>>
      BY <1>1, <2>2 DEF Efficiency!capture, found
    <3>2. /\ p \in Processes /\ p.ioprio \in Ios /\ p.nice \in Nices
      BY <1>c, <1>e DEF Processes
    <3>3. /\ call' \in Calls
          /\ call'.pid = call.pid /\ call'.instance_id = call.instance_id
          /\ call'.enabled = call.enabled /\ call'.ioprio = p.ioprio
          /\ call'.already = (found # {})
      BY <1>c, <3>1, <3>2 DEF Calls
    <3>4. Runs(call.pid, call.instance_id) =>
             Efficiency!Policy(p) = before /\ p.ioprio = before.ioprio
      BY <1>a, <2>0 DEF CallKnows, Efficiency!Policy
    <3>5. ASSUME \A s \in table' :
                   s.instance_id = call.instance_id /\ ~s.restore_ioprio
                   /\ s.instance_id \notin late /\ Runs(call.pid, call.instance_id) =>
                     p.ioprio = s.original_ioprio
          PROVE  CallKnows'
      BY <2>0, <3>1, <3>3, <3>4, <3>5 DEF CallKnows, Runs
    <3>6. CASE found # {}
      <4>1. UNCHANGED <<table, captured>>
        BY <3>1, <3>6 DEF Efficiency!Remembered, found
      <4>2. EfficiencyTyped'
        BY <1>a, <1>c, <2>0, <3>1, <3>3, <4>1 DEF EfficiencyTyped, Enabling
      <4>3. TicksUnique'
        BY <1>a, <2>0, <3>3, <4>1 DEF TicksUnique, Runs
      <4>4. EntriesCaptured'
        BY <1>a, <2>0, <3>1, <4>1 DEF EntriesCaptured, IoKept, Trying, Runs
      <4>5. OwedListed'
        BY <1>a, <1>d, <2>0, <3>1, <3>3, <3>6, <4>1 DEF OwedListed, Made
      <4>6. CallKnows'
        <5>1. \A s \in table : s.instance_id = call.instance_id => s.pid = call.pid
          BY <1>a, <1>b DEF TicksUnique
        <5> QED
          BY <1>f, <2>0, <3>5, <4>1, <5>1 DEF IoKept, Trying
      <4> QED
        BY <4>2, <4>3, <4>4, <4>5, <4>6 DEF EfficiencyInv
    <3>7. CASE found = {}
      <4> DEFINE e == Efficiency!Entry(p.nice, p.ioprio)
      <4>1. /\ table' = table \cup {e}
            /\ captured' = [captured EXCEPT ![call.instance_id] = Efficiency!Policy(p)]
        BY <3>1, <3>7 DEF Efficiency!Remembered, found
      <4>2. /\ e \in Entries /\ e.pid = call.pid
            /\ e.instance_id = call.instance_id
            /\ e.original_nice = p.nice /\ e.original_ioprio = p.ioprio
            /\ e.restore_ioprio = FALSE
        BY <1>c, <3>2 DEF Efficiency!Entry, Entries
      <4> HIDE DEF e
      <4>3. \A s \in table : s.instance_id # call.instance_id
        BY <1>d, <3>7
      <4>4. EfficiencyTyped'
        <5>1. IsFiniteSet(table') /\ Cardinality(table') <= Capacity
          <6>1. Cardinality(table) < Capacity
            <7>1. ~(Cardinality(table) >= Capacity)
              BY <2>2, <3>7, PolicyCardinality
              DEF Efficiency!efficiency_restore_reserve_fails, found
            <7>2. Cardinality(table) \in Nat
              BY <1>a, FS_CardinalityType DEF EfficiencyTyped
            <7> QED
              BY <7>1, <7>2, PolicyConstants
          <6>2. e \notin table
            BY <4>2, <4>3
          <6>3. IsFiniteSet(table) /\ Cardinality(table) \in Nat
            BY <1>a, FS_CardinalityType DEF EfficiencyTyped
          <6>4. IsFiniteSet(table') /\ Cardinality(table') = Cardinality(table) + 1
            BY <4>1, <6>2, <6>3, FS_AddElement
          <6> QED
            BY <6>1, <6>3, <6>4, PolicyConstants
        <5>2. Efficiency!Policy(p) \in Policies
          BY <3>2 DEF Efficiency!Policy, Policies
        <5>3. captured' \in [Instances -> Policies]
          BY <1>a, <4>1, <5>2 DEF EfficiencyTyped
        <5> QED
          BY <1>a, <1>c, <2>0, <3>1, <3>3, <4>1, <4>2, <5>1, <5>3
          DEF EfficiencyTyped, Enabling
      <4>5. TicksUnique'
        <5>1. policy_pc' # "idle" =>
                /\ call'.instance_id <= policy_born'
                /\ \A q \in PolicyPids : Runs(q, call.instance_id)' => q = call'.pid
                /\ \A s \in table' : s.instance_id = call'.instance_id => s.pid = call'.pid
                /\ \A s \in table' : s.pid = call'.pid /\ Runs(s.pid, s.instance_id)' =>
                      s.instance_id = call'.instance_id
          BY <1>a, <1>b, <2>0, <3>3, <4>1, <4>2 DEF TicksUnique, Runs
        <5>2. \A s \in table' :
                /\ s.instance_id <= policy_born'
                /\ \A t \in table' : t.instance_id = s.instance_id => t = s
                /\ \A q \in PolicyPids : Runs(q, s.instance_id)' => q = s.pid
          BY <1>a, <1>b, <2>0, <4>1, <4>2, <4>3 DEF TicksUnique, Runs
        <5> QED
          BY <1>a, <2>0, <3>3, <5>1, <5>2 DEF TicksUnique, Runs
      <4>6. EntriesCaptured'
        <5>1. \A s \in table : s.instance_id \in Instances
          BY <1>c DEF Entries
        <5>2. \A s \in table : captured'[s.instance_id] = captured[s.instance_id]
          BY <1>a, <4>1, <4>3, <5>1 DEF EfficiencyTyped
        <5>3. captured'[call.instance_id] = [nice |-> p.nice, ioprio |-> p.ioprio]
          BY <1>a, <1>c, <4>1 DEF EfficiencyTyped, Efficiency!Policy
        <5>4. ~call'.already
          BY <3>3, <3>7
        <5> QED
          BY <1>a, <1>c, <2>0, <3>1, <3>3, <4>1, <4>2, <5>2, <5>3, <5>4
          DEF EntriesCaptured, IoKept, Trying, Runs
      <4>7. OwedListed'
        <5>1. {s.instance_id : s \in table'} =
                {s.instance_id : s \in table} \cup {call.instance_id}
          BY <4>1, <4>2
        <5>2. {s.instance_id : s \in table} = owed
          BY <1>a, <2>0 DEF OwedListed, Made
        <5>3. call.instance_id \notin owed
          BY <4>3, <5>2
        <5>4. Made'
          BY <3>1, <3>3, <3>7 DEF Made
        <5> QED
          BY <3>1, <3>3, <5>1, <5>2, <5>3, <5>4 DEF OwedListed
      <4>8. CallKnows'
        BY <3>5, <4>1, <4>2, <4>3
      <4> QED
        BY <4>4, <4>5, <4>6, <4>7, <4>8 DEF EfficiencyInv
    <3> QED
      BY <3>6, <3>7
  <2> QED
    BY <2>1, <2>2
<1>2. CASE Efficiency!set_idle_io
  <2>1. PICK ok \in Efficiency!ioprio_set_outcomes(call.pid) :
          /\ proc' = IF ok THEN Efficiency!WithIo(call.pid, Efficiency!IdleIo) ELSE proc
          /\ call' = [call EXCEPT !.io_changed = ok]
          /\ table' = IF ok /\ ~call.already
                      THEN rest \cup {[s EXCEPT !.restore_ioprio = TRUE] : s \in found}
                      ELSE table
    BY <1>2 DEF Efficiency!set_idle_io, found, rest
  <2>2. /\ policy_pc = "io" /\ policy_pc' = "nice"
        /\ UNCHANGED <<policy_born, before, captured, owed, late>>
    BY <1>2 DEF Efficiency!set_idle_io
  <2>3. ok \in BOOLEAN
    BY <2>1 DEF Efficiency!ioprio_set_outcomes, Efficiency!setpriority_outcomes
  <2>4. /\ proc' \in [PolicyPids -> Processes]
        /\ \A q \in PolicyPids :
             /\ proc'[q].instance_id = proc[q].instance_id
             /\ proc'[q].nice = proc[q].nice
             /\ ~ok \/ q # call.pid => proc'[q].ioprio = proc[q].ioprio
    <3>1. CASE ok
      <4>1. proc' = Efficiency!WithIo(call.pid, Efficiency!IdleIo)
        BY <2>1, <3>1
      <4>2. Efficiency!IdleIo \in Ios
        BY DEF Ios
      <4> QED
        BY <1>a, <1>c, <2>3, <3>1, <4>1, <4>2, IoSet, ZenonT(40)
    <3>2. CASE ~ok
      BY <1>e, <2>1, <3>2
    <3> QED
      BY <2>3, <3>1, <3>2
  <2>5. /\ call' \in Calls
        /\ call'.pid = call.pid /\ call'.instance_id = call.instance_id
        /\ call'.enabled = call.enabled /\ call'.ioprio = call.ioprio
        /\ call'.already = call.already /\ call'.io_changed = ok
    BY <1>c, <2>1, <2>3 DEF Calls
  <2>6. CallKnows'
    <3>1. Runs(call.pid, call.instance_id) =>
            /\ Efficiency!Policy(proc[call.pid]) = before
            /\ proc[call.pid].nice = before.nice
            /\ proc[call.pid].ioprio = before.ioprio
            /\ call.ioprio = before.ioprio
      BY <1>a, <2>2 DEF CallKnows, Efficiency!Policy
    <3>2. Runs(call.pid, call.instance_id) =>
            \A s \in table' :
              s.instance_id = call.instance_id /\ ~s.restore_ioprio
              /\ s.instance_id \notin late => call.ioprio = s.original_ioprio
      <4>1. \A s \in table' : ~s.restore_ioprio => s \in table
        BY <1>c, <1>d, <2>1 DEF Entries
      <4> QED
        BY <1>a, <2>2, <4>1 DEF CallKnows
    <3> QED
      BY <1>c, <2>2, <2>3, <2>4, <2>5, <3>1, <3>2, ZenonT(40) DEF CallKnows, Runs
  <2>7. PICK mine \in table : mine.instance_id = call.instance_id
    BY <1>a, <2>2 DEF OwedListed
  <2>8. found = {mine}
    BY <1>a, <1>d, <2>7 DEF TicksUnique
  <2>9. CASE ok /\ ~call.already
    <3> DEFINE e == [mine EXCEPT !.restore_ioprio = TRUE]
    <3>1. table' = rest \cup {e}
      BY <2>1, <2>8, <2>9
    <3>2. /\ e \in Entries /\ e.pid = mine.pid
          /\ e.instance_id = mine.instance_id
          /\ e.original_nice = mine.original_nice
          /\ e.original_ioprio = mine.original_ioprio
          /\ e.restore_ioprio = TRUE
      BY <1>c, <2>7 DEF Entries
    <3> HIDE DEF e
    <3>3. mine.pid = call.pid
      BY <1>a, <2>2, <2>7 DEF TicksUnique
    <3>4. EfficiencyTyped'
      <4>1. /\ IsFiniteSet(rest) /\ Cardinality(rest) < Capacity
            /\ Cardinality(rest) \in Nat
        <5>1. /\ IsFiniteSet(table) /\ Cardinality(table) <= Capacity
              /\ mine \in table /\ rest = table \ {mine}
          BY <1>a, <1>d, <2>7 DEF EfficiencyTyped, TicksUnique
        <5>2. IsFiniteSet(rest) /\ Cardinality(rest) = Cardinality(table) - 1
          BY <5>1, FS_RemoveElement
        <5> QED
          BY <5>1, <5>2, FS_CardinalityType, PolicyConstants
      <4>2. e \notin rest
        BY <1>d, <2>7, <3>2
      <4>3. IsFiniteSet(table') /\ Cardinality(table') = Cardinality(rest) + 1
        BY <3>1, <4>1, <4>2, FS_AddElement
      <4>4. Cardinality(table') <= Capacity
        BY <4>1, <4>3, PolicyConstants
      <4>5. table' \subseteq Entries
        BY <1>c, <1>d, <3>1, <3>2
      <4> QED
        BY <1>a, <1>c, <2>2, <2>4, <2>5, <4>3, <4>4, <4>5
        DEF EfficiencyTyped, Enabling
    <3>5. TicksUnique'
      <4>1. \A s \in table' : \E t \in table :
              s.instance_id = t.instance_id /\ s.pid = t.pid
        BY <1>d, <3>1, <3>2, <2>7
      <4>2. \A s, t \in table' : s.instance_id = t.instance_id => s = t
        BY <1>a, <1>d, <2>7, <3>1, <3>2 DEF TicksUnique
      <4>3. /\ \A q \in PolicyPids : proc'[q].instance_id <= policy_born'
            /\ \A q, r \in PolicyPids :
                 Runs(q, proc[r].instance_id)' /\ ~Runs(q, 0)' => q = r
        BY <1>a, <2>2, <2>4 DEF TicksUnique, Runs
      <4>4. \A s \in table' :
              /\ s.instance_id <= policy_born'
              /\ \A q \in PolicyPids : Runs(q, s.instance_id)' => q = s.pid
              /\ s.instance_id = call.instance_id => s.pid = call.pid
              /\ s.pid = call.pid /\ Runs(s.pid, s.instance_id)' =>
                   s.instance_id = call.instance_id
        BY <1>a, <1>b, <1>c, <2>2, <2>4, <4>1 DEF TicksUnique, Runs
      <4>5. /\ call.instance_id <= policy_born'
            /\ \A q \in PolicyPids : Runs(q, call.instance_id)' => q = call.pid
        BY <1>a, <1>b, <2>2, <2>4, <2>5 DEF TicksUnique, Runs
      <4> QED
        BY <2>5, <4>2, <4>3, <4>4, <4>5 DEF TicksUnique, Runs
    <3>6. EntriesCaptured'
      <4>1. captured'[e.instance_id] = [nice |-> e.original_nice,
                                        ioprio |-> e.original_ioprio]
        BY <1>a, <2>2, <2>7, <3>2 DEF EntriesCaptured
      <4>2. ASSUME NEW s \in rest
            PROVE  /\ captured'[s.instance_id] = [nice |-> s.original_nice,
                                                  ioprio |-> s.original_ioprio]
                   /\ IoKept(s)'
        BY <1>a, <1>c, <1>d, <1>f, <1>g, <2>2, <2>4
        DEF EntriesCaptured, IoKept, Trying, Runs
      <4> QED
        BY <3>1, <3>2, <4>1, <4>2 DEF EntriesCaptured, IoKept
    <3>7. OwedListed'
      <4>1. {s.instance_id : s \in table'} = {s.instance_id : s \in table}
        BY <1>a, <1>d, <2>7, <3>1, <3>2 DEF TicksUnique
      <4> QED
        BY <1>a, <2>2, <2>5, <4>1 DEF OwedListed, Made
    <3> QED
      BY <2>6, <3>4, <3>5, <3>6, <3>7 DEF EfficiencyInv
  <2>10. CASE ~(ok /\ ~call.already)
    <3>1. table' = table
      BY <2>1, <2>10
    <3>2. EfficiencyTyped'
      BY <1>a, <1>c, <2>2, <2>4, <2>5, <3>1 DEF EfficiencyTyped, Enabling
    <3>3. TicksUnique'
      BY <1>a, <1>b, <1>c, <2>2, <2>4, <2>5, <3>1 DEF TicksUnique, Runs
    <3>4. EntriesCaptured'
      <4> SUFFICES ASSUME NEW s \in table
                   PROVE  /\ captured'[s.instance_id] =
                               [nice |-> s.original_nice, ioprio |-> s.original_ioprio]
                          /\ IoKept(s)' \/ Trying(s)'
        BY <3>1 DEF EntriesCaptured
      <4>1. /\ captured[s.instance_id] =
                 [nice |-> s.original_nice, ioprio |-> s.original_ioprio]
            /\ IoKept(s)
        BY <1>a, <1>f, <2>2 DEF EntriesCaptured, Trying
      <4>2. s.pid \in PolicyPids
        BY <1>c
      <4> QED
        BY <1>g, <2>2, <2>3, <2>4, <2>5, <2>10, <4>1, <4>2 DEF IoKept, Trying, Runs
    <3>5. OwedListed'
      BY <1>a, <2>2, <2>5, <3>1 DEF OwedListed, Made
    <3> QED
      BY <2>6, <3>2, <3>3, <3>4, <3>5 DEF EfficiencyInv
  <2> QED
    BY <2>9, <2>10
<1>3. CASE Efficiency!set_efficiency_nice
  <2>1. PICK ok \in Efficiency!setpriority_outcomes(call.pid),
             back \in Efficiency!ioprio_set_outcomes(call.pid) :
          /\ IF ok
             THEN /\ proc' = Efficiency!WithNice(call.pid, Efficiency!EfficiencyNice)
                  /\ Efficiency!Return(TRUE)
                  /\ UNCHANGED table
             ELSE /\ proc' = IF call.io_changed /\ back
                             THEN Efficiency!WithIo(call.pid, call.ioprio) ELSE proc
                  /\ table' = IF call.already THEN table ELSE rest
                  /\ Efficiency!Return(FALSE)
          /\ late' = IF Efficiency!ChangedLate /\ (ok \/ ~back)
                     THEN late \cup {call.instance_id} ELSE late
    BY <1>3 DEF Efficiency!set_efficiency_nice, rest
  <2>2. policy_pc = "nice" /\ UNCHANGED <<policy_born, captured>>
    BY <1>3 DEF Efficiency!set_efficiency_nice
  <2>3. call.enabled
    BY <1>c, <2>2 DEF Enabling
  <2>a. /\ late \subseteq late' /\ late' \subseteq Instances
        /\ late' = late \/ late' = late \cup {call.instance_id}
    BY <1>c, <1>e, <2>1
  <2>b. ASSUME NEW s \in table, Trying(s), ~s.restore_ioprio, ok \/ ~back
        PROVE  s.instance_id \in late'
    <3>1. s \in found /\ call.already /\ call.io_changed
              /\ s.instance_id = call.instance_id
      BY <1>d, <2>b DEF Trying
    <3>2. Efficiency!ChangedLate
      BY <2>b, <3>1 DEF Efficiency!ChangedLate, found
    <3> QED
      BY <2>1, <2>b, <3>1, <3>2
  <2>4. CASE ok
    <3>1. /\ policy_pc' = "idle" /\ call' = Efficiency!NoCall
          /\ before' = Efficiency!NoPolicy
          /\ owed' = owed \cup {call.instance_id}
          /\ UNCHANGED table
      BY <2>1, <2>3, <2>4 DEF Efficiency!Return
    <3>2. /\ proc' \in [PolicyPids -> Processes]
          /\ \A q \in PolicyPids :
               /\ proc'[q].instance_id = proc[q].instance_id
               /\ proc'[q].ioprio = proc[q].ioprio
      BY <1>a, <1>c, <2>1, <2>4, NiceSet DEF Nices
    <3>3. {s.instance_id : s \in table'} = owed'
      BY <1>a, <2>2, <3>1 DEF OwedListed, Made
    <3>4. owed' \subseteq Instances
      BY <1>c, <1>e, <3>1
    <3>5. \A s \in table' : IoKept(s)'
      BY <1>c, <1>f, <2>a, <2>b, <2>4, <3>1, <3>2 DEF IoKept, Runs
    <3>6. \A q \in PolicyPids : proc'[q].instance_id = proc[q].instance_id
      BY <3>2
    <3> QED
      BY <1>b, <2>2, <2>a, <3>1, <3>2, <3>3, <3>4, <3>5, <3>6, CallReturns
  <2>5. CASE ~ok
    <3>1. /\ policy_pc' = "idle" /\ call' = Efficiency!NoCall
          /\ before' = Efficiency!NoPolicy /\ owed' = owed
          /\ table' = IF call.already THEN table ELSE rest
          /\ proc' = IF call.io_changed /\ back
                     THEN Efficiency!WithIo(call.pid, call.ioprio) ELSE proc
      BY <2>1, <2>5 DEF Efficiency!Return
    <3>2. table' \subseteq table
      BY <1>d, <3>1
    <3>3. /\ proc' \in [PolicyPids -> Processes]
          /\ \A q \in PolicyPids :
               /\ proc'[q].instance_id = proc[q].instance_id
               /\ proc'[q].ioprio = IF q = call.pid /\ call.io_changed /\ back
                                    THEN call.ioprio ELSE proc[q].ioprio
      BY <1>a, <1>c, <1>e, <3>1, IoSet
    <3>4. {s.instance_id : s \in table'} = owed'
      BY <1>a, <1>d, <2>2, <3>1 DEF OwedListed, Made
    <3>5. ASSUME NEW s \in table' PROVE IoKept(s)'
      <4> SUFFICES ASSUME ~s.restore_ioprio, Runs(s.pid, s.instance_id)',
                          s.instance_id \notin late'
                   PROVE  proc'[s.pid].ioprio = s.original_ioprio
        BY DEF IoKept
      <4>1. /\ s \in table /\ s.pid \in PolicyPids /\ Runs(s.pid, s.instance_id)
            /\ s.instance_id \notin late
        BY <1>c, <2>a, <3>2, <3>3 DEF Runs
      <4>2. CASE s.pid = call.pid /\ call.io_changed /\ back
        <5>1. s.instance_id = call.instance_id
          BY <1>g, <4>1, <4>2
        <5>2. call.ioprio = s.original_ioprio
          BY <1>a, <2>2, <4>1, <4>2, <5>1 DEF CallKnows
        <5> QED
          BY <1>c, <3>3, <4>2, <5>2
      <4>3. CASE ~(s.pid = call.pid /\ call.io_changed /\ back)
        <5>1. proc'[s.pid].ioprio = proc[s.pid].ioprio
          BY <3>3, <4>1, <4>3
        <5>2. ~Trying(s)
          <6>1. Trying(s) => call.io_changed /\ s.pid = call.pid
            BY <1>a, <1>b, <4>1 DEF Trying, TicksUnique
          <6> QED
            BY <2>b, <4>1, <4>3, <6>1
        <5> QED
          BY <1>f, <4>1, <5>1, <5>2 DEF IoKept
      <4> QED
        BY <4>2, <4>3
    <3>6. \A q \in PolicyPids : proc'[q].instance_id = proc[q].instance_id
      BY <3>3
    <3> QED
      BY <1>b, <1>e, <2>2, <2>a, <3>1, <3>2, <3>3, <3>4, <3>5, <3>6, CallReturns
  <2> QED
    BY <2>4, <2>5
<1>4. CASE Efficiency!lookup
  <2> DEFINE saved == IF found = {}
                      THEN [Efficiency!Entry(0, Efficiency!DefaultIo)
                              EXCEPT !.restore_ioprio = TRUE]
                      ELSE CHOOSE s \in found : TRUE
  <2>1. /\ policy_pc = "lookup" /\ policy_pc' = "restore_io"
        /\ call' = [call EXCEPT !.nice = saved.original_nice,
                                !.ioprio = saved.original_ioprio,
                                !.restore_ioprio = saved.restore_ioprio]
        /\ UNCHANGED <<proc, policy_born, table, before, captured, owed, late>>
    BY <1>4 DEF Efficiency!lookup, found
  <2>2. saved \in Entries /\ (found # {} => saved \in found)
    <3>1. CASE found = {}
      BY <1>c, <3>1 DEF Efficiency!Entry, Entries, Nices, Ios
    <3>2. CASE found # {}
      BY <1>c, <1>d, <3>2
    <3> QED
      BY <3>1, <3>2
  <2> HIDE DEF saved
  <2>3. /\ call' \in Calls
        /\ call'.pid = call.pid /\ call'.instance_id = call.instance_id
        /\ call'.enabled = call.enabled
        /\ call'.nice = saved.original_nice
        /\ call'.ioprio = saved.original_ioprio
        /\ call'.restore_ioprio = saved.restore_ioprio
    BY <1>c, <2>1, <2>2 DEF Calls, Entries
  <2>4. EfficiencyTyped'
    BY <1>a, <1>c, <2>1, <2>3 DEF EfficiencyTyped, Enabling, Disabling
  <2>5. TicksUnique'
    BY <1>a, <1>b, <2>1, <2>3 DEF TicksUnique, Runs
  <2>6. EntriesCaptured'
    BY <1>a, <2>1 DEF EntriesCaptured, IoKept, Trying, Runs
  <2>7. OwedListed'
    BY <1>a, <2>1 DEF OwedListed, Made
  <2>8. CallKnows'
    <3>1. \A s \in table : s.instance_id = call.instance_id => s = saved
      BY <1>a, <1>d, <2>2 DEF TicksUnique
    <3> QED
      BY <2>1, <2>3, <3>1 DEF CallKnows
  <2> QED
    BY <2>4, <2>5, <2>6, <2>7, <2>8 DEF EfficiencyInv
<1>5. CASE Efficiency!restore_io
  <2>0. /\ policy_pc = "restore_io"
        /\ UNCHANGED <<policy_born, table, captured, late>>
    BY <1>5 DEF Efficiency!restore_io
  <2>a. \A s \in table : IoKept(s)
    BY <1>f, <2>0 DEF Trying
  <2>1. CASE /\ policy_pc' = "idle" /\ call' = Efficiency!NoCall
             /\ before' = Efficiency!NoPolicy /\ UNCHANGED <<proc, owed>>
    <3>1. {s.instance_id : s \in table'} = owed'
      BY <1>a, <2>0, <2>1 DEF OwedListed, Made
    <3>2. \A s \in table' : IoKept(s)'
      BY <2>0, <2>a, <2>1 DEF IoKept, Runs
    <3> QED
      BY <1>b, <1>e, <2>0, <2>1, <3>1, <3>2, CallReturns
  <2>2. CASE /\ policy_pc' = "restore_nice"
             /\ UNCHANGED <<call, before, owed>>
             /\ proc' = IF call.restore_ioprio
                        THEN Efficiency!WithIo(call.pid, call.ioprio) ELSE proc
    <3>1. /\ proc' \in [PolicyPids -> Processes]
          /\ \A q \in PolicyPids :
               /\ proc'[q].instance_id = proc[q].instance_id
               /\ proc'[q].ioprio = IF q = call.pid /\ call.restore_ioprio
                                    THEN call.ioprio ELSE proc[q].ioprio
      BY <1>a, <1>c, <1>e, <2>2, IoSet
    <3>2. EfficiencyTyped'
      BY <1>a, <1>c, <2>0, <2>2, <3>1 DEF EfficiencyTyped, Enabling, Disabling
    <3>3. TicksUnique'
      BY <1>a, <1>b, <1>c, <2>0, <2>2, <3>1 DEF TicksUnique, Runs
    <3>4. \A s \in table : s.instance_id = call.instance_id =>
            /\ call.nice = s.original_nice /\ call.ioprio = s.original_ioprio
            /\ call.restore_ioprio = s.restore_ioprio
            /\ s.pid = call.pid
      BY <1>a, <1>b, <2>0 DEF CallKnows, TicksUnique
    <3>5. \A s \in table : IoKept(s)'
      BY <1>c, <1>g, <2>0, <2>a, <3>1, <3>4 DEF IoKept, Runs
    <3>6. EntriesCaptured'
      BY <1>a, <2>0, <3>5 DEF EntriesCaptured
    <3>7. OwedListed'
      BY <1>a, <2>0, <2>2 DEF OwedListed, Made
    <3>8. CallKnows'
      BY <1>c, <2>0, <2>2, <3>1, <3>4, <3>5 DEF CallKnows, IoKept, Runs
    <3> QED
      BY <3>2, <3>3, <3>6, <3>7, <3>8 DEF EfficiencyInv
  <2> QED
    BY <1>5, <2>1, <2>2 DEF Efficiency!restore_io, Efficiency!Return
<1>6. CASE Efficiency!restore_nice
  <2>1. PICK ok \in Efficiency!setpriority_outcomes(call.pid) :
          /\ proc' = IF ok THEN Efficiency!WithNice(call.pid, call.nice) ELSE proc
          /\ table' = IF ok THEN rest ELSE table
          /\ late' = IF ok THEN late \ {call.instance_id} ELSE late
          /\ Efficiency!Return(ok)
    BY <1>6 DEF Efficiency!restore_nice, rest
  <2>2. policy_pc = "restore_nice" /\ UNCHANGED <<policy_born, captured>>
    BY <1>6 DEF Efficiency!restore_nice
  <2>3. /\ policy_pc' = "idle" /\ call' = Efficiency!NoCall
        /\ before' = Efficiency!NoPolicy
        /\ owed' = IF ok THEN owed \ {call.instance_id} ELSE owed
    BY <1>c, <2>1, <2>2 DEF Efficiency!Return, Enabling
  <2>4. /\ proc' \in [PolicyPids -> Processes]
        /\ \A q \in PolicyPids :
             /\ proc'[q].instance_id = proc[q].instance_id
             /\ proc'[q].ioprio = proc[q].ioprio
    BY <1>a, <1>c, <1>e, <2>1, NiceSet
  <2>5. {s.instance_id : s \in table'} = owed'
    BY <1>a, <1>d, <2>1, <2>2, <2>3 DEF OwedListed, Made
  <2>6. table' \subseteq table
    BY <1>d, <2>1
  <2>7. owed' \subseteq Instances
    BY <1>e, <2>3
  <2>8. \A s \in table' : IoKept(s)'
    <3>1. \A s \in table' : s \in table /\ (s.instance_id \notin late' => s.instance_id \notin late)
      BY <1>d, <2>1
    <3> QED
      BY <1>c, <1>f, <2>2, <2>4, <3>1 DEF IoKept, Trying, Runs
  <2>9. late' \subseteq Instances
    BY <1>e, <2>1
  <2> QED
    BY <1>b, <2>2, <2>3, <2>4, <2>5, <2>6, <2>7, <2>8, <2>9, CallReturns
<1> QED
    BY <1>1, <1>2, <1>3, <1>4, <1>5, <1>6

(* What the calls of a process's policy leave behind, for any number of     *)
(* processes that come and go and any capacity of the table.                *)
LEMMA EfficiencyStep ==
    EfficiencyInv /\ [Efficiency!Next]_policyVars => EfficiencyInv'
<1> SUFFICES ASSUME EfficiencyInv, [Efficiency!Next]_policyVars
             PROVE  EfficiencyInv'
    OBVIOUS
<1>1. CASE UNCHANGED policyVars
    BY <1>1
    DEF policyVars, EfficiencyInv, EfficiencyTyped, TicksUnique,
        EntriesCaptured, IoKept, Trying, OwedListed, Made, CallKnows, Runs
<1> QED
    BY <1>1, ExitKeeps, SpawnKeeps, IdleKeeps, CallKeeps
    DEF Efficiency!Next

(* A call that returns has told the truth.                                  *)
LEMMA EfficiencyReturns ==
    EfficiencyInv /\ [Efficiency!Next]_policyVars => Efficiency!ReturnHonest
<1> SUFFICES ASSUME EfficiencyInv, [Efficiency!Next]_policyVars,
                    Efficiency!Returns, Efficiency!StillThere
             PROVE  /\ ~call.enabled /\ policy_result'
                         /\ Efficiency!efficiency_restore_find # {} =>
                       /\ proc'[call.pid].nice = captured[call.instance_id].nice
                       /\ \/ proc'[call.pid].ioprio = captured[call.instance_id].ioprio
                          \/ call.instance_id \in late
                    /\ call.enabled /\ ~policy_result' =>
                       /\ proc'[call.pid].nice = before.nice
                       /\ proc'[call.pid].ioprio = before.ioprio \/ unreturned'
    BY DEF Efficiency!ReturnHonest, Efficiency!DisableRestores,
           Efficiency!FailedEnableLeavesPolicy
<1>a. EfficiencyTyped /\ TicksUnique /\ EntriesCaptured /\ CallKnows
    BY DEF EfficiencyInv
<1>b. policy_pc # "idle" /\ policy_pc' = "idle"
    BY DEF Efficiency!Returns
<1>c. /\ call.pid \in PolicyPids
      /\ call.enabled = (policy_pc \in Enabling)
      /\ call.nice \in Nices /\ call.ioprio \in Ios
      /\ call.instance_id # 0
    BY <1>a, <1>b, PolicyConstants DEF EfficiencyTyped, Calls, Instances
<1>d. proc'[call.pid].instance_id = call.instance_id
    BY DEF Efficiency!StillThere
<1>e. \/ Efficiency!capture \/ Efficiency!set_efficiency_nice
      \/ Efficiency!restore_io \/ Efficiency!restore_nice
    BY <1>b
    DEF Efficiency!Next, policyVars, Efficiency!Exit, Efficiency!Spawn,
        Efficiency!set_efficiency, Efficiency!set_nice, Efficiency!lookup,
        Efficiency!set_idle_io
<1>1. CASE Efficiency!capture
  <2>1. policy_pc = "capture" /\ proc' = proc
    BY <1>1 DEF Efficiency!capture
  <2>2. Efficiency!Policy(proc[call.pid]) = before
    BY <1>a, <1>d, <2>1 DEF CallKnows, Runs
  <2>3. proc[call.pid].nice = before.nice /\ proc[call.pid].ioprio = before.ioprio
    BY <2>2 DEF Efficiency!Policy
  <2> QED
    BY <1>c, <2>1, <2>3 DEF Enabling
<1>2. CASE Efficiency!set_efficiency_nice
  <2>1. PICK ok \in Efficiency!setpriority_outcomes(call.pid),
             back \in Efficiency!ioprio_set_outcomes(call.pid) :
          \/ ok /\ policy_result' = TRUE
          \/ /\ proc' = IF call.io_changed /\ back
                        THEN Efficiency!WithIo(call.pid, call.ioprio) ELSE proc
             /\ policy_result' = FALSE
             /\ unreturned' = (~ok /\ call.io_changed /\ ~back)
             /\ ~ok
    BY <1>2 DEF Efficiency!set_efficiency_nice, Efficiency!Return
  <2>2. policy_pc = "nice" /\ call.enabled
    BY <1>2, <1>c DEF Efficiency!set_efficiency_nice, Enabling
  <2>4. CASE policy_result' = FALSE
    <3>1. /\ proc' = IF call.io_changed /\ back
                     THEN Efficiency!WithIo(call.pid, call.ioprio) ELSE proc
          /\ call.io_changed /\ ~back => unreturned'
      BY <2>1, <2>4
    <3>2. /\ proc'[call.pid].instance_id = proc[call.pid].instance_id
          /\ proc'[call.pid].nice = proc[call.pid].nice
          /\ proc'[call.pid].ioprio =
               IF call.io_changed /\ back THEN call.ioprio ELSE proc[call.pid].ioprio
      BY <1>a, <1>c, <3>1, IoSet
    <3>3. Runs(call.pid, call.instance_id)
      BY <1>d, <3>2 DEF Runs
    <3>4. /\ call.ioprio = before.ioprio
          /\ proc[call.pid].nice = before.nice
          /\ ~call.io_changed => proc[call.pid].ioprio = before.ioprio
      BY <1>a, <2>2, <3>3 DEF CallKnows
    <3> QED
      BY <2>2, <3>1, <3>2, <3>4
  <2> QED
    BY <2>1, <2>2, <2>4
<1>3. CASE Efficiency!restore_io
  <2>1. policy_pc = "restore_io" /\ policy_result' = FALSE
    BY <1>3, <1>b DEF Efficiency!restore_io, Efficiency!Return
  <2> QED
    BY <1>c, <2>1 DEF Enabling
<1>4. CASE Efficiency!restore_nice
  <2>1. PICK ok \in Efficiency!setpriority_outcomes(call.pid) :
          /\ proc' = IF ok THEN Efficiency!WithNice(call.pid, call.nice) ELSE proc
          /\ policy_result' = ok
    BY <1>4 DEF Efficiency!restore_nice, Efficiency!Return
  <2>2. policy_pc = "restore_nice" /\ ~call.enabled
    BY <1>4, <1>c DEF Efficiency!restore_nice, Enabling
  <2>3. CASE policy_result' /\ Efficiency!efficiency_restore_find # {}
    <3>1. proc' = Efficiency!WithNice(call.pid, call.nice)
      BY <2>1, <2>3
    <3>2. /\ proc'[call.pid].instance_id = proc[call.pid].instance_id
          /\ proc'[call.pid].nice = call.nice
          /\ proc'[call.pid].ioprio = proc[call.pid].ioprio
      BY <1>a, <1>c, <3>1, NiceSet
    <3>3. PICK s \in table : s.instance_id = call.instance_id
      BY <2>3 DEF Efficiency!efficiency_restore_find
    <3>4. /\ call.nice = s.original_nice
          /\ proc[call.pid].ioprio = s.original_ioprio \/ s.instance_id \in late
      BY <1>a, <1>d, <2>2, <3>2, <3>3 DEF CallKnows, Runs
    <3>5. captured[s.instance_id] = [nice |-> s.original_nice,
                                     ioprio |-> s.original_ioprio]
      BY <1>a DEF EntriesCaptured
    <3> QED
      BY <2>2, <3>2, <3>3, <3>4, <3>5
  <2> QED
    BY <2>2, <2>3
<1> QED
    BY <1>1, <1>2, <1>3, <1>4, <1>e

(* The steps of the other studies leave the policies alone.                 *)
LEMMA EfficiencyNext == [Next]_vars => [Efficiency!Next]_policyVars
  BY DEF Next, vars, Control, Policy, Pick, Inspect

(* The restore table remembers exactly the processes whose efficiency mode  *)
(* was enabled and not disabled since, once each and never more than fit;   *)
(* a disable that reports success has brought back what was captured, and   *)
(* an enable that reports failure has changed nothing, whichever system     *)
(* calls are refused, at each call anew, and however processes exit and     *)
(* PIDs are reused between them (lsm_process_set_efficiency).  The two      *)
(* exceptions about the I/O priority are those of EfficiencyHonest.         *)
THEOREM EfficiencyIsHonest == Spec => EfficiencyHonest
<1>1. Init => EfficiencyInv
  <2> SUFFICES ASSUME Init PROVE EfficiencyInv
    OBVIOUS
  <2>1. IsFiniteSet({}) /\ Cardinality({}) = 0
    BY FS_EmptySet
  <2>2. captured \in [Instances -> Policies]
    BY PolicyConstants DEF Init, Efficiency!Init, Instances
  <2>3. EfficiencyTyped
    BY <2>1, <2>2, PolicyConstants DEF Init, Efficiency!Init, EfficiencyTyped
  <2> QED
    BY <2>3, PolicyConstants
    DEF Init, Efficiency!Init, EfficiencyInv, TicksUnique, EntriesCaptured,
        OwedListed, Made, CallKnows, Runs, Efficiency!NoProcess
<1>2. EfficiencyInv /\ [Next]_vars => EfficiencyInv'
    BY EfficiencyStep, EfficiencyNext
<1>3. EfficiencyInv =>
        (study = "efficiency" => Efficiency!TypeOK /\ Efficiency!OwedRemembered)
  <2> SUFFICES ASSUME EfficiencyInv
               PROVE  Efficiency!TypeOK /\ Efficiency!OwedRemembered
    OBVIOUS
  <2>1. Efficiency!TypeOK
    BY PolicyCardinality
    DEF EfficiencyInv, EfficiencyTyped, TicksUnique, Efficiency!TypeOK,
        Enabling, Disabling, Processes, Instances
  <2>2. Efficiency!OwedRemembered
    BY DEF EfficiencyInv, OwedListed, Made, Efficiency!OwedRemembered
  <2> QED
    BY <2>1, <2>2
<1>4. EfficiencyInv /\ [Next]_vars => [Efficiency!ReturnHonest]_vars
    BY EfficiencyReturns, EfficiencyNext
<1> QED
    BY <1>1, <1>2, <1>3, <1>4, PTL DEF Spec, EfficiencyHonest

-----------------------------------------------------------------------------
(* Signals.                                                                 *)

TreeInstances == 1 .. MaxTreeInstance
Items == [pid : TreePids, ppid : TreePids \cup {1}, instance_id : TreeInstances]
Targets == [pid : TreePids, instance_id : TreeInstances]
Deliveries == [meant : Targets, hit : TreeInstances]

SignalsTyped ==
    /\ Signals!TypeOK
    /\ root \in TreePids /\ supported \in BOOLEAN
    /\ whole \in BOOLEAN /\ result \in BOOLEAN
    /\ born \in TreeInstances /\ next_pid \in Nat
    /\ items \subseteq Items /\ IsFiniteSet(items)
    /\ targets \in Seq(Targets) /\ sent \in Seq(Deliveries)
    /\ pc \in {"open", "recheck", "send"} => supported
    /\ pc \in {"fallback", "kill"} => ~supported
    /\ pc \in {"idle", "enumerate"} => sent = <<>>

(* Start ticks are never given out again, /proc is read once from the       *)
(* lowest PID to the highest, and the root is a child of init.              *)
ItemsRecorded ==
    /\ \A p \in TreePids : instance[p] <= born
    /\ \A i \in items : i.instance_id <= born
    /\ \A k \in DOMAIN targets : targets[k].instance_id <= born
    /\ \A i \in items : pc = "enumerate" => i.pid < next_pid
    /\ \A i, j \in items : i.pid = j.pid => i = j
    /\ pc = "idle" => items = {}
    /\ instance[root] = Signals!RootInstance => parent[root] = 1
    /\ \A i \in items : Signals!TargetOf(i) = Signals!RootTarget => i.ppid = 1

(* One target may come before another: it is not the root, nor recorded as  *)
(* its parent.                                                              *)
MayPrecede(a, b) ==
    /\ a # Signals!RootTarget
    /\ \A i \in items : Signals!TargetOf(i) = b => i.ppid # a.pid

(* What was signalled, and what is still to be, are in that order.          *)
TargetsOrdered ==
    /\ \A j, k \in DOMAIN sent : j < k => MayPrecede(sent[j].meant, sent[k].meant)
    /\ \A j \in DOMAIN sent, k \in DOMAIN targets :
          MayPrecede(sent[j].meant, targets[k])
    /\ \A j, k \in DOMAIN targets : j < k => MayPrecede(targets[j], targets[k])

(* A descriptor that passed the second check is the target's: whatever had  *)
(* the PID when it was opened, if that was another process the target is    *)
(* gone for good.                                                           *)
DescriptorMeant ==
    /\ Signals!SignalHitsMeant
    /\ pc = "recheck" /\ instance[targets[1].pid] = targets[1].instance_id =>
          pidfd = targets[1].instance_id
    /\ pc = "send" => pidfd = targets[1].instance_id

(* The processes the call set out to signal.                                *)
Meant ==
    (IF whole THEN {Signals!TargetOf(d) : d \in Signals!Descendants} ELSE {})
        \cup {Signals!RootTarget}

(* As long as the call can still report success, none of them was lost.     *)
TargetsAccounted ==
    pc \notin {"idle", "enumerate"} /\ result =>
        \A t \in Meant : /\ t.instance_id <= born
                         /\ \/ \E k \in DOMAIN targets : targets[k] = t
                            \/ \E k \in DOMAIN sent : sent[k].meant = t
                            \/ instance[t.pid] # t.instance_id

SignalsInv ==
    /\ SignalsTyped
    /\ ItemsRecorded
    /\ TargetsOrdered
    /\ DescriptorMeant
    /\ TargetsAccounted

(* What the assumption says of the constants of the signals.                *)
LEMMA TreeConstants ==
    /\ MaxTreeInstance \in Nat \ {0}
    /\ TreePids \subseteq Nat /\ 0 \notin TreePids /\ 1 \notin TreePids
    /\ Roots \subseteq TreePids
  BY ActionsAssumption DEF Signals!ControlAssumption

(* The module's sets are counted as here.                                   *)
LEMMA TreeCardinality == \A S : Signals!Cardinality(S) = Cardinality(S)
  BY DEF Signals!Cardinality, Cardinality, Signals!IsFiniteSet, IsFiniteSet

(* There is a least number in any set of numbers.                           *)
LEMMA LeastOf ==
    ASSUME NEW S \in SUBSET Nat, S # {}
    PROVE  \E n \in S : \A m \in S : n <= m
<1> DEFINE Less == {ss \in Nat \X Nat : ss[1] < ss[2]}
<1>1. IsWellFoundedOn(Less, Nat)
    BY NatLessThanWellFounded DEF OpToRel
<1> HIDE DEF Less
<1>2. PICK n \in S : \A m \in S : ~(<<m, n>> \in Less)
    BY <1>1, WFMin
<1>3. ASSUME NEW m \in S, ~(n <= m) PROVE FALSE
  <2>1. m \in Nat /\ n \in Nat /\ m < n
    BY <1>3
  <2>2. <<m, n>> \in Less
    BY <2>1 DEF Less
  <2> QED
    BY <1>2, <2>2
<1> QED
    BY <1>3

(* The depth of a descendant is the fewest steps that lead to the root.     *)
LEMMA DepthsNatural ==
    ASSUME SignalsTyped, NEW d \in Signals!Descendants
    PROVE  LET N == Signals!Cardinality(items)
               Steps == {n \in 1 .. N : Signals!ReachesRoot(d.pid, n)}
           IN  /\ N \in Nat /\ d \in items /\ d.pid # root
               /\ Signals!process_depth(d.pid) \in Nat
               /\ Signals!process_depth(d.pid) \in Steps
               /\ \A m \in Steps : Signals!process_depth(d.pid) <= m
<1> DEFINE N == Signals!Cardinality(items)
           Steps == {n \in 1 .. N : Signals!ReachesRoot(d.pid, n)}
<1>1. N \in Nat
    BY FS_CardinalityType, TreeCardinality DEF SignalsTyped
<1>2. d \in items /\ Signals!process_depth(d.pid) > 0
    BY DEF Signals!Descendants
<1>3. Signals!process_depth(d.pid) =
         IF d.pid = root \/ Steps = {} THEN 0
         ELSE CHOOSE n \in Steps : \A m \in Steps : n <= m
    BY DEF Signals!process_depth
<1>4. Steps \in SUBSET Nat
    BY <1>1
<1> HIDE DEF Steps
<1>5. d.pid # root /\ Steps # {}
    BY <1>2, <1>3
<1>6. \E n \in Steps : \A m \in Steps : n <= m
    BY <1>4, <1>5, LeastOf
<1>7. /\ Signals!process_depth(d.pid) \in Steps
      /\ \A m \in Steps : Signals!process_depth(d.pid) <= m
    BY <1>3, <1>5, <1>6
<1> QED
    BY <1>1, <1>2, <1>4, <1>5, <1>7 DEF Steps

(* The depth of a process is that of its recorded parent and more: the      *)
(* parent's way to the root is what is left of the process's own.           *)
LEMMA ParentsLessDeep ==
    ASSUME SignalsTyped, ItemsRecorded,
           NEW i \in Signals!Descendants, NEW j \in Signals!Descendants,
           i.ppid = j.pid
    PROVE  Signals!process_depth(i.pid) > Signals!process_depth(j.pid)
<1> DEFINE N == Signals!Cardinality(items)
           Steps(pid) == {n \in 1 .. N : Signals!ReachesRoot(pid, n)}
<1>0. N \in Nat
    BY DepthsNatural
<1>1. ASSUME NEW d \in Signals!Descendants
      PROVE  /\ d \in items /\ d.pid # root
             /\ Signals!process_depth(d.pid) \in Steps(d.pid)
             /\ \A m \in Steps(d.pid) : Signals!process_depth(d.pid) <= m
    BY DepthsNatural
<1> DEFINE n == Signals!process_depth(i.pid)
<1>2. n \in 1 .. N /\ Signals!ReachesRoot(i.pid, n)
    BY <1>1
<1>3. /\ \A m \in Steps(j.pid) : Signals!process_depth(j.pid) <= m
      /\ Signals!process_depth(j.pid) \in 1 .. N
      /\ j.pid # root /\ j \in items /\ i \in items
    BY <1>1
<1> HIDE DEF n, N
<1>4. PICK chain \in [1 .. n -> items] :
        /\ chain[1] \in Signals!find_pid_parent(i.pid)
        /\ \A k \in 1 .. n - 1 :
              chain[k + 1] \in Signals!find_pid_parent(chain[k].ppid)
        /\ chain[n].ppid = root
    BY <1>2 DEF Signals!ReachesRoot
<1>5. chain[1] = i
    BY <1>0, <1>2, <1>3, <1>4 DEF Signals!find_pid_parent, ItemsRecorded
<1>6. n > 1
    BY <1>0, <1>2, <1>3, <1>4, <1>5
<1>7. Signals!ReachesRoot(j.pid, n - 1)
  <2> DEFINE rest == [k \in 1 .. n - 1 |-> chain[k + 1]]
  <2>0. n \in Nat /\ n > 1
    BY <1>0, <1>2, <1>6
  <2>1. /\ rest \in [1 .. n - 1 -> items]
        /\ \A k \in 1 .. n - 1 : rest[k] = chain[k + 1]
    BY <2>0
  <2>2. rest[1] \in Signals!find_pid_parent(j.pid)
    BY <1>4, <1>5, <2>0, <2>1
  <2>3. \A k \in 1 .. (n - 1) - 1 :
           rest[k + 1] \in Signals!find_pid_parent(rest[k].ppid)
    BY <1>4, <2>0, <2>1
  <2>4. rest[n - 1].ppid = root
    BY <1>4, <2>0, <2>1
  <2> HIDE DEF rest
  <2> QED
    BY <2>1, <2>2, <2>3, <2>4 DEF Signals!ReachesRoot
<1>8. n - 1 \in Steps(j.pid)
    BY <1>0, <1>2, <1>6, <1>7
<1> QED
    BY <1>0, <1>2, <1>3, <1>8 DEF n

(* What is known of the targets while one of them is being signalled.       *)
Signalling == {"check", "open", "recheck", "send", "fallback", "kill"}

(* While targets are signalled there is a first one, and a rest.            *)
LEMMA TargetsWait ==
    ASSUME SignalsTyped, pc \in Signalling
    PROVE  /\ Len(targets) \in Nat \ {0} /\ DOMAIN targets = 1 .. Len(targets)
           /\ Signals!Target = targets[1] /\ targets[1] \in Targets
           /\ targets[1].pid \in TreePids
           /\ targets[1].instance_id \in TreeInstances
           /\ Tail(targets) \in Seq(Targets)
           /\ Len(Tail(targets)) = Len(targets) - 1
           /\ DOMAIN Tail(targets) = 1 .. Len(targets) - 1
           /\ \A k \in 1 .. Len(targets) - 1 : Tail(targets)[k] = targets[k + 1]
           /\ Tail(targets) = <<>> <=> Len(targets) = 1
<1>1. targets \in Seq(Targets) /\ targets # <<>>
    BY DEF SignalsTyped, Signals!TypeOK, Signalling
<1>2. targets[1] \in Targets /\ Signals!Target = targets[1]
    BY <1>1 DEF Signals!Target
<1>3. targets[1].pid \in TreePids /\ targets[1].instance_id \in TreeInstances
    BY <1>2 DEF Targets
<1>4. Len(targets) \in Nat \ {0} /\ DOMAIN targets = 1 .. Len(targets)
    BY <1>1
<1>5. /\ Tail(targets) \in Seq(Targets)
      /\ Len(Tail(targets)) = Len(targets) - 1
      /\ \A k \in 1 .. Len(targets) - 1 : Tail(targets)[k] = targets[k + 1]
    BY <1>1, <1>4
<1>6. /\ DOMAIN Tail(targets) = 1 .. Len(targets) - 1
      /\ Tail(targets) = <<>> <=> Len(Tail(targets)) = 0
  <2> DEFINE rest == Tail(targets)
  <2>1. rest \in Seq(Targets) /\ Len(rest) = Len(targets) - 1
    BY <1>5
  <2> HIDE DEF rest
  <2>2. DOMAIN rest = 1 .. Len(targets) - 1
    BY <2>1
  <2>3. rest = <<>> <=> Len(rest) = 0
    BY <2>1, SMTT(30)
  <2> QED
    BY <2>2, <2>3 DEF rest
<1> QED
    BY <1>2, <1>3, <1>4, <1>5, <1>6

(* A target is done with: it was signalled, it is gone, or the call will    *)
(* report a failure.                                                        *)
LEMMA FinishKeeps ==
    ASSUME SignalsInv, pc \in Signalling,
           NEW ok \in BOOLEAN, NEW gone \in BOOLEAN, Signals!Finish(ok, gone),
           UNCHANGED <<root, supported, instance, parent, born, whole, items,
                       next_pid>>,
           \/ sent' = sent /\ ~ok
           \/ \E h \in TreeInstances :
                /\ sent' = Append(sent, [meant |-> targets[1], hit |-> h])
                /\ supported => h = targets[1].instance_id,
           gone => instance[targets[1].pid] # targets[1].instance_id
    PROVE  SignalsInv'
<1>a. /\ SignalsTyped /\ ItemsRecorded /\ TargetsOrdered
      /\ DescriptorMeant /\ TargetsAccounted
    BY DEF SignalsInv
<1>b. /\ result' = (result /\ (ok \/ (gone /\ whole)))
      /\ targets' = Tail(targets) /\ pidfd' = 0
      /\ pc' = IF Len(targets) = 1 THEN "done" ELSE "check"
    BY DEF Signals!Finish
<1>c. /\ Len(targets) \in Nat \ {0} /\ DOMAIN targets = 1 .. Len(targets)
      /\ targets[1] \in Targets
      /\ targets' \in Seq(Targets)
      /\ DOMAIN targets' = 1 .. Len(targets) - 1
      /\ \A k \in 1 .. Len(targets) - 1 : targets'[k] = targets[k + 1]
      /\ targets' = <<>> <=> Len(targets) = 1
    BY <1>a, <1>b, TargetsWait
<1>d. /\ sent' \in Seq(Deliveries)
      /\ Len(sent) \in Nat /\ DOMAIN sent = 1 .. Len(sent)
      /\ \A k \in DOMAIN sent : k \in DOMAIN sent' /\ sent'[k] = sent[k]
      /\ \A k \in DOMAIN sent' : k \in DOMAIN sent
           \/ /\ k = Len(sent) + 1 /\ sent'[k].meant = targets[1]
              /\ supported => sent'[k].hit = targets[1].instance_id
      /\ ok => \E k \in DOMAIN sent' : sent'[k].meant = targets[1]
  <2>1. sent \in Seq(Deliveries)
    BY <1>a DEF SignalsTyped
  <2>2. CASE sent' = sent /\ ~ok
    BY <2>1, <2>2
  <2>3. CASE ~(sent' = sent /\ ~ok)
    <3>0. PICK h \in TreeInstances :
            /\ sent' = Append(sent, [meant |-> targets[1], hit |-> h])
            /\ supported => h = targets[1].instance_id
      BY <2>3
    <3> DEFINE e == [meant |-> targets[1], hit |-> h]
    <3>1. e \in Deliveries /\ e.meant = targets[1] /\ e.hit = h
      BY <1>c DEF Deliveries
    <3>2. sent' = Append(sent, e)
      BY <3>0
    <3> HIDE DEF e
    <3>3. /\ sent' \in Seq(Deliveries)
          /\ Len(sent) \in Nat /\ DOMAIN sent = 1 .. Len(sent)
          /\ DOMAIN sent' = 1 .. Len(sent) + 1
          /\ \A k \in 1 .. Len(sent) : sent'[k] = sent[k]
          /\ sent'[Len(sent) + 1] = e
      BY <2>1, <3>1, <3>2
    <3>4. /\ sent'[Len(sent) + 1].meant = targets[1]
          /\ supported => sent'[Len(sent) + 1].hit = targets[1].instance_id
      BY <3>0, <3>1, <3>3
    <3>5. \A k \in DOMAIN sent' : k \in DOMAIN sent \/ k = Len(sent) + 1
      BY <3>3
    <3>6. /\ \A k \in DOMAIN sent : k \in DOMAIN sent'
          /\ Len(sent) + 1 \in DOMAIN sent'
      BY <3>3
    <3> QED
      BY <3>3, <3>4, <3>5, <3>6
  <2> QED
    BY <2>2, <2>3
<1>1. SignalsTyped'
  <2>1. /\ pc' \in {"done", "check"}
        /\ pc' = "done" <=> targets' = <<>>
    BY <1>b, <1>c
  <2>2. result' \in BOOLEAN
    BY <1>b
  <2> QED
    BY <1>a, <1>b, <1>c, <1>d, <2>1, <2>2, TreeConstants, SMTT(30)
    DEF SignalsTyped, Signals!TypeOK
<1>2. ItemsRecorded'
  <2>1. \A k \in DOMAIN targets' : targets'[k].instance_id <= born
    BY <1>a, <1>c DEF ItemsRecorded
  <2> QED
    BY <1>a, <1>b, <2>1
    DEF ItemsRecorded, Signals!RootTarget, Signals!TargetOf
<1>3. TargetsOrdered'
  <2>0. ASSUME NEW a, NEW b PROVE MayPrecede(a, b)' = MayPrecede(a, b)
    BY DEF MayPrecede, Signals!RootTarget, Signals!TargetOf
  <2>1. ASSUME NEW j \in DOMAIN sent', NEW k \in DOMAIN sent', j < k
        PROVE  MayPrecede(sent'[j].meant, sent'[k].meant)
    <3>1. j \in DOMAIN sent /\ sent'[j] = sent[j]
      BY <1>d, <2>1
    <3>2. CASE k \in DOMAIN sent
      BY <1>a, <1>d, <2>1, <3>1, <3>2 DEF TargetsOrdered
    <3>3. CASE sent'[k].meant = targets[1]
      BY <1>a, <1>c, <3>1, <3>3 DEF TargetsOrdered
    <3> QED
      BY <1>d, <3>2, <3>3
  <2>2. ASSUME NEW j \in DOMAIN sent', NEW k \in DOMAIN targets'
        PROVE  MayPrecede(sent'[j].meant, targets'[k])
    <3>1. /\ k + 1 \in DOMAIN targets /\ targets'[k] = targets[k + 1]
          /\ 1 \in DOMAIN targets /\ 1 < k + 1
      BY <1>c
    <3>2. CASE j \in DOMAIN sent
      BY <1>a, <1>d, <3>1, <3>2 DEF TargetsOrdered
    <3>3. CASE sent'[j].meant = targets[1]
      BY <1>a, <3>1, <3>3 DEF TargetsOrdered
    <3> QED
      BY <1>d, <3>2, <3>3
  <2>3. ASSUME NEW j \in DOMAIN targets', NEW k \in DOMAIN targets', j < k
        PROVE  MayPrecede(targets'[j], targets'[k])
    BY <1>a, <1>c, <2>3, SMTT(30) DEF TargetsOrdered
  <2> QED
    BY <2>0, <2>1, <2>2, <2>3 DEF TargetsOrdered
<1>4. DescriptorMeant'
  <2>1. Signals!SignalHitsMeant'
    BY <1>a, <1>d DEF DescriptorMeant, Signals!SignalHitsMeant
  <2> QED
    BY <1>b, <2>1 DEF DescriptorMeant
<1>5. TargetsAccounted'
  <2> SUFFICES ASSUME result', NEW t \in Meant'
               PROVE  /\ t.instance_id <= born
                      /\ \/ \E k \in DOMAIN targets' : targets'[k] = t
                         \/ \E k \in DOMAIN sent' : sent'[k].meant = t
                         \/ instance[t.pid] # t.instance_id
    BY DEF TargetsAccounted
  <2>1. Meant' = Meant
    BY DEF Meant, Signals!RootTarget, Signals!TargetOf, Signals!Descendants,
           Signals!process_depth, Signals!ReachesRoot, Signals!find_pid_parent
  <2>2. result /\ (ok \/ gone) /\ pc \notin {"idle", "enumerate"}
    BY <1>b DEF Signalling
  <2>3. /\ t.instance_id <= born
        /\ \/ \E k \in DOMAIN targets : targets[k] = t
           \/ \E k \in DOMAIN sent : sent[k].meant = t
           \/ instance[t.pid] # t.instance_id
    BY <1>a, <2>1, <2>2 DEF TargetsAccounted
  <2>4. ASSUME NEW k \in DOMAIN targets, targets[k] = t
        PROVE  \/ \E l \in DOMAIN targets' : targets'[l] = t
               \/ \E l \in DOMAIN sent' : sent'[l].meant = t
               \/ instance[t.pid] # t.instance_id
    <3>1. CASE k = 1
      BY <1>d, <2>2, <2>4, <3>1
    <3>2. CASE k # 1
      <4>1. k - 1 \in DOMAIN targets' /\ targets'[k - 1] = targets[k]
        BY <1>c, <3>2
      <4> QED
        BY <2>4, <4>1
    <3> QED
      BY <3>1, <3>2
  <2> QED
    BY <1>d, <2>3, <2>4
<1> QED
    BY <1>1, <1>2, <1>3, <1>4, <1>5 DEF SignalsInv

(* What is meant does not change once the processes are listed.             *)
LEMMA MeantKept ==
    ASSUME UNCHANGED <<root, items, whole>>
    PROVE  /\ Meant' = Meant /\ Signals!RootTarget' = Signals!RootTarget
           /\ \A a, b : MayPrecede(a, b)' = MayPrecede(a, b)
  BY DEF Meant, MayPrecede, Signals!RootTarget, Signals!TargetOf,
         Signals!Descendants, Signals!process_depth, Signals!ReachesRoot,
         Signals!find_pid_parent

(* Processes exit and are started, under any free PID, at any moment.       *)
LEMMA KernelKeeps ==
    ASSUME SignalsInv, NEW pid \in TreePids,
           \/ Signals!Exit(pid)
           \/ \E by \in TreePids \cup {1} : Signals!Fork(by, pid)
    PROVE  SignalsInv'
<1>a. /\ SignalsTyped /\ ItemsRecorded /\ TargetsOrdered
      /\ DescriptorMeant /\ TargetsAccounted
    BY DEF SignalsInv
<1>b. UNCHANGED <<root, supported, pc, whole, items, next_pid, targets, pidfd,
                  sent, result>>
    BY DEF Signals!Exit, Signals!Fork, Signals!locals
<1>c. /\ instance' \in [TreePids -> 0 .. MaxTreeInstance]
      /\ parent' \in [TreePids -> TreePids \cup {1}]
      /\ born' \in TreeInstances /\ born <= born'
      /\ \A p \in TreePids \ {pid} : instance'[p] = instance[p]
      /\ instance'[pid] = 0 \/ (instance'[pid] = born + 1 /\ born' = born + 1)
      /\ root # pid /\ parent[root] = 1 => parent'[root] = 1
  <2>1. /\ instance \in [TreePids -> 0 .. MaxTreeInstance]
        /\ parent \in [TreePids -> TreePids \cup {1}]
        /\ born \in TreeInstances /\ root \in TreePids
    BY <1>a DEF SignalsTyped, Signals!TypeOK
  <2>2. CASE Signals!Exit(pid)
    BY <2>1, <2>2, TreeConstants DEF Signals!Exit, TreeInstances
  <2>3. ASSUME NEW by \in TreePids \cup {1}, Signals!Fork(by, pid)
        PROVE  /\ instance' \in [TreePids -> 0 .. MaxTreeInstance]
               /\ parent' \in [TreePids -> TreePids \cup {1}]
               /\ born' \in TreeInstances /\ born <= born'
               /\ \A p \in TreePids \ {pid} : instance'[p] = instance[p]
               /\ instance'[pid] = born + 1 /\ born' = born + 1
               /\ root # pid /\ parent[root] = 1 => parent'[root] = 1
    <3>1. born + 1 \in TreeInstances /\ born + 1 \in 0 .. MaxTreeInstance
      BY <2>1, <2>3, TreeConstants DEF Signals!Fork, TreeInstances
    <3> QED
      BY <2>1, <2>3, <3>1, TreeConstants DEF Signals!Fork, TreeInstances
  <2> QED
    BY <2>2, <2>3
<1>d. /\ born \in Nat \ {0} /\ born' \in Nat
      /\ \A t : t \in Nat /\ t <= born => t <= born'
    BY <1>a, <1>c DEF SignalsTyped, TreeInstances
<1>e. ASSUME NEW p \in TreePids, NEW t \in Nat \ {0}, t <= born,
             instance[p] # t
      PROVE  instance'[p] # t
    BY <1>c, <1>d, <1>e
<1>1. SignalsTyped'
    BY <1>a, <1>b, <1>c DEF SignalsTyped, Signals!TypeOK
<1>2. ItemsRecorded'
  <2>1. \A p \in TreePids : instance'[p] <= born'
    <3>1. \A p \in TreePids : instance[p] <= born /\ instance[p] \in Nat
      <4>1. \A p \in TreePids : instance[p] <= born
        BY <1>a DEF ItemsRecorded
      <4>2. \A p \in TreePids : instance[p] \in 0 .. MaxTreeInstance
        BY <1>a DEF SignalsTyped, Signals!TypeOK
      <4>3. MaxTreeInstance \in Nat
        BY TreeConstants
      <4>4. ASSUME NEW p \in TreePids PROVE instance[p] \in Nat
        <5>1. 0 .. MaxTreeInstance \subseteq Nat
          BY <4>3
        <5> QED
          BY <4>2, <5>1
      <4> QED
        BY <4>1, <4>4
    <3> QED
      BY <1>c, <1>d, <3>1
  <2>2. \A i \in items : i.instance_id \in Nat
    BY <1>a, TreeConstants DEF SignalsTyped, Items, TreeInstances
  <2>3. \A k \in DOMAIN targets : targets[k].instance_id \in Nat
    <3>1. \A k \in DOMAIN targets : targets[k] \in Targets
      BY <1>a DEF SignalsTyped
    <3> QED
      BY <3>1, TreeConstants DEF Targets, TreeInstances
  <2>4. \A i \in items' : i.instance_id <= born'
    BY <1>a, <1>b, <1>d, <2>2 DEF ItemsRecorded
  <2>5. \A k \in DOMAIN targets' : targets'[k].instance_id <= born'
    BY <1>a, <1>b, <1>d, <2>3 DEF ItemsRecorded
  <2>6. instance'[root] = Signals!RootInstance => parent'[root] = 1
    <3>1. root \in TreePids
      BY <1>a DEF SignalsTyped
    <3> QED
      BY <1>a, <1>c, <1>d, <3>1 DEF ItemsRecorded, Signals!RootInstance
  <2> QED
    BY <1>a, <1>b, <2>1, <2>4, <2>5, <2>6, MeantKept
    DEF ItemsRecorded, Signals!TargetOf, Signals!RootInstance
<1>3. TargetsOrdered'
    BY <1>a, <1>b, MeantKept DEF TargetsOrdered
<1>4. DescriptorMeant'
  <2>1. CASE pc = "recheck"
    <3>1. /\ targets[1].pid \in TreePids /\ targets[1].instance_id \in Nat \ {0}
          /\ targets[1].instance_id <= born
      BY <1>a, <2>1, TargetsWait
      DEF Signalling, ItemsRecorded, TreeInstances
    <3> QED
      BY <1>a, <1>b, <1>e, <2>1, <3>1
      DEF DescriptorMeant, Signals!SignalHitsMeant
  <2>2. CASE pc # "recheck"
    BY <1>a, <1>b, <2>2 DEF DescriptorMeant, Signals!SignalHitsMeant
  <2> QED
    BY <2>1, <2>2
<1>5. TargetsAccounted'
  <2>1. \A t \in Meant : t.pid \in TreePids /\ t.instance_id \in Nat \ {0}
    BY <1>a, TreeConstants
    DEF Meant, SignalsTyped, Items, TreeInstances, Signals!Descendants,
        Signals!TargetOf, Signals!RootTarget, Signals!RootInstance
  <2> QED
    BY <1>a, <1>b, <1>d, <1>e, <2>1, MeantKept DEF TargetsAccounted
<1> QED
    BY <1>1, <1>2, <1>3, <1>4, <1>5 DEF SignalsInv

(* The first steps of a call: nothing is signalled yet.                     *)
LEMMA ListingKeeps ==
    ASSUME SignalsInv,
           \/ Signals!control_tree \/ Signals!enumeration_fails
           \/ Signals!control_one
           \/ \E pid \in TreePids : Signals!read_pid_parent(pid)
    PROVE  SignalsInv'
<1>a. /\ SignalsTyped /\ ItemsRecorded /\ TargetsOrdered
      /\ DescriptorMeant /\ TargetsAccounted
    BY DEF SignalsInv
<1>b. UNCHANGED <<root, supported, instance, parent, born, pidfd, sent>>
    BY DEF Signals!control_tree, Signals!enumeration_fails, Signals!control_one,
           Signals!read_pid_parent, Signals!kernel
<1>c. /\ pc \in {"idle", "enumerate"} /\ targets = <<>> /\ sent = <<>>
      /\ pidfd = 0
    BY <1>a DEF Signals!control_tree, Signals!enumeration_fails,
                Signals!control_one, Signals!read_pid_parent, SignalsTyped,
                Signals!TypeOK
<1>d. DOMAIN sent = {} /\ (DOMAIN <<>>) = {}
    BY <1>c
<1>1. CASE Signals!control_tree
  <2>1. /\ pc = "idle" /\ pc' = "enumerate" /\ whole' = TRUE
        /\ next_pid' = 2 /\ UNCHANGED <<items, targets, result>>
    BY <1>1 DEF Signals!control_tree
  <2>2. SignalsTyped'
    BY <1>a, <1>b, <1>c, <2>1 DEF SignalsTyped, Signals!TypeOK
  <2>3. ItemsRecorded'
    BY <1>a, <1>b, <2>1
    DEF ItemsRecorded, Signals!RootTarget, Signals!TargetOf
  <2> QED
    BY <1>a, <1>b, <1>c, <1>d, <2>1, <2>2, <2>3
    DEF SignalsInv, TargetsOrdered, DescriptorMeant, Signals!SignalHitsMeant,
        TargetsAccounted
<1>2. CASE Signals!enumeration_fails
  <2>1. /\ pc = "enumerate" /\ pc' = "done" /\ result' = FALSE
        /\ UNCHANGED <<whole, items, next_pid, targets>>
    BY <1>2 DEF Signals!enumeration_fails
  <2>2. SignalsTyped'
    BY <1>a, <1>b, <1>c, <2>1 DEF SignalsTyped, Signals!TypeOK
  <2>3. ItemsRecorded'
    BY <1>a, <1>b, <2>1
    DEF ItemsRecorded, Signals!RootTarget, Signals!TargetOf
  <2> QED
    BY <1>a, <1>b, <1>c, <1>d, <2>1, <2>2, <2>3
    DEF SignalsInv, TargetsOrdered, DescriptorMeant, Signals!SignalHitsMeant,
        TargetsAccounted
<1>3. CASE Signals!control_one
  <2>1. /\ pc = "idle" /\ pc' = "check" /\ whole' = FALSE
        /\ targets' = <<Signals!RootTarget>> /\ result' = TRUE
        /\ UNCHANGED <<items, next_pid>>
    BY <1>3 DEF Signals!control_one
  <2>2. /\ Signals!RootTarget \in Targets
        /\ Signals!RootTarget.instance_id <= born
        /\ Signals!RootTarget' = Signals!RootTarget
    BY <1>a, <1>b, TreeConstants
    DEF SignalsTyped, Signals!RootTarget, Signals!RootInstance, Targets,
        TreeInstances
  <2>3. /\ targets' \in Seq(Targets) /\ targets' # <<>>
        /\ DOMAIN targets' = {1} /\ targets'[1] = Signals!RootTarget
    BY <2>1, <2>2
  <2>4. SignalsTyped'
    BY <1>a, <1>b, <1>c, <2>1, <2>3 DEF SignalsTyped, Signals!TypeOK
  <2>5. ItemsRecorded'
    <3>1. items = {}
      BY <1>a, <2>1 DEF ItemsRecorded
    <3> QED
      BY <1>a, <1>b, <2>1, <2>2, <2>3, <3>1 DEF ItemsRecorded
  <2>6. TargetsOrdered'
    BY <1>b, <1>d, <2>3 DEF TargetsOrdered
  <2>7. TargetsAccounted'
    BY <1>b, <2>1, <2>2, <2>3 DEF TargetsAccounted, Meant
  <2> QED
    BY <1>a, <1>b, <1>c, <1>d, <2>1, <2>4, <2>5, <2>6, <2>7
    DEF SignalsInv, DescriptorMeant, Signals!SignalHitsMeant
<1>4. ASSUME NEW pid \in TreePids, Signals!read_pid_parent(pid)
      PROVE  SignalsInv'
  <2> DEFINE i == [pid |-> pid, ppid |-> parent[pid], instance_id |-> instance[pid]]
  <2>1. /\ pc = "enumerate" /\ pid >= next_pid /\ instance[pid] # 0
        /\ items' = items \cup {i} /\ next_pid' = pid + 1
        /\ UNCHANGED <<pc, whole, targets, result>>
    BY <1>4 DEF Signals!read_pid_parent
  <2>2. /\ i \in Items /\ i.pid = pid /\ i.instance_id = instance[pid]
        /\ i.ppid = parent[pid] /\ instance[pid] <= born
    BY <1>a, <2>1, TreeConstants
    DEF SignalsTyped, Signals!TypeOK, ItemsRecorded, Items, TreeInstances
  <2> HIDE DEF i
  <2>3. SignalsTyped'
    <3>1. items' \subseteq Items /\ IsFiniteSet(items')
      BY <1>a, <2>1, <2>2, FS_AddElement DEF SignalsTyped
    <3>2. next_pid' \in Nat
      BY <2>1, TreeConstants
    <3> QED
      BY <1>a, <1>b, <1>c, <2>1, <3>1, <3>2 DEF SignalsTyped, Signals!TypeOK
  <2>4. ItemsRecorded'
    <3>0. /\ \A j \in items : j.pid \in Nat /\ j.pid < next_pid
          /\ pid \in Nat /\ next_pid \in Nat
      <4>1. \A j \in items : j.pid \in TreePids
        BY <1>a DEF SignalsTyped, Items
      <4>2. \A j \in items : j.pid < next_pid
        BY <1>a, <2>1 DEF ItemsRecorded
      <4>3. next_pid \in Nat
        BY <1>a DEF SignalsTyped
      <4> QED
        BY <4>1, <4>2, <4>3, TreeConstants
    <3>1. \A j \in items' : j.pid < next_pid'
      BY <2>1, <2>2, <3>0
    <3>2. \A j, k \in items' : j.pid = k.pid => j = k
      <4>1. \A j \in items : j.pid # pid
        BY <2>1, <3>0
      <4> QED
        BY <1>a, <2>1, <2>2, <4>1 DEF ItemsRecorded
    <3>3. \A j \in items' : Signals!TargetOf(j) = Signals!RootTarget => j.ppid = 1
      <4>1. Signals!TargetOf(i) = Signals!RootTarget => i.ppid = 1
        BY <1>a, <2>2
        DEF ItemsRecorded, Signals!TargetOf, Signals!RootTarget
      <4> QED
        BY <1>a, <2>1, <4>1 DEF ItemsRecorded
    <3>4. \A j \in items' : j.instance_id <= born
      BY <1>a, <2>1, <2>2 DEF ItemsRecorded
    <3>5. Signals!RootTarget' = Signals!RootTarget
      BY <1>b DEF Signals!RootTarget
    <3> QED
      BY <1>a, <1>b, <2>1, <3>1, <3>2, <3>3, <3>4, <3>5
      DEF ItemsRecorded, Signals!TargetOf
  <2> QED
    BY <1>a, <1>b, <1>c, <1>d, <2>1, <2>3, <2>4
    DEF SignalsInv, TargetsOrdered, DescriptorMeant, Signals!SignalHitsMeant,
        TargetsAccounted
<1> QED
    BY <1>1, <1>2, <1>3, <1>4

(* The targets are put in order: descendants before their recorded parents, *)
(* and the root, whose parent is none of them, last.                        *)
LEMMA OrderKeeps ==
    ASSUME SignalsInv, Signals!order_targets
    PROVE  SignalsInv'
<1>a. /\ SignalsTyped /\ ItemsRecorded /\ TargetsOrdered
      /\ DescriptorMeant /\ TargetsAccounted
    BY DEF SignalsInv
<1>b. /\ pc = "enumerate" /\ targets = <<>> /\ sent = <<>> /\ pidfd = 0
      /\ UNCHANGED <<root, supported, instance, parent, born, whole, items,
                     next_pid, pidfd, sent>>
    BY <1>a DEF Signals!order_targets, SignalsTyped, Signals!TypeOK,
                Signals!kernel
<1>c. DOMAIN sent = {} /\ (DOMAIN <<>>) = {}
    BY <1>b
<1>d. /\ Meant' = Meant /\ Signals!RootTarget' = Signals!RootTarget
      /\ \A a, b : MayPrecede(a, b)' = MayPrecede(a, b)
    BY <1>b, MeantKept
<1>1. CASE ~Signals!process_identity_pid(Signals!RootTarget)
  <2>1. pc' = "done" /\ result' = FALSE /\ UNCHANGED targets
    BY <1>1 DEF Signals!order_targets
  <2>2. SignalsTyped'
    BY <1>a, <1>b, <2>1 DEF SignalsTyped, Signals!TypeOK
  <2>3. ItemsRecorded'
    BY <1>a, <1>b, <2>1
    DEF ItemsRecorded, Signals!RootTarget, Signals!TargetOf
  <2> QED
    BY <1>a, <1>b, <1>c, <2>1, <2>2, <2>3
    DEF SignalsInv, TargetsOrdered, DescriptorMeant, Signals!SignalHitsMeant,
        TargetsAccounted
<1>2. CASE Signals!process_identity_pid(Signals!RootTarget)
  <2> DEFINE D == Signals!Descendants
             n == Signals!Cardinality(D)
  <2>1. PICK order \in Signals!Sorted :
          targets' = Append([k \in DOMAIN order |-> Signals!TargetOf(order[k])],
                            Signals!RootTarget)
    BY <1>2 DEF Signals!order_targets
  <2>2. pc' = "check" /\ result' = TRUE
    BY <1>2 DEF Signals!order_targets
  <2>3. /\ order \in [1 .. n -> D]
        /\ \A i \in D : \E k \in DOMAIN order : order[k] = i
        /\ \A j, k \in DOMAIN order :
              j < k => Signals!compare_depth_descending(order[j], order[k])
    BY DEF Signals!Sorted
  <2>4. D \subseteq items
    BY DEF Signals!Descendants
  <2>5. n \in Nat
    <3>1. IsFiniteSet(D)
      BY <1>a, <2>4, FS_Subset DEF SignalsTyped
    <3> QED
      BY <3>1, FS_CardinalityType, TreeCardinality
  <2>6. \A d \in D : /\ Signals!TargetOf(d) \in Targets
                     /\ Signals!TargetOf(d).pid = d.pid
                     /\ Signals!TargetOf(d).instance_id <= born
    BY <1>a, <2>4 DEF SignalsTyped, ItemsRecorded, Items, Targets, Signals!TargetOf
  <2>7. /\ Signals!RootTarget \in Targets
        /\ Signals!RootTarget.instance_id <= born
    BY <1>a, TreeConstants
    DEF SignalsTyped, Signals!RootTarget, Signals!RootInstance, Targets,
        TreeInstances
  <2>8. \A d \in D : d.pid # root /\ Signals!TargetOf(d) # Signals!RootTarget
    <3>1. \A d \in D : d.pid # root
      BY DEF Signals!Descendants, Signals!process_depth
    <3> QED
      BY <3>1 DEF Signals!TargetOf, Signals!RootTarget
  <2>9. \A d, e \in D : Signals!compare_depth_descending(d, e) => e.ppid # d.pid
    <3> SUFFICES ASSUME NEW d \in D, NEW e \in D,
                        Signals!compare_depth_descending(d, e), e.ppid = d.pid
                 PROVE  FALSE
      OBVIOUS
    <3>1. /\ Signals!process_depth(d.pid) > Signals!process_depth(e.pid)
             \/ Signals!process_depth(d.pid) = Signals!process_depth(e.pid)
      BY DEF Signals!compare_depth_descending
    <3>2. Signals!process_depth(e.pid) > Signals!process_depth(d.pid)
      BY <1>a, ParentsLessDeep
    <3>3. /\ Signals!process_depth(d.pid) \in Nat
          /\ Signals!process_depth(e.pid) \in Nat
      BY <1>a, DepthsNatural
    <3> QED
      BY <3>1, <3>2, <3>3
  <2> HIDE DEF D, n
  <2>10. /\ targets' \in Seq(Targets) /\ targets' # <<>>
         /\ DOMAIN targets' = 1 .. n + 1
         /\ \A k \in 1 .. n : targets'[k] = Signals!TargetOf(order[k])
         /\ targets'[n + 1] = Signals!RootTarget
    <3> DEFINE first == [k \in DOMAIN order |-> Signals!TargetOf(order[k])]
    <3>1. /\ first \in [1 .. n -> Targets] /\ DOMAIN order = 1 .. n
          /\ \A k \in 1 .. n : first[k] = Signals!TargetOf(order[k])
      BY <2>3, <2>6
    <3> HIDE DEF first
    <3>2. first \in Seq(Targets) /\ Len(first) = n
      BY <2>5, <3>1
    <3>3. targets' = Append(first, Signals!RootTarget)
      BY <2>1 DEF first
    <3> QED
      BY <2>5, <2>7, <3>1, <3>2, <3>3
  <2>11. SignalsTyped'
    BY <1>a, <1>b, <2>2, <2>10 DEF SignalsTyped, Signals!TypeOK
  <2>12. \A k \in 1 .. n : order[k] \in D
    BY <2>3
  <2>13. ItemsRecorded'
    <3>1. \A k \in DOMAIN targets' : targets'[k].instance_id <= born
      BY <2>5, <2>6, <2>7, <2>10, <2>12
    <3> QED
      BY <1>a, <1>b, <1>d, <2>2, <3>1 DEF ItemsRecorded, Signals!TargetOf
  <2>14. TargetsOrdered'
    <3> SUFFICES ASSUME NEW j \in DOMAIN targets', NEW k \in DOMAIN targets', j < k
                 PROVE  MayPrecede(targets'[j], targets'[k])
      BY <1>b, <1>c, <1>d DEF TargetsOrdered
    <3>1. /\ j \in 1 .. n /\ order[j] \in D
          /\ targets'[j] = Signals!TargetOf(order[j])
          /\ targets'[j] # Signals!RootTarget
          /\ targets'[j].pid = order[j].pid
      BY <2>5, <2>6, <2>8, <2>10, <2>12
    <3>2. ASSUME NEW i \in items, Signals!TargetOf(i) = targets'[k]
          PROVE  i.ppid # order[j].pid
      <4>1. CASE k \in 1 .. n
        <5>1. order[k] \in D /\ Signals!TargetOf(i) = Signals!TargetOf(order[k])
          BY <2>10, <2>12, <3>2, <4>1
        <5>2. i = order[k]
          BY <1>a, <2>4, <5>1 DEF ItemsRecorded, Signals!TargetOf
        <5>3. Signals!compare_depth_descending(order[j], order[k])
          BY <2>3, <3>1, <4>1
        <5> QED
          BY <2>9, <3>1, <5>1, <5>2, <5>3
      <4>2. CASE k = n + 1
        <5>1. i.ppid = 1
          BY <1>a, <2>10, <3>2, <4>2 DEF ItemsRecorded
        <5>2. order[j].pid \in TreePids
          BY <1>a, <2>4, <3>1 DEF SignalsTyped, Items
        <5> QED
          BY <5>1, <5>2, TreeConstants
      <4> QED
        BY <2>5, <2>10, <4>1, <4>2
    <3> QED
      BY <3>1, <3>2 DEF MayPrecede
  <2>15. TargetsAccounted'
    <3> SUFFICES ASSUME NEW t \in Meant
                 PROVE  /\ t.instance_id <= born
                        /\ \E k \in DOMAIN targets' : targets'[k] = t
      BY <1>b, <1>d DEF TargetsAccounted
    <3>1. CASE t = Signals!RootTarget
      BY <2>5, <2>7, <2>10, <3>1
    <3>2. CASE t # Signals!RootTarget
      <4>1. PICK d \in D : t = Signals!TargetOf(d)
        BY <3>2 DEF Meant, D
      <4>2. PICK k \in 1 .. n : order[k] = d
        BY <2>3
      <4> QED
        BY <2>5, <2>6, <2>10, <4>1, <4>2
    <3> QED
      BY <3>1, <3>2
  <2> QED
    BY <1>a, <1>b, <1>c, <2>2, <2>11, <2>13, <2>14, <2>15
    DEF SignalsInv, DescriptorMeant, Signals!SignalHitsMeant
<1> QED
    BY <1>1, <1>2

(* The steps of lsm_process_control for one target.                         *)
LEMMA TargetKeeps ==
    ASSUME SignalsInv,
           \/ Signals!first_check \/ Signals!pidfd_open \/ Signals!second_check
           \/ Signals!pidfd_send_signal \/ Signals!fallback_check
           \/ Signals!kill_by_number
    PROVE  SignalsInv'
<1> DEFINE t == targets[1]
<1>a. /\ SignalsTyped /\ ItemsRecorded /\ TargetsOrdered
      /\ DescriptorMeant /\ TargetsAccounted
    BY DEF SignalsInv
<1>b. /\ pc \in Signalling
      /\ UNCHANGED <<root, supported, instance, parent, born, whole, items,
                     next_pid>>
    BY DEF Signals!first_check, Signals!pidfd_open, Signals!second_check,
           Signals!pidfd_send_signal, Signals!fallback_check,
           Signals!kill_by_number, Signals!kernel, Signalling
<1>c. /\ Signals!Target = t /\ t.pid \in TreePids
      /\ t.instance_id \in TreeInstances /\ t.instance_id # 0
      /\ targets # <<>>
  <2>1. /\ Signals!Target = t /\ t.pid \in TreePids
        /\ t.instance_id \in TreeInstances
    BY <1>a, <1>b, TargetsWait
  <2>2. targets # <<>>
    BY <1>a, <1>b DEF SignalsTyped, Signals!TypeOK, Signalling
  <2> QED
    BY <2>1, <2>2, TreeConstants DEF TreeInstances
<1> HIDE DEF t
<1>d. ASSUME UNCHANGED <<targets, sent, result>>,
             pc' \in Signalling, pidfd' \in 0 .. MaxTreeInstance,
             (pc' \in {"recheck", "send"}) <=> (pidfd' # 0),
             pc' \in {"open", "recheck", "send"} => supported,
             pc' \in {"fallback", "kill"} => ~supported,
             pc' = "recheck" /\ instance[t.pid] = t.instance_id =>
                pidfd' = t.instance_id,
             pc' = "send" => pidfd' = t.instance_id
      PROVE  SignalsInv'
  <2>1. SignalsTyped'
    BY <1>a, <1>b, <1>c, <1>d DEF SignalsTyped, Signals!TypeOK, Signalling
  <2>2. ItemsRecorded'
    BY <1>a, <1>b, <1>d, MeantKept DEF ItemsRecorded, Signals!TargetOf, Signalling
  <2>3. TargetsOrdered'
    BY <1>a, <1>b, <1>d, MeantKept DEF TargetsOrdered
  <2>4. DescriptorMeant'
    BY <1>a, <1>b, <1>d DEF DescriptorMeant, Signals!SignalHitsMeant, t
  <2>5. TargetsAccounted'
    BY <1>a, <1>b, <1>d, MeantKept DEF TargetsAccounted, Signalling
  <2> QED
    BY <2>1, <2>2, <2>3, <2>4, <2>5 DEF SignalsInv
<1>e. ASSUME Signals!Finish(FALSE, TRUE), UNCHANGED sent,
             instance[t.pid] # t.instance_id
      PROVE  SignalsInv'
    BY <1>b, <1>e, FinishKeeps DEF t
<1>f. ASSUME Signals!Finish(FALSE, FALSE), UNCHANGED sent
      PROVE  SignalsInv'
    BY <1>b, <1>f, FinishKeeps DEF t
<1>g. ASSUME NEW h \in TreeInstances, Signals!Finish(TRUE, FALSE),
             sent' = Append(sent, [meant |-> t, hit |-> h]),
             supported => h = t.instance_id
      PROVE  SignalsInv'
    BY <1>b, <1>g, FinishKeeps DEF t
<1>h. /\ \A p \in TreePids : instance[p] \in 0 .. MaxTreeInstance
      /\ pidfd \in 0 .. MaxTreeInstance /\ MaxTreeInstance \in Nat
      /\ pc \in {"recheck", "send"} <=> pidfd # 0
      /\ supported \in BOOLEAN
      /\ pc \in {"open", "recheck", "send"} => supported
      /\ pc \in {"fallback", "kill"} => ~supported
    BY <1>a, TreeConstants DEF SignalsTyped, Signals!TypeOK
<1>i. /\ pc = "recheck" /\ instance[t.pid] = t.instance_id =>
            pidfd = t.instance_id
      /\ pc = "send" => pidfd = t.instance_id
    BY <1>a DEF DescriptorMeant, t
<1>1. CASE Signals!first_check
  <2>0. pc = "check" /\ UNCHANGED sent
    BY <1>1 DEF Signals!first_check
  <2>1. CASE instance[t.pid] = t.instance_id
    <3>1. /\ pc' = IF supported THEN "open" ELSE "fallback"
          /\ UNCHANGED <<result, targets, pidfd>>
      BY <1>1, <1>c, <2>1 DEF Signals!first_check, Signals!process_identity_pid
    <3> QED
      BY <1>d, <1>h, <2>0, <3>1 DEF Signalling
  <2>2. CASE instance[t.pid] # t.instance_id
    <3>1. Signals!Finish(FALSE, TRUE)
      BY <1>1, <1>c, <2>2 DEF Signals!first_check, Signals!process_identity_pid
    <3> QED
      BY <1>e, <2>0, <2>2, <3>1
  <2> QED
    BY <2>1, <2>2
<1>2. CASE Signals!pidfd_open
  <2>0. pc = "open" /\ UNCHANGED sent
    BY <1>2 DEF Signals!pidfd_open
  <2>1. CASE instance[t.pid] # 0
    <3>1. /\ pidfd' = instance[t.pid] /\ pc' = "recheck"
          /\ UNCHANGED <<result, targets>>
      BY <1>2, <1>c, <2>1 DEF Signals!pidfd_open
    <3> QED
      BY <1>c, <1>d, <1>h, <2>0, <2>1, <3>1 DEF Signalling
  <2>2. CASE instance[t.pid] = 0
    <3>1. Signals!Finish(FALSE, TRUE)
      BY <1>2, <1>c, <2>2 DEF Signals!pidfd_open
    <3> QED
      BY <1>c, <1>e, <2>0, <2>2, <3>1
  <2> QED
    BY <2>1, <2>2
<1>3. CASE Signals!second_check
  <2>0. pc = "recheck" /\ UNCHANGED sent
    BY <1>3 DEF Signals!second_check
  <2>1. CASE instance[t.pid] = t.instance_id
    <3>1. pc' = "send" /\ UNCHANGED <<result, targets, pidfd>>
      BY <1>3, <1>c, <2>1 DEF Signals!second_check, Signals!process_identity_pid
    <3> QED
      BY <1>d, <1>h, <1>i, <2>0, <2>1, <3>1 DEF Signalling
  <2>2. CASE instance[t.pid] # t.instance_id
    <3>1. Signals!Finish(FALSE, TRUE)
      BY <1>3, <1>c, <2>2 DEF Signals!second_check, Signals!process_identity_pid
    <3> QED
      BY <1>e, <2>0, <2>2, <3>1
  <2> QED
    BY <2>1, <2>2
<1>4. CASE Signals!pidfd_send_signal
  <2>0. pc = "send" /\ pidfd = t.instance_id
    BY <1>4, <1>i DEF Signals!pidfd_send_signal
  <2>1. \/ /\ sent' = Append(sent, [meant |-> t, hit |-> pidfd])
           /\ Signals!Finish(TRUE, FALSE)
        \/ Signals!Finish(FALSE, FALSE) /\ UNCHANGED sent
        \/ /\ ~\E p \in TreePids : instance[p] = pidfd
           /\ Signals!Finish(FALSE, TRUE) /\ UNCHANGED sent
    BY <1>4, <1>c DEF Signals!pidfd_send_signal
  <2> QED
    BY <1>c, <1>e, <1>f, <1>g, <2>0, <2>1
<1>5. CASE Signals!fallback_check
  <2>0. pc = "fallback" /\ UNCHANGED sent
    BY <1>5 DEF Signals!fallback_check
  <2>1. CASE instance[t.pid] = t.instance_id
    <3>1. pc' = "kill" /\ UNCHANGED <<result, targets, pidfd>>
      BY <1>5, <1>c, <2>1 DEF Signals!fallback_check, Signals!process_identity_pid
    <3> QED
      BY <1>d, <1>h, <2>0, <3>1 DEF Signalling
  <2>2. CASE instance[t.pid] # t.instance_id
    <3>1. Signals!Finish(FALSE, TRUE)
      BY <1>5, <1>c, <2>2 DEF Signals!fallback_check, Signals!process_identity_pid
    <3> QED
      BY <1>e, <2>0, <2>2, <3>1
  <2> QED
    BY <2>1, <2>2
<1>6. CASE Signals!kill_by_number
  <2>0. pc = "kill" /\ ~supported
    BY <1>6, <1>h DEF Signals!kill_by_number
  <2>1. \/ /\ instance[t.pid] # 0
           /\ sent' = Append(sent, [meant |-> t, hit |-> instance[t.pid]])
           /\ Signals!Finish(TRUE, FALSE)
        \/ Signals!Finish(FALSE, FALSE) /\ UNCHANGED sent
        \/ /\ instance[t.pid] = 0
           /\ Signals!Finish(FALSE, TRUE) /\ UNCHANGED sent
    BY <1>6, <1>c DEF Signals!kill_by_number
  <2>2. instance[t.pid] # 0 => instance[t.pid] \in TreeInstances
    BY <1>c, <1>h DEF TreeInstances
  <2> QED
    BY <1>c, <1>e, <1>f, <1>g, <2>0, <2>1, <2>2
<1> QED
    BY <1>1, <1>2, <1>3, <1>4, <1>5, <1>6

(* The steps of the other studies leave the signals alone.                  *)
LEMMA SignalsNext == [Next]_vars => [Signals!Next]_controlVars
  BY DEF Next, vars, Control, Policy, Pick, Inspect

(* Through a pidfd a signal reaches only the identity it was meant for; a   *)
(* tree is signalled descendants first and root last; success is reported   *)
(* only when every target was signalled or is gone, with pidfds and         *)
(* without: for trees of any size, however processes fork, exit and take    *)
(* over PIDs between any two system calls (lsm_process_control_tree).       *)
THEOREM SignalsReachTheirTree == Spec => []TreeSignalled
<1>1. Init => SignalsInv
  <2> SUFFICES ASSUME Init PROVE SignalsInv
    OBVIOUS
  <2>1. IsFiniteSet({}) /\ (DOMAIN <<>>) = {} /\ <<>> \in Seq(Targets)
        /\ <<>> \in Seq(Deliveries)
    BY FS_EmptySet
  <2>2. /\ root \in TreePids /\ supported \in BOOLEAN
        /\ instance = [p \in TreePids |-> IF p = root THEN 1 ELSE 0]
        /\ parent = [p \in TreePids |-> 1] /\ born = 1 /\ pc = "idle"
        /\ whole = FALSE /\ items = {} /\ next_pid = 2 /\ targets = <<>>
        /\ pidfd = 0 /\ sent = <<>> /\ result = TRUE
    BY TreeConstants DEF Init, Signals!Init, Signals!RootInstance
  <2>3. SignalsTyped
    BY <2>1, <2>2, TreeConstants DEF SignalsTyped, Signals!TypeOK, TreeInstances
  <2> QED
    BY <2>1, <2>2, <2>3
    DEF SignalsInv, ItemsRecorded, TargetsOrdered, DescriptorMeant,
        Signals!SignalHitsMeant, TargetsAccounted
<1>2. SignalsInv /\ [Next]_vars => SignalsInv'
  <2> SUFFICES ASSUME SignalsInv, [Signals!Next]_controlVars PROVE SignalsInv'
    BY SignalsNext
  <2>1. CASE UNCHANGED controlVars
    BY <2>1, MeantKept
    DEF controlVars, SignalsInv, SignalsTyped, Signals!TypeOK, ItemsRecorded,
        Signals!TargetOf, TargetsOrdered, DescriptorMeant,
        Signals!SignalHitsMeant, TargetsAccounted
  <2>2. CASE Signals!Next
    BY <2>2, KernelKeeps, ListingKeeps, OrderKeeps, TargetKeeps DEF Signals!Next
  <2> QED
    BY <2>1, <2>2
<1>3. SignalsInv => TreeSignalled
  <2> SUFFICES ASSUME SignalsInv
               PROVE  /\ Signals!TypeOK /\ Signals!SignalHitsMeant
                      /\ Signals!DescendantsFirst /\ Signals!ReportHonest
    BY DEF TreeSignalled
  <2>1. Signals!TypeOK /\ Signals!SignalHitsMeant
    BY DEF SignalsInv, SignalsTyped, DescriptorMeant
  <2>2. Signals!DescendantsFirst
    BY DEF SignalsInv, TargetsOrdered, MayPrecede, Signals!DescendantsFirst
  <2>3. Signals!ReportHonest
    <3>1. pc = "done" => DOMAIN targets = {}
      BY DEF SignalsInv, SignalsTyped, Signals!TypeOK
    <3> QED
      BY <3>1 DEF SignalsInv, TargetsAccounted, Meant, Signals!ReportHonest
  <2> QED
    BY <2>1, <2>2, <2>3
<1> QED
    BY <1>1, <1>2, <1>3, PTL DEF Spec

=============================================================================
