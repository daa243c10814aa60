--------------------------- MODULE ProcessInspector ---------------------------
(***************************************************************************)
(* The Process Inspector windows (src/process_inspector.c) and the readers *)
(* of /proc behind them (src/process_inspection.c).  A window is tied to   *)
(* one instance of one PID.  Its lists are read by a task in a thread of   *)
(* its own, one file after the other, while the process may exit and its   *)
(* PID be given to another; the window may be closed, and another one      *)
(* opened on the PID's next owner, before the task returns.                *)
(*                                                                         *)
(* life counts births and deaths of the one PID in question: an odd value  *)
(* is the instance alive, an even one means that there is no process.      *)
(***************************************************************************)
EXTENDS Integers, FiniteSets

CONSTANTS
    Windows,        \* The windows opened in the course of a run.
    MaxLife         \* Bound on births and deaths of the PID.

(* What the constants stand for; the process inspected is there at first.   *)
InspectorAssumption == MaxLife \in Nat \ {0} /\ IsFiniteSet(Windows)

Lists == {"details", "files", "maps", "threads"}
Incomplete == -1

VARIABLES
    life,               \* What /proc says now.
    snapshot,           \* The instance in the published snapshot, 0 if none.
    window,             \* Per window: "unopened", "open", "closed".
    instance,           \* instance_id.
    inventory_pending,
    refresh_timer,      \* The source id is set.
    timer,              \* The GLib source exists.
    exited,             \* The title says that the process has exited.
    lists,              \* Per window and list: whose data it shows, 0 if
                        \* nobody's; Incomplete when it could not be read.
    task,               \* Per window: "none", "check", the list it reads
                        \* next, "again", "returned".
    result,             \* What the task has read so far, as lists.
    identity_valid,
    \* History variable: the inspector was used after it was freed.
    used_after_free

vars == <<life, snapshot, window, instance, inventory_pending, refresh_timer,
          timer, exited, lists, task, result, identity_valid, used_after_free>>

Current == IF life % 2 = 1 THEN life ELSE 0
Owners == {0} \cup 1 .. MaxLife
NoLists == [l \in Lists |-> 0]

TypeOK ==
    /\ life \in 0 .. MaxLife /\ snapshot \in Owners
    /\ window \in [Windows -> {"unopened", "open", "closed"}]
    /\ instance \in [Windows -> Owners]
    /\ inventory_pending \in [Windows -> BOOLEAN]
    /\ refresh_timer \in [Windows -> BOOLEAN] /\ timer \in [Windows -> BOOLEAN]
    /\ lists \in [Windows -> [Lists -> Owners \cup {Incomplete}]]
    /\ result \in [Windows -> [Lists -> Owners \cup {Incomplete}]]
    /\ task \in [Windows -> {"none", "check", "again", "returned"} \cup Lists]

Init ==
    /\ life = 1 /\ snapshot = 1
    /\ window = [w \in Windows |-> "unopened"]
    /\ instance = [w \in Windows |-> 0]
    /\ inventory_pending = [w \in Windows |-> FALSE]
    /\ refresh_timer = [w \in Windows |-> FALSE]
    /\ timer = [w \in Windows |-> FALSE]
    /\ exited = [w \in Windows |-> FALSE]
    /\ lists = [w \in Windows |-> NoLists]
    /\ task = [w \in Windows |-> "none"]
    /\ result = [w \in Windows |-> NoLists]
    /\ identity_valid = [w \in Windows |-> FALSE]
    /\ used_after_free = FALSE

(* lsm_process_inspection_identity_matches: the start time in /proc/PID.    *)
lsm_process_inspection_identity_matches(expected) ==
    expected # 0 /\ Current = expected

-----------------------------------------------------------------------------
(* The process exits or the PID is given to a new one.                      *)
ProcessChanges ==
    /\ life < MaxLife
    /\ life' = life + 1
    /\ UNCHANGED <<snapshot, window, instance, inventory_pending, refresh_timer,
                   timer, exited, lists, task, result, identity_valid,
                   used_after_free>>

(* A scan is published.                                                     *)
SnapshotPublished ==
    /\ snapshot # Current
    /\ snapshot' = Current
    /\ UNCHANGED <<life, window, instance, inventory_pending, refresh_timer,
                   timer, exited, lists, task, result, identity_valid,
                   used_after_free>>

-----------------------------------------------------------------------------
(* refresh_inventories: nothing while a task is out; no task for a process  *)
(* that is gone.                                                            *)
refresh_inventories(w, for) ==
    IF inventory_pending[w]
    THEN UNCHANGED <<inventory_pending, task, result, identity_valid, lists>>
    ELSE IF ~lsm_process_inspection_identity_matches(for)
    THEN /\ lists' = [lists EXCEPT ![w] = NoLists]
         /\ UNCHANGED <<inventory_pending, task, result, identity_valid>>
    ELSE /\ inventory_pending' = [inventory_pending EXCEPT ![w] = TRUE]
         /\ task' = [task EXCEPT ![w] = "check"]
         /\ result' = [result EXCEPT ![w] = NoLists]
         /\ identity_valid' = [identity_valid EXCEPT ![w] = FALSE]
         /\ UNCHANGED lists

(* lsm_process_inspector_show: a window for the process as it stands in the *)
(* snapshot, with its first refresh, and its timer in any case.             *)
lsm_process_inspector_show(w) ==
    /\ window[w] = "unopened" /\ snapshot # 0
    /\ window' = [window EXCEPT ![w] = "open"]
    /\ instance' = [instance EXCEPT ![w] = snapshot]
    /\ refresh_inventories(w, snapshot)
    /\ exited' = [exited EXCEPT ![w] = Current # snapshot]
    /\ refresh_timer' = [refresh_timer EXCEPT ![w] = TRUE]
    /\ timer' = [timer EXCEPT ![w] = TRUE]
    /\ UNCHANGED <<life, snapshot, used_after_free>>

(* inspector_update, from the timer: the lists are emptied and the timer    *)
(* ends once the process is not in the snapshot or not in /proc.            *)
inspector_update(w) ==
    /\ timer[w]
    /\ used_after_free' = (used_after_free \/ window[w] # "open")
    /\ IF snapshot # instance[w]
          \/ ~lsm_process_inspection_identity_matches(instance[w])
       THEN /\ exited' = [exited EXCEPT ![w] = TRUE]
            /\ lists' = [lists EXCEPT ![w] = NoLists]
            /\ refresh_timer' = [refresh_timer EXCEPT ![w] = FALSE]
            /\ timer' = [timer EXCEPT ![w] = FALSE]
       ELSE UNCHANGED <<exited, lists, refresh_timer, timer>>
    /\ UNCHANGED <<life, snapshot, window, instance, inventory_pending, task,
                   result, identity_valid>>

(* refresh_clicked.                                                         *)
refresh_clicked(w) ==
    /\ window[w] = "open"
    /\ refresh_inventories(w, instance[w])
    /\ UNCHANGED <<life, snapshot, window, instance, refresh_timer, timer,
                   exited, used_after_free>>

(* inspector_destroy: the window forgets its inspector, which is freed; the *)
(* task keeps the window object alive until it has returned.                *)
inspector_destroy(w) ==
    /\ window[w] = "open"
    /\ window' = [window EXCEPT ![w] = "closed"]
    /\ timer' = [timer EXCEPT ![w] = timer[w] /\ ~refresh_timer[w]]
    /\ refresh_timer' = [refresh_timer EXCEPT ![w] = FALSE]
    /\ UNCHANGED <<life, snapshot, instance, inventory_pending, exited, lists,
                   task, result, identity_valid, used_after_free>>

-----------------------------------------------------------------------------
(* process_inventory_worker, one system call of interest at a time.         *)

(* Mutant: the task looks at the identity before reading only.              *)
Mut_WorkerChecks(w) ==
    \/ /\ task[w] = "check"
       /\ LET own == lsm_process_inspection_identity_matches(instance[w]) IN
            /\ identity_valid' = [identity_valid EXCEPT ![w] = own]
            /\ task' = [task EXCEPT ![w] = IF own THEN "details" ELSE "returned"]
       /\ UNCHANGED result
    \/ /\ task[w] = "again"
       /\ task' = [task EXCEPT ![w] = "returned"]
       /\ UNCHANGED <<result, identity_valid>>

(* The identity is read before the lists and again after them.              *)
WorkerChecks(w) ==
    \/ /\ task[w] = "check"
       /\ task' = [task EXCEPT ![w] =
             IF lsm_process_inspection_identity_matches(instance[w])
             THEN "details" ELSE "returned"]
       /\ UNCHANGED <<result, identity_valid>>
    \/ /\ task[w] = "again"
       /\ identity_valid' = [identity_valid EXCEPT ![w] =
             lsm_process_inspection_identity_matches(instance[w])]
       /\ task' = [task EXCEPT ![w] = "returned"]
       /\ UNCHANGED result

(* A list is read from the files of whoever has the PID, all of it or, on   *)
(* any failure, nothing.                                                    *)
Reads(w, list, next) ==
    /\ task[w] = list
    /\ task' = [task EXCEPT ![w] = next]
    /\ \E outcome \in {Incomplete} \cup ({Current} \ {0}) :
         result' = [result EXCEPT ![w][list] = outcome]
    /\ UNCHANGED identity_valid

lsm_process_enrich(w) == Reads(w, "details", "files")
open_files_checked(w) == Reads(w, "files", "maps")
memory_maps_checked(w) == Reads(w, "maps", "threads")
threads_checked(w) == Reads(w, "threads", "again")

process_inventory_worker(w) ==
    /\ \/ WorkerChecks(w) \/ lsm_process_enrich(w) \/ open_files_checked(w)
       \/ memory_maps_checked(w) \/ threads_checked(w)
    /\ UNCHANGED <<life, snapshot, window, instance, inventory_pending,
                   refresh_timer, timer, exited, lists, used_after_free>>

(* process_inventory_complete: the window is found through the task, and    *)
(* the inspector through the window as long as it is open.                  *)
process_inventory_complete(w) ==
    /\ task[w] = "returned"
    /\ task' = [task EXCEPT ![w] = "none"]
    /\ IF window[w] # "open" THEN UNCHANGED <<inventory_pending, lists>>
       ELSE /\ inventory_pending' = [inventory_pending EXCEPT ![w] = FALSE]
            /\ lists' = [lists EXCEPT ![w] =
                           IF identity_valid[w] THEN result[w] ELSE NoLists]
    /\ UNCHANGED <<life, snapshot, window, instance, refresh_timer, timer,
                   exited, result, identity_valid, used_after_free>>

MainThread(w) ==
    \/ lsm_process_inspector_show(w) \/ refresh_clicked(w)
    \/ inspector_destroy(w) \/ inspector_update(w)

Next ==
    \/ ProcessChanges \/ SnapshotPublished
    \/ \E w \in Windows : \/ MainThread(w)
                          \/ process_inventory_worker(w)
                          \/ process_inventory_complete(w)

Spec == Init /\ [][Next]_vars

-----------------------------------------------------------------------------
(* "A recycled process identifier must never redirect an existing inspector *)
(* to a different process" (process_inspector.c): whatever happens between  *)
(* the reads of a task, a list shown was read from the window's process.    *)
ListsOwn ==
    \A w \in Windows, l \in Lists :
        window[w] = "open" => lists[w][l] \in {0, Incomplete, instance[w]}

(* The pending flag of an open window says whether its task is out, and     *)
(* neither a task nor a timer comes back to a freed inspector.              *)
InspectorTasksHonest ==
    /\ ~used_after_free
    /\ \A w \in Windows :
         window[w] = "open" => /\ inventory_pending[w] = (task[w] # "none")
                               /\ refresh_timer[w] = timer[w]

=============================================================================
