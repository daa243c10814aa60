--------------------------- MODULE MCProcessActions ---------------------------
(***************************************************************************)
(* What the program does to other processes, from the row the user picks   *)
(* to the system call: selection and dialogs, the inspector's window,      *)
(* signals on a kernel with pidfds and on one without, and efficiency      *)
(* mode.  Each is explored by itself in a study of its own; the study is   *)
(* chosen at the start.                                                    *)
(***************************************************************************)
EXTENDS Naturals, TLC

CONSTANTS
    TreePids, Roots, MaxTreeInstance,                     \* ProcessControl
    PolicyPids, MaxPolicyInstance, NiceValues, IoValues,  \* ProcessPolicy
    Capacity,
    Exclusions,                                           \* ProcessSelection
    InspectorWindows, MaxLife                             \* ProcessInspector

VARIABLES
    study,
    root, supported, instance, parent, born, pc, whole, items, next_pid, targets,
    pidfd, sent, result,
    proc, policy_born, table, policy_pc, call, policy_result, before,
    captured, owed, late, unreturned,
    life, busy, front, search, scope, excluded, model_dirty, structure, rows,
    highlight, selected, group, recording, dialog, picked, picked_on, retitled, issued,
    inspected, snapshot, window, window_instance, inventory_pending,
    refresh_timer, timer, exited, lists, task, inventory, identity_valid,
    used_after_free

controlVars == <<root, supported, instance, parent, born, pc, whole, items,
                 next_pid, targets, pidfd, sent, result>>
policyVars == <<proc, policy_born, table, policy_pc, call, policy_result,
                before, captured, owed, late, unreturned>>
selectionVars == <<life, busy, front, search, scope, excluded, model_dirty,
                   structure, rows, highlight, selected, group, recording,
                   dialog, picked, picked_on, retitled, issued>>
inspectorVars == <<inspected, snapshot, window, window_instance,
                   inventory_pending, refresh_timer, timer, exited, lists,
                   task, inventory, identity_valid, used_after_free>>

Signals == INSTANCE ProcessControl WITH
    Pids <- TreePids, MaxInstance <- MaxTreeInstance

Efficiency == INSTANCE ProcessPolicy WITH
    Pids <- PolicyPids, MaxInstance <- MaxPolicyInstance,
    born <- policy_born, pc <- policy_pc, result <- policy_result

(* A process and its child; PIDs are reused, and the successor of the first *)
(* belongs to another application.  In the second study the Details page    *)
(* can be narrowed to processes that are active.                            *)
Selection == INSTANCE ProcessSelection WITH
    Pids <- {2, 3}, Lives <- (2 :> 1 .. 3) @@ (3 :> 1 .. 2),
    Second <- {<<2, 3>>}, Parent <- (2 :> 0) @@ (3 :> 2),
    Searches <- {{2, 3}, {2}}, Scopes <- {"all"}
Scoped == INSTANCE ProcessSelection WITH
    Pids <- {2, 3}, Lives <- (2 :> 1 .. 2) @@ (3 :> {1}),
    Second <- {}, Parent <- (2 :> 0) @@ (3 :> 2),
    Searches <- {{2, 3}}, Scopes <- {"all", "active"}

Inspector == INSTANCE ProcessInspector WITH
    Windows <- InspectorWindows, life <- inspected,
    instance <- window_instance, result <- inventory

ASSUME ActionsAssumption ==
    /\ Signals!ControlAssumption
    /\ Efficiency!PolicyAssumption
    /\ Selection!SelectionAssumption /\ Scoped!SelectionAssumption
    /\ Inspector!InspectorAssumption

(* In the other studies one start of the signals stands for all.            *)
Init ==
    /\ study \in {"signals", "efficiency", "selection", "scoped", "inspector"}
    /\ Signals!Init /\ Efficiency!Init /\ Selection!Init /\ Inspector!Init
    /\ study # "signals" => supported /\ root = CHOOSE r \in Roots : TRUE

Control(A) == A /\ UNCHANGED <<study, policyVars, selectionVars, inspectorVars>>
Policy(A) == A /\ UNCHANGED <<study, controlVars, selectionVars, inspectorVars>>
Pick(A) == A /\ UNCHANGED <<study, controlVars, policyVars, inspectorVars>>
Inspect(A) == A /\ UNCHANGED <<study, controlVars, policyVars, selectionVars>>

Next ==
    \/ study = "signals" /\ Control(Signals!Next)
    \/ study = "efficiency" /\ Policy(Efficiency!Next)
    \/ study = "selection" /\ Pick(Selection!Next)
    \/ study = "scoped" /\ Pick(Scoped!Next)
    \/ study = "inspector" /\ Inspect(Inspector!Next)

vars == <<study, controlVars, policyVars, selectionVars, inspectorVars>>

Spec == Init /\ [][Next]_vars

-----------------------------------------------------------------------------
(* Through a pidfd a signal reaches only the identity it was meant for.  A  *)
(* tree is signalled descendants first and root last, and success is        *)
(* reported only when every target was signalled or is gone, with pidfds    *)
(* and without; a descriptor is open exactly while it is needed             *)
(* (lsm_process_control_tree).  The targets are those enumerated: parents   *)
(* are read one after the other, and a process that never was a descendant  *)
(* may be among them (process_backend_linux.c:1667).                        *)
TreeSignalled ==
    study = "signals" =>
        /\ Signals!TypeOK
        /\ Signals!SignalHitsMeant
        /\ Signals!DescendantsFirst
        /\ Signals!ReportHonest

(* The restore table remembers exactly the processes whose efficiency mode  *)
(* was enabled and not disabled since, once each and never more than fit;   *)
(* a disable that reports success has brought back what was captured, and   *)
(* an enable that reports failure has changed nothing                       *)
(* (lsm_process_set_efficiency).  Two exceptions concern the I/O priority:  *)
(* one that the first enable was refused and a later one was granted is not *)
(* brought back, as the entry does not ask for it                           *)
(* (process_backend_linux.c:1430, against process_backend.h:123-126); and   *)
(* one that a failing enable cannot put back stays idle.                    *)
EfficiencyHonest ==
    /\ [](study = "efficiency" => Efficiency!TypeOK /\ Efficiency!OwedRemembered)
    /\ [][Efficiency!ReturnHonest]_vars

(* An action reaches only instances the user picked, and those of a group   *)
(* leaves first, however PIDs are reused, groups change and models are      *)
(* rebuilt between the click, the dialog and the confirmation               *)
(* (process_actions.c, processes_ui.c, details_page.c).  On the page where  *)
(* it was made the selection is a process of the snapshot or it is gone,    *)
(* and a recording ends with its process.  The exception: a picked group is *)
(* selected again by its title, "Name (N)", with the members it then has.   *)
ActionsHitPicked ==
    /\ study = "selection" =>
          /\ Selection!TypeOK
          /\ Selection!IssuedPicked /\ Selection!DescendantsFirst
          /\ Selection!SelectionLive /\ Selection!RecordingLive
    /\ study = "scoped" =>
          /\ Scoped!TypeOK
          /\ Scoped!IssuedPicked /\ Scoped!DescendantsFirst
          /\ Scoped!SelectionLive /\ Scoped!RecordingLive

(* "A recycled process identifier must never redirect an existing inspector *)
(* to a different process" (process_inspector.c): a list shown was read     *)
(* from the window's process, and neither task nor timer comes back to an   *)
(* inspector that was freed.                                                *)
InspectorOwn ==
    study = "inspector" =>
        /\ Inspector!TypeOK
        /\ Inspector!ListsOwn /\ Inspector!InspectorTasksHonest

=============================================================================
