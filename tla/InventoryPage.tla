----------------------------- MODULE InventoryPage -----------------------------
(***************************************************************************)
(* A page that shows an inventory collected in the background: Services    *)
(* (src/services.c), Users (src/users.c), Startup Apps (src/startup.c) and *)
(* File Systems (src/filesystems.c).  All four run one GTask per refresh   *)
(* and one per action and apply the results on the main thread; they       *)
(* differ in what is said of "page".                                       *)
(*                                                                         *)
(* The inventory outside the program (systemd, logind, the autostart       *)
(* folder, the mounts) is a version number that every change advances.     *)
(* What the page shows is the version the worker read.                     *)
(***************************************************************************)
EXTENDS Naturals, FiniteSets

CONSTANTS
    Rows,           \* The rows a user can select.
    Actions,        \* Actions the user may start.
    MaxVersion      \* Bound: versions of the inventory.

None == "none"

InventoryAssumption ==
    None \notin Rows /\ IsFiniteSet(Actions) /\ MaxVersion \in Nat \ {0}

VARIABLES
    page,                                   \* Which page this is.
    version,                                \* The inventory outside.
    refresh_pending, refresh_again, action_pending,
    task, collected, preserve,              \* Refresh tasks.
    action,                                 \* Action tasks.
    shown, available, selection,            \* The list.
    paused, visible, open,                  \* The application.
    asked                                   \* History: newest version a
                                            \* refresh was asked for.

pendingVars == <<refresh_pending, refresh_again>>
taskVars    == <<task, collected, preserve>>
listVars    == <<shown, available, selection>>
appVars     == <<paused, visible, open>>

workVars    == <<pendingVars, action_pending, taskVars, action, listVars,
                 appVars, asked>>

vars == <<page, version, workVars>>

-----------------------------------------------------------------------------
(* Where the four pages differ.  Users behaves like Services.               *)
Pages == {"services", "startup", "filesystems"}

(* A refresh asked for during another is run after it.                      *)
Coalesces == page \in {"startup", "filesystems"}
(* The active-page timer refreshes the page.                                *)
Periodic == page \in {"services", "filesystems"}
(* The user can act on a row; one action at a time.                         *)
HasActions == page # "filesystems"
SerialActions == page = "startup"
(* A failed action refreshes too.                                           *)
AlwaysRefresh == page = "startup"
(* The selection at the start of a refresh is restored at its end.          *)
KeepsSelection == page = "services"
(* A failed collection leaves the list as it was.                           *)
KeepsOnFailure == page = "filesystems"

-----------------------------------------------------------------------------

(* GTasks the thread pool may run for the page at the same time.            *)
Tasks == {1, 2}
TaskStates == {"none", "collect", "success", "failure"}
ActionStates == {"none", "run", "success", "failure", "over"}
Versions == 0 .. MaxVersion

TypeOK ==
    /\ page \in Pages
    /\ version \in Versions
    /\ refresh_pending \in BOOLEAN
    /\ refresh_again \in BOOLEAN
    /\ action_pending \in 0 .. Cardinality(Actions)
    /\ task \in [Tasks -> TaskStates]
    /\ collected \in [Tasks -> Versions]
    /\ preserve \in [Tasks -> Rows \cup {None}]
    /\ action \in [Actions -> ActionStates]
    /\ shown \in Versions
    /\ available \in BOOLEAN
    /\ selection \in Rows \cup {None}
    /\ paused \in BOOLEAN
    /\ visible \in BOOLEAN
    /\ open \in BOOLEAN
    /\ asked \in Versions

(* The page has been built and not been shown yet.                          *)
Init ==
    /\ page \in Pages
    /\ version = 1
    /\ refresh_pending = FALSE
    /\ refresh_again = FALSE
    /\ action_pending = 0
    /\ task = [t \in Tasks |-> "none"]
    /\ collected = [t \in Tasks |-> 0]
    /\ preserve = [t \in Tasks |-> None]
    /\ action = [a \in Actions |-> "none"]
    /\ shown = 0
    /\ available = FALSE
    /\ selection = None
    /\ paused = FALSE
    /\ visible = FALSE
    /\ open = TRUE
    /\ asked = 0

-----------------------------------------------------------------------------
(* Mutant: a second refresh may overlap the first.                          *)
Mut_RefreshBlocked(pending) == FALSE

RefreshBlocked(pending) == pending

(* A page that coalesces remembers the request, the others drop it.         *)
Remember(again) == Coalesces \/ again

(* lsm_*_refresh, where the handler that calls it has left the pending      *)
(* flags at "pending" and "again", the tasks at "tasks" and the selection   *)
(* at "row".                                                                *)
Refresh(pending, again, tasks, row) ==
    /\ asked' = version'
    /\ IF RefreshBlocked(pending)
       THEN /\ refresh_pending' = pending
            /\ refresh_again' = Remember(again)
            /\ task' = tasks
            /\ UNCHANGED preserve
       ELSE \E t \in Tasks :
                /\ tasks[t] = "none"
                /\ \A u \in 1 .. t - 1 : tasks[u] # "none"
                /\ refresh_pending' = TRUE
                /\ refresh_again' = FALSE
                /\ task' = [tasks EXCEPT ![t] = "collect"]
                /\ preserve' = [preserve EXCEPT ![t] =
                                    IF KeepsSelection THEN row ELSE None]

RefreshNow == Refresh(refresh_pending, refresh_again, task, selection)

NoRefresh(pending, again, tasks) ==
    /\ refresh_pending' = pending
    /\ refresh_again' = again
    /\ task' = tasks
    /\ UNCHANGED <<preserve, asked>>

-----------------------------------------------------------------------------
(* Main-thread handlers.                                                    *)

(* The page's own button or search box, F5, or entering the tab; none of    *)
(* them looks at the pause.                                                 *)
UserRefreshes ==
    /\ open
    /\ visible' \in {visible, TRUE}
    /\ UNCHANGED version
    /\ RefreshNow
    /\ UNCHANGED <<action_pending, collected, action, listVars, paused, open>>

LeavePage ==
    /\ open /\ visible
    /\ visible' = FALSE
    /\ UNCHANGED <<version, pendingVars, action_pending, taskVars, action,
                   listVars, paused, open, asked>>

TogglePause ==
    /\ open
    /\ paused' = ~paused
    /\ UNCHANGED <<version, pendingVars, action_pending, taskVars, action,
                   listVars, visible, open, asked>>

(* lsm_services_update, lsm_users_update, lsm_filesystems_update.           *)
PeriodicUpdate ==
    /\ open /\ Periodic
    /\ ~paused /\ visible
    /\ UNCHANGED version
    /\ RefreshNow
    /\ UNCHANGED <<action_pending, collected, action, listVars, appVars>>

SelectRow(row) ==
    /\ open /\ shown # 0
    /\ selection' = row
    /\ UNCHANGED <<version, pendingVars, action_pending, taskVars, action,
                   shown, available, appVars, asked>>

(* A button that acts on the selected row: the row's identity is copied     *)
(* into an immutable task.                                                  *)
StartAction(a) ==
    /\ open /\ HasActions
    /\ selection # None
    /\ action[a] = "none"
    /\ SerialActions => action_pending = 0
    /\ action_pending' = action_pending + 1
    /\ action' = [action EXCEPT ![a] = "run"]
    /\ UNCHANGED <<version, pendingVars, taskVars, listVars, appVars, asked>>

CountedDown(a) == 1

ActionCompletes(a) ==
    /\ open
    /\ action[a] \in {"success", "failure"}
    /\ action' = [action EXCEPT ![a] = "over"]
    /\ action_pending' = action_pending - CountedDown(a)
    /\ UNCHANGED version
    /\ IF action[a] = "success" \/ AlwaysRefresh
       THEN RefreshNow
       ELSE NoRefresh(refresh_pending, refresh_again, task)
    /\ UNCHANGED <<collected, listVars, appVars>>

(* The list after a collection: its rows are replaced, and the selection    *)
(* the task remembers is selected again.                                    *)
Apply(t) ==
    IF task[t] = "success"
    THEN /\ shown' = collected[t]
         /\ available' = TRUE
         /\ selection' = preserve[t]
    ELSE IF KeepsOnFailure
    THEN UNCHANGED listVars
    ELSE /\ shown' = 0
         /\ available' = FALSE
         /\ selection' = None

StillPending(t) == FALSE

RefreshCompletes(t) ==
    /\ open
    /\ task[t] \in {"success", "failure"}
    /\ Apply(t)
    /\ UNCHANGED version
    /\ LET returned == [task EXCEPT ![t] = "none"]
       IN  IF refresh_again
           THEN Refresh(StillPending(t), FALSE, returned, selection')
           ELSE NoRefresh(StillPending(t), FALSE, returned)
    /\ UNCHANGED <<action_pending, collected, action, appVars>>

(* The completion finds no application behind its source object.            *)
PageGone == ~open

LateResult(t) ==
    /\ ~open
    /\ task[t] \in {"success", "failure"}
    /\ task' = [task EXCEPT ![t] = "none"]
    /\ IF PageGone THEN UNCHANGED listVars ELSE Apply(t)
    /\ UNCHANGED <<version, pendingVars, action_pending, collected, preserve,
                   action, appVars, asked>>

LateAction(a) ==
    /\ ~open
    /\ action[a] \in {"success", "failure"}
    /\ action' = [action EXCEPT ![a] = "over"]
    /\ UNCHANGED <<version, pendingVars, action_pending, taskVars, listVars,
                   appVars, asked>>

(* lsm_*_destroy, from lsm_app_shutdown: running tasks are cancelled where  *)
(* they can be, and disowned.                                               *)
Destroy ==
    /\ open
    /\ open' = FALSE
    /\ refresh_pending' = FALSE
    /\ refresh_again' = FALSE
    /\ action_pending' = 0
    /\ UNCHANGED <<version, taskVars, action, listVars, paused, visible, asked>>

-----------------------------------------------------------------------------
(* Worker threads and the world.                                            *)

CollectSucceeds(t) ==
    /\ task[t] = "collect"
    /\ task' = [task EXCEPT ![t] = "success"]
    /\ collected' = [collected EXCEPT ![t] = version]
    /\ UNCHANGED <<version, pendingVars, action_pending, preserve, action,
                   listVars, appVars, asked>>

CollectFails(t) ==
    /\ task[t] = "collect"
    /\ task' = [task EXCEPT ![t] = "failure"]
    /\ UNCHANGED <<version, pendingVars, action_pending, collected, preserve,
                   action, listVars, appVars, asked>>

WorkerCollects(t) == CollectSucceeds(t) \/ CollectFails(t)

ActionSucceeds(a) ==
    /\ action[a] = "run"
    /\ version < MaxVersion
    /\ version' = version + 1
    /\ action' = [action EXCEPT ![a] = "success"]
    /\ UNCHANGED <<pendingVars, action_pending, taskVars, listVars, appVars,
                   asked>>

ActionFails(a) ==
    /\ action[a] = "run"
    /\ action' = [action EXCEPT ![a] = "failure"]
    /\ UNCHANGED <<version, pendingVars, action_pending, taskVars, listVars,
                   appVars, asked>>

WorldChanges ==
    /\ version < MaxVersion
    /\ version' = version + 1
    /\ UNCHANGED <<pendingVars, action_pending, taskVars, action, listVars,
                   appVars, asked>>

(* The page is gone and its last task has returned.                         *)
Over ==
    /\ ~open
    /\ UNCHANGED vars

TaskStep ==
    \/ \E t \in Tasks : WorkerCollects(t) \/ RefreshCompletes(t) \/ LateResult(t)
    \/ \E a \in Actions : ActionFails(a) \/ ActionCompletes(a) \/ LateAction(a)

Next ==
    /\ UNCHANGED page
    /\ \/ TaskStep
       \/ UserRefreshes \/ LeavePage \/ TogglePause \/ PeriodicUpdate
       \/ \E row \in Rows : SelectRow(row)
       \/ \E a \in Actions : StartAction(a) \/ ActionSucceeds(a)
       \/ WorldChanges
       \/ Destroy
       \/ Over

Spec == Init /\ [][Next]_vars

(* The thread pool runs tasks, the main loop dispatches their completions,  *)
(* the active-page timer keeps firing, and a collection that is tried again *)
(* and again succeeds some time.                                            *)
FairSpec ==
    /\ Spec
    /\ \A t \in Tasks :
           /\ WF_vars(WorkerCollects(t) /\ UNCHANGED page)
           /\ SF_vars(CollectSucceeds(t) /\ UNCHANGED page)
           /\ WF_vars(RefreshCompletes(t) /\ UNCHANGED page)
    /\ WF_vars(PeriodicUpdate /\ UNCHANGED page)

-----------------------------------------------------------------------------
(* Properties.                                                              *)

(* What a page believes of its tasks is true: the pending flag, which alone *)
(* keeps refreshes apart, is set exactly while a collection is out, at most *)
(* one is, and the action counter, which decides when the shared            *)
(* cancellable is given up, is the number of actions still out, whatever    *)
(* became of any of them.                                                   *)
PendingHonest ==
    open => LET out == {t \in Tasks : task[t] # "none"}
            IN  /\ refresh_pending <=> out # {}
                /\ Cardinality(out) <= 1
                /\ action_pending =
                      Cardinality({a \in Actions :
                                     action[a] \in {"run", "success", "failure"}})

(* Results are applied as they were asked for: an older inventory never     *)
(* replaces a newer one on the page, and what arrives after lsm_*_destroy   *)
(* leaves the list alone.                                                   *)
ResultsInOrder ==
    [][/\ available' => shown' >= shown
       /\ ~open => UNCHANGED listVars]_vars

(* A refresh that was asked for shows, in the end, an inventory no older    *)
(* than the request.  A page with a timer owes it while it is visible and   *)
(* updates are not paused, also after failures; Startup Apps, which has no  *)
(* timer, owes it through coalescing alone, unless it has to say that the   *)
(* inventory is unavailable.                                                *)
RequestHonoured ==
    \A v \in Versions :
        (open /\ asked = v) ~>
            \/ shown >= v
            \/ ~open
            \/ Periodic /\ (paused \/ ~visible)
            \/ ~Periodic /\ ~available /\ ~refresh_pending

=============================================================================
