--------------------------- MODULE ProcessSelection ---------------------------
(***************************************************************************)
(* What the user picked and what an action reaches.  Two pages show the    *)
(* same process snapshot, Processes in groups (src/processes_ui.c) and     *)
(* Details as a table (src/details_page.c); both write one selection, and  *)
(* the actions of src/process_actions.c read it, some before and some      *)
(* after a modal dialog under which snapshots keep arriving.               *)
(*                                                                         *)
(* A process is a PID and an instance.  life[p] counts births and deaths   *)
(* of PID p: an odd number is the instance that is alive, an even one      *)
(* means that the PID is free.  Names, searches and filters are abstracted *)
(* to the set of PIDs they let through.                                    *)
(***************************************************************************)
EXTENDS Integers, Sequences, FiniteSets, SequencesExt

CONSTANTS
    Pids,           \* PIDs above 1, the ones actions accept.
    Lives,          \* Bound: the values life[p] takes, for every PID p.
    Second,         \* Members of Pids \X Nat that belong to the second group.
    Parent,         \* Parent PIDs: [Pids -> Pids \cup {0}].
    Searches,       \* What search terms can be typed: sets of PIDs they match.
    Scopes,         \* Scopes of the Details page, of "all" and "active".
    Exclusions      \* What filters can be saved: sets of PIDs they hide.

(* What the constants stand for.                                            *)
SelectionAssumption ==
    /\ Pids \subseteq Nat \ {0, 1} /\ IsFiniteSet(Pids)
    /\ Lives \in [Pids -> SUBSET Nat] /\ {} \notin Range(Lives)
    /\ \A p \in Pids : IsFiniteSet(Lives[p])
    /\ Second \subseteq Pids \X Nat
    /\ Parent \in [Pids -> Pids \cup {0}]
    /\ Searches \subseteq SUBSET Pids /\ Pids \in Searches
    /\ "all" \in Scopes /\ Scopes \subseteq {"all", "active"}
    /\ Exclusions \subseteq SUBSET Pids

VARIABLES
    life, busy,         \* The published snapshot: births, and who is active.
    front,              \* runtime.active_tab.
    search, scope,      \* The search entry of each page, details_scope.
    excluded,           \* process.filters: the PIDs they hide.
    model_dirty, structure, rows, highlight,
                        \* Per page: *_model_dirty, what the signature was
                        \* computed from ({} before the first time), the
                        \* stored rows and the tree's own selection.
    selected, group,    \* process.selected_*, process.selected_group_*.
    recording,          \* process.recording_pid and .recording_instance_id.
    dialog,             \* The modal dialog and what it captured.
    \* History variables: the instances the user picked, the page it was done
    \* on, whether a rebuild has since selected others, in a group of the same
    \* title, and the processes the latest confirmed action was issued to.
    picked, picked_on, retitled, issued

tableVars == <<model_dirty, structure, rows, highlight>>
contextVars == <<life, busy, front, search, scope, excluded>>
selectionVars == <<selected, group, picked, picked_on, retitled>>
vars == <<contextVars, tableVars, selectionVars, recording, dialog, issued>>

Pages == {"processes", "details"}
NoRow == <<"none", 0>>
Nobody == [pid |-> 0, instance |-> 0]
NoGroup == [name |-> <<>>, members |-> <<>>]
NoDialog == [kind |-> "none", targets |-> <<>>]

Instance(p) == IF life[p] % 2 = 1 THEN life[p] ELSE 0
Process(p) == [pid |-> p, instance |-> Instance(p)]
Alive == {p \in Pids : Instance(p) # 0}
Instances == UNION Range(Lives)
Processes == [pid : Pids, instance : Instances \ {0}]

TypeOK ==
    /\ \A p \in Pids : life[p] \in Lives[p]
    /\ busy \subseteq Pids
    /\ front \in Pages \cup {"other"}
    /\ search \in [Pages -> Searches] /\ scope \in Scopes
    /\ excluded \in Exclusions \cup {{}}
    /\ model_dirty \in [Pages -> BOOLEAN]
    /\ \A page \in Pages : rows[page] \subseteq Processes
    /\ selected \in [pid : Pids \cup {0}, instance : Instances \cup {0}]
    /\ group.members \in Seq(Processes)
    /\ recording \in Processes \cup {Nobody}
    /\ dialog.targets \in Seq(Processes)
    /\ picked \subseteq Processes /\ issued \in Seq([pid : Pids, instance : Instances])

Init ==
    /\ life = [p \in Pids |-> Min(Lives[p])] /\ busy = Pids
    /\ front = "other"
    /\ search = [page \in Pages |-> Pids] /\ scope = "all"
    /\ excluded = {}
    /\ model_dirty = [page \in Pages |-> TRUE]
    /\ structure = [page \in Pages |-> {}]
    /\ rows = [page \in Pages |-> {}]
    /\ highlight = [page \in Pages |-> NoRow]
    /\ selected = Nobody /\ group = NoGroup
    /\ recording = Nobody /\ dialog = NoDialog
    /\ picked = {} /\ picked_on = "none" /\ retitled = FALSE /\ issued = <<>>

-----------------------------------------------------------------------------
(* The models of the two pages.  Primed, because the handler that changes   *)
(* the snapshot, the search or the page in front presents before it returns.*)

(* process_identity: the application, or the name with its category.  The   *)
(* cache in front of it is keyed by PID and instance.                       *)
Key(process) == IF <<process.pid, process.instance>> \in Second THEN "b" ELSE "a"

(* process_matches_search, process_excluded.                                *)
Matching(page) == (Alive \cap search[page]) \ excluded

(* The processes a page lets through; on Details the scope counts too.      *)
Visible(page) ==
    {Process(p) : p \in {q \in Matching(page) :
        page = "details" /\ scope = "active" => q \in busy}}

(* The groups of the Processes page.                                        *)
Members(key) == {process \in Visible("processes") : Key(process) = key}
GroupKeys == {Key(process) : process \in Visible("processes")}

(* A group's row is titled with its name and, from two on, its count; the   *)
(* two groups here have the same name, as "background:x" and "system:x" do. *)
Title(key) == <<"name", Cardinality(Members(key))>>

(* The member that stands for the group: the first in snapshot order.       *)
Representative(key) ==
    CHOOSE process \in Members(key) :
        \A other \in Members(key) : process.pid <= other.pid

(* What the structure signature of a page is computed from: on Processes    *)
(* the rows with their groups, on Details every process of the snapshot.    *)
grouped_structure_signature ==
    {<<Key(process), process>> : process \in Visible("processes")}
process_structure_signature == {<<Process(p), Parent[p]>> : p \in Alive}

Structure(page) ==
    IF page = "processes" THEN grouped_structure_signature
    ELSE process_structure_signature

(* Steps from a process to the root of the snapshot, the guard included.    *)
Depth(p) ==
    LET up[n \in 0 .. Cardinality(Pids)] == IF n = 0 THEN p
                         ELSE IF up[n - 1] \in Alive THEN Parent[up[n - 1]] ELSE 0
    IN  Cardinality({n \in 1 .. Cardinality(Alive) :
                        up[n] # 0 /\ up[n] # up[n - 1] /\ up[n - 1] \in Alive})

(* select_group_processes: children before their parents.                   *)
DeepestFirst(members) ==
    LET depth == [process \in members |-> Depth(process.pid)]
    IN  SetToSortSeq(members, LAMBDA a, b :
            \/ depth[a] > depth[b]
            \/ depth[a] = depth[b] /\ a.pid > b.pid)

(* lsm_process_selection_set: a row holds a PID only, its instance is taken *)
(* from the present snapshot.                                               *)
Resolve(row) ==
    CASE row[1] = "process" -> Process(row[2])
      [] row[1] = "group"   -> Representative(row[2])
      [] OTHER              -> Nobody

ResolveGroup(row) ==
    IF row[1] = "group" /\ Cardinality(Members(row[2])) > 1
    THEN [name |-> Title(row[2]), members |-> DeepestFirst(Members(row[2]))]
    ELSE NoGroup

(* The rows of a page after it was rebuilt.                                 *)
RowsOf(page) ==
    IF page = "details"
    THEN {<<"process", process.pid>> : process \in Visible(page)}
    ELSE {<<"group", key>> : key \in GroupKeys}
         \cup UNION {{<<"process", process.pid>> : process \in Members(key)} :
                        key \in {k \in GroupKeys : Cardinality(Members(k)) > 1}}

(* Mutant: the rebuild looks for the PID alone.                             *)
Mut_Reselected(page, wanted, title) ==
    {row \in RowsOf(page) : row[1] = "process" /\ row[2] = wanted.pid}

(* The rows a rebuild selects again: the process by PID and instance, also  *)
(* as a group of one, and a group by its title.                             *)
Reselected(page, wanted, title) ==
    {row \in RowsOf(page) :
        \/ row[1] = "process" /\ Process(row[2]) = wanted
        \/ row[1] = "group" /\ title # <<>> /\ Title(row[2]) = title
        \/ row[1] = "group" /\ Members(row[2]) = {wanted}}

(* What presenting a page reads and writes.                                 *)
View == [structure |-> structure, rows |-> rows, highlight |-> highlight,
         selected |-> selected, group |-> group, picked |-> picked,
         retitled |-> retitled]

Become(views) ==
    \E view \in views :
        /\ structure' = view.structure /\ rows' = view.rows
        /\ highlight' = view.highlight
        /\ selected' = view.selected /\ group' = view.group
        /\ retitled' = view.retitled

(* rebuild_grouped_model, rebuild_details_model.  Clearing the store takes  *)
(* the highlighted row away, which clears the selection; the rows that      *)
(* match it are selected again, a group with whatever members it now has.   *)
(* GTK selects a row only while its ancestors are expanded, so which of     *)
(* them ends up selected, if any, is left open.                             *)
Rebuilt(page, view) ==
    {LET kept == row = NoRow /\ view.highlight[page] = NoRow IN
       [structure |-> [view.structure EXCEPT ![page] = Structure(page)],
        rows      |-> [view.rows EXCEPT ![page] = Visible(page)],
        highlight |-> [view.highlight EXCEPT ![page] = row],
        selected  |-> IF kept THEN view.selected ELSE Resolve(row),
        group     |-> IF kept THEN view.group ELSE ResolveGroup(row),
        picked    |-> view.picked,
        retitled  |-> \/ view.retitled
                      \/ ~(Range(ResolveGroup(row).members) \subseteq view.picked)] :
     row \in Reselected(page, view.selected, view.group.name) \cup {NoRow}}

(* update_grouped_model_values, update_details_model_values: every stored   *)
(* row is written again from the process that has its PID.                  *)
UpdatedInPlace(page, view) ==
    [view EXCEPT !.rows[page] =
        {Process(process.pid) : process \in view.rows[page]}]

(* lsm_processes_present_snapshot, lsm_details_present_snapshot, with the   *)
(* structure declared invalid before (a new search, scope or filter) or not.*)
Presented(page, restructured, view) ==
    IF restructured \/ view.structure[page] # Structure(page)
    THEN Rebuilt(page, view) ELSE {UpdatedInPlace(page, view)}

(* The handler changes what is shown and presents the page before it        *)
(* returns, or presents nothing.                                            *)
Present(page, restructured) ==
    \E view \in {View} : Become(Presented(page, restructured, view)')

PresentNothing == UNCHANGED <<structure, rows, highlight, selected, group, retitled>>

-----------------------------------------------------------------------------
(* Actions.                                                                 *)

(* append_record_if_needed: recording ends with its process.                *)
StillRecorded ==
    IF recording # Nobody /\ life'[recording.pid] = recording.instance
    THEN recording ELSE Nobody

(* consume_completed_process_snapshot: processes came and went, the page in *)
(* front is presented and the other one marked.  It also runs under a modal *)
(* dialog, whose nested loop dispatches the timers.                         *)
Publish ==
    /\ \E births \in [Pids -> Instances \cup {0}] :
         /\ \A p \in Pids : births[p] \in Lives[p] /\ births[p] >= life[p]
         /\ life' = births
    /\ busy' \in IF "active" \in Scopes THEN SUBSET Pids ELSE {busy}
    /\ life' # life \/ busy' # busy
    /\ UNCHANGED <<front, search, scope, excluded, dialog>>
    /\ recording' = StillRecorded
    /\ issued' = <<>>
    /\ IF front \in Pages THEN Present(front, FALSE) ELSE PresentNothing
    /\ UNCHANGED <<picked, picked_on>>
    /\ model_dirty' = [page \in Pages |-> page # front]

(* on_registry_tab_switched and the page's enter hook.                      *)
SwitchTab(tab) ==
    /\ dialog = NoDialog /\ tab # front
    /\ front' = tab
    /\ issued' = <<>>
    /\ UNCHANGED <<life, busy, search, scope, excluded, recording, dialog>>
    /\ IF tab \in Pages /\ model_dirty[tab]
       THEN Present(tab, FALSE) ELSE PresentNothing
    /\ UNCHANGED <<picked, picked_on>>
    /\ model_dirty' = [page \in Pages |-> page # tab /\ model_dirty[page]]

(* lsm_processes_go_to_details: the Details search is emptied and its table *)
(* rebuilt around the selection.                                            *)
lsm_processes_go_to_details ==
    /\ dialog = NoDialog /\ front = "processes" /\ selected.pid # 0
    /\ front' = "details"
    /\ search' = [search EXCEPT !["details"] = Pids]
    /\ issued' = <<>>
    /\ UNCHANGED <<life, busy, scope, excluded, recording, dialog>>
    /\ Present("details", TRUE) /\ UNCHANGED <<picked, picked_on>>
    /\ model_dirty' = [model_dirty EXCEPT !["details"] = FALSE]

(* grouped_search_changed, refilter_processes.                              *)
Search(terms) ==
    /\ dialog = NoDialog /\ front \in Pages /\ search[front] # terms
    /\ search' = [search EXCEPT ![front] = terms]
    /\ issued' = <<>>
    /\ UNCHANGED <<life, busy, front, scope, excluded, recording, dialog>>
    /\ Present(front, TRUE) /\ UNCHANGED <<picked, picked_on>>
    /\ UNCHANGED model_dirty

process_scope_changed(chosen) ==
    /\ dialog = NoDialog /\ front = "details" /\ scope # chosen
    /\ scope' = chosen
    /\ issued' = <<>>
    /\ UNCHANGED <<life, busy, front, search, excluded, model_dirty, recording,
                   dialog>>
    /\ Present("details", TRUE) /\ UNCHANGED <<picked, picked_on>>

(* lsm_process_filters_dialog: once the new filters are saved and loaded    *)
(* again, both pages are presented, Details before Processes and also the   *)
(* one that is not in front.  A save that fails changes nothing.            *)
lsm_process_filters_dialog(hidden) ==
    /\ dialog = NoDialog /\ excluded # hidden
    /\ excluded' = hidden
    /\ issued' = <<>>
    /\ UNCHANGED <<life, busy, front, search, scope, recording, dialog>>
    /\ \E view \in {View} :
         Become(UNION {Presented("processes", TRUE, next) :
                        next \in Presented("details", TRUE, view)}')
    /\ UNCHANGED <<picked, picked_on>>
    /\ model_dirty' = [page \in Pages |-> FALSE]

(* grouped_selection_changed, selected_process_changed: the user selects a  *)
(* row that is not selected yet.  What is picked is what the row shows.     *)
SelectRow(row) ==
    /\ dialog = NoDialog /\ front \in Pages
    /\ row \in RowsOf(front) /\ row # highlight[front]
    /\ front = "details" => \E process \in rows[front] : process.pid = row[2]
    /\ highlight' = [highlight EXCEPT ![front] = row]
    /\ selected' = Resolve(row)
    /\ group' = ResolveGroup(row)
    /\ picked' = {process \in rows[front] :
                    IF row[1] = "process" THEN process.pid = row[2]
                    ELSE Key(process) = row[2]}
    /\ picked_on' = front /\ retitled' = FALSE
    /\ issued' = <<>>
    /\ UNCHANGED <<life, busy, front, search, scope, excluded, model_dirty, structure,
                   rows, recording, dialog>>

Known == selected.instance # 0 /\ selected = Process(selected.pid)

(* A dialog opens over the page, holding the processes captured for it.     *)
Open(kind, captured) ==
    /\ dialog' = [kind |-> kind, targets |-> captured]
    /\ issued' = <<>>
    /\ UNCHANGED <<contextVars, tableVars, selectionVars, recording>>

Ready == dialog = NoDialog /\ front \in Pages /\ selected.pid > 1

(* lsm_processes_end_selected, up to its confirmation: the members of the   *)
(* group are copied, or the one process.                                    *)
lsm_processes_end_selected ==
    /\ Ready /\ selected.instance # 0
    /\ Open("end", IF group # NoGroup THEN group.members ELSE <<selected>>)

(* process_action_activate for the actions that ask first: end tree, force  *)
(* terminate and CPU affinity.                                              *)
process_action_activate ==
    /\ Ready /\ Known /\ group = NoGroup
    /\ Open("action", <<selected>>)

(* custom_nice_activate captures nothing.                                   *)
custom_nice_activate ==
    /\ Ready /\ Known /\ group = NoGroup
    /\ Open("nice", <<>>)

(* What is done without asking: priority, suspend, resume, efficiency mode, *)
(* and the rest when confirmations are switched off.  The menu may have     *)
(* been open for any time.                                                  *)
priority_activate ==
    /\ Ready /\ group = NoGroup
    /\ issued' = <<selected>>
    /\ UNCHANGED <<contextVars, tableVars, selectionVars, recording, dialog>>

(* The processes a confirmed dialog reaches; custom_nice_activate reads the *)
(* selection again, which by then may be gone.                              *)
Targets ==
    IF dialog.kind # "nice" THEN dialog.targets
    ELSE IF selected.pid = 0 THEN <<>> ELSE <<selected>>

Confirm ==
    /\ dialog # NoDialog
    /\ dialog' = NoDialog
    /\ issued' = Targets
    /\ UNCHANGED <<contextVars, tableVars, selectionVars, recording>>

Cancel ==
    /\ dialog # NoDialog
    /\ dialog' = NoDialog
    /\ issued' = <<>>
    /\ UNCHANGED <<contextVars, tableVars, selectionVars, recording>>

(* lsm_process_record_set: the selected process, or nobody any more.        *)
ToggleRecording ==
    /\ dialog = NoDialog /\ front \in Pages
    /\ IF recording # Nobody THEN recording' = Nobody
       ELSE /\ Known /\ group = NoGroup
            /\ recording' = selected
    /\ issued' = <<>>
    /\ UNCHANGED <<contextVars, tableVars, selectionVars, dialog>>

Next ==
    \/ Publish
    \/ \E tab \in Pages \cup {"other"} : SwitchTab(tab)
    \/ lsm_processes_go_to_details
    \/ \E terms \in Searches : Search(terms)
    \/ \E chosen \in Scopes : process_scope_changed(chosen)
    \/ \E row \in ({"process"} \X Pids) \cup ({"group"} \X {"a", "b"}) :
         SelectRow(row)
    \/ \E hidden \in Exclusions : lsm_process_filters_dialog(hidden)
    \/ lsm_processes_end_selected \/ process_action_activate
    \/ custom_nice_activate \/ priority_activate
    \/ Confirm \/ Cancel \/ ToggleRecording

Spec == Init /\ [][Next]_vars

-----------------------------------------------------------------------------
(* An action reaches only instances the user picked: however PIDs are       *)
(* reused, groups change and models are rebuilt between the click, the      *)
(* dialog and the confirmation (processes_ui.c: a later action "cannot      *)
(* accidentally transfer selection to a recycled PID").  The exception is a *)
(* picked group: a rebuild selects again the group that has the same title, *)
(* a name and a number, with members the user may never have seen           *)
(* (append_group).  It cannot befall who picked a single process.           *)
IssuedPicked ==
    /\ ~retitled => Range(issued) \subseteq picked
    /\ retitled => Cardinality(picked) > 1

(* As long as the user stays on the page where the choice was made, the     *)
(* selection is a process of the snapshot or it is gone: it never names a   *)
(* process that ended while its row lives on for the PID's next owner.      *)
SelectionLive ==
    (/\ picked_on = front /\ front \in Pages
     /\ selected.instance # 0 /\ highlight[front] # NoRow)
        => selected = Process(selected.pid)

(* A recording follows one process and ends with it.                        *)
RecordingLive ==
    recording # Nobody => recording = Process(recording.pid)

(* A group is ended leaves first: of two members the descendant is asked    *)
(* before its ancestor (select_group_processes).                            *)
DescendantsFirst ==
    \A i, j \in 1 .. Len(issued) :
        Parent[issued[i].pid] = issued[j].pid /\ issued[i] # issued[j]
            => i < j

=============================================================================
