--------------------------- MODULE PerformancePages ---------------------------
(***************************************************************************)
(* The device pages of the Performance tab and their side buttons          *)
(* (src/performance.c, src/performance_selection.c), which are all built   *)
(* again when the list of devices changed, and the card of the Overview    *)
(* that leads to one of them (src/overview.c, src/overview_history.c).     *)
(*                                                                         *)
(* A device has an identity, of which its page's stack name is a hash, and *)
(* a name (sda, card0), which is its page's selection identity; devices    *)
(* are listed in the order of their names.  The processor has a page of    *)
(* its own, always.  A graph is the sequence of what was pushed: the       *)
(* sample and the device it was of.                                        *)
(***************************************************************************)
EXTENDS Integers, Sequences, SequencesExt

CONSTANTS
    Identities, Names,   \* Of devices; names are numbers.
    MaxSamples           \* Bound: samples published.

PagesAssumption ==
    /\ {"cpu", "none"} \cap Identities = {}
    /\ Names \subseteq Nat /\ 0 \notin Names /\ MaxSamples \in Nat

VARIABLES
    published,  \* The backend's newest sample, for lsm_monitor_update; and,
                \* a history, whether a listed device ever changed its name.
    monitor,    \* app->monitor: topology, sample, devices.
    ui,         \* app->performance, and runtime.selected_performance_page.
    tab,        \* active_tab: "performance" or "overview".
    card,       \* The device of the newest sample of the Overview's history.
    wanted,     \* History: the page chosen by the user, or shown in its place.
    own         \* History: the samples taken of a device since it was listed.

vars == <<published, monitor, ui, tab, card, wanted, own>>

(* Lists: some of the devices, by name.                                     *)
Lists ==
    {[i \in 1 .. Len(order) |-> [identity |-> which[order[i]], name |-> order[i]]] :
        order \in {SetToSortSeq(names, <) : names \in SUBSET Names},
        which \in {f \in [Names -> Identities] :
                      \A m, n \in Names : m # n => f[m] # f[n]}}

InOrder(list) ==
    /\ \A i \in DOMAIN list : list[i].name \in Names /\ list[i].identity \in Identities
    /\ \A i, j \in DOMAIN list : i < j => /\ list[i].name < list[j].name
                                         /\ list[i].identity # list[j].identity

Listed(list) == {list[i].identity : i \in DOMAIN list}
NameOf(list, identity) ==
    (CHOOSE device \in ToSet(list) : device.identity = identity).name

Renames(list, before) ==
    \E d \in Listed(list) \cap Listed(before) : NameOf(list, d) # NameOf(before, d)

Page(device, index) ==
    [stack_name |-> device.identity, selection_identity |-> device.name,
     index |-> index, graph |-> <<>>]
CpuPage == Page([identity |-> "cpu", name |-> 0], 0)
Stacks(u) == {u.pages[i].stack_name : i \in DOMAIN u.pages}

TypeOK ==
    /\ monitor.sample <= published.sample /\ published.sample <= MaxSamples
    /\ InOrder(monitor.devices) /\ InOrder(published.devices)
    /\ ui.pages # <<>> => Head(ui.pages).stack_name = "cpu"
    /\ tab \in {"performance", "overview"}
    /\ DOMAIN own = Listed(monitor.devices)

(* lsm_app_activate before its first page is built: the preferences name a  *)
(* page, and no device has been listed.                                     *)
Init ==
    /\ published = [topology |-> 0, sample |-> 0, devices |-> <<>>,
                    renamed |-> FALSE]
    /\ monitor = published
    /\ \E saved \in Identities \cup {"cpu"} :
          ui = [pages |-> <<>>, visible |-> "none", active |-> {},
                selected |-> saved, topology |-> 0, recorded |-> 0,
                displayed |-> 0]
    /\ tab = "performance" /\ card = "none" /\ wanted = "cpu" /\ own = <<>>

-----------------------------------------------------------------------------
(* Side buttons.  Setting a toggle emits "clicked" as a click does.         *)

(* switch_page returns while lsm_performance_selection_active.              *)
Reentered(u, toggled) == u

performance_select_side_button(u, stack) ==
    LET toggled == (u.active \ {stack}) \cup ({stack} \ u.active)
    IN  [Reentered(u, toggled) EXCEPT !.active = {stack}, !.selected = stack]

Show(u, stack) ==
    performance_select_side_button([u EXCEPT !.visible = stack], stack)

performance_synchronise_side_selection(u) ==
    IF u.visible \in Stacks(u) /\ (u.visible \notin u.active \/ u.selected # u.visible)
    THEN performance_select_side_button(u, u.visible) ELSE u

-----------------------------------------------------------------------------
(* Building, destroying and rebuilding.                                     *)

build_performance_contents(u, list, topology, visible_page) ==
    LET pages == <<CpuPage>> \o [i \in DOMAIN list |-> Page(list[i], i)]
        built == [u EXCEPT !.pages = pages, !.topology = topology, !.active = {}]
        shown == IF visible_page \in Stacks(built) THEN visible_page ELSE "cpu"
    IN  performance_synchronise_side_selection(Show(built, shown))

lsm_performance_destroy(u) ==
    [u EXCEPT !.pages = <<>>, !.visible = "none", !.active = {}, !.recorded = 0,
              !.displayed = 0]

(* page_history_matches: of the same type, and with the same selection      *)
(* identity or the same stack name; find_page_history takes the first.      *)
page_history_matches(old, page) ==
    /\ (old.stack_name = "cpu") = (page.stack_name = "cpu")
    /\ \/ old.selection_identity = page.selection_identity
       \/ old.stack_name = page.stack_name
restore_page_histories(u, snapshots) ==
    LET Matching(page) ==
            SelectSeq(snapshots, LAMBDA old : page_history_matches(old, page))
    IN  [u EXCEPT !.pages = [i \in DOMAIN u.pages |->
            IF Matching(u.pages[i]) = <<>> THEN u.pages[i]
            ELSE [u.pages[i] EXCEPT !.graph = Head(Matching(u.pages[i])).graph]]]

(* page_for_retained_selection by lsm_performance_selection_matches.        *)
page_for_retained_selection(u, previous) ==
    SelectSeq(u.pages, LAMBDA page :
        \/ page.stack_name = previous.stack_name
        \/ /\ (page.stack_name = "cpu") = (previous.stack_name = "cpu")
           /\ page.selection_identity = previous.selection_identity)

rebuild_for_topology_change(u, list, topology) ==
    LET previous == u.pages[CHOOSE i \in DOMAIN u.pages :
                               u.pages[i].stack_name = u.visible]
        built == build_performance_contents(
                     lsm_performance_destroy(u), list, topology, u.visible)
        retained == page_for_retained_selection(built, previous)
    IN  restore_page_histories(
            IF retained = <<>> THEN built ELSE Show(built, Head(retained).stack_name),
            u.pages)

(* Mutant: the pages are not built again when the list changed.             *)
Mut_Reconciled(u, m) == u

(* The test both callers of the rebuild make first.                         *)
Reconciled(u, m) ==
    IF m.topology # u.topology
    THEN rebuild_for_topology_change(u, m.devices, m.topology) ELSE u

-----------------------------------------------------------------------------
(* performance_record_core_page_sample, performance_record_device_page_-    *)
(* sample: what is at the page's index, unless the list is shorter.         *)
Push(page, m) ==
    IF page.index = 0 THEN <<[sample |-> m.sample, of |-> "cpu"]>>
    ELSE IF page.index \notin DOMAIN m.devices THEN <<>>
    ELSE <<[sample |-> m.sample, of |-> m.devices[page.index].identity]>>
RecordPages(u, m) ==
    [u EXCEPT !.recorded = m.sample,
              !.pages = [i \in DOMAIN u.pages |->
                  [u.pages[i] EXCEPT !.graph = @ \o Push(u.pages[i], m)]]]

(* lsm_overview_history_record keeps the busiest device, if one has a rate; *)
(* nothing is kept of a sample whose clock did not advance.                 *)
derive_busiest(list, kept) ==
    IF kept THEN Listed(list) \cup {"none"} ELSE {card}

(* The page of an index; one that has none leads to the first page of its   *)
(* kind, and Stay asks for no page.                                         *)
Stay == -1
ShowIndex(u, index) ==
    LET kind == SelectSeq(u.pages, LAMBDA page :
                    (page.stack_name = "cpu") = (index = 0))
        exact == SelectSeq(kind, LAMBDA page : page.index = index)
    IN  IF index = Stay \/ kind = <<>> THEN u
        ELSE Show(u, Head(IF exact = <<>> THEN kind ELSE exact).stack_name)

(* lsm_performance_refresh: take the sample, reconcile, record and present; *)
(* then the page of an index is shown, if there is one to show.             *)
lsm_performance_refresh(active_tab, index) ==
    LET m == published
        reconciled == Reconciled(ui, m)
        due == m.sample # 0 /\ m.sample # reconciled.recorded
        recorded == IF due THEN RecordPages(reconciled, m) ELSE reconciled
        present == active_tab = "performance" /\ m.sample # recorded.displayed
        u == IF present
             THEN [performance_synchronise_side_selection(recorded) EXCEPT
                      !.displayed = m.sample]
             ELSE recorded
        shown == ShowIndex(u, index)
    IN  /\ ui' = shown /\ monitor' = m
        /\ IF due THEN \E kept \in BOOLEAN : card' \in derive_busiest(m.devices, kept)
           ELSE card' = card
        /\ wanted' = IF shown = u /\ wanted \in Stacks(u) THEN wanted
                     ELSE shown.visible
        /\ own' = [d \in Listed(m.devices) |->
                      (IF d \in DOMAIN own THEN own[d] ELSE <<>>)
                      \o (IF due THEN <<m.sample>> ELSE <<>>)]

(* lsm_performance_build, with the page that was saved.                     *)
lsm_performance_build ==
    /\ ui.pages = <<>>
    /\ ui' = build_performance_contents(ui, monitor.devices, monitor.topology,
                                        ui.selected)
    /\ wanted' = ui'.visible
    /\ UNCHANGED <<published, monitor, tab, card, own>>

(* The timer.                                                               *)
lsm_performance_update ==
    /\ ui.pages # <<>>
    /\ lsm_performance_refresh(tab, Stay)
    /\ UNCHANGED <<published, tab>>

-----------------------------------------------------------------------------
(* Navigation.                                                              *)

(* A click on a side button toggles it first.  The rail shows the buttons   *)
(* of the devices together, and hides the processor's.                      *)
switch_page(stack) ==
    /\ tab = "performance" /\ stack \in Stacks(ui) \ {"cpu"} /\ ui.visible # "cpu"
    /\ LET clicked == [ui EXCEPT !.active = IF stack \in @ THEN @ \ {stack}
                                            ELSE @ \cup {stack}]
       IN  ui' = Show(clicked, stack)
    /\ wanted' = stack
    /\ UNCHANGED <<published, monitor, tab, card, own>>

(* lsm_performance_show_resource enters the tab, which refreshes it, then   *)
(* resolves the index.  The pages are those of app->monitor here, so that   *)
(* its own rebuild_for_topology_change is never due.                        *)
lsm_performance_show_resource(index) ==
    /\ ui.pages # <<>>
    /\ tab' = "performance"
    /\ \/ /\ tab = "overview"
          /\ lsm_performance_refresh("performance", index)
       \/ /\ tab = "performance"
          /\ ui' = ShowIndex(ui, index) /\ wanted' = ui'.visible
          /\ UNCHANGED <<monitor, card, own>>
    /\ UNCHANGED published

(* The shell's buttons: the processor, or the first device.                 *)
navigation_resource_clicked ==
    \E index \in {0, 1} : lsm_performance_show_resource(index)

(* overview_card_clicked, by overview_destination and                       *)
(* lsm_overview_resolve_network: the index of the card's device in the list *)
(* as it is before the tab is entered.                                      *)
overview_card_clicked ==
    /\ tab = "overview"
    /\ \E index \in DOMAIN monitor.devices :
          /\ monitor.devices[index].identity = card
          /\ lsm_performance_show_resource(index)

EnterOverview ==
    /\ ui.pages # <<>> /\ tab' = "overview"
    /\ UNCHANGED <<published, monitor, ui, card, wanted, own>>

(* The backend publishes a sample; another list raises the generation.  A   *)
(* name may be given to another device, and a device may come back under    *)
(* another name (block_instance_identity falls back to a serial number).    *)
(* Bound: the sample that brings such a list is the last.                   *)
SamplePublished ==
    /\ published.sample < MaxSamples /\ ~published.renamed
    /\ \E list \in Lists :
          published' =
                [topology |-> published.topology
                                + (IF list = published.devices THEN 0 ELSE 1),
                 sample |-> published.sample + 1, devices |-> list,
                 renamed |-> published.renamed \/ Renames(list, published.devices)
                                \/ Renames(list, monitor.devices)]
    /\ UNCHANGED <<monitor, ui, tab, card, wanted, own>>

Next ==
    \/ lsm_performance_build \/ lsm_performance_update
    \/ \E stack \in Identities : switch_page(stack)
    \/ navigation_resource_clicked \/ overview_card_clicked \/ EnterOverview
    \/ SamplePublished

Spec == Init /\ [][Next]_vars

-----------------------------------------------------------------------------
(* After every handler the pages are those of app->monitor: the index each  *)
(* reads its figures from holds its own device.                             *)
PagesAligned ==
    ui.pages # <<>> =>
        /\ ui.topology = monitor.topology
        /\ Stacks(ui) = {"cpu"} \cup Listed(monitor.devices)
        /\ \A i \in DOMAIN ui.pages :
              ui.pages[i].index > 0 =>
                  monitor.devices[ui.pages[i].index].identity = ui.pages[i].stack_name

(* One button is down, that of the page shown, which is the one the         *)
(* preferences will save, and which the user chose: neither a sample nor a  *)
(* rebuild leads away from it while its device is there.  The exception: a  *)
(* device that comes back under another name may lose the selection to the  *)
(* one that got its name (performance_selection.c:41).                      *)
SelectionKept ==
    ui.pages # <<>> =>
        /\ ui.selected = ui.visible /\ ui.active = {ui.visible}
        /\ ui.visible \in Stacks(ui)
        /\ monitor.renamed \/ ui.visible = wanted

(* However often the pages were built again, a graph has each sample taken  *)
(* of its device since it was listed, once and in order.  The exception: a  *)
(* device that comes back under another name may get the graph of the one   *)
(* that had this name (page_history_matches).                               *)
HistoryComplete ==
    \A i \in DOMAIN ui.pages :
        LET page == ui.pages[i]
            IsOwn(entry) ==
                entry.of = page.stack_name /\ entry.sample \in ToSet(own[page.stack_name])
            Number(entry) == entry.sample
            entries == SelectSeq(page.graph, IsOwn)
        IN  page.index > 0 /\ ~monitor.renamed =>
                [k \in DOMAIN entries |-> Number(entries[k])] = own[page.stack_name]

(* A graph shows its page's device and no other: "Retained state and        *)
(* history use stable resource identity" (docs/ARCHITECTURE.md).            *)
HistoryByIdentity ==
    \A i \in DOMAIN ui.pages :
        \A k \in DOMAIN ui.pages[i].graph :
            ui.pages[i].graph[k].of = ui.pages[i].stack_name
=============================================================================
