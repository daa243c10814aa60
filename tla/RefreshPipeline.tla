--------------------------- MODULE RefreshPipeline ---------------------------
(***************************************************************************)
(* The GTK main thread between the two workers and the pages: timers, F5,  *)
(* pause, navigation and the completion callback (src/app_runtime.c,       *)
(* src/app_page_registry.c, src/process_workspace.c, src/performance.c,    *)
(* src/overview.c).  ProcessScanner and MonitorSampler show that the two   *)
(* workers hand their results over correctly; here each is reduced to that *)
(* hand-over, and the question is what the pages make of it.               *)
(*                                                                         *)
(* Every handler runs to completion on the main loop, so each is one       *)
(* action.                                                                 *)
(***************************************************************************)
EXTENDS Naturals, Sequences

CONSTANTS
    Tabs,           \* The pages the user can open, of those below.
    MaxSamples,     \* Bound: native samples taken.
    MaxGeneration,  \* Last process snapshot generation before it wraps to 1.
    Wraps           \* FALSE: a bound, no scan succeeds after MaxGeneration.

(* What the constants stand for.                                            *)
PipelineAssumption ==
    /\ "performance" \in Tabs
    /\ Tabs \subseteq {"performance", "processes", "details", "overview"}
    /\ MaxSamples \in Nat
    /\ MaxGeneration \in Nat \ {0}
    /\ Wraps \in BOOLEAN

VARIABLES
    \* LsmApp: runtime.paused, .active_tab, .page_built; catalogue loaded.
    paused, active_tab, page_built, catalog_ready,
    \* LsmProcessScanner: requested_flags, the running scan, the completed
    \* snapshot and ready_dispatch_pending.
    requested, scanning, completed, dispatch_pending,
    \* process.process_snapshot, the *_model_dirty flags, the stores' content.
    snapshot, model_dirty, shown,
    \* LsmLinuxSamplerState, LsmMonitor and the performance page.
    sampler, sample, monitor, displayed_topology_generation,
    recorded_sample_generation, displayed_sample_generation,
    \* Generations drawn in the device graphs, kept in the overview history
    \* and drawn in the overview graphs; what the overview labels show.
    device_graph, overview_history, overview_graph,
    displayed_monitor_generation, displayed_process_generation

scannerVars  == <<requested, scanning, completed, dispatch_pending>>
processVars  == <<snapshot, model_dirty, shown>>
samplerVars  == <<sampler, sample>>
monitorVars  == <<monitor, displayed_topology_generation,
                  recorded_sample_generation, displayed_sample_generation,
                  device_graph, overview_history, overview_graph>>
overviewVars == <<displayed_monitor_generation, displayed_process_generation>>
shellVars    == <<paused, active_tab, page_built, catalog_ready>>

vars == <<scannerVars, processVars, samplerVars, monitorVars, overviewVars,
          shellVars>>

None == "none"
NoScan == [flags |-> None]
Flags == {"basic", "grouped", "columns"}
ProcessPages == Tabs \cap {"processes", "details"}
Scans == [flags : Flags]
Samples == [generation : 0 .. MaxSamples, topology : Nat]
Snapshots == [generation : 0 .. MaxGeneration, flags : Flags]

EmptySnapshot == [generation |-> 0, flags |-> "basic"]
EmptySample == [generation |-> 0, topology |-> 0]

TypeOK ==
    /\ paused \in BOOLEAN /\ catalog_ready \in BOOLEAN
    /\ active_tab \in Tabs /\ page_built \subseteq Tabs
    /\ requested \in Flags \cup {None}
    /\ scanning \in Scans \cup {NoScan}
    /\ completed \in Scans \cup {NoScan}
    /\ dispatch_pending \in BOOLEAN
    /\ snapshot \in Snapshots
    /\ model_dirty \in [ProcessPages -> BOOLEAN]
    /\ shown \in [ProcessPages -> Snapshots]
    /\ sampler \in {"idle", "requested", "collecting", "ready"}
    /\ sample \in Samples /\ monitor \in Samples
    /\ displayed_topology_generation \in Nat
    /\ recorded_sample_generation \in 0 .. MaxSamples
    /\ displayed_sample_generation \in 0 .. MaxSamples
    /\ device_graph \in Seq(1 .. MaxSamples)
    /\ overview_history \in Seq(1 .. MaxSamples)
    /\ overview_graph \in Seq(1 .. MaxSamples)
    /\ displayed_monitor_generation \in 0 .. MaxSamples
    /\ displayed_process_generation \in 0 .. MaxGeneration

(* lsm_app_activate has just returned: Performance is built and active, the *)
(* scanner was created with a first request queued, and the activation's    *)
(* own refresh has asked for the first sample.                              *)
Init ==
    /\ paused = FALSE /\ catalog_ready = FALSE
    /\ active_tab = "performance" /\ page_built = {"performance"}
    /\ requested = "basic" /\ scanning = NoScan
    /\ completed = NoScan /\ dispatch_pending = FALSE
    /\ snapshot = EmptySnapshot
    /\ model_dirty = [p \in ProcessPages |-> FALSE]
    /\ shown = [p \in ProcessPages |-> EmptySnapshot]
    /\ sampler = "requested" /\ sample = EmptySample /\ monitor = EmptySample
    /\ displayed_topology_generation = 0
    /\ recorded_sample_generation = 0 /\ displayed_sample_generation = 0
    /\ device_graph = <<>> /\ overview_history = <<>> /\ overview_graph = <<>>
    /\ displayed_monitor_generation = 0 /\ displayed_process_generation = 0

-----------------------------------------------------------------------------
(* The workers.                                                             *)

ScanBegins ==
    /\ scanning = NoScan /\ requested # None
    /\ scanning' = [flags |-> requested]
    /\ requested' = None
    /\ UNCHANGED <<completed, dispatch_pending, processVars, samplerVars,
                   monitorVars, overviewVars, shellVars>>

ScanCompletes ==
    /\ scanning # NoScan
    /\ Wraps \/ snapshot.generation < MaxGeneration
    /\ scanning' = NoScan
    /\ completed' = scanning
    /\ dispatch_pending' = TRUE
    /\ UNCHANGED <<requested, processVars, samplerVars, monitorVars,
                   overviewVars, shellVars>>

ScanFails ==
    /\ scanning # NoScan
    /\ scanning' = NoScan
    /\ UNCHANGED <<requested, completed, dispatch_pending, processVars,
                   samplerVars, monitorVars, overviewVars, shellVars>>

SampleBegins ==
    /\ sampler = "requested"
    /\ sample.generation < MaxSamples
    /\ sampler' = "collecting"
    /\ UNCHANGED <<sample, scannerVars, processVars, monitorVars, overviewVars,
                   shellVars>>

(* A sample may have found the hardware changed.                            *)
SampleCompletes ==
    /\ sampler = "collecting"
    /\ sampler' = "ready"
    /\ \E change \in {0, 1} :
         sample' = [sample EXCEPT !.generation = @ + 1,
                                  !.topology = @ + change]
    /\ UNCHANGED <<scannerVars, processVars, monitorVars, overviewVars,
                   shellVars>>

(* sample_once fails when the monotonic clock cannot be read.               *)
SampleFails ==
    /\ sampler = "collecting"
    /\ sampler' = "idle"
    /\ UNCHANGED <<sample, scannerVars, processVars, monitorVars, overviewVars,
                   shellVars>>

-----------------------------------------------------------------------------
(* Presents the overview labels, when that page is in front.  It is the     *)
(* last thing every handler that changes its data calls.                    *)
lsm_overview_refresh ==
    IF /\ active_tab' = "overview" /\ "overview" \in page_built'
       /\ overview_history' # <<>>
    THEN /\ displayed_monitor_generation' =
                overview_history'[Len(overview_history')]
         /\ displayed_process_generation' = snapshot'.generation
    ELSE UNCHANGED overviewVars

(* Mutant: publishing a snapshot does not mark the hidden pages.            *)
Mut_PresentProcessPages(published, entering) ==
    LET presented(p) == /\ p = active_tab' /\ p \in page_built'
                        /\ published \/ (entering /\ model_dirty[p])
    IN  /\ shown' = [p \in ProcessPages |->
                       IF presented(p) THEN snapshot' ELSE shown[p]]
        /\ model_dirty' = model_dirty

(* Brings the stores of the process pages up to date.  A publication marks  *)
(* all of them dirty; it and the enter hook present the page in front.      *)
PresentProcessPages(published, entering) ==
    LET dirty(p) == published \/ model_dirty[p]
        presented(p) == /\ p = active_tab' /\ p \in page_built'
                        /\ published \/ entering
    IN  /\ shown' = [p \in ProcessPages |->
                       IF presented(p) /\ dirty(p) THEN snapshot' ELSE shown[p]]
        /\ model_dirty' = [p \in ProcessPages |-> dirty(p) /\ ~presented(p)]

(* Zero stands for "no snapshot yet" and is skipped when the counter wraps.  *)
NextGeneration(g) == IF g = MaxGeneration THEN 1 ELSE g + 1

(* consume_completed_process_snapshot up to publication.                    *)
Consume(taken) ==
    IF taken
    THEN /\ snapshot' = [generation |-> NextGeneration(snapshot.generation),
                         flags |-> completed.flags]
         /\ completed' = NoScan
    ELSE UNCHANGED <<snapshot, completed>>

(* Mutant: the Details page asks for no enrichment.                         *)
Mut_process_scan_flags ==
    IF active_tab' = "processes" THEN "grouped" ELSE "basic"

process_scan_flags ==
    CASE active_tab' = "processes" -> "grouped"
      [] active_tab' = "details" /\ "details" \in page_built' -> "columns"
      [] OTHER -> "basic"

(* A request that matches the running scan cancels the queued follow-up.    *)
lsm_process_scanner_request ==
    requested' = IF scanning # NoScan /\ scanning.flags = process_scan_flags
                 THEN None ELSE process_scan_flags

(* lsm_process_workspace_update, with the pages' share of the handler that  *)
(* calls it: "due" when it passed the cadence check.                        *)
lsm_process_workspace_update(due, entering) ==
    LET taken == due /\ completed # NoScan
    IN  /\ Consume(taken)
        /\ PresentProcessPages(taken, entering)
        /\ IF due THEN lsm_process_scanner_request ELSE UNCHANGED requested
        /\ UNCHANGED <<scanning, dispatch_pending>>

-----------------------------------------------------------------------------
lsm_monitor_update ==
    /\ monitor' = IF sampler = "ready" THEN sample ELSE monitor
    /\ sampler' = IF sampler \in {"idle", "ready"} THEN "requested" ELSE sampler
    /\ UNCHANGED sample

(* rebuild_for_topology_change destroys the page, which forgets both        *)
(* generations, builds it again and restores the graphs.                    *)
Known(generation) ==
    IF monitor'.topology # displayed_topology_generation THEN 0 ELSE generation

RecordDue == /\ monitor'.generation # 0
             /\ monitor'.generation # Known(recorded_sample_generation)

RecordSample ==
    /\ recorded_sample_generation' =
         IF RecordDue THEN monitor'.generation
         ELSE Known(recorded_sample_generation)
    /\ device_graph' = IF RecordDue
                       THEN Append(device_graph, monitor'.generation)
                       ELSE device_graph
    /\ overview_history' = IF RecordDue
                           THEN Append(overview_history, monitor'.generation)
                           ELSE overview_history
    /\ overview_graph' = IF RecordDue /\ "overview" \in page_built
                         THEN Append(overview_graph, monitor'.generation)
                         ELSE overview_graph

(* Everything but the overview refresh it ends with.                        *)
lsm_performance_refresh ==
    /\ lsm_monitor_update
    /\ displayed_topology_generation' = monitor'.topology
    /\ RecordSample
    /\ displayed_sample_generation' =
         IF active_tab' = "performance" THEN monitor'.generation
         ELSE Known(displayed_sample_generation)

-----------------------------------------------------------------------------
(* The main loop.                                                           *)

lsm_performance_update ==
    /\ ~paused
    /\ UNCHANGED shellVars
    /\ lsm_performance_refresh
    /\ UNCHANGED <<scannerVars, processVars>>
    /\ lsm_overview_refresh

process_timer_update ==
    /\ ~paused
    /\ UNCHANGED shellVars
    /\ lsm_process_workspace_update(TRUE, FALSE)
    /\ UNCHANGED <<samplerVars, monitorVars>>
    /\ lsm_overview_refresh

(* Mutant: the completion callback ignores the pause.                       *)
Mut_MayPresent == TRUE

MayPresent == ~paused

process_snapshot_ready ==
    /\ dispatch_pending
    /\ dispatch_pending' = FALSE
    /\ UNCHANGED shellVars
    /\ LET taken == MayPresent /\ completed # NoScan
       IN  Consume(taken) /\ PresentProcessPages(taken, FALSE)
    /\ UNCHANGED <<requested, scanning, samplerVars, monitorVars>>
    /\ lsm_overview_refresh

(* F5: pause is lifted for the length of the call.                          *)
lsm_app_refresh_all ==
    /\ UNCHANGED shellVars
    /\ lsm_process_workspace_update(TRUE, FALSE)
    /\ lsm_performance_refresh
    /\ lsm_overview_refresh

on_pause_toggled ==
    /\ paused' = ~paused
    /\ UNCHANGED <<active_tab, page_built, catalog_ready, scannerVars,
                   processVars, samplerVars, monitorVars, overviewVars>>

(* The overview page replays the retained history when it is built.         *)
BuiltGraph(tab) ==
    IF tab = "overview" /\ tab \notin page_built
    THEN overview_history ELSE overview_graph

(* The switch: activate, build on first use, then the page's enter hook.    *)
on_registry_tab_switched(tab) ==
    /\ tab # active_tab
    /\ active_tab' = tab
    /\ page_built' = page_built \cup {tab}
    /\ \E due \in BOOLEAN :
         lsm_process_workspace_update(
             due /\ tab # "performance" /\ ~paused, tab \in ProcessPages)
    /\ IF tab = "performance"
       THEN lsm_performance_refresh
       ELSE /\ overview_graph' = BuiltGraph(tab)
            /\ UNCHANGED <<samplerVars, monitor, displayed_topology_generation,
                           recorded_sample_generation, device_graph,
                           displayed_sample_generation, overview_history>>
    /\ UNCHANGED <<paused, catalog_ready>>
    /\ lsm_overview_refresh

(* The application catalogue arrives: identities change, so the grouped     *)
(* page is marked and, when in front, presented.                            *)
application_catalog_complete ==
    /\ ~catalog_ready
    /\ catalog_ready' = TRUE
    /\ LET front == active_tab = "processes"
       IN  /\ model_dirty' = [p \in ProcessPages |->
                 IF p = "processes" THEN ~front ELSE model_dirty[p]]
           /\ shown' = [p \in ProcessPages |->
                 IF p = "processes" /\ front THEN snapshot ELSE shown[p]]
    /\ UNCHANGED <<paused, active_tab, page_built, snapshot, scannerVars,
                   samplerVars, monitorVars, overviewVars>>

(* The preferences dialog is applied: every built process page is presented *)
(* again and the monitor refreshed.                                         *)
lsm_preferences_apply ==
    /\ UNCHANGED <<shellVars, scannerVars, snapshot>>
    /\ shown' = [p \in ProcessPages |->
                   IF p \in page_built THEN snapshot ELSE shown[p]]
    /\ model_dirty' = [p \in ProcessPages |-> p \notin page_built]
    /\ lsm_performance_refresh
    /\ lsm_overview_refresh

SwitchTab == \E tab \in Tabs : on_registry_tab_switched(tab)

Next ==
    \/ ScanBegins \/ ScanCompletes \/ ScanFails
    \/ SampleBegins \/ SampleCompletes \/ SampleFails
    \/ lsm_performance_update \/ process_timer_update
    \/ process_snapshot_ready \/ lsm_app_refresh_all \/ on_pause_toggled
    \/ SwitchTab \/ application_catalog_complete \/ lsm_preferences_apply

Spec == Init /\ [][Next]_vars

(* The worker thread runs, some scan succeeds among infinitely many, and    *)
(* GLib keeps the two timers and the idle callback firing.                  *)
Fairness ==
    /\ WF_vars(ScanBegins) /\ WF_vars(ScanCompletes \/ ScanFails)
    /\ SF_vars(ScanCompletes)
    /\ WF_vars(SampleBegins) /\ WF_vars(SampleCompletes)
    /\ WF_vars(lsm_performance_update)
    /\ WF_vars(process_timer_update)
    /\ WF_vars(process_snapshot_ready)

FairSpec == Spec /\ Fairness

-----------------------------------------------------------------------------
(* Every sample the monitor has published is in the device graphs and in    *)
(* the overview history exactly once and in order, whichever page was in    *)
(* front, however often the topology was rebuilt, and however many handlers *)
(* saw the same sample (performance.c: "Retain graph history once per       *)
(* completed backend sample").                                              *)
SamplesRecordedOnce ==
    LET all == [g \in 1 .. monitor.generation |-> g]
    IN  device_graph = all /\ overview_history = all

(* The overview graphs, built on first use and fed one sample at a time     *)
(* afterwards, hold the retained history without a hole or a repetition.    *)
OverviewGraphComplete ==
    "overview" \in page_built => overview_graph = overview_history

(* The page in front shows the newest published data: no order of           *)
(* publication, navigation and pausing leaves a stale page on the screen.   *)
ActivePageCurrent ==
    /\ active_tab \in ProcessPages => shown[active_tab] = snapshot
    /\ active_tab = "performance" =>
         displayed_sample_generation = monitor.generation
    /\ active_tab = "overview" /\ monitor.generation # 0 =>
         /\ displayed_monitor_generation = monitor.generation
         /\ displayed_process_generation = snapshot.generation

(* A hidden process page is either marked dirty or up to date, so that      *)
(* entering it later presents what it missed.                               *)
CleanPageCurrent ==
    \A p \in ProcessPages : ~model_dirty[p] => shown[p] = snapshot

(* While updates are paused no process snapshot is published unless F5 is   *)
(* pressed: a scan that was under way when the user paused stays in the     *)
(* scanner (process_snapshot_ready, consume_completed_process_snapshot).    *)
PublishedOnlyByF5 ==
    (paused /\ paused' /\ snapshot' # snapshot) => lsm_app_refresh_all

(* A process page left in front of a running program comes to show rows     *)
(* collected with the enrichment it asks for, even when it was opened while *)
(* a scan for another page was running or after a pause.                    *)
PageEnriched ==
    \A p \in ProcessPages :
        (active_tab = p /\ ~paused) ~>
            \/ active_tab # p
            \/ paused
            \/ shown[p].flags = (IF p = "processes" THEN "grouped" ELSE "columns")
=============================================================================
