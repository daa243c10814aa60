------------------------------ MODULE MCMainLoop ------------------------------
(***************************************************************************)
(* The GTK main loop: what the handlers make of the results of both        *)
(* workers (RefreshPipeline), which GLib sources call them (AppRuntime),   *)
(* and the pages of the devices (PerformancePages); and the message loop   *)
(* of the Win32 window (WindowsShell).  One study is chosen at the start:  *)
(* one page of each kind under everything the user can do; the two process *)
(* pages, which ask for different columns, while the snapshot generation   *)
(* wraps; the life of the sources; the pages of devices that come and go;  *)
(* and the Win32 window.                                                   *)
(***************************************************************************)
EXTENDS Naturals, Sequences, TLAPS

CONSTANTS
    PageTabs, ColumnTabs, MaxSamples, MaxGeneration,
    SourceTabs, UpdateIntervals, FsIntervals,
    Identities, Names, PageSamples,             \* PerformancePages
    Structures                                  \* WindowsShell

VARIABLES
    study,
    paused, active_tab, page_built, catalog_ready,
    requested, scanning, completed, dispatch_pending,
    snapshot, model_dirty, shown,
    sampler, sample, monitor, displayed_topology_generation,
    recorded_sample_generation, displayed_sample_generation,
    device_graph, overview_history, overview_graph,
    displayed_monitor_generation, displayed_process_generation,
    phase, current_tab, last_tab, initial_tab_after_paint, built,
    update_interval_ms, filesystem_update_interval_ms, recording, sources,
    saved_tab, navigated,
    published, devices, ui, tab, card, wanted, own,
    win_page, item, index, backend, ready, win_monitor, overview, ring, last,
    win_completed, processes, listed, status, rail, taken_unlisted

pipelineVars ==
    <<paused, active_tab, page_built, catalog_ready, requested, scanning,
      completed, dispatch_pending, snapshot, model_dirty, shown, sampler,
      sample, monitor, displayed_topology_generation,
      recorded_sample_generation, displayed_sample_generation, device_graph,
      overview_history, overview_graph, displayed_monitor_generation,
      displayed_process_generation>>
sourceVars ==
    <<phase, current_tab, last_tab, initial_tab_after_paint, built,
      update_interval_ms, filesystem_update_interval_ms, recording, sources,
      saved_tab, navigated>>
deviceVars == <<published, devices, ui, tab, card, wanted, own>>
windowVars ==
    <<win_page, item, index, backend, ready, win_monitor, overview, ring, last,
      win_completed, processes, listed, status, rail, taken_unlisted>>
vars == <<study, pipelineVars, sourceVars, deviceVars, windowVars>>

(* The pipeline is studied twice: "pages" with samples and snapshots that   *)
(* are counted, "columns" with no sample and generations that wrap.         *)
TabsOf(s) == IF s = "pages" THEN PageTabs ELSE ColumnTabs
SamplesOf(s) == IF s = "pages" THEN MaxSamples ELSE 0
GenerationsOf(s) == IF s = "pages" THEN MaxGeneration ELSE 1
WrapsOf(s) == s = "columns"

Pipeline(s) == INSTANCE RefreshPipeline WITH
    Tabs <- TabsOf(s), MaxSamples <- SamplesOf(s),
    MaxGeneration <- GenerationsOf(s), Wraps <- WrapsOf(s)

Sources == INSTANCE AppRuntime WITH
    Tabs <- SourceTabs, active_tab <- current_tab, page_built <- built

DevicePages == INSTANCE PerformancePages WITH
    MaxSamples <- PageSamples, monitor <- devices

(* Two disks, of which the first may be removed.                            *)
Window == INSTANCE WindowsShell WITH
    DiskLists <- {<<1, 2>>, <<2>>}, MaxSamples <- PageSamples,
    page <- win_page, monitor <- win_monitor, completed <- win_completed

ASSUME MainLoopAssumption ==
    /\ Pipeline("pages")!PipelineAssumption
    /\ Pipeline("columns")!PipelineAssumption
    /\ Sources!RuntimeAssumption
    /\ DevicePages!PagesAssumption
    /\ Window!ShellAssumption

(* Where a study begins; the variables of the others have one value.        *)
Init ==
    /\ study \in {"pages", "columns", "sources", "devices", "window"}
    /\ IF study = "pages" THEN Pipeline("pages")!Init
       ELSE Pipeline("columns")!Init
    /\ Sources!Init /\ DevicePages!Init /\ Window!Init
    /\ study # "sources" =>
           /\ last_tab = "performance"
           /\ update_interval_ms = CHOOSE u \in UpdateIntervals : TRUE
           /\ filesystem_update_interval_ms = CHOOSE f \in FsIntervals : TRUE
    /\ study # "devices" => ui.selected = "cpu"

InPages(A) ==
    /\ study = "pages" /\ A
    /\ UNCHANGED <<study, sourceVars, deviceVars, windowVars>>
InColumns(A) ==
    /\ study = "columns" /\ A
    /\ UNCHANGED <<study, sourceVars, deviceVars, windowVars>>
InSources(A) ==
    /\ study = "sources" /\ A
    /\ UNCHANGED <<study, pipelineVars, deviceVars, windowVars>>
InDevices(A) ==
    /\ study = "devices" /\ A
    /\ UNCHANGED <<study, pipelineVars, sourceVars, windowVars>>
InWindow(A) ==
    /\ study = "window" /\ A
    /\ UNCHANGED <<study, pipelineVars, sourceVars, deviceVars>>

Next ==
    \/ InPages(Pipeline("pages")!Next) \/ InColumns(Pipeline("columns")!Next)
    \/ InSources(Sources!Next) \/ InDevices(DevicePages!Next)
    \/ InWindow(Window!Next)

(* The fairness of RefreshPipeline.                                         *)
Spec ==
    /\ Init /\ [][Next]_vars
    /\ WF_vars(InColumns(Pipeline("columns")!ScanBegins))
    /\ WF_vars(InColumns(\/ Pipeline("columns")!ScanCompletes
                         \/ Pipeline("columns")!ScanFails))
    /\ SF_vars(InColumns(Pipeline("columns")!ScanCompletes))
    /\ WF_vars(InColumns(Pipeline("columns")!lsm_performance_update))
    /\ WF_vars(InColumns(Pipeline("columns")!process_timer_update))
    /\ WF_vars(InColumns(Pipeline("columns")!process_snapshot_ready))

-----------------------------------------------------------------------------
(* Every published sample is in the device graphs and in the overview       *)
(* history exactly once and in order, and the overview graphs, once built,  *)
(* hold that history; the page in front shows the newest published data,    *)
(* and a hidden process page is marked dirty or up to date (performance.c,  *)
(* overview.c, process_workspace.c).  In the Win32 window the graphs and    *)
(* the overview history hold the same samples, and the rows of the process  *)
(* list are of the snapshot held unless Overview has taken that one         *)
(* (record_completed_monitor_sample, refresh_processes).                    *)
PagesCurrent ==
    /\ study = "pages" =>
          /\ Pipeline("pages")!TypeOK
          /\ Pipeline("pages")!SamplesRecordedOnce
          /\ Pipeline("pages")!OverviewGraphComplete
          /\ Pipeline("pages")!ActivePageCurrent
          /\ Pipeline("pages")!CleanPageCurrent
    /\ study = "columns" =>
          Pipeline("columns")!TypeOK /\ Pipeline("columns")!CleanPageCurrent
    /\ study = "window" =>
          Window!TypeOK /\ Window!HistoriesAgree /\ Window!RowsExplained

(* While updates are paused only F5 publishes a process snapshot, the one   *)
(* that was complete when it was pressed.  It is about the process pages    *)
(* alone: a sample of the monitor is published by entering Performance and  *)
(* by the preferences too (app_page_registry.c:54).                         *)
PausedProcessesFrozen ==
    [][study = "pages" => Pipeline("pages")!PublishedOnlyByF5]_vars

(* A process page left in front comes to show the columns it asks for.      *)
PageEnriched == study = "columns" => Pipeline("columns")!PageEnriched

(* No GLib source outlives its slot, every id kept names an attached        *)
(* source, and none is removed twice; the timers are those the present tab  *)
(* and settings ask for, the scan's also those of a recording, which        *)
(* shortens it in the background (app_runtime.c:34); and closing the        *)
(* program remembers the tab entered last (app_runtime.c).                  *)
SourcesOwned ==
    study = "sources" =>
        /\ Sources!TypeOK
        /\ Sources!NoOrphanedSource /\ Sources!NoDanglingId
        /\ Sources!CadenceCurrent /\ Sources!TabRemembered

(* After every handler a device's page reads the figures of its own device, *)
(* the page chosen stays in front with its button down while its device is  *)
(* there, and its graph has every sample taken of the device, however often *)
(* the pages were built again (rebuild_for_topology_change).  The           *)
(* exception: a device that comes back under another name may lose the      *)
(* selection, and its graph, to and from the device that has its old name   *)
(* and the one whose name it has now (performance_selection.c:41).          *)
DevicePagesKept ==
    study = "devices" =>
        /\ DevicePages!TypeOK /\ DevicePages!PagesAligned
        /\ DevicePages!SelectionKept /\ DevicePages!HistoryComplete

(* What the status bar of the Win32 window says of the process list:         *)
(* L"%zu Windows processes - read-only" (main_windows.c:2469).              *)
ListMatchesStatus == study = "window" => Window!ListMatchesStatus
-----------------------------------------------------------------------------
(* The GLib sources.                                                        *)

SlotSet == [held : BOOLEAN, attached : BOOLEAN, period : Sources!Periods]

SourceRecords == [slot : [Sources!Owners -> SlotSet],
                  orphans : SUBSET Sources!Owners, stray : BOOLEAN]

(* Every id names an attached source, every attached source has its id in   *)
(* its slot, and no removal went astray.                                    *)
Owned(s) ==
    /\ s \in SourceRecords
    /\ s.orphans = {} /\ ~s.stray
    /\ \A o \in Sources!Owners : s.slot[o].held = s.slot[o].attached

(* The slot of a timer with that interval, 0 for none.                      *)
TimerSlot(interval) ==
    IF interval = 0 THEN Sources!NoSource
    ELSE Sources!Slot(TRUE, TRUE, interval)

(* The three timers are those of the present tab and settings; a recording  *)
(* that began or ended since leaves the process timer as it was.            *)
TimersOf(s, u, t, b, fs) ==
    /\ s.slot["performance_timer"] = Sources!Slot(TRUE, TRUE, u)
    /\ s.slot["periodic_page_timer"] =
          TimerSlot(Sources!active_periodic_policy(t, b, fs))
    /\ \E rec \in BOOLEAN :
          s.slot["process_timer"] =
              Sources!Slot(TRUE, TRUE,
                           Sources!effective_process_refresh_interval(u, t, rec))

TimersCurrent ==
    TimersOf(sources, update_interval_ms, current_tab, built,
             filesystem_update_interval_ms)

(* What will be remembered at the end: the tab entered last, or the one     *)
(* that was to be restored.                                                 *)
TabKnown ==
    /\ phase \in {"new", "failed"} => built = {} /\ ~navigated
    /\ phase = "running" => "performance" \in built
    /\ IF navigated THEN last_tab = current_tab
       ELSE built # {} => /\ last_tab = initial_tab_after_paint
                          /\ current_tab = "performance"

SourcesInv ==
    /\ Sources!TypeOK
    /\ phase \in {"new", "failed"} =>
          \A o \in Sources!Owners : sources.slot[o] = Sources!NoSource
    /\ phase # "freed" => Owned(sources)
    /\ phase = "freed" => /\ sources \in SourceRecords
                          /\ sources.orphans = {} /\ ~sources.stray
                          /\ \A o \in Sources!Owners : ~sources.slot[o].attached
    /\ phase = "running" => TimersCurrent
    /\ TabKnown
    /\ Sources!TabRemembered

(* The slots with one of them set.                                          *)
With(slots, o, slot) == [slots EXCEPT ![o] = slot]

-----------------------------------------------------------------------------
(* What the operations on a slot do to sources that are owned.              *)
LEMMA SlotsTyped ==
    /\ \A p \in Sources!Periods : Sources!Slot(TRUE, TRUE, p) \in SlotSet
    /\ Sources!NoSource \in SlotSet /\ 0 \in Sources!Periods
    BY DEF SlotSet, Sources!Slot, Sources!NoSource, Sources!Periods

(* A source added to an empty slot is owned by it.                          *)
LEMMA AddOwned ==
    ASSUME NEW s, Owned(s), NEW o \in Sources!Owners,
           NEW p \in Sources!Periods, ~s.slot[o].attached
    PROVE  /\ Owned(Sources!AddSource(s, o, p))
           /\ Sources!AddSource(s, o, p).slot =
                 With(s.slot, o, Sources!Slot(TRUE, TRUE, p))
<1>1. Sources!AddSource(s, o, p) =
          [s EXCEPT !.slot = With(s.slot, o, Sources!Slot(TRUE, TRUE, p)),
                    !.orphans = s.orphans]
    BY DEF Sources!AddSource, Owned, SourceRecords, With
<1>2. With(s.slot, o, Sources!Slot(TRUE, TRUE, p))
          \in [Sources!Owners -> SlotSet]
    BY SlotsTyped DEF Owned, SourceRecords, With
<1>3. Sources!Slot(TRUE, TRUE, p).held = Sources!Slot(TRUE, TRUE, p).attached
    BY DEF Sources!Slot
<1> QED
    BY <1>1, <1>2, <1>3 DEF Owned, SourceRecords, With

(* A source removed, or one that has run, leaves its slot empty.            *)
LEMMA RemoveOwned ==
    ASSUME NEW s, Owned(s), NEW o \in Sources!Owners
    PROVE  /\ Owned(Sources!RemoveSource(s, o))
           /\ Sources!RemoveSource(s, o).slot =
                 With(s.slot, o, Sources!NoSource)
           /\ Owned(Sources!Expire(s, o))
           /\ Sources!Expire(s, o).slot = With(s.slot, o, Sources!NoSource)
<1>1. /\ Sources!RemoveSource(s, o) =
            [s EXCEPT !.slot = With(s.slot, o, Sources!NoSource),
                      !.stray = FALSE]
      /\ Sources!Expire(s, o) =
            [s EXCEPT !.slot = With(s.slot, o, Sources!NoSource)]
    BY DEF Sources!RemoveSource, Sources!Expire, Owned, SourceRecords, With
<1>2. With(s.slot, o, Sources!NoSource) \in [Sources!Owners -> SlotSet]
    BY SlotsTyped DEF Owned, SourceRecords, With
<1>3. Sources!NoSource.held = Sources!NoSource.attached
    BY DEF Sources!NoSource, Sources!Slot
<1> QED
    BY <1>1, <1>2, <1>3 DEF Owned, SourceRecords, With

(* There is an interval of each kind.                                       *)
LEMMA IntervalsThere ==
    (\E u \in UpdateIntervals : TRUE) /\ (\E fs \in FsIntervals : TRUE)
    BY MainLoopAssumption DEF MainLoopAssumption, Sources!RuntimeAssumption

(* The intervals of the two policies are periods a slot may have.           *)
LEMMA PoliciesTyped ==
    ASSUME NEW u \in UpdateIntervals, NEW fs \in FsIntervals, NEW t, NEW rec, NEW b
    PROVE  /\ u \in Sources!Periods
           /\ Sources!effective_process_refresh_interval(u, t, rec)
                 \in Sources!Periods
           /\ Sources!active_periodic_policy(t, b, fs) \in Sources!Periods
<1>1. UpdateIntervals \subseteq Nat
    BY MainLoopAssumption DEF MainLoopAssumption, Sources!RuntimeAssumption
<1> QED
    BY <1>1 DEF Sources!Periods, Sources!effective_process_refresh_interval,
                Sources!process_refresh_interval, Sources!active_periodic_policy

(* The slots the handlers name are slots of the application.                *)
LEMMA OwnersNamed ==
    /\ Sources!Searchable \subseteq Sources!Owners
    /\ {"performance_timer", "process_timer", "periodic_page_timer",
        "initial_tab_restore_source", "window_restore_reflow_source",
        "history_initialise_source", "history_save_timer"}
          \subseteq Sources!Owners
    BY DEF Sources!Owners

(* The timers are replaced, never doubled.                                  *)
LEMMA ProcessRescheduled ==
    ASSUME NEW s, Owned(s), NEW u \in UpdateIntervals, NEW t, NEW rec
    PROVE  LET after == Sources!reschedule_process_timer(s, u, t, rec)
           IN  /\ Owned(after)
               /\ after.slot = With(s.slot, "process_timer",
                     Sources!Slot(TRUE, TRUE,
                         Sources!effective_process_refresh_interval(u, t, rec)))
<1> DEFINE o == "process_timer"
           p == Sources!effective_process_refresh_interval(u, t, rec)
           r == Sources!RemoveSource(s, o)
<1>1. o \in Sources!Owners
    BY OwnersNamed
<1>2. p \in Sources!Periods
    BY IntervalsThere, PoliciesTyped
<1>3. Owned(r) /\ r.slot = With(s.slot, o, Sources!NoSource)
    BY <1>1, RemoveOwned
<1>4. ~r.slot[o].attached
    BY <1>1, <1>3 DEF Owned, SourceRecords, With, Sources!NoSource, Sources!Slot
<1> HIDE DEF p, r
<1>5. /\ Owned(Sources!AddSource(r, o, p))
      /\ Sources!AddSource(r, o, p).slot =
            With(r.slot, o, Sources!Slot(TRUE, TRUE, p))
    BY <1>1, <1>2, <1>3, <1>4, AddOwned
<1>6. With(r.slot, o, Sources!Slot(TRUE, TRUE, p)) =
          With(s.slot, o, Sources!Slot(TRUE, TRUE, p))
    BY <1>1, <1>3 DEF Owned, SourceRecords, With
<1> QED
    BY <1>5, <1>6 DEF p, r, Sources!reschedule_process_timer

(* The same for the timer of the page in front.                             *)
LEMMA PageRescheduled ==
    ASSUME NEW s, Owned(s), NEW fs \in FsIntervals, NEW t, NEW b
    PROVE  LET after == Sources!reschedule_periodic_page_timer(s, t, b, fs)
           IN  /\ Owned(after)
               /\ after.slot = With(s.slot, "periodic_page_timer",
                     TimerSlot(Sources!active_periodic_policy(t, b, fs)))
<1> DEFINE o == "periodic_page_timer"
           p == Sources!active_periodic_policy(t, b, fs)
           r == Sources!RemoveSource(s, o)
<1>1. o \in Sources!Owners
    BY OwnersNamed
<1>2. p \in Sources!Periods
    BY IntervalsThere, PoliciesTyped
<1>3. Owned(r) /\ r.slot = With(s.slot, o, Sources!NoSource)
    BY <1>1, RemoveOwned
<1>4. ~r.slot[o].attached
    BY <1>1, <1>3 DEF Owned, SourceRecords, With, Sources!NoSource, Sources!Slot
<1> HIDE DEF p, r
<1>5. /\ Owned(Sources!AddSource(r, o, p))
      /\ Sources!AddSource(r, o, p).slot =
            With(r.slot, o, Sources!Slot(TRUE, TRUE, p))
    BY <1>1, <1>2, <1>3, <1>4, AddOwned
<1>6. With(r.slot, o, Sources!Slot(TRUE, TRUE, p)) =
          With(s.slot, o, Sources!Slot(TRUE, TRUE, p))
    BY <1>1, <1>3 DEF Owned, SourceRecords, With
<1>7. CASE p = 0
    BY <1>3, <1>7 DEF p, r, Sources!reschedule_periodic_page_timer, TimerSlot
<1>8. CASE p # 0
    BY <1>5, <1>6, <1>8 DEF p, r, Sources!reschedule_periodic_page_timer, TimerSlot
<1> QED
    BY <1>7, <1>8

(* A slot that is set leaves the others as they are.                        *)
LEMMA OthersKept ==
    ASSUME NEW f \in [Sources!Owners -> SlotSet], NEW o \in Sources!Owners, NEW v
    PROVE  /\ With(f, o, v)[o] = v
           /\ \A q \in Sources!Owners \ {o} : With(f, o, v)[q] = f[q]
    BY DEF With

(* A slot other than the three timers leaves them current.                  *)
LEMMA TimersKept ==
    ASSUME NEW s, Owned(s), NEW after, NEW o \in Sources!Owners, NEW v,
           NEW u, NEW t, NEW b, NEW fs,
           after.slot = With(s.slot, o, v), TimersOf(s, u, t, b, fs),
           o \notin {"performance_timer", "process_timer", "periodic_page_timer"}
    PROVE  TimersOf(after, u, t, b, fs)
<1>1. s.slot \in [Sources!Owners -> SlotSet]
    BY DEF Owned, SourceRecords
<1>2. \A q \in {"performance_timer", "process_timer", "periodic_page_timer"} :
          after.slot[q] = s.slot[q]
    BY <1>1, OthersKept, OwnersNamed
<1> QED
    BY <1>2 DEF TimersOf

(* history_model_initialise, from either of its callers.                    *)
LEMMA ModelInitialised ==
    ASSUME NEW s, Owned(s), NEW u, NEW t, NEW b, NEW fs, TimersOf(s, u, t, b, fs)
    PROVE  /\ Owned(Sources!model_initialise(s))
           /\ TimersOf(Sources!model_initialise(s), u, t, b, fs)
<1> DEFINE o == "history_save_timer"
<1>1. o \in Sources!Owners /\ 0 \in Sources!Periods
    BY OwnersNamed, SlotsTyped
<1>2. CASE s.slot[o].held
    BY <1>2 DEF Sources!model_initialise
<1>3. CASE ~s.slot[o].held
  <2>1. ~s.slot[o].attached
    BY <1>1, <1>3 DEF Owned
  <2>2. /\ Owned(Sources!AddSource(s, o, 0))
        /\ Sources!AddSource(s, o, 0).slot =
              With(s.slot, o, Sources!Slot(TRUE, TRUE, 0))
    BY <1>1, <2>1, AddOwned
  <2>3. TimersOf(Sources!AddSource(s, o, 0), u, t, b, fs)
    BY <1>1, <2>2, TimersKept
  <2> QED
    BY <1>3, <2>2, <2>3 DEF Sources!model_initialise
<1> QED
    BY <1>2, <1>3

(* history_initialise_now removes the idle source it stands in for.         *)
LEMMA HistoryInitialised ==
    ASSUME NEW s, Owned(s), NEW u, NEW t, NEW b, NEW fs, TimersOf(s, u, t, b, fs)
    PROVE  /\ Owned(Sources!history_initialise_now(s))
           /\ TimersOf(Sources!history_initialise_now(s), u, t, b, fs)
<1> DEFINE o == "history_initialise_source"
           r == Sources!RemoveSource(s, o)
<1>1. o \in Sources!Owners
    BY OwnersNamed
<1>2. Owned(r) /\ r.slot = With(s.slot, o, Sources!NoSource)
    BY <1>1, RemoveOwned
<1> HIDE DEF r
<1>3. TimersOf(r, u, t, b, fs)
    BY <1>1, <1>2, TimersKept
<1>4. CASE s.slot[o].held
    BY <1>2, <1>3, <1>4, ModelInitialised DEF Sources!history_initialise_now, r
<1>5. CASE ~s.slot[o].held
    BY <1>5, ModelInitialised DEF Sources!history_initialise_now
<1> QED
    BY <1>4, <1>5

(* Another page is in front: both timers are set anew, and the third kept.  *)
LEMMA Rescheduled ==
    ASSUME NEW s, Owned(s), NEW u \in UpdateIntervals, NEW fs \in FsIntervals,
           NEW t, NEW b, NEW rec \in BOOLEAN,
           s.slot["performance_timer"] = Sources!Slot(TRUE, TRUE, u)
    PROVE  LET process == Sources!reschedule_process_timer(s, u, t, rec)
               after == Sources!reschedule_periodic_page_timer(process, t, b, fs)
           IN  Owned(after) /\ TimersOf(after, u, t, b, fs)
<1> DEFINE process == Sources!reschedule_process_timer(s, u, t, rec)
           after == Sources!reschedule_periodic_page_timer(process, t, b, fs)
           v == Sources!Slot(TRUE, TRUE,
                    Sources!effective_process_refresh_interval(u, t, rec))
           w == TimerSlot(Sources!active_periodic_policy(t, b, fs))
<1>1. Owned(process) /\ process.slot = With(s.slot, "process_timer", v)
    BY ProcessRescheduled
<1>2. Owned(after) /\ after.slot = With(process.slot, "periodic_page_timer", w)
  <2> HIDE DEF process
  <2> QED
    BY <1>1, PageRescheduled
<1> HIDE DEF process, after
<1>3. s.slot \in [Sources!Owners -> SlotSet] /\ process.slot \in [Sources!Owners -> SlotSet]
    BY <1>1 DEF Owned, SourceRecords
<1>4. /\ after.slot["periodic_page_timer"] = w
      /\ after.slot["process_timer"] = v
      /\ after.slot["performance_timer"] = s.slot["performance_timer"]
  <2> HIDE DEF v, w
  <2>1. /\ process.slot["process_timer"] = v
        /\ process.slot["performance_timer"] = s.slot["performance_timer"]
    BY <1>1, <1>3, OwnersNamed DEF With
  <2> QED
    BY <1>2, <1>3, <2>1, OwnersNamed DEF With
<1>5. TimersOf(after, u, t, b, fs)
    BY <1>4 DEF TimersOf, v, w
<1> QED
    BY <1>2, <1>5 DEF process, after

-----------------------------------------------------------------------------
(* A step of the running main loop keeps the invariant when it keeps its    *)
(* parts.                                                                   *)
LEMMA RunningStep ==
    ASSUME SourcesInv, phase = "running", phase' = "running",
           Owned(sources'),
           TimersOf(sources', update_interval_ms', current_tab', built',
                    filesystem_update_interval_ms'),
           {current_tab', last_tab', initial_tab_after_paint', saved_tab'}
               \subseteq SourceTabs,
           built' \subseteq SourceTabs, built \subseteq built',
           update_interval_ms' \in UpdateIntervals,
           filesystem_update_interval_ms' \in FsIntervals,
           recording' \in BOOLEAN, navigated' \in BOOLEAN,
           IF navigated' THEN last_tab' = current_tab'
           ELSE /\ last_tab' = initial_tab_after_paint'
                /\ current_tab' = "performance"
    PROVE  SourcesInv'
<1>1. Sources!TypeOK'
    BY DEF Sources!TypeOK, Owned, SourceRecords, SlotSet
<1>2. TabKnown' /\ Sources!TabRemembered'
    BY DEF SourcesInv, TabKnown, Sources!TabRemembered
<1> QED
    BY <1>1, <1>2 DEF SourcesInv, TimersCurrent

(* What the invariant says of the running main loop.                        *)
LEMMA Running ==
    ASSUME SourcesInv, phase = "running"
    PROVE  /\ Owned(sources)
           /\ TimersOf(sources, update_interval_ms, current_tab, built,
                       filesystem_update_interval_ms)
           /\ {current_tab, last_tab, initial_tab_after_paint, saved_tab}
                 \subseteq SourceTabs
           /\ built \subseteq SourceTabs /\ "performance" \in built
           /\ update_interval_ms \in UpdateIntervals
           /\ filesystem_update_interval_ms \in FsIntervals
           /\ recording \in BOOLEAN /\ navigated \in BOOLEAN
           /\ IF navigated THEN last_tab = current_tab
              ELSE /\ last_tab = initial_tab_after_paint
                   /\ current_tab = "performance"
    BY DEF SourcesInv, TimersCurrent, Sources!TypeOK, TabKnown

(* The notebook has switched to another tab.                                *)
LEMMA TabSwitched ==
    ASSUME SourcesInv, phase = "running", NEW s, Owned(s),
           TimersOf(s, update_interval_ms, current_tab, built,
                    filesystem_update_interval_ms),
           NEW t \in SourceTabs, Sources!SwitchTab(s, t)
    PROVE  /\ Owned(sources')
           /\ TimersOf(sources', update_interval_ms, t, built',
                       filesystem_update_interval_ms)
           /\ current_tab' = t /\ last_tab' = t /\ navigated' = TRUE
           /\ built' = built \cup {t}
<1> DEFINE u == update_interval_ms
           fs == filesystem_update_interval_ms
           entered == Sources!navigation_changed(s, t)
           model == IF t = "history" THEN Sources!history_initialise_now(entered)
                    ELSE entered
           again == Sources!reschedule_periodic_page_timer(
                        model, t, built \cup {t}, fs)
<1>1. /\ current_tab' = t /\ last_tab' = t /\ navigated' = TRUE
      /\ built' = built \cup {t}
      /\ sources' = IF t \in built THEN entered ELSE again
    BY DEF Sources!SwitchTab
<1>2. s.slot["process_timer"].held
    BY DEF TimersOf, Sources!Slot
<1>3. Owned(entered) /\ TimersOf(entered, u, t, built, fs)
  <2>1. entered = Sources!reschedule_periodic_page_timer(
                      Sources!reschedule_process_timer(s, u, t, recording),
                      t, built, fs)
    BY <1>2 DEF Sources!navigation_changed
  <2>2. s.slot["performance_timer"] = Sources!Slot(TRUE, TRUE, u)
    BY DEF TimersOf
  <2> QED
    BY <2>1, <2>2, Running, Rescheduled
<1> HIDE DEF entered
<1>4. Owned(model) /\ TimersOf(model, u, t, built, fs)
    BY <1>3, HistoryInitialised
<1> HIDE DEF model
<1>5. Owned(again) /\ TimersOf(again, u, t, built \cup {t}, fs)
  <2>1. /\ Owned(again)
        /\ again.slot = With(model.slot, "periodic_page_timer",
               TimerSlot(Sources!active_periodic_policy(t, built \cup {t}, fs)))
    BY <1>4, Running, PageRescheduled
  <2> HIDE DEF again
  <2>2. model.slot \in [Sources!Owners -> SlotSet]
    BY <1>4 DEF Owned, SourceRecords
  <2>3. /\ again.slot["process_timer"] = model.slot["process_timer"]
        /\ again.slot["performance_timer"] = model.slot["performance_timer"]
        /\ again.slot["periodic_page_timer"] =
              TimerSlot(Sources!active_periodic_policy(t, built \cup {t}, fs))
    BY <2>1, <2>2, OwnersNamed DEF With
  <2> QED
    BY <1>4, <2>1, <2>3 DEF TimersOf
<1> HIDE DEF again
<1>6. CASE t \in built
  <2>1. built \cup {t} = built
    BY <1>6
  <2> QED
    BY <1>1, <1>3, <1>6, <2>1
<1>7. CASE t \notin built
    BY <1>1, <1>5, <1>7
<1> QED
    BY <1>6, <1>7, <1>1

(* Every handler of the main loop keeps its sources owned and current.      *)
LEMMA SourcesStep == SourcesInv /\ [Sources!Next]_sourceVars => SourcesInv'
<1> SUFFICES ASSUME SourcesInv, [Sources!Next]_sourceVars
             PROVE  SourcesInv'
    OBVIOUS
<1> USE DEF Sources!tabs, Sources!settings, Sources!vars
<1>a. "performance" \in SourceTabs
    BY MainLoopAssumption DEF MainLoopAssumption, Sources!RuntimeAssumption
<1>b. 0 \in Sources!Periods
    BY SlotsTyped
<1>1. CASE Sources!StartShell
  <2> DEFINE u == update_interval_ms
             fs == filesystem_update_interval_ms
             first == IF last_tab = "performance" THEN sources
                      ELSE Sources!AddSource(sources, "initial_tab_restore_source", 0)
             second == Sources!AddSource(first, "history_initialise_source", 0)
             third == Sources!AddSource(second, "performance_timer", u)
  <2>1. /\ phase = "new" /\ phase' = "running"
        /\ current_tab' = "performance" /\ initial_tab_after_paint' = last_tab
        /\ built' = {"performance"} /\ last_tab' = last_tab
        /\ update_interval_ms' = u /\ filesystem_update_interval_ms' = fs
        /\ recording' = recording /\ saved_tab' = saved_tab
        /\ navigated' = navigated
    BY <1>1 DEF Sources!StartShell
  <2>2. sources' = Sources!reschedule_periodic_page_timer(
                       Sources!reschedule_process_timer(
                           third, u, "performance", recording),
                       "performance", {"performance"}, fs)
    BY <1>1 DEF Sources!StartShell, Sources!runtime_start
  <2>3. /\ Owned(sources) /\ ~navigated /\ u \in UpdateIntervals
        /\ fs \in FsIntervals /\ recording \in BOOLEAN /\ navigated \in BOOLEAN
        /\ last_tab \in SourceTabs /\ saved_tab \in SourceTabs
        /\ u \in Sources!Periods
        /\ \A o \in Sources!Owners : sources.slot[o] = Sources!NoSource
    BY <2>1, PoliciesTyped DEF SourcesInv, TabKnown, Sources!TypeOK
  <2>4. ~Sources!NoSource.attached
    BY DEF Sources!NoSource, Sources!Slot
  <2>5. /\ Owned(first)
        /\ \A o \in Sources!Owners \ {"initial_tab_restore_source"} :
              first.slot[o] = Sources!NoSource
    <3>1. CASE last_tab = "performance"
      BY <2>3, <3>1
    <3>2. CASE last_tab # "performance"
      <4>1. /\ Owned(first)
            /\ first.slot = With(sources.slot, "initial_tab_restore_source",
                                 Sources!Slot(TRUE, TRUE, 0))
        BY <1>b, <2>3, <2>4, <3>2, AddOwned, OwnersNamed
      <4>2. sources.slot \in [Sources!Owners -> SlotSet]
        BY <2>3 DEF Owned, SourceRecords
      <4> QED
        BY <2>3, <4>1, <4>2 DEF With
    <3> QED
      BY <3>1, <3>2
  <2> HIDE DEF first
  <2>6. /\ Owned(second)
        /\ second.slot["performance_timer"] = Sources!NoSource
    <3>1. /\ Owned(second)
          /\ second.slot = With(first.slot, "history_initialise_source",
                                Sources!Slot(TRUE, TRUE, 0))
      <4>1. /\ "history_initialise_source" \in Sources!Owners
            /\ ~first.slot["history_initialise_source"].attached
        BY <2>4, <2>5, OwnersNamed
      <4> QED
        BY <1>b, <2>5, <4>1, AddOwned
    <3>2. first.slot \in [Sources!Owners -> SlotSet]
      BY <2>5 DEF Owned, SourceRecords
    <3> QED
      BY <2>5, <3>1, <3>2, OwnersNamed DEF With
  <2> HIDE DEF second
  <2>7. /\ Owned(third)
        /\ third.slot["performance_timer"] = Sources!Slot(TRUE, TRUE, u)
    <3>1. /\ Owned(third)
          /\ third.slot = With(second.slot, "performance_timer",
                               Sources!Slot(TRUE, TRUE, u))
      BY <2>3, <2>4, <2>6, AddOwned, OwnersNamed
    <3>2. second.slot \in [Sources!Owners -> SlotSet]
      BY <2>6 DEF Owned, SourceRecords
    <3> QED
      BY <3>1, <3>2, OwnersNamed DEF With
  <2> HIDE DEF third
  <2>8. /\ Owned(sources')
        /\ TimersOf(sources', u, "performance", {"performance"}, fs)
    BY <2>2, <2>3, <2>7, Rescheduled
  <2>9. Sources!TypeOK'
    BY <1>a, <2>1, <2>3, <2>8
    DEF Sources!TypeOK, Owned, SourceRecords, SlotSet
  <2>10. TabKnown' /\ Sources!TabRemembered' /\ TimersCurrent'
    BY <2>1, <2>3, <2>8 DEF TabKnown, Sources!TabRemembered, TimersCurrent
  <2> QED
    BY <2>1, <2>8, <2>9, <2>10 DEF SourcesInv
<1>2. CASE Sources!ActivationFails
  <2>1. /\ phase = "new" /\ phase' = "failed"
        /\ UNCHANGED <<current_tab, last_tab, initial_tab_after_paint, built,
                       update_interval_ms, filesystem_update_interval_ms,
                       recording, sources, saved_tab, navigated>>
    BY <1>2 DEF Sources!ActivationFails
  <2> QED
    BY <2>1 DEF SourcesInv, Sources!TypeOK, TabKnown, Sources!TabRemembered,
                Owned
<1>3. CASE UNCHANGED sourceVars
  <2>1. /\ phase' = phase
        /\ UNCHANGED <<current_tab, last_tab, initial_tab_after_paint, built,
                       update_interval_ms, filesystem_update_interval_ms,
                       recording, sources, saved_tab, navigated>>
    BY <1>3 DEF sourceVars
  <2> QED
    BY <2>1 DEF SourcesInv, Sources!TypeOK, TabKnown, Sources!TabRemembered,
                Owned, TimersCurrent, TimersOf
<1>4. ASSUME NEW t \in SourceTabs, Sources!Navigate(t)
      PROVE  SourcesInv'
  <2>1. /\ phase = "running" /\ phase' = "running"
        /\ Sources!SwitchTab(sources, t)
        /\ initial_tab_after_paint' = initial_tab_after_paint
        /\ update_interval_ms' = update_interval_ms
        /\ filesystem_update_interval_ms' = filesystem_update_interval_ms
        /\ recording' = recording /\ saved_tab' = saved_tab
    BY <1>4 DEF Sources!Navigate
  <2> QED
    BY <2>1, Running, TabSwitched, RunningStep
<1>5. CASE Sources!EnsureProcessesBuilt
  <2>1. /\ phase = "running" /\ phase' = "running"
        /\ built' = built \cup {"processes"} /\ "processes" \in SourceTabs
        /\ current_tab \in {"overview", "users"}
        /\ UNCHANGED <<current_tab, last_tab, initial_tab_after_paint,
                       update_interval_ms, filesystem_update_interval_ms,
                       recording, sources, saved_tab, navigated>>
    BY <1>5 DEF Sources!EnsureProcessesBuilt
  <2>2. Sources!active_periodic_policy(current_tab, built',
                                       filesystem_update_interval_ms) =
        Sources!active_periodic_policy(current_tab, built,
                                       filesystem_update_interval_ms)
    <3>1. current_tab \in built' <=> current_tab \in built
      BY <2>1
    <3>2. ASSUME NEW b, NEW c, NEW t, NEW fs \in Nat, t \in b <=> t \in c
          PROVE  Sources!active_periodic_policy(t, b, fs) =
                     Sources!active_periodic_policy(t, c, fs)
      BY <3>2 DEF Sources!active_periodic_policy
    <3>3. filesystem_update_interval_ms \in Nat
      BY <2>1, Running, MainLoopAssumption
      DEF MainLoopAssumption, Sources!RuntimeAssumption
    <3> QED
      BY <3>1, <3>2, <3>3
  <2>3. TimersOf(sources', update_interval_ms', current_tab', built',
                 filesystem_update_interval_ms')
    BY <2>1, <2>2, Running DEF TimersOf
  <2> QED
    BY <2>1, <2>3, Running, RunningStep
<1>6. CASE Sources!RestoreInitialTab
  <2> DEFINE s == Sources!Expire(sources, "initial_tab_restore_source")
             target == initial_tab_after_paint
  <2>1. /\ phase = "running" /\ phase' = "running"
        /\ initial_tab_after_paint' = "performance"
        /\ \/ Sources!SwitchTab(s, target)
           \/ /\ target = current_tab /\ sources' = s
              /\ UNCHANGED <<current_tab, last_tab, built, navigated>>
        /\ update_interval_ms' = update_interval_ms
        /\ filesystem_update_interval_ms' = filesystem_update_interval_ms
        /\ recording' = recording /\ saved_tab' = saved_tab
    BY <1>6 DEF Sources!RestoreInitialTab
  <2>2. /\ Owned(s)
        /\ s.slot = With(sources.slot, "initial_tab_restore_source",
                         Sources!NoSource)
    BY <2>1, Running, RemoveOwned, OwnersNamed
  <2> HIDE DEF s
  <2>3. TimersOf(s, update_interval_ms, current_tab, built,
                 filesystem_update_interval_ms)
    BY <2>1, <2>2, Running, TimersKept, OwnersNamed
  <2>4. CASE Sources!SwitchTab(s, target)
    BY <1>a, <2>1, <2>2, <2>3, <2>4, Running, TabSwitched, RunningStep
  <2>5. CASE /\ target = current_tab /\ sources' = s
             /\ UNCHANGED <<current_tab, last_tab, built, navigated>>
    BY <1>a, <2>1, <2>2, <2>3, <2>5, Running, RunningStep
  <2> QED
    BY <2>1, <2>4, <2>5
<1>7. CASE Sources!WindowRestored
  <2> DEFINE o == "window_restore_reflow_source"
  <2>1. /\ phase = "running" /\ phase' = "running"
        /\ ~sources.slot[o].held
        /\ sources' = Sources!AddSource(sources, o, 0)
        /\ UNCHANGED <<current_tab, last_tab, initial_tab_after_paint, built,
                       update_interval_ms, filesystem_update_interval_ms,
                       recording, saved_tab, navigated>>
    BY <1>7 DEF Sources!WindowRestored
  <2>2. ~sources.slot[o].attached
    BY <2>1, Running, OwnersNamed DEF Owned
  <2>3. /\ Owned(sources')
        /\ sources'.slot = With(sources.slot, o, Sources!Slot(TRUE, TRUE, 0))
    BY <1>b, <2>1, <2>2, Running, AddOwned, OwnersNamed
  <2>4. TimersOf(sources', update_interval_ms, current_tab, built,
                 filesystem_update_interval_ms)
    BY <2>1, <2>3, Running, TimersKept, OwnersNamed
  <2> QED
    BY <2>1, <2>3, <2>4, Running, RunningStep
<1>8. CASE Sources!reflow_after_window_restore
  <2> DEFINE o == "window_restore_reflow_source"
  <2>1. /\ phase = "running" /\ phase' = "running"
        /\ sources' = Sources!Expire(sources, o)
        /\ UNCHANGED <<current_tab, last_tab, initial_tab_after_paint, built,
                       update_interval_ms, filesystem_update_interval_ms,
                       recording, saved_tab, navigated>>
    BY <1>8 DEF Sources!reflow_after_window_restore
  <2>2. /\ Owned(sources')
        /\ sources'.slot = With(sources.slot, o, Sources!NoSource)
    BY <2>1, Running, RemoveOwned, OwnersNamed
  <2>3. TimersOf(sources', update_interval_ms, current_tab, built,
                 filesystem_update_interval_ms)
    BY <2>1, <2>2, Running, TimersKept, OwnersNamed
  <2> QED
    BY <2>1, <2>2, <2>3, Running, RunningStep
<1>9. CASE Sources!history_initialise_idle
  <2> DEFINE o == "history_initialise_source"
             s == Sources!Expire(sources, o)
  <2>1. /\ phase = "running" /\ phase' = "running"
        /\ sources' = Sources!model_initialise(s)
        /\ UNCHANGED <<current_tab, last_tab, initial_tab_after_paint, built,
                       update_interval_ms, filesystem_update_interval_ms,
                       recording, saved_tab, navigated>>
    BY <1>9 DEF Sources!history_initialise_idle
  <2>2. Owned(s) /\ s.slot = With(sources.slot, o, Sources!NoSource)
    BY <2>1, Running, RemoveOwned, OwnersNamed
  <2> HIDE DEF s
  <2>3. TimersOf(s, update_interval_ms, current_tab, built,
                 filesystem_update_interval_ms)
    BY <2>1, <2>2, Running, TimersKept, OwnersNamed
  <2>4. /\ Owned(sources')
        /\ TimersOf(sources', update_interval_ms, current_tab, built,
                    filesystem_update_interval_ms)
    BY <2>1, <2>2, <2>3, ModelInitialised
  <2> QED
    BY <2>1, <2>4, Running, RunningStep
<1>10. CASE Sources!AccountProcesses
  <2>1. /\ phase = "running" /\ phase' = "running"
        /\ sources' = Sources!history_initialise_now(sources)
        /\ UNCHANGED <<current_tab, last_tab, initial_tab_after_paint, built,
                       update_interval_ms, filesystem_update_interval_ms,
                       recording, saved_tab, navigated>>
    BY <1>10 DEF Sources!AccountProcesses
  <2>2. /\ Owned(sources')
        /\ TimersOf(sources', update_interval_ms, current_tab, built,
                    filesystem_update_interval_ms)
    BY <2>1, Running, HistoryInitialised
  <2> QED
    BY <2>1, <2>2, Running, RunningStep
<1>11. ASSUME NEW page \in Sources!Searchable \cap SourceTabs,
              Sources!search_changed(page)
       PROVE  SourcesInv'
  <2> DEFINE r == IF sources.slot[page].held
                  THEN Sources!RemoveKeepId(sources, page) ELSE sources
  <2>1. /\ phase = "running" /\ phase' = "running"
        /\ sources' = Sources!AddSource(r, page, 0)
        /\ UNCHANGED <<current_tab, last_tab, initial_tab_after_paint, built,
                       update_interval_ms, filesystem_update_interval_ms,
                       recording, saved_tab, navigated>>
    BY <1>11 DEF Sources!search_changed
  <2>2. /\ page \in Sources!Owners
        /\ page \notin {"performance_timer", "process_timer",
                        "periodic_page_timer"}
    BY <1>11, OwnersNamed DEF Sources!Searchable
  <2>3. Owned(sources')
        /\ sources'.slot = With(sources.slot, page, Sources!Slot(TRUE, TRUE, 0))
    <3>1. CASE sources.slot[page].held
      <4> DEFINE off == [sources.slot[page] EXCEPT !.attached = FALSE]
      <4>1. Owned(sources) /\ sources.slot[page].attached
        BY <2>1, <2>2, <3>1, Running DEF Owned
      <4>2. /\ sources.slot[page] \in SlotSet /\ off \in SlotSet
            /\ ~off.attached
        BY <2>2, <4>1 DEF Owned, SourceRecords, SlotSet
      <4> HIDE DEF off
      <4>3. r = [sources EXCEPT !.slot = With(sources.slot, page, off),
                                !.stray = FALSE]
        BY <2>2, <3>1, <4>1
        DEF Sources!RemoveKeepId, Owned, SourceRecords, With, off
      <4>4. With(sources.slot, page, off) \in [Sources!Owners -> SlotSet]
        BY <2>2, <4>1, <4>2 DEF Owned, SourceRecords, With
      <4>5. /\ r \in SourceRecords /\ r.orphans = {} /\ ~r.stray
            /\ r.slot = With(sources.slot, page, off)
        BY <4>1, <4>3, <4>4 DEF Owned, SourceRecords
      <4>6. ~r.slot[page].attached
        BY <2>2, <4>1, <4>2, <4>5 DEF Owned, SourceRecords, With
      <4> HIDE DEF r
      <4>7. Sources!AddSource(r, page, 0) =
                [r EXCEPT !.slot = With(r.slot, page, Sources!Slot(TRUE, TRUE, 0)),
                          !.orphans = {}]
        BY <2>2, <4>5, <4>6 DEF Sources!AddSource, SourceRecords, With
      <4>8. With(r.slot, page, Sources!Slot(TRUE, TRUE, 0)) =
                With(sources.slot, page, Sources!Slot(TRUE, TRUE, 0))
        BY <2>2, <4>1, <4>5 DEF Owned, SourceRecords, With
      <4>9. /\ With(r.slot, page, Sources!Slot(TRUE, TRUE, 0))
                   \in [Sources!Owners -> SlotSet]
            /\ \A o \in Sources!Owners :
                  With(r.slot, page, Sources!Slot(TRUE, TRUE, 0))[o].held =
                  With(r.slot, page, Sources!Slot(TRUE, TRUE, 0))[o].attached
        <5>1. Sources!Slot(TRUE, TRUE, 0) \in SlotSet
          BY SlotsTyped
        <5>2. Sources!Slot(TRUE, TRUE, 0).held = Sources!Slot(TRUE, TRUE, 0).attached
          BY DEF Sources!Slot
        <5> QED
          BY <2>2, <4>1, <4>8, <5>1, <5>2 DEF Owned, SourceRecords, With
      <4> QED
        BY <2>1, <4>5, <4>7, <4>8, <4>9 DEF Owned, SourceRecords
    <3>2. CASE ~sources.slot[page].held
      <4>1. ~sources.slot[page].attached /\ r = sources
        BY <2>1, <2>2, <3>2, Running DEF Owned
      <4> HIDE DEF r
      <4> QED
        BY <1>b, <2>1, <2>2, <4>1, Running, AddOwned
    <3> QED
      BY <3>1, <3>2
  <2>4. TimersOf(sources', update_interval_ms, current_tab, built,
                 filesystem_update_interval_ms)
    BY <2>1, <2>2, <2>3, Running, TimersKept
  <2> QED
    BY <2>1, <2>3, <2>4, Running, RunningStep
<1>12. ASSUME NEW page \in Sources!Searchable \cap SourceTabs,
              Sources!search_timeout(page)
       PROVE  SourcesInv'
  <2>1. /\ phase = "running" /\ phase' = "running"
        /\ sources' = Sources!Expire(sources, page)
        /\ UNCHANGED <<current_tab, last_tab, initial_tab_after_paint, built,
                       update_interval_ms, filesystem_update_interval_ms,
                       recording, saved_tab, navigated>>
    BY <1>12 DEF Sources!search_timeout
  <2>2. /\ page \in Sources!Owners
        /\ page \notin {"performance_timer", "process_timer",
                        "periodic_page_timer"}
    BY <1>12, OwnersNamed DEF Sources!Searchable
  <2>3. /\ Owned(sources')
        /\ sources'.slot = With(sources.slot, page, Sources!NoSource)
    BY <2>1, <2>2, Running, RemoveOwned
  <2>4. TimersOf(sources', update_interval_ms, current_tab, built,
                 filesystem_update_interval_ms)
    BY <2>1, <2>2, <2>3, Running, TimersKept
  <2> QED
    BY <2>1, <2>3, <2>4, Running, RunningStep
<1>13. CASE Sources!active_periodic_update
  <2>1. /\ phase = "running" /\ phase' = "running"
        /\ sources.slot["periodic_page_timer"].attached
        /\ sources' = IF current_tab \in Sources!Periodic \cap built THEN sources
                      ELSE Sources!EndsItself(sources, "periodic_page_timer")
        /\ UNCHANGED <<current_tab, last_tab, initial_tab_after_paint, built,
                       update_interval_ms, filesystem_update_interval_ms,
                       recording, saved_tab, navigated>>
    BY <1>13 DEF Sources!active_periodic_update, Sources!Attached
  <2>2. current_tab \in Sources!Periodic \cap built
    <3>1. ~Sources!NoSource.attached
      BY DEF Sources!NoSource, Sources!Slot
    <3>2. Sources!active_periodic_policy(current_tab, built,
                                         filesystem_update_interval_ms) # 0
      BY <2>1, <3>1, Running DEF TimersOf, TimerSlot
    <3> QED
      BY <3>2 DEF Sources!active_periodic_policy
  <2> QED
    BY <2>1, <2>2, Running, RunningStep
<1>14. ASSUME NEW u \in UpdateIntervals, NEW fs \in FsIntervals,
              Sources!ChangePreferences(u, fs)
       PROVE  SourcesInv'
  <2> DEFINE bare == Sources!RemoveSource(
                         Sources!RemoveSource(sources, "performance_timer"),
                         "process_timer")
             added == Sources!AddSource(bare, "performance_timer", u)
  <2>1. /\ phase = "running" /\ phase' = "running"
        /\ update_interval_ms' = u /\ filesystem_update_interval_ms' = fs
        /\ saved_tab' = last_tab
        /\ UNCHANGED <<current_tab, last_tab, initial_tab_after_paint, built,
                       recording, navigated>>
    BY <1>14 DEF Sources!ChangePreferences
  <2>2. sources.slot["performance_timer"].held
    BY <2>1, Running DEF TimersOf, Sources!Slot
  <2>3. sources' = Sources!reschedule_periodic_page_timer(
                       Sources!reschedule_process_timer(
                           added, u, current_tab, recording),
                       current_tab, built, fs)
    BY <1>14, <2>2 DEF Sources!ChangePreferences, Sources!preferences_changed
  <2>4. /\ Owned(bare) /\ ~bare.slot["performance_timer"].attached
    <3> DEFINE r == Sources!RemoveSource(sources, "performance_timer")
    <3>1. /\ Owned(r)
          /\ r.slot = With(sources.slot, "performance_timer", Sources!NoSource)
      BY <2>1, Running, RemoveOwned, OwnersNamed
    <3> HIDE DEF r
    <3>2. /\ Owned(bare)
          /\ bare.slot = With(r.slot, "process_timer", Sources!NoSource)
      BY <3>1, RemoveOwned, OwnersNamed DEF r
    <3> HIDE DEF bare
    <3>3. /\ sources.slot \in [Sources!Owners -> SlotSet]
          /\ r.slot \in [Sources!Owners -> SlotSet]
      BY <2>1, <3>1, Running DEF Owned, SourceRecords
    <3>4. bare.slot["performance_timer"] = Sources!NoSource
      BY <3>1, <3>2, <3>3, OwnersNamed DEF With
    <3> QED
      BY <3>2, <3>4 DEF Sources!NoSource, Sources!Slot
  <2> HIDE DEF bare
  <2>5. /\ Owned(added)
        /\ added.slot["performance_timer"] = Sources!Slot(TRUE, TRUE, u)
    <3>1. /\ Owned(added)
          /\ added.slot = With(bare.slot, "performance_timer",
                               Sources!Slot(TRUE, TRUE, u))
      BY <2>4, AddOwned, OwnersNamed, PoliciesTyped
    <3>2. bare.slot \in [Sources!Owners -> SlotSet]
      BY <2>4 DEF Owned, SourceRecords
    <3> QED
      BY <3>1, <3>2, OwnersNamed DEF With
  <2> HIDE DEF added
  <2>6. /\ Owned(sources')
        /\ TimersOf(sources', u, current_tab, built, fs)
    BY <2>1, <2>3, <2>5, Running, Rescheduled
  <2> QED
    BY <2>1, <2>6, Running, RunningStep
<1>15. CASE Sources!ToggleRecording
  <2>1. /\ phase = "running" /\ phase' = "running" /\ recording' = ~recording
        /\ UNCHANGED <<current_tab, last_tab, initial_tab_after_paint, built,
                       update_interval_ms, filesystem_update_interval_ms,
                       sources, saved_tab, navigated>>
    BY <1>15 DEF Sources!ToggleRecording
  <2>2. recording' \in BOOLEAN
    BY <2>1
  <2> QED
    BY <2>1, <2>2, Running, RunningStep
<1>16. CASE Sources!LeaveMainLoop
  <2>1. /\ phase \in {"running", "failed"} /\ phase' = "left"
        /\ UNCHANGED <<current_tab, last_tab, initial_tab_after_paint, built,
                       update_interval_ms, filesystem_update_interval_ms,
                       recording, sources, saved_tab, navigated>>
    BY <1>16 DEF Sources!LeaveMainLoop
  <2> QED
    BY <2>1 DEF SourcesInv, Sources!TypeOK, TabKnown, Sources!TabRemembered,
                Owned
<1>17. CASE Sources!Shutdown
  <2>1. /\ phase = "left" /\ phase' = "freed"
        /\ saved_tab' = IF built # {} THEN last_tab ELSE saved_tab
        /\ sources' = Sources!StopSources(sources)
        /\ recording' = FALSE
        /\ UNCHANGED <<current_tab, last_tab, initial_tab_after_paint, built,
                       update_interval_ms, filesystem_update_interval_ms,
                       navigated>>
    BY <1>17 DEF Sources!Shutdown
  <2> DEFINE stopped == [o \in Sources!Owners |->
                           IF o \in Sources!Cleared THEN Sources!NoSource
                           ELSE [sources.slot[o] EXCEPT !.attached = FALSE]]
  <2>2. Owned(sources)
    BY <2>1 DEF SourcesInv
  <2>3. /\ stopped \in [Sources!Owners -> SlotSet]
        /\ \A o \in Sources!Owners : ~stopped[o].attached
    BY <2>2, SlotsTyped
    DEF Owned, SourceRecords, SlotSet, Sources!NoSource, Sources!Slot
  <2>4. ~(\E o \in Sources!Owners :
              sources.slot[o].held /\ ~sources.slot[o].attached)
    BY <2>2 DEF Owned
  <2> HIDE DEF stopped
  <2>5. sources' = [sources EXCEPT !.slot = stopped, !.stray = FALSE]
    BY <2>1, <2>2, <2>4 DEF Sources!StopSources, Owned, SourceRecords, stopped
  <2>6. /\ sources' \in SourceRecords
        /\ sources'.orphans = {} /\ ~sources'.stray
        /\ sources'.slot = stopped
    BY <2>2, <2>3, <2>5 DEF Owned, SourceRecords
  <2>7. Sources!TypeOK'
    BY <2>1, <2>6 DEF SourcesInv, Sources!TypeOK, SourceRecords, SlotSet
  <2>8. TabKnown' /\ Sources!TabRemembered'
    BY <2>1 DEF SourcesInv, TabKnown, Sources!TabRemembered
  <2> QED
    BY <2>1, <2>3, <2>6, <2>7, <2>8 DEF SourcesInv
<1>18. CASE Sources!ActivateAgain \/ Sources!Terminated
  <2>1. UNCHANGED sourceVars
    BY <1>18 DEF Sources!ActivateAgain, Sources!Terminated, sourceVars
  <2> QED
    BY <1>3, <2>1
<1> QED
    BY <1>1, <1>2, <1>3, <1>4, <1>5, <1>6, <1>7, <1>8, <1>9, <1>10, <1>11,
       <1>12, <1>13, <1>14, <1>15, <1>16, <1>17, <1>18
    DEF Sources!Next

(* No source runs when the program starts.                                  *)
LEMMA SourcesStart == Init => SourcesInv
<1> SUFFICES ASSUME Init PROVE SourcesInv
    OBVIOUS
<1>1. Sources!Init /\ MainLoopAssumption
    BY MainLoopAssumption DEF Init
<1>2. sources = [slot |-> [o \in Sources!Owners |-> Sources!NoSource],
                 orphans |-> {}, stray |-> FALSE]
    BY <1>1 DEF Sources!Init
<1>3. sources.slot \in [Sources!Owners -> SlotSet]
    BY <1>2, SlotsTyped
<1>4. Sources!NoSource.held = Sources!NoSource.attached
    BY DEF Sources!NoSource, Sources!Slot
<1>5. Owned(sources) /\ \A o \in Sources!Owners : sources.slot[o] = Sources!NoSource
    BY <1>2, <1>3, <1>4 DEF Owned, SourceRecords
<1>6. Sources!TypeOK
    BY <1>1, <1>5 DEF Sources!Init, Sources!TypeOK, Owned, SourceRecords,
       SlotSet, MainLoopAssumption, Sources!RuntimeAssumption
<1>7. TabKnown /\ Sources!TabRemembered /\ phase = "new"
    BY <1>1 DEF Sources!Init, TabKnown, Sources!TabRemembered
<1> QED
    BY <1>5, <1>6, <1>7 DEF SourcesInv

(* Only the study of the sources changes them.                              *)
LEMMA SourcesOnly == [Next]_vars => [Sources!Next]_sourceVars
    BY DEF Next, InPages, InColumns, InSources, InDevices, InWindow, vars

(* The invariant is what the property says, and more.                       *)
LEMMA SourcesImplied == SourcesInv => SourcesOwned
<1> SUFFICES ASSUME SourcesInv
             PROVE  /\ Sources!TypeOK
                    /\ Sources!NoOrphanedSource /\ Sources!NoDanglingId
                    /\ Sources!CadenceCurrent /\ Sources!TabRemembered
    BY DEF SourcesOwned
<1>1. Sources!TypeOK /\ Sources!TabRemembered
    BY DEF SourcesInv
<1>2. Sources!NoOrphanedSource
    BY DEF SourcesInv, Owned, Sources!NoOrphanedSource, Sources!Attached
<1>3. Sources!NoDanglingId
    BY DEF SourcesInv, Owned, Sources!NoDanglingId, Sources!Attached
<1>4. ASSUME phase = "running" PROVE Sources!CadenceCurrent
  <2>1. TimersCurrent
    BY <1>4 DEF SourcesInv
  <2>2. PICK rec \in BOOLEAN :
          sources.slot["process_timer"] =
              Sources!Slot(TRUE, TRUE,
                  Sources!effective_process_refresh_interval(
                      update_interval_ms, current_tab, rec))
    BY <2>1 DEF TimersCurrent, TimersOf
  <2>3. \A p : Sources!Slot(TRUE, TRUE, p).attached
               /\ Sources!Slot(TRUE, TRUE, p).period = p
    BY DEF Sources!Slot
  <2>4. ~Sources!NoSource.attached
    BY DEF Sources!NoSource, Sources!Slot
  <2> QED
    BY <2>1, <2>2, <2>3, <2>4
    DEF TimersCurrent, TimersOf, TimerSlot, Sources!CadenceCurrent,
        Sources!Attached
<1> QED
    BY <1>1, <1>2, <1>3, <1>4 DEF Sources!CadenceCurrent

(* Whatever the tabs and the intervals: no GLib source outlives its slot,   *)
(* no id dangles, the timers are those asked for, and the tab is remembered *)
(* (app_runtime.c).                                                         *)
THEOREM SourcesStayOwned == Spec => []SourcesOwned
<1>1. SourcesInv /\ [Next]_vars => SourcesInv'
    BY SourcesOnly, SourcesStep
<1> QED
    BY <1>1, SourcesStart, SourcesImplied, PTL DEF Spec

(* While updates are paused no handler but that of F5 publishes a process   *)
(* snapshot (app_runtime.c, process_workspace.c).                           *)
THEOREM PausedStaysFrozen == Spec => PausedProcessesFrozen
<1>1. [Next]_vars => [study = "pages" => Pipeline("pages")!PublishedOnlyByF5]_vars
  <2> SUFFICES ASSUME [Next]_vars, study = "pages", paused, paused',
                      snapshot' # snapshot
               PROVE  Pipeline("pages")!lsm_app_refresh_all
    BY DEF Pipeline!PublishedOnlyByF5
  <2>1. Pipeline("pages")!Next
    BY DEF Next, vars, InPages, InColumns, InSources, InDevices, InWindow,
           pipelineVars
  <2>2. ~Pipeline("pages")!SwitchTab
    BY DEF Pipeline!SwitchTab, Pipeline!on_registry_tab_switched,
           Pipeline!lsm_process_workspace_update, Pipeline!Consume
  <2>3. ~Pipeline("pages")!process_snapshot_ready
    BY DEF Pipeline!process_snapshot_ready, Pipeline!MayPresent, Pipeline!Consume
  <2> QED
    BY <2>1, <2>2, <2>3
    DEF Pipeline!Next, Pipeline!ScanBegins, Pipeline!ScanCompletes, Pipeline!ScanFails,
        Pipeline!SampleBegins, Pipeline!SampleCompletes, Pipeline!SampleFails,
        Pipeline!lsm_performance_update, Pipeline!process_timer_update,
        Pipeline!on_pause_toggled, Pipeline!application_catalog_complete,
        Pipeline!lsm_preferences_apply, Pipeline!processVars
<1> QED
    BY <1>1, PTL DEF Spec, PausedProcessesFrozen

-----------------------------------------------------------------------------
(* The Win32 window.                                                        *)

(* A sample of the monitor, taken or empty.                                 *)
SampleOK(m) ==
    /\ m.generation \in 0 .. PageSamples /\ m.at \in Nat
    /\ m.generation = 0 => m = Window!NoSample

(* What the message handlers keep of the processes.                         *)
ListInv ==
    /\ win_page \in Window!Pages \cup {"closed"} /\ item \in {"cpu", "disk"}
    /\ backend \in {"none", "ready", "failed"}
    /\ {win_completed, processes, listed} \subseteq Structures \cup {0}
    /\ status \in {"starting", "unavailable", "refreshing", "listed", "other"}
    /\ Window!RowsExplained

(* The sampler is at most one sample ahead of the window, and the newest    *)
(* sample recorded is not newer than the one held.                          *)
SamplesInv ==
    /\ SampleOK(ready) /\ SampleOK(win_monitor) /\ SampleOK(last)
    /\ ready.generation \in {0, win_monitor.generation + 1}
    /\ last.generation <= win_monitor.generation

(* The entries of the overview follow each other, or there is a gap where   *)
(* samples were passed over.                                                *)
GoesOn(s) ==
    \A k \in 1 .. Len(s) - 1 :
        IF s[k] # 0 THEN s[k + 1] \in {0, s[k] + 1}
        ELSE k > 1 /\ s[k + 1] > s[k - 1] + 1

(* The rings end with the newest sample recorded, or are empty; the         *)
(* overview holds the same samples, and a gap for those passed over.        *)
HistoriesOf(held, drawn, newest) ==
    /\ held \in Seq(Nat) /\ drawn \in Seq(Nat)
    /\ (drawn = <<>>) <=> (newest = 0)
    /\ (held = <<>>) <=> (newest = 0)
    /\ newest # 0 => /\ held[Len(held)] = newest /\ drawn[Len(drawn)] = newest
    /\ \A g \in Nat \ {0} : (\E k \in DOMAIN held : held[k] = g) <=>
                            (\E k \in DOMAIN drawn : drawn[k] = g)
    /\ \A k \in DOMAIN drawn : drawn[k] # 0 /\ drawn[k] <= newest
    /\ \A j, k \in DOMAIN drawn : j < k => drawn[j] < drawn[k]
    /\ GoesOn(held)

WindowInv ==
    /\ ListInv /\ SamplesInv
    /\ win_page # "closed" => HistoriesOf(overview, ring, last.generation)

(* A sequence with one more entry.                                          *)
LEMMA Appended ==
    ASSUME NEW s \in Seq(Nat), NEW e \in Nat
    PROVE  LET a == Append(s, e)
           IN  /\ a \in Seq(Nat) /\ a # <<>> /\ Len(a) = Len(s) + 1
               /\ DOMAIN a = 1 .. Len(s) + 1 /\ DOMAIN s = 1 .. Len(s)
               /\ Len(s) \in Nat /\ a[Len(s) + 1] = e
               /\ \A k \in 1 .. Len(s) : a[k] = s[k] /\ s[k] \in Nat
<1>1. Append(s, e) \in Seq(Nat) /\ Len(Append(s, e)) = Len(s) + 1
    OBVIOUS
<1>2. DOMAIN s = 1 .. Len(s) /\ Len(s) \in Nat
    OBVIOUS
<1>3. Append(s, e)[Len(s) + 1] = e
    BY <1>2
<1>4. \A k \in 1 .. Len(s) : Append(s, e)[k] = s[k] /\ s[k] \in Nat
    BY <1>2
<1>5. Append(s, e) # <<>>
    BY <1>1, <1>2
<1>6. DOMAIN Append(s, e) = 1 .. Len(s) + 1
    BY <1>1, <1>2
<1> QED
    BY <1>1, <1>2, <1>3, <1>4, <1>5, <1>6

(* The same entries with one more.                                          *)
LEMMA EntriesAppended ==
    ASSUME NEW s \in Seq(Nat), NEW e \in Nat, NEW x \in Nat
    PROVE  (\E k \in DOMAIN Append(s, e) : Append(s, e)[k] = x) <=>
           (x = e \/ \E k \in DOMAIN s : s[k] = x)
<1> DEFINE a == Append(s, e)
<1>1. /\ DOMAIN a = 1 .. Len(s) + 1 /\ DOMAIN s = 1 .. Len(s)
      /\ Len(s) \in Nat /\ a[Len(s) + 1] = e
      /\ \A k \in 1 .. Len(s) : a[k] = s[k]
    BY Appended
<1> HIDE DEF a
<1>2. \A k \in DOMAIN a : k \in DOMAIN s \/ k = Len(s) + 1
    BY <1>1
<1>3. Len(s) + 1 \in DOMAIN a /\ \A k \in DOMAIN s : k \in DOMAIN a
    BY <1>1
<1>4. (\E k \in DOMAIN a : a[k] = x) <=>
      (x = e \/ \E k \in DOMAIN s : s[k] = x)
    BY <1>1, <1>2, <1>3
<1> QED
    BY <1>4 DEF a

(* A ring with a newer sample is still in order.                            *)
LEMMA RingAppended ==
    ASSUME NEW s \in Seq(Nat), NEW newest \in Nat, NEW g \in Nat, g > newest,
           \A k \in DOMAIN s : s[k] # 0 /\ s[k] <= newest,
           \A j, k \in DOMAIN s : j < k => s[j] < s[k]
    PROVE  LET a == Append(s, g)
           IN  /\ \A k \in DOMAIN a : a[k] # 0 /\ a[k] <= g
               /\ \A j, k \in DOMAIN a : j < k => a[j] < a[k]
<1> DEFINE a == Append(s, g)
<1>1. /\ DOMAIN a = 1 .. Len(s) + 1 /\ DOMAIN s = 1 .. Len(s)
      /\ Len(s) \in Nat /\ a[Len(s) + 1] = g
      /\ \A k \in 1 .. Len(s) : a[k] = s[k] /\ s[k] \in Nat
    BY Appended
<1> HIDE DEF a
<1>2. ASSUME NEW k \in DOMAIN a PROVE a[k] # 0 /\ a[k] <= g
  <2>1. CASE k \in DOMAIN s
    <3>1. a[k] = s[k] /\ s[k] \in Nat /\ s[k] # 0 /\ s[k] <= newest
      BY <1>1, <2>1
    <3> QED
      BY <3>1
  <2>2. CASE k = Len(s) + 1
    BY <1>1, <2>2
  <2> QED
    BY <1>1, <1>2, <2>1, <2>2
<1>3. ASSUME NEW j \in DOMAIN a, NEW k \in DOMAIN a, j < k PROVE a[j] < a[k]
  <2>1. j \in DOMAIN s /\ a[j] = s[j] /\ s[j] \in Nat /\ s[j] <= newest
    BY <1>1, <1>3
  <2>2. CASE k \in DOMAIN s
    BY <1>1, <1>3, <2>1, <2>2
  <2>3. CASE k = Len(s) + 1
    BY <1>1, <2>1, <2>3
  <2> QED
    BY <1>1, <1>3, <2>2, <2>3
<1> QED
    BY <1>2, <1>3 DEF a

(* A sample, or the gap before one, goes on with the overview ring.         *)
LEMMA OverviewAppended ==
    ASSUME NEW s \in Seq(Nat), GoesOn(s), NEW e \in Nat,
           s # <<>> => LET n == Len(s)
                       IN  IF s[n] # 0 THEN e \in {0, s[n] + 1}
                           ELSE n > 1 /\ e > s[n - 1] + 1
    PROVE  GoesOn(Append(s, e))
<1> DEFINE a == Append(s, e)
           n == Len(s)
<1>1. /\ Len(a) = n + 1 /\ n \in Nat /\ a[n + 1] = e
      /\ \A k \in 1 .. n : a[k] = s[k] /\ s[k] \in Nat
      /\ s = <<>> <=> n = 0
    BY Appended
<1> SUFFICES GoesOn(a)
    OBVIOUS
<1> HIDE DEF a, n
<1>2. Len(a) - 1 = n
    BY <1>1
<1> SUFFICES ASSUME NEW k \in 1 .. n
             PROVE  IF a[k] # 0 THEN a[k + 1] \in {0, a[k] + 1}
                    ELSE k > 1 /\ a[k + 1] > a[k - 1] + 1
    BY <1>2 DEF GoesOn
<1>3. CASE k = n
  <2>1. /\ IF s[n] # 0 THEN e \in {0, s[n] + 1}
           ELSE n > 1 /\ e > s[n - 1] + 1
        /\ k + 1 = n + 1
    BY <1>1, <1>3 DEF n
  <2>2. a[k] = s[n] /\ a[k + 1] = e /\ (n > 1 => a[k - 1] = s[n - 1])
    BY <1>1, <1>3
  <2> QED
    BY <1>3, <2>1, <2>2
<1>4. CASE k # n
  <2>1. k \in 1 .. n - 1 /\ k + 1 \in 1 .. n
    BY <1>1, <1>4
  <2>2. IF s[k] # 0 THEN s[k + 1] \in {0, s[k] + 1}
        ELSE k > 1 /\ s[k + 1] > s[k - 1] + 1
    BY <2>1 DEF GoesOn, n
  <2>3. a[k] = s[k] /\ a[k + 1] = s[k + 1] /\ (k > 1 => a[k - 1] = s[k - 1])
    BY <1>1, <2>1
  <2> QED
    BY <2>2, <2>3
<1> QED
    BY <1>3, <1>4

(* Another sample at the end of the histories, after a gap if one or more   *)
(* were passed over.                                                        *)
LEMMA SampleRecorded ==
    ASSUME NEW held, NEW drawn, NEW newest \in Nat, NEW g \in Nat, g > newest,
           HistoriesOf(held, drawn, newest)
    PROVE  /\ (newest = 0 \/ g = newest + 1) =>
                  HistoriesOf(Append(held, g), Append(drawn, g), g)
           /\ (newest # 0 /\ g # newest + 1) =>
                  HistoriesOf(Append(Append(held, 0), g), Append(drawn, g), g)
<1> DEFINE d == Append(drawn, g)
<1>1. /\ held \in Seq(Nat) /\ drawn \in Seq(Nat) /\ GoesOn(held)
      /\ (held = <<>>) <=> (newest = 0)
      /\ newest # 0 => held[Len(held)] = newest
      /\ g # 0
    BY DEF HistoriesOf
<1>2. /\ d \in Seq(Nat) /\ d # <<>> /\ d[Len(d)] = g
      /\ \A k \in DOMAIN d : d[k] # 0 /\ d[k] <= g
      /\ \A j, k \in DOMAIN d : j < k => d[j] < d[k]
    BY <1>1, Appended, RingAppended, SMTT(30) DEF HistoriesOf
<1>3. \A x \in Nat : (\E k \in DOMAIN d : d[k] = x) <=>
                     (x = g \/ \E k \in DOMAIN drawn : drawn[k] = x)
    BY <1>1, EntriesAppended
<1> HIDE DEF d
<1>4. \A x \in Nat \ {0} : (\E k \in DOMAIN held : held[k] = x) <=>
                           (\E k \in DOMAIN drawn : drawn[k] = x)
    BY DEF HistoriesOf
<1>5. ASSUME newest = 0 \/ g = newest + 1
      PROVE  HistoriesOf(Append(held, g), d, g)
  <2> DEFINE h == Append(held, g)
  <2>1. h \in Seq(Nat) /\ h # <<>> /\ h[Len(h)] = g
    BY <1>1, Appended
  <2>2. \A x \in Nat : (\E k \in DOMAIN h : h[k] = x) <=>
                       (x = g \/ \E k \in DOMAIN held : held[k] = x)
    BY <1>1, EntriesAppended
  <2>3. GoesOn(h)
    BY <1>1, <1>5, OverviewAppended
  <2> HIDE DEF h
  <2>4. \A x \in Nat \ {0} : (\E k \in DOMAIN h : h[k] = x) <=>
                             (\E k \in DOMAIN d : d[k] = x)
    BY <1>3, <1>4, <2>2
  <2>5. HistoriesOf(h, d, g)
    BY <1>1, <1>2, <2>1, <2>3, <2>4 DEF HistoriesOf
  <2> QED
    BY <2>5 DEF h
<1>6. ASSUME newest # 0, g # newest + 1
      PROVE  HistoriesOf(Append(Append(held, 0), g), d, g)
  <2> DEFINE i == Append(held, 0)
             h == Append(i, g)
  <2>1. /\ i \in Seq(Nat) /\ i # <<>> /\ Len(i) = Len(held) + 1
        /\ i[Len(i)] = 0 /\ Len(held) \in Nat /\ Len(held) # 0
        /\ i[Len(held)] = held[Len(held)]
    BY <1>1, <1>6, Appended
  <2>2. GoesOn(i)
    BY <1>1, <1>6, OverviewAppended
  <2>3. \A x \in Nat : (\E k \in DOMAIN i : i[k] = x) <=>
                       (x = 0 \/ \E k \in DOMAIN held : held[k] = x)
    <3>1. 0 \in Nat
      OBVIOUS
    <3> QED
      BY <1>1, <3>1, EntriesAppended, Zenon
  <2> HIDE DEF i
  <2>4. h \in Seq(Nat) /\ h # <<>> /\ h[Len(h)] = g
    BY <2>1, Appended
  <2>5. \A x \in Nat : (\E k \in DOMAIN h : h[k] = x) <=>
                       (x = g \/ \E k \in DOMAIN i : i[k] = x)
    BY <2>1, EntriesAppended
  <2>6. Len(i) > 1 /\ i[Len(i) - 1] = newest /\ g > newest + 1
    BY <1>1, <1>6, <2>1
  <2>7. GoesOn(h)
    BY <2>1, <2>2, <2>6, OverviewAppended
  <2> HIDE DEF h
  <2>8. \A x \in Nat \ {0} : (\E k \in DOMAIN h : h[k] = x) <=>
                             (\E k \in DOMAIN d : d[k] = x)
    BY <1>3, <1>4, <2>3, <2>5
  <2>9. HistoriesOf(h, d, g)
    BY <1>1, <1>2, <2>4, <2>7, <2>8 DEF HistoriesOf
  <2> QED
    BY <2>9 DEF h, i
<1> QED
    BY <1>5, <1>6 DEF d

(* record_completed_monitor_sample, with the sample held or the next one.   *)
LEMMA MonitorUpdated ==
    ASSUME WindowInv, win_page # "closed", Window!UpdateMonitor
    PROVE  /\ SamplesInv' /\ HistoriesOf(overview', ring', last'.generation)
           /\ backend' \in {"none", "ready", "failed"}
<1> DEFINE m == win_monitor'
<1>1. SamplesInv /\ HistoriesOf(overview, ring, last.generation)
      /\ backend \in {"none", "ready", "failed"}
    BY DEF WindowInv, ListInv
<1>2. backend' \in {"none", "ready", "failed"}
    BY <1>1 DEF Window!UpdateMonitor
<1>3. CASE backend' # "ready"
    BY <1>1, <1>2, <1>3 DEF Window!UpdateMonitor, SamplesInv
<1>4. CASE backend' = "ready"
  <2>1. /\ m = IF ready = Window!NoSample THEN win_monitor ELSE ready
        /\ ready' = Window!NoSample
        /\ Window!record_completed_monitor_sample(m)
    BY <1>4 DEF Window!UpdateMonitor
  <2>2. Window!NoSample.generation = 0 /\ Window!NoSample.at = 0
    BY DEF Window!NoSample
  <2>3. PageSamples \in Nat
    BY MainLoopAssumption DEF MainLoopAssumption, Window!ShellAssumption
  <2> HIDE DEF m
  <2>4. /\ SampleOK(m) /\ m.generation \in Nat /\ last.generation \in Nat
        /\ last.generation <= m.generation
        /\ SampleOK(ready')
    BY <1>1, <2>1, <2>2, <2>3 DEF SamplesInv, SampleOK
  <2>5. CASE UNCHANGED <<overview, ring, last>>
    BY <1>1, <1>2, <2>1, <2>2, <2>4, <2>5 DEF SamplesInv, m
  <2>6. CASE ~UNCHANGED <<overview, ring, last>>
    <3> DEFINE g == m.generation
               skipped == last # Window!NoSample /\ g # last.generation + 1
    <3>1. /\ g # last.generation
          /\ overview' = overview \o (IF skipped THEN <<0>> ELSE <<>>) \o <<g>>
          /\ ring' = Append(ring, g) /\ last' = m
      BY <2>1, <2>6 DEF Window!record_completed_monitor_sample, Window!Gap
    <3>2. last = Window!NoSample <=> last.generation = 0
      BY <1>1, <2>2 DEF SamplesInv, SampleOK
    <3>3. overview \in Seq(Nat)
      BY <1>1 DEF HistoriesOf
    <3>4. g \in Nat /\ g > last.generation
      BY <2>4, <3>1
    <3> HIDE DEF g
    <3>5. overview' = IF skipped THEN Append(Append(overview, 0), g)
                      ELSE Append(overview, g)
      BY <3>1, <3>3, <3>4
    <3>6. HistoriesOf(overview', ring', g)
      BY <1>1, <2>4, <3>1, <3>2, <3>4, <3>5, SampleRecorded
    <3>7. last'.generation = g
      BY <3>1 DEF g
    <3> QED
      BY <1>2, <2>1, <2>2, <2>4, <3>1, <3>4, <3>6, <3>7 DEF SamplesInv, m, g
  <2> QED
    BY <2>5, <2>6
<1> QED
    BY <1>3, <1>4

(* refresh_active_page, whichever page it finds in front.                   *)
LEMMA PageRefreshed ==
    ASSUME WindowInv, win_page # "closed", NEW p \in Window!Pages,
           NEW i \in {"cpu", "disk"}, NEW n,
           Window!refresh_active_page(p, i, n), win_page' = p
    PROVE  WindowInv'
<1>1. /\ SamplesInv' /\ HistoriesOf(overview', ring', last'.generation)
      /\ backend' \in {"none", "ready", "failed"}
    BY MonitorUpdated DEF Window!refresh_active_page
<1>2. /\ item \in {"cpu", "disk"}
      /\ {win_completed, processes, listed} \subseteq Structures \cup {0}
      /\ status \in {"starting", "unavailable", "refreshing", "listed", "other"}
      /\ listed = processes \/ taken_unlisted
    BY DEF WindowInv, ListInv, Window!RowsExplained
<1>3. /\ item' \in {"cpu", "disk"}
      /\ {win_completed', processes', listed'} \subseteq Structures \cup {0}
      /\ status' \in {"starting", "unavailable", "refreshing", "listed", "other"}
      /\ listed' = processes' \/ taken_unlisted'
  <2>1. CASE p = "performance"
    <3>1. /\ item' \in {"cpu", i} /\ status' = "other"
          /\ UNCHANGED <<win_completed, processes, listed, taken_unlisted>>
      BY <2>1 DEF Window!refresh_active_page,
                  Window!validate_performance_selection
    <3> QED
      BY <1>2, <3>1
  <2>2. CASE p = "processes"
    <3>1. Window!refresh_processes
      BY <2>2 DEF Window!refresh_active_page
    <3> QED
      BY <1>2, <3>1 DEF Window!refresh_processes
  <2>3. CASE p = "overview"
    <3>1. Window!refresh_overview_processes
      BY <2>3 DEF Window!refresh_active_page
    <3> QED
      BY <1>2, <3>1 DEF Window!refresh_overview_processes
  <2>4. CASE p = "other"
    <3>1. UNCHANGED <<Window!processVars, item, index>>
      BY <2>4 DEF Window!refresh_active_page
    <3> QED
      BY <1>2, <3>1 DEF Window!processVars
  <2> QED
    BY <2>1, <2>2, <2>3, <2>4 DEF Window!Pages
<1> QED
    BY <1>1, <1>3 DEF WindowInv, ListInv, Window!RowsExplained

(* The window opens with empty histories and an empty list.                 *)
LEMMA WindowStart == Init => WindowInv
<1> SUFFICES ASSUME Init PROVE WindowInv
    OBVIOUS
<1>1. Window!Init
    BY DEF Init
<1>2. PageSamples \in Nat
    BY MainLoopAssumption DEF MainLoopAssumption, Window!ShellAssumption
<1>3. SampleOK(Window!NoSample) /\ Window!NoSample.generation = 0
    BY <1>2 DEF SampleOK, Window!NoSample
<1>4. ListInv
    BY <1>1 DEF Window!Init, ListInv, Window!RowsExplained, Window!Pages
<1>5. SamplesInv
    BY <1>1, <1>3 DEF Window!Init, SamplesInv
<1>6. HistoriesOf(<<>>, <<>>, 0)
    BY DEF HistoriesOf, GoesOn
<1> QED
    BY <1>1, <1>3, <1>4, <1>5, <1>6 DEF Window!Init, WindowInv

(* Every message handler keeps the histories and explains the rows.         *)
LEMMA WindowStep == WindowInv /\ [Window!Next]_windowVars => WindowInv'
<1> SUFFICES ASSUME WindowInv, [Window!Next]_windowVars PROVE WindowInv'
    OBVIOUS
<1>1. ListInv /\ SamplesInv
      /\ (win_page # "closed" => HistoriesOf(overview, ring, last.generation))
    BY DEF WindowInv
<1>2. ASSUME UNCHANGED <<win_page, item, backend, win_completed, processes,
                         listed, status, taken_unlisted>>
      PROVE  ListInv'
    BY <1>1, <1>2 DEF ListInv, Window!RowsExplained
<1>3. CASE Window!SampleCompletes
  <2>1. PICK tick \in {0, 1}, list \in {<<1, 2>>, <<2>>} :
           ready' = [generation |-> win_monitor.generation + 1,
                     at |-> win_monitor.at
                              + (IF win_monitor = Window!NoSample THEN 1
                                 ELSE tick),
                     disks |-> list]
    BY <1>3 DEF Window!SampleCompletes
  <2>2. /\ win_monitor.generation < PageSamples
        /\ UNCHANGED <<win_page, item, index, backend, win_monitor, overview,
                       ring, last, Window!processVars, rail>>
    BY <1>3 DEF Window!SampleCompletes
  <2>3. PageSamples \in Nat
    BY MainLoopAssumption DEF MainLoopAssumption, Window!ShellAssumption
  <2>4. SampleOK(ready') /\ ready'.generation = win_monitor.generation + 1
    BY <1>1, <2>1, <2>2, <2>3 DEF SamplesInv, SampleOK
  <2>5. SamplesInv'
    BY <1>1, <2>2, <2>4 DEF SamplesInv
  <2>6. ListInv'
    BY <1>2, <2>2 DEF Window!processVars
  <2> QED
    BY <1>1, <2>2, <2>5, <2>6 DEF WindowInv
<1>4. CASE Window!ScanCompletes
  <2>1. /\ win_completed' \in Structures
        /\ UNCHANGED <<win_page, item, index, Window!monitorVars, processes,
                       listed, status, taken_unlisted, rail>>
    BY <1>4 DEF Window!ScanCompletes
  <2> QED
    BY <1>1, <2>1
    DEF WindowInv, ListInv, SamplesInv, Window!RowsExplained,
        Window!monitorVars
<1>5. CASE Window!Timer
  <2>1. /\ win_page # "closed" /\ win_page' = win_page
        /\ Window!refresh_active_page(win_page, item, index)
    BY <1>5 DEF Window!Timer
  <2>2. win_page \in Window!Pages /\ item \in {"cpu", "disk"}
    BY <1>1, <2>1 DEF ListInv
  <2> QED
    BY <2>1, <2>2, PageRefreshed
<1>6. ASSUME NEW p \in Window!Pages, Window!show_page(p) PROVE WindowInv'
  <2>1. win_page # "closed" /\ win_page' = p /\ p # "closed"
    BY <1>6 DEF Window!show_page, Window!Pages
  <2>2. CASE p = "other"
    <3>1. /\ status' = "other"
          /\ UNCHANGED <<item, index, Window!monitorVars, win_completed,
                         processes, listed, taken_unlisted, rail>>
      BY <1>6, <2>2 DEF Window!show_page
    <3>2. ListInv'
      BY <1>1, <2>1, <3>1 DEF ListInv, Window!RowsExplained,
         Window!monitorVars
    <3> QED
      BY <1>1, <2>1, <3>1, <3>2 DEF WindowInv, SamplesInv, Window!monitorVars
  <2>3. CASE p # "other"
    BY <1>1, <1>6, <2>1, <2>3, PageRefreshed DEF Window!show_page, ListInv
  <2> QED
    BY <2>2, <2>3
<1>7. CASE Window!navigate_overview_card
  <2>1. PICK n : /\ win_page = "overview" /\ win_page' = "performance"
                 /\ Window!refresh_active_page("performance", "disk", n - 1)
    BY <1>7 DEF Window!navigate_overview_card
  <2>2. "performance" \in Window!Pages
    BY DEF Window!Pages
  <2> QED
    BY <2>1, <2>2, PageRefreshed
<1>8. CASE Window!Paint
  <2>1. UNCHANGED <<win_page, item, index, Window!monitorVars,
                    Window!processVars>>
    BY <1>8 DEF Window!Paint
  <2> QED
    BY <1>1, <1>2, <2>1
    DEF WindowInv, SamplesInv, Window!monitorVars, Window!processVars
<1>9. CASE Window!ClickRail
  <2>1. /\ item' \in {"cpu", "disk"}
        /\ UNCHANGED <<win_page, Window!monitorVars, Window!processVars>>
    BY <1>9 DEF Window!ClickRail
  <2> QED
    BY <1>1, <2>1
    DEF WindowInv, SamplesInv, ListInv, Window!RowsExplained,
        Window!monitorVars, Window!processVars
<1>10. CASE Window!destroy_state
    BY <1>1, <1>10
    DEF WindowInv, SamplesInv, ListInv, Window!RowsExplained,
        Window!destroy_state
<1>11. CASE Window!Closed \/ UNCHANGED windowVars
  <2>1. UNCHANGED windowVars
    BY <1>11 DEF Window!Closed, Window!vars, Window!monitorVars,
       Window!processVars, windowVars
  <2> QED
    BY <1>1, <1>2, <2>1 DEF WindowInv, SamplesInv, windowVars
<1> QED
    BY <1>3, <1>4, <1>5, <1>6, <1>7, <1>8, <1>9, <1>10, <1>11 DEF Window!Next

(* What the invariant of the window says of its histories and rows.         *)
LEMMA WindowImplied ==
    WindowInv => Window!TypeOK /\ Window!HistoriesAgree /\ Window!RowsExplained
<1> SUFFICES ASSUME WindowInv
             PROVE  Window!TypeOK /\ Window!HistoriesAgree
                    /\ Window!RowsExplained
    OBVIOUS
<1>1. Window!TypeOK /\ Window!RowsExplained
    BY DEF WindowInv, ListInv, SamplesInv, SampleOK, Window!TypeOK
<1>2. ASSUME win_page # "closed" PROVE Window!HistoriesAgree
  <2>1. HistoriesOf(overview, ring, last.generation)
    BY <1>2 DEF WindowInv
  <2>2. overview \in Seq(Nat) /\ ring \in Seq(Nat)
    BY <2>1 DEF HistoriesOf
  <2>3. /\ \A k \in DOMAIN overview : overview[k] \in Nat
        /\ \A k \in DOMAIN ring : ring[k] \in Nat \ {0}
    BY <2>1, <2>2 DEF HistoriesOf
  <2>4. Window!Range(overview) \ {Window!Gap} = Window!Range(ring)
    <3>1. \A g \in Nat \ {0} : (\E k \in DOMAIN overview : overview[k] = g) <=>
                               (\E k \in DOMAIN ring : ring[k] = g)
      BY <2>1 DEF HistoriesOf
    <3>2. \A g : g \in Window!Range(overview) \ {Window!Gap} <=>
                 g \in Nat \ {0} /\ \E k \in DOMAIN overview : overview[k] = g
      BY <2>3 DEF Window!Range, Window!Gap
    <3>3. \A g : g \in Window!Range(ring) <=>
                 g \in Nat \ {0} /\ \E k \in DOMAIN ring : ring[k] = g
      BY <2>3 DEF Window!Range
    <3> QED
      BY <3>1, <3>2, <3>3
  <2> QED
    BY <2>1, <2>4 DEF HistoriesOf, GoesOn, Window!HistoriesAgree, Window!Gap
<1> QED
    BY <1>1, <1>2 DEF Window!HistoriesAgree

-----------------------------------------------------------------------------
(* The pages stay current: the proof that the invariants above hold         *)
(* whatever the pages, samples and generations.                             *)

(* The generations 1 to n in order.                                         *)
Recorded(n) == [g \in 1 .. n |-> g]

(* The sampler is at most one sample ahead of the monitor, and everything   *)
(* the monitor has published is recorded.                                   *)
MonitorInv(s) ==
    /\ sampler \in {"idle", "requested", "collecting", "ready"}
    /\ sample \in Pipeline(s)!Samples /\ monitor \in Pipeline(s)!Samples
    /\ IF sampler = "ready" THEN sample.generation = monitor.generation + 1
       ELSE sample = monitor
    /\ sampler = "collecting" => sample.generation < SamplesOf(s)
    /\ displayed_topology_generation = monitor.topology
    /\ recorded_sample_generation = monitor.generation
    /\ displayed_sample_generation \in 0 .. SamplesOf(s)
    /\ active_tab = "performance" =>
          displayed_sample_generation = monitor.generation
    /\ device_graph = Recorded(monitor.generation)
    /\ overview_history = Recorded(monitor.generation)
    /\ overview_graph \in Seq(1 .. SamplesOf(s))
    /\ Pipeline(s)!OverviewGraphComplete

(* The scanner's hand-over and the stores of the process pages.             *)
ProcessesInv(s) ==
    /\ requested \in Pipeline(s)!Flags \cup {Pipeline(s)!None}
    /\ scanning \in Pipeline(s)!Scans \cup {Pipeline(s)!NoScan}
    /\ completed \in Pipeline(s)!Scans \cup {Pipeline(s)!NoScan}
    /\ dispatch_pending \in BOOLEAN
    /\ snapshot \in Pipeline(s)!Snapshots
    /\ model_dirty \in [Pipeline(s)!ProcessPages -> BOOLEAN]
    /\ shown \in [Pipeline(s)!ProcessPages -> Pipeline(s)!Snapshots]
    /\ active_tab \in Pipeline(s)!ProcessPages => shown[active_tab] = snapshot
    /\ Pipeline(s)!CleanPageCurrent

ShellInv(s) ==
    /\ paused \in BOOLEAN /\ catalog_ready \in BOOLEAN
    /\ active_tab \in TabsOf(s) /\ page_built \subseteq TabsOf(s)
    /\ active_tab \in page_built

OverviewInv(s) ==
    /\ displayed_monitor_generation \in 0 .. SamplesOf(s)
    /\ displayed_process_generation \in 0 .. GenerationsOf(s)
    /\ active_tab = "overview" /\ monitor.generation # 0 =>
         /\ displayed_monitor_generation = monitor.generation
         /\ displayed_process_generation = snapshot.generation

PipelineInv(s) ==
    /\ MonitorInv(s) /\ ProcessesInv(s) /\ ShellInv(s) /\ OverviewInv(s)

(* Recording one more sample.                                               *)
LEMMA RecordedOne ==
    ASSUME NEW n \in Nat
    PROVE  /\ Recorded(n) \in Seq(1 .. n) /\ Len(Recorded(n)) = n
           /\ Append(Recorded(n), n + 1) = Recorded(n + 1)
           /\ n # 0 => Recorded(n) # <<>> /\ Recorded(n)[n] = n
           /\ n = 0 => Recorded(n) = <<>>
<1>1. Recorded(n) \in Seq(1 .. n) /\ Len(Recorded(n)) = n
    BY DEF Recorded
<1>2. Append(Recorded(n), n + 1) = Recorded(n + 1)
    BY <1>1 DEF Recorded
<1>3. n # 0 => Recorded(n)[n] = n
    BY DEF Recorded
<1>4. n = 0 => Recorded(n) = <<>>
    BY DEF Recorded
<1> QED
    BY <1>1, <1>2, <1>3, <1>4

(* lsm_performance_refresh takes over a finished sample and records it.     *)
LEMMA Refreshed ==
    ASSUME NEW s, Pipeline(s)!PipelineAssumption, MonitorInv(s),
           Pipeline(s)!lsm_performance_refresh,
           page_built' = page_built
           \/ page_built' = page_built \cup {"performance"}
    PROVE  MonitorInv(s)'
<1> DEFINE n == monitor.generation
           m == monitor'.generation
<1>1. /\ monitor' = (IF sampler = "ready" THEN sample ELSE monitor)
      /\ sampler' = (IF sampler \in {"idle", "ready"} THEN "requested"
                     ELSE sampler)
      /\ sample' = sample
      /\ displayed_topology_generation' = monitor'.topology
    BY DEF Pipeline!lsm_performance_refresh, Pipeline!lsm_monitor_update
<1>2. /\ n \in Nat /\ m \in Nat /\ m \in 0 .. SamplesOf(s)
      /\ monitor' \in Pipeline(s)!Samples /\ sample' = monitor'
      /\ sampler' \in {"requested", "collecting"}
      /\ sampler' = "collecting" => sample'.generation < SamplesOf(s)
      /\ sampler = "ready" => m = n + 1
      /\ sampler # "ready" => m = n /\ monitor' = monitor
    BY <1>1 DEF MonitorInv, Pipeline!Samples, Pipeline!PipelineAssumption
<1>3. Pipeline(s)!RecordDue <=> sampler = "ready"
    BY <1>2 DEF Pipeline!RecordDue, Pipeline!Known, MonitorInv
<1>4. /\ recorded_sample_generation' = m
      /\ device_graph' = Recorded(m) /\ overview_history' = Recorded(m)
  <2>1. CASE sampler = "ready"
    BY <2>1, <1>2, <1>3, RecordedOne
    DEF Pipeline!lsm_performance_refresh, Pipeline!RecordSample, MonitorInv
  <2>2. CASE sampler # "ready"
    BY <2>2, <1>2, <1>3
    DEF Pipeline!lsm_performance_refresh, Pipeline!RecordSample, MonitorInv,
        Pipeline!Known
  <2> QED
    BY <2>1, <2>2
<1>5. overview_graph' \in Seq(1 .. SamplesOf(s))
  <2>1. overview_graph' = overview_graph
        \/ (overview_graph' = Append(overview_graph, m) /\ m # 0)
    BY DEF Pipeline!lsm_performance_refresh, Pipeline!RecordSample,
           Pipeline!RecordDue
  <2>2. m # 0 => m \in 1 .. SamplesOf(s)
    BY <1>2 DEF Pipeline!PipelineAssumption
  <2>3. overview_graph \in Seq(1 .. SamplesOf(s))
    BY DEF MonitorInv
  <2>4. \A e \in 1 .. SamplesOf(s) :
           Append(overview_graph, e) \in Seq(1 .. SamplesOf(s))
    BY <2>3
  <2> QED
    BY <2>1, <2>2, <2>3, <2>4
<1>6. Pipeline(s)!OverviewGraphComplete'
  <2> SUFFICES ASSUME "overview" \in page_built'
               PROVE  overview_graph' = overview_history'
    BY DEF Pipeline!OverviewGraphComplete
  <2>1. "overview" \in page_built /\ overview_graph = overview_history
    BY DEF MonitorInv, Pipeline!OverviewGraphComplete
  <2> QED
    BY <2>1 DEF Pipeline!lsm_performance_refresh, Pipeline!RecordSample
<1>7. /\ displayed_sample_generation' \in 0 .. SamplesOf(s)
      /\ active_tab' = "performance" => displayed_sample_generation' = m
    BY <1>2
    DEF Pipeline!lsm_performance_refresh, Pipeline!Known, MonitorInv,
        Pipeline!PipelineAssumption
<1> QED
    BY <1>1, <1>2, <1>4, <1>5, <1>6, <1>7 DEF MonitorInv

(* The steps that leave the monitor side alone.                             *)
LEMMA MonitorKept ==
    ASSUME NEW s, MonitorInv(s), UNCHANGED <<Pipeline(s)!samplerVars,
                                             Pipeline(s)!monitorVars>>,
           active_tab' = active_tab, page_built' = page_built
    PROVE  MonitorInv(s)'
    BY DEF MonitorInv, Pipeline!samplerVars, Pipeline!monitorVars,
           Pipeline!OverviewGraphComplete

(* The steps that leave the process pages alone.                            *)
LEMMA ProcessesKept ==
    ASSUME NEW s, ProcessesInv(s), UNCHANGED <<Pipeline(s)!scannerVars,
                                               Pipeline(s)!processVars>>,
           active_tab' = active_tab
    PROVE  ProcessesInv(s)'
    BY DEF ProcessesInv, Pipeline!scannerVars, Pipeline!processVars,
           Pipeline!CleanPageCurrent

(* Taking a completed scan, or not, and presenting the pages it concerns:   *)
(* a page that comes to the front without a new snapshot is presented if it *)
(* was dirty.                                                               *)
LEMMA Presented ==
    ASSUME NEW s, Pipeline(s)!PipelineAssumption, ProcessesInv(s),
           NEW taken \in BOOLEAN,
           NEW entering \in BOOLEAN,
           taken => completed # Pipeline(s)!NoScan,
           Pipeline(s)!Consume(taken), Pipeline(s)!PresentProcessPages(taken,
             entering),
           active_tab' \in page_built',
           active_tab' \in Pipeline(s)!ProcessPages
             => active_tab' = active_tab \/ entering
    PROVE  /\ completed' \in Pipeline(s)!Scans \cup {Pipeline(s)!NoScan}
           /\ snapshot' \in Pipeline(s)!Snapshots
           /\ model_dirty' \in [Pipeline(s)!ProcessPages -> BOOLEAN]
           /\ shown' \in [Pipeline(s)!ProcessPages -> Pipeline(s)!Snapshots]
           /\ active_tab' \in Pipeline(s)!ProcessPages
                => shown'[active_tab'] = snapshot'
           /\ Pipeline(s)!CleanPageCurrent'
<1>1. taken => /\ completed \in Pipeline(s)!Scans
      /\ completed.flags \in Pipeline(s)!Flags
               /\ Pipeline(s)!NextGeneration(snapshot.generation) \in 0 .. GenerationsOf(s)
    BY DEF ProcessesInv, Pipeline!Scans, Pipeline!Snapshots,
           Pipeline!NextGeneration, Pipeline!PipelineAssumption
<1>2. taken => snapshot' \in Pipeline(s)!Snapshots
    BY <1>1 DEF Pipeline!Consume, Pipeline!Snapshots
<1>3. ~taken => snapshot' = snapshot /\ completed' = completed
    BY DEF Pipeline!Consume
<1>4. completed' \in Pipeline(s)!Scans \cup {Pipeline(s)!NoScan}
      /\ snapshot' \in Pipeline(s)!Snapshots
    BY <1>2, <1>3 DEF Pipeline!Consume, ProcessesInv
<1>5. /\ model_dirty' \in [Pipeline(s)!ProcessPages -> BOOLEAN]
      /\ shown' \in [Pipeline(s)!ProcessPages -> Pipeline(s)!Snapshots]
    BY <1>4 DEF Pipeline!PresentProcessPages, ProcessesInv
<1>6. ASSUME NEW p \in Pipeline(s)!ProcessPages, ~model_dirty'[p]
      PROVE  shown'[p] = snapshot'
    BY <1>3, <1>6
    DEF Pipeline!PresentProcessPages, ProcessesInv, Pipeline!CleanPageCurrent
<1>7. ASSUME active_tab' \in Pipeline(s)!ProcessPages
      PROVE  shown'[active_tab'] = snapshot'
    BY <1>3, <1>7
    DEF Pipeline!PresentProcessPages, ProcessesInv, Pipeline!CleanPageCurrent
<1> QED
    BY <1>4, <1>5, <1>6, <1>7 DEF Pipeline!CleanPageCurrent

(* lsm_process_workspace_update.                                            *)
LEMMA WorkspaceUpdated ==
    ASSUME NEW s, Pipeline(s)!PipelineAssumption, ProcessesInv(s),
           NEW due \in BOOLEAN,
           NEW entering \in BOOLEAN,
           Pipeline(s)!lsm_process_workspace_update(due, entering),
           active_tab' \in page_built',
           active_tab' \in Pipeline(s)!ProcessPages
             => active_tab' = active_tab \/ entering
    PROVE  ProcessesInv(s)'
<1> DEFINE taken == due /\ completed # Pipeline(s)!NoScan
<1>1. /\ taken \in BOOLEAN /\ (taken => completed # Pipeline(s)!NoScan)
      /\ Pipeline(s)!Consume(taken) /\ Pipeline(s)!PresentProcessPages(taken,
           entering)
      /\ scanning' = scanning /\ dispatch_pending' = dispatch_pending
    BY DEF Pipeline!lsm_process_workspace_update
<1>2. requested' \in Pipeline(s)!Flags \cup {Pipeline(s)!None}
    BY DEF Pipeline!lsm_process_workspace_update,
           Pipeline!lsm_process_scanner_request,
           Pipeline!process_scan_flags, Pipeline!Flags, ProcessesInv
<1> HIDE DEF taken
<1> QED
    BY <1>1, <1>2, Presented DEF ProcessesInv

(* lsm_overview_refresh shows the newest sample and snapshot when the       *)
(* overview is in front.                                                    *)
LEMMA OverviewRefreshed ==
    ASSUME NEW s, Pipeline(s)!PipelineAssumption, OverviewInv(s),
           MonitorInv(s)', snapshot' \in Pipeline(s)!Snapshots,
           active_tab' \in page_built', Pipeline(s)!lsm_overview_refresh
    PROVE  OverviewInv(s)'
<1> DEFINE m == monitor'.generation
<1>1. m \in Nat /\ m \in 0 .. SamplesOf(s) /\ overview_history' = Recorded(m)
    BY DEF MonitorInv, Pipeline!Samples, Pipeline!PipelineAssumption
<1>2. snapshot'.generation \in 0 .. GenerationsOf(s)
    BY DEF Pipeline!Snapshots
<1> HIDE DEF m
<1>3. /\ Len(Recorded(m)) = m
      /\ m # 0 => Recorded(m) # <<>> /\ Recorded(m)[m] = m
      /\ m = 0 => Recorded(m) = <<>>
    BY <1>1, RecordedOne
<1>4. CASE active_tab' = "overview" /\ m # 0
  <2>1. /\ displayed_monitor_generation' = m
        /\ displayed_process_generation' = snapshot'.generation
    BY <1>1, <1>3, <1>4 DEF Pipeline!lsm_overview_refresh
  <2> QED
    BY <1>1, <1>2, <2>1 DEF OverviewInv, m
<1>5. CASE ~(active_tab' = "overview" /\ m # 0)
  <2>1. UNCHANGED Pipeline(s)!overviewVars
    BY <1>1, <1>3, <1>5 DEF Pipeline!lsm_overview_refresh
  <2> QED
    BY <1>5, <2>1 DEF OverviewInv, Pipeline!overviewVars, m
<1> QED
    BY <1>4, <1>5

(* The steps that leave the overview alone.                                 *)
LEMMA OverviewKept ==
    ASSUME NEW s, OverviewInv(s), UNCHANGED <<Pipeline(s)!monitorVars,
                                              Pipeline(s)!overviewVars,
                                                snapshot>>,
           active_tab' = active_tab
    PROVE  OverviewInv(s)'
    BY DEF OverviewInv, Pipeline!monitorVars, Pipeline!overviewVars

(* The opening of a page: activated, built on first use and entered.        *)
LEMMA TabOpened ==
    ASSUME NEW s, Pipeline(s)!PipelineAssumption, PipelineInv(s),
           NEW opened \in TabsOf(s),
           Pipeline(s)!on_registry_tab_switched(opened)
    PROVE  PipelineInv(s)'
<1>1. /\ active_tab' = opened /\ page_built' = page_built \cup {opened}
      /\ UNCHANGED <<paused, catalog_ready>> /\ opened # active_tab
    BY DEF Pipeline!on_registry_tab_switched
<1>2. ShellInv(s)'
    BY <1>1 DEF PipelineInv, ShellInv
<1>3. ProcessesInv(s)'
  <2>1. PICK due \in BOOLEAN :
           Pipeline(s)!lsm_process_workspace_update(
               due /\ opened # "performance" /\ ~paused,
                 opened \in Pipeline(s)!ProcessPages)
    BY DEF Pipeline!on_registry_tab_switched
  <2> DEFINE d == due /\ opened # "performance" /\ ~paused
             e == opened \in Pipeline(s)!ProcessPages
  <2>2. d \in BOOLEAN /\ e \in BOOLEAN
    OBVIOUS
  <2>3. Pipeline(s)!lsm_process_workspace_update(d, e)
    BY <2>1
  <2>4. active_tab' \in page_built'
        /\ (active_tab' \in Pipeline(s)!ProcessPages => e)
    BY <1>1
  <2>5. ProcessesInv(s)
    BY DEF PipelineInv
  <2> HIDE DEF d, e
  <2> QED
    BY <2>2, <2>3, <2>4, <2>5, WorkspaceUpdated
<1>4. MonitorInv(s)'
  <2>1. MonitorInv(s)
    BY DEF PipelineInv
  <2>2. CASE opened = "performance"
    BY <1>1, <2>1, <2>2, Refreshed DEF Pipeline!on_registry_tab_switched
  <2>3. CASE opened # "performance"
    <3>1. /\ overview_graph' = Pipeline(s)!BuiltGraph(opened)
          /\ UNCHANGED <<Pipeline(s)!samplerVars, monitor,
                         displayed_topology_generation,
                         recorded_sample_generation, device_graph,
                         displayed_sample_generation, overview_history>>
      BY <2>3 DEF Pipeline!on_registry_tab_switched
    <3>2. overview_history \in Seq(1 .. SamplesOf(s))
      <4>1. monitor.generation \in 0 .. SamplesOf(s)
        BY <2>1 DEF MonitorInv, Pipeline!Samples
      <4>2. \A n \in 0 .. SamplesOf(s) : Recorded(n) \in Seq(1 .. SamplesOf(s))
        BY DEF Recorded, Pipeline!PipelineAssumption
      <4> QED
        BY <2>1, <4>1, <4>2 DEF MonitorInv
    <3>3. overview_graph' \in Seq(1 .. SamplesOf(s))
          /\ Pipeline(s)!OverviewGraphComplete'
      BY <1>1, <2>1, <3>1, <3>2
      DEF Pipeline!BuiltGraph, MonitorInv, Pipeline!OverviewGraphComplete
    <3> QED
      BY <1>1, <2>1, <2>3, <3>1, <3>3 DEF MonitorInv, Pipeline!samplerVars
  <2> QED
    BY <2>2, <2>3
<1>5. OverviewInv(s)'
    BY <1>2, <1>3, <1>4, OverviewRefreshed
    DEF Pipeline!on_registry_tab_switched, PipelineInv, ProcessesInv, ShellInv
<1> QED
    BY <1>2, <1>3, <1>4, <1>5 DEF PipelineInv

(* The program starts with nothing published and nothing recorded.          *)
LEMMA PipelineStart ==
    ASSUME NEW s, Pipeline(s)!PipelineAssumption, Pipeline(s)!Init
    PROVE  PipelineInv(s)
<1>1. Pipeline(s)!EmptySample \in Pipeline(s)!Samples
      /\ Pipeline(s)!EmptySample.generation = 0
      /\ Pipeline(s)!EmptySample.topology = 0
    BY DEF Pipeline!EmptySample, Pipeline!Samples, Pipeline!PipelineAssumption
<1>2. Pipeline(s)!EmptySnapshot \in Pipeline(s)!Snapshots
      /\ Pipeline(s)!EmptySnapshot.generation = 0
    BY DEF Pipeline!EmptySnapshot, Pipeline!Snapshots,
           Pipeline!PipelineAssumption, Pipeline!Flags
<1>3. Recorded(0) = <<>> /\ <<>> \in Seq(1 .. SamplesOf(s))
    BY RecordedOne
<1>4. MonitorInv(s)
    BY <1>1, <1>3
    DEF Pipeline!Init, MonitorInv, Pipeline!OverviewGraphComplete,
        Pipeline!PipelineAssumption
<1>5. ProcessesInv(s)
    BY <1>2
    DEF Pipeline!Init, ProcessesInv, Pipeline!CleanPageCurrent,
        Pipeline!Flags, Pipeline!NoScan, Pipeline!Scans
<1>6. ShellInv(s)
    BY DEF Pipeline!Init, ShellInv, Pipeline!PipelineAssumption
<1>7. OverviewInv(s)
    BY <1>1 DEF Pipeline!Init, OverviewInv, Pipeline!PipelineAssumption
<1> QED
    BY <1>4, <1>5, <1>6, <1>7 DEF PipelineInv

(* Every handler and every step of the two workers keeps the pages current. *)
LEMMA PipelineStep ==
    ASSUME NEW s, Pipeline(s)!PipelineAssumption, PipelineInv(s),
           [Pipeline(s)!Next]_(Pipeline(s)!vars)
    PROVE  PipelineInv(s)'
<1>1. MonitorInv(s) /\ ProcessesInv(s) /\ ShellInv(s) /\ OverviewInv(s)
    BY DEF PipelineInv
<1>2. ASSUME UNCHANGED Pipeline(s)!shellVars
      PROVE  /\ ShellInv(s)' /\ active_tab' \in page_built'
             /\ active_tab' = active_tab /\ page_built' = page_built
    BY <1>1, <1>2 DEF ShellInv, Pipeline!shellVars
<1>3. CASE Pipeline(s)!ScanBegins \/ Pipeline(s)!ScanCompletes
           \/ Pipeline(s)!ScanFails
  <2>1. UNCHANGED <<Pipeline(s)!processVars, Pipeline(s)!samplerVars,
                    Pipeline(s)!monitorVars, Pipeline(s)!overviewVars,
                    Pipeline(s)!shellVars>>
    BY <1>3 DEF Pipeline!ScanBegins, Pipeline!ScanCompletes, Pipeline!ScanFails
  <2>2. /\ requested' \in Pipeline(s)!Flags \cup {Pipeline(s)!None}
        /\ scanning' \in Pipeline(s)!Scans \cup {Pipeline(s)!NoScan}
        /\ completed' \in Pipeline(s)!Scans \cup {Pipeline(s)!NoScan}
        /\ dispatch_pending' \in BOOLEAN
    <3>1. CASE Pipeline(s)!ScanBegins
      <4>1. requested \in Pipeline(s)!Flags
            /\ [flags |-> requested] \in Pipeline(s)!Scans
        BY <1>1, <3>1 DEF Pipeline!ScanBegins, ProcessesInv, Pipeline!Scans
      <4> QED
        BY <1>1, <3>1, <4>1 DEF Pipeline!ScanBegins, ProcessesInv
    <3>2. CASE Pipeline(s)!ScanCompletes
      BY <1>1, <3>2 DEF Pipeline!ScanCompletes, ProcessesInv
    <3>3. CASE Pipeline(s)!ScanFails
      BY <1>1, <3>3 DEF Pipeline!ScanFails, ProcessesInv
    <3> QED
      BY <1>3, <3>1, <3>2, <3>3
  <2>3. ProcessesInv(s)'
    BY <1>1, <1>2, <2>1, <2>2
    DEF ProcessesInv, Pipeline!processVars, Pipeline!CleanPageCurrent
  <2> QED
    BY <1>1, <1>2, <2>1, <2>3, MonitorKept, OverviewKept
    DEF PipelineInv, Pipeline!processVars
<1>4. CASE Pipeline(s)!SampleBegins \/ Pipeline(s)!SampleCompletes
           \/ Pipeline(s)!SampleFails
  <2>1. UNCHANGED <<Pipeline(s)!scannerVars, Pipeline(s)!processVars,
                    Pipeline(s)!monitorVars, Pipeline(s)!overviewVars,
                    Pipeline(s)!shellVars>>
    BY <1>4
    DEF Pipeline!SampleBegins, Pipeline!SampleCompletes, Pipeline!SampleFails
  <2>2. /\ sampler' \in {"idle", "collecting", "ready"}
        /\ sample' \in Pipeline(s)!Samples
        /\ IF sampler' = "ready" THEN sample'.generation = monitor.generation + 1
           ELSE sample' = monitor
        /\ sampler' = "collecting" => sample'.generation < SamplesOf(s)
    <3>1. CASE Pipeline(s)!SampleBegins
      BY <1>1, <3>1 DEF Pipeline!SampleBegins, MonitorInv
    <3>2. CASE Pipeline(s)!SampleCompletes
      <4>1. PICK change \in {0, 1} :
               sample' = [sample EXCEPT !.generation = sample.generation + 1,
                                        !.topology = sample.topology + change]
        BY <3>2 DEF Pipeline!SampleCompletes
      <4>2. /\ sample = monitor /\ sample.generation \in 0 .. SamplesOf(s)
            /\ sample.generation + 1 \in 0 .. SamplesOf(s)
            /\ sample.topology + change \in Nat
        BY <1>1, <3>2
        DEF Pipeline!SampleCompletes, MonitorInv, Pipeline!Samples,
            Pipeline!PipelineAssumption
      <4>3. /\ sample' \in Pipeline(s)!Samples
            /\ sample'.generation = sample.generation + 1
        BY <1>1, <4>1, <4>2 DEF MonitorInv, Pipeline!Samples
      <4> QED
        BY <3>2, <4>2, <4>3 DEF Pipeline!SampleCompletes
    <3>3. CASE Pipeline(s)!SampleFails
      BY <1>1, <3>3 DEF Pipeline!SampleFails, MonitorInv
    <3> QED
      BY <1>4, <3>1, <3>2, <3>3
  <2>3. MonitorInv(s)'
    BY <1>1, <1>2, <2>1, <2>2
    DEF MonitorInv, Pipeline!monitorVars, Pipeline!OverviewGraphComplete
  <2> QED
    BY <1>1, <1>2, <2>1, <2>3, ProcessesKept, OverviewKept
    DEF PipelineInv, Pipeline!processVars
<1>5. CASE Pipeline(s)!lsm_performance_update
  <2>1. MonitorInv(s)'
    BY <1>1, <1>2, <1>5, Refreshed DEF Pipeline!lsm_performance_update
  <2>2. ProcessesInv(s)'
    BY <1>1, <1>2, <1>5, ProcessesKept DEF Pipeline!lsm_performance_update
  <2>3. OverviewInv(s)'
    BY <1>1, <1>2, <1>5, <2>1, <2>2, OverviewRefreshed
    DEF Pipeline!lsm_performance_update, ProcessesInv
  <2> QED
    BY <1>2, <1>5, <2>1, <2>2, <2>3
    DEF PipelineInv, Pipeline!lsm_performance_update
<1>6. CASE Pipeline(s)!process_timer_update
  <2>1. MonitorInv(s)'
    BY <1>1, <1>2, <1>6, MonitorKept DEF Pipeline!process_timer_update
  <2>2. ProcessesInv(s)'
    BY <1>1, <1>2, <1>6, WorkspaceUpdated DEF Pipeline!process_timer_update
  <2>3. OverviewInv(s)'
    BY <1>1, <1>2, <1>6, <2>1, <2>2, OverviewRefreshed
    DEF Pipeline!process_timer_update, ProcessesInv
  <2> QED
    BY <1>2, <1>6, <2>1, <2>2, <2>3
    DEF PipelineInv, Pipeline!process_timer_update
<1>7. CASE Pipeline(s)!process_snapshot_ready
  <2> DEFINE taken == Pipeline(s)!MayPresent /\ completed # Pipeline(s)!NoScan
  <2>1. MonitorInv(s)'
    BY <1>1, <1>2, <1>7, MonitorKept DEF Pipeline!process_snapshot_ready
  <2>2. /\ taken \in BOOLEAN /\ (taken => completed # Pipeline(s)!NoScan)
        /\ Pipeline(s)!Consume(taken)
        /\ Pipeline(s)!PresentProcessPages(taken, FALSE)
        /\ dispatch_pending' = FALSE /\ UNCHANGED <<requested, scanning>>
    BY <1>1, <1>7
    DEF Pipeline!process_snapshot_ready, Pipeline!MayPresent, ShellInv
  <2> HIDE DEF taken
  <2>3. ProcessesInv(s)'
    BY <1>1, <1>2, <1>7, <2>2, Presented
    DEF Pipeline!process_snapshot_ready, ProcessesInv
  <2>4. OverviewInv(s)'
    BY <1>1, <1>2, <1>7, <2>1, <2>3, OverviewRefreshed
    DEF Pipeline!process_snapshot_ready, ProcessesInv
  <2> QED
    BY <1>2, <1>7, <2>1, <2>3, <2>4
    DEF PipelineInv, Pipeline!process_snapshot_ready
<1>8. CASE Pipeline(s)!lsm_app_refresh_all
  <2>1. MonitorInv(s)'
    BY <1>1, <1>2, <1>8, Refreshed DEF Pipeline!lsm_app_refresh_all
  <2>2. ProcessesInv(s)'
    BY <1>1, <1>2, <1>8, WorkspaceUpdated DEF Pipeline!lsm_app_refresh_all
  <2>3. OverviewInv(s)'
    BY <1>1, <1>2, <1>8, <2>1, <2>2, OverviewRefreshed
    DEF Pipeline!lsm_app_refresh_all, ProcessesInv
  <2> QED
    BY <1>2, <1>8, <2>1, <2>2, <2>3
    DEF PipelineInv, Pipeline!lsm_app_refresh_all
<1>9. CASE Pipeline(s)!on_pause_toggled
  <2>1. /\ paused' = ~paused
        /\ UNCHANGED <<active_tab, page_built, catalog_ready,
                       Pipeline(s)!scannerVars,
                       Pipeline(s)!processVars, Pipeline(s)!samplerVars,
                         Pipeline(s)!monitorVars, Pipeline(s)!overviewVars>>
    BY <1>9 DEF Pipeline!on_pause_toggled
  <2>2. ShellInv(s)'
    BY <1>1, <2>1 DEF ShellInv
  <2> QED
    BY <1>1, <2>1, <2>2, MonitorKept, ProcessesKept, OverviewKept
    DEF PipelineInv, Pipeline!processVars
<1>10. CASE Pipeline(s)!SwitchTab
    BY <1>10, TabOpened DEF Pipeline!SwitchTab
<1>11. CASE Pipeline(s)!application_catalog_complete
  <2>1. /\ catalog_ready' = TRUE
        /\ UNCHANGED <<paused, active_tab, page_built, snapshot,
                       Pipeline(s)!scannerVars,
                       Pipeline(s)!samplerVars, Pipeline(s)!monitorVars,
                         Pipeline(s)!overviewVars>>
        /\ model_dirty' = [p \in Pipeline(s)!ProcessPages |->
              IF p = "processes" THEN ~(active_tab = "processes")
              ELSE model_dirty[p]]
        /\ shown' = [p \in Pipeline(s)!ProcessPages |->
              IF p = "processes" /\ active_tab = "processes" THEN snapshot
              ELSE shown[p]]
    BY <1>11 DEF Pipeline!application_catalog_complete
  <2>2. /\ model_dirty' \in [Pipeline(s)!ProcessPages -> BOOLEAN]
        /\ shown' \in [Pipeline(s)!ProcessPages -> Pipeline(s)!Snapshots]
    BY <1>1, <2>1 DEF ProcessesInv
  <2>3. /\ \A p \in Pipeline(s)!ProcessPages : ~model_dirty'[p]
             => shown'[p] = snapshot
        /\ active_tab \in Pipeline(s)!ProcessPages
             => shown'[active_tab] = snapshot
    BY <1>1, <2>1 DEF ProcessesInv, Pipeline!CleanPageCurrent
  <2>4. ProcessesInv(s)'
    BY <1>1, <2>1, <2>2, <2>3
    DEF ProcessesInv, Pipeline!scannerVars, Pipeline!CleanPageCurrent
  <2>5. ShellInv(s)'
    BY <1>1, <2>1 DEF ShellInv
  <2> QED
    BY <1>1, <2>1, <2>4, <2>5, MonitorKept, OverviewKept DEF PipelineInv
<1>12. CASE Pipeline(s)!lsm_preferences_apply
  <2>1. /\ UNCHANGED <<Pipeline(s)!shellVars, Pipeline(s)!scannerVars,
                       snapshot>>
        /\ shown' = [p \in Pipeline(s)!ProcessPages |->
                       IF p \in page_built THEN snapshot ELSE shown[p]]
        /\ model_dirty' = [p \in Pipeline(s)!ProcessPages |-> p \notin page_built]
        /\ Pipeline(s)!lsm_performance_refresh
        /\ Pipeline(s)!lsm_overview_refresh
    BY <1>12 DEF Pipeline!lsm_preferences_apply
  <2>2. /\ model_dirty' \in [Pipeline(s)!ProcessPages -> BOOLEAN]
        /\ shown' \in [Pipeline(s)!ProcessPages -> Pipeline(s)!Snapshots]
    BY <1>1, <2>1 DEF ProcessesInv
  <2>3. /\ \A p \in Pipeline(s)!ProcessPages : ~model_dirty'[p]
             => shown'[p] = snapshot
        /\ active_tab \in Pipeline(s)!ProcessPages
             => shown'[active_tab] = snapshot
    BY <1>1, <2>1 DEF ProcessesInv, ShellInv
  <2>4. ProcessesInv(s)'
    BY <1>1, <1>2, <2>1, <2>2, <2>3
    DEF ProcessesInv, Pipeline!scannerVars, Pipeline!CleanPageCurrent
  <2>5. MonitorInv(s)'
    BY <1>1, <1>2, <2>1, Refreshed
  <2>6. OverviewInv(s)'
    BY <1>1, <1>2, <2>1, <2>4, <2>5, OverviewRefreshed DEF ProcessesInv
  <2> QED
    BY <1>2, <2>1, <2>4, <2>5, <2>6 DEF PipelineInv
<1>13. CASE UNCHANGED Pipeline(s)!vars
  <2>1. UNCHANGED <<Pipeline(s)!scannerVars, Pipeline(s)!processVars,
                    Pipeline(s)!samplerVars, Pipeline(s)!monitorVars,
                    Pipeline(s)!overviewVars, Pipeline(s)!shellVars>>
    BY <1>13 DEF Pipeline!vars
  <2> QED
    BY <1>1, <1>2, <2>1, MonitorKept, ProcessesKept, OverviewKept
    DEF PipelineInv, Pipeline!processVars
<1> QED
    BY <1>3, <1>4, <1>5, <1>6, <1>7, <1>8, <1>9, <1>10, <1>11, <1>12, <1>13
    DEF Pipeline!Next

(* The invariant is what the properties say, and more.                      *)
LEMMA PipelineImplied ==
    ASSUME NEW s, Pipeline(s)!PipelineAssumption, PipelineInv(s)
    PROVE  /\ Pipeline(s)!TypeOK /\ Pipeline(s)!SamplesRecordedOnce
           /\ Pipeline(s)!OverviewGraphComplete
           /\ Pipeline(s)!ActivePageCurrent /\ Pipeline(s)!CleanPageCurrent
<1>1. /\ Pipeline(s)!SamplesRecordedOnce /\ Pipeline(s)!OverviewGraphComplete
      /\ Pipeline(s)!ActivePageCurrent
      /\ Pipeline(s)!CleanPageCurrent
    BY DEF PipelineInv, MonitorInv, ProcessesInv, OverviewInv, Recorded,
           Pipeline!SamplesRecordedOnce, Pipeline!ActivePageCurrent
<1>2. monitor.generation \in 0 .. SamplesOf(s) /\ monitor.topology \in Nat
    BY DEF PipelineInv, MonitorInv, Pipeline!Samples
<1>3. \A n \in 0 .. SamplesOf(s) : Recorded(n) \in Seq(1 .. SamplesOf(s))
    BY DEF Recorded, Pipeline!PipelineAssumption
<1>4. Pipeline(s)!TypeOK
    BY <1>2, <1>3
    DEF PipelineInv, MonitorInv, ProcessesInv, ShellInv, OverviewInv,
        Pipeline!TypeOK
<1> QED
    BY <1>1, <1>4

-----------------------------------------------------------------------------
(* The pages, in the three studies that have them.                          *)

PagesInv ==
    /\ study = "pages" => PipelineInv("pages")
    /\ study = "columns" => PipelineInv("columns")
    /\ WindowInv

(* Both studies of the pipeline and the window begin in the invariant.      *)
LEMMA PagesStart == Init => PagesInv
    BY WindowStart, PipelineStart,
       MainLoopAssumption
    DEF Init, PagesInv, MainLoopAssumption

(* A step of one study keeps it, and leaves the other studies alone.        *)
LEMMA PagesStep == PagesInv /\ [Next]_vars => PagesInv'
<1> SUFFICES ASSUME PagesInv, [Next]_vars PROVE PagesInv'
    OBVIOUS
<1>1. study' = study
    BY DEF Next, InPages, InColumns, InSources, InDevices, InWindow, vars
<1>2. /\ UNCHANGED pipelineVars =>
             UNCHANGED Pipeline("pages")!vars /\ UNCHANGED Pipeline("columns")!vars
    BY DEF pipelineVars, Pipeline!vars, Pipeline!scannerVars,
           Pipeline!processVars, Pipeline!samplerVars, Pipeline!monitorVars,
           Pipeline!overviewVars, Pipeline!shellVars
<1>3. [Window!Next]_windowVars
    BY DEF Next, InPages, InColumns, InSources, InDevices, InWindow, vars
<1>4. ASSUME study = "pages" PROVE PipelineInv("pages")'
  <2>1. [Pipeline("pages")!Next]_(Pipeline("pages")!vars)
    BY <1>2, <1>4
    DEF Next, InPages, InColumns, InSources, InDevices, InWindow, vars
  <2>2. Pipeline("pages")!PipelineAssumption /\ PipelineInv("pages")
    BY <1>4, MainLoopAssumption DEF PagesInv, MainLoopAssumption
  <2> QED
    BY <2>1, <2>2, PipelineStep
<1>5. ASSUME study = "columns" PROVE PipelineInv("columns")'
  <2>1. [Pipeline("columns")!Next]_(Pipeline("columns")!vars)
    BY <1>2, <1>5
    DEF Next, InPages, InColumns, InSources, InDevices, InWindow, vars
  <2>2. Pipeline("columns")!PipelineAssumption /\ PipelineInv("columns")
    BY <1>5, MainLoopAssumption DEF PagesInv, MainLoopAssumption
  <2> QED
    BY <2>1, <2>2, PipelineStep
<1> QED
    BY <1>1, <1>3, <1>4, <1>5, WindowStep DEF PagesInv

(* The three invariants together are the property.                          *)
LEMMA PagesImplied == PagesInv => PagesCurrent
<1>1. Pipeline("pages")!PipelineAssumption /\ Pipeline("columns")!PipelineAssumption
    BY MainLoopAssumption DEF MainLoopAssumption
<1> QED
    BY <1>1, PipelineImplied, WindowImplied
    DEF PagesInv, PagesCurrent

(* Whatever the pages, samples and snapshots: every sample published is     *)
(* recorded once and in order, the page in front shows the newest data, no  *)
(* hidden page is silently out of date, and in the Win32 window the two     *)
(* histories agree (performance.c, overview.c, process_workspace.c,         *)
(* main_windows.c).                                                         *)
THEOREM PagesStayCurrent == Spec => []PagesCurrent
    BY PagesStart, PagesStep, PagesImplied, PTL DEF Spec
=============================================================================
