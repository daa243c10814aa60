----------------------------- MODULE AppRuntime -----------------------------
(***************************************************************************)
(* Ownership of the GLib sources of the GTK application (src/app.c,        *)
(* src/app_runtime.c, src/app_runtime_context.c): the refresh timers, the  *)
(* idle callbacks and the search delays, from activation to shutdown.      *)
(*                                                                         *)
(* Every source is known to the program only by the id it keeps in a slot. *)
(* A slot overwritten while its source is attached leaves an orphan that   *)
(* nothing can remove any more; a source that ends by itself while its     *)
(* slot keeps the id leaves a dangling id.  All handlers run in the main   *)
(* loop, one at a time, so each one is an action.                          *)
(***************************************************************************)
EXTENDS Naturals, FiniteSets

CONSTANTS
    Tabs,            \* The tabs of the notebook that are modelled.
    UpdateIntervals, \* Refresh intervals offered by the menu, in ms.
    FsIntervals      \* File-system intervals of the preferences, in ms.

(* page_descriptors: what the registry says of a page.                      *)
Foreground == {"processes", "details"}
FixedPeriod == {"users", "services"}
Periodic == FixedPeriod \cup {"filesystems"}
Searchable == {"startup", "services", "history"}

(* What the constants stand for.                                            *)
RuntimeAssumption ==
    /\ Tabs \subseteq Foreground \cup Periodic \cup Searchable
                      \cup {"performance", "overview"}
    /\ "performance" \in Tabs
    /\ UpdateIntervals \subseteq Nat \ {0} /\ UpdateIntervals # {}
    /\ FsIntervals \subseteq Nat \ {0} /\ FsIntervals # {}

VARIABLES
    phase,           \* "new", "failed", "running", "left" or "freed".
    active_tab, last_tab, initial_tab_after_paint,
    page_built,
    update_interval_ms, filesystem_update_interval_ms,
    recording,       \* app->process.recorder is set.
    sources,         \* The slots, the orphans, and the stray removals.
    saved_tab,       \* The tab preferences_save wrote last.
    navigated        \* History variable: a tab was entered since activation.

settings == <<update_interval_ms, filesystem_update_interval_ms>>
tabs == <<active_tab, last_tab, initial_tab_after_paint, page_built,
          navigated>>
vars == <<phase, tabs, settings, recording, sources, saved_tab>>

Owners == {"performance_timer", "process_timer", "periodic_page_timer",
           "initial_tab_restore_source", "window_restore_reflow_source",
           "history_initialise_source", "history_save_timer"}
          \cup Searchable

(* A slot holds an id (held) or 0; the source with that id is attached to   *)
(* the main loop or not.                                                    *)
Slot(held, attached, period) ==
    [held |-> held, attached |-> attached, period |-> period]
NoSource == Slot(FALSE, FALSE, 0)

Periods == {0, 1000, 2000, 5000} \cup UpdateIntervals \cup FsIntervals

TypeOK ==
    /\ phase \in {"new", "failed", "running", "left", "freed"}
    /\ {active_tab, last_tab, initial_tab_after_paint, saved_tab} \subseteq Tabs
    /\ page_built \subseteq Tabs
    /\ update_interval_ms \in UpdateIntervals
    /\ filesystem_update_interval_ms \in FsIntervals
    /\ recording \in BOOLEAN /\ navigated \in BOOLEAN
    /\ sources.slot \in [Owners -> [held : BOOLEAN, attached : BOOLEAN,
                                    period : Periods]]
    /\ sources.orphans \subseteq Owners
    /\ sources.stray \in BOOLEAN

-----------------------------------------------------------------------------
(* The GLib main context, as the slots see it.                              *)

(* g_timeout_add or g_idle_add, its id stored in slot o.                    *)
AddSource(s, o, period) ==
    [s EXCEPT !.slot[o] = Slot(TRUE, TRUE, period),
              !.orphans = IF s.slot[o].attached THEN @ \cup {o} ELSE @]

(* g_source_remove of the id in slot o, and the slot cleared.               *)
RemoveSource(s, o) ==
    [s EXCEPT !.slot[o] = NoSource,
              !.stray = @ \/ (s.slot[o].held /\ ~s.slot[o].attached)]

(* The same without clearing the slot.                                      *)
RemoveKeepId(s, o) ==
    [s EXCEPT !.slot[o].attached = FALSE,
              !.stray = @ \/ (s.slot[o].held /\ ~s.slot[o].attached)]

(* A one-shot callback: it clears its slot, then GLib drops the source.     *)
Expire(s, o) == [s EXCEPT !.slot[o] = NoSource]

(* A callback that returns G_SOURCE_REMOVE and leaves its slot alone.       *)
EndsItself(s, o) == [s EXCEPT !.slot[o].attached = FALSE]

-----------------------------------------------------------------------------
(* The cadence policy.                                                      *)

process_refresh_interval(u) == IF u < 1000 THEN 1000 ELSE u

effective_process_refresh_interval(u, tab, rec) ==
    LET foreground == process_refresh_interval(u)
    IN  IF tab \in Foreground \/ rec \/ foreground >= 2000
        THEN foreground
        ELSE 2000

(* lsm_app_page_registry_active_periodic_policy: 0 when there is none.      *)
active_periodic_policy(tab, built, fs) ==
    IF tab \notin Periodic \cap built THEN 0
    ELSE IF tab \in FixedPeriod THEN 5000 ELSE fs

(* Mutant: the old timer is forgotten, not removed.                         *)
Mut_reschedule_process_timer(s, u, tab, rec) ==
    AddSource(s, "process_timer", effective_process_refresh_interval(u, tab, rec))

reschedule_process_timer(s, u, tab, rec) ==
    AddSource(RemoveSource(s, "process_timer"), "process_timer",
              effective_process_refresh_interval(u, tab, rec))

reschedule_periodic_page_timer(s, tab, built, fs) ==
    LET cleared == RemoveSource(s, "periodic_page_timer")
        interval == active_periodic_policy(tab, built, fs)
    IN  IF interval = 0 THEN cleared
        ELSE AddSource(cleared, "periodic_page_timer", interval)

(* lsm_app_preferences_changed once the shell is up.                        *)
preferences_changed(s, u, fs) ==
    LET removed == RemoveSource(RemoveSource(s, "performance_timer"),
                                "process_timer")
        added == AddSource(removed, "performance_timer", u)
        process == reschedule_process_timer(added, u, active_tab, recording)
    IN  reschedule_periodic_page_timer(process, active_tab, page_built, fs)

navigation_changed(s, tab) ==
    LET process == IF s.slot["process_timer"].held
                   THEN reschedule_process_timer(s, update_interval_ms, tab,
                                                 recording)
                   ELSE s
    IN  reschedule_periodic_page_timer(process, tab, page_built,
                                       filesystem_update_interval_ms)

(* history_model_initialise: the save timer is started once.                *)
model_initialise(s) ==
    IF s.slot["history_save_timer"].held THEN s
    ELSE AddSource(s, "history_save_timer", 0)

(* history_initialise_now: the idle callback still waiting is replaced.     *)
history_initialise_now(s) ==
    model_initialise(
        IF s.slot["history_initialise_source"].held
        THEN RemoveSource(s, "history_initialise_source") ELSE s)

-----------------------------------------------------------------------------
Init ==
    /\ phase = "new"
    /\ active_tab = "performance"
    /\ last_tab \in Tabs /\ saved_tab = last_tab
    /\ initial_tab_after_paint = "performance"
    /\ page_built = {}
    /\ update_interval_ms \in UpdateIntervals
    /\ filesystem_update_interval_ms \in FsIntervals
    /\ recording = FALSE /\ navigated = FALSE
    /\ sources = [slot |-> [o \in Owners |-> NoSource],
                  orphans |-> {}, stray |-> FALSE]

(* lsm_app_runtime_start.                                                   *)
runtime_start(s) ==
    reschedule_periodic_page_timer(
        reschedule_process_timer(
            AddSource(s, "performance_timer", update_interval_ms),
            update_interval_ms, "performance", recording),
        "performance", {"performance"}, filesystem_update_interval_ms)

(* lsm_app_activate when there is no window yet.  last_tab is the value     *)
(* preferences_load read.  The switch-page signals sent while the shell is  *)
(* being built are refused, as shell_shown is not set.                      *)
StartShell ==
    /\ phase = "new"
    /\ phase' = "running"
    /\ active_tab' = "performance"
    /\ initial_tab_after_paint' = last_tab
    /\ page_built' = {"performance"}
    /\ sources' = runtime_start(
          AddSource(IF last_tab = "performance" THEN sources
                    ELSE AddSource(sources, "initial_tab_restore_source", 0),
                    "history_initialise_source", 0))
    /\ UNCHANGED <<last_tab, settings, recording, saved_tab, navigated>>

(* The configuration paths, the monitor or the scanner cannot be set up.    *)
ActivationFails ==
    /\ phase = "new"
    /\ phase' = "failed"
    /\ UNCHANGED <<tabs, settings, recording, sources, saved_tab>>

(* A second launch of the program: the window is presented, no more.        *)
ActivateAgain ==
    /\ phase = "running"
    /\ UNCHANGED vars

(* on_registry_tab_switched, on the sources s.  lsm_app_ensure_page_built   *)
(* of a page not built yet reschedules the page timer again; building the   *)
(* history page initialises its model at once.                              *)
SwitchTab(s, tab) ==
    LET entered == navigation_changed(s, tab)
        model == IF tab = "history" THEN history_initialise_now(entered)
                 ELSE entered
    IN  /\ active_tab' = tab /\ last_tab' = tab /\ navigated' = TRUE
        /\ page_built' = page_built \cup {tab}
        /\ sources' = IF tab \in page_built THEN entered
                      ELSE reschedule_periodic_page_timer(
                               model, tab, page_built \cup {tab},
                               filesystem_update_interval_ms)

Navigate(tab) ==
    /\ phase = "running" /\ tab # active_tab
    /\ SwitchTab(sources, tab)
    /\ UNCHANGED <<phase, initial_tab_after_paint, settings, recording,
                   saved_tab>>

(* overview_view_all_clicked and user_show_processes build the Processes    *)
(* page before they switch to it.                                           *)
EnsureProcessesBuilt ==
    /\ phase = "running" /\ "processes" \in Tabs \ page_built
    /\ active_tab \in {"overview", "users"}
    /\ page_built' = page_built \cup {"processes"}
    /\ UNCHANGED <<phase, active_tab, last_tab, initial_tab_after_paint,
                   navigated, settings, recording, sources, saved_tab>>

Attached(o) == sources.slot[o].attached

(* restore_initial_tab_after_first_paint; the notebook signals nothing when *)
(* the page asked for is already shown.                                     *)
RestoreInitialTab ==
    LET s == Expire(sources, "initial_tab_restore_source")
        target == initial_tab_after_paint
    IN  /\ phase = "running" /\ Attached("initial_tab_restore_source")
        /\ initial_tab_after_paint' = "performance"
        /\ \/ /\ target # active_tab
              /\ SwitchTab(s, target)
           \/ /\ target = active_tab
              /\ sources' = s
              /\ UNCHANGED <<active_tab, last_tab, page_built, navigated>>
        /\ UNCHANGED <<phase, settings, recording, saved_tab>>

(* on_window_state: the window is no longer maximised.                      *)
WindowRestored ==
    /\ phase = "running"
    /\ ~sources.slot["window_restore_reflow_source"].held
    /\ sources' = AddSource(sources, "window_restore_reflow_source", 0)
    /\ UNCHANGED <<phase, tabs, settings, recording, saved_tab>>

reflow_after_window_restore ==
    /\ phase = "running" /\ Attached("window_restore_reflow_source")
    /\ sources' = Expire(sources, "window_restore_reflow_source")
    /\ UNCHANGED <<phase, tabs, settings, recording, saved_tab>>

history_initialise_idle ==
    /\ phase = "running" /\ Attached("history_initialise_source")
    /\ sources' = model_initialise(Expire(sources, "history_initialise_source"))
    /\ UNCHANGED <<phase, tabs, settings, recording, saved_tab>>

(* lsm_app_history_ingest before the idle callback has run.          *)
AccountProcesses ==
    /\ phase = "running" /\ ~sources.slot["history_save_timer"].held
    /\ sources' = history_initialise_now(sources)
    /\ UNCHANGED <<phase, tabs, settings, recording, saved_tab>>

(* service_search_changed, startup_search_changed, history_search_changed:  *)
(* typing starts the delay again.                                           *)
search_changed(page) ==
    /\ phase = "running" /\ page = active_tab
    /\ sources' = AddSource(IF sources.slot[page].held
                            THEN RemoveKeepId(sources, page) ELSE sources,
                            page, 0)
    /\ UNCHANGED <<phase, tabs, settings, recording, saved_tab>>

(* The delay ends, on whatever page the user is by now.                     *)
search_timeout(page) ==
    /\ phase = "running" /\ Attached(page)
    /\ sources' = Expire(sources, page)
    /\ UNCHANGED <<phase, tabs, settings, recording, saved_tab>>

(* lsm_app_page_registry_active_periodic_update; the updates of the pages   *)
(* themselves return G_SOURCE_CONTINUE.                                     *)
active_periodic_update ==
    /\ phase = "running" /\ Attached("periodic_page_timer")
    /\ sources' = IF active_tab \in Periodic \cap page_built THEN sources
                  ELSE EndsItself(sources, "periodic_page_timer")
    /\ UNCHANGED <<phase, tabs, settings, recording, saved_tab>>

(* on_speed_selected, and the preferences dialog with both intervals.       *)
ChangePreferences(u, fs) ==
    /\ phase = "running"
    /\ update_interval_ms' = u /\ filesystem_update_interval_ms' = fs
    /\ saved_tab' = last_tab
    /\ sources' = IF ~sources.slot["performance_timer"].held
                     /\ ~sources.slot["process_timer"].held
                  THEN sources
                  ELSE preferences_changed(sources, u, fs)
    /\ UNCHANGED <<phase, tabs, recording>>

(* lsm_process_record_set and lsm_process_record_stop reschedule nothing.   *)
ToggleRecording ==
    /\ phase = "running"
    /\ recording \/ page_built \cap Foreground # {}
    /\ recording' = ~recording
    /\ UNCHANGED <<phase, tabs, settings, sources, saved_tab>>

-----------------------------------------------------------------------------
(* The main loop ends: the window is closed, or there never was one.        *)
LeaveMainLoop ==
    /\ phase \in {"running", "failed"}
    /\ phase' = "left"
    /\ UNCHANGED <<tabs, settings, recording, sources, saved_tab>>

(* lsm_app_shutdown: the slots it clears, and the two whose id it keeps.    *)
Cleared == Owners \ {"startup", "services"}

StopSources(s) ==
    [s EXCEPT !.slot = [o \in Owners |->
                          IF o \in Cleared THEN NoSource
                          ELSE [s.slot[o] EXCEPT !.attached = FALSE]],
              !.stray = @ \/ \E o \in Owners : s.slot[o].held
                                              /\ ~s.slot[o].attached]

(* lsm_app_shutdown and lsm_app_free: the preferences are saved only if a   *)
(* window was made (page_built is then not empty).                          *)
Shutdown ==
    /\ phase = "left"
    /\ phase' = "freed"
    /\ saved_tab' = IF page_built # {} THEN last_tab ELSE saved_tab
    /\ sources' = StopSources(sources)
    /\ recording' = FALSE
    /\ UNCHANGED <<tabs, settings>>

Terminated == phase = "freed" /\ UNCHANGED vars

Next ==
    \/ StartShell \/ ActivationFails \/ ActivateAgain
    \/ \E tab \in Tabs : Navigate(tab)
    \/ EnsureProcessesBuilt
    \/ RestoreInitialTab
    \/ WindowRestored \/ reflow_after_window_restore
    \/ history_initialise_idle \/ AccountProcesses
    \/ \E page \in Searchable \cap Tabs :
          search_changed(page) \/ search_timeout(page)
    \/ active_periodic_update
    \/ \E u \in UpdateIntervals, fs \in FsIntervals : ChangePreferences(u, fs)
    \/ ToggleRecording
    \/ LeaveMainLoop \/ Shutdown \/ Terminated

Spec == Init /\ [][Next]_vars

-----------------------------------------------------------------------------
(* Properties.                                                              *)

(* No source outlives its slot: none is orphaned by a second timer being    *)
(* started over it (reschedule_process_timer, lsm_app_runtime_start), and   *)
(* none is attached once lsm_app_free has released what its callback uses.  *)
NoOrphanedSource ==
    /\ sources.orphans = {}
    /\ phase = "freed" => \A o \in Owners : ~Attached(o)

(* While the main loop runs every id kept in a slot names an attached       *)
(* source, whatever order timers fire, pages are left and delays end in;    *)
(* g_source_remove is never called with an id GLib no longer knows.         *)
NoDanglingId ==
    /\ ~sources.stray
    /\ phase = "running" =>
          \A o \in Owners : sources.slot[o].held => Attached(o)

(* The timers attached are the ones the present tab and settings ask for:   *)
(* the page timer exists exactly if the active page is built and periodic,  *)
(* at its interval; no refresh timer is slower than the policy without a    *)
(* recording (lsm_app_preferences_changed, lsm_app_runtime_page_built).     *)
CadenceCurrent ==
    phase = "running" =>
        LET Period(o) == IF Attached(o) THEN sources.slot[o].period ELSE 0
        IN  /\ Period("performance_timer") = update_interval_ms
            /\ Period("periodic_page_timer") =
                  active_periodic_policy(active_tab, page_built,
                                         filesystem_update_interval_ms)
            /\ Period("process_timer") \in
                  {effective_process_refresh_interval(
                       update_interval_ms, active_tab, rec) : rec \in BOOLEAN}

(* Closing the program remembers the tab entered last, also when it is      *)
(* closed before the tab remembered from the last session was restored      *)
(* (restore_initial_tab_after_first_paint, lsm_app_shutdown).               *)
TabRemembered ==
    phase = "freed" /\ page_built # {} =>
        saved_tab = IF navigated THEN active_tab ELSE initial_tab_after_paint

=============================================================================
