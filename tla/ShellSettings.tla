---------------------------- MODULE ShellSettings ----------------------------
(***************************************************************************)
(* The main window's settings and chrome on Linux: the preferences file    *)
(* and its loader (preferences.c), the preferences dialog                  *)
(* (preferences_dialog.c), the menu items that mirror settings             *)
(* (app_menu.c), the navigation rail and Compact Summary mode              *)
(* (app_shell.c), the theme (app_theme.c) and the window's geometry        *)
(* (app_shell_window.c).  The window manager answers requests with events  *)
(* that reach the application later, in order; every GTK handler runs to   *)
(* completion on the main thread.                                          *)
(*                                                                         *)
(* Values are the integers of the file (booleans 0 and 1).  "flag" stands  *)
(* for the plain booleans the dialog copies in and out (network units,     *)
(* smoothing, stacking, logarithmic scale, CPU scale, confirmation,        *)
(* heatmap).  Of a window only the width is kept.  Sample presentation and *)
(* timers are in RefreshPipeline and AppRuntime.                           *)
(***************************************************************************)
EXTENDS Integers, Sequences, FiniteSets, SequencesExt

CONSTANTS
    Files,        \* preference files a session may find: [ok, lines]
    Widths,       \* widths the user may give the window
    WorkArea,     \* usable width of the primary monitor
    Hardware,     \* device lists the monitor may publish: sets of page types
    MaxChanges,   \* bound on user steps in a behaviour
    MaxEvents     \* bound on window events not yet handled

VARIABLES
    shell,        \* the running application: runtime settings and widgets
    wm,           \* what the window manager shows, and its unread events
    file,         \* the preferences file
    unsaved,      \* the last save failed
    dark,         \* the desktop prefers a dark theme
    changes

vars == <<shell, wm, file, unsaved, dark, changes>>

ShellAssumption ==
    /\ \A w \in Widths : w \in 320..7680
    /\ MaxChanges \in Nat /\ MaxEvents \in Nat \ {0} /\ WorkArea \in Nat

Performance == 0
Overview == 8
Threshold == 1100
Hysteresis == 64
CompactWidth == 760

(***************************************************************************)
(* preferences.c                                                           *)
(***************************************************************************)
Defaults ==
    [interval |-> 1000, fs |-> 5000, theme |-> 0, right |-> 1, points |-> 100,
     flag |-> 0, separate |-> 0, total_bits |-> 0, all |-> 0, ontop |-> 0,
     compact |-> 0, width |-> 1280, maximised |-> 0, tab |-> Overview]

Keys == DOMAIN Defaults
Flags == {"right", "flag", "separate", "total_bits", "all", "ontop",
          "compact", "maximised"}

\* The values the loader accepts for a key.
Accepts(key, value) ==
    CASE key = "interval" -> value \in {500, 1000, 2000, 5000}
      [] key = "fs"       -> value \in 1000..100000
      [] key = "points"   -> value \in 30..600
      [] key = "theme"    -> value \in 0..2
      [] key = "width"    -> value \in 320..7680
      [] key = "tab"      -> value \in 0..8
      [] OTHER            -> value \in 0..1

\* One line: an unknown key or a value out of range leaves what was there.
ParseLine(s, line) ==
    IF line.key \in Keys /\ Accepts(line.key, line.value)
    THEN [s EXCEPT ![line.key] = line.value]
    ELSE s

lsm_preferences_load(f) ==
    IF f.ok THEN FoldLeft(ParseLine, Defaults, f.lines) ELSE Defaults

KeyOrder == <<"interval", "fs", "theme", "right", "flag", "separate",
              "total_bits", "points", "all", "ontop", "compact", "width",
              "maximised", "tab">>

write_preferences(s) ==
    [ok |-> TRUE,
     lines |-> [i \in DOMAIN KeyOrder |->
                   [key |-> KeyOrder[i], value |-> s[KeyOrder[i]]]]]

\* The save is atomic: it replaces the file or leaves it, and only logs.
lsm_preferences_save(s) ==
    \/ file' = write_preferences(s) /\ unsaved' = FALSE
    \/ file' = file /\ unsaved' = TRUE

(***************************************************************************)
(* app_theme.c and the chrome                                              *)
(***************************************************************************)
Night(theme, isDark) == theme = 2 \/ (theme = 0 /\ isDark)

lsm_app_shell_apply_theme(s, isDark) ==
    [s EXCEPT !.shown.night = Night(s.set.theme, isDark)]

sync_integrated_overview_chrome(s) ==
    [s EXCEPT !.shown.menu_bar = ~(s.set.compact = 0 /\ s.tab = Overview),
              !.shown.summary = s.set.compact = 1]

PauseIndicator(s) == s.paused /\ s.set.compact = 0

\* Requests to the window manager.  A resize of a maximised window changes
\* nothing that is visible; a request that changes nothing sends no event.
Event(kind, w) == [kind |-> kind, max |-> w.max, width |-> w.width]

Asked(w, max, width) ==
    LET one == [w EXCEPT !.max = max]
        two == IF max THEN one ELSE [one EXCEPT !.width = width]
        state == IF max = w.max THEN <<>> ELSE <<Event("state", two)>>
        size == IF two.width = w.width /\ max = w.max THEN <<>>
                ELSE <<Event("configure", two)>>
    IN [two EXCEPT !.events = w.events \o state \o size]

\* lsm_app_shell_apply_compact_summary on the widgets and on the window.
ApplyCompact(s) ==
    sync_integrated_overview_chrome(
        [s EXCEPT !.shown.notebook = s.set.compact = 0,
                  !.shown.rail = s.set.compact = 0,
                  !.shown.pause = PauseIndicator(s),
                  !.restore = s.set.compact = 1 /\ s.known])

CompactWindow(s, w) ==
    LET asked == IF s.set.compact = 1 THEN Asked(w, FALSE, CompactWidth)
                 ELSE Asked(w, s.restore \/ w.max, s.set.width)
    IN [asked EXCEPT !.raced = w.raced \/ w.events # <<>>]

(***************************************************************************)
(* The navigation rail                                                     *)
(***************************************************************************)
lsm_performance_navigation_group(type) ==
    CASE type = "bluetooth" -> "network"
      [] type = "npu"       -> "gpu"
      [] OTHER              -> type

Groups == {"cpu", "memory", "disk", "network", "gpu", "battery"}
TabButtons == 1..8
Resource(g) == <<"resource", g>>
TabButton(t) == <<"tab", t>>
Buttons == {Resource(g) : g \in Groups} \cup {TabButton(t) : t \in TabButtons}

navigation_resource_available(s, g) ==
    g \in {"cpu", "memory"}
        \cup {lsm_performance_navigation_group(d) : d \in s.devices}

\* Setting a toggle button emits "clicked" in GTK 3; the handlers return at
\* once because navigation_syncing is set, so only the buttons change.
lsm_app_shell_sync_navigation(s) ==
    LET resource == IF s.tab = Performance
                    THEN lsm_performance_navigation_group(s.resource)
                    ELSE "none"
    IN [s EXCEPT
          !.offered = {g \in Groups : navigation_resource_available(s, g)},
          !.lit = {b \in Buttons :
                     \/ \E t \in TabButtons : b = TabButton(t) /\ s.tab = t
                     \/ \E g \in Groups : b = Resource(g) /\ resource = g
                            /\ navigation_resource_available(s, g)}]

\* rebuild_for_topology_change: the page shown stays when its type is still
\* listed (identities are in PerformancePages), otherwise CPU is shown.
Discovered(s, devices) ==
    IF devices = s.devices THEN s
    ELSE LET kept == s.resource \in {"cpu", "memory"} \cup devices
         IN lsm_app_shell_sync_navigation(
                [s EXCEPT !.devices = devices,
                          !.resource = IF kept THEN s.resource ELSE "cpu"])

\* on_registry_tab_switched; entering Performance takes a newer list.
SwitchTo(s, tab, devices) ==
    IF tab = s.tab THEN s
    ELSE LET at == [s EXCEPT !.tab = tab, !.set.tab = tab]
             entered == IF tab = Performance THEN Discovered(at, devices) ELSE at
         IN lsm_app_shell_sync_navigation(sync_integrated_overview_chrome(entered))

\* The page of that type, or the first of its group, if there is one.
ShowResource(s, type) ==
    LET listed == {"cpu", "memory"} \cup s.devices
        group == {d \in listed : lsm_performance_navigation_group(d)
                                 = lsm_performance_navigation_group(type)}
    IN IF type \in listed THEN lsm_app_shell_sync_navigation([s EXCEPT !.resource = type])
       ELSE IF group = {} THEN s
       ELSE lsm_app_shell_sync_navigation(
                [s EXCEPT !.resource = CHOOSE d \in group : TRUE])

(***************************************************************************)
(* The dialog: what its widgets show, and what Apply reads back            *)
(***************************************************************************)
NoDialog == [open |-> FALSE]

UpTo(value, steps) ==
    LET above == {v \in steps : value <= v}
    IN IF above = {} THEN CHOOSE v \in steps : \A u \in steps : u <= v
       ELSE CHOOSE v \in above : \A u \in above : v <= u

\* "Same unit", "Bytes" or "Bits": one widget for two settings.
Totals(s) == IF s.separate = 0 THEN 0 ELSE 1 + s.total_bits

lsm_preferences_dialog_values(s) ==
    [open |-> TRUE, interval |-> s.interval,
     fs |-> UpTo(s.fs, {1000, 5000, 10000}),
     points |-> UpTo(s.points, {60, 100, 300, 600}), totals |-> Totals(s),
     right |-> s.right, flag |-> s.flag, all |-> s.all, ontop |-> s.ontop,
     compact |-> s.compact]

\* Mutant: totals kept apart in bytes are stored as totals in bits.
Mut_Accepted(s, d) ==
    [s EXCEPT !.interval = d.interval, !.fs = d.fs, !.points = d.points,
              !.separate = IF d.totals = 0 THEN 0 ELSE 1,
              !.total_bits = IF d.totals >= 1 THEN 1 ELSE 0,
              !.right = d.right, !.flag = d.flag, !.all = d.all,
              !.ontop = d.ontop, !.compact = d.compact]

Accepted(s, d) ==
    [s EXCEPT !.interval = d.interval, !.fs = d.fs, !.points = d.points,
              !.separate = IF d.totals = 0 THEN 0 ELSE 1,
              !.total_bits = IF d.totals = 2 THEN 1 ELSE 0,
              !.right = d.right, !.flag = d.flag, !.all = d.all,
              !.ontop = d.ontop, !.compact = d.compact]

(***************************************************************************)
(* Start and end of a session                                              *)
(***************************************************************************)
Stopped ==
    [phase |-> "stopped", set |-> Defaults, paused |-> FALSE, tab |-> Performance,
     resource |-> "cpu", devices |-> {}, menu |-> Defaults, dialog |-> NoDialog,
     shown |-> [menu_bar |-> TRUE, summary |-> FALSE, notebook |-> TRUE,
                rail |-> TRUE, pause |-> FALSE, above |-> FALSE, night |-> FALSE],
     lit |-> {}, offered |-> {}, restore |-> FALSE, layout |-> FALSE,
     reflow |-> FALSE, known |-> FALSE, heard |-> FALSE,
     after |-> Performance]

NoWindow == [max |-> FALSE, width |-> 0, events |-> <<>>, raced |-> FALSE]

Init ==
    /\ shell = Stopped /\ wm = NoWindow /\ unsaved = FALSE /\ changes = 0
    /\ file \in Files /\ dark = FALSE

constrain_initial_window_geometry(s) ==
    LET most == IF WorkArea > 32 THEN WorkArea - 32 ELSE WorkArea
    IN [s EXCEPT !.width = IF @ > most THEN most ELSE @]

\* lsm_app_activate.  Building the menu activates the items of the loaded
\* settings, whose handlers save and, for Compact Summary, already cancel
\* the maximise request of a window that is not mapped yet.
Activate ==
    /\ shell.phase = "stopped"
    /\ LET set == constrain_initial_window_geometry(lsm_preferences_load(file))
           base == [Stopped EXCEPT !.phase = "running", !.set = set,
                      !.menu = set, !.after = set.tab,
                      !.layout = set.width < Threshold,
                      !.shown.above = set.ontop = 1]
           ready == ApplyCompact(lsm_app_shell_sync_navigation(
                        lsm_app_shell_apply_theme(base, dark)))
           mapped == IF set.compact = 1
                     THEN [NoWindow EXCEPT !.width = CompactWidth]
                     ELSE [NoWindow EXCEPT !.width = set.width,
                                           !.max = set.maximised = 1]
       IN /\ shell' = ready
          /\ wm' = [mapped EXCEPT !.events = <<Event("state", mapped),
                                               Event("configure", mapped)>>]
          /\ IF \/ \E k \in {"ontop", "compact", "theme"} : set[k] # 0
                \/ set.interval # 500 \/ set.right = 0
             THEN lsm_preferences_save(set)
             ELSE UNCHANGED <<file, unsaved>>
    /\ UNCHANGED <<dark, changes>>

Running == shell.phase = "running"

\* restore_initial_tab_after_first_paint
RestoreTab ==
    /\ Running /\ shell.after # Performance
    /\ shell' = SwitchTo([shell EXCEPT !.after = Performance], shell.after,
                         shell.devices)
    /\ UNCHANGED <<wm, file, unsaved, dark, changes>>

lsm_app_shutdown ==
    /\ Running /\ ~shell.dialog.open
    /\ lsm_preferences_save(shell.set)
    /\ shell' = Stopped /\ wm' = NoWindow
    /\ UNCHANGED <<dark, changes>>

Crash ==
    /\ Running
    /\ shell' = Stopped /\ wm' = NoWindow
    /\ UNCHANGED <<file, unsaved, dark, changes>>

(***************************************************************************)
(* Menu items.  A handler runs when its item changes: a radio item that is *)
(* already active is not toggled by choosing it again.                     *)
(***************************************************************************)
User == Running /\ ~shell.dialog.open /\ changes < MaxChanges
            /\ changes' = changes + 1
Menu == User /\ shell.shown.menu_bar

ToggleItem(key) == 1 - shell.menu[key]

on_speed_selected(v) ==
    /\ Menu /\ v # shell.menu.interval
    /\ shell' = [shell EXCEPT !.set.interval = v, !.menu.interval = v]
    /\ lsm_preferences_save(shell'.set) /\ UNCHANGED <<wm, dark>>

on_direction_selected ==
    /\ Menu
    /\ shell' = [shell EXCEPT !.set.right = ToggleItem("right"),
                              !.menu.right = ToggleItem("right")]
    /\ lsm_preferences_save(shell'.set) /\ UNCHANGED <<wm, dark>>

on_theme_selected(v) ==
    /\ Menu /\ v # shell.menu.theme
    /\ shell' = lsm_app_shell_apply_theme(
                    [shell EXCEPT !.set.theme = v, !.menu.theme = v], dark)
    /\ lsm_preferences_save(shell'.set) /\ UNCHANGED <<wm, dark>>

on_always_on_top_toggled ==
    /\ Menu
    /\ shell' = [shell EXCEPT !.set.ontop = ToggleItem("ontop"),
                              !.menu.ontop = ToggleItem("ontop"),
                              !.shown.above = ToggleItem("ontop") = 1]
    /\ lsm_preferences_save(shell'.set) /\ UNCHANGED <<wm, dark>>

Compacted(s, value) == [s EXCEPT !.set.compact = value, !.menu.compact = value]

on_compact_summary_toggled ==
    /\ Menu /\ Len(wm.events) < MaxEvents
    /\ LET s == Compacted(shell, ToggleItem("compact"))
       IN shell' = ApplyCompact(s) /\ wm' = CompactWindow(s, wm)
    /\ lsm_preferences_save(shell'.set) /\ UNCHANGED dark

\* Also reached with the space bar while a list has the focus.
on_pause_toggled ==
    /\ User
    /\ LET s == [shell EXCEPT !.paused = ~@]
       IN shell' = [s EXCEPT !.shown.pause = PauseIndicator(s)]
    /\ UNCHANGED <<wm, file, unsaved, dark>>

(***************************************************************************)
(* The preferences dialog is modal: menus and keys wait, window events,    *)
(* samples and theme changes do not.                                       *)
(***************************************************************************)
lsm_preferences_show ==
    /\ User
    /\ shell' = [shell EXCEPT !.dialog = lsm_preferences_dialog_values(shell.set)]
    /\ UNCHANGED <<wm, file, unsaved, dark>>

Edit ==
    /\ Running /\ shell.dialog.open /\ changes < MaxChanges
    /\ \E key \in {"interval", "right", "compact", "ontop", "totals"} :
         \E v \in (CASE key = "interval" -> {500, 2000}
                     [] key = "totals" -> 0..2 [] OTHER -> 0..1) :
             shell' = [shell EXCEPT !.dialog[key] = v]
    /\ changes' = changes + 1
    /\ UNCHANGED <<wm, file, unsaved, dark>>

Cancel ==
    /\ Running /\ shell.dialog.open
    /\ shell' = [shell EXCEPT !.dialog = NoDialog]
    /\ UNCHANGED <<wm, file, unsaved, dark, changes>>

\* Every field is assigned first; the check items are then set to the new
\* values, which runs the handler of each one that changes.  The radio items
\* for speed and direction are not touched.
lsm_preferences_commit_dialog_values ==
    /\ Running /\ shell.dialog.open /\ Len(wm.events) < MaxEvents
    /\ \E devices \in Hardware \cup {shell.devices} :
         LET set == Accepted(shell.set, shell.dialog)
             s == [shell EXCEPT !.set = set, !.dialog = NoDialog,
                     !.menu.ontop = set.ontop, !.menu.all = set.all,
                     !.shown.above = set.ontop = 1]
             toggled == shell.menu.compact # set.compact
             c == Compacted(s, set.compact)
         IN /\ shell' = Discovered(IF toggled THEN ApplyCompact(c) ELSE s, devices)
            /\ wm' = IF toggled THEN CompactWindow(c, wm) ELSE wm
            /\ lsm_preferences_save(set)
    /\ UNCHANGED <<dark, changes>>

(***************************************************************************)
(* Navigation.  Clicking a toggle button flips it before its handler runs. *)
(***************************************************************************)
Flip(s, b) == [s EXCEPT !.lit = (@ \ {b}) \cup ({b} \ @)]

navigation_tab_clicked(tab) ==
    /\ User /\ shell.set.compact = 0
    /\ \E devices \in Hardware \cup {shell.devices} :
         shell' = lsm_app_shell_sync_navigation(
                      SwitchTo(Flip(shell, TabButton(tab)), tab, devices))
    /\ UNCHANGED <<wm, file, unsaved, dark>>

navigation_resource_clicked(g) ==
    /\ User /\ shell.set.compact = 0 /\ g \in shell.offered
    /\ \E devices \in Hardware \cup {shell.devices} :
         shell' = lsm_app_shell_sync_navigation(ShowResource(
                      SwitchTo(Flip(shell, Resource(g)), Performance, devices), g))
    /\ UNCHANGED <<wm, file, unsaved, dark>>

\* Alt+1 .. Alt+9 select a notebook page, also the one without a button.
keyboard_key_press(tab) ==
    /\ User
    /\ \E devices \in Hardware \cup {shell.devices} :
         shell' = SwitchTo(shell, tab, devices)
    /\ UNCHANGED <<wm, file, unsaved, dark>>

\* The refresh timer takes a device list.
NewTopology ==
    /\ Running
    /\ \E devices \in Hardware \ {shell.devices} :
         shell' = Discovered(shell, devices)
    /\ UNCHANGED <<wm, file, unsaved, dark, changes>>

on_system_theme_changed ==
    /\ changes < MaxChanges /\ changes' = changes + 1
    /\ dark' = ~dark
    /\ shell' = IF Running /\ shell.set.theme = 0
                THEN lsm_app_shell_apply_theme(shell, dark') ELSE shell
    /\ UNCHANGED <<wm, file, unsaved>>

(***************************************************************************)
(* The window                                                              *)
(***************************************************************************)
\* The user resizes or maximises the window through the window manager or
\* the header's buttons.
UserGeometry ==
    /\ Running /\ changes < MaxChanges /\ Len(wm.events) < MaxEvents
    /\ shell.set.compact = 0
    /\ \/ \E w \in Widths : ~wm.max /\ wm' = Asked(wm, FALSE, w)
       \/ wm' = Asked(wm, ~wm.max, wm.width)
    /\ changes' = changes + 1
    /\ UNCHANGED <<shell, file, unsaved, dark>>

on_window_state(e) ==
    IF shell.set.compact = 1 THEN [shell EXCEPT !.known = e.max]
    ELSE [shell EXCEPT !.known = e.max, !.heard = TRUE,
             !.set.maximised = IF e.max THEN 1 ELSE 0,
             !.reflow = @ \/ (shell.set.maximised = 1 /\ ~e.max)]

on_window_configure(e) ==
    IF shell.set.compact = 1 \/ shell.known THEN shell
    ELSE [shell EXCEPT !.set.width = e.width,
             !.layout = e.width < IF shell.layout THEN Threshold + Hysteresis
                                  ELSE Threshold]

HandleEvent ==
    /\ Running /\ wm.events # <<>>
    /\ LET e == Head(wm.events)
       IN shell' = IF e.kind = "state" THEN on_window_state(e)
                   ELSE on_window_configure(e)
    /\ wm' = [wm EXCEPT !.events = Tail(@)]
    /\ UNCHANGED <<file, unsaved, dark, changes>>

\* The idle handler of an unmaximised window stores the size GTK has by then.
reflow_after_window_restore ==
    /\ Running /\ shell.reflow
    /\ shell' = [shell EXCEPT !.reflow = FALSE,
                   !.set.width = IF shell.set.compact = 0 /\ ~shell.known
                                 THEN wm.width ELSE @]
    /\ UNCHANGED <<wm, file, unsaved, dark, changes>>

Next ==
    \/ Activate \/ RestoreTab \/ lsm_app_shutdown \/ Crash
    \/ \E v \in {500, 1000, 2000} : on_speed_selected(v)
    \/ \E v \in 0..2 : on_theme_selected(v)
    \/ on_direction_selected \/ on_always_on_top_toggled
    \/ on_compact_summary_toggled \/ on_pause_toggled
    \/ lsm_preferences_show \/ Edit \/ Cancel
    \/ lsm_preferences_commit_dialog_values
    \/ \E t \in {1, Overview} : navigation_tab_clicked(t)
    \/ \E g \in {"cpu", "network"} : navigation_resource_clicked(g)
    \/ \E t \in {Performance, 1} : keyboard_key_press(t)
    \/ NewTopology \/ on_system_theme_changed
    \/ UserGeometry \/ HandleEvent \/ reflow_after_window_restore

Spec == Init /\ [][Next]_vars

(***************************************************************************)
(* Properties                                                              *)
(***************************************************************************)
TypeOK ==
    /\ shell.phase \in {"stopped", "running"}
    /\ \A k \in Keys : Accepts(k, shell.set[k])
    /\ shell.lit \subseteq Buttons /\ shell.offered \subseteq Groups
    /\ shell.dialog.open \in BOOLEAN
    /\ wm.max \in BOOLEAN /\ Len(wm.events) <= MaxEvents + 2
    /\ unsaved \in BOOLEAN /\ dark \in BOOLEAN /\ changes \in 0..MaxChanges

\* What is visible is a function of the settings whatever order menu items,
\* dialog, keys, navigation and theme changes come in: the menu bar hides
\* only on the integrated Overview, the summary replaces pages and rail,
\* the pause notice, the window level and the palette follow their settings
\* (app_shell.c sync_integrated_overview_chrome and its copy in
\* app_presentation_context.c, app_menu.c, app_theme.c).
ChromeTrue ==
    Running =>
        /\ shell.shown.menu_bar = ~(shell.set.compact = 0 /\ shell.tab = Overview)
        /\ shell.shown.summary = (shell.set.compact = 1)
        /\ shell.shown.notebook = (shell.set.compact = 0)
        /\ shell.shown.rail = (shell.set.compact = 0)
        /\ shell.shown.pause = (shell.paused /\ shell.set.compact = 0)
        /\ shell.shown.above = (shell.set.ontop = 1)
        /\ shell.shown.night = Night(shell.set.theme, dark)
        /\ \A k \in {"ontop", "compact", "theme"} : shell.menu[k] = shell.set[k]

\* The rail shows where the user is and only what the machine has: exactly
\* the button of the active tab, or of the group of the resource in front on
\* Performance, is lit (app_shell.c lsm_app_shell_sync_navigation), although
\* GTK flips a button before its handler runs and a device list may arrive
\* while the handler switches tabs.
RailTrue ==
    Running =>
        /\ shell.offered = {g \in Groups : navigation_resource_available(shell, g)}
        /\ shell.resource \in {"cpu", "memory"} \cup shell.devices
        /\ shell.lit = IF shell.tab = Performance
                       THEN {Resource(lsm_performance_navigation_group(shell.resource))}
                       ELSE {TabButton(shell.tab)}

\* What the user chose survives a crash: loading the file of a running
\* session gives its settings back, unless the last save failed
\* (app_menu.c, preferences.c lsm_preferences_save and lsm_preferences_load).
ChoicesSaved ==
    Running /\ ~unsaved =>
        \A k \in Keys \ {"width", "maximised", "tab"} :
            lsm_preferences_load(file)[k] = shell.set[k]

\* Once the window manager's events are handled, the geometry to be saved is
\* the window's, outside Compact Summary, provided no Compact Summary switch
\* overtook an event and a state event was heard (app_shell_window.c).
GeometryTrue ==
    Running /\ wm.events = <<>> /\ ~shell.reflow /\ shell.set.compact = 0
        /\ ~wm.raced /\ shell.heard =>
        /\ shell.set.maximised = (IF wm.max THEN 1 ELSE 0)
        /\ ~wm.max => shell.set.width = wm.width

\* After Apply the settings are what the dialog's widgets showed, and a
\* setting without a widget is what it was before, also when window events
\* or a theme change came while the dialog was open (preferences_dialog.c).
DialogStep ==
    shell.dialog.open /\ ~shell'.dialog.open /\ shell'.phase = "running"
        /\ shell'.set # shell.set =>
      /\ lsm_preferences_dialog_values(shell'.set) = shell.dialog
      /\ \A k \in Keys \ DOMAIN shell.dialog :
             k \in {"separate", "total_bits"} \/ shell'.set[k] = shell.set[k]

DialogHonest == [][DialogStep]_vars
=============================================================================
