-------------------------------- MODULE Exports --------------------------------
(***************************************************************************)
(* What leaves the program as a document and what comes back as one: the   *)
(* CSV export and the clipboard (src/process_export.c,                     *)
(* src/process_export_app.c), the diagnostic report                        *)
(* (src/system_snapshot.c), the plot of a recording                        *)
(* (src/process_log_plot.c, src/process_recorder.c), the layout of the     *)
(* Details table (src/details_layout.c, src/details_page.c), the times and *)
(* durations of every page (src/temporal_presentation.c) and the help      *)
(* window (src/help.c).                                                    *)
(*                                                                         *)
(* One record variable per part; "study" says which part a behaviour is    *)
(* about.  All of it is the main thread's, but for the reader of a         *)
(* recording and, behind a mutex, the cached policy of times.              *)
(***************************************************************************)
EXTENDS Integers, Sequences, FiniteSets, SequencesExt

CONSTANTS
    Studies,        \* The parts looked at.
    Tables,         \* Process tables a scan may publish.
    Samples,        \* Monitor samples.
    Recordings,     \* Files the user may plot, as fragments of fgets.
    Appended,       \* Rows the recorder may add meanwhile.
    HistoryLength,  \* LSM_HISTORY_LENGTH, 3600.
    LayoutFiles,    \* Layout files found at the first start.
    Columns,        \* Columns of the Details table: key, minimum, visible.
    Widths,         \* Widths the user may drag a column to.
    Policies,       \* Temporal policies the system may store.
    Installed,      \* Clock modules that can be opened.
    Callers,        \* Threads that format times.
    CacheTicks,     \* LSM_TEMPORAL_CACHE_NS in ticks of the model's clock.
    MaxTime,        \* Bound: ticks.
    Topics,         \* Help topics: the words of each.
    MaxChanges      \* Bound: scans, appends, edits and sessions.

Parts == {"export", "report", "plot", "layout", "times", "help"}

ExportsAssumption ==
    /\ Studies \subseteq Parts
    /\ HistoryLength \in Nat \ {0}
    /\ CacheTicks \in Nat \ {0}
    /\ \A c \in DOMAIN Columns : Columns[c].minimum \in Nat \ {0}
    /\ \A p \in Policies : p.clock \in STRING /\ p.calendar \in STRING

VARIABLES
    study,
    export,     \* Table, selection, chooser, file and clipboard.
    report,     \* Sample and table, chooser and file.
    plot,       \* The recording, its reader and the graph window.
    layout,     \* The Details table and its file.
    times,      \* Stored policy, cache and callers.
    help        \* The help window.

vars == <<study, export, report, plot, layout, times, help>>

None == "none"

-----------------------------------------------------------------------------
(* Selected process rows.  A process has an identity (pid and instance), a  *)
(* text somebody else chose, and a reading that may be unavailable.         *)

Identity(p) == <<p.pid, p.instance>>

(* Mutant: a process is recognised by its PID alone.                        *)
Mut_lsm_process_export_contains(view, p) ==
    p.pid \in IF view.group = {} THEN {view.selected[1]}
              ELSE {i[1] : i \in view.group}

(* A group owns its members and wins over a selected row; an identity with  *)
(* a part missing selects nothing.                                          *)
lsm_process_export_contains(view, p) ==
    /\ p.pid # 0 /\ p.instance # 0
    /\ IF view.group = {}
       THEN /\ view.selected[1] # 0 /\ view.selected[2] # 0
            /\ Identity(p) = view.selected
       ELSE Identity(p) \in view.group

SelectedRows(view) ==
    SelectSeq(view.table, LAMBDA p : lsm_process_export_contains(view, p))

lsm_process_export_selection_count(view) == Len(SelectedRows(view))

(* infiltratr_escape_csv_field (external): reversible, and one field.       *)
csv_field(text) == <<"quoted", text>>

(* What is not measured is an empty field.                                  *)
csv_row(p) ==
    [pid |-> p.pid, name |-> csv_field(p.text),
     rates |-> IF p.available THEN <<p.reading>> ELSE <<>>]

CsvHeader == [pid |-> 0, name |-> <<>>, rates |-> <<>>]

write_process_export(view) ==
    <<CsvHeader>> \o [i \in 1 .. Len(SelectedRows(view)) |->
                          csv_row(SelectedRows(view)[i])]

(* The clipboard is pasted into a spreadsheet: a text that would be read as *)
(* a formula gets an apostrophe, and what would start a cell or a line      *)
(* becomes a blank.  Texts are sequences of character classes.              *)
Blank == {"blank", "tab", "newline"}

spreadsheet_needs_formula_escape(text) ==
    \E i \in DOMAIN text : /\ text[i] = "sign"
                           /\ \A j \in 1 .. i - 1 : text[j] \in Blank

append_spreadsheet_text(text) ==
    (IF spreadsheet_needs_formula_escape(text) THEN <<"quote">> ELSE <<>>)
        \o [i \in DOMAIN text |-> IF text[i] \in Blank THEN "blank"
                                                       ELSE text[i]]

(* The members of a group, and its title: its name and their number.  A     *)
(* process that is alone is no group.                                       *)
Members(table, name) ==
    {Identity(table[i]) : i \in {j \in DOMAIN table : table[j].app = name}}
NoTitle == <<>>
Groups(table) ==
    {[selected |-> <<0, 0>>, group |-> Members(table, name),
      title |-> <<name, Cardinality(Members(table, name))>>] :
        name \in {n \in {table[i].app : i \in DOMAIN table} :
                    Cardinality(Members(table, n)) > 1}}
Selections(table) ==
    [selected : {Identity(table[i]) : i \in DOMAIN table}, group : {{}},
     title : {NoTitle}] \cup Groups(table)
Selecting(e, s) ==
    [e EXCEPT !.selected = s.selected, !.group = s.group, !.title = s.title]

(* A row or a group is selected on one of the process pages.                *)
SelectRows ==
    /\ export.chooser = "closed"
    /\ \E s \in Selections(export.table) : export' = Selecting(export, s)

(* A scan completes, in the nested main loop of the chooser too: the old    *)
(* table is freed.  The page in front keeps the selection, drops it, or is  *)
(* rebuilt and selects again the group that has the title of the one that   *)
(* was selected, with the members it now has (append_group,                 *)
(* select_group_processes).                                                 *)
ScanPublished ==
    /\ export.published <= MaxChanges
    /\ \E t \in Tables :
          LET e == [export EXCEPT !.table = t, !.published = @ + 1]
          IN  \/ export' = e
              \/ export' = Selecting(e, [selected |-> <<0, 0>>, group |-> {},
                                         title |-> NoTitle])
              \/ \E s \in Groups(t) : s.title = export.title
                                       /\ export' = Selecting(e, s)

lsm_process_export_copy_selected ==
    /\ export.chooser = "closed"
    /\ lsm_process_export_selection_count(export) > 0
    /\ export' = [export EXCEPT !.clipboard =
          [i \in 1 .. Len(SelectedRows(export)) |->
              append_spreadsheet_text(SelectedRows(export)[i].text)]]

(* lsm_process_export_selected_dialog, up to gtk_dialog_run: the view that  *)
(* let the dialog open borrows the table of that moment.  Without a         *)
(* selected row there is only an error box.                                 *)
ChooserOpens ==
    /\ export.chooser = "closed"
    /\ lsm_process_export_selection_count(export) > 0
    /\ export' = [export EXCEPT !.chooser = "open",
                     !.borrowed = export.published,
                     !.asked = export.title,
                     !.meant = IF export.group = {} THEN {export.selected}
                               ELSE export.group]

(* The view is taken anew once the chooser is gone.                         *)
export_view_from_app == export.published

WrittenNow == [table |-> export.table, meant |-> export.meant, asked |-> export.asked,
               title |-> export.title, group |-> export.group,
               read |-> export_view_from_app, published |-> export.published]

(* The chooser is cancelled, the selection is gone meanwhile, the file      *)
(* cannot be written, or it is replaced as a whole.                         *)
lsm_process_export_write_view ==
    /\ export.chooser = "open"
    /\ LET closed == [export EXCEPT !.chooser = "closed", !.borrowed = 0,
                                    !.meant = {}, !.asked = NoTitle]
       IN  \/ export' = closed
           \/ /\ lsm_process_export_selection_count(export) > 0
              /\ export' = [closed EXCEPT !.file = write_process_export(export),
                                          !.written = WrittenNow]

ExportInit(t) ==
    [table |-> t, selected |-> <<0, 0>>, group |-> {}, title |-> NoTitle,
     asked |-> NoTitle, chooser |-> "closed",
     borrowed |-> 0, published |-> 1, meant |-> {}, file |-> <<>>,
     written |-> [table |-> <<>>, meant |-> {}, asked |-> NoTitle, title |-> NoTitle,
                  group |-> {}, read |-> 0, published |-> 0],
     clipboard |-> <<>>]

ExportNext ==
    \/ SelectRows \/ ScanPublished \/ lsm_process_export_copy_selected
    \/ ChooserOpens \/ lsm_process_export_write_view

-----------------------------------------------------------------------------
(* The diagnostic report.  A sample has one list per kind of device; what a *)
(* device does not tell is missing from its readings.  A report is the list *)
(* of its entries: section, device and the readings shown.                  *)
N_A == "N/A"

Sections == <<"CPU", "Memory", "Modules", "Storage", "Network", "Bluetooth",
              "Batteries", "Graphics">>

(* Fields printed only when they are known; all others have no such flag in *)
(* the sample and are printed as they stand.                                *)
Shown(device, field) ==
    IF field \in device.known THEN device.serial ELSE N_A

Entry(section, device) ==
    [section |-> section, device |-> device.name,
     fields |-> [f \in device.fields |-> Shown(device, f)]]

Entries(section, devices) ==
    [i \in DOMAIN devices |-> Entry(section, devices[i])]

(* Without modules, or without Bluetooth or batteries, a section says so.   *)
EmptySaid == {"Modules", "Bluetooth", "Batteries"}
NoDevice(section) ==
    IF section \in EmptySaid
    THEN <<[section |-> section, device |-> N_A, fields |-> <<>>]>>
    ELSE <<>>

Section(sample, section) ==
    IF sample[section] = <<>> THEN NoDevice(section)
    ELSE Entries(section, sample[section])

write_processes(table) ==
    [i \in DOMAIN table |->
        [section |-> "Processes", device |-> table[i].pid,
         fields |-> [gpu |-> IF table[i].available THEN table[i].reading
                                                   ELSE N_A]]]

write_snapshot(sample, table) ==
    [devices |-> FlattenSeq([i \in DOMAIN Sections |->
                                Section(sample, Sections[i])]),
     processes |-> write_processes(table)]

NoReport == [devices |-> <<>>, processes |-> <<>>]

(* Samples and tables replace the app's own while the chooser is open.      *)
ReportSampleArrives ==
    /\ report.changes < MaxChanges
    /\ \E s \in Samples, t \in Tables :
          report' = [report EXCEPT !.sample = s, !.table = t,
                                   !.changes = @ + 1]

ReportChooserOpens ==
    /\ report.chooser = "closed"
    /\ report' = [report EXCEPT !.chooser = "open",
                                !.before = <<report.sample, report.table>>]

(* lsm_app_menu_save_snapshot after gtk_dialog_run.                         *)
lsm_app_system_snapshot_view == <<report.sample, report.table>>

lsm_system_snapshot_write_view ==
    /\ report.chooser = "open"
    /\ LET view == lsm_app_system_snapshot_view
       IN  \/ report' = [report EXCEPT !.chooser = "closed",
                            !.file = write_snapshot(view[1], view[2]),
                            !.of = <<report.sample, report.table>>]
           \/ report' = [report EXCEPT !.chooser = "closed", !.failed = TRUE]
           \/ report' = [report EXCEPT !.chooser = "closed"]   \* Cancel.

ReportInit(s, t) ==
    [sample |-> s, table |-> t, chooser |-> "closed", before |-> <<s, t>>,
     file |-> NoReport, of |-> <<s, t>>, failed |-> FALSE, changes |-> 0]

ReportNext ==
    \/ ReportSampleArrives \/ ReportChooserOpens
    \/ lsm_system_snapshot_write_view

-----------------------------------------------------------------------------
(* Plotting a recording.  The file is a sequence of what fgets returns: a   *)
(* fragment ends with a newline or fills the buffer (or the file ends).     *)
(* Its text is a header or a row: number of fields, date, PID, CPU and      *)
(* memory in percent, with -1 for a text that is no number.                 *)
Leap(year) == year % 4 = 0 /\ (year % 100 # 0 \/ year % 400 = 0)
MonthDays == <<31, 28, 31, 30, 31, 30, 31, 31, 30, 31, 30, 31>>

recorder_timestamp_valid(date) ==
    LET year == date[1]  month == date[2]  day == date[3]
    IN  /\ year # 0
        /\ month \in 1 .. 12
        /\ day > 0
        /\ day <= MonthDays[month] + (IF month = 2 /\ Leap(year) THEN 1 ELSE 0)

lsm_process_recorder_header_matches(fragment) ==
    fragment.header /\ fragment.newline

lsm_process_recorder_parse_metrics(fragment) ==
    /\ ~fragment.header
    /\ fragment.newline
    /\ fragment.fields = 8
    /\ recorder_timestamp_valid(fragment.date)
    /\ fragment.pid > 0
    /\ fragment.cpu >= 0
    /\ fragment.memory \in 0 .. 100

(* lsm_process_log_plot_show: the chooser, then a task.                     *)
PlotChosen ==
    /\ plot.reader = "none"
    /\ \E f \in Recordings :
          \/ plot' = [plot EXCEPT !.file = f, !.reader = "reading"]
          \/ plot' = [plot EXCEPT !.file = f, !.reader = "done",
                                  !.error = "open"]

(* The recorder goes on writing the same file: whole lines, but for the     *)
(* last one when the disk is full.                                          *)
RecorderAppends ==
    /\ plot.reader = "reading"
    /\ plot.changes < MaxChanges
    /\ plot.file # <<>> => Last(plot.file).newline
    /\ \E row \in Appended :
          plot' = [plot EXCEPT !.file = Append(@, row),
                               !.changes = @ + 1]

(* One fgets of process_log_plot_worker, and what it does with the line.    *)
ReadFragment ==
    /\ plot.reader = "reading"
    /\ plot.at < Len(plot.file)
    /\ LET line == plot.file[plot.at + 1]
           p == [plot EXCEPT !.at = @ + 1, !.header = FALSE]
       IN  plot' =
           CASE plot.header ->
                  IF lsm_process_recorder_header_matches(line) THEN p
                  ELSE [p EXCEPT !.error = "header", !.reader = "done"]
             [] plot.discarding ->
                  [p EXCEPT !.discarding = ~line.newline]
             [] ~plot.header /\ ~plot.discarding /\ ~line.newline ->
                  [p EXCEPT !.discarding = TRUE]
             [] OTHER ->
                  IF ~lsm_process_recorder_parse_metrics(line) THEN p
                  ELSE [p EXCEPT !.ring[plot.next] = line.cpu,
                                 !.next = (@ + 1) % HistoryLength,
                                 !.count = IF @ < HistoryLength THEN @ + 1
                                                                ELSE @]

(* The end of the file, which stdio remembers, or a read error.             *)
ReadEnds ==
    /\ plot.reader = "reading"
    /\ \/ /\ plot.at = Len(plot.file)
          /\ plot' = [plot EXCEPT !.reader = "done",
                         !.error = IF plot.count = 0 THEN "no samples"
                                                     ELSE None]
       \/ plot' = [plot EXCEPT !.reader = "done", !.error = "read"]

PlotFirst == IF plot.count = HistoryLength THEN plot.next ELSE 0

(* process_log_plot_complete in the main context, if the app is not         *)
(* shutting down.                                                           *)
process_log_plot_complete ==
    /\ plot.reader = "done"
    /\ plot' = [plot EXCEPT !.reader = "completed",
          !.window = IF ~plot.closing /\ plot.error = None THEN "shown" ELSE @,
          !.graph = IF plot.closing \/ plot.error # None THEN @
                    ELSE [i \in 1 .. plot.count |->
                             plot.ring[(PlotFirst + i - 1) % HistoryLength]],
          !.told = IF plot.closing THEN @ ELSE plot.error]

graph_window_destroy ==
    /\ plot.window = "shown"
    /\ plot' = [plot EXCEPT !.window = "closed", !.freed = @ + 1]

PlotShutdown ==
    /\ ~plot.closing
    /\ plot' = [plot EXCEPT !.closing = TRUE]

PlotInit ==
    [file |-> <<>>, reader |-> "none", at |-> 0, header |-> TRUE,
     discarding |-> FALSE, ring |-> [i \in 0 .. HistoryLength - 1 |-> -1],
     count |-> 0, next |-> 0, error |-> None, closing |-> FALSE,
     window |-> "none", graph |-> <<>>, told |-> None, freed |-> 0,
     changes |-> 0]

PlotNext ==
    \/ PlotChosen \/ RecorderAppends \/ ReadFragment \/ ReadEnds
    \/ process_log_plot_complete \/ graph_window_destroy \/ PlotShutdown

-----------------------------------------------------------------------------
(* The layout of the Details table.  Columns are numbered as in             *)
(* lsm_details_column_specs; the first is the name.  get_width of a column  *)
(* that has not been shown in this session is 0 (external: GTK).            *)
N == Len(Columns)
Name == 1
LayoutVersion == 5
MaxWidth == 2000    \* LSM_DETAILS_LAYOUT_MAX_WIDTH.
Identical == [c \in 1 .. N |-> c]
Positions == {f \in [1 .. N -> 1 .. N] : \A a, b \in 1 .. N : f[a] = f[b] => a = b}
layout_order_is_permutation(order) == order \in Positions

get_width(table) ==
    [c \in 1 .. N |-> IF c \in table.allocated THEN table.width[c] ELSE 0]

(* The file lsm_details_save_layout writes; no sort line when unsorted.     *)
Written(table) ==
    [version |-> LayoutVersion, tree |-> table.tree, scope |-> table.scope,
     heatmap |-> table.heatmap, visible |-> table.visible,
     width |-> get_width(table), order |-> table.order, sort |-> table.sort,
     descending |-> table.descending]

NoFile == [version |-> -1]
Defaults ==
    [tree |-> TRUE, scope |-> 0, heatmap |-> TRUE,
     visible |-> [c \in 1 .. N |-> Columns[c].visible],
     width |-> [c \in 1 .. N |-> Columns[c].minimum],
     order |-> Identical, sort |-> 0, descending |-> FALSE]

layout_integer(value, least, most, fallback) ==
    IF value \in least .. most THEN value ELSE fallback

(* The lines of a file, each checked by itself.                             *)
Parsed(file) ==
    [tree |-> file.tree,
     scope |-> layout_integer(file.scope, 0, 2, Defaults.scope),
     heatmap |-> file.heatmap,
     visible |-> file.visible,
     width |-> [c \in 1 .. N |-> layout_integer(file.width[c],
                   Columns[c].minimum, MaxWidth, Columns[c].minimum)],
     order |-> [c \in 1 .. N |-> layout_integer(file.order[c], 1, N, c)],
     sort |-> layout_integer(file.sort, 1, N, 0),
     descending |-> file.descending]

(* Files of earlier versions keep of their columns what still means the     *)
(* same.                                                                    *)
Migrated(version, t) ==
    [t EXCEPT !.visible = IF version < 2 THEN Defaults.visible ELSE @,
              !.order = IF version < LayoutVersion THEN Identical ELSE @,
              !.sort = IF version < LayoutVersion THEN 0 ELSE @]

lsm_details_layout_load(file) ==
    LET t == IF file = NoFile THEN Defaults
             ELSE Migrated(file.version, Parsed(file))
    IN  [tree |-> t.tree, scope |-> t.scope, heatmap |-> t.heatmap,
         visible |-> [t.visible EXCEPT ![Name] = TRUE],
         width |-> t.width,
         order |-> IF layout_order_is_permutation(t.order) THEN t.order
                                                           ELSE Identical,
         sort |-> t.sort,
         descending |-> t.sort # 0 /\ t.descending]

Seen(t) == [t EXCEPT !.allocated = @ \cup {c \in 1 .. N : t.visible[c]}]
Built(file) ==
    LET t == lsm_details_layout_load(file)
    IN  [tree |-> t.tree, scope |-> t.scope, heatmap |-> t.heatmap,
         visible |-> t.visible, width |-> t.width, order |-> t.order,
         sort |-> t.sort, descending |-> t.descending,
         allocated |-> {c \in 1 .. N : t.visible[c]}]

(* The file is replaced, or the directory or the write fails and it stays.  *)
Save(l, table) ==
    \/ layout' = [l EXCEPT !.table = table, !.file = Written(table),
                           !.saved = table]
    \/ layout' = [l EXCEPT !.table = table]

Edited == [layout EXCEPT !.changes = @ + 1]
MayEdit == layout.session = "open" /\ layout.changes <= MaxChanges

(* lsm_details_build, on the first visit of the page.                       *)
lsm_details_build ==
    /\ layout.session = "started"
    /\ layout' = [layout EXCEPT !.session = "open",
                                !.table = Built(layout.file),
                                !.restored = Built(layout.file),
                                !.expected = layout.saved]

(* The column dialog, which saves ...                                       *)
lsm_details_show_columns ==
    /\ MayEdit
    /\ \E checked \in SUBSET (1 .. N), h \in BOOLEAN :
          Save(Edited, Seen([layout.table EXCEPT
                  !.visible = [c \in 1 .. N |-> c = Name \/ c \in checked],
                  !.heatmap = h]))

process_scope_changed ==
    /\ MayEdit
    /\ \E s \in 0 .. 2 \ {layout.table.scope} :
          Save(Edited, [layout.table EXCEPT !.scope = s])

process_view_changed ==
    /\ MayEdit
    /\ Save(Edited, [layout.table EXCEPT !.tree = ~@])

(* ... and what GTK changes by itself and nobody saves before the end.      *)
ColumnSortedOrDragged ==
    /\ MayEdit
    /\ \/ \E c \in 1 .. N, d \in BOOLEAN :
             /\ layout.table.visible[c]
             /\ layout' = [Edited EXCEPT !.table.sort = c,
                                         !.table.descending = d]
       \/ \E c \in 1 .. N, w \in Widths :
             /\ layout.table.visible[c] /\ w >= Columns[c].minimum
             /\ layout' = [Edited EXCEPT !.table.width[c] = w]

(* lsm_app_shutdown; a killed program saves nothing.                        *)
DetailsEnd ==
    /\ layout.session \in {"started", "open"}
    /\ layout.sessions < MaxChanges
    /\ LET next == [layout EXCEPT !.session = "started",
                                  !.sessions = @ + 1]
       IN  \/ layout.session = "open" /\ Save(next, layout.table)
           \/ layout' = next

LayoutInit(f) ==
    [file |-> f, session |-> "started", table |-> Built(f),
     restored |-> Built(f), saved |-> Built(f), expected |-> Built(f),
     changes |-> 0, sessions |-> 0]

LayoutNext ==
    \/ lsm_details_build \/ lsm_details_show_columns \/ process_scope_changed
    \/ process_view_changed \/ ColumnSortedOrDragged \/ DetailsEnd

-----------------------------------------------------------------------------
(* Times.  The policy is the system's: a clock and a calendar by name, and  *)
(* whether seconds are shown; it is read at most once in a while.           *)
NativePolicy == [clock |-> "standard", calendar |-> "gregorian",
                 seconds |-> FALSE, found |-> FALSE]

(* refresh_policy_locked: no policy, or one that cannot be loaded, is the   *)
(* default without authority.                                               *)
Fresh(c) == c.initialized /\ times.now - c.refreshed < CacheTicks
refresh_policy_locked(c) ==
    IF Fresh(c) THEN c
    ELSE [c EXCEPT !.policy = times.stored, !.refreshed = times.now,
                   !.initialized = TRUE]

(* lsm_temporal_format_epoch_microseconds, up to the copy of the policy.    *)
effective_policy(t) ==
    /\ times.caller[t].at = "idle"
    /\ LET c == refresh_policy_locked(times.cache)
       IN  times' = [times EXCEPT !.cache = c,
              !.caller[t] = [at |-> "calendar", policy |-> c.policy,
                             date |-> None, clock |-> None,
                             age |-> times.now - times.last[c.policy]]]

Standard(p) == ~p.found \/ p.clock = "standard"
NativeCalendar(p) == ~p.found \/ p.calendar = "gregorian"

(* With a date: the native one, or that of the selected calendar, which may *)
(* fail.                                                                    *)
format_selected_calendar(t) ==
    LET me == times.caller[t]
    IN  /\ me.at = "calendar"
        /\ \/ times' = [times EXCEPT
                 !.caller[t].at = "clock",
                 !.caller[t].date = IF NativeCalendar(me.policy)
                                    THEN "gregorian" ELSE me.policy.calendar]
           \/ /\ ~NativeCalendar(me.policy)
              /\ times' = [times EXCEPT !.caller[t].at = "shown"]

(* The selected module under the mutex: another selection closes the old    *)
(* one, and each selection is opened once, in vain or not.                  *)
SelectModule(c, mode) ==
    IF c.clock_id = mode THEN c
    ELSE [c EXCEPT !.clock_id = mode,
                   !.clock = IF mode \in Installed THEN mode ELSE None]

format_selected_clock(t) ==
    LET me == times.caller[t]
        c == IF Standard(me.policy) THEN times.cache
             ELSE SelectModule(times.cache, me.policy.clock)
        text == IF Standard(me.policy) THEN "standard" ELSE c.clock
    IN  /\ me.at = "clock"
        /\ times' = [times EXCEPT
              !.cache = c,
              !.caller[t].at = IF text = None THEN "shown" ELSE "combine",
              !.caller[t].clock = text,
              !.caller[t].date = IF text = None THEN None ELSE @]

(* Date, clock and zone in one text, published only when all of it fits.    *)
combine_presentation(t) ==
    /\ times.caller[t].at = "combine"
    /\ \/ times' = [times EXCEPT !.caller[t].at = "shown"]
       \/ times' = [times EXCEPT !.caller[t].at = "shown",
                       !.caller[t].date = None, !.caller[t].clock = None]

(* The cell is drawn; the next call starts over.                            *)
CellDrawn(t) ==
    /\ times.caller[t].at = "shown"
    /\ times' = [times EXCEPT !.caller[t].at = "idle"]

PolicyEdited ==
    /\ times.edits < MaxChanges
    /\ \E p \in Policies :
          /\ p # times.stored
          /\ times' = [times EXCEPT !.stored = p, !.edits = @ + 1,
                          !.last[times.stored] = times.now,
                          !.last[p] = times.now]

TimePasses ==
    /\ times.now < MaxTime
    /\ times' = [times EXCEPT !.now = @ + 1,
                              !.last[times.stored] = times.now + 1]

(* Conversions of the model's small integers: C's division truncates, and   *)
(* checked arithmetic refuses what does not fit.                            *)
PerSecond == 4
MaxI64 == 31
MaxU64 == 63
Truncated(a, b) == IF a < 0 THEN -((-a) \div b) ELSE a \div b
Remainder(a, b) == a - b * Truncated(a, b)

EpochSeconds(us) ==
    Truncated(us, PerSecond)
        - (IF us < 0 /\ Remainder(us, PerSecond) # 0 THEN 1 ELSE 0)

(* format_duration_seconds: refused, or the duration and its end, which is  *)
(* left open when it is not asked for or out of range.                      *)
Refused == [us |-> -1, end |-> -1]
Open == -MaxI64 - 1
format_duration_seconds(elapsed, anchor, now) ==
    IF elapsed * PerSecond > MaxU64 THEN Refused
    ELSE [us |-> elapsed * PerSecond,
          end |-> CASE anchor = "ends now" -> now
                    [] anchor = "starts now" /\ elapsed * PerSecond <= MaxI64
                          /\ now + elapsed * PerSecond <= MaxI64 ->
                             now + elapsed * PerSecond
                    [] OTHER -> Open]

lsm_temporal_format_remaining_seconds(elapsed, now) ==
    IF elapsed = 0 THEN Refused
    ELSE format_duration_seconds(elapsed, "starts now", now)

TimesInit ==
    [now |-> 0, stored |-> NativePolicy, edits |-> 0,
     last |-> [p \in Policies \cup {NativePolicy} |->
                  IF p = NativePolicy THEN 0 ELSE -1],
     cache |-> [policy |-> NativePolicy, refreshed |-> 0, initialized |-> FALSE,
                clock_id |-> None, clock |-> None],
     caller |-> [t \in Callers |->
                    [at |-> "idle", policy |-> NativePolicy, date |-> None,
                     clock |-> None, age |-> 0]]]

TimesNext ==
    \/ \E t \in Callers :
          \/ effective_policy(t) \/ format_selected_calendar(t)
          \/ format_selected_clock(t) \/ combine_presentation(t)
          \/ CellDrawn(t)
    \/ PolicyEdited \/ TimePasses

-----------------------------------------------------------------------------
(* The help window: one at a time, filtered as the user types.              *)
Words == UNION {Topics[t] : t \in DOMAIN Topics}
Matching(query) ==
    {t \in DOMAIN Topics : query = None \/ query \in Topics[t]}

render_help(h, query) == [h EXCEPT !.query = query, !.text = Matching(query)]

lsm_help_show ==
    /\ help.parent
    /\ help' = IF help.window # 0 THEN help
               ELSE render_help([help EXCEPT !.window = help.made + 1,
                                             !.made = @ + 1], None)

search_changed ==
    /\ help.window # 0
    /\ \E q \in Words \cup {None, "unknown"} : help' = render_help(help, q)

(* Closed by the user, or destroyed with the main window.                   *)
help_destroy ==
    /\ help.window # 0
    /\ help.made < MaxChanges
    /\ \E gone \in BOOLEAN :
          help' = [help EXCEPT !.window = 0, !.parent = ~gone]

HelpInit == [parent |-> TRUE, window |-> 0, made |-> 0, query |-> None,
             text |-> {}]
HelpNext == lsm_help_show \/ search_changed \/ help_destroy

-----------------------------------------------------------------------------
(* Studies that are not looked at start in one fixed state.                 *)
Start(part, states) ==
    IF study = part THEN states ELSE {CHOOSE x \in states : TRUE}

Init ==
    /\ study \in Studies
    /\ export \in Start("export", {ExportInit(t) : t \in Tables})
    /\ report \in Start("report", {ReportInit(s, t) : s \in Samples,
                                                      t \in Tables})
    /\ plot = PlotInit
    /\ layout \in Start("layout", {LayoutInit(f) : f \in LayoutFiles})
    /\ times = TimesInit
    /\ help = HelpInit

Next ==
    \/ /\ study = "export" /\ ExportNext
       /\ UNCHANGED <<study, report, plot, layout, times, help>>
    \/ /\ study = "report" /\ ReportNext
       /\ UNCHANGED <<study, export, plot, layout, times, help>>
    \/ /\ study = "plot" /\ PlotNext
       /\ UNCHANGED <<study, export, report, layout, times, help>>
    \/ /\ study = "layout" /\ LayoutNext
       /\ UNCHANGED <<study, export, report, plot, times, help>>
    \/ /\ study = "times" /\ TimesNext
       /\ UNCHANGED <<study, export, report, plot, layout, help>>
    \/ /\ study = "help" /\ HelpNext
       /\ UNCHANGED <<study, export, report, plot, layout, times>>

Spec == Init /\ [][Next]_vars

-----------------------------------------------------------------------------
TypeOK ==
    /\ study \in Studies
    /\ export.chooser \in {"closed", "open"} /\ export.table \in Tables
    /\ report.sample \in Samples /\ report.table \in Tables
    /\ plot.count \in 0 .. HistoryLength /\ plot.next \in 0 .. HistoryLength - 1
    /\ layout.table.order \in Positions
    /\ times.now \in 0 .. MaxTime
    /\ help.made \in Nat

(* An export (lsm_process_export_selected_dialog) has, of the processes     *)
(* chosen when its dialog opened, those that still run when it is written,  *)
(* in the table's order, and no process that took over a PID; what was not  *)
(* measured is no number; and no freed table is read.  A write that fails   *)
(* leaves the previous file.  The exception is a group: where a rebuild     *)
(* under the open dialog has selected the group of the same title again,    *)
(* the export has the members it has then, among them processes that were   *)
(* not there when the dialog opened (processes_ui.c:970).  A single process *)
(* that was selected is never exchanged for another.                        *)
ExportMeant ==
    LET rows == Tail(export.file)
        w == export.written
        retitled == ~(w.group \subseteq w.meant)
        still == SelectSeq(w.table, LAMBDA p : IF retitled THEN Identity(p) \in w.group
                                               ELSE Identity(p) \in w.meant)
    IN  export.file # <<>> =>
        /\ retitled => w.asked # NoTitle /\ w.title = w.asked
        /\ export.written.read = export.written.published
        /\ Len(rows) = Len(still)
        /\ \A i \in DOMAIN rows :
              /\ rows[i].pid = still[i].pid
              /\ rows[i].rates # <<>> => still[i].available

(* No text of a process becomes a formula, a further cell or a further row  *)
(* of the spreadsheet it is pasted into (append_spreadsheet_text).          *)
ClipboardPlain ==
    \A i \in DOMAIN export.clipboard :
        LET text == export.clipboard[i]
            inked == {j \in DOMAIN text : text[j] # "blank"}
        IN  /\ ToSet(text) \cap {"tab", "newline"} = {}
            /\ inked # {} =>
                 text[CHOOSE j \in inked : \A k \in inked : j <= k] # "sign"

(* A report (lsm_app_menu_save_snapshot) is of the moment it is saved, not  *)
(* of the moment its dialog opened: every device of the sample once, under  *)
(* its section, in order, with no reading of another sample and no value    *)
(* for what is not known; and every process of the table.                   *)
ReportTrue ==
    LET sample == report.of[1]
        table == report.of[2]
        of(section) == SelectSeq(report.file.devices,
                                 LAMBDA e : e.section = section)
    IN  report.file # NoReport =>
        /\ Len(report.file.processes) = Len(table)
        /\ \A i \in DOMAIN table :
              report.file.processes[i].device = table[i].pid
        /\ \A s \in ToSet(Sections) :
              IF sample[s] = <<>>
              THEN \A i \in DOMAIN of(s) : of(s)[i].device = N_A
              ELSE /\ Len(of(s)) = Len(sample[s])
                   /\ \A i \in DOMAIN sample[s] :
                         /\ of(s)[i].device = sample[s][i].name
                         /\ \A f \in DOMAIN of(s)[i].fields :
                               of(s)[i].fields[f] =
                                   IF f \in sample[s][i].known
                                   THEN sample[s][i].serial ELSE N_A

(* The days of a month, by counting leap days up to a year.                 *)
LeapDays(year) == year \div 4 - year \div 100 + year \div 400
DaysIn(year, month) ==
    CASE month = 2 -> 28 + LeapDays(year) - LeapDays(year - 1)
      [] month \in {4, 6, 9, 11} -> 30
      [] OTHER -> 31

(* The lines of a recording that are whole and mean something.              *)
Recorded(file) ==
    LET whole(i) == file[i].newline /\ file[i - 1].newline
        sound(r) == /\ r.fields = 8 /\ ~r.header /\ r.pid > 0
                    /\ r.cpu >= 0 /\ r.memory \in 0 .. 100
                    /\ r.date[1] > 0 /\ r.date[2] \in 1 .. 12
                    /\ r.date[3] \in 1 .. DaysIn(r.date[1], r.date[2])
        taken == SelectSeq([i \in DOMAIN file |-> i],
                           LAMBDA i : i > 1 /\ whole(i) /\ sound(file[i]))
    IN  [i \in DOMAIN taken |-> file[taken[i]].cpu]

(* A plotted recording (process_log_plot_worker) shows the newest samples   *)
(* of the file in order, as many as a graph holds: nothing of a line that   *)
(* is damaged, too long or still being written, and nothing of a file that  *)
(* is no recording.  Nothing is shown once the program is shutting down,    *)
(* and the graph goes with its window.                                      *)
PlotFaithful ==
    LET read == Recorded(SubSeq(plot.file, 1, plot.at))
        newest == IF Len(read) <= HistoryLength THEN read
                  ELSE SubSeq(read, Len(read) - HistoryLength + 1, Len(read))
    IN  /\ plot.window # "none" =>
              /\ plot.file[1].header
              /\ plot.graph = newest
              /\ newest # <<>>
        /\ plot.told = "no samples" => read = <<>>
        /\ plot.freed = (IF plot.window = "closed" THEN 1 ELSE 0)

(* A new session (lsm_details_layout_load) finds the Details table as it    *)
(* was last saved: order, visibility, view and scope, the sorting if there  *)
(* was one, and the width of every column then shown, if it is not wider    *)
(* than a layout may say.  The name column is always there.                 *)
LayoutKept ==
    LET new == layout.restored
        old == layout.expected
    IN  /\ layout.table.visible[Name]
        /\ layout.session = "open" =>
              /\ <<new.tree, new.scope, new.heatmap>> =
                     <<old.tree, old.scope, old.heatmap>>
              /\ new.visible = old.visible
              /\ new.order = old.order
              /\ <<new.sort, new.descending>> = <<old.sort, old.descending>>
              /\ \A c \in 1 .. N :
                    old.visible[c] /\ old.width[c] <= MaxWidth =>
                        new.width[c] = old.width[c]

(* A time is formatted by the clock and the calendar of one policy          *)
(* (lsm_temporal_format_epoch_microseconds), one that was the system's less *)
(* than the cache's age before the call, or it is not available.            *)
TimesHonest ==
    \A t \in Callers :
        LET me == times.caller[t]
        IN  /\ me.at # "idle" => me.age < CacheTicks
            /\ me.at = "shown" /\ me.clock # None =>
                  /\ me.clock = IF me.policy.found THEN me.policy.clock
                                                   ELSE "standard"
                  /\ me.date = IF me.policy.found THEN me.policy.calendar
                                                  ELSE "gregorian"

(* The second shown contains the instant, also before 1970, and the end of  *)
(* a duration is exact or left open: no arithmetic wraps                    *)
(* (lsm_temporal_format_epoch_microseconds, format_duration_seconds).       *)
ArithmeticExact ==
    /\ \A us \in -9 .. 9 :
          /\ EpochSeconds(us) * PerSecond <= us
          /\ us < (EpochSeconds(us) + 1) * PerSecond
    /\ \A elapsed \in 0 .. 17, now \in {-8, 0, 8, MaxI64} :
          LET d == lsm_temporal_format_remaining_seconds(elapsed, now)
          IN  \/ d = Refused /\ (elapsed = 0 \/ elapsed * PerSecond > MaxU64)
              \/ /\ d.us = elapsed * PerSecond
                 /\ d.end = Open \/ (d.end = now + d.us /\ d.end <= MaxI64)

(* The help window shows the topics of the text in its search box, and a    *)
(* window that was closed is not presented again.                           *)
HelpAnswers ==
    help.window # 0 =>
        /\ help.window = help.made
        /\ \A t \in DOMAIN Topics :
              (t \in help.text) = (help.query \in Topics[t] \cup {None})

=============================================================================
