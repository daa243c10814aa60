----------------------------- MODULE WindowsShell -----------------------------
(***************************************************************************)
(* The Win32 window (src/main_windows.c): what its message handlers make   *)
(* of the samples of the monitor backend (WindowsSampler) and of the       *)
(* snapshots of the process worker (WindowsProcessRuntime).  Everything    *)
(* runs on the UI thread; each handler is one action.                      *)
(*                                                                         *)
(* Of a process snapshot only its structure matters, the PIDs and instance *)
(* tokens in order: one number stands for it.  Of a monitor sample, its    *)
(* generation, its time and the disks it lists.                            *)
(***************************************************************************)
EXTENDS Naturals, Sequences, FiniteSets, SequencesExt

CONSTANTS
    Structures,            \* Structures of process snapshots; 0 is none.
    DiskLists,             \* Disks a sample may list, in order.
    MaxSamples             \* Bound on the samples completed.

ShellAssumption ==
    /\ IsFiniteSet(Structures) /\ 0 \notin Structures
    /\ IsFiniteSet(DiskLists)
    /\ MaxSamples \in Nat

Pages == {"performance", "processes", "overview", "other"}
Gap == 0

VARIABLES
    page, item, index,     \* active_page and active_performance_*.
    backend,               \* monitor_initialised and monitor_ready.
    ready, monitor,        \* The sampler's completed sample; state->monitor.
    overview,              \* overview_history: generations and gaps.
    ring,                  \* cpu_history and memory_history.
    last,                  \* last_generation and last_timestamp.
    completed,             \* The worker's completed snapshot.
    processes,             \* state->processes.
    listed,                \* The rows of the list view.
    status,                \* What the status bar says of the processes.
    rail,                  \* The disks of the rail as last painted.
    taken_unlisted         \* History: Overview replaced state->processes
                           \* since the rows were last made anew.

monitorVars == <<backend, ready, monitor, overview, ring, last>>
processVars == <<completed, processes, listed, status, taken_unlisted>>
vars == <<page, item, index, monitorVars, processVars, rail>>

NoSample == [generation |-> 0, at |-> 0, disks |-> <<>>]

Init ==
    /\ page = "performance" /\ item = "cpu" /\ index = 0
    /\ backend = "none" /\ ready = NoSample /\ monitor = NoSample
    /\ overview = <<>> /\ ring = <<>> /\ last = NoSample
    /\ completed = 0 /\ processes = 0 /\ listed = 0
    /\ status = "starting" /\ rail = <<>> /\ taken_unlisted = FALSE

TypeOK ==
    /\ page \in Pages \cup {"closed"} /\ item \in {"cpu", "disk"}
    /\ backend \in {"none", "ready", "failed"}
    /\ ready.generation \in 0 .. MaxSamples
    /\ {completed, processes, listed} \subseteq Structures \cup {0}
    /\ status \in {"starting", "unavailable", "refreshing", "listed", "other"}

-----------------------------------------------------------------------------
(* The workers complete a sample or a scan.  Two samples may fall into one  *)
(* tick of the clock.                                                       *)
SampleCompletes ==
    /\ page # "closed" /\ backend = "ready" /\ ready = NoSample
    /\ monitor.generation < MaxSamples
    /\ \E tick \in {0, 1}, list \in DiskLists :
           ready' = [generation |-> monitor.generation + 1,
                     at |-> monitor.at + (IF monitor = NoSample THEN 1 ELSE tick),
                     disks |-> list]
    /\ UNCHANGED <<page, item, index, backend, monitor, overview, ring, last,
                   processVars, rail>>

ScanCompletes ==
    /\ page # "closed"
    /\ completed' \in Structures
    /\ UNCHANGED <<page, item, index, monitorVars, processes, listed, status,
                   taken_unlisted, rail>>

-----------------------------------------------------------------------------

(* record_completed_monitor_sample, called after every update: Overview     *)
(* takes a sample once and only if its time is later, and the two rings     *)
(* take what Overview took.                                                 *)
record_completed_monitor_sample(m) ==
    LET new == /\ m.generation # 0
               /\ m.generation # last.generation
               /\ m.at > last.at
        skipped == last # NoSample /\ m.generation # last.generation + 1
    IN IF new
       THEN /\ overview' = overview \o (IF skipped THEN <<Gap>> ELSE <<>>)
                                    \o <<m.generation>>
            /\ ring' = Append(ring, m.generation)
            /\ last' = m
       ELSE UNCHANGED <<overview, ring, last>>

(* initialise_monitor_backend, once; then lsm_monitor_platform_update takes *)
(* a completed sample, if there is one.                                     *)
UpdateMonitor ==
    /\ backend' \in IF backend = "none" THEN {"ready", "failed"} ELSE {backend}
    /\ IF backend' = "ready"
       THEN /\ monitor' = IF ready = NoSample THEN monitor ELSE ready
            /\ ready' = NoSample
            /\ record_completed_monitor_sample(monitor')
       ELSE UNCHANGED <<monitor, ready, overview, ring, last>>

(* validate_performance_selection goes by position.                         *)
validate_performance_selection(i, n) ==
    IF i = "disk" /\ n >= Len(monitor'.disks)
    THEN item' = "cpu" /\ index' = 0
    ELSE item' = i /\ index' = n

(* refresh_processes: the rows stay when the structure is that of           *)
(* state->processes, and only changed cells are written.                    *)
refresh_processes ==
    /\ item' = item /\ index' = index
    /\ \/ /\ status' = "unavailable" /\ completed' = 0  \* no worker to ask
          /\ UNCHANGED <<processes, listed, taken_unlisted>>
       \/ /\ completed = 0
          /\ status' = IF processes = 0 THEN "refreshing" ELSE status
          /\ UNCHANGED <<completed, processes, listed, taken_unlisted>>
       \/ /\ completed # 0 /\ completed' = 0
          /\ IF completed = processes
             THEN UNCHANGED <<listed, taken_unlisted>>
             ELSE listed' = completed /\ taken_unlisted' = FALSE
          /\ processes' = completed
          /\ status' = "listed"

(* refresh_overview_processes, which has no list to fill.                   *)
refresh_overview_processes ==
    /\ item' = item /\ index' = index
    /\ status' = "other"
    /\ \/ completed = 0 /\ UNCHANGED <<completed, processes, taken_unlisted>>
       \/ completed' = 0 /\ UNCHANGED <<processes, taken_unlisted>>
       \/ /\ completed # 0 /\ completed' = 0
          /\ processes' = completed
          /\ taken_unlisted' = TRUE
    /\ UNCHANGED listed

(* refresh_active_page, with the page and the device it finds selected.     *)
refresh_active_page(p, i, n) ==
    /\ UpdateMonitor
    /\ CASE p = "performance" ->
              /\ IF backend' = "ready" THEN validate_performance_selection(i, n)
                 ELSE item' = i /\ index' = n
              /\ status' = "other"
              /\ UNCHANGED <<completed, processes, listed, taken_unlisted>>
         [] p = "processes" -> refresh_processes
         [] p = "overview" -> refresh_overview_processes
         [] OTHER -> UNCHANGED <<processVars, item, index>>
    /\ UNCHANGED rail

(* WM_TIMER, and the message that starts the backend.                       *)
Timer ==
    /\ page # "closed"
    /\ refresh_active_page(page, item, index)
    /\ UNCHANGED page

(* show_page, from a tab.  The pages without a backend only say so.         *)
show_page(p) ==
    /\ page # "closed" /\ page' = p
    /\ IF p = "other"
       THEN /\ status' = "other"
            /\ UNCHANGED <<item, index, monitorVars, completed, processes,
                           listed, taken_unlisted, rail>>
       ELSE refresh_active_page(p, item, index)

(* navigate_overview_card looks the device of the newest sample up in the   *)
(* list of that moment and shows the page, which may take a newer list.     *)
navigate_overview_card ==
    /\ page = "overview" /\ overview # <<>>
    /\ \E d \in Range(last.disks), n \in DOMAIN monitor.disks :
          /\ monitor.disks[n] = d
          /\ page' = "performance"
          /\ refresh_active_page("performance", "disk", n - 1)

(* draw_performance_page, and WM_LBUTTONUP on an entry it has drawn.        *)
Paint ==
    /\ page = "performance" /\ rail' = monitor.disks
    /\ UNCHANGED <<page, item, index, monitorVars, processVars>>

ClickRail ==
    /\ page = "performance"
    /\ \/ item' = "cpu" /\ index' = 0
       \/ \E n \in DOMAIN rail : item' = "disk" /\ index' = n - 1
    /\ UNCHANGED <<page, monitorVars, processVars, rail>>

(* WM_DESTROY: destroy_state releases the snapshot and the history.         *)
destroy_state ==
    /\ page # "closed" /\ page' = "closed"
    /\ processes' = 0 /\ completed' = 0 /\ overview' = <<>>
    /\ backend' = "none"
    /\ UNCHANGED <<item, index, ready, monitor, ring, last, listed, status,
                   taken_unlisted, rail>>

Closed == page = "closed" /\ UNCHANGED vars

Next ==
    \/ SampleCompletes \/ ScanCompletes \/ Timer
    \/ \E p \in Pages : show_page(p)
    \/ navigate_overview_card \/ Paint \/ ClickRail \/ destroy_state \/ Closed

Spec == Init /\ [][Next]_vars

-----------------------------------------------------------------------------
(* The graphs of the Performance page and the history of Overview hold the  *)
(* same samples, each once and in order, with a gap in Overview wherever a  *)
(* sample was passed over because the clock had not moved                   *)
(* (record_completed_monitor_sample).                                       *)
HistoriesAgree ==
    page # "closed" =>
        /\ Range(overview) \ {Gap} = Range(ring)
        /\ \A j, k \in DOMAIN ring : j < k => ring[j] < ring[k]
        /\ \A k \in 1 .. Len(overview) - 1 :
               IF overview[k] # Gap
               THEN overview[k + 1] \in {Gap, overview[k] + 1}
               ELSE k > 1 /\ overview[k + 1] > overview[k - 1] + 1

(* The rows of the list are those of state->processes, except where         *)
(* Overview has taken a snapshot since they were made.                      *)
RowsExplained ==
    page # "closed" => listed = processes \/ taken_unlisted

(* L"%zu Windows processes - read-only" (main_windows.c:2469): when the     *)
(* status bar counts the processes, the list shows them.                    *)
ListMatchesStatus ==
    page = "processes" /\ status = "listed" => listed = processes
=============================================================================
