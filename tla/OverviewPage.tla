---------------------------- MODULE OverviewPage ----------------------------
(***************************************************************************)
(* The Overview page (src/overview.c): what each card derives from a       *)
(* completed sample (src/overview_history.c), the graphs and labels it     *)
(* keeps, the busiest processes, and the page of the Performance tab that  *)
(* a card leads to; with it the summary bar (src/summary_bar.c), which     *)
(* tells the same sample its own way.                                      *)
(*                                                                         *)
(* A label holds the number of the sample it tells; 0 is "N/A".  Readings  *)
(* are numbers, and None is one that is not available or not finite.  The  *)
(* ring that retains the samples and what is drawn on a graph are in       *)
(* SampleRings.                                                            *)
(***************************************************************************)
EXTENDS Integers, Sequences, FiniteSets, SequencesExt, FiniteSetsExt, TLC

CONSTANTS
    Machines,      \* What a sample may find: the processor's temperature and
                   \* policy, lists of GPUs, adapters and disks, and the
                   \* metrics that are missing.
    ProcessTables, \* Lists of [pid, cpu].
    TopCount,      \* LSM_OVERVIEW_TOP_PROCESS_COUNT, 5.
    Capacity,      \* LSM_OVERVIEW_HISTORY_CAPACITY, 120.
    MaxGeneration  \* Bound: samples, the lost ones included.

None == -1

OverviewPageAssumption ==
    /\ TopCount \in Nat \ {0} /\ Capacity \in Nat \ {0} /\ MaxGeneration \in Nat
    /\ \A m \in Machines :
         m.cpu.policy = <<>> \/ m.cpu.policy[1] <= m.cpu.policy[2]

VARIABLES
    monitor,   \* app->monitor.
    processes, \* The process snapshot, and its generation.
    history,   \* app->overview.history: numbers of samples, 0 for a gap.
    latest,    \* The newest sample of it.
    page,      \* The page: built, in front, its graphs and labels.
    opened     \* History variable: the card clicked last and where it led.

vars == <<monitor, processes, history, latest, page, opened>>

Metrics == {"cpu", "memory", "disk", "network", "gpu", "temperature",
            "cpu pressure", "memory pressure", "io pressure"}
Plain == {"cpu", "memory", "cpu pressure", "memory pressure", "io pressure"}

-----------------------------------------------------------------------------
(* One sample.                                                              *)

(* The first of the entries that rate highest; 0 when none is rated.        *)
Busiest(list, rates) ==
    LET rated == {n \in DOMAIN list : rates[n] # None}
        peak == {n \in rated : \A m \in rated : rates[n] >= rates[m]}
    IN  IF rated = {} THEN 0 ELSE Min(peak)

Column(list, field) == [n \in DOMAIN list |-> list[n][field]]
bounded_percent(value) == Min({100, Max({0, value})})
NoDevice == [index |-> 0, id |-> "", value |-> None]
Device(list, n, value) ==
    IF n = 0 THEN NoDevice
    ELSE [index |-> n, id |-> list[n].id, value |-> value]

derive_disk(disks) ==
    LET measured == SelectSeq(disks, LAMBDA active : active # None)
    IN  IF measured = <<>> THEN None
        ELSE bounded_percent(
                FoldLeft(LAMBDA sum, active : sum + bounded_percent(active), 0, measured)
                \div Len(measured))

derive_network(nets) ==
    LET n == Busiest(nets, Column(nets, "rate"))
    IN  Device(nets, n, IF n = 0 THEN None ELSE nets[n].rate)

derive_gpu(gpus) ==
    LET usage == [n \in DOMAIN gpus |->
                    IF gpus[n].usage = None THEN None ELSE bounded_percent(gpus[n].usage)]
        n == Busiest(gpus, usage)
    IN  Device(gpus, n, IF n = 0 THEN None ELSE usage[n])

(* The processor first; a GPU has to be hotter.                             *)
derive_temperature(cpu, gpus) ==
    LET n == Busiest(gpus, Column(gpus, "temperature"))
        hottest == Device(gpus, n, IF n = 0 THEN None ELSE gpus[n].temperature)
    IN  IF n # 0 /\ hottest.value > cpu.temperature
        THEN [source |-> "gpu"] @@ hottest
        ELSE IF cpu.temperature = None THEN [source |-> "none"] @@ NoDevice
        ELSE [source |-> "cpu", index |-> 0, id |-> "cpu", value |-> cpu.temperature]

derive_sample(m) ==
    [generation |-> m.generation, plain |-> Plain \ m.missing,
     split |-> "cpu" \notin m.missing /\ "split" \notin m.missing,
     disk |-> derive_disk(m.disks), network |-> derive_network(m.nets),
     gpu |-> derive_gpu(m.gpus), temperature |-> derive_temperature(m.cpu, m.gpus)]

(* Whether a metric has a value in a sample that is not a gap.              *)
overview_sample_value(sample, metric) ==
    CASE metric = "disk" -> sample.disk # None
      [] metric = "network" -> sample.network.index # 0
      [] metric = "gpu" -> sample.gpu.index # 0
      [] metric = "temperature" -> sample.temperature.source # "none"
      [] OTHER -> metric \in sample.plain

(* lsm_summary_performance_view on the same data: peaks, not means.         *)
lsm_summary_performance_view(m) ==
    LET Peak(values) == LET given == {v \in values : v # None}
                        IN  IF given = {} THEN None ELSE Max(given)
    IN  [disk |-> Peak(ToSet(m.disks)),
         gpu |-> Peak({m.gpus[n].usage : n \in DOMAIN m.gpus}),
         network |-> IF m.nets = <<>> THEN None
                     ELSE FoldLeft(LAMBDA sum, net : sum + Max({0, net.rate}), 0, m.nets)]

(* Each label of the bar takes the value of its own field.                  *)
lsm_summary_bar_view_update(m) ==
    [field \in {"disk", "gpu", "network"} |-> lsm_summary_performance_view(m)[field]]

-----------------------------------------------------------------------------
(* The busiest processes: indices into the snapshot, kept sorted while the  *)
(* snapshot is walked once.                                                 *)

process_precedes(left, right) ==
    \/ left.cpu > right.cpu
    \/ left.cpu = right.cpu /\ left.pid < right.pid

lsm_overview_top_cpu_processes(table) ==
    LET Placed(kept, n) ==
            LET place == Min({p \in 1 .. Len(kept) + 1 :
                                 p <= Len(kept)
                                     => process_precedes(table[n], table[kept[p]])})
                longer == InsertAt(kept, place, n)
            IN  IF place > TopCount THEN kept
                ELSE SubSeq(longer, 1, Min({TopCount, Len(longer)}))
    IN  FoldLeft(LAMBDA kept, n : IF table[n].cpu = None THEN kept ELSE Placed(kept, n),
                 <<>>, [n \in DOMAIN table |-> n])

overview_refresh_processes(table) ==
    LET top == lsm_overview_top_cpu_processes(table)
    IN  [row \in DOMAIN top |-> table[top[row]].pid]

-----------------------------------------------------------------------------
(* The cards on their grid of twelve columns, and the four values below two *)
(* of them: captions and values meet by position.                           *)

Placement(column, row, width) == [column |-> column, row |-> row, width |-> width]
overview_layout ==
    [m \in Metrics |->
        CASE m = "cpu" -> Placement(0, 0, 6) [] m = "memory" -> Placement(6, 0, 6)
          [] m = "disk" -> Placement(0, 1, 4) [] m = "network" -> Placement(4, 1, 4)
          [] m = "gpu" -> Placement(8, 1, 4) [] m = "temperature" -> Placement(0, 2, 3)
          [] m = "cpu pressure" -> Placement(3, 2, 3)
          [] m = "memory pressure" -> Placement(6, 2, 3)
          [] m = "io pressure" -> Placement(9, 2, 3)]

Gauges == {"cpu", "memory", "gpu"}
overview_make_primary_stats ==
    [cpu |-> <<"max frequency", "cores", "threads", "temperature">>,
     memory |-> <<"used", "cached", "available", "swap">>]
PrimaryValues ==
    [cpu |-> <<"max frequency", "cores", "threads", "temperature">>,
     memory |-> <<"used", "cached", "available", "swap">>]
(* The four cells stand in one row, or in two when the card is too narrow.  *)
overview_primary_stats_reflow(columns) ==
    [cell \in 0 .. 3 |-> <<cell % columns, cell \div columns>>]

overview_make_card(m) == [value |-> "Initialising", names |-> "", detail |-> ""]

-----------------------------------------------------------------------------
(* The labels.                                                              *)

(* Limits of the device that the temperature is of: those a GPU reports, a  *)
(* missing one ten degrees from the other; the processor's by its policy.   *)
Limits(sample, m) ==
    LET found == {n \in DOMAIN m.gpus : m.gpus[n].id = sample.temperature.id}
        gpu == m.gpus[Min(found)]
        warning == IF gpu.warning # None \/ gpu.critical = None THEN gpu.warning
                   ELSE Max({30, gpu.critical - 10})
        fault == IF gpu.critical # None \/ gpu.warning = None THEN gpu.critical
                 ELSE Min({150, gpu.warning + 10})
    IN  CASE sample.temperature.source = "cpu" -> m.cpu.policy
          [] sample.temperature.source = "gpu" /\ found # {} ->
                IF None \in {warning, fault} THEN <<>> ELSE <<warning, fault>>
          [] OTHER -> <<>>

Status(sample, m) ==
    LET limits == Limits(sample, m)
        degrees == sample.temperature.value
    IN  CASE sample.temperature.source = "none" -> "unavailable"
          [] limits = <<>> -> "no limit"
          [] degrees >= limits[2] -> "fault"
          [] degrees >= limits[1] -> "warning"
          [] OTHER -> "nominal"

(* overview_set_percent, overview_set_pressure: the value's label.          *)
overview_set_percent(available, sample) ==
    IF available THEN sample.generation ELSE 0

(* What the cards of a device say of it.  The words beside the disk and     *)
(* network titles stay when there is nothing to say; the GPU's do not.      *)
Named(sample, metric, old) ==
    CASE metric = "network" -> IF sample.network.index = 0 THEN old ELSE sample.network.id
      [] metric = "gpu" -> sample.gpu.id
      [] metric = "disk" -> IF sample.disk = None THEN old ELSE "disks"
      [] OTHER -> old

Detail(sample, metric) ==
    CASE metric = "cpu" -> IF sample.split THEN "split" ELSE ""
      [] metric = "network" -> sample.network.id
      [] metric = "gpu" -> sample.gpu.id
      [] metric = "temperature" -> sample.temperature.id
      [] OTHER -> ""

overview_set_latest_values(cards, sample, m) ==
    [metric \in Metrics |->
        [value |-> overview_set_percent(overview_sample_value(sample, metric), sample),
         names |-> Named(sample, metric, cards[metric].names),
         detail |-> Detail(sample, metric)]]

(* lsm_overview_refresh on the page p, with what is newest then: only a     *)
(* built page in front, only what changed.                                  *)
lsm_overview_refresh(p, sample, m, snapshot) ==
    LET monitor_changed == sample # <<>> /\ sample[1].generation # p.displayed_monitor
        process_changed == snapshot.generation # p.displayed_process
    IN  IF ~p.built \/ ~p.active THEN p
        ELSE [p EXCEPT
                !.cards = IF monitor_changed
                          THEN overview_set_latest_values(@, sample[1], m) ELSE @,
                !.status = IF monitor_changed THEN Status(sample[1], m) ELSE @,
                !.displayed_monitor = IF monitor_changed THEN sample[1].generation ELSE @,
                !.rows = IF process_changed
                         THEN overview_refresh_processes(snapshot.table) ELSE @,
                !.displayed_process = snapshot.generation]

(* overview_push_sample on every card's graph.  The processor's is drawn by *)
(* the split into user and kernel, so it has a hole where the label may not.*)
overview_push_sample(p, entries) == [p EXCEPT !.graphs = @ \o entries]

(* The arc is drawn from the newest sample retained, whenever GTK asks.     *)
overview_gauge_draw(metric) ==
    IF latest # <<>> /\ overview_sample_value(latest[1], metric)
    THEN latest[1].generation ELSE 0

-----------------------------------------------------------------------------
NewPage == [built |-> FALSE, active |-> FALSE, graphs |-> <<>>,
            cards |-> [m \in Metrics |-> overview_make_card(m)],
            status |-> "nominal", rows |-> <<>>,
            displayed_monitor |-> 0, displayed_process |-> 0]

NotOpened == [metric |-> "", type |-> "", id |-> "", named |-> "", replaced |-> FALSE]

NoMachine == [cpu |-> [temperature |-> None, policy |-> <<>>], gpus |-> <<>>,
              nets |-> <<>>, disks |-> <<>>, missing |-> {}]
Sampled(machine, generation) == [generation |-> generation] @@ machine

Init ==
    /\ monitor = Sampled(NoMachine, 0)
    /\ processes = [table |-> <<>>, generation |-> 0]
    /\ history = <<>> /\ latest = <<>>
    /\ page = NewPage
    /\ opened = NotOpened

Retain(entries) ==
    SubSeq(entries, Max({1, Len(entries) - Capacity + 1}), Len(entries))

(* The end of lsm_performance_refresh when a completed sample was taken:    *)
(* lsm_overview_record_monitor_sample, which pushes only the newest entry,  *)
(* then lsm_overview_refresh.  A generation may have been lost before it.   *)
SampleTaken(from) ==
    \E lost \in {0, 1} :
        LET generation == monitor.generation + 1 + lost
            gap == monitor.generation # 0 /\ lost = 1
        IN  \E machine \in Machines :
              /\ generation <= MaxGeneration
              /\ monitor' = Sampled(machine, generation)
              /\ latest' = <<derive_sample(monitor')>>
              /\ history' = Retain(history \o (IF gap THEN <<0>> ELSE <<>>)
                                           \o <<generation>>)
              /\ page' = lsm_overview_refresh(
                            IF from.built THEN overview_push_sample(from, <<generation>>)
                            ELSE from, latest', monitor', processes)

lsm_overview_record_monitor_sample ==
    SampleTaken(page) /\ UNCHANGED <<processes, opened>>

(* process_workspace.c installs a process snapshot and refreshes.           *)
ProcessesInstalled ==
    \E table \in ProcessTables :
        /\ processes.generation < MaxGeneration
        /\ processes' = [table |-> table, generation |-> processes.generation + 1]
        /\ page' = lsm_overview_refresh(page, latest, monitor, processes')
        /\ UNCHANGED <<monitor, history, latest, opened>>

(* The tab is entered: its first time builds it, lsm_overview_build pushing *)
(* all that is retained; page_built is set after it, and the page refreshed.*)
lsm_overview_build ==
    /\ ~page.active
    /\ LET ready == IF page.built THEN page
                    ELSE [overview_push_sample(page, history) EXCEPT !.built = TRUE]
       IN  page' = lsm_overview_refresh([ready EXCEPT !.active = TRUE],
                                        latest, monitor, processes)
    /\ UNCHANGED <<monitor, processes, history, latest, opened>>

(* Another tab is chosen, by its title or by "View all".                    *)
overview_view_all_clicked ==
    /\ page.active
    /\ page' = [page EXCEPT !.active = FALSE]
    /\ UNCHANGED <<monitor, processes, history, latest, opened>>

(* lsm_overview_resolve_network and _gpu: the index of the sample's device  *)
(* in the present list; the first GPU stands for one without readings.      *)
Resolved(list, id) == LET at == {n \in DOMAIN list : list[n].id = id}
                      IN  IF at = {} THEN 0 ELSE Min(at)

overview_destination(metric, sample) ==
    CASE metric \in {"cpu", "cpu pressure"} -> [type |-> "cpu", index |-> 1]
      [] metric \in {"memory", "memory pressure"} -> [type |-> "memory", index |-> 1]
      [] metric \in {"disk", "io pressure"} ->
            [type |-> "disk", index |-> IF monitor.disks = <<>> THEN 0 ELSE 1]
      [] metric = "network" ->
            [type |-> "network", index |-> IF sample.network.index = 0 THEN 0
                                           ELSE Resolved(monitor.nets, sample.network.id)]
      [] metric = "gpu" \/ sample.temperature.source = "gpu" ->
            LET id == IF metric = "gpu" THEN sample.gpu.id ELSE sample.temperature.id
            IN  [type |-> "gpu",
                 index |-> IF monitor.gpus = <<>> THEN 0
                           ELSE IF metric = "gpu" /\ sample.gpu.index = 0 THEN 1
                           ELSE Resolved(monitor.gpus, id)]
      [] OTHER -> [type |-> "cpu",
                   index |-> IF sample.temperature.source = "cpu" THEN 1 ELSE 0]

Devices(m, type) == CASE type = "network" -> m.nets [] type = "gpu" -> m.gpus [] OTHER -> <<>>

(* page_for_type_index of the machine m; the first page of the group stands *)
(* for one that is not there, and without any the page stays what it was.   *)
page_for_type_index(m, to) ==
    LET list == Devices(m, to.type)
    IN  CASE to.type \notin {"network", "gpu"} -> to.type
          [] to.index \in DOMAIN list -> list[to.index].id
          [] list # <<>> -> list[1].id
          [] OTHER -> ""

(* The index is resolved; lsm_performance_show_resource enters the tab,     *)
(* whose refresh installs a completed sample when one is waiting, and only  *)
(* then takes the page that has this index.                                 *)
overview_card_clicked(metric) ==
    /\ page.active /\ latest # <<>>
    /\ LET to == overview_destination(metric, latest[1])
           left == [page EXCEPT !.active = FALSE]
       IN  /\ to.index # 0
           /\ \/ page' = left /\ UNCHANGED <<monitor, history, latest>>
              \/ SampleTaken(left)
           /\ opened' = [metric |-> metric, type |-> to.type,
                         named |-> IF /\ metric \in {"network", "gpu", "temperature"}
                                      /\ overview_sample_value(latest[1], metric)
                                   THEN page.cards[metric].detail ELSE "",
                         id |-> page_for_type_index(monitor', to),
                         replaced |-> Devices(monitor', to.type) # Devices(monitor, to.type)]
    /\ UNCHANGED processes

(* At shutdown.                                                             *)
lsm_overview_destroy ==
    /\ page' = NewPage /\ history' = <<>> /\ latest' = <<>>
    /\ UNCHANGED <<monitor, processes, opened>>

Next ==
    \/ lsm_overview_record_monitor_sample
    \/ ProcessesInstalled
    \/ lsm_overview_build
    \/ overview_view_all_clicked
    \/ \E metric \in Metrics : overview_card_clicked(metric)
    \/ page.built /\ monitor.generation = MaxGeneration /\ lsm_overview_destroy

Spec == Init /\ [][Next]_vars

-----------------------------------------------------------------------------
TypeOK ==
    /\ monitor.generation \in 0 .. MaxGeneration
    /\ history \in Seq(0 .. MaxGeneration) /\ Len(history) <= Capacity
    /\ Len(latest) <= 1
    /\ page.graphs \in Seq(0 .. MaxGeneration)
    /\ opened.metric \in Metrics \cup {""}

(* A page in front tells the newest sample and the newest process snapshot, *)
(* every label of it, whether they came while it was hidden, before it was  *)
(* built, or in either order; the arcs, drawn at any time, agree with the   *)
(* labels inside them.                                                      *)
PageOfNewest ==
    page.active =>
        /\ latest # <<>> =>
             /\ \A m \in Metrics : page.cards[m].value
                    = IF overview_sample_value(latest[1], m) THEN latest[1].generation
                      ELSE 0
             /\ \A m \in Gauges : page.cards[m].value = overview_gauge_draw(m)
        /\ processes.generation # 0 => page.displayed_process = processes.generation

(* The device on a card is the busiest or hottest there is, found here from *)
(* the whole machine: no other of its kind is above it, and the thermal     *)
(* status speaks of the limits of the hottest device and of no other.       *)
CardsNameBusiest ==
    page.active /\ latest # <<>> =>
        LET heat == {<<m.temperature, m.id>> : m \in ToSet(monitor.gpus)}
                        \cup {<<monitor.cpu.temperature, "cpu">>}
            known == {h \in heat : h[1] # None}
        IN  /\ \A net \in ToSet(monitor.nets) : net.rate # None =>
                 \E busy \in ToSet(monitor.nets) :
                    busy.id = page.cards["network"].detail /\ busy.rate >= net.rate
            /\ \A gpu \in ToSet(monitor.gpus) : gpu.usage # None =>
                 \E busy \in ToSet(monitor.gpus) :
                    busy.id = page.cards["gpu"].detail /\ busy.usage >= gpu.usage
            /\ known # {} =>
                 /\ page.cards["temperature"].detail \in {h[2] : h \in known}
                 /\ <<Max({h[1] : h \in known}), page.cards["temperature"].detail>> \in known
                 /\ (<<Max({h[1] : h \in known}), "cpu">> \in known
                        => page.cards["temperature"].detail = "cpu")
                 /\ (page.status = "nominal" /\ page.cards["temperature"].detail = "cpu")
                        => monitor.cpu.temperature < monitor.cpu.policy[1]
            /\ known = {} => page.status = "unavailable"

(* A card leads to the page of the device it names, wherever that device    *)
(* stands in the list when it is clicked.  The exception, against           *)
(* overview_history.h:8-10 ("hotplug/reordering cannot redirect             *)
(* navigation"): entering the tab may install a newer list, in which the    *)
(* index resolved before is of another device (overview.c:1030-1033).       *)
CardsLeadToNamed ==
    opened.named # "" /\ ~opened.replaced => opened.id = opened.named

(* The rows are the first of the processes in the order of their load, the  *)
(* lower number first among equals.                                         *)
RowsAreTop ==
    LET table == processes.table
        Better(p) == {q \in ToSet(table) : q.cpu # None /\ process_precedes(q, p)}
    IN  page.active =>
          /\ Len(page.rows) = Min({TopCount, Cardinality({n \in DOMAIN table :
                                                            table[n].cpu # None})})
          /\ \A p \in ToSet(table) :
               p.cpu # None /\ Cardinality(Better(p)) < TopCount
                  => page.rows[Cardinality(Better(p)) + 1] = p.pid

(* The summary bar and the cards tell one machine: the GPU's number is the  *)
(* same, the bar's disk is the busiest disk where the card's is their mean, *)
(* and one is empty exactly when the other is.                              *)
BarAgrees ==
    latest # <<>> /\ latest[1].generation = monitor.generation =>
        LET bar == lsm_summary_bar_view_update(monitor)
        IN  /\ bar.gpu = None \/ bar.gpu > 100 \/ bar.gpu = latest[1].gpu.value
            /\ (bar.gpu = None) = (latest[1].gpu.index = 0)
            /\ (bar.disk = None) = (latest[1].disk = None)
            /\ bar.disk # None => latest[1].disk <= bar.disk
            /\ latest[1].network.index # 0 => latest[1].network.value <= bar.network

(* No two cards overlap, every row of the grid is full, and each value      *)
(* stands beside its own caption in one cell of its own.                    *)
CardsInPlace ==
    /\ \A row \in 0 .. 2, column \in 0 .. 11 :
         Cardinality({m \in Metrics : /\ overview_layout[m].row = row
                                      /\ column \in overview_layout[m].column ..
                                           overview_layout[m].column
                                             + overview_layout[m].width - 1}) = 1
    /\ overview_make_primary_stats = PrimaryValues
    /\ \A columns \in {2, 4} :
         IsInjective(overview_primary_stats_reflow(columns))

(* Every sample recorded since, or retained when, the page was built is on  *)
(* its graphs, once and in order.  The exception: the gaps of the history   *)
(* are not on them once it is on the screen, for only its latest entry is   *)
(* pushed (overview.c:1577), so that lines join what time has parted.       *)
GraphsKeepSamples ==
    LET drawn == SelectSeq(page.graphs, LAMBDA entry : entry # 0)
        kept == SelectSeq(history, LAMBDA entry : entry # 0)
    IN  page.built => /\ IsSuffix(kept, drawn)
                      /\ \A n \in 1 .. Len(drawn) - 1 : drawn[n] < drawn[n + 1]
=============================================================================
