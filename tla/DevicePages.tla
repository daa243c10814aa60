----------------------------- MODULE DevicePages -----------------------------
(***************************************************************************)
(* What one page of the Performance tab shows: its construction            *)
(* (src/performance_pages_core.c, src/performance_pages_devices.c), its    *)
(* graphs and texts at each sample (src/performance_present*.c,            *)
(* src/performance_view.c), the engines a GPU page plots                   *)
(* (src/gpu_metrics.c) and the colour of a temperature                     *)
(* (src/thermal_policy.c).  Which pages there are is in PerformancePages.  *)
(*                                                                         *)
(* A text is the datum it tells, and the sample it is of; the datum "N/A"  *)
(* stands for none.  A caption names the datum that belongs beside it.     *)
(* What a sample has is a set of data; layout, units and wording are left  *)
(* out.                                                                    *)
(***************************************************************************)
EXTENDS Integers, Sequences, FiniteSets, SequencesExt, TLC

CONSTANTS
    Kinds,        \* Kinds of pages studied.
    Engines,      \* Metrics that come and go on a GPU.
    SlotCount,    \* LSM_GPU_GRAPH_SLOT_COUNT.
    Limits,       \* Limits that sensors and the table give; 0 is none.
    Temperatures, \* Readings.
    MaxSamples    \* Bound: samples presented.

DevicePagesAssumption ==
    /\ Kinds \subseteq {"cpu", "memory", "disk", "network", "bluetooth", "gpu",
                        "battery", "npu"}
    /\ Limits \subseteq Nat /\ 0 \in Limits /\ Temperatures \subseteq Nat
    /\ SlotCount \in Nat \ {0} /\ MaxSamples \in Nat

VARIABLES
    kind,    \* page->type.
    info,    \* The device in app->monitor.
    page,    \* The page's labels, and whether it is in front.
    slots    \* A GPU page's graphs; slot 0 is the single large one.

vars == <<kind, info, page, slots>>

-----------------------------------------------------------------------------
(* A view tells data: each is "N/A" unless what it needs is in the sample.  *)
(* Widgets, captions and views meet by position in arrays of three files.   *)

Row(datum, needed) == [of |-> datum, needs |-> needed]
Free(data) == [datum \in data |-> Row(datum, {})]
Own(data) == [datum \in data |-> Row(datum, {datum})]
Needing(data, needed) == [datum \in data |-> Row(datum, needed)]
As(label, datum) == label :> Row(datum, {datum})

(* The n-th label of an array beside, or showing, the n-th of another.      *)
Matched(labels, those) ==
    [label \in ToSet(labels) |->
        those[CHOOSE n \in DOMAIN labels : labels[n] = label]]
Fields(view, order) == [n \in DOMAIN order |-> view[order[n]]]
(* Labels made with a caption of their own.                                 *)
Beside(labels) == [label \in labels |-> label]

LsmCpuMetricField ==
    <<"utilisation", "speed", "processes", "threads", "handles", "uptime",
      "temperature", "pressure", "user_time", "kernel_time">>
LsmCpuDetailField ==
    <<"cores", "logical_processors", "base_speed", "maximum_speed",
      "virtualisation", "cache_l1", "cache_l2", "cache_l3", "load_average",
      "sockets", "numa_nodes", "interrupts", "context_switches">>
cpu_metric_labels ==
    <<"utilisation", "speed", "processes", "threads", "handles", "uptime",
      "temperature", "pressure", "user_time", "kernel_time">>
cpu_detail_labels ==
    <<"cores", "logical_processors", "base_speed", "maximum_speed",
      "virtualisation", "cache_l1", "cache_l2", "cache_l3", "load_average",
      "sockets", "numa_nodes", "interrupts", "context_switches">>

lsm_cpu_performance_view ==
    Free({"processes", "threads", "uptime"})
    @@ Needing({"user_time", "kernel_time"}, {"shares"})
    @@ Own({"utilisation", "speed", "handles", "temperature", "pressure"})
    @@ Needing({"cores", "logical_processors", "base_speed", "maximum_speed",
                "sockets", "numa_nodes", "virtualisation", "cache_l1",
                "cache_l2", "cache_l3"}, {"identity"})
    @@ Needing({"load_average", "interrupts", "context_switches"}, {"events"})
update_cpu_page ==
    Matched(<<"utilisation", "speed", "processes", "threads", "handles", "uptime",
          "temperature", "pressure", "user_time", "kernel_time">>,
        Fields(lsm_cpu_performance_view, LsmCpuMetricField))
    @@ Matched(<<"cores", "logical_processors", "base_speed", "maximum_speed",
             "virtualisation", "cache_l1", "cache_l2", "cache_l3",
             "load_average", "sockets", "numa_nodes", "interrupts",
             "context_switches">>,
           Fields(lsm_cpu_performance_view, LsmCpuDetailField))
    @@ Own({"core usage"})
performance_build_cpu_page ==
    Matched(<<"utilisation", "speed", "processes", "threads", "handles", "uptime",
          "temperature", "pressure", "user_time", "kernel_time">>,
        cpu_metric_labels)
    @@ Matched(<<"cores", "logical_processors", "base_speed", "maximum_speed",
             "virtualisation", "cache_l1", "cache_l2", "cache_l3",
             "load_average", "sockets", "numa_nodes", "interrupts",
             "context_switches">>, cpu_detail_labels)
    @@ Beside({"core usage"})

LsmMemoryMetricField ==
    <<"in_use", "available", "committed", "cached", "buffers", "swap",
      "kernel_reclaimable", "kernel_nonreclaimable", "page_tables", "pressure">>
LsmMemoryDetailField ==
    <<"speed", "slots_used", "form_factor", "hardware_corrupted", "modules">>
memory_metric_labels ==
    <<"in_use", "available", "committed", "cached", "buffers", "swap",
      "kernel_reclaimable", "kernel_nonreclaimable", "page_tables", "pressure">>
memory_detail_labels ==
    <<"speed", "slots_used", "form_factor", "hardware_corrupted", "modules">>

MemoryDetails ==
    Own({"speed", "slots_used", "form_factor", "modules"})
    @@ Needing({"hardware_corrupted"}, {"accounting"})
lsm_memory_performance_view ==
    Needing({"in_use", "available", "cached", "kernel_reclaimable",
             "kernel_nonreclaimable", "page_tables"}, {"accounting"})
    @@ Needing({"committed"}, {"accounting", "commit limit"})
    @@ Free({"buffers", "swap"}) @@ Own({"pressure"}) @@ MemoryDetails
update_memory_page ==
    Matched(<<"in_use", "available", "committed", "cached", "buffers", "swap",
          "kernel_reclaimable", "kernel_nonreclaimable", "page_tables",
          "pressure">>,
        Fields(lsm_memory_performance_view, LsmMemoryMetricField))
    @@ Matched(<<"speed", "slots_used", "form_factor", "hardware_corrupted",
             "modules">>,
           Fields(lsm_memory_performance_view, LsmMemoryDetailField))
performance_build_memory_page ==
    Matched(<<"in_use", "available", "committed", "cached", "buffers", "swap",
          "kernel_reclaimable", "kernel_nonreclaimable", "page_tables",
          "pressure">>, memory_metric_labels)
    @@ Matched(<<"speed", "slots_used", "form_factor", "hardware_corrupted",
             "modules">>, memory_detail_labels)

(* A view of a device is a list, as device_view_metric appends to it, which *)
(* the presenter reads by the numbers of an enumeration.                    *)
lsm_disk_performance_view ==
    Fields(Own({"read_speed", "write_speed", "active_time", "average_response",
                "queue_length", "media_type", "connection_type"})
           @@ Free({"capacity", "system_disk"}),
           <<"read_speed", "write_speed", "active_time", "average_response",
             "queue_length", "capacity", "media_type", "connection_type",
             "system_disk">>)
update_disk_page ==
    [label \in {"read_speed", "active_time", "write_speed", "average_response",
                "queue_length", "media_type", "connection_type", "system_disk"} |->
        lsm_disk_performance_view[
            [read_speed |-> 1, write_speed |-> 2, active_time |-> 3,
             average_response |-> 4, queue_length |-> 5, media_type |-> 7,
             connection_type |-> 8, system_disk |-> 9][label]]]
    @@ Needing({"current_requests"}, {"active_time"}) @@ Own({"io_pressure"})
    @@ Free({"read_total", "write_total"})
performance_build_disk_page ==
    Beside({"read_speed", "active_time", "write_speed", "average_response",
            "queue_length", "current_requests", "io_pressure"})
    @@ Matched(<<"media_type", "connection_type", "system_disk", "read_total",
             "write_total">>,
           <<"media_type", "connection_type", "system_disk", "read_total",
             "write_total">>)

lsm_network_performance_view ==
    Fields(Free({"receive_rate", "send_rate", "link_speed"})
           @@ Own({"utilisation", "ipv4", "ipv6", "mac", "connection_state",
                   "product"}),
           <<"receive_rate", "send_rate", "link_speed", "utilisation", "ipv4",
             "ipv6", "mac", "connection_state", "product">>)
(* A Wi-Fi signal that is not known is told as 0.                           *)
update_network_page(i) ==
    [label \in {"receive_rate", "send_rate", "ipv4", "ipv6", "mac",
                "connection_state", "utilisation", "link_speed"} |->
        lsm_network_performance_view[
            [receive_rate |-> 1, send_rate |-> 2, link_speed |-> 3,
             utilisation |-> 4, ipv4 |-> 5, ipv6 |-> 6, mac |-> 7,
             connection_state |-> 8][label]]]
    @@ Free({"received_total", "sent_total", "scale"})
    @@ (IF i.wireless
        THEN Own({"wifi_network", "frequency", "access_point"}) @@ Free({"signal"})
        ELSE <<>>)
performance_build_network_page(i) ==
    Beside({"receive_rate", "received_total", "send_rate", "sent_total", "scale"})
    @@ Matched(<<"ipv4", "ipv6", "mac", "connection_state", "utilisation",
             "link_speed">>,
           <<"ipv4", "ipv6", "mac", "connection_state", "utilisation",
             "link_speed">>)
    @@ (IF i.wireless
        THEN Matched(<<"wifi_network", "signal", "frequency", "access_point">>,
                 <<"wifi_network", "signal", "frequency", "access_point">>)
        ELSE <<>>)

update_bluetooth_page ==
    Needing({"receive_rate", "received_total", "send_rate", "sent_total",
             "links"}, {"traffic"})
    @@ Free({"status", "paired", "trusted", "services_resolved", "scale"})
    @@ Own({"controller", "address", "name", "alias", "address_type", "icon",
            "modalias"})
performance_build_bluetooth_page ==
    Beside({"receive_rate", "received_total", "send_rate", "sent_total",
            "status", "links", "paired", "trusted", "scale"})
    @@ Matched(<<"controller", "address", "name", "alias", "address_type",
             "services_resolved", "icon", "modalias">>,
           <<"controller", "address", "name", "alias", "address_type",
             "services_resolved", "icon", "modalias">>)

lsm_gpu_performance_view ==
    Fields(Own({"product", "overall", "temperature", "memory", "driver",
                "driver_version", "active_engine"}) @@ Free({"metrics"}),
           <<"product", "overall", "temperature", "memory", "driver",
             "driver_version", "active_engine", "metrics">>)
(* A GPU of a capable backend tells its engines, another its memory         *)
(* controller and codecs, in labels of the same names.                      *)
GpuEngines(i) ==
    IF i.capable
    THEN As("engine_1", "render") @@ As("engine_2", "compute")
         @@ As("engine_3", "video") @@ As("engine_4", "video enhance")
         @@ As("engine_5", "copy") @@ As("busiest_engine", "active_engine")
    ELSE As("engine_1", "memory busy") @@ As("engine_2", "encoder")
         @@ As("engine_3", "decoder")
update_gpu_page(i) ==
    [label \in {"utilisation", "temperature", "driver", "driver_version",
                "metrics"} |->
        lsm_gpu_performance_view[
            [utilisation |-> 2, temperature |-> 3, driver |-> 5,
             driver_version |-> 6, metrics |-> 8][label]]]
    @@ Needing({"memory_usage", "memory_used", "memory_total"}, {"memory"})
    @@ Own({"core_clock", "memory_clock", "power", "cooling", "pci_location",
            "active_engine"})
    @@ GpuEngines(i)
(* attach_gpu_detail: each label with its caption.                          *)
GpuDetails(i) ==
    Beside({"memory_used", "memory_total", "driver", "driver_version",
            "pci_location", "metrics", "memory_clock", "power", "cooling",
            "active_engine"})
    @@ (IF i.capable
        THEN "engine_1" :> "render" @@ "engine_2" :> "compute"
             @@ "engine_3" :> "video" @@ "engine_4" :> "video enhance"
             @@ "engine_5" :> "copy" @@ "busiest_engine" :> "active_engine"
        ELSE "engine_1" :> "memory busy" @@ "engine_2" :> "encoder"
             @@ "engine_3" :> "decoder")
performance_build_gpu_page(i) ==
    "utilisation" :> "overall"
    @@ Beside({"memory_usage", "temperature", "core_clock"}) @@ GpuDetails(i)

(* update_peripheral_details and update_system_battery_details write the    *)
(* same labels, with captions of their own (set_battery_detail).            *)
update_peripheral_details ==
    As("manufacturer", "manufacturer") @@ As("detail_2", "device type")
    @@ As("detail_3", "connection") @@ As("detail_4", "address")
    @@ As("detail_5", "battery source") @@ As("detail_6", "paired")
    @@ As("detail_7", "trusted") @@ As("detail_8", "services")
    @@ As("detail_9", "device id") @@ Free({"power_source"})
    @@ Own({"temperature"})
update_system_battery_details ==
    As("manufacturer", "manufacturer") @@ As("detail_2", "health")
    @@ As("detail_3", "technology") @@ As("detail_4", "energy now")
    @@ As("detail_5", "energy full") @@ As("detail_6", "energy design")
    @@ As("detail_7", "voltage") @@ As("detail_8", "current")
    @@ As("detail_9", "cycles") @@ Own({"power_source", "temperature"})
update_battery_page(i) ==
    Own({"charge", "status", "remaining", "power"})
    @@ (IF i.peripheral THEN update_peripheral_details
        ELSE update_system_battery_details)
performance_build_battery_page ==
    Beside({"charge", "status", "remaining", "power"})
    @@ Matched(<<"manufacturer", "detail_2", "detail_3", "detail_4", "detail_5",
             "detail_6", "detail_7", "detail_8", "detail_9", "power_source",
             "temperature">>,
           <<"manufacturer", "health", "technology", "energy now",
             "energy full", "energy design", "voltage", "current", "cycles",
             "power_source", "temperature">>)

update_npu_page ==
    As("activity", "utilisation")
    @@ Needing({"memory_used_live", "memory_used"}, {"memory_used"})
    @@ Own({"temperature", "clock", "memory_total", "driver", "power", "device"})
    @@ Free({"metrics"})
performance_build_npu_page ==
    "activity" :> "utilisation"
    @@ Beside({"memory_used_live", "temperature", "clock"})
    @@ Matched(<<"memory_used", "memory_total", "driver", "metrics", "power",
             "device">>,
           <<"memory_used", "memory_total", "driver", "metrics", "power",
             "device">>)

Labels(k, i) ==
    CASE k = "cpu" -> update_cpu_page
      [] k = "memory" -> update_memory_page
      [] k = "disk" -> update_disk_page
      [] k = "network" -> update_network_page(i)
      [] k = "bluetooth" -> update_bluetooth_page
      [] k = "gpu" -> update_gpu_page(i)
      [] k = "battery" -> update_battery_page(i)
      [] k = "npu" -> update_npu_page
Captions(k, i) ==
    CASE k = "cpu" -> performance_build_cpu_page
      [] k = "memory" -> performance_build_memory_page
      [] k = "disk" -> performance_build_disk_page
      [] k = "network" -> performance_build_network_page(i)
      [] k = "bluetooth" -> performance_build_bluetooth_page
      [] k = "gpu" -> performance_build_gpu_page(i)
      [] k = "battery" -> performance_build_battery_page
      [] k = "npu" -> performance_build_npu_page

(* What a device may have for a sample, at most.                            *)
Data(k, i) ==
    UNION {Labels(k, i)[label].needs : label \in DOMAIN Labels(k, i)}

NA == [of |-> "N/A", at |-> 0]
Text(i, row) ==
    IF row.needs \subseteq i.has THEN [of |-> row.of, at |-> i.sample] ELSE NA

-----------------------------------------------------------------------------
(* Temperatures.                                                            *)

valid_limit(celsius) == celsius \in 50 .. 150

lsm_cpu_thermal_policy(i) ==
    LET sensor_warning == valid_limit(i.warning)
        sensor_critical == valid_limit(i.critical)
        fault == IF sensor_critical THEN i.critical
                 ELSE IF sensor_warning
                      THEN (IF i.warning + 10 > 150 THEN 150 ELSE i.warning + 10)
                 ELSE IF valid_limit(i.table) THEN i.table ELSE 95
        wished == IF sensor_warning THEN i.warning
                  ELSE IF sensor_critical \/ valid_limit(i.table)
                       THEN fault - 10
                  ELSE 80
        warning == IF wished < 50 THEN 50 ELSE wished
    IN  [warning |-> IF warning >= fault THEN fault - 5 ELSE warning,
         fault |-> fault]

(* performance_present_set_temperature_state: the classes of the label are  *)
(* removed and set again.                                                   *)
performance_present_set_temperature_state(i, policy) ==
    IF "temperature" \notin i.has THEN "plain"
    ELSE IF i.temperature >= policy.fault THEN "fault"
    ELSE IF i.temperature >= policy.warning THEN "warning" ELSE "plain"
TemperatureState(k, i) ==
    CASE k = "cpu" ->
            performance_present_set_temperature_state(i, lsm_cpu_thermal_policy(i))
      [] k = "gpu" ->
            performance_present_set_temperature_state(
                i, [warning |-> 80, fault |-> 95])
      [] OTHER -> "plain"

(* The two parts of the memory bar; the rest of its width is free.          *)
performance_draw_memory_composition(memory) ==
    LET used == IF memory.total > 0 /\ memory.used < memory.total
                THEN memory.used ELSE memory.total
        raw == IF memory.available > memory.free
               THEN memory.available - memory.free ELSE 0
    IN  [used |-> used,
         reclaimable |->
            IF memory.total > used
            THEN (IF raw < memory.total - used THEN raw ELSE memory.total - used)
            ELSE 0]

-----------------------------------------------------------------------------
(* The graphs of a GPU page.                                                *)

detailed_metric_order ==
    <<"render", "compute", "video", "video enhance", "copy", "encoder",
      "decoder", "memory busy">>
GpuMetrics == Range(detailed_metric_order) \cup {"overall"}

lsm_gpu_metric_available(i, metric) == metric \in i.has
lsm_gpu_has_engine_metrics(i) ==
    \E metric \in Range(detailed_metric_order) : lsm_gpu_metric_available(i, metric)
lsm_gpu_selectable_metrics(i) ==
    SelectSeq(detailed_metric_order \o <<"overall">>,
              LAMBDA metric : lsm_gpu_metric_available(i, metric))
lsm_gpu_default_metrics(i) ==
    LET found == lsm_gpu_selectable_metrics(i)
        fallback == IF found = <<>> THEN "overall" ELSE Head(found)
    IN  [n \in 1 .. SlotCount |->
            IF n <= Len(found) THEN found[n] ELSE fallback]
Default(i, n) == lsm_gpu_default_metrics(i)[IF n = 0 THEN 1 ELSE n]

(* Another metric empties the graph.                                        *)
WithMetric(slot, metric) ==
    IF slot.metric = metric THEN slot
    ELSE [slot EXCEPT !.metric = metric, !.graph = {}]

lsm_performance_populate_gpu_metric_selector(slot, i, preferred) ==
    LET found == lsm_gpu_selectable_metrics(i)
        choices == IF found = <<>> THEN <<"overall">> ELSE found
        selected == IF preferred \in ToSet(choices) THEN preferred ELSE Head(choices)
    IN  WithMetric([slot EXCEPT !.choices = choices], selected)

(* A slot's metric is zero, "overall", in a page just allocated.            *)
NewSlot == [metric |-> "overall", choices |-> <<>>, graph |-> {}]
build_gpu_engine_graph(i, n) ==
    lsm_performance_populate_gpu_metric_selector(NewSlot, i, Default(i, n))

(* performance_record_device_page_sample: the default is plotted as long as *)
(* no metric was put in the selectors for good.                             *)
PushSlot(i, slot, n) ==
    [slot EXCEPT !.graph = @ \cup
        {[of |-> IF page.initialised THEN slot.metric ELSE Default(i, n),
          chosen |-> page.initialised]}]

-----------------------------------------------------------------------------
(* Construction: each label as "N/A", and its caption.                      *)

make_side_button(i) == [rail |-> NA, title |-> i.product]

performance_build_page(k, i) ==
    LET captions == Captions(k, i)
    IN  [caption |-> captions, text |-> [label \in DOMAIN captions |-> NA],
         capable |-> i.capable, rebound |-> FALSE, state |-> "plain",
         initialised |-> k = "gpu" /\ lsm_gpu_has_engine_metrics(i),
         multiple |-> k = "gpu", vendor |-> i.vendor,
         rows |-> 0, signature |-> 0]
        @@ make_side_button(i)

Device(k) ==
    {[sample |-> 0, has |-> {}, capable |-> capable, peripheral |-> FALSE,
      wireless |-> wireless, product |-> "none", vendor |-> "none",
      partitions |-> 1, level |-> "none", temperature |-> 0, warning |-> 0,
      critical |-> 0, table |-> 0,
      memory |-> [total |-> 0, used |-> 0, available |-> 0, free |-> 0]] :
        capable \in (IF k = "gpu" THEN BOOLEAN ELSE {FALSE}),
        wireless \in (IF k = "network" THEN BOOLEAN ELSE {FALSE})}

Init ==
    /\ kind \in Kinds /\ info \in Device(kind)
    /\ page = performance_build_page(kind, info) @@ [front |-> TRUE]
    /\ slots = [n \in 0 .. SlotCount |-> build_gpu_engine_graph(info, n)]

TypeOK ==
    /\ DOMAIN page.text = DOMAIN page.caption /\ info.sample <= MaxSamples
    /\ \A n \in DOMAIN slots : slots[n].metric \in GpuMetrics

-----------------------------------------------------------------------------
(* Presentation.                                                            *)

(* format_battery_charge, for the page: a level that is "Unknown" is none.  *)
format_battery_charge(i) ==
    IF "charge" \in i.has \/ i.level = "coarse"
    THEN [of |-> "charge", at |-> i.sample] ELSE NA

(* lsm_performance_present_rail: the battery's level as it is; the others'  *)
(* value is the page's own.                                                 *)
RailDatum ==
    [cpu |-> "utilisation", memory |-> "in_use", disk |-> "active_time",
     network |-> "receive_rate", bluetooth |-> "receive_rate",
     gpu |-> "utilisation", npu |-> "activity"]
lsm_performance_present_rail(k, i) ==
    IF k = "battery"
    THEN IF "charge" \in i.has \/ i.level # "none"
         THEN [of |-> "charge", at |-> i.sample] ELSE NA
    ELSE Text(i, Labels(k, i)[RailDatum[k]])

(* The names of an adapter change only when another is reported; an empty   *)
(* vendor leaves the old one.                                               *)
PresentNames(p, i) ==
    LET product == IF i.product # "none" THEN i.product ELSE i.vendor
    IN  [p EXCEPT !.title = product,
                  !.vendor = IF i.vendor # "none" THEN i.vendor ELSE @]

(* The partitions are listed again when their signature changed.            *)
PresentPartitions(p, i) ==
    IF p.signature = i.partitions THEN p
    ELSE [p EXCEPT !.rows = i.partitions, !.signature = i.partitions]

(* Mutant: a label whose datum is not there keeps what it showed.           *)
Mut_PresentLabels(p, k, i) ==
    LET rows == Labels(k, i)
    IN  [p EXCEPT !.text = [label \in DOMAIN p.text |->
            IF label \in DOMAIN rows /\ rows[label].needs \subseteq i.has
            THEN Text(i, rows[label]) ELSE p.text[label]]]

(* update_*_page: every label of the view that the page was built with; a   *)
(* battery page's captions too.                                             *)
PresentLabels(p, k, i) ==
    LET rows == Labels(k, i)
        both == DOMAIN p.text \cap DOMAIN rows
        New(label) ==
            IF k = "battery" /\ label = "charge" THEN format_battery_charge(i)
            ELSE Text(i, rows[label])
    IN  [p EXCEPT
            !.text = [label \in DOMAIN p.text |->
                         IF label \in both THEN New(label) ELSE p.text[label]],
            !.caption = [label \in DOMAIN p.text |->
                            IF k = "battery" /\ label \in both THEN rows[label].of
                            ELSE p.caption[label]],
            !.state = TemperatureState(k, i)]

(* update_gpu_page: the first sample with engines puts the defaults in the  *)
(* selectors.                                                               *)
DefaultsDue(p, i) ==
    kind = "gpu" /\ ~p.initialised /\ lsm_gpu_has_engine_metrics(i)

lsm_performance_present_page(p, i) ==
    LET labelled == PresentLabels(p, kind, i)
        named == IF kind \in {"network", "gpu"} THEN PresentNames(labelled, i)
                 ELSE labelled
        listed == IF kind = "disk" THEN PresentPartitions(named, i) ELSE named
    IN  [listed EXCEPT
            !.rail = IF kind = "battery" THEN labelled.text["charge"]
                     ELSE lsm_performance_present_rail(kind, i),
            !.initialised = @ \/ DefaultsDue(p, i)]

(* lsm_performance_refresh with a new sample i of the device: the graphs,   *)
(* then the page if it is in front, and otherwise its button.               *)
Refresh(i) ==
    LET pushed == [n \in DOMAIN slots |-> PushSlot(i, slots[n], n)]
    IN  /\ info' = i
        /\ page' = [(IF page.front THEN lsm_performance_present_page(page, i)
                     ELSE [page EXCEPT
                              !.rail = lsm_performance_present_rail(kind, i)])
                    EXCEPT !.rebound = @ \/ i.capable # page.capable]
        /\ slots' = IF kind # "gpu" THEN slots
                    ELSE IF page.front /\ DefaultsDue(page, i)
                    THEN [n \in DOMAIN slots |->
                             lsm_performance_populate_gpu_metric_selector(
                                 pushed[n], i, Default(i, n))]
                    ELSE pushed
        /\ UNCHANGED kind

(* What may change of a device from one sample to the next: its data, all   *)
(* but one of them or none, or what else the kind's presenter looks at.  A  *)
(* GPU bound to another driver is the same device, and its page is not      *)
(* built again (page.rebound remembers it).                                 *)
Losses(i) ==
    LET all == Data(kind, i)
        kept == IF kind = "gpu" THEN {} ELSE {all \ {datum} : datum \in all}
    IN  {[i EXCEPT !.has = has] : has \in {{}, all \ GpuMetrics} \cup kept}
Changes(i) ==
    LET all == Data(kind, i)
    IN  CASE kind = "cpu" ->
                {[i EXCEPT !.temperature = t, !.warning = w, !.critical = c,
                           !.table = m, !.has = all] :
                    t \in Temperatures, w \in Limits, c \in Limits, m \in {0, 95}}
          [] kind = "gpu" ->
                {[i EXCEPT !.capable = c, !.has = (all \ GpuMetrics) \cup some] :
                    c \in BOOLEAN, some \in SUBSET Engines}
          [] kind = "memory" ->
                {[i EXCEPT !.memory = m] :
                    m \in [{"total", "used", "available", "free"} -> 0 .. 2]}
          [] kind = "disk" -> {[i EXCEPT !.partitions = n] : n \in 1 .. 2}
          [] kind = "network" ->
                {[i EXCEPT !.product = p, !.vendor = v] :
                    p \in {"none", "x"}, v \in {"none", "y"}}
          [] kind = "battery" ->
                {[i EXCEPT !.peripheral = p, !.level = l, !.has = @ \ {"charge"}] :
                    p \in BOOLEAN, l \in {"none", "Unknown", "coarse"}}
          [] OTHER -> {i}

SamplePresented ==
    /\ info.sample < MaxSamples
    /\ \E i \in Losses(info) \cup Changes(info) :
          Refresh([i EXCEPT !.sample = @ + 1])

(* Another page is chosen, or this one again; nothing is presented.         *)
switch_page ==
    /\ page' = [page EXCEPT !.front = ~@]
    /\ UNCHANGED <<kind, info, slots>>

(* performance_set_cpu_graph_mode: the overall graph, or the processors'.   *)
cpu_graph_mode_activate ==
    /\ kind = "cpu" /\ page.front
    /\ page' = [page EXCEPT !.multiple = ~@]
    /\ UNCHANGED <<kind, info, slots>>

(* The selectors are shown once there are engines to choose from.           *)
on_gpu_graph_metric_changed(n) ==
    /\ kind = "gpu" /\ page.front /\ page.initialised
    /\ \E metric \in ToSet(slots[n].choices) :
          slots' = [slots EXCEPT ![n] = WithMetric(@, metric)]
    /\ UNCHANGED <<kind, info, page>>

(* gpu_graph_mode_activate: one graph or several.                           *)
set_gpu_graph_mode ==
    /\ kind = "gpu" /\ page.front /\ lsm_gpu_has_engine_metrics(info)
    /\ page' = [page EXCEPT !.multiple = ~@]
    /\ UNCHANGED <<kind, info, slots>>

Next ==
    \/ SamplePresented \/ switch_page
    \/ set_gpu_graph_mode \/ cpu_graph_mode_activate
    \/ \E n \in 0 .. SlotCount : on_gpu_graph_metric_changed(n)

Spec == Init /\ [][Next]_vars

-----------------------------------------------------------------------------
(* However the device's data came and went, what a page shows is of one     *)
(* sample: nothing is left of an earlier one, or of a datum that is gone,   *)
(* and no label that was built stays unwritten;                             *)
(* the partitions, names and colour too are those of the sample presented.  *)
(* (A vendor reported empty is the exception the code makes.)               *)
Presented == {page.text[label].at : label \in DOMAIN page.text} \ {0}
PageOfOneSample ==
    LET rows == Labels(kind, info)
        current == info.sample \in Presented
    IN  ~page.rebound =>
        /\ Cardinality(Presented) <= 1
        /\ current =>
              /\ DOMAIN page.text \subseteq DOMAIN rows
              /\ \A label \in DOMAIN page.text :
                    (page.text[label] = NA) =
                        ~(\/ rows[label].needs \subseteq info.has
                          \/ label = "charge" /\ info.level = "coarse")
              /\ page.state = TemperatureState(kind, info)
              /\ kind = "disk" => page.rows = info.partitions

(* The text beside a caption is of the datum it names: also on the page of  *)
(* a battery that turned out to be a peripheral's, and on that of a GPU,    *)
(* unless it was bound to a driver of the other class since the page was    *)
(* built.                                                                   *)
CaptionsTrue ==
    ~page.rebound =>
        \A label \in DOMAIN page.text :
            page.text[label].of \in {"N/A", page.caption[label]}

(* The page's button says the same whether the page was in front or not,    *)
(* but for a battery's level of "Unknown".                                  *)
RailAgrees ==
    info.sample > 0 /\ (kind = "battery" => info.level # "Unknown") =>
        page.rail = lsm_performance_present_rail(kind, info)

(* What was plotted since the metrics were chosen is of the metric the      *)
(* selector names: a choice never joins two metrics in one line.            *)
SlotsFaithful ==
    \A n \in DOMAIN slots :
        /\ slots[n].metric \in ToSet(slots[n].choices)
        /\ \A point \in slots[n].graph :
              point.chosen => point.of = slots[n].metric

(* A fault is never reported before a warning, whatever limits a sensor     *)
(* gives: both are there, in order, and not below what is plausible.        *)
ThermalOrdered ==
    LET policy == lsm_cpu_thermal_policy(info)
    IN  policy.warning < policy.fault /\ policy.fault \in 50 .. 150
        /\ policy.warning >= 45

(* The parts of the memory bar never reach past its end, also where the     *)
(* kernel's figures were read while they changed and do not add up.         *)
CompositionFits ==
    LET bar == performance_draw_memory_composition(info.memory)
    IN  bar.used + bar.reclaimable <= info.memory.total
=============================================================================
