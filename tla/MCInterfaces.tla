----------------------------- MODULE MCInterfaces -----------------------------
(***************************************************************************)
(* Where the program meets the machine and its user: the readers of kernel *)
(* and hardware tables, the inventories of the system's services, the      *)
(* pages of both platforms, the settings kept between sessions, what is    *)
(* exported and how it is installed.                                       *)
(* They share no state, so each is explored by itself in studies of its    *)
(* own; a study is chosen at the start and kept.  What the machine, a file *)
(* or a service may answer is given here, chosen so that every defect the  *)
(* code distinguishes is met.                                              *)
(***************************************************************************)
EXTENDS Integers, Sequences, FiniteSets, TLC

CONSTANTS
    Studies,
    Kinds, Engines, SlotCount, Temperatures,                    \* DevicePages
    TopCount, Capacity, MaxGeneration,                          \* OverviewPage
    Profiles, Versions,                                         \* Installer
    Ids, Units,                                                 \* SystemInventories
    Widths, WorkArea, MaxEvents,                                \* ShellSettings
    Rows, Columns, MaxScroll, HistoryCapacity, Readings,        \* WindowsPages
    HistoryLength, Installed, Callers, CacheTicks, ColumnWidths,\* Exports
    MaxNets, Narrow, MaxMounts, MaxPartitions, PerDisk,
    CacheSize, MaxSteps,                                        \* KernelReaders
    MaxModules, Wireless, Interval, MaxTime, Paths,             \* HardwareReaders
    MaxAdapters, MaxDevices, MaxBatteries, MaxEngines,
    MaxRegions, MaxClients, MaxCounters, EnergyRange, MaxNpus,  \* DeviceReaders
    MaxChanges, MaxSamples

VARIABLES
    study,
    kind, info, device_page, slots,
    overview_monitor, processes, history, latest, overview_page, opened,
    request, source, at, directories, build, training, staged, package,
    installed,
    startup, services, users, mounts, catalog,
    shell, wm, preferences_file, unsaved, dark, changes,
    app, gdi, theme, ui, hist,
    export, report, plot, layout, times, help,
    links, parts, names,
    dmi, cpu, wifi, nets, psi, mem, search,
    bt, supply, drm, gpu, accel

devicePageVars == <<kind, info, device_page, slots>>
overviewVars == <<overview_monitor, processes, history, latest, overview_page,
                  opened>>
installerVars == <<request, source, at, directories, build, training, staged,
                   package, installed>>
inventoryVars == <<startup, services, users, mounts, catalog>>
shellVars == <<shell, wm, preferences_file, unsaved, dark, changes>>
windowsVars == <<app, gdi, theme, ui, hist>>
exportVars == <<export, report, plot, layout, times, help>>
kernelVars == <<links, parts, names>>
hardwareVars == <<dmi, cpu, wifi, nets, psi, mem, search>>
readerVars == <<bt, supply, drm, gpu, accel>>

(* The studies of a module that has several.                                *)
InventoryStudies == {"startup", "services", "users", "filesystems", "catalog"}
WindowsStudies == {"life", "theme", "mouse", "hover", "graph"}
ExportStudies == {"export", "report", "plot", "layout", "times", "help"}
KernelStudies == {"links", "partitions", "names"}
HardwareStudies == {"modules", "caches", "wifi", "addresses", "pressure",
                    "memory", "search"}
ReaderStudies == {"bluez", "supply", "drm", "gpu", "npus"}

-----------------------------------------------------------------------------
(* Pages.                                                                   *)

SensorLimits == {0, 50, 58, 150}

DevicePage == INSTANCE DevicePages WITH
    Limits <- SensorLimits, page <- device_page

(* Machines of an Overview page: GPUs that come, go and change places, with *)
(* and without use, temperature and limits, and metrics that are missing.   *)
Gpu(id, use, temperature, warning, critical) ==
    [id |-> id, usage |-> use, temperature |-> temperature,
     warning |-> warning, critical |-> critical]
Net(id, rate) == [id |-> id, rate |-> rate]
Sensor(temperature) ==
    [temperature |-> temperature,
     policy |-> IF temperature < 0 THEN <<>> ELSE <<80, 95>>]
Machine(sensor, gpus, adapters, disks, missing) ==
    [cpu |-> sensor, gpus |-> gpus, nets |-> adapters, disks |-> disks,
     missing |-> missing]
OverviewMachines ==
    {Machine(Sensor(-1), <<>>, <<>>, <<>>, {"cpu"}),
     Machine(Sensor(80), <<Gpu("a", 40, -1, -1, -1), Gpu("b", 40, 80, -1, 90)>>,
             <<Net("e", 3), Net("w", 5)>>, <<-1, 50, 101>>, {}),
     Machine(Sensor(60), <<Gpu("b", -1, 90, 75, -1)>>,
             <<Net("w", 5), Net("e", -1)>>, <<-1>>, {"cpu pressure"}),
     Machine(Sensor(60), <<>>, <<Net("w", 5), Net("e", 9)>>, <<7>>, {"split"}),
     Machine(Sensor(-1), <<Gpu("b", 120, 70, -1, -1), Gpu("a", -1, 95, -1, -1)>>,
             <<Net("e", -1)>>, <<0, 0>>, {})}
Use(pid, percent) == [pid |-> pid, cpu |-> percent]
OverviewTables ==
    {<<Use(1, 0), Use(2, 3), Use(3, 3)>>,
     <<Use(4, -1), Use(3, 0), Use(2, 5), Use(1, 0)>>}

OverviewFront == INSTANCE OverviewPage WITH
    Machines <- OverviewMachines, ProcessTables <- OverviewTables,
    monitor <- overview_monitor, page <- overview_page

(* A machine whose rail fits and one whose rail scrolls, in a window that   *)
(* is too small and in one that is not.                                     *)
RailMachines == {[disk |-> 1, network |-> 0, gpu |-> 0],
                 [disk |-> 2, network |-> 1, gpu |-> 1]}
WindowSizes == {<<380, 560>>, <<760, 720>>}
Metrics == [compact |-> 6, control |-> 8, section |-> 10, padding |-> 12]

WindowsFront == INSTANCE WindowsPages WITH
    Studies <- WindowsStudies,
    Machines <- RailMachines, Sizes <- WindowSizes, Design <- Metrics,
    MaxSamples <- MaxSamples + 2

-----------------------------------------------------------------------------
(* Inventories.  A user's file that hides an entry, one of the system that  *)
(* this desktop may not run; two sessions of one account; a mount whose     *)
(* figures make no sense, one without figures and one that is not readable. *)
Entry(hidden, allows, text) ==
    [kind |-> "application", hidden |-> hidden, gnome |-> TRUE,
     allows |-> allows, text |-> text]
NoEntry == [Entry(FALSE, TRUE, 0) EXCEPT !.kind = "absent"]
Autostart ==
    {<<[a |-> NoEntry, b |-> Entry(TRUE, TRUE, 1)],
       [a |-> Entry(FALSE, TRUE, 2), b |-> Entry(FALSE, FALSE, 2)]>>}
SessionNames == {"s1", "s2", "s3"}
Accounts == [s1 |-> "u1", s2 |-> "u1", s3 |-> "u2"]
Figures(answers, total, free, available) ==
    [answers |-> answers, total |-> total, free |-> free,
     available |-> available]
Mounted(defects, desktop, figures) ==
    [defects |-> defects, desktop |-> desktop, stats |-> figures]
MountTable ==
    [root |-> Mounted({}, TRUE, {Figures(TRUE, 4, 1, 1), Figures(TRUE, 4, 5, 5)}),
     proc |-> Mounted({}, FALSE, {Figures(FALSE, 0, 0, 0)}),
     odd |-> Mounted({"bad escape"}, TRUE, {Figures(TRUE, 0, 0, 0)})]
Launcher(file, hidden, exec, aliases) ==
    [kind |-> file, hidden |-> hidden, exec |-> exec, names |-> aliases]
NoLauncher == Launcher("absent", FALSE, <<>>, <<>>)
Flatpak == <<<<"flatpak">>, <<"run">>, <<"--option">>, <<"org.app">>>>
Env == <<<<"env">>, <<"A=b">>, <<"tool">>, <<"%U">>>>
Launchers ==
    {<<[a |-> x, b |-> y],
       [a |-> Launcher("application", FALSE, Flatpak, <<<<"app">>>>),
        b |-> Launcher("application", FALSE, Env, <<<<"launcher">>>>)]>> :
       x \in {NoLauncher, Launcher("broken", FALSE, <<>>, <<>>),
              Launcher("application", TRUE, Flatpak, <<>>),
              Launcher("application", FALSE, Env, <<<<"org.app">>, <<"tool">>>>)},
       y \in {NoLauncher, Launcher("application", FALSE, Flatpak, <<<<"b">>>>),
              Launcher("application", FALSE, <<<<"%U">>>>, <<>>)}}

Inventory == INSTANCE SystemInventories WITH
    Studies <- InventoryStudies,
    AutostartFiles <- Autostart, Sessions <- SessionNames,
    AccountOf <- Accounts, Mounts <- MountTable, ApplicationFiles <- Launchers,
    MaxChanges <- MaxChanges - 1

-----------------------------------------------------------------------------
(* Settings: files that are missing, edited by hand, or name no setting.    *)
Line(key, value) == [key |-> key, value |-> value]
PreferenceFiles ==
    {[ok |-> FALSE, lines |-> <<>>],
     [ok |-> TRUE, lines |-> <<Line("points", 30), Line("fs", 100000),
        Line("interval", 750), Line("interval", 500), Line("unknown", 1),
        Line("compact", 1), Line("maximised", 1)>>],
     [ok |-> TRUE, lines |-> <<Line("total_bits", 1), Line("width", 4000),
        Line("theme", 2), Line("ontop", 1), Line("ontop", 7),
        Line("maximised", 1), Line("tab", 1)>>]}

DeviceKinds == {{"disk", "bluetooth"}, {"network"}}

Shell == INSTANCE ShellSettings WITH
    Files <- PreferenceFiles, Hardware <- DeviceKinds, file <- preferences_file

-----------------------------------------------------------------------------
(* Exports: names that a spreadsheet would take for formulas, recordings cut*)
(* and joined at line ends, with dates there are not, layouts of every      *)
(* version, clocks that are not installed.                                  *)
Process(pid, instance, app_name, text, available) ==
    [pid |-> pid, instance |-> instance, app |-> app_name, text |-> text,
     available |-> available, reading |-> 7]
ProcessLists ==
    {<<Process(2, 1, "web", <<"letter", "tab", "sign">>, TRUE),
       Process(3, 2, "web", <<"blank", "sign">>, FALSE)>>,
     <<Process(2, 1, "web", <<"letter", "newline">>, TRUE),
       Process(3, 3, "mail", <<"sign", "letter">>, TRUE),
       Process(4, 4, "web", <<"tab", "sign">>, FALSE)>>,
     <<Process(2, 1, "web", <<"letter">>, TRUE),
       Process(3, 3, "mail", <<"letter">>, TRUE),
       Process(4, 4, "mail", <<"sign">>, FALSE)>>}
Listed(name, serial, known) ==
    [name |-> name, serial |-> serial, fields |-> {"use", "temp"},
     known |-> known]
Reports ==
    {[CPU |-> <<Listed("cpu", "s1", {"use"})>>,
      Memory |-> <<Listed("mem", "s1", {"use", "temp"})>>, Modules |-> <<>>,
      Storage |-> <<Listed("sda", "s1", {})>>,
      Network |-> <<Listed("eth0", "s1", {"use"}), Listed("wlan0", "s1", {})>>,
      Bluetooth |-> <<>>, Batteries |-> <<>>,
      Graphics |-> <<Listed("gpu", "s1", {})>>],
     [CPU |-> <<Listed("cpu", "s2", {"use"})>>,
      Memory |-> <<Listed("mem", "s2", {"use"})>>,
      Modules |-> <<Listed("dimm", "s2", {"use"})>>, Storage |-> <<>>,
      Network |-> <<Listed("wlan0", "s2", {"use"})>>,
      Bluetooth |-> <<Listed("hci0", "s2", {})>>,
      Batteries |-> <<Listed("bat", "s2", {"temp"})>>, Graphics |-> <<>>]}
Header == [newline |-> TRUE, header |-> TRUE, fields |-> 8,
           date |-> <<2024, 2, 29>>, pid |-> 1, cpu |-> 0, memory |-> 0]
Row(percent) == [Header EXCEPT !.header = FALSE, !.cpu = percent]
Cut(row) == [row EXCEPT !.newline = FALSE]
Dated(row, date) == [row EXCEPT !.date = date]
PlotFiles ==
    {<<>>, <<Header>>, <<Row(1)>>, <<Cut(Header), Row(1)>>,
     <<Header, Row(1), Dated(Row(2), <<1900, 2, 29>>),
       Dated(Row(3), <<2000, 2, 29>>), Cut(Row(4)), Row(5), Row(6)>>,
     <<Header, Cut(Row(1)), Cut(Row(2)), Row(3), Row(-1), Row(5), Row(6), Row(7)>>,
     <<Header, Dated(Row(1), <<2023, 4, 31>>), [Row(2) EXCEPT !.fields = 9],
       [Row(2) EXCEPT !.pid = 0], [Row(2) EXCEPT !.memory = 101], Header,
       Dated(Row(4), <<2023, 12, 31>>)>>}
RowsAdded == {Row(90), Cut(Row(91))}
Column(minimum, visible) == [minimum |-> minimum, visible |-> visible]
DetailsColumns == <<Column(80, TRUE), Column(50, FALSE)>>
Layout(version, visible, width, order, sort) ==
    [version |-> version, tree |-> FALSE, scope |-> 1, heatmap |-> FALSE,
     visible |-> visible, width |-> width, order |-> order, sort |-> sort,
     descending |-> TRUE]
Layouts ==
    {[version |-> -1],
     Layout(5, <<FALSE, TRUE>>, <<10, 9000>>, <<2, 1>>, 9),
     Layout(5, <<TRUE, FALSE>>, <<100, 300>>, <<2, 2>>, 2),
     [Layout(1, <<TRUE, FALSE>>, <<100, 90>>, <<2, 1>>, 2)
         EXCEPT !.scope = 7]}
Temporal(clock, calendar) ==
    [clock |-> clock, calendar |-> calendar, seconds |-> TRUE, found |-> TRUE]
TemporalPolicies ==
    {Temporal("standard", "gregorian"), Temporal("decimal", "hebrew"),
     Temporal("sidereal", "hebrew")}
HelpTopics ==
    [cpu |-> {"cpu", "use"}, disk |-> {"disk", "use"}, gpu |-> {"gpu"}]

Export == INSTANCE Exports WITH
    Studies <- ExportStudies,
    Tables <- ProcessLists, Samples <- Reports, Recordings <- PlotFiles,
    Appended <- RowsAdded, LayoutFiles <- Layouts, Columns <- DetailsColumns,
    Widths <- ColumnWidths, Policies <- TemporalPolicies, Topics <- HelpTopics,
    MaxTime <- MaxTime - 1

Installation == INSTANCE Installer

-----------------------------------------------------------------------------
(* Kernel tables: adapters that share a name or an index, without a MAC or  *)
(* with narrow counters only; disks with partitions and a mapped volume;    *)
(* devices under every bus, known to the registry, the override or nobody.  *)
Adapter(number, name, index, mac, bytes, statistics) ==
    [adapter |-> number, name |-> name, index |-> index, mac |-> mac,
     bytes |-> bytes, stats |-> statistics]
Interfaces ==
    {Adapter(1, "lo", 1, "00", 5, <<"STATS">>),
     Adapter(2, "a", 2, "m1", 3, <<"STATS64", "STATS">>),
     Adapter(3, "a", 2, "m2", 9, <<"STATS64", "STATS">>),
     Adapter(4, "b", 3, "", 6, <<"STATS">>)}
Block(parent, partition, class, number, metadata) ==
    [parent |-> parent, partition |-> partition, class |-> class,
     number |-> number, file |-> metadata]
BlockDevices ==
    [sda |-> Block("sda", FALSE, "disk", 80, <<>>),
     sda1 |-> Block("sda", TRUE, "disk", 81,
                    <<<<"fs", "vfat">>, <<"version", "FAT32">>>>),
     sda2 |-> Block("sda", TRUE, "disk", 82,
                    <<<<"role", "efi">>, <<"fs", "long">>>>),
     sdb |-> Block("sdb", FALSE, "disk", 90, <<<<"fs", "ext4">>>>),
     dm0 |-> Block("dm0", FALSE, "dm", 99, <<>>)]
Filesystem(number, target, type) ==
    [number |-> number, target |-> target, filesystem |-> type]
FileTable ==
    {Filesystem(81, "/boot", "vfat"), Filesystem(82, "/", "ext4"),
     Filesystem(82, "/home", "ext4"), Filesystem(90, "/data", "xfs"),
     Filesystem(99, "/lv", "ext4"), Filesystem(0, "/proc", "proc")}
Named(vendor, product) == [vendor |-> vendor, product |-> product]
Above(bus, id, driver, product, vendor) ==
    [bus |-> bus, id |-> id, driver |-> driver, product |-> product,
     vendor |-> vendor]
ClassDevices ==
    [g1 |-> <<Above("drm", "", "", "", ""), Above("pci", "1:1", "amdgpu", "", "")>>,
     g2 |-> <<Above("pci", "1:2", "x", "", "")>>,
     g3 |-> <<Above("pci", "1:3", "x", "Own name", "")>>,
     vm |-> <<Above("vmbus", "1:1", "hv_netvsc", "", "")>>,
     usb |-> <<Above("net", "", "usbnet", "", ""),
               Above("usb", "1:1", "", "Dongle", "Maker")>>,
     plat |-> <<Above("platform", "", "virtio", "", "")>>,
     bad |-> <<Above("pci", "malformed", "x", "", "")>>]

BuiltIn == ("1:1" :> Named("Acme", "Card")) @@ ("1:2" :> Named("Acme", ""))
Overrides == [mine |-> ("1:1" :> Named("", "MyCard"))
                       @@ ("1:3" :> Named("Own", "Thing"))]

Kernel == INSTANCE KernelReaders WITH
    Studies <- KernelStudies,
    Adapters <- Interfaces, Blocks <- BlockDevices, Filesystems <- FileTable,
    Registry <- BuiltIn, Registries <- Overrides, Devices <- ClassDevices

-----------------------------------------------------------------------------
(* Hardware tables: SMBIOS structures of every age, full and free, broken   *)
(* ones and the end mark among them, in megabytes and kilobytes.            *)
Structure(type, length, size, speed, whole, bytes, mhz) ==
    [type |-> type, length |-> length, size |-> size, extended |-> 0,
     rated |-> speed, configured |-> 0, xrated |-> 0, xconfigured |-> 0,
     form |-> "DIMM", whole |-> whole, locator |-> 2,
     strings |-> <<"Bank", IF length < 92 THEN "invalid" ELSE "Slot">>,
     truth |-> [size |-> bytes, speed |-> mhz,
                locator |-> IF length < 92 THEN "N/A" ELSE "Slot"]]
Dimm == [Structure(17, 92, 16384, 3200, TRUE, 16384 * 1024, 2933)
            EXCEPT !.configured = 2933]
Large == [Structure(17, 92, 32767, 65535, TRUE, 65536 * 1024, 4800)
             EXCEPT !.extended = 65536, !.configured = 65535, !.xrated = 5600,
                    !.xconfigured = 4800, !.form = "Unknown"]
Small == [Structure(17, 23, 32768 + 512, 667, TRUE, 512, 667)
             EXCEPT !.form = "SODIMM"]
Ancient == Structure(17, 28, 32767, 800, TRUE, 0, 0)
Vacant == Structure(17, 92, 0, 0, TRUE, 0, 0)
Bios == Structure(0, 24, 0, 0, TRUE, 0, 0)
EndMark == Structure(127, 4, 0, 0, TRUE, 0, 0)
Broken == [Structure(17, 92, 8192, 1600, FALSE, 8192 * 1024, 1600)
              EXCEPT !.configured = 1600]
FirmwareTables ==
    UNION {[1 .. n -> {Dimm, Large, Small, Ancient, Vacant, Bios, EndMark, Broken}] :
             n \in 0 .. 3} \cup {<<Bios, Dimm, Small, Large, EndMark>>}

(* Two cores of two threads below one L3, of which some are allowed, three  *)
(* cores without threads, and a hybrid whose two L2 caches have one key.    *)
Cache(level, type, bytes, with) ==
    [level |-> level, type |-> type, bytes |-> bytes,
     sharers |-> Cardinality(with), with |-> with]
Logical(apic, smt, core, caches) ==
    [apic |-> apic, smt |-> smt, core |-> core, caches |-> caches]
Level1(with) ==
    {Cache(1, "data", 48, with), Cache(1, "instruction", 32, with)}
Threaded(direct, allowed) ==
    LET all == 0 .. 3
        Core(n) == {2 * (n \div 2), 2 * (n \div 2) + 1}
    IN  [direct |-> direct, allowed |-> allowed, online |-> all,
         cpus |-> [n \in all |->
             Logical(n, 1, n \div 2,
                     Level1(Core(n)) \cup {Cache(2, "unified", 1024, Core(n)),
                                           Cache(3, "unified", 8192, all)})]]
Plain(direct) ==
    LET all == 0 .. 2
    IN  [direct |-> direct, allowed |-> all, online |-> all,
         cpus |-> [n \in all |->
             Logical(n, 0, n, Level1({n}) \cup {Cache(2, "unified", 512, {n}),
                                               Cache(3, "unified", 4096, all)})]]
(* A core of two threads and a cluster of four cores, each with an L2.      *)
Hybrid(direct) ==
    LET all == 0 .. 5
        Sharing(n) == IF n < 2 THEN {0, 1} ELSE 2 .. 5
    IN  [direct |-> direct, allowed |-> all, online |-> all,
         cpus |-> [n \in all |->
             Logical(n + 2, IF n < 2 THEN 1 ELSE 0, IF n < 2 THEN 1 ELSE n + 2,
                     {Cache(2, "unified", 2048, Sharing(n))})]]
ProcessorKinds ==
    {Threaded(TRUE, 0 .. 3), Threaded(FALSE, 0 .. 3), Threaded(TRUE, {0, 2}),
     Plain(TRUE), Plain(FALSE), Hybrid(TRUE), Hybrid(FALSE)}

(* Answers of getifaddrs, pressure files with and without "full", repeated  *)
(* and malformed lines, and meminfo of old and new kernels.                 *)
At(name, family, address) ==
    [name |-> name, family |-> family, address |-> address]
Addresses ==
    {<<>>,
     <<At("w1", 4, "10.1"), At("w2", 4, "10.2"), At("w1", 4, "10.3"),
       At("w1", 6, "fe80")>>,
     <<At("w2", 6, "fd00"), At("w2", 6, "fe81")>>}
Pressure(which, tokens) == [kind |-> which, tokens |-> tokens, ended |-> TRUE]
Stalls == <<<<"avg10", "1">>, <<"avg60", "2">>, <<"avg300", "3">>, <<"total", "9">>>>
PressureFiles ==
    {<<Pressure("some", Stalls), Pressure("full", Stalls)>>,
     <<Pressure("some", Stalls)>>,
     <<Pressure("some", Stalls), Pressure("some", Stalls)>>,
     <<Pressure("full", Stalls)>>,
     <<Pressure("some", Append(Stalls, <<"new", "7">>)), Pressure("other", <<>>),
       Pressure("full", <<<<"avg10", "bad">>>>)>>}
MemoryFiles ==
    {[MemAvailable |-> 50, Cached |-> 20, SReclaimable |-> 5, Shmem |-> 8,
      SUnreclaim |-> 3, PageTables |-> 2, Committed_AS |-> 70,
      CommitLimit |-> 90],
     [MemAvailable |-> 40, Cached |-> 2, Shmem |-> 9, PageTables |-> 4],
     [MemAvailable |-> 30, SUnreclaim |-> 7], [Cached |-> 6]}

Hardware == INSTANCE HardwareReaders WITH
    Studies <- HardwareStudies,
    DmiTables <- FirmwareTables, AddressLists <- Addresses,
    Processors <- ProcessorKinds,
    PressureTexts <- PressureFiles, Meminfo <- MemoryFiles,
    MaxChanges <- MaxChanges + 1

-----------------------------------------------------------------------------
(* Devices: BlueZ objects in any order, with more adapters than fit, a      *)
(* device that names no adapter and a percentage there is not.              *)
NA == -1
Object(path, interfaces, adapter, under, address, flags, percent) ==
    [path |-> path, interfaces |-> interfaces, adapter |-> adapter,
     under |-> under, address |-> address, pathaddress |-> path, alias |-> "",
     name |-> "", flags |-> flags, percent |-> percent]
Radio(path) == Object(path, {"adapter"}, "", "", "", {}, NA)
Mouse(flags) == Object("m", {"device", "battery"}, "hci0", "hci0", "M", flags, 70)
Phone(flags) == Object("p", {"device"}, "", "hci0", "P", flags, NA)
Pen == Object("q", {"device", "battery"}, "hci1", "hci1", "", {"connected"}, 120)
BluezReplies ==
    {<<>>,
     <<Radio("hci0"), Mouse({"connected", "paired"}), Phone({"connected"})>>,
     <<Mouse({}), Radio("hci0"), Radio("hci1"), Pen>>,
     <<Radio("hci0"), Radio("hci1"), Radio("hci2"), Pen>>,
     <<Radio("hci0"), Mouse({"connected"}), Phone({"trusted"}), Pen>>,
     <<Radio("hci1"), Pen, Phone({"connected", "paired"})>>}

(* Power supplies that count energy or charge, or tell a time or a level.   *)
PowerSupply(status, capacity, level, scope) ==
    [status |-> status, capacity |-> capacity, level |-> level, scope |-> scope,
     health |-> IF status = "Full" THEN "Good" ELSE "",
     mains |-> FALSE, voltage |-> NA, current |-> NA, energy |-> NA,
     charge |-> NA, full |-> NA, chargefull |-> NA, design |-> NA,
     power |-> NA, tofull |-> NA, toempty |-> NA]
PowerSupplies ==
    {[PowerSupply("Charging", 104, "", "System") EXCEPT !.mains = TRUE,
        !.energy = 40, !.full = 50, !.design = 40, !.power = 10],
     [PowerSupply("Charging", 100, "", "System") EXCEPT !.mains = TRUE,
        !.energy = 52, !.full = 50, !.design = 60, !.power = 10],
     [PowerSupply("Discharging", 80, "", "System") EXCEPT !.voltage = 12,
        !.charge = 3, !.chargefull = 4, !.design = 50, !.current = 1],
     [PowerSupply("Discharging", 50, "Normal", "Device") EXCEPT !.toempty = 600],
     PowerSupply("", NA, "Low", "Device"),
     PowerSupply("Full", 100, "Full", "System")}
Answer(feature, percent, bits, status) ==
    [feature |-> feature, percent |-> percent, bits |-> bits, status |-> status]
HidppAnswers ==
    {Answer("1004", 65, 0, 2), Answer("1004", 0, 6, 0), Answer("1000", 0, 0, 3),
     Answer("1000", 101, 0, 9)}

(* Descriptors of one DRM client, of several and of none that is named.     *)
Key(key, name, value) == [key |-> key, name |-> name, value |-> value]
Client(device, id) ==
    {Key("driver", "i915", 0), Key("pdev", device, 0), Key("client", "", id)}
Work == {Key("engine", "render", 5), Key("memory", "system", 9),
         Key("resident", "system", 4)}
Files(tables) == [n \in 1 .. Len(tables) |-> [fd |-> n, lines |-> tables[n]]]
DescriptorTables ==
    {Files(<<Client("g0", 1) \cup Work \cup {Key("capacity", "render", 2)},
             Client("g0", 1) \cup Work>>),
     Files(<<Client("g0", 1) \cup {Key("engine", "render", 5), Key("memory", "vram", 3)},
             Client("g1", 1) \cup {Key("engine", "copy", 2)},
             {Key("driver", "x", 0), Key("minor", "128", 0), Key("engine", "a", 1),
              Key("engine", "b", 1)}>>),
     Files(<<{Key("driver", "x", 0)},
             {Key("minor", "128", 0), Key("pdev", "g1", 0), Key("resident", "r", NA),
              Key("memory", "r", 7), Key("capacity", "v", 0)}>>),
     Files(<<{Key("engine", "a", 1), Key("engine", "b", 1), Key("engine", "c", 1),
              Key("capacity", "d", 1)}>>)}

(* Event directories of a GPU, its use and limits, and accelerators.        *)
EngineUse == {0, 90}
GpuLimits == {20, 100}
Event(class, opens) == [class |-> class, opens |-> opens]
EventLists ==
    {<<Event("render", TRUE), Event("unit", FALSE), Event("video", TRUE)>>,
     <<Event("frequency", TRUE), Event("render", FALSE), Event("other", TRUE),
       Event("copy", TRUE)>>,
     <<Event("render", TRUE), Event("render", TRUE), Event("compute", TRUE)>>}
Npu(device, driver, product, attributes) ==
    [device |-> device, driver |-> driver, product |-> product,
     attributes |-> attributes]
Vpu == Npu(0, "intel_vpu", "", {"npu_busy_time_us", "utilization_percent"})
Xdna == Npu(1, "amdxdna", "XDNA", {"utilization_percent"})
Nameless == Npu(2, "", "", {})
Unbound == [Vpu EXCEPT !.driver = "", !.attributes = {"utilization_percent"}]
AccelLists ==
    {{}, {Vpu}, {Unbound}, {Vpu, Xdna}, {Xdna, Vpu, Nameless}, {Nameless}}

Reader == INSTANCE DeviceReaders WITH
    Studies <- ReaderStudies,
    Replies <- BluezReplies, Supplies <- PowerSupplies, Payloads <- HidppAnswers,
    Descriptors <- DescriptorTables, Events <- EventLists, Busy <- EngineUse,
    Limits <- GpuLimits, Accels <- AccelLists

ASSUME InterfacesAssumption ==
    /\ Studies \subseteq
          UNION {InventoryStudies, WindowsStudies, ExportStudies, KernelStudies,
                 HardwareStudies, ReaderStudies,
                 {"device page", "overview page", "shell", "installation"}}
    /\ DevicePage!DevicePagesAssumption /\ OverviewFront!OverviewPageAssumption
    /\ WindowsFront!PagesAssumption /\ Inventory!InventoriesAssumption
    /\ Shell!ShellAssumption /\ Export!ExportsAssumption
    /\ Installation!InstallerAssumption /\ Kernel!KernelAssumption
    /\ Hardware!HardwareAssumption /\ Reader!DeviceAssumption

-----------------------------------------------------------------------------
(* Where a study begins; the variables of the other modules are not used.   *)
Unused == "unused"
Init ==
    /\ study \in Studies
    /\ IF study = "device page" THEN DevicePage!Init
       ELSE kind = Unused /\ info = Unused /\ device_page = Unused
            /\ slots = Unused
    /\ IF study = "overview page" THEN OverviewFront!Init
       ELSE overview_monitor = Unused /\ processes = Unused
            /\ history = Unused /\ latest = Unused /\ overview_page = Unused
            /\ opened = Unused
    /\ IF study \in WindowsStudies THEN WindowsFront!Init
       ELSE app = Unused /\ gdi = Unused /\ theme = Unused /\ ui = Unused
            /\ hist = Unused
    /\ IF study \in InventoryStudies THEN Inventory!Init
       ELSE startup = Unused /\ services = Unused /\ users = Unused
            /\ mounts = Unused /\ catalog = Unused
    /\ IF study = "shell" THEN Shell!Init
       ELSE shell = Unused /\ wm = Unused /\ preferences_file = Unused
            /\ unsaved = Unused /\ dark = Unused /\ changes = Unused
    /\ IF study \in ExportStudies THEN Export!Init
       ELSE export = Unused /\ report = Unused /\ plot = Unused
            /\ layout = Unused /\ times = Unused /\ help = Unused
    /\ IF study = "installation" THEN Installation!Init
       ELSE request = Unused /\ source = Unused /\ at = Unused
            /\ directories = Unused /\ build = Unused /\ training = Unused
            /\ staged = Unused /\ package = Unused /\ installed = Unused
    /\ IF study \in KernelStudies THEN Kernel!Init
       ELSE links = Unused /\ parts = Unused /\ names = Unused
    /\ IF study \in HardwareStudies THEN Hardware!Init
       ELSE dmi = Unused /\ cpu = Unused /\ wifi = Unused /\ nets = Unused
            /\ psi = Unused /\ mem = Unused /\ search = Unused
    /\ IF study \in ReaderStudies THEN Reader!Init
       ELSE bt = Unused /\ supply = Unused /\ drm = Unused /\ gpu = Unused
            /\ accel = Unused

Pages(A) ==
    A /\ UNCHANGED <<installerVars, inventoryVars, shellVars, exportVars,
                     kernelVars, hardwareVars, readerVars>>
Readers(A) ==
    A /\ UNCHANGED <<devicePageVars, overviewVars, installerVars, inventoryVars,
                     shellVars, windowsVars, exportVars>>
Others(A) ==
    A /\ UNCHANGED <<devicePageVars, overviewVars, windowsVars, kernelVars,
                     hardwareVars, readerVars>>

Next ==
    /\ study' = study
    /\ \/ /\ study = "device page" /\ Pages(DevicePage!Next)
          /\ UNCHANGED <<overviewVars, windowsVars>>
       \/ /\ study = "overview page" /\ Pages(OverviewFront!Next)
          /\ UNCHANGED <<devicePageVars, windowsVars>>
       \/ /\ study \in WindowsStudies /\ Pages(WindowsFront!Next)
          /\ UNCHANGED <<devicePageVars, overviewVars>>
       \/ /\ study \in InventoryStudies /\ Others(Inventory!Next)
          /\ UNCHANGED <<installerVars, shellVars, exportVars>>
       \/ /\ study = "shell" /\ Others(Shell!Next)
          /\ UNCHANGED <<installerVars, inventoryVars, exportVars>>
       \/ /\ study \in ExportStudies /\ Others(Export!Next)
          /\ UNCHANGED <<installerVars, inventoryVars, shellVars>>
       \/ /\ study = "installation" /\ Others(Installation!Next)
          /\ UNCHANGED <<inventoryVars, shellVars, exportVars>>
       \/ /\ study \in KernelStudies /\ Readers(Kernel!Next)
          /\ UNCHANGED <<hardwareVars, readerVars>>
       \/ /\ study \in HardwareStudies /\ Readers(Hardware!Next)
          /\ UNCHANGED <<kernelVars, readerVars>>
       \/ /\ study \in ReaderStudies /\ Readers(Reader!Next)
          /\ UNCHANGED <<kernelVars, hardwareVars>>

vars == <<study, devicePageVars, overviewVars, installerVars, inventoryVars,
          shellVars, windowsVars, exportVars, kernelVars, hardwareVars,
          readerVars>>

Spec == Init /\ [][Next]_vars

-----------------------------------------------------------------------------
(* A page tells one sample, the newest when it is in front, under captions  *)
(* of the device it is of, and names the busiest device and where a click   *)
(* leads, however data come and go while it is hidden, built or rebuilt     *)
(* (the exceptions: a list that arrives while the click is served may       *)
(* redirect it, see CardsLeadToNamed, and gaps are missing on the Overview, *)
(* see GraphsKeepSamples); on Windows a click means what was painted under  *)
(* it, the selection exists, hovering ends and every GDI object is released *)
(* once (performance_*.c, overview.c, main_windows.c).                      *)
PagesTrue ==
    /\ study = "device page" =>
          /\ DevicePage!TypeOK /\ DevicePage!PageOfOneSample
          /\ DevicePage!CaptionsTrue /\ DevicePage!RailAgrees
          /\ DevicePage!SlotsFaithful /\ DevicePage!ThermalOrdered
          /\ DevicePage!CompositionFits
    /\ study = "overview page" =>
          /\ OverviewFront!TypeOK /\ OverviewFront!PageOfNewest
          /\ OverviewFront!CardsNameBusiest /\ OverviewFront!RowsAreTop
          /\ OverviewFront!BarAgrees /\ OverviewFront!CardsInPlace
          /\ OverviewFront!GraphsKeepSamples /\ OverviewFront!CardsLeadToNamed
    /\ study \in WindowsStudies =>
          /\ WindowsFront!TypeOK /\ WindowsFront!ObjectsReleasedOnce
          /\ WindowsFront!ThemeAgrees /\ WindowsFront!ClickMeant
          /\ WindowsFront!SelectionShown /\ WindowsFront!RailFilled
          /\ WindowsFront!HoverEnds /\ WindowsFront!HistoryInOrder

(* Startup Apps and Services, once they have come to rest, show what the    *)
(* system has; Users and File Systems what their last collection found      *)
(* (with no session where memory ran out, see UsersTrue).  An action        *)
(* reaches the row it was asked for, whatever changes, failures and         *)
(* refreshes came in between; and the catalog gives a scope unit to the     *)
(* application that owns it                                                 *)
(* (startup_backend_linux.c, service_backend_linux.c, user_backend_linux.c, *)
(* filesystems.c, application_catalog.c).                                   *)
InventoriesTrue ==
    study \in InventoryStudies =>
        /\ Inventory!TypeOK /\ Inventory!StartupShowsLogin
        /\ Inventory!ServicesTrue /\ Inventory!UsersTrue
        /\ Inventory!FilesystemsTrue /\ Inventory!CatalogTrue

(* What is listed of interfaces, partitions, names, memory modules, caches, *)
(* Bluetooth devices, batteries, DRM clients and NPUs is whole or not       *)
(* listed at all: of one machine at a time, each thing once and told from   *)
(* the one that had its name before, at every limit of the tables that hold *)
(* it (system_sources.c, pci_names.c, smbios_memory.c, cpu_direct.c,        *)
(* bluetooth_battery.c, monitor_battery.c, process_gpu.c, intel_gpu.c).     *)
(* The exceptions: a disk drops the partitions beyond LSM_MAX_PARTITIONS,   *)
(* two caches to which CPUID gives one key are counted as one, and an NPU   *)
(* that changes its driver keeps the telemetry it had.                      *)
ReadersTrue ==
    /\ study \in KernelStudies =>
          /\ Kernel!TypeOK /\ Kernel!ListingWhole /\ Kernel!ListingCurrent
          /\ Kernel!AdaptersToldApart /\ Kernel!PartitionsTrue
          /\ Kernel!LabelsTrue /\ Kernel!NamesTrue /\ Kernel!CacheSound
    /\ study \in HardwareStudies =>
          /\ Hardware!TypeOK /\ Hardware!ModulesTrue
          /\ Hardware!CachesCountedOnce /\ Hardware!WifiTrue
          /\ Hardware!AddressesWhole /\ Hardware!PressureWhole
          /\ Hardware!MemoryWhole /\ Hardware!SearchAnswered
    /\ study \in ReaderStudies =>
          /\ Reader!TypeOK /\ Reader!BluezWhole /\ Reader!BatteryHonest
          /\ Reader!ClientsCountedOnce /\ Reader!EnginesTrue
          /\ Reader!NpusWhole

(* What the user chose is what is shown, saved and there again in the next  *)
(* session, through window events that arrive late, Compact Summary and     *)
(* layouts of older versions; and Apply changes what the dialog said, and   *)
(* nothing else, whatever came while it was open (preferences.c,            *)
(* app_shell.c, app_shell_window.c, details_layout.c).  The exception: the  *)
(* size saved may be that of Compact Summary, or the other way round, where *)
(* an event of the window manager was overtaken by the switch               *)
(* (app_shell_window.c:95).                                                 *)
ChoicesKept ==
    /\ [](study = "shell" =>
              /\ Shell!TypeOK /\ Shell!ChromeTrue /\ Shell!RailTrue
              /\ Shell!ChoicesSaved /\ Shell!GeometryTrue)
    /\ [](study = "layout" => Export!TypeOK /\ Export!LayoutKept)
    /\ [][study = "shell" => Shell!DialogStep]_vars

(* What leaves the program is what was asked for: the processes selected    *)
(* when the chooser opened, as text no spreadsheet takes for a formula, the *)
(* rows a recording really has, times of the clock that is set, the help    *)
(* topic searched for; and what replaces the installed package is the last  *)
(* pass of the build asked for, with nothing left behind.  The exception is *)
(* a selected group: a scan under the open chooser may exchange its members *)
(* for those of the group that then has its title (process_export.c,        *)
(* process_log_plot.c, temporal_format.c, support/tools/native_installer.c).*)
OutputsMeant ==
    /\ study \in ExportStudies =>
          /\ Export!TypeOK /\ Export!ExportMeant /\ Export!ClipboardPlain
          /\ Export!ReportTrue /\ Export!PlotFaithful /\ Export!TimesHonest
          /\ Export!ArithmeticExact /\ Export!HelpAnswers
    /\ study = "installation" =>
          /\ Installation!TypeOK /\ Installation!InstalledIsFinal
          /\ Installation!PackageReproducible /\ Installation!NothingLeft
=============================================================================
