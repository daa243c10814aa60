CONSTANTS
    Studies = {"device page", "overview page", "shell", "installation",
               "startup", "services", "users", "filesystems", "catalog",
               "life", "theme", "mouse", "hover", "graph",
               "export", "report", "plot", "layout", "times", "help",
               "links", "partitions", "names",
               "modules", "caches", "wifi", "addresses", "pressure", "memory",
               "search", "bluez", "supply", "drm", "gpu", "npus"}
    Kinds = {"cpu", "memory", "disk", "network", "bluetooth", "gpu", "battery",
             "npu"}
    Engines = {"render", "memory busy", "overall"}
    SlotCount = 1
    Temperatures = {52, 100}
    TopCount = 2
    Capacity = 2
    MaxGeneration = 3
    Profiles = {"native", "aggressive"}
    Versions = {"1", "2"}
    Ids = {"a", "b"}
    Units = {"x", "y"}
    Widths = {1000, 1150}
    WorkArea = 1920
    MaxEvents = 2
    Rows = {236, 520}
    Columns = {100, 300}
    MaxScroll = 74
    HistoryCapacity = 3
    Readings = {10, 90}
    HistoryLength = 3
    Installed = {"decimal"}
    Callers = {"t1", "t2"}
    CacheTicks = 2
    ColumnWidths = {70, 2500}
    MaxNets = 1
    Narrow = 4
    MaxMounts = 2
    MaxPartitions = 4
    PerDisk = 2
    CacheSize = 2
    MaxSteps = 4
    MaxModules = 2
    Wireless = {"w1", "w2"}
    Interval = 2
    MaxTime = 4
    Paths = {"f"}
    MaxAdapters = 2
    MaxDevices = 2
    MaxBatteries = 2
    MaxEngines = 3
    MaxRegions = 2
    MaxClients = 2
    MaxCounters = 2
    EnergyRange = 3
    MaxNpus = 2
    MaxChanges = 2
    MaxSamples = 2
SPECIFICATION Spec
CHECK_DEADLOCK FALSE
INVARIANTS
    
    InventoriesTrue
    ReadersTrue
    OutputsMeant
PROPERTIES
    ChoicesKept
