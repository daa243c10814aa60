CONSTANTS
    Pids = {1, 2}
    MaxInstance = 3
    MaxScans = 3
    GenerationModulus = 3
    MetadataRefresh = 2
    GpuRefresh = 1
    GpuNegativeRefresh = 2
    ReusedPids = {1}
    DiskNames = {1}
    MaxDisk = 3
    NetNames = {1, 2}
    MaxNet = 2
    MaxCount = 1
    CpuRows = {1, 2}
    PolicyDirs = {3}
    HwmonSensors = {"core", "package"}
    ZoneSensors = {"zone"}
    SearchInterval = 2
    Handles = {h1, h2}
    Devices = {d1, d2}
    LinkSlots = 2
    MaxPackets = 2
    MaxEvents = 3
    MaxSamples = 2
    Paths = {"p"}
    Addresses = {1}
    MaxBatteries = 1
    MaxLogitech = 2
    Gpus = {1, 2}
    Intel = {1}
    MaxGpus = 3
    MinBusySample = 2
    MaxBinds = 2
    Drives = {1, 2}
    Luids = {1, 2, 3}
    LSM_MAX_NETS = 2
    Length = 4
    FixedPushes = 9
    FlipPushes = 6
    Capacity = 4
    MaxGeneration = 4
    MaxTime = 7
    Count = 3
    MaxMemory = 3
SPECIFICATION Spec
CHECK_DEADLOCK FALSE
INVARIANTS
    SamplesConsistent
    RowsOwned
    RatesHonest
    ReadingsHonest
    DevicesKeptApart
    ViewsFaithful
