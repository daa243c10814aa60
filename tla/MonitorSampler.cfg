CONSTANTS
    GenerationModulus = 3
    ScanInterval = 2
    BatteryInterval = 3
    RetryInitial = 1
    MaxFailures = 4
    MaxClock = 8
SPECIFICATION PlatformSpec
INVARIANTS
    SamplesWhole
    MemorySafe
    RequestsKept
PROPERTIES
    SamplesPaced
    SamplersRespond
