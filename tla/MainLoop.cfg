CONSTANTS
    Identities = {"a", "b", "c"}
    Names = {1, 2}
    PageSamples = 3
    Structures = {1, 2}
    PageTabs = {"performance", "processes", "overview"}
    ColumnTabs = {"performance", "processes", "details"}
    MaxSamples = 2
    MaxGeneration = 2
    SourceTabs = {"performance", "processes", "users", "filesystems", "services", "history"}
    UpdateIntervals = {500, 4000}
    FsIntervals = {1000, 5000}
SPECIFICATION Spec
INVARIANTS
    PagesCurrent
    DevicePagesKept
    SourcesOwned
PROPERTIES
    PausedProcessesFrozen
    PageEnriched
