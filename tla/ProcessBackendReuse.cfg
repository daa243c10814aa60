SPECIFICATION Spec
CHECK_DEADLOCK FALSE
CONSTANTS
    Pids = {1, 2}
    FlagSets = {{"EXECUTABLE"}, {"EXECUTABLE", "CGROUP", "GPU"}}
    Texts = {"cgroup"}
    MaxInstance = 3
    MaxScans = 3
    GenerationModulus = 3
    MetadataRefresh = 2
    GpuRefresh = 1
    GpuNegativeRefresh = 2
    AllocationFails = FALSE
    IoRefused = FALSE
INVARIANT
    RetainedOwned
