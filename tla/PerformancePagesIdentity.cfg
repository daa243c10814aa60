CONSTANTS
    Identities = {"a", "b"}
    Names = {1}
    MaxSamples = 2
SPECIFICATION Spec
INVARIANT
    HistoryByIdentity
