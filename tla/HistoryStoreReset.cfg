CONSTANTS
    MaxObservations = 1
    MaxSessions = 2
    MaxResets = 1
    GenerationLimit = 3
    MaxEntries = 1
    Inherited = 0
    Application <- InTurn
SPECIFICATION Spec
INVARIANT
    ResetSticks
