CONSTANTS
    MaxObservations = 3
    MaxSessions = 2
    MaxResets = 1
    GenerationLimit = 6
    MaxEntries = 2
    Inherited = 3
    Application <- InTurn
SPECIFICATION FairSpec
INVARIANTS
    FlagsHonest
PROPERTIES
    
    EventuallyDurable
