CONSTANTS
    Flags = {executable, gpu}
    ExecutableFlag = executable
    MaxRequests = 4
SPECIFICATION FairSpec
INVARIANTS
    TypeOK
    NoUseAfterFree
    NoLostWakeup
    NewestRequestKept
    ReadyNotMissed
PROPERTIES
    ImplementsMailbox
    WorkerResponds
