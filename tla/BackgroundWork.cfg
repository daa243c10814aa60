CONSTANTS
    MAX_QUEUED = 2
    MaxRecords = 4
    RetryDelay = 2
    Rows = {r1}
    Actions = {a1, a2}
    MaxVersion = 3
SPECIFICATION StudySpec
INVARIANTS
    RowsAccountedFor
    StoppedWorkerSafe
    TasksHonest
PROPERTIES
    LateWorkHarmless
    WorkersRespond
