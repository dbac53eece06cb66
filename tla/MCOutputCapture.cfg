\* Two commands share the writer: one batch fails, rows are closed and pruned.
SPECIFICATION FairSpec
CONSTANTS
    Executions = {e1, e2}
    Limit = 2
    ChunkSizes = {1, 2}
    MaxBytes = 3
    QueueDepth = 1
    BatchSize = 2
    MaxFaults = 1
INVARIANTS
    TypeOK
    LogInOrder
    OutcomeIsComplete
    ClosedOnce
PROPERTIES
    CaptureSettles
CHECK_DEADLOCK FALSE
