\* Is an outcome recorded although output was lost, with a healthy database?
SPECIFICATION Spec
CONSTANTS
    Executions = {e1, e2, e3}
    Limit = 2
    ChunkSizes = {1}
    MaxBytes = 1
    QueueDepth = 1
    BatchSize = 2
    MaxFaults = 0
INVARIANTS
    LossIsReported
CHECK_DEADLOCK FALSE
