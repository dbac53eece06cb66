\* Two commands share one slot; a client cancels, a store command fails, loomd drains.
SPECIFICATION Spec
CONSTANTS
    Executions = {e1, e2}
    Cancellers = {c1}
    MaxConcurrent = 1
    MaxBoots = 0
    MaxFaults = 1
SYMMETRY Symmetry
INVARIANTS
    TypeOK
    StopReachesCommand
    IncompleteHasOwner
    NoLostCancelWakeup
    NoLostIdleWakeup
    QueueStaysEmpty
    
    
PROPERTIES
    DurableRecord
CHECK_DEADLOCK FALSE
