\* One command, two clients that cancel it, a drain, a death and a restart.
SPECIFICATION FairSpec
CONSTANTS
    Executions = {e1}
    Cancellers = {c1, c2}
    MaxConcurrent = 1
    MaxBoots = 1
    MaxFaults = 0
INVARIANTS
    IncompleteHasOwner
PROPERTIES
    DurableRecord
    KeepsContracts
    CancelledIsClosed
    DrainEnds
    CancelReturns
CHECK_DEADLOCK FALSE
