\* Does a command start although the drain has cancelled it in the queue?
SPECIFICATION Spec
CONSTANTS
    Executions = {e1, e2}
    Cancellers = {}
    MaxConcurrent = 1
    MaxBoots = 0
    MaxFaults = 0
PROPERTIES
    QueuedNeverSpawns
CHECK_DEADLOCK FALSE
