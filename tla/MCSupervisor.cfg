\* A leader and one more process, one stream, a read error, a cancel, a dying daemon.
SPECIFICATION Spec
CONSTANTS
    Procs = {leader, member}
    Leader = leader
    Streams = {stdout}
    QueueDepth = 1
    ControlDepth = 1
    WireDepth = 1
    MaxChunks = 2
    MaxCancels = 1
    MaxReadErrors = 1
INVARIANTS
    TypeOK
    OutputBeforeOutcome
    EscalationIsComplete
PROPERTIES
    KeepsContract
CHECK_DEADLOCK FALSE
