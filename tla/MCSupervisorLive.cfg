\* Liveness: the supervisor ends whatever the command and the daemon do.
SPECIFICATION FairSpec
CONSTANTS
    Procs = {leader, member}
    Leader = leader
    Streams = {stdout}
    QueueDepth = 1
    ControlDepth = 2
    WireDepth = 1
    MaxChunks = 1
    MaxCancels = 1
    MaxReadErrors = 0
PROPERTIES
    StopEndsSupervisor
    PipesClosedEndsSupervisor
CHECK_DEADLOCK FALSE
