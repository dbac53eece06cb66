\* Does a daemon crash always reach the command's process group?
SPECIFICATION FairSpec
CONSTANTS
    Procs = {leader, member}
    Leader = leader
    Streams = {stdout}
    QueueDepth = 1
    ControlDepth = 2
    WireDepth = 1
    MaxChunks = 0
    MaxCancels = 0
    MaxReadErrors = 0
PROPERTIES
    CrashEndsGroup
CHECK_DEADLOCK FALSE
