\* Two executions, one of them in a recorded session, and one reader of each kind.
SPECIFICATION FairSpec
CONSTANTS
    s1 = s1
    Executions = {1, 2}
    Sessions = {s1}
    Homes <- MCHomes
    Queries <- MCQueries
    None = None
    MaxEvents = 5
    PageEvents = 2
    Cap = 2
    ChunkBytes = 2
    MaxBytes = 3
CONSTRAINT HomesOfPrograms
INVARIANTS
    PaneIsSegment
    
    CancelReachesNamed
PROPERTIES
    PaneCatchesUp
CHECK_DEADLOCK FALSE
