\* Two starters of loomd and one recorded session, all of them killed anywhere.
SPECIFICATION SessionSpec
CONSTANTS
    Daemons = {d1, d2}
    Sessions = {s1}
    Script <- MCScript
    None = None
    Stale = Stale
SYMMETRY Symmetry
CONSTRAINT TurnsWithOneDaemon
INVARIANTS
    ExclusiveService
    StartsFromDebris
    RecorderDecides
    TurnsSettle
CHECK_DEADLOCK FALSE
