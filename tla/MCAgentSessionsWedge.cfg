\* A loomd is killed after it registers a session and before it answers.
SPECIFICATION FairSessionSpec
CONSTANTS
    Daemons = {d1}
    Sessions = {s1}
    Script <- MCNoScript
    None = None
    Stale = Stale
PROPERTIES
    ReleasedIsReconciled
CHECK_DEADLOCK FALSE
