\* One execution, a small hub that overflows, a lost connection, a restart.
SPECIFICATION FairSpec
CONSTANTS
    HubDepth = 1
    PageSize = 1
    BatchSize = 2
    MaxOutput = 2
    MaxOthers = 1
    MaxLosses = 1
    MaxBoots = 1
INVARIANTS
    TypeOK
    ResumeIsExact
    LiveIsCurrent
    WaitIsCurrent
    EndIsOutcome
PROPERTIES
    OutcomeIsDelivered
CHECK_DEADLOCK FALSE
