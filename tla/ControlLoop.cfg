SPECIFICATION FairSpec
CONSTANTS
    AssignTimeout = 5
    TriageTimeout = 120
    ReviewTimeout = 360
    ActionTimeout = 120
    RetryDelay = 2
    Cycles = 3
    Attempts = 3
    InboxMax = 1
    MaxFaults = 2
    None = None
INVARIANTS InboxSound AssignIsServed
PROPERTY LeadGetsFree
CHECK_DEADLOCK FALSE
