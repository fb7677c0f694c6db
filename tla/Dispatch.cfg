SPECIFICATION FairSpec
CONSTANTS
    t1 = t1
    s1 = s1
    s2 = s2
    Tasks = {t1}
    Specialists = {s1, s2}
    Owner <- MCOwner
    MaxAttempts = 2
    MaxFaults = 1
    None = None
INVARIANTS
    OutcomesArrive
    NoDoubleInvestigation
PROPERTIES
    NoRework
    EvidenceNotLost
    ImplementsLifecycle
    TasksEnd
CHECK_DEADLOCK FALSE
