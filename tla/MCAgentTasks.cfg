SPECIFICATION Spec
CONSTANTS
    Tasks = {t1, t2, t3}
    Coordinator = coordinator
    Hooks = {h1, h2}
    RecoverLimit = 2
    MaxAttempts = 2
    NoCall = NoCall
INVARIANTS
    TypeOK
    AttemptWithinBudget
PROPERTIES
    TerminalIsFinal
    NothingInFlightAfterRestart
    ImplementsLifecycle
