SPECIFICATION FairSpec
CONSTANTS
    Jobs = {j1, j2}
    j1 = j1
    metric_history = metric_history
    network_path = network_path
    get_metrics = get_metrics
    get_logs = get_logs
    Kinds = {metric_history, network_path}
    KindsOf <- MCKindsOf
    Tools = {get_metrics, get_logs}
    ToolsOf <- MCToolsOf
    MaxSteps = 3
    Tries = 2
    Slots = 1
    None = None
INVARIANTS
    ExecutorSound
    ToolFitsRequest
    AloneIsComplete
PROPERTIES
    EveryInvestigationEnds
CHECK_DEADLOCK FALSE
