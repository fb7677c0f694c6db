SPECIFICATION FairSpec
CONSTANTS
    Contexts = {4095, 4096, 8192}
    ItemCounts = {1, 5, 6, 9}
    SchemaChars = 1800
    CompactChars = 420
    Confidences = {20, 90}
    Own = own
    Domains = {own, other}
    None = None
INVARIANTS
    ContractsHold
    PromptIsSound
    SoloClaimIsSpecific
    GuidanceReachesOperator
PROPERTIES
    PeerNeverWeakens
    DiagnosisEnds
CHECK_DEADLOCK FALSE
