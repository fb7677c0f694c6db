SPECIFICATION Spec
CONSTANTS
    Contexts = {8192}
    ItemCounts = {1}
    SchemaChars = 1800
    CompactChars = 420
    Confidences = {20, 90}
    Own = own
    Domains = {own, other}
    None = None
INVARIANT ClaimsNameTheirCause
CHECK_DEADLOCK FALSE
