\* One operator, deletes that answer False without deleting.
SPECIFICATION Spec
CONSTANTS
    Clients = {c1}
    a = a
    b = b
    mcp = mcp
    a2a = a2a
    Names = {a}
    Protocols = {mcp}
    NativeKeys = "yes"
    AbsentAnswer = "no"
    LegacyZone <- NoLeftover
    Kinds = {"publish", "unpublish", "sync"}
    FaultKinds <- OnlySilent
    MaxOps = 2
    MaxFaults = 1
    None = None
    Unknown = Unknown
INVARIANTS UnpublishIsGone
