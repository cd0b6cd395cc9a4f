\* One operator at a time; deletes answer honestly, reads work.
SPECIFICATION Spec
CONSTANTS
    Clients = {c1}
    a = a
    b = b
    mcp = mcp
    a2a = a2a
    Names = {a, b}
    Protocols = {mcp, a2a}
    NativeKeys = "unknown"
    AbsentAnswer = "no"
    LegacyZone <- Leftover
    Kinds = {"publish", "unpublish", "sync"}
    FaultKinds <- HonestFaults
    MaxOps = 3
    MaxFaults = 2
    None = None
    Unknown = Unknown
INVARIANTS TypeOK PublishIsComplete UnpublishIsGone
PROPERTIES NoCollateralLoss
