\* Two operators interleaving on one zone, every fault; repeated syncs.
SPECIFICATION FairSpec
CONSTANTS
    Clients = {c1, c2}
    a = a
    b = b
    mcp = mcp
    a2a = a2a
    Names = {a, b}
    Protocols = {mcp}
    NativeKeys = "no"
    AbsentAnswer = "no"
    LegacyZone <- NoLeftover
    Kinds = {"publish", "unpublish", "sync"}
    FaultKinds <- AllFaults
    MaxOps = 2
    MaxFaults = 2
    None = None
    Unknown = Unknown
INVARIANTS UnpublishTookSomething
PROPERTIES ListsOnlyAnnounced SyncHeals SyncIsExact
