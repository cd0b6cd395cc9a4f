\* One agent, two concurrent callers, two troubles of any kind, liveness.
SPECIFICATION FairSpec
CONSTANTS
    a1 = a1
    a2 = a2
    Agents = {a1}
    Calls = {c1, c2}
    McpAgents = {}
    Issuer = Issuer
    PolicyMode = "strict"
    TokenAuth = TRUE
    Threshold = 2
    Cooldown = 2
    PolicyTTL = 2
    Lifetimes = {1, 3}
    Buffer = 1
    Timeout = 1
    MaxTrouble = 2
    None = None
INVARIANTS TypeOK CalmAgentIsServed CachedTokenIsAlive NoStampede
PROPERTIES PermissionIsRecent NothingIsStranded
