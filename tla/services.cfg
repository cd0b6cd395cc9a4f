\* Two challenges, two publishers, two operators and three callers.
SPECIFICATION svSpec
CONSTANTS
    Services = {"dcv", "pointer", "nios", "td", "limits"}
    Challenges = {"a", "b"}
    Scopes = {"s"}
    Spans = {1}
    CacheTTL = 1
    MaxRecords = 2
    ByHand <- byHand
    MaxClock = 2
    MaxPlaced = 3
    NoScope = "-"
    Publishers = {"p1", "p2"}
    Hosts = {"h1", "h2"}
    UnsafeHosts = {"h2"}
    MaxPublish = 2
    MaxBroken = 1
    NoHost = "-"
    Operators = {"o1", "o2"}
    Documents <- policies
    CallerNames <- callers
    ListNames = {"l1", "l2"}
    NiosList = "l1"
    Actions = {"action_block", "action_log"}
    MaxRequests = 2
    MaxFailures = 1
    Callers = {"a", "b", "c"}
    MaxCallers = 2
    Minute = 2
    Hour = 4
    PerMinute = 2
    PerHour = 3
    Mode = "strict"
    LastTick = 4
    MaxServed = 6
INVARIANTS ServicesTypeOK VerifiedWasPlaced NothingForeignIsLost EnforcedIsInForce LimitHolds
CHECK_DEADLOCK FALSE
