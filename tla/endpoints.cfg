\* Two addresses and a rollover, two calls on one worker, two publications and an edit.
SPECIFICATION epSpec
CONSTANTS
    Parts = {"record", "verify", "call"}
    Certificates <- certs
    RRsets <- rrsets
    Addresses = 2
    MaxCompared = 2
    Outgoing <- c1
    Incoming <- c2
    MaxFlaps = 1
    Tools = {1, 2}
    Workers = 1
    Requests <- requests
    Agents <- someOthers
    MaxTroubles = 1
    AgentNames = {"n1", "n2"}
    Arguments <- arguments
    Escaped = {"accented"}
    Support = {"true", "false", "unknown"}
    Validity = 1
    MaxBuilt = 2
    MaxEdits = 1
    LastMoment = 2
INVARIANTS EndpointsTypeOK VerificationIsSound CallsAreHonest SignatureIsExact
PROPERTIES EveryToolAnswers
CHECK_DEADLOCK FALSE
