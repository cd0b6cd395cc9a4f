\* Two callers of every provider, of one backend object or two.
SPECIFICATION Spec
CONSTANTS
    Client = {"c1", "c2"}
    Object = {"b1", "b2"}
    Homes <- SharedOrOwn
    Value = {"a", "b"}
    Old = "a"
    Provider = {"route53", "ddns", "mock", "ns1", "cloud_dns", "akamai", "cloudflare", "nios", "bloxone"}
    MaxOwner = 2
    MaxJobs = 2
    MaxFaults = 1
    MaxRetries = 1
INVARIANTS TypeOK WritersTakeTurns
PROPERTIES AnswersAreTrue StoreSpec EveryCallEnds
CHECK_DEADLOCK FALSE
