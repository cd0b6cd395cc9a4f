\* A lock table of one entry and two cancellations.
SPECIFICATION FairSpec
CONSTANTS
    k1 = k1
    k2 = k2
    kidA = kidA
    kidB = kidB
    kidX = kidX
    Zones = {z1, z2}
    Tasks = {t1, t2, t3}
    Keys = {k1, k2}
    Label <- KidOf
    Signatures <- Bogus
    Docs <- OutageDocs
    Down = Down
    NotAJwks = NotAJwks
    Forger = Forger
    NoKid = NoKid
    TTL = 2
    NegativeTTL = 1
    FetchTime = 0
    TableMax = 1
    MaxNow = 0
    MaxChanges = 0
    MaxCancels = 2
    None = None
PROPERTIES EveryTaskAnswers
