\* One zone, two verifications: rollovers, outages and every kind of kid.
SPECIFICATION Spec
CONSTANTS
    k1 = k1
    k2 = k2
    kidA = kidA
    kidB = kidB
    kidX = kidX
    Zones = {z1}
    Tasks = {t1, t2}
    Keys = {k1, k2}
    Label <- KidOf
    Signatures <- Hints
    Docs <- AnyDocs
    Down = Down
    NotAJwks = NotAJwks
    Forger = Forger
    NoKid = NoKid
    TTL = 2
    NegativeTTL = 1
    FetchTime = 1
    TableMax = 2
    MaxNow = 4
    MaxChanges = 2
    MaxCancels = 0
    None = None
SYMMETRY TaskSymmetry
INVARIANTS TypeOK VerifiedByAServedKey VerdictsAreRight
