\* Two zones, three verifications at once, an outage and a cancellation.
SPECIFICATION Spec
CONSTANTS
    k1 = k1
    k2 = k2
    kidA = kidA
    kidB = kidB
    kidX = kidX
    Zones = {z1, z2}
    Tasks = {t1, t2, t3}
    Keys = {k1, k2}
    Label <- KidOf
    Signatures <- Bogus
    Docs <- OutageDocs
    Down = Down
    NotAJwks = NotAJwks
    Forger = Forger
    NoKid = NoKid
    TTL = 3
    NegativeTTL = 1
    FetchTime = 1
    TableMax = 2
    MaxNow = 3
    MaxChanges = 1
    MaxCancels = 1
    None = None
SYMMETRY TaskSymmetry
INVARIANTS OutageIsShort
PROPERTIES FetchesAreFew
