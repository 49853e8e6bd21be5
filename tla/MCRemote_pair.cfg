CONSTANTS
    Node = {n1, n2}
    Nil = Nil
    Routes <- MCRoutes
    Size = 1
    MaxOps = 5
    Usage = {{"both", "send"}, {"both", "patient", "send", "fail"}, {"fail", "ttl"}, {"both", "cut"}, {"send", "close"}}
CHECK_DEADLOCK FALSE
SPECIFICATION FairSpec
INVARIANTS
    NoGhost
    NoRelay
    PathExists
PROPERTIES
    GhostsVanish
    DisconnectReleases
