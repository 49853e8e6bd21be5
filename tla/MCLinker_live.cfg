CONSTANTS
    Route = {r1}
    Intent = {i1, i2}
    Interest = {n1, n2}
    Link = {l1, l2}
    Sender = {}
    Nil = Nil
    Size = 1
    Usage = {{"patient"}, {"once", "direct"}, {"once", "shutdown"}}
CHECK_DEADLOCK FALSE
SPECIFICATION FairSpec
INVARIANTS
    TypeOK
    LinkTableConsistent
PROPERTIES
    MatchedGetsLinked
    ClosedIsForgotten
