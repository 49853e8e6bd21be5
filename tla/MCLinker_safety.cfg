CONSTANTS
    Route = {r1, r2}
    Intent = {i1, i2}
    Interest = {n1, n2}
    Link = {l1, l2}
    Sender = {s1}
    Nil = Nil
    Size = 1
    Usage = {{}, {"patient", "send"}}
CHECK_DEADLOCK FALSE
SYMMETRY Symmetry
SPECIFICATION Spec
INVARIANTS
    LiveIsRegistered
    NoCrossWire
    MatchedIsLinked
    NoDanglingChannel
    OnlySendCanCrash
PROPERTY ImplementsMatching
