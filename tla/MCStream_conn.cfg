CONSTANTS
    Writer = {w1, w2}
    Control = {w1}
    Buffer = {b1, b2}
    Nil = Nil
    MaxWrites = 3
    MaxReads = 2
    Usage = {{"cancel"}, {"short", "routes"}, {"close"}, {"close", "closer"}}
CHECK_DEADLOCK FALSE
SPECIFICATION FairSpec
INVARIANTS
    OwnFrameIntact
PROPERTIES
    DecodedInOrder
    WritesServed
    RunnersEnd
