CONSTANTS
    Target = {t1}
    Wrapper = {w1, w2}
    Sender = {p1}
    Nil = Nil
    Size = 1
CHECK_DEADLOCK FALSE
SPECIFICATION FairSpec
INVARIANTS
    SendSetStable
PROPERTIES
    PresentIsNotified
