SPECIFICATION FairSpec
CONSTANTS
    Node = {"s", "a", "b"}
    Starts <- MCStarts
    Nil = Nil
    MaxAttempts = 2
INVARIANTS
    OneIsTold
    HonestNeverAborts
PROPERTY
    MeshForms
CHECK_DEADLOCK FALSE
