CONSTANTS
    Source = {s1}
    Wrapper = {w1, w2}
    Nil = Nil
    Size = 1
    Resident = {w1}
CHECK_DEADLOCK FALSE
SPECIFICATION FairSpec
INVARIANTS
    ListedIsOpen
PROPERTIES
    OpenWrapperServed
    LeavingClosesChannel
