CONSTANTS
    Source = {s1}
    Wrapper = {w1}
    Nil = Nil
    Size = 1
    Resident = {}
CHECK_DEADLOCK FALSE
SPECIFICATION FairSpec
PROPERTY CloseClosesChannel
