SPECIFICATION FairSpec
CONSTANTS
    MaxReq = 3
    OtherType <- MCOtherType
    Size = 1
    Nil = Nil
INVARIANT
    NoRequestLost
PROPERTIES
    OneNotificationServesAll
    CloseReleases
CHECK_DEADLOCK FALSE
