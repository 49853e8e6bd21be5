CONSTANTS
    Call = {c1, s1}
    Stream = {s1}
    Nil = Nil
    MaxReplies = 3
    Options = {{"timeout"}, {"nonce"}, {"nonce", "timeout", "close"}}
CHECK_DEADLOCK FALSE
SPECIFICATION FairSpec
INVARIANTS
    OrderMatchesWaiters
    CorrelatedWhenPrompt
    PromptNeverCrashes
PROPERTIES
    AnsweredReturns
    CloseReleases
