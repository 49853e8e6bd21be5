CONSTANTS
    shy = shy
    r1 = r1
    Endpoint = {e1, shy}
    PubRoute = {r1}
    SubRoute = {r1}
    Refused <- MCRefused
    MaxRouters = 2
    Nil = Nil
    MaxWrappers = 2
    MaxAdds = 2
    Usage = {{"intent", "interest"}, {"interest", "fail"}, {"interest", "close"}, {"intent", "shutdown"},
             {"intent", "readd"}, {"router", "intent", "interest"}, {"router", "interest", "fail"},
             {"router", "interest", "shutdown"}}
CHECK_DEADLOCK FALSE
SPECIFICATION FairSpec
INVARIANTS
    OpenRouterFound
    EveryEndpointJoins
    RemovalIsSafe
PROPERTIES
    DeadEndpointLeaves
