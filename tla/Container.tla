----------------------------- MODULE Container ------------------------------
(***************************************************************************)
(* The two owners of the routers of a process: Container (container.go),   *)
(* whose endpoints come and go, and Router (dndm.go), whose endpoints are  *)
(* given once.  Publish and Subscribe of either are the same code for the  *)
(* two kinds of objects, so one action models all four; a key is a kind    *)
(* and a route.  Endpoints are direct ones, reduced to what the owner sees *)
(* of their Linker: the object registered for each key.                    *)
(*                                                                         *)
(* The owner's mutex covers Publish, Subscribe, Add, the first half of     *)
(* Remove, and the hooks that forget a router: each is one action.  What   *)
(* the mutex does not cover are contexts that end, the close hooks of      *)
(* endpoints, and Container.Close.                                         *)
(***************************************************************************)
EXTENDS Naturals, Sequences, SequencesExt

CONSTANTS
    Endpoint,       \* the endpoints of the process
    PubRoute,       \* routes users publish on
    SubRoute,       \* routes users subscribe to
    Refused,        \* pairs <<endpoint, key>> kept apart by the peers' prefixes
    MaxRouters,     \* bound on the routers created
    Nil,
    MaxWrappers,    \* bound on the wrappers listed by one router
    MaxAdds,        \* bound on the times an endpoint is added
    Usage           \* ways of using the owner, one of which is followed

Key == ({"intent"} \X PubRoute) \cup ({"interest"} \X SubRoute)

RouterId == 1..MaxRouters   \* in the order of their creation

ASSUME EndpointAssumption == IsFiniteSet(Endpoint)
ASSUME BoundAssumption == MaxWrappers \in Nat \ {0} /\ MaxAdds \in Nat /\ MaxRouters \in Nat
ASSUME NilAssumption == Nil \notin Endpoint /\ Nil \notin RouterId
ASSUME UsageAssumption ==
    Usage \subseteq SUBSET {"intent", "interest", "router", "fail", "close", "shutdown",
                            "readd"}

VARIABLES
    use,         \* the way this behaviour uses the owner, never changes
    array, size, \* endpoints: the array behind the slice, and its length
    ctxDone,     \* the owner's context
    run,         \* each endpoint: "new", "up", then its context is "cancelled", its
                 \* Linker "closing" and "torn" down
    adds,        \* each endpoint: how often it was added
    ripe,        \* each endpoint: close hooks of the container that may run
    toClose,     \* each endpoint: calls of Remove that have yet to close it
    reg,         \* the object an endpoint has registered for a key
    routers,     \* the owner's maps: the router of each key
    rKey, rState, rHook, src, held, leaving,  \* routers and their wrappers
    late,        \* goroutines of Router.addInterest that have not run
    loop, pos, upto,   \* Container.Close
    fault        \* "none", "nilMap", "nilEndpoint"

listVars   == <<array, size>>
epVars     == <<run, ripe, toClose>>
routerVars == <<rKey, rState, rHook>>
wrapVars   == <<held, leaving>>
loopVars   == <<loop, pos, upto>>
vars == <<use, listVars, ctxDone, epVars, adds, reg, routers, routerVars, src, wrapVars,
          late, loopVars, fault>>

MayOpen(k)  == k[1] \in use       \* users publish, users subscribe
IsRouter    == "router" \in use    \* the owner is a Router, not a Container
MayFail     == "fail" \in use      \* an endpoint may refuse to publish
MayClose    == "close" \in use     \* an endpoint is closed behind the owner's back
MayShutdown == "shutdown" \in use  \* the owner is closed or its context ends
MayReadd    == "readd" \in use     \* a removed endpoint is added again

Up == fault = "none"
Listed == SubSeq(array, 1, size)
IsListed(e) == e \in ToSet(Listed)
Accepts(e, k) == IsRouter \/ <<e, k>> \notin Refused

\* The options of New: every endpoint once, in any order.
Configured == SetToSeqs(Endpoint)

Init ==
    /\ use \in Usage
    /\ array \in IF IsRouter THEN Configured ELSE {<<>>}
    /\ size = Len(array)
    /\ ctxDone = FALSE
    /\ run = [e \in Endpoint |-> IF IsRouter THEN "up" ELSE "new"]
    /\ adds = [e \in Endpoint |-> 0]
    /\ ripe = [e \in Endpoint |-> 0]
    /\ toClose = [e \in Endpoint |-> 0]
    /\ reg = [e \in Endpoint |-> [k \in Key |-> "none"]]
    /\ routers = [k \in Key |-> Nil]
    /\ rKey = [x \in RouterId |-> Nil]
    /\ rState = [x \in RouterId |-> "free"]
    /\ rHook = [x \in RouterId |-> FALSE]
    /\ src = [x \in RouterId |-> {}]
    /\ held = [x \in RouterId |-> 0] /\ leaving = [x \in RouterId |-> 0]
    /\ late = {}
    /\ loop = "idle" /\ pos = 0 /\ upto = 0
    /\ fault = "none"

-----------------------------------------------------------------------------
(* Endpoints (endpoint/direct over linker.go).                             *)

\* Endpoint.Publish or Subscribe: the registered object, or a new one.  A
\* new one is done from the start when its Linker's context is.
Registered(e, k) ==
    IF reg[e][k] # "none" THEN reg[e][k]
    ELSE IF run[e] = "up" THEN "open" ELSE "closed"

\* The endpoints of E lose their objects for the keys of K: routers and late
\* goroutines may still hold those, but they are not the registered ones.
Unregister(E, K) ==
    /\ src' = [x \in RouterId |-> IF rKey[x] \in K THEN src[x] \ E ELSE src[x]]
    /\ late' = {[g EXCEPT !.current = @ /\ ~(g.ep \in E /\ g.key \in K)] : g \in late}

\* Endpoint.Close: its context ends, so do the contexts of its objects, and
\* the hook that tears its Linker down is armed.  Closing twice adds nothing.
ShutEndpoint(e) ==
    /\ run' = [run EXCEPT ![e] = IF @ \in {"up", "cancelled"} THEN "closing" ELSE @]
    /\ ripe' = [ripe EXCEPT ![e] = IF run[e] = "up" /\ ~IsRouter THEN @ + 1 ELSE @]
    /\ reg' = [reg EXCEPT ![e] = [k \in Key |-> IF @[k] = "open" THEN "closed" ELSE @[k]]]

CloseEndpoint(e) ==
    /\ Up /\ MayClose /\ run[e] = "up"
    /\ ShutEndpoint(e)
    /\ UNCHANGED <<use, listVars, ctxDone, toClose, adds, routers, routerVars, src,
                   wrapVars, late, loopVars, fault>>

\* Hook of Linker.Close: the maps are nil from now on.
TearDown(e) ==
    /\ Up /\ run[e] = "closing"
    /\ run' = [run EXCEPT ![e] = "torn"]
    /\ reg' = [reg EXCEPT ![e] = [k \in Key |-> "none"]]
    /\ Unregister({e}, Key)
    /\ UNCHANGED <<use, listVars, ctxDone, ripe, toClose, adds, routers, routerVars,
                   wrapVars, loopVars, fault>>

\* Remove hook of a closed object.
ForgetObject(e, k) ==
    /\ Up /\ reg[e][k] = "closed"
    /\ reg' = [reg EXCEPT ![e][k] = "none"]
    /\ Unregister({e}, {k})
    /\ UNCHANGED <<use, listVars, ctxDone, epVars, adds, routers, routerVars,
                   wrapVars, loopVars, fault>>

-----------------------------------------------------------------------------
(* The list of endpoints.                                                  *)

\* append: NewContainer gives the array room for eight, so it never moves.
AppendEndpoint(e) ==
    /\ array' = IF size < Len(array) THEN [array EXCEPT ![size + 1] = e]
                ELSE Append(array, e)
    /\ size' = size + 1

\* Mutant of Unlist: the endpoint is found but not deleted.
UnlistForgets(e) == UNCHANGED listVars

\* slices.Delete: the rest moves down in place and the last slot is cleared.
Unlist(e) ==
    /\ array' = Append(RemoveFirst(Listed, e), Nil) \o SubSeq(array, size + 1, Len(array))
    /\ size' = size - 1

\* Mutant of Joins: an endpoint that is added gets no existing route.
JoinsNothing(e) == {}

\* The keys that registerEndpointWithRouters offers to a new endpoint.
Joins(e) == {k \in Key : routers[k] # Nil /\ Accepts(e, k)}

\* Endpoint.Init: a new context, under that of the owner, and a new Linker.
InitEndpoint(e) ==
    /\ run' = [run EXCEPT ![e] = IF ctxDone THEN "cancelled" ELSE "up"]
    /\ ripe' = [ripe EXCEPT ![e] = IF ctxDone THEN @ + 1 ELSE @]

(* Container.Add: a duplicate changes nothing.  The endpoint is            *)
(* initialised, a close hook is added, and it joins every route that has a *)
(* router, but for the keys where Publish fails, which are skipped with a  *)
(* warning.                                                                *)
Add(e) ==
    /\ Up /\ ~IsRouter /\ ~IsListed(e)
    /\ adds[e] < IF MayReadd THEN MaxAdds ELSE 1
    /\ adds' = [adds EXCEPT ![e] = @ + 1]
    /\ AppendEndpoint(e)
    /\ InitEndpoint(e)
    /\ \E failed \in IF MayFail THEN SUBSET Joins(e) ELSE {{}} :
        LET joined == Joins(e) \ failed IN
        /\ reg' = [reg EXCEPT ![e] = [k \in Key |->
                      IF k \notin joined THEN "none" ELSE IF ctxDone THEN "closed" ELSE "open"]]
        /\ src' = [x \in RouterId |->
                      IF \E k \in joined : routers[k] = x THEN src[x] \cup {e} ELSE src[x] \ {e}]
    /\ UNCHANGED <<use, ctxDone, toClose, routers, routerVars, wrapVars, late, loopVars, fault>>

(* Container.Remove, called by a user or by the close hook of the          *)
(* endpoint: deletes it from the list, drops the mutex, closes it.         *)
RemoveUnlist(e) ==
    /\ Unlist(e)
    /\ toClose' = [toClose EXCEPT ![e] = @ + 1]

RemoveEndpoint(e) ==
    /\ Up /\ ~IsRouter /\ IsListed(e)
    /\ RemoveUnlist(e)
    /\ UNCHANGED <<use, ctxDone, run, ripe, adds, reg, routers, routerVars, src, wrapVars,
                   late, loopVars, fault>>

\* Mutant of RemoveHook: the hook only logs.
RemoveHookLogs(e) ==
    /\ Up /\ ripe[e] > 0
    /\ ripe' = [ripe EXCEPT ![e] = @ - 1]
    /\ UNCHANGED <<use, listVars, ctxDone, run, toClose, adds, reg, routers, routerVars, src,
                   wrapVars, late, loopVars, fault>>

RemoveHook(e) ==
    /\ Up /\ ripe[e] > 0
    /\ ripe' = [ripe EXCEPT ![e] = @ - 1]
    /\ IF IsListed(e) THEN RemoveUnlist(e) ELSE UNCHANGED <<listVars, toClose>>
    /\ UNCHANGED <<use, ctxDone, run, adds, reg, routers, routerVars, src, wrapVars,
                   late, loopVars, fault>>

RemoveClose(e) ==
    /\ Up /\ toClose[e] > 0
    /\ toClose' = [toClose EXCEPT ![e] = @ - 1]
    /\ ShutEndpoint(e)
    /\ UNCHANGED <<use, listVars, ctxDone, adds, routers, routerVars, src, wrapVars,
                   late, loopVars, fault>>

-----------------------------------------------------------------------------
(* Publish and Subscribe.                                                  *)

\* The endpoints that are asked, and those asked before position j of the list.
AskedBefore(j, k) == {e \in {Listed[i] : i \in 1..(j - 1)} : Accepts(e, k)}
Asked(k) == AskedBefore(size + 1, k)

\* Every new interest of a Router's endpoint makes addInterest start a goroutine.
Callbacks(k, E) ==
    IF IsRouter /\ k[1] = "interest"
    THEN {[ep |-> e, key |-> k, current |-> TRUE] : e \in {e \in E : reg[e][k] = "none"}}
    ELSE {}

NewRouter(x, k, E, wrappers) ==
    /\ rState[x] = "free" /\ \A y \in 1..(x - 1) : rState[y] # "free"
    /\ routers' = [routers EXCEPT ![k] = x]
    /\ rKey' = [rKey EXCEPT ![x] = k]
    /\ rState' = [rState EXCEPT ![x] = IF ctxDone THEN "closed" ELSE "open"]
    /\ rHook' = [rHook EXCEPT ![x] = TRUE]
    /\ src' = [src EXCEPT ![x] = E]
    /\ held' = [held EXCEPT ![x] = wrappers]
    /\ UNCHANGED leaving

\* Mutant of Found: a router that is closed already is not taken.
FoundOpen(k) ==
    IF routers[k] # Nil /\ rState[routers[k]] = "closed" THEN Nil ELSE routers[k]

\* The router that Publish or Subscribe finds for a key.
Found(k) == routers[k]

(* All endpoints agree.  With a router there the user gets another wrapper *)
(* of it, and the objects just registered are not passed on to it; a       *)
(* router whose context is done gives a wrapper that is done.  Otherwise   *)
(* the objects make up a new router.                                       *)
Open(k) ==
    LET E == Asked(k) IN
    /\ Up /\ MayOpen(k) /\ \A e \in E : run[e] # "torn"
    /\ reg' = [e \in Endpoint |-> IF e \in E THEN [reg[e] EXCEPT ![k] = Registered(e, k)]
                                  ELSE reg[e]]
    /\ late' = late \cup Callbacks(k, E)
    /\ IF Found(k) # Nil
       THEN /\ IF rState[Found(k)] = "open"
               THEN /\ held[Found(k)] + leaving[Found(k)] < MaxWrappers
                    /\ held' = [held EXCEPT ![Found(k)] = @ + 1]
               ELSE UNCHANGED held
            /\ UNCHANGED <<routers, routerVars, src, leaving>>
       ELSE \E x \in RouterId : NewRouter(x, k, E, 1)
    /\ UNCHANGED <<use, listVars, ctxDone, epVars, adds, loopVars, fault>>

(* The endpoint at position j fails: closeAll closes what those before it  *)
(* returned, also where that was registered long before.                   *)
OpenFails(k) ==
    /\ Up /\ MayOpen(k) /\ MayFail
    /\ \E j \in {j \in 1..size : Accepts(Listed[j], k)} :
        LET E == AskedBefore(j, k) IN
        /\ \A e \in E : run[e] # "torn"
        /\ reg' = [e \in Endpoint |-> IF e \in E THEN [reg[e] EXCEPT ![k] = "closed"] ELSE reg[e]]
        /\ late' = late \cup Callbacks(k, E)
    /\ UNCHANGED <<use, listVars, ctxDone, epVars, adds, routers, routerVars, src, wrapVars,
                   loopVars, fault>>

\* An endpoint whose Linker is torn down writes to a nil map.
OpenCrashes(k) ==
    /\ Up /\ MayOpen(k) /\ \E e \in Asked(k) : run[e] = "torn"
    /\ fault' = "nilMap"
    /\ UNCHANGED <<use, listVars, ctxDone, epVars, adds, reg, routers, routerVars, src,
                   wrapVars, late, loopVars>>

Publish(r) ==
    LET k == <<"intent", r>> IN Open(k) \/ OpenFails(k) \/ OpenCrashes(k)

Subscribe(r) ==
    LET k == <<"interest", r>> IN Open(k) \/ OpenFails(k) \/ OpenCrashes(k)

(* The goroutine of Router.addInterest: adds the interest to the router of *)
(* its route, or makes one that nobody has wrapped.                        *)
AddInterest(g) ==
    LET E == IF g.current THEN {g.ep} ELSE {} IN
    /\ Up
    /\ late' = late \ {g}
    /\ IF routers[g.key] # Nil
       THEN /\ src' = [src EXCEPT ![routers[g.key]] = @ \cup E]
            /\ UNCHANGED <<routers, routerVars, wrapVars>>
       ELSE \E x \in RouterId : NewRouter(x, g.key, E, 0)
    /\ UNCHANGED <<use, listVars, ctxDone, epVars, adds, reg, loopVars, fault>>

-----------------------------------------------------------------------------
(* Wrappers and routers (intent.go, interest.go).  Once a router's context *)
(* is done its wrappers are done, and the owner does not see them leave.   *)
CloseWrapper(x) ==
    /\ Up /\ rState[x] = "open" /\ held[x] > 0
    /\ held' = [held EXCEPT ![x] = @ - 1]
    /\ leaving' = [leaving EXCEPT ![x] = @ + 1]
    /\ UNCHANGED <<use, listVars, ctxDone, epVars, adds, reg, routers, routerVars, src,
                   late, loopVars, fault>>

\* removeWrapper: the last one closes the router.
RemoveWrapper(x) ==
    /\ Up /\ rState[x] = "open" /\ leaving[x] > 0
    /\ leaving' = [leaving EXCEPT ![x] = @ - 1]
    /\ rState' = [rState EXCEPT ![x] = IF held[x] + leaving'[x] = 0 THEN "closed" ELSE @]
    /\ UNCHANGED <<use, listVars, ctxDone, epVars, adds, reg, routers, rKey, rHook, src,
                   held, late, loopVars, fault>>

\* The hook added by Publish and Subscribe: deletes whatever the key has.
ForgetRouter(x) ==
    /\ Up /\ rState[x] = "closed" /\ rHook[x]
    /\ rHook' = [rHook EXCEPT ![x] = FALSE]
    /\ routers' = [routers EXCEPT ![rKey[x]] = Nil]
    /\ UNCHANGED <<use, listVars, ctxDone, epVars, adds, reg, rKey, rState, src, wrapVars,
                   late, loopVars, fault>>

-----------------------------------------------------------------------------
(* Container.Close, without the mutex: closes the endpoints of the slice   *)
(* as it was when the loop began, reading slots that Remove may have       *)
(* shifted and cleared by then, and forgets the list.                      *)
CloseBegin ==
    /\ Up /\ MayShutdown /\ ~IsRouter /\ loop = "idle"
    /\ loop' = "closing" /\ pos' = 1 /\ upto' = size
    /\ UNCHANGED <<use, listVars, ctxDone, epVars, adds, reg, routers, routerVars, src,
                   wrapVars, late, fault>>

CloseNext ==
    /\ Up /\ loop = "closing" /\ pos <= upto
    /\ pos' = pos + 1
    /\ IF array[pos] = Nil
       THEN fault' = "nilEndpoint" /\ UNCHANGED <<run, ripe, reg>>
       ELSE ShutEndpoint(array[pos]) /\ UNCHANGED fault
    /\ UNCHANGED <<use, listVars, ctxDone, toClose, adds, routers, routerVars, src, wrapVars,
                   late, loop, upto>>

CloseEnd ==
    /\ Up /\ loop = "closing" /\ pos > upto
    /\ loop' = "cancelling"
    /\ array' = <<>> /\ size' = 0
    /\ UNCHANGED <<use, ctxDone, epVars, adds, reg, routers, routerVars, src, wrapVars,
                   late, pos, upto, fault>>

(* The owner's context ends, at the end of Close or with its parent: all   *)
(* routers, endpoints and objects are done.                                *)
ContextEnds ==
    /\ Up /\ MayShutdown /\ ~ctxDone
    /\ ctxDone' = TRUE
    /\ rState' = [x \in RouterId |-> IF rState[x] = "open" THEN "closed" ELSE rState[x]]
    /\ run' = [e \in Endpoint |-> IF run[e] = "up" THEN "cancelled" ELSE run[e]]
    /\ ripe' = [e \in Endpoint |-> IF run[e] = "up" /\ ~IsRouter THEN ripe[e] + 1 ELSE ripe[e]]
    /\ reg' = [e \in Endpoint |-> [k \in Key |->
                  IF reg[e][k] = "open" THEN "closed" ELSE reg[e][k]]]
    /\ UNCHANGED <<use, listVars, toClose, adds, routers, rKey, rHook, src, wrapVars, late,
                   loopVars, fault>>

-----------------------------------------------------------------------------
Next ==
    \/ \E e \in Endpoint :
        \/ Add(e) \/ RemoveEndpoint(e) \/ RemoveHook(e) \/ RemoveClose(e)
        \/ CloseEndpoint(e) \/ TearDown(e)
        \/ \E k \in Key : ForgetObject(e, k)
    \/ \E r \in PubRoute : Publish(r)
    \/ \E r \in SubRoute : Subscribe(r)
    \/ \E g \in late : AddInterest(g)
    \/ \E x \in RouterId : CloseWrapper(x) \/ RemoveWrapper(x) \/ ForgetRouter(x)
    \/ CloseBegin \/ CloseNext \/ CloseEnd \/ ContextEnds

Spec == Init /\ [][Next]_vars

(* Hooks, the rest of a Remove and the loop of Close run when they can.    *)
Fairness ==
    /\ \A e \in Endpoint :
        /\ WF_vars(RemoveHook(e)) /\ WF_vars(RemoveClose(e)) /\ WF_vars(TearDown(e))
        /\ \A k \in Key : WF_vars(ForgetObject(e, k))
    /\ \A x \in RouterId : WF_vars(RemoveWrapper(x)) /\ WF_vars(ForgetRouter(x))
    /\ WF_vars(CloseNext) /\ WF_vars(CloseEnd)
    /\ WF_vars(loop = "cancelling" /\ ContextEnds)

FairSpec == Spec /\ Fairness
-----------------------------------------------------------------------------
(* A router that is open is the one its key finds, although the hooks that *)
(* forget a router (container.go 269-273, dndm.go 123-127) delete by route *)
(* and run late: users of one route never end up on two routers.           *)
OpenRouterFound ==
    \A x \in RouterId : rState[x] = "open" => routers[rKey[x]] = x

(* As long as no endpoint fails a Publish or Subscribe (~MayFail), whatever *)
(* the order of Add and Publish, every endpoint that is listed, is up and  *)
(* accepts a route takes part in it: the router of the route sends or      *)
(* receives through the object the endpoint has registered, and it is open *)
(* (container.go 111-172, 238-277).  A Router keeps this for intents only: *)
(* a late addInterest may make a router out of one endpoint's interest.    *)
(* After a failure closeAll has closed objects that open routers use.      *)
EveryEndpointJoins ==
    ~MayFail => \A x \in RouterId : rState[x] = "open" =>
        \A e \in ToSet(Listed) :
            run[e] = "up" /\ Accepts(e, rKey[x]) /\ (IsRouter => rKey[x][1] = "intent") =>
                e \in src[x] /\ reg[e][rKey[x]] = "open"

(* Removing an endpoint is safe at any time: because Remove deletes before *)
(* it closes, no Publish, Subscribe or Add meets a Linker that has been    *)
(* torn down (container.go 174-185), nor does anything else crash, as long *)
(* as endpoints are neither closed directly nor added a second time.       *)
RemovalIsSafe == ~MayClose /\ ~MayShutdown /\ ~MayReadd => fault = "none"

(* An endpoint that dies, however that happens, leaves the container: its  *)
(* close hook finds it, even when it died while it was being added         *)
(* (container.go 103-106).                                                  *)
DeadEndpointLeaves ==
    \A e \in Endpoint :
        (IsListed(e) /\ run[e] # "up" /\ ~IsRouter) ~>
            (~IsListed(e) \/ run[e] = "up" \/ fault # "none")
=============================================================================
