-------------------------- MODULE ContainerProofs ---------------------------
(* Theorems about Container, for every set of endpoints and routes, every     *)
(* bound and every way of using it.                                           *)
EXTENDS Container, SequenceLemmas

(* The goroutines of addInterest name a key. *)
LateNamesKey(G) ==
    \A g \in G : g.key \in Key /\ g = [ep |-> g.ep, key |-> g.key, current |-> g.current]

(* A router is the one its key finds from its creation until its own hook has *)
(* run, because no other router is made for the key while there is one; and   *)
(* the hook of an open router has not run.                                    *)
RouterInv ==
    /\ routers \in [Key -> RouterId \cup {Nil}]
    /\ rKey \in [RouterId -> Key \cup {Nil}]
    /\ rState \in [RouterId -> {"free", "open", "closed"}]
    /\ rHook \in [RouterId -> BOOLEAN]
    /\ LateNamesKey(late)
    /\ \A x \in RouterId :
        /\ rState[x] = "free" => rHook[x] = FALSE
        /\ rState[x] = "open" => rHook[x] = TRUE
        /\ rHook[x] = TRUE => rKey[x] \in Key /\ routers[rKey[x]] = x

(* Making a router for a key that has none, as the end of Publish, Subscribe  *)
(* and addInterest does, keeps RouterInv.                                     *)
LEMMA NewRouterKeeps ==
    ASSUME RouterInv, NEW k \in Key, routers[k] = Nil, NEW x \in RouterId,
           NEW E, NEW w, NewRouter(x, k, E, w), LateNamesKey(late')
    PROVE  RouterInv'
<1>1. \A y \in RouterId : rHook[y] = TRUE => rKey[y] # k
    BY NilAssumption DEF RouterInv
<1> QED
    BY <1>1, NilAssumption DEF RouterInv, NewRouter, LateNamesKey

(* A step that leaves the maps and the routers alone keeps RouterInv. *)
LEMMA FrameKeeps ==
    ASSUME RouterInv, UNCHANGED <<routers, routerVars>>, LateNamesKey(late')
    PROVE  RouterInv'
BY DEF RouterInv, routerVars, LateNamesKey

(* Late goroutines of addInterest keep naming a key when objects of closed    *)
(* endpoints or closed objects go away.                                       *)
LEMMA UnregisterKeeps ==
    ASSUME RouterInv, NEW E, NEW K, Unregister(E, K), UNCHANGED <<routers, routerVars>>
    PROVE  RouterInv'
<1>1. LateNamesKey(late')
    <2> SUFFICES ASSUME NEW h \in late'
                 PROVE  /\ h.key \in Key
                        /\ h = [ep |-> h.ep, key |-> h.key, current |-> h.current]
        BY DEF LateNamesKey
    <2>1. PICK g \in late : h = [g EXCEPT !.current = @ /\ ~(g.ep \in E /\ g.key \in K)]
        BY DEF Unregister
    <2>2. g.key \in Key /\ g = [ep |-> g.ep, key |-> g.key, current |-> g.current]
        BY DEF RouterInv, LateNamesKey
    <2>3. h = [ep |-> g.ep, key |-> g.key,
               current |-> g.current /\ ~(g.ep \in E /\ g.key \in K)]
        BY <2>1, <2>2
    <2> QED
        BY <2>2, <2>3
<1> QED
    BY <1>1, FrameKeeps

(* The goroutines that Publish and Subscribe start name the key they open. *)
LEMMA CallbacksNameKey ==
    ASSUME RouterInv, NEW k \in Key, NEW E
    PROVE  LateNamesKey(late \cup Callbacks(k, E))
<1>1. ASSUME NEW g \in Callbacks(k, E)
      PROVE  g.key \in Key /\ g = [ep |-> g.ep, key |-> g.key, current |-> g.current]
    <2>1. PICK e : g = [ep |-> e, key |-> k, current |-> TRUE]
        BY <1>1 DEF Callbacks
    <2> QED
        BY <2>1
<1> QED
    BY <1>1 DEF RouterInv, LateNamesKey

(* Publish and Subscribe, in all their outcomes, keep RouterInv: they make a  *)
(* router only where the key has none.                                        *)
LEMMA OpenKeeps ==
    ASSUME RouterInv, NEW k \in Key, Open(k) \/ OpenFails(k) \/ OpenCrashes(k)
    PROVE  RouterInv'
<1>1. CASE Open(k)
    <2>1. LateNamesKey(late')
        BY <1>1, CallbacksNameKey DEF Open
    <2>2. CASE Found(k) # Nil
        <3>1. UNCHANGED <<routers, routerVars>>
            BY <1>1, <2>2 DEF Open
        <3> QED
            BY <2>1, <3>1, FrameKeeps
    <2>3. CASE Found(k) = Nil
        <3>1. PICK x \in RouterId : NewRouter(x, k, Asked(k), 1)
            BY <1>1, <2>3 DEF Open
        <3>2. routers[k] = Nil
            BY <2>3 DEF Found
        <3> QED
            BY <2>1, <3>1, <3>2, NewRouterKeeps
    <2> QED
        BY <2>2, <2>3
<1>2. CASE OpenFails(k)
    <2>1. UNCHANGED <<routers, routerVars>>
        BY <1>2 DEF OpenFails
    <2>2. PICK j \in 1..size : late' = late \cup Callbacks(k, AskedBefore(j, k))
        BY <1>2 DEF OpenFails
    <2>3. LateNamesKey(late')
        BY <2>2, CallbacksNameKey
    <2> QED
        BY <2>1, <2>3, FrameKeeps
<1>3. CASE OpenCrashes(k)
    <2>1. UNCHANGED <<routers, routerVars, late>>
        BY <1>3 DEF OpenCrashes
    <2> QED
        BY <2>1, FrameKeeps DEF RouterInv
<1> QED
    BY <1>1, <1>2, <1>3

(* A late goroutine of addInterest keeps RouterInv: it adds to the router of  *)
(* its key or makes the first one.                                            *)
LEMMA AddInterestKeeps ==
    ASSUME RouterInv, NEW g \in late, AddInterest(g)
    PROVE  RouterInv'
<1>1. LateNamesKey(late')
    BY DEF AddInterest, RouterInv, LateNamesKey
<1>2. g.key \in Key
    BY DEF RouterInv, LateNamesKey
<1>3. CASE routers[g.key] # Nil
    <2>1. UNCHANGED <<routers, routerVars>>
        BY <1>3 DEF AddInterest
    <2> QED
        BY <1>1, <2>1, FrameKeeps
<1>4. CASE routers[g.key] = Nil
    <2>1. PICK x \in RouterId : NewRouter(x, g.key, IF g.current THEN {g.ep} ELSE {}, 0)
        BY <1>4 DEF AddInterest
    <2> QED
        BY <1>1, <1>2, <1>4, <2>1, NewRouterKeeps
<1> QED
    BY <1>3, <1>4

(* Every step of the owner, its users, its endpoints and the hooks keeps      *)
(* RouterInv.                                                                 *)
LEMMA RouterStep ==
    ASSUME RouterInv, [Next]_vars
    PROVE  RouterInv'
<1>a. ASSUME UNCHANGED <<routers, routerVars, late>>
      PROVE  RouterInv'
    BY <1>a, FrameKeeps DEF RouterInv
<1>1. CASE \E e \in Endpoint : \/ Add(e) \/ RemoveEndpoint(e) \/ RemoveHook(e)
                               \/ RemoveClose(e) \/ CloseEndpoint(e)
    <2>1. UNCHANGED <<routers, routerVars, late>>
        BY <1>1 DEF Add, RemoveEndpoint, RemoveHook, RemoveClose, CloseEndpoint
    <2> QED
        BY <2>1, <1>a
<1>2. ASSUME NEW e \in Endpoint, TearDown(e)
      PROVE  RouterInv'
    BY <1>2, UnregisterKeeps DEF TearDown
<1>3. ASSUME NEW e \in Endpoint, NEW k \in Key, ForgetObject(e, k)
      PROVE  RouterInv'
    BY <1>3, UnregisterKeeps DEF ForgetObject
<1>4. ASSUME NEW r \in PubRoute, Publish(r)
      PROVE  RouterInv'
    <2>1. <<"intent", r>> \in Key
        BY DEF Key
    <2> QED
        BY <1>4, <2>1, OpenKeeps DEF Publish
<1>5. ASSUME NEW r \in SubRoute, Subscribe(r)
      PROVE  RouterInv'
    <2>1. <<"interest", r>> \in Key
        BY DEF Key
    <2> QED
        BY <1>5, <2>1, OpenKeeps DEF Subscribe
<1>6. ASSUME NEW g \in late, AddInterest(g)
      PROVE  RouterInv'
    BY <1>6, AddInterestKeeps
<1>7. ASSUME NEW x \in RouterId, CloseWrapper(x)
      PROVE  RouterInv'
    BY <1>7, <1>a DEF CloseWrapper
<1>8. ASSUME NEW x \in RouterId, RemoveWrapper(x)
      PROVE  RouterInv'
    BY <1>8 DEF RemoveWrapper, RouterInv, LateNamesKey
<1>9. ASSUME NEW x \in RouterId, ForgetRouter(x)
      PROVE  RouterInv'
    BY <1>9 DEF ForgetRouter, RouterInv, LateNamesKey
<1>10. CASE CloseBegin \/ CloseNext \/ CloseEnd
    <2>1. UNCHANGED <<routers, routerVars, late>>
        BY <1>10 DEF CloseBegin, CloseNext, CloseEnd
    <2> QED
        BY <2>1, <1>a
<1>11. CASE ContextEnds
    BY <1>11 DEF ContextEnds, RouterInv, LateNamesKey
<1>12. CASE UNCHANGED vars
    BY <1>12, <1>a DEF vars
<1> QED
    BY <1>1, <1>2, <1>3, <1>4, <1>5, <1>6, <1>7, <1>8, <1>9, <1>10, <1>11, <1>12 DEF Next

(* An open router is the one its key finds, whatever the order of closing     *)
(* wrappers, of the hooks that forget routers by route, and of new calls of   *)
(* Publish and Subscribe.                                                     *)
THEOREM OpenRouterCorrect == Spec => []OpenRouterFound
<1>1. Init => RouterInv
    BY DEF Init, RouterInv, LateNamesKey
<1>2. RouterInv /\ [Next]_vars => RouterInv'
    BY RouterStep
<1>3. RouterInv => OpenRouterFound
    BY DEF RouterInv, OpenRouterFound
<1> QED
    BY <1>1, <1>2, <1>3, PTL DEF Spec

-----------------------------------------------------------------------------
(* The list of endpoints. *)

(* The slice is within its array and lists endpoints, each once.              *)
ListInv ==
    /\ array \in Seq(Endpoint \cup {Nil})
    /\ size \in 0..Len(array)
    /\ Listed \in Seq(Endpoint)
    /\ IsInjective(Listed)

(* append puts a new endpoint behind the listed ones, also where the array    *)
(* still has room from earlier removals.                                      *)
LEMMA AppendLists ==
    ASSUME ListInv, NEW e \in Endpoint, ~IsListed(e), AppendEndpoint(e)
    PROVE  ListInv' /\ ToSet(Listed') = ToSet(Listed) \cup {e}
<1>1. /\ array \in Seq(Endpoint \cup {Nil}) /\ Len(array) \in Nat /\ size \in Nat
      /\ size <= Len(array) /\ size' = size + 1
    BY DEF ListInv, AppendEndpoint
<1>2. /\ array' \in Seq(Endpoint \cup {Nil}) /\ size + 1 <= Len(array')
      /\ \A i \in 1..size : array'[i] = array[i]
      /\ array'[size + 1] = e
    <2>1. CASE size < Len(array)
        BY <1>1, <2>1 DEF AppendEndpoint
    <2>2. CASE ~(size < Len(array))
        BY <1>1, <2>2 DEF AppendEndpoint
    <2> QED
        BY <2>1, <2>2
<1>3. Listed' = Append(Listed, e)
    <2>1. Listed' = SubSeq(array', 1, size + 1)
        BY <1>1 DEF Listed
    <2>2. /\ Listed \in Seq(Endpoint) /\ Len(Listed) = size
          /\ \A i \in 1..size : Listed[i] = array[i]
        BY <1>1 DEF Listed, ListInv
    <2>3. /\ SubSeq(array', 1, size + 1) \in Seq(Endpoint \cup {Nil})
          /\ Len(SubSeq(array', 1, size + 1)) = size + 1
          /\ \A i \in 1..(size + 1) : SubSeq(array', 1, size + 1)[i] = array'[i]
        BY <1>1, <1>2
    <2> DEFINE t == SubSeq(array', 1, size + 1)
    <2> HIDE DEF t
    <2>4. t = Append(Listed, e)
        <3>1. /\ Append(Listed, e) \in Seq(Endpoint \cup {Nil}) /\ Len(Append(Listed, e)) = size + 1
              /\ \A i \in 1..size : Append(Listed, e)[i] = Listed[i]
              /\ Append(Listed, e)[size + 1] = e
            BY <2>2
        <3>2. /\ t \in Seq(Endpoint \cup {Nil}) /\ Len(t) = size + 1
              /\ \A i \in 1..(size + 1) : t[i] = array'[i]
            BY <2>3 DEF t
        <3>3. \A i \in 1..(size + 1) : t[i] = Append(Listed, e)[i]
            BY <1>1, <1>2, <2>2, <3>1, <3>2
        <3> QED
            BY <3>1, <3>2, <3>3, SeqEqual
    <2> QED
        BY <2>1, <2>4 DEF t
<1>4. /\ Append(Listed, e) \in Seq(Endpoint) /\ IsInjective(Append(Listed, e))
      /\ ToSet(Append(Listed, e)) = ToSet(Listed) \cup {e}
    BY AppendNew DEF ListInv, IsListed
<1>5. size' \in 0..Len(array')
    BY <1>1, <1>2
<1> QED
    BY <1>2, <1>3, <1>4, <1>5 DEF ListInv

(* slices.Delete takes exactly the endpoint out of the list.                  *)
LEMMA UnlistTakes ==
    ASSUME ListInv, NEW e \in Endpoint, IsListed(e), Unlist(e)
    PROVE  ListInv' /\ ToSet(Listed') = ToSet(Listed) \ {e}
<1>1. /\ array \in Seq(Endpoint \cup {Nil}) /\ Len(array) \in Nat /\ size \in Nat
      /\ size <= Len(array) /\ size' = size - 1
      /\ Listed \in Seq(Endpoint) /\ Len(Listed) = size /\ IsInjective(Listed)
    BY DEF ListInv, Unlist, Listed
<1> DEFINE r == RemoveFirst(Listed, e)
           b == SubSeq(array, size + 1, Len(array))
<1>2. /\ r \in Seq(Endpoint) /\ Len(r) = size - 1 /\ IsInjective(r)
      /\ ToSet(r) = ToSet(Listed) \ {e}
    BY <1>1, RemoveFirstOf DEF IsListed
<1>3. b \in Seq(Endpoint \cup {Nil}) /\ Len(b) \in Nat
    BY <1>1
<1>4. array' = Append(r, Nil) \o b
    BY DEF Unlist
<1>a. Listed' = SubSeq(array', 1, size - 1)
    BY <1>1 DEF Listed
<1> HIDE DEF r, b
<1>5. size - 1 \in Nat
    BY <1>2
<1>6. /\ Append(r, Nil) \in Seq(Endpoint \cup {Nil}) /\ Len(Append(r, Nil)) = size
      /\ \A i \in 1..(size - 1) : Append(r, Nil)[i] = r[i]
    BY <1>1, <1>2
<1> DEFINE t == Append(r, Nil)
<1> HIDE DEF t
<1>7. /\ array' \in Seq(Endpoint \cup {Nil}) /\ Len(array') = size + Len(b)
      /\ \A i \in 1..(size - 1) : array'[i] = r[i]
    <2>1. t \in Seq(Endpoint \cup {Nil}) /\ Len(t) = size /\ \A i \in 1..(size - 1) : t[i] = r[i]
        BY <1>6 DEF t
    <2>2. array' = t \o b
        BY <1>4 DEF t
    <2>3. /\ t \o b \in Seq(Endpoint \cup {Nil}) /\ Len(t \o b) = Len(t) + Len(b)
          /\ \A i \in 1..(Len(t) + Len(b)) : (t \o b)[i] = IF i <= Len(t) THEN t[i] ELSE b[i - Len(t)]
        BY <1>3, <2>1, ConcatProperties
    <2>4. \A i \in 1..(size - 1) : (t \o b)[i] = t[i]
        BY <1>1, <1>3, <2>1, <2>3
    <2> QED
        BY <2>1, <2>2, <2>3, <2>4
<1>8. SubSeq(array', 1, size - 1) = r
    <2> DEFINE u == SubSeq(array', 1, size - 1)
    <2>a. size - 1 <= Len(array') /\ Len(array') \in Nat
        BY <1>1, <1>3, <1>5, <1>7
    <2>1. /\ u \in Seq(Endpoint \cup {Nil}) /\ Len(u) = size - 1
          /\ \A i \in 1..(size - 1) : u[i] = array'[i]
        BY <2>a, <1>5, <1>7
    <2> HIDE DEF u
    <2>2. u = r
        BY <1>2, <1>5, <1>7, <2>1, SeqEqual
    <2> QED
        BY <2>2 DEF u
<1>9. size' \in 0..Len(array')
    BY <1>1, <1>3, <1>5, <1>7
<1> QED
    BY <1>2, <1>7, <1>8, <1>9, <1>a DEF ListInv, r

-----------------------------------------------------------------------------
(* Endpoints, their objects and the goroutines of addInterest. *)

OwnerInv ==
    /\ ListInv
    /\ run \in [Endpoint -> {"new", "up", "cancelled", "closing", "torn"}]
    /\ adds \in [Endpoint -> Nat] /\ ripe \in [Endpoint -> Nat] /\ toClose \in [Endpoint -> Nat]
    /\ reg \in [Endpoint -> [Key -> {"none", "open", "closed"}]]
    /\ DOMAIN src = RouterId /\ src = [x \in RouterId |-> src[x]]
    /\ ctxDone \in BOOLEAN
    /\ IsRouter => \A e \in Endpoint : ripe[e] = 0
    /\ late # {} => IsRouter
    /\ \A g \in late : g.key[1] = "interest"

(* The owner is used in one way throughout. *)
LEMMA UseIsFixed == ASSUME [Next]_vars PROVE use' = use
BY DEF Next, vars, Add, RemoveEndpoint, RemoveHook, RemoveClose, CloseEndpoint, TearDown,
       ForgetObject, Publish, Subscribe, Open, OpenFails, OpenCrashes, AddInterest,
       CloseWrapper, RemoveWrapper, ForgetRouter, CloseBegin, CloseNext, CloseEnd, ContextEnds

(* What is listed at the start: nothing, or the configured endpoints.         *)
LEMMA InitialList == Init => ListInv
<1> SUFFICES ASSUME Init
             PROVE  ListInv
    OBVIOUS
<1>1. array \in Seq(Endpoint) /\ IsInjective(array)
    <2>1. CASE array = <<>>
        BY <2>1, EmptyOrder
    <2>2. CASE array \in Configured
        <3>1. Cardinality(Endpoint) \in Nat
            BY EndpointAssumption, FS_CardinalityType
        <3> QED
            BY <2>2, <3>1 DEF Configured, SetToSeqs, IsInjective
    <2> QED
        BY <2>1, <2>2 DEF Init
<1>2. size = Len(array) /\ Listed = array
    BY <1>1 DEF Init, Listed
<1>3. array \in Seq(Endpoint \cup {Nil})
    BY <1>1
<1> QED
    BY <1>1, <1>2, <1>3 DEF ListInv

(* Only Add makes an endpoint listed.                                         *)
LEMMA ListStep ==
    ASSUME ListInv, [Next]_vars
    PROVE  /\ ListInv'
           /\ \A e \in ToSet(Listed') : e \in ToSet(Listed) \/ Add(e)
<1>a. ASSUME UNCHANGED listVars
      PROVE  ListInv' /\ ToSet(Listed') = ToSet(Listed)
    BY <1>a DEF ListInv, Listed, listVars
<1>1. ASSUME NEW e \in Endpoint, Add(e)
      PROVE  ListInv' /\ ToSet(Listed') = ToSet(Listed) \cup {e}
    BY <1>1, AppendLists DEF Add
<1>2. ASSUME NEW e \in Endpoint, RemoveEndpoint(e) \/ RemoveHook(e)
      PROVE  ListInv' /\ ToSet(Listed') \subseteq ToSet(Listed)
    <2>1. UNCHANGED listVars \/ (IsListed(e) /\ Unlist(e))
        BY <1>2 DEF RemoveEndpoint, RemoveHook, RemoveUnlist, listVars
    <2> QED
        BY <2>1, <1>a, UnlistTakes
<1>3. CASE CloseEnd
    <2>1. array' = <<>> /\ size' = 0 /\ Listed' = <<>>
        BY <1>3 DEF CloseEnd, Listed
    <2> QED
        BY <2>1, EmptyOrder DEF ListInv
<1>4. CASE ~CloseEnd /\ ~\E e \in Endpoint : Add(e) \/ RemoveEndpoint(e) \/ RemoveHook(e)
    <2>1. UNCHANGED listVars
        BY <1>4 DEF Next, vars, RemoveClose, CloseEndpoint, TearDown, ForgetObject, Publish,
               Subscribe, Open, OpenFails, OpenCrashes, AddInterest, CloseWrapper,
               RemoveWrapper, ForgetRouter, CloseBegin, CloseNext, ContextEnds
    <2> QED
        BY <2>1, <1>a
<1> QED
    BY <1>1, <1>2, <1>3, <1>4

(* Every step keeps OwnerInv: only interests of a Router's endpoints start    *)
(* goroutines, and a Router's endpoints have no close hook of the owner.      *)
LEMMA OwnerStep ==
    ASSUME OwnerInv, RouterInv, [Next]_vars
    PROVE  OwnerInv'
<1>0. ListInv' /\ use' = use
    BY ListStep, UseIsFixed DEF OwnerInv
<1> USE <1>0 DEF IsRouter
<1>a. ASSUME UNCHANGED <<run, adds, ripe, toClose, reg, src, ctxDone, late>>
      PROVE  OwnerInv'
    BY <1>a DEF OwnerInv
<1>b. ASSUME NEW e, ShutEndpoint(e), UNCHANGED <<adds, src, ctxDone, late>>,
             toClose' \in [Endpoint -> Nat]
      PROVE  OwnerInv'
    <2>1. /\ run' \in [Endpoint -> {"new", "up", "cancelled", "closing", "torn"}]
          /\ ripe' \in [Endpoint -> Nat]
          /\ reg' \in [Endpoint -> [Key -> {"none", "open", "closed"}]]
        <3>1. run' \in [Endpoint -> {"new", "up", "cancelled", "closing", "torn"}]
            BY <1>b DEF OwnerInv, ShutEndpoint
        <3>2. ripe' \in [Endpoint -> Nat]
            <4>1. CASE e \in Endpoint
                BY <1>b, <4>1 DEF OwnerInv, ShutEndpoint
            <4>2. CASE e \notin Endpoint
                <5>1. PICK v : ripe' = [ripe EXCEPT ![e] = v]
                    BY <1>b DEF ShutEndpoint
                <5> QED
                    BY <4>2, <5>1 DEF OwnerInv
            <4> QED
                BY <4>1, <4>2
        <3>3. reg' \in [Endpoint -> [Key -> {"none", "open", "closed"}]]
            BY <1>b DEF OwnerInv, ShutEndpoint
        <3> QED
            BY <3>1, <3>2, <3>3
    <2>2. IsRouter => \A d \in Endpoint : ripe'[d] = ripe[d]
        BY <1>b DEF OwnerInv, ShutEndpoint
    <2> QED
        BY <1>b, <2>1, <2>2 DEF OwnerInv
<1>c. ASSUME NEW E, NEW K, Unregister(E, K), UNCHANGED <<adds, ripe, toClose, ctxDone>>,
             run' \in [Endpoint -> {"new", "up", "cancelled", "closing", "torn"}],
             reg' \in [Endpoint -> [Key -> {"none", "open", "closed"}]]
      PROVE  OwnerInv'
    <2>1. ASSUME NEW h \in late'
          PROVE  late # {} /\ h.key[1] = "interest"
        <3>1. PICK g \in late : h = [g EXCEPT !.current = @ /\ ~(g.ep \in E /\ g.key \in K)]
            BY <1>c, <2>1 DEF Unregister
        <3>2. g = [ep |-> g.ep, key |-> g.key, current |-> g.current] /\ g.key[1] = "interest"
            BY DEF RouterInv, LateNamesKey, OwnerInv
        <3>3. h = [ep |-> g.ep, key |-> g.key,
                   current |-> g.current /\ ~(g.ep \in E /\ g.key \in K)]
            BY <3>1, <3>2
        <3>4. h.key = g.key
            BY <3>3
        <3> QED
            BY <3>2, <3>4
    <2>2. DOMAIN src' = RouterId /\ src' = [x \in RouterId |-> src'[x]]
        BY <1>c DEF Unregister
    <2> QED
        BY <1>c, <2>1, <2>2 DEF OwnerInv
<1>1. ASSUME NEW e \in Endpoint, Add(e)
      PROVE  OwnerInv'
    <2>1. ~IsRouter /\ UNCHANGED <<toClose, ctxDone, late>>
        BY <1>1 DEF Add
    <2>2. /\ run' \in [Endpoint -> {"new", "up", "cancelled", "closing", "torn"}]
          /\ ripe' \in [Endpoint -> Nat] /\ adds' \in [Endpoint -> Nat]
        BY <1>1 DEF Add, InitEndpoint, OwnerInv
    <2>3. /\ reg' \in [Endpoint -> [Key -> {"none", "open", "closed"}]]
          /\ DOMAIN src' = RouterId /\ src' = [x \in RouterId |-> src'[x]]
        BY <1>1 DEF Add, OwnerInv
    <2> QED
        BY <2>1, <2>2, <2>3 DEF OwnerInv
<1>2. ASSUME NEW e \in Endpoint, RemoveEndpoint(e) \/ RemoveHook(e)
      PROVE  OwnerInv'
    <2>1. toClose' \in [Endpoint -> Nat] /\ ripe' \in [Endpoint -> Nat]
        <3>1. CASE RemoveEndpoint(e)
            BY <3>1 DEF RemoveEndpoint, RemoveUnlist, OwnerInv
        <3>2. CASE RemoveHook(e)
            <4>1. ripe' \in [Endpoint -> Nat]
                BY <3>2 DEF RemoveHook, OwnerInv
            <4>2. toClose' = toClose \/ toClose' = [toClose EXCEPT ![e] = @ + 1]
                BY <3>2 DEF RemoveHook, RemoveUnlist
            <4> QED
                BY <4>1, <4>2 DEF OwnerInv
        <3> QED
            BY <1>2, <3>1, <3>2
    <2>a. IsRouter => ripe' = ripe
        BY <1>2 DEF RemoveEndpoint, RemoveHook, OwnerInv
    <2>2. UNCHANGED <<run, adds, reg, src, ctxDone, late>>
        BY <1>2 DEF RemoveEndpoint, RemoveHook
    <2> QED
        BY <2>1, <2>a, <2>2 DEF OwnerInv
<1>3. ASSUME NEW e \in Endpoint, RemoveClose(e) \/ CloseEndpoint(e)
      PROVE  OwnerInv'
    <2>1. ShutEndpoint(e) /\ UNCHANGED <<adds, src, ctxDone, late>>
        BY <1>3 DEF RemoveClose, CloseEndpoint
    <2>2. toClose' \in [Endpoint -> Nat]
        BY <1>3 DEF RemoveClose, CloseEndpoint, OwnerInv
    <2> QED
        BY <2>1, <2>2, <1>b
<1>4. ASSUME NEW e \in Endpoint, TearDown(e)
      PROVE  OwnerInv'
    BY <1>4, <1>c DEF TearDown, OwnerInv
<1>5. ASSUME NEW e \in Endpoint, NEW k \in Key, ForgetObject(e, k)
      PROVE  OwnerInv'
    <2>1. reg' \in [Endpoint -> [Key -> {"none", "open", "closed"}]]
        BY <1>5 DEF ForgetObject, OwnerInv
    <2> QED
        BY <1>5, <2>1, <1>c DEF ForgetObject, OwnerInv, epVars
<1>6. ASSUME NEW k \in Key, Open(k) \/ OpenFails(k) \/ OpenCrashes(k)
      PROVE  OwnerInv'
    <2>1. UNCHANGED <<run, adds, ripe, toClose, ctxDone>>
        BY <1>6 DEF Open, OpenFails, OpenCrashes, epVars
    <2>2. reg' \in [Endpoint -> [Key -> {"none", "open", "closed"}]]
        BY <1>6 DEF Open, OpenFails, OpenCrashes, OwnerInv, Registered
    <2>3. DOMAIN src' = RouterId /\ src' = [x \in RouterId |-> src'[x]]
        <3>1. src' = src \/ \E x \in RouterId : \E E : src' = [src EXCEPT ![x] = E]
            BY <1>6 DEF Open, OpenFails, OpenCrashes, NewRouter
        <3> QED
            BY <3>1 DEF OwnerInv
    <2>4. late' = late \/ \E E : late' = late \cup Callbacks(k, E)
        BY <1>6 DEF Open, OpenFails, OpenCrashes
    <2>5. (late' # {} => IsRouter) /\ \A g \in late' : g.key[1] = "interest"
        BY <2>4 DEF OwnerInv, Callbacks
    <2> QED
        BY <2>1, <2>2, <2>3, <2>5 DEF OwnerInv
<1>7. ASSUME NEW g \in late, AddInterest(g)
      PROVE  OwnerInv'
    <2>1. late' \subseteq late /\ UNCHANGED <<run, adds, ripe, toClose, reg, ctxDone>>
        BY <1>7 DEF AddInterest, epVars
    <2>2. \E x, E : src' = [src EXCEPT ![x] = E]
        BY <1>7 DEF AddInterest, NewRouter
    <2>3. DOMAIN src' = RouterId /\ src' = [x \in RouterId |-> src'[x]]
        BY <2>2 DEF OwnerInv
    <2> QED
        BY <2>1, <2>3 DEF OwnerInv
<1>8. CASE \E x \in RouterId : CloseWrapper(x) \/ RemoveWrapper(x) \/ ForgetRouter(x)
    <2>1. UNCHANGED <<run, adds, ripe, toClose, reg, src, ctxDone, late>>
        BY <1>8 DEF CloseWrapper, RemoveWrapper, ForgetRouter, epVars
    <2> QED
        BY <2>1, <1>a
<1>9. CASE CloseBegin \/ CloseEnd
    <2>1. UNCHANGED <<run, adds, ripe, toClose, reg, src, ctxDone, late>>
        BY <1>9 DEF CloseBegin, CloseEnd, epVars
    <2> QED
        BY <2>1, <1>a
<1>10. CASE CloseNext
    <2>1. CASE array[pos] = Nil
        <3>1. UNCHANGED <<run, adds, ripe, toClose, reg, src, ctxDone, late>>
            BY <1>10, <2>1 DEF CloseNext
        <3> QED
            BY <3>1, <1>a
    <2>2. CASE array[pos] # Nil
        <3>1. ShutEndpoint(array[pos]) /\ UNCHANGED <<adds, src, ctxDone, late, toClose>>
            BY <1>10, <2>2 DEF CloseNext
        <3>2. toClose' \in [Endpoint -> Nat]
            BY <3>1 DEF OwnerInv
        <3> QED
            BY <3>1, <3>2, <1>b
    <2> QED
        BY <2>1, <2>2
<1>11. CASE ContextEnds
    <2>1. /\ run' \in [Endpoint -> {"new", "up", "cancelled", "closing", "torn"}]
          /\ ripe' \in [Endpoint -> Nat]
          /\ reg' \in [Endpoint -> [Key -> {"none", "open", "closed"}]]
          /\ IsRouter => \A e \in Endpoint : ripe'[e] = ripe[e]
          /\ ctxDone' \in BOOLEAN
        BY <1>11 DEF ContextEnds, OwnerInv
    <2>2. UNCHANGED <<adds, toClose, src, late>>
        BY <1>11 DEF ContextEnds
    <2> QED
        BY <2>1, <2>2 DEF OwnerInv
<1>12. CASE UNCHANGED vars
    <2>1. UNCHANGED <<run, adds, ripe, toClose, reg, src, ctxDone, late>>
        BY <1>12 DEF vars, epVars
    <2> QED
        BY <2>1, <1>a
<1>13. ASSUME NEW r \in PubRoute, Publish(r)
       PROVE  OwnerInv'
    <2>1. <<"intent", r>> \in Key
        BY DEF Key
    <2> QED
        BY <1>13, <2>1, <1>6 DEF Publish
<1>14. ASSUME NEW r \in SubRoute, Subscribe(r)
       PROVE  OwnerInv'
    <2>1. <<"interest", r>> \in Key
        BY DEF Key
    <2> QED
        BY <1>14, <2>1, <1>6 DEF Subscribe
<1> QED
    BY <1>1, <1>2, <1>3, <1>4, <1>5, <1>7, <1>8, <1>9, <1>10, <1>11, <1>12, <1>13, <1>14 DEF Next

(* Init establishes the parts of the invariant that Publish, Subscribe and    *)
(* the list need.                                                             *)
LEMMA InitialOwner == Init => RouterInv /\ OwnerInv
<1> SUFFICES ASSUME Init
             PROVE  RouterInv /\ OwnerInv
    OBVIOUS
<1>1. RouterInv
    BY DEF Init, RouterInv, LateNamesKey
<1>2. /\ run \in [Endpoint -> {"new", "up", "cancelled", "closing", "torn"}]
      /\ reg \in [Endpoint -> [Key -> {"none", "open", "closed"}]]
    BY DEF Init
<1>3. /\ adds \in [Endpoint -> Nat] /\ ripe \in [Endpoint -> Nat] /\ toClose \in [Endpoint -> Nat]
      /\ \A e \in Endpoint : ripe[e] = 0
    BY DEF Init
<1>4. DOMAIN src = RouterId /\ src = [x \in RouterId |-> src[x]]
    BY DEF Init
<1>5. ctxDone = FALSE /\ late = {}
    BY DEF Init
<1> QED
    BY <1>1, <1>2, <1>3, <1>4, <1>5, InitialList DEF OwnerInv

(* However endpoints are added, removed, closed and added again, and also     *)
(* while the owner is shut down, the slice is within its array, none of its   *)
(* slots is empty and it names each endpoint once (container.go 79-110,       *)
(* 174-185).                                                                  *)
THEOREM ListedOnce == Spec => [](Listed \in Seq(Endpoint) /\ IsInjective(Listed))
<1>1. RouterInv /\ OwnerInv /\ [Next]_vars => RouterInv' /\ OwnerInv'
    BY RouterStep, OwnerStep
<1>2. OwnerInv => Listed \in Seq(Endpoint) /\ IsInjective(Listed)
    BY DEF OwnerInv, ListInv
<1> QED
    BY <1>1, <1>2, InitialOwner, PTL DEF Spec

-----------------------------------------------------------------------------
(* Removal. *)

Orderly == ~MayClose /\ ~MayShutdown /\ ~MayReadd

(* While endpoints only go by Remove and do not come back, a listed endpoint  *)
(* runs: Remove has taken it off the list before it may be closed, and Add    *)
(* only lists one that no Remove is still about to close.                     *)
RemovalInv ==
    Orderly =>
        /\ fault = "none" /\ ~ctxDone /\ loop = "idle"
        /\ \A e \in Endpoint :
            /\ IsRouter \/ adds[e] = 0 => toClose[e] = 0
            /\ IsListed(e) => run[e] = "up" /\ toClose[e] = 0 /\ (IsRouter \/ adds[e] > 0)

(* Every step keeps RemovalInv. *)
LEMMA RemovalStep ==
    ASSUME OwnerInv, RouterInv, RemovalInv, [Next]_vars
    PROVE  RemovalInv'
<1> SUFFICES ASSUME Orderly
             PROVE  RemovalInv'
    BY UseIsFixed DEF RemovalInv, Orderly, MayClose, MayShutdown, MayReadd
<1>0. use' = use /\ ListInv'
    BY ListStep, UseIsFixed DEF OwnerInv
<1> USE <1>0 DEF IsRouter
<1>f. ToSet(Listed) \subseteq Endpoint
    BY DEF OwnerInv, ListInv, ToSet
<1>a. ASSUME UNCHANGED <<array, size, fault, ctxDone, loop, adds, toClose, run>>
      PROVE  RemovalInv'
    BY <1>a DEF RemovalInv, IsListed, Listed
<1>1. ASSUME NEW e \in Endpoint, Add(e)
      PROVE  RemovalInv'
    <2>1. /\ ToSet(Listed') = ToSet(Listed) \cup {e} /\ ~IsListed(e) /\ ~IsRouter
          /\ UNCHANGED <<fault, ctxDone, loop, toClose>>
        BY <1>1, AppendLists DEF Add, OwnerInv, loopVars
    <2>2. adds[e] = 0 /\ adds' = [adds EXCEPT ![e] = @ + 1]
        BY <1>1 DEF Add, OwnerInv, Orderly
    <2>3. run' = [run EXCEPT ![e] = "up"]
        BY <1>1 DEF Add, InitEndpoint, RemovalInv
    <2> QED
        BY <2>1, <2>2, <2>3 DEF RemovalInv, OwnerInv, IsListed
<1>2. ASSUME NEW e \in Endpoint, RemoveEndpoint(e) \/ RemoveHook(e)
      PROVE  RemovalInv'
    <2>1. UNCHANGED <<fault, ctxDone, loop, adds, run>>
        BY <1>2 DEF RemoveEndpoint, RemoveHook, loopVars
    <2>2. CASE UNCHANGED <<array, size, toClose>>
        BY <2>1, <2>2, <1>a
    <2>3. CASE ~IsRouter /\ IsListed(e) /\ RemoveUnlist(e)
        <3>1. ToSet(Listed') = ToSet(Listed) \ {e} /\ toClose' = [toClose EXCEPT ![e] = @ + 1]
            BY <2>3, UnlistTakes DEF RemoveUnlist, OwnerInv
        <3> QED
            BY <2>1, <2>3, <3>1 DEF RemovalInv, OwnerInv, IsListed
    <2>4. IsRouter => ~RemoveHook(e)
        BY DEF RemoveHook, OwnerInv
    <2> QED
        BY <1>2, <2>2, <2>3, <2>4 DEF RemoveEndpoint, RemoveHook, listVars
<1>3. ASSUME NEW e \in Endpoint, RemoveClose(e)
      PROVE  RemovalInv'
    <2>1. /\ UNCHANGED <<array, size, fault, ctxDone, loop, adds>>
          /\ toClose[e] > 0 /\ toClose' = [toClose EXCEPT ![e] = @ - 1]
        BY <1>3 DEF RemoveClose, listVars, loopVars
    <2>2. \A d \in Endpoint : d # e => run'[d] = run[d]
        BY <1>3 DEF RemoveClose, ShutEndpoint, OwnerInv
    <2>3. ~IsRouter /\ adds[e] # 0 /\ ~IsListed(e)
        BY <2>1 DEF RemovalInv, OwnerInv
    <2>4. Listed' = Listed
        BY <2>1 DEF Listed
    <2> QED
        BY <2>1, <2>2, <2>3, <2>4 DEF RemovalInv, OwnerInv, IsListed
<1>4. ASSUME NEW e \in Endpoint, TearDown(e)
      PROVE  RemovalInv'
    <2>1. /\ UNCHANGED <<array, size, fault, ctxDone, loop, adds, toClose>>
          /\ run[e] = "closing" /\ run' = [run EXCEPT ![e] = "torn"]
        BY <1>4 DEF TearDown, listVars, loopVars
    <2> QED
        BY <2>1 DEF RemovalInv, OwnerInv, IsListed, Listed
<1>5. ASSUME NEW k \in Key, Open(k) \/ OpenFails(k) \/ OpenCrashes(k)
      PROVE  RemovalInv'
    <2>1. Asked(k) \subseteq ToSet(Listed)
        <3>1. Listed \in Seq(Endpoint) /\ Len(Listed) = size
            BY DEF OwnerInv, ListInv, Listed
        <3> QED
            BY <3>1 DEF Asked, AskedBefore, ToSet
    <2>2. ~OpenCrashes(k)
        BY <2>1, <1>f DEF OpenCrashes, RemovalInv, IsListed
    <2>3. UNCHANGED <<array, size, fault, ctxDone, loop, adds, toClose, run>>
        BY <1>5, <2>2 DEF Open, OpenFails, listVars, epVars, loopVars
    <2> QED
        BY <2>3, <1>a
<1>6. CASE \/ \E e \in Endpoint, k \in Key : ForgetObject(e, k)
           \/ \E g \in late : AddInterest(g)
           \/ \E x \in RouterId : CloseWrapper(x) \/ RemoveWrapper(x) \/ ForgetRouter(x)
    <2>1. UNCHANGED <<array, size, fault, ctxDone, loop, adds, toClose, run>>
        BY <1>6 DEF ForgetObject, AddInterest, CloseWrapper, RemoveWrapper, ForgetRouter,
               listVars, epVars, loopVars
    <2> QED
        BY <2>1, <1>a
<1>7. ASSUME (\E e \in Endpoint : CloseEndpoint(e)) \/ CloseBegin \/ CloseNext \/ CloseEnd \/ ContextEnds
      PROVE  FALSE
    BY <1>7 DEF CloseEndpoint, CloseBegin, CloseNext, CloseEnd, ContextEnds, Orderly, RemovalInv
<1>8. CASE UNCHANGED vars
    <2>1. UNCHANGED <<array, size, fault, ctxDone, loop, adds, toClose, run>>
        BY <1>8 DEF vars, listVars, epVars, loopVars
    <2> QED
        BY <2>1, <1>a
<1>9. ASSUME NEW r \in PubRoute, Publish(r)
      PROVE  RemovalInv'
    <2>1. <<"intent", r>> \in Key
        BY DEF Key
    <2> QED
        BY <1>9, <2>1, <1>5 DEF Publish
<1>10. ASSUME NEW r \in SubRoute, Subscribe(r)
      PROVE  RemovalInv'
    <2>1. <<"interest", r>> \in Key
        BY DEF Key
    <2> QED
        BY <1>10, <2>1, <1>5 DEF Subscribe
<1> QED
    BY <1>1, <1>2, <1>3, <1>4, <1>6, <1>7, <1>8, <1>9, <1>10 DEF Next

(* Where endpoints leave by Remove only, do not come back and the owner is    *)
(* not shut down: Remove takes an endpoint off the list before it closes it,  *)
(* so that no Publish, Subscribe or Add meets a Linker that has been torn     *)
(* down (container.go 174-185).                                               *)
THEOREM RemovalCorrect == Spec => []RemovalIsSafe
<1>1. Init => RemovalInv
    <2> SUFFICES ASSUME Init
                 PROVE  RemovalInv
        OBVIOUS
    <2>1. fault = "none" /\ ctxDone = FALSE /\ loop = "idle"
        BY DEF Init
    <2>2. \A e \in Endpoint : toClose[e] = 0 /\ (IsRouter => run[e] = "up")
        BY DEF Init
    <2>3. ~IsRouter => Listed = <<>>
        BY DEF Init, Listed
    <2>4. \A e \in Endpoint : IsListed(e) => IsRouter
        BY <2>3, EmptyOrder DEF IsListed
    <2> QED
        BY <2>1, <2>2, <2>4 DEF RemovalInv
<1>2. RouterInv /\ OwnerInv /\ RemovalInv /\ [Next]_vars => RouterInv' /\ OwnerInv' /\ RemovalInv'
    BY RouterStep, OwnerStep, RemovalStep
<1>3. RemovalInv => RemovalIsSafe
    BY DEF RemovalInv, Orderly, RemovalIsSafe
<1> QED
    BY <1>1, <1>2, <1>3, InitialOwner, PTL DEF Spec

-----------------------------------------------------------------------------
(* Every listed endpoint takes part in every route. *)

(* The endpoint e sends or receives for the router x through its own object.  *)
TakesPart(e, x) == e \in src[x] /\ reg[e][rKey[x]] = "open"

MustTakePart(e, x) ==
    /\ rState[x] = "open" /\ IsListed(e) /\ run[e] = "up"
    /\ Accepts(e, rKey[x]) /\ (IsRouter => rKey[x][1] = "intent")

(* While no endpoint fails, those that are up have no closed objects, so      *)
(* that Publish, Subscribe and Add register or find open ones.                *)
JoinInv ==
    ~MayFail =>
        /\ \A e \in Endpoint, k \in Key : run[e] = "up" => reg[e][k] # "closed"
        /\ \A x \in RouterId, e \in Endpoint : MustTakePart(e, x) => TakesPart(e, x)

(* Publish and Subscribe ask every listed endpoint that accepts the route.    *)
LEMMA AskedIsAccepting ==
    ASSUME ListInv, NEW k \in Key
    PROVE  Asked(k) = {e \in ToSet(Listed) : Accepts(e, k)}
<1>1. Listed \in Seq(Endpoint) /\ Len(Listed) = size /\ size \in Nat
    BY DEF ListInv, Listed
<1>2. ToSet(Listed) = {Listed[i] : i \in 1..size}
    BY <1>1 DEF ToSet
<1>3. 1..((size + 1) - 1) = 1..size
    BY <1>1
<1>4. Asked(k) = {e \in {Listed[i] : i \in 1..((size + 1) - 1)} : Accepts(e, k)}
    BY DEF Asked, AskedBefore
<1> QED
    BY <1>2, <1>3, <1>4

(* A Publish or Subscribe that succeeds keeps JoinInv.                        *)
LEMMA OpenJoins ==
    ASSUME OwnerInv, RouterInv, JoinInv, ~MayFail, NEW k \in Key, Open(k), use' = use
    PROVE  JoinInv'
<1> USE DEF IsRouter
<1>1. /\ UNCHANGED <<run, array, size>> /\ Listed' = Listed
      /\ reg' = [e \in Endpoint |-> IF e \in Asked(k) THEN [reg[e] EXCEPT ![k] = Registered(e, k)]
                                    ELSE reg[e]]
    BY DEF Open, listVars, epVars, Listed
<1>2. \A e \in Endpoint, l \in Key :
          reg'[e][l] = IF e \in Asked(k) /\ l = k THEN Registered(e, k) ELSE reg[e][l]
    BY <1>1 DEF OwnerInv
<1>3. \A e \in Endpoint : run[e] = "up" => Registered(e, k) = "open"
    BY DEF JoinInv, Registered, OwnerInv
<1>4. \A e \in Endpoint, l \in Key : run'[e] = "up" => reg'[e][l] # "closed"
    BY <1>1, <1>2, <1>3 DEF JoinInv
<1>5. \A x \in RouterId : rState[x] = "open" => rKey[x] \in Key /\ routers[rKey[x]] = x
    BY DEF RouterInv
<1>6. ASSUME NEW x \in RouterId, NEW e \in Endpoint, MustTakePart(e, x)', UNCHANGED <<rKey, rState, src>>
      PROVE  TakesPart(e, x)'
    <2>1. MustTakePart(e, x)
        BY <1>1, <1>6 DEF MustTakePart, IsListed, Accepts
    <2>2. e \in src[x] /\ reg[e][rKey[x]] = "open" /\ run[e] = "up" /\ rKey[x] \in Key
        BY <2>1, <1>5 DEF JoinInv, TakesPart, MustTakePart
    <2> QED
        BY <2>2, <1>2, <1>3, <1>6 DEF TakesPart
<1>7. CASE Found(k) # Nil
    <2>1. UNCHANGED <<rKey, rState, src>>
        BY <1>7 DEF Open, routerVars
    <2> QED
        BY <2>1, <1>4, <1>6 DEF JoinInv
<1>8. CASE Found(k) = Nil
    <2>1. PICK y \in RouterId : NewRouter(y, k, Asked(k), 1)
        BY <1>8 DEF Open
    <2>2. /\ \A x \in RouterId : x # y => rKey'[x] = rKey[x] /\ rState'[x] = rState[x] /\ src'[x] = src[x]
          /\ rKey'[y] = k /\ src'[y] = Asked(k)
        BY <2>1 DEF NewRouter, OwnerInv, RouterInv
    <2>3. ASSUME NEW x \in RouterId, NEW e \in Endpoint, MustTakePart(e, x)'
          PROVE  TakesPart(e, x)'
        <3>1. CASE x = y
            <4>1. IsListed(e) /\ Accepts(e, k) /\ run[e] = "up"
                BY <1>1, <2>2, <2>3, <3>1 DEF MustTakePart, IsListed, Accepts
            <4>2. e \in Asked(k)
                BY <4>1, AskedIsAccepting DEF OwnerInv, IsListed
            <4> QED
                BY <4>1, <4>2, <1>2, <1>3, <2>2, <3>1 DEF TakesPart
        <3>2. CASE x # y
            <4>1. MustTakePart(e, x)
                BY <1>1, <2>2, <2>3, <3>2 DEF MustTakePart, IsListed, Accepts
            <4>2. e \in src[x] /\ reg[e][rKey[x]] = "open" /\ run[e] = "up" /\ rKey[x] \in Key
                BY <4>1, <1>5 DEF JoinInv, TakesPart, MustTakePart
            <4> QED
                BY <4>2, <1>2, <1>3, <2>2, <3>2 DEF TakesPart
        <3> QED
            BY <3>1, <3>2
    <2> QED
        BY <2>3, <1>4 DEF JoinInv
<1> QED
    BY <1>7, <1>8

(* An endpoint that is added joins every route that has a router.             *)
LEMMA AddJoins ==
    ASSUME OwnerInv, RouterInv, JoinInv, ~MayFail, NEW e \in Endpoint, Add(e), use' = use
    PROVE  JoinInv'
<1> USE DEF IsRouter
<1>1. /\ ToSet(Listed') = ToSet(Listed) \cup {e} /\ ~IsListed(e) /\ ~IsRouter
      /\ UNCHANGED <<rKey, rState, ctxDone>>
    BY AppendLists DEF Add, OwnerInv, routerVars
<1>2. /\ reg' = [reg EXCEPT ![e] = [k \in Key |->
                      IF k \notin Joins(e) THEN "none" ELSE IF ctxDone THEN "closed" ELSE "open"]]
      /\ src' = [x \in RouterId |->
                      IF \E k \in Joins(e) : routers[k] = x THEN src[x] \cup {e} ELSE src[x] \ {e}]
    <2>1. PICK failed \in {{}} :
            LET joined == Joins(e) \ failed IN
            /\ reg' = [reg EXCEPT ![e] = [k \in Key |->
                      IF k \notin joined THEN "none" ELSE IF ctxDone THEN "closed" ELSE "open"]]
            /\ src' = [x \in RouterId |->
                      IF \E k \in joined : routers[k] = x THEN src[x] \cup {e} ELSE src[x] \ {e}]
        BY DEF Add
    <2>2. Joins(e) \ failed = Joins(e)
        OBVIOUS
    <2> QED
        BY <2>1, <2>2
<1>3. run' = [run EXCEPT ![e] = IF ctxDone THEN "cancelled" ELSE "up"]
    BY DEF Add, InitEndpoint
<1>4. ASSUME NEW d \in Endpoint, NEW k \in Key, run'[d] = "up"
      PROVE  reg'[d][k] # "closed"
    <2>1. CASE d = e
        BY <1>2, <1>3, <1>4, <2>1 DEF OwnerInv
    <2>2. CASE d # e
        BY <1>2, <1>3, <1>4, <2>2 DEF OwnerInv, JoinInv
    <2> QED
        BY <2>1, <2>2
<1>5. ASSUME NEW x \in RouterId, NEW d \in Endpoint, MustTakePart(d, x)'
      PROVE  TakesPart(d, x)'
    <2>1. rKey[x] \in Key /\ routers[rKey[x]] = x /\ x # Nil
        BY <1>1, <1>5, NilAssumption DEF RouterInv, MustTakePart
    <2>2. CASE d = e
        <3>1. ~ctxDone
            BY <1>3, <1>5, <2>2 DEF MustTakePart, OwnerInv
        <3>2. rKey[x] \in Joins(e)
            BY <1>1, <1>5, <2>1, <2>2 DEF Joins, MustTakePart, Accepts
        <3>3. e \in src'[x]
            BY <1>2, <2>1, <3>2
        <3>4. reg'[e][rKey[x]] = "open"
            BY <1>2, <2>1, <3>1, <3>2 DEF OwnerInv
        <3> QED
            BY <1>1, <2>2, <3>3, <3>4 DEF TakesPart
    <2>3. CASE d # e
        <3>1. MustTakePart(d, x)
            BY <1>1, <1>3, <1>5, <2>3 DEF MustTakePart, IsListed, Accepts, OwnerInv
        <3>2. TakesPart(d, x)
            BY <3>1 DEF JoinInv
        <3> QED
            BY <1>1, <1>2, <2>3, <3>2 DEF TakesPart, OwnerInv
    <2> QED
        BY <2>2, <2>3
<1> QED
    BY <1>4, <1>5 DEF JoinInv

(* An endpoint that closes, or whose objects go away, owes nothing; nor do    *)
(* the routers that close.                                                    *)
LEMMA LossKeeps ==
    ASSUME OwnerInv, JoinInv, ~MayFail, use' = use, UNCHANGED rKey,
           ToSet(Listed') \subseteq ToSet(Listed),
           \A x \in RouterId : rState'[x] = "open" => rState[x] = "open",
           \A e \in Endpoint : run'[e] = "up" => run[e] = "up",
           \A e \in Endpoint, k \in Key : run'[e] = "up" => reg'[e][k] # "closed",
           \A e \in Endpoint, x \in RouterId :
               MustTakePart(e, x) /\ run'[e] = "up" /\ rState'[x] = "open" /\ TakesPart(e, x)
                   => TakesPart(e, x)'
    PROVE  JoinInv'
<1>1. ASSUME NEW x \in RouterId, NEW e \in Endpoint, MustTakePart(e, x)'
      PROVE  TakesPart(e, x)'
    <2>1. MustTakePart(e, x)
        BY <1>1 DEF MustTakePart, IsListed, Accepts, IsRouter
    <2> QED
        BY <1>1, <2>1 DEF JoinInv, MustTakePart
<1> QED
    BY <1>1 DEF JoinInv

(* Every step keeps JoinInv. *)
LEMMA JoinStep ==
    ASSUME OwnerInv, RouterInv, JoinInv, [Next]_vars
    PROVE  JoinInv'
<1>0. use' = use
    BY UseIsFixed
<1> SUFFICES ASSUME ~MayFail
             PROVE  JoinInv'
    BY <1>0 DEF JoinInv, MayFail
<1>j. /\ \A e \in Endpoint, k \in Key : run[e] = "up" => reg[e][k] # "closed"
      /\ \A x \in RouterId : rState[x] = "open" => rKey[x] \in Key /\ routers[rKey[x]] = x
    BY DEF JoinInv, RouterInv
<1>a. ASSUME UNCHANGED <<rKey, src, run, reg>>, ToSet(Listed') \subseteq ToSet(Listed),
             \A x \in RouterId : rState'[x] = "open" => rState[x] = "open"
      PROVE  JoinInv'
    BY <1>0, <1>a, <1>j, LossKeeps DEF TakesPart
<1>b. ASSUME NEW e, ShutEndpoint(e), UNCHANGED <<rKey, rState, src, array, size>>
      PROVE  JoinInv'
    <2>1. /\ Listed' = Listed
          /\ \A d \in Endpoint : run'[d] = "up" => run[d] = "up" /\ reg'[d] = reg[d]
        <3>1. Listed' = Listed
            BY <1>b DEF Listed
        <3>2. ASSUME NEW d \in Endpoint, d # e
              PROVE  run'[d] = run[d] /\ reg'[d] = reg[d]
            BY <1>b, <3>2 DEF ShutEndpoint, OwnerInv
        <3>3. e \in Endpoint => run'[e] # "up"
            BY <1>b DEF ShutEndpoint, OwnerInv
        <3> QED
            BY <3>1, <3>2, <3>3
    <2> QED
        BY <1>0, <1>b, <1>j, <2>1, LossKeeps DEF TakesPart
<1>1. ASSUME NEW e \in Endpoint, Add(e)
      PROVE  JoinInv'
    BY <1>0, <1>1, AddJoins
<1>2. ASSUME NEW e \in Endpoint, RemoveEndpoint(e) \/ RemoveHook(e)
      PROVE  JoinInv'
    <2>1. UNCHANGED <<rKey, rState, src, run, reg>>
        BY <1>2 DEF RemoveEndpoint, RemoveHook, routerVars, epVars
    <2>2. ToSet(Listed') \subseteq ToSet(Listed)
        <3>1. UNCHANGED <<array, size>> \/ (IsListed(e) /\ Unlist(e))
            BY <1>2 DEF RemoveEndpoint, RemoveHook, RemoveUnlist, listVars
        <3> QED
            BY <3>1, UnlistTakes DEF OwnerInv, Listed
    <2> QED
        BY <2>1, <2>2, <1>a
<1>3. ASSUME NEW e \in Endpoint, RemoveClose(e) \/ CloseEndpoint(e)
      PROVE  JoinInv'
    BY <1>3, <1>b DEF RemoveClose, CloseEndpoint, listVars, routerVars
<1>4. ASSUME NEW e \in Endpoint, TearDown(e)
      PROVE  JoinInv'
    <2>1. /\ UNCHANGED <<rKey, rState>> /\ Listed' = Listed
          /\ run'[e] = "torn" /\ \A d \in Endpoint : d # e => run'[d] = run[d] /\ reg'[d] = reg[d]
        BY <1>4 DEF TearDown, routerVars, listVars, Listed, OwnerInv
    <2>2. \A x \in RouterId : src[x] \ {e} \subseteq src'[x]
        BY <1>4 DEF TearDown, Unregister
    <2> QED
        BY <1>0, <1>j, <2>1, <2>2, LossKeeps DEF TakesPart
<1>5. ASSUME NEW e \in Endpoint, NEW k \in Key, ForgetObject(e, k)
      PROVE  JoinInv'
    <2>1. /\ UNCHANGED <<rKey, rState, run>> /\ Listed' = Listed /\ reg[e][k] = "closed"
          /\ \A d \in Endpoint, l \in Key :
                reg'[d][l] = IF d = e /\ l = k THEN "none" ELSE reg[d][l]
        BY <1>5 DEF ForgetObject, routerVars, epVars, listVars, Listed, OwnerInv
    <2>2. \A x \in RouterId : src'[x] = IF rKey[x] \in {k} THEN src[x] \ {e} ELSE src[x]
        BY <1>5 DEF ForgetObject, Unregister
    <2>3. ASSUME NEW d \in Endpoint, NEW x \in RouterId, MustTakePart(d, x), TakesPart(d, x)
          PROVE  TakesPart(d, x)'
        <3>1. rKey[x] \in Key /\ reg[d][rKey[x]] = "open" /\ d \in src[x]
            BY <1>j, <2>3 DEF MustTakePart, TakesPart
        <3>2. ~(d = e /\ rKey[x] = k)
            BY <2>1, <3>1
        <3> QED
            BY <2>1, <2>2, <3>1, <3>2 DEF TakesPart
    <2>4. \A d \in Endpoint, l \in Key : run'[d] = "up" => reg'[d][l] # "closed"
        BY <1>j, <2>1
    <2> QED
        BY <1>0, <2>1, <2>3, <2>4, LossKeeps
<1>6. ASSUME NEW k \in Key, Open(k) \/ OpenFails(k) \/ OpenCrashes(k)
      PROVE  JoinInv'
    <2>1. CASE Open(k)
        BY <1>0, <2>1, OpenJoins
    <2>2. CASE OpenCrashes(k)
        <3>1. UNCHANGED <<rKey, rState, src, run, reg>> /\ Listed' = Listed
            BY <2>2 DEF OpenCrashes, routerVars, epVars, listVars, Listed
        <3> QED
            BY <3>1, <1>a
    <2> QED
        BY <1>6, <2>1, <2>2 DEF OpenFails
<1>7. ASSUME NEW g \in late, AddInterest(g)
      PROVE  JoinInv'
    <2>1. /\ UNCHANGED <<run, reg>> /\ Listed' = Listed
          /\ IsRouter /\ g.key \in Key /\ g.key[1] = "interest"
        BY <1>7 DEF AddInterest, epVars, listVars, Listed, OwnerInv, RouterInv, LateNamesKey
    <2>2. CASE routers[g.key] # Nil
        <3> DEFINE E == IF g.current THEN {g.ep} ELSE {}
        <3>1. /\ UNCHANGED <<rKey, rState>>
              /\ src' = [src EXCEPT ![routers[g.key]] = @ \cup E]
            BY <1>7, <2>2 DEF AddInterest, routerVars
        <3> HIDE DEF E
        <3>2. ASSUME NEW x \in RouterId
              PROVE  src[x] \subseteq src'[x]
            <4>1. src'[x] = IF x = routers[g.key] THEN src[x] \cup E ELSE src[x]
                BY <3>1 DEF OwnerInv
            <4> QED
                BY <4>1
        <3> QED
            BY <1>0, <1>j, <2>1, <3>1, <3>2, LossKeeps DEF TakesPart
    <2>3. CASE routers[g.key] = Nil
        <3>1. PICK y \in RouterId : NewRouter(y, g.key, IF g.current THEN {g.ep} ELSE {}, 0)
            BY <1>7, <2>3 DEF AddInterest
        <3>2. /\ \A x \in RouterId : x # y => rKey'[x] = rKey[x] /\ rState'[x] = rState[x] /\ src'[x] = src[x]
              /\ rKey'[y] = g.key
            BY <3>1 DEF NewRouter, OwnerInv, RouterInv
        <3>3. ASSUME NEW x \in RouterId, NEW e \in Endpoint, MustTakePart(e, x)'
              PROVE  TakesPart(e, x)'
            <4>1. x # y
                BY <1>0, <2>1, <3>2, <3>3 DEF MustTakePart, IsRouter
            <4>2. MustTakePart(e, x)
                BY <1>0, <2>1, <3>2, <3>3, <4>1 DEF MustTakePart, IsListed, Accepts, IsRouter
            <4> QED
                BY <2>1, <3>2, <4>1, <4>2 DEF JoinInv, TakesPart
        <3> QED
            BY <1>j, <2>1, <3>3 DEF JoinInv
    <2> QED
        BY <2>2, <2>3
<1>8. CASE \/ \E x \in RouterId : CloseWrapper(x) \/ RemoveWrapper(x) \/ ForgetRouter(x)
           \/ CloseBegin
    <2>1. UNCHANGED <<rKey, src, run, reg>> /\ Listed' = Listed
        BY <1>8 DEF CloseWrapper, RemoveWrapper, ForgetRouter, CloseBegin, routerVars, epVars,
               listVars, Listed
    <2>2. \A x \in RouterId : rState'[x] = "open" => rState[x] = "open"
        BY <1>8 DEF CloseWrapper, RemoveWrapper, ForgetRouter, CloseBegin, routerVars, RouterInv
    <2> QED
        BY <2>1, <2>2, <1>a
<1>9. CASE CloseNext
    <2>1. CASE array[pos] = Nil
        BY <1>9, <2>1, <1>a DEF CloseNext, routerVars, listVars, Listed
    <2>2. CASE array[pos] # Nil
        BY <1>9, <2>2, <1>b DEF CloseNext, routerVars, listVars
    <2> QED
        BY <2>1, <2>2
<1>10. CASE CloseEnd
    <2>1. Listed' = <<>> /\ UNCHANGED <<rKey, rState, src, run, reg>>
        BY <1>10 DEF CloseEnd, Listed, routerVars, epVars
    <2> QED
        BY <2>1, <1>a, EmptyOrder
<1>11. CASE ContextEnds
    <2>1. /\ \A x \in RouterId : rState'[x] # "open"
          /\ \A e \in Endpoint : run'[e] # "up"
        BY <1>11 DEF ContextEnds
    <2> QED
        BY <2>1 DEF JoinInv, MustTakePart
<1>12. CASE UNCHANGED vars
    <2>1. UNCHANGED <<rKey, rState, src, run, reg>> /\ Listed' = Listed
        BY <1>12 DEF vars, routerVars, epVars, listVars, Listed
    <2> QED
        BY <2>1, <1>a
<1>13. ASSUME NEW r \in PubRoute, Publish(r)
       PROVE  JoinInv'
    <2>1. <<"intent", r>> \in Key
        BY DEF Key
    <2> QED
        BY <1>13, <2>1, <1>6 DEF Publish
<1>14. ASSUME NEW r \in SubRoute, Subscribe(r)
       PROVE  JoinInv'
    <2>1. <<"interest", r>> \in Key
        BY DEF Key
    <2> QED
        BY <1>14, <2>1, <1>6 DEF Subscribe
<1> QED
    BY <1>1, <1>2, <1>3, <1>4, <1>5, <1>7, <1>8, <1>9, <1>10, <1>11, <1>12, <1>13, <1>14 DEF Next

(* While no endpoint fails, and for the intents of a Router only: whatever    *)
(* the order of Add and Publish, the open router of a route works through an  *)
(* open, registered object of every listed endpoint that is up and accepts    *)
(* the route (container.go 111-172, 238-277).                                 *)
THEOREM EndpointsJoin == Spec => []EveryEndpointJoins
<1>1. Init => JoinInv
    BY DEF Init, JoinInv, MustTakePart
<1>2. RouterInv /\ OwnerInv /\ JoinInv /\ [Next]_vars => RouterInv' /\ OwnerInv' /\ JoinInv'
    BY RouterStep, OwnerStep, JoinStep
<1>3. OwnerInv /\ JoinInv => EveryEndpointJoins
    <2>1. OwnerInv => ToSet(Listed) \subseteq Endpoint
        BY DEF OwnerInv, ListInv, ToSet
    <2> QED
        BY <2>1 DEF JoinInv, MustTakePart, TakesPart, EveryEndpointJoins, IsListed
<1> QED
    BY <1>1, <1>2, <1>3, InitialOwner, PTL DEF Spec
=============================================================================
