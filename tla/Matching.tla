------------------------------ MODULE Matching ------------------------------
(***************************************************************************)
(* What a Linker promises to the endpoints that use it, without objects,   *)
(* channels, hooks and goroutines: a route has at most one publisher and   *)
(* one subscriber, the second of them to come is paired with the first at  *)
(* once, nobody is replaced while registered, and only who has left loses  *)
(* the route.                                                              *)
(***************************************************************************)
CONSTANTS Route, Publisher, Subscriber, Nil

VARIABLES
    pub, sub,           \* who is registered on a route, or Nil
    pair,               \* whether the two are paired
    pubGone, subGone,   \* who has left, registered still or not
    parted,             \* routes on which a subscriber left a pairing behind
    ended,              \* the service is being shut down
    byRoute             \* users may remove whoever a route has, never changes

vars == <<pub, sub, pair, pubGone, subGone, parted, ended, byRoute>>

Init ==
    /\ pub  = [r \in Route |-> Nil]
    /\ sub  = [r \in Route |-> Nil]
    /\ pair = [r \in Route |-> FALSE]
    /\ pubGone = {} /\ subGone = {} /\ parted = {}
    /\ ended = FALSE
    /\ byRoute \in BOOLEAN

Publish(r, x) ==
    /\ pub[r] = Nil /\ x \notin pubGone
    /\ pub'  = [pub EXCEPT ![r] = x]
    /\ pair' = [pair EXCEPT ![r] = sub[r] # Nil]
    /\ UNCHANGED <<sub, pubGone, subGone, parted, ended, byRoute>>

Subscribe(r, x) ==
    /\ sub[r] = Nil /\ x \notin subGone
    /\ sub'  = [sub EXCEPT ![r] = x]
    /\ pair' = [pair EXCEPT ![r] = pub[r] # Nil]
    /\ UNCHANGED <<pub, pubGone, subGone, parted, ended, byRoute>>

\* Users leave; their registrations go away later, by a step of the service.
PublisherLeaves(x) ==
    /\ pubGone' = pubGone \cup {x}
    /\ UNCHANGED <<pub, sub, pair, subGone, parted, ended, byRoute>>

SubscriberLeaves(x) ==
    /\ subGone' = subGone \cup {x}
    /\ UNCHANGED <<pub, sub, pair, pubGone, parted, ended, byRoute>>

\* Only who has left is taken off a route, and takes the pairing along.
Withdraw(r) ==
    /\ pub[r] \in pubGone \/ ended \/ byRoute
    /\ pub'  = [pub EXCEPT ![r] = Nil]
    /\ pair' = [pair EXCEPT ![r] = FALSE]
    /\ UNCHANGED <<sub, pubGone, subGone, parted, ended, byRoute>>

Unsubscribe(r) ==
    /\ sub[r] \in subGone \/ ended \/ byRoute
    /\ sub'  = [sub EXCEPT ![r] = Nil]
    /\ pair' = [pair EXCEPT ![r] = FALSE]
    /\ parted' = IF pair[r] THEN parted \cup {r} ELSE parted
    /\ UNCHANGED <<pub, pubGone, subGone, ended, byRoute>>

\* A pairing can end before either leaves, where an earlier subscriber of the
\* route left one behind whose cleaning up is late.
Unpair(r) ==
    /\ r \in parted \/ ended
    /\ pair' = [pair EXCEPT ![r] = FALSE]
    /\ UNCHANGED <<pub, sub, pubGone, subGone, parted, ended, byRoute>>

\* Shutting down takes everybody along, in three steps.
End ==
    /\ ended' = TRUE
    /\ UNCHANGED <<pub, sub, pair, pubGone, subGone, parted, byRoute>>

AllLeave ==
    /\ ended
    /\ pubGone' = pubGone \cup ({pub[r] : r \in Route} \ {Nil})
    /\ subGone' = subGone \cup ({sub[r] : r \in Route} \ {Nil})
    /\ UNCHANGED <<pub, sub, pair, parted, ended, byRoute>>

Dissolve ==
    /\ ended
    /\ pub'  = [r \in Route |-> Nil]
    /\ sub'  = [r \in Route |-> Nil]
    /\ pair' = [r \in Route |-> FALSE]
    /\ UNCHANGED <<pubGone, subGone, parted, ended, byRoute>>

Next ==
    \/ \E r \in Route :
        \/ \E x \in Publisher : Publish(r, x)
        \/ \E x \in Subscriber : Subscribe(r, x)
        \/ Withdraw(r) \/ Unsubscribe(r) \/ Unpair(r)
    \/ \E x \in Publisher : PublisherLeaves(x)
    \/ \E x \in Subscriber : SubscriberLeaves(x)
    \/ End \/ AllLeave \/ Dissolve

Spec == Init /\ [][Next]_vars
=============================================================================
