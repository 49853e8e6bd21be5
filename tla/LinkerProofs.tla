---------------------------- MODULE LinkerProofs ----------------------------
(* Theorems about Linker, for every set of routes, objects and senders, every *)
(* buffer size and every way of using the linker.                             *)
EXTENDS Linker, TLAPS

(* RemoveInterest keeps the types of what it changes, also for the route of an *)
(* interest that was never created.                                           *)
LEMMA RemoveInterestType ==
    ASSUME TypeOK, NEW r \in Route \cup {Nil}, RemoveInterest(r)
    PROVE  /\ fault' \in Fault
           /\ intents' = intents
           /\ interests' \in [Route -> Interest \cup {Nil}]
           /\ links' \in [Route -> Link \cup {Nil}]
           /\ lClosed' \in [Link -> BOOLEAN]
           /\ UNCHANGED <<lIntent, lInterest, lStep, lHooks>>
<1> USE DEF TypeOK, RemoveInterest, mapVars, linkVars, WriteMap, Fault
<1>1. CASE interests[r] = Nil
    BY <1>1
<1>2. CASE interests[r] # Nil
    BY <1>2
<1> QED
    BY <1>1, <1>2

(* Linker.link keeps the types of the link table and of the links. *)
LEMMA LinkUpType ==
    ASSUME TypeOK, NEW r \in Route, NEW i \in Intent, NEW n \in Interest, LinkUp(r, i, n)
    PROVE  /\ links' \in [Route -> Link \cup {Nil}]
           /\ lIntent' \in [Link -> Intent \cup {Nil}]
           /\ lInterest' \in [Link -> Interest \cup {Nil}]
           /\ lHooks' \in [Link -> SUBSET LinkHooks]
           /\ UNCHANGED <<lClosed, lStep>>
BY DEF TypeOK, LinkUp, linkVars, LinkHooks

(* What AddIntent writes under the mutex keeps its types. *)
LEMMA AddIntentType ==
    ASSUME TypeOK, NEW r \in Route, AddIntent(r)
    PROVE  /\ fault' \in Fault
           /\ intents' \in [Route -> Intent \cup {Nil}]
           /\ links' \in [Route -> Link \cup {Nil}]
           /\ iRoute' \in [Intent -> Route \cup {Nil}]
           /\ iState' \in [Intent -> ObjState]
           /\ iHooks' \in [Intent -> SUBSET ObjHooks]
           /\ lIntent' \in [Link -> Intent \cup {Nil}]
           /\ lInterest' \in [Link -> Interest \cup {Nil}]
           /\ lHooks' \in [Link -> SUBSET LinkHooks]
           /\ UNCHANGED <<use, ctxDone, teardown, interests, linkedC, notifyC, lClosed, lStep,
                          nRoute, nState, msgC, nHooks, sIntent, sChan>>
<1>1. PICK i \in Intent :
        /\ NewIntent(r, i, "open")
        /\ IF teardown = "torn"
           THEN fault' = "nilMap" /\ UNCHANGED <<intents, links, linkVars>>
           ELSE /\ WriteMap
                /\ intents' = [intents EXCEPT ![r] = i]
                /\ IF interests[r] = Nil
                   THEN UNCHANGED <<links, linkVars>>
                   ELSE LinkUp(r, i, interests[r])
    BY DEF AddIntent
<1>2. /\ iRoute' \in [Intent -> Route \cup {Nil}]
      /\ iState' \in [Intent -> ObjState]
      /\ iHooks' \in [Intent -> SUBSET ObjHooks]
      /\ UNCHANGED <<linkedC, notifyC>>
    BY <1>1 DEF NewIntent, TypeOK, ObjState, ObjHooks
<1>3. fault' \in Fault /\ intents' \in [Route -> Intent \cup {Nil}]
    BY <1>1 DEF WriteMap, Fault, TypeOK
<1>4. /\ links' \in [Route -> Link \cup {Nil}]
      /\ lIntent' \in [Link -> Intent \cup {Nil}]
      /\ lInterest' \in [Link -> Interest \cup {Nil}]
      /\ lHooks' \in [Link -> SUBSET LinkHooks]
      /\ UNCHANGED <<lClosed, lStep>>
    <2>1. CASE UNCHANGED <<links, linkVars>>
        BY <2>1 DEF TypeOK, linkVars
    <2>2. CASE interests[r] # Nil /\ LinkUp(r, i, interests[r])
        <3>1. interests[r] \in Interest
            BY <2>2 DEF TypeOK
        <3> QED
            BY <2>2, <3>1, LinkUpType
    <2> QED
        BY <1>1, <2>1, <2>2
<1>5. UNCHANGED <<use, ctxDone, teardown, interests, nRoute, nState, msgC, nHooks,
                  sIntent, sChan>>
    BY DEF AddIntent, linkerVars, interestVars, senderVars
<1> QED
    BY <1>2, <1>3, <1>4, <1>5

(* The same for AddInterest. *)
LEMMA AddInterestType ==
    ASSUME TypeOK, NEW r \in Route, AddInterest(r)
    PROVE  /\ fault' \in Fault
           /\ interests' \in [Route -> Interest \cup {Nil}]
           /\ links' \in [Route -> Link \cup {Nil}]
           /\ nRoute' \in [Interest -> Route \cup {Nil}]
           /\ nState' \in [Interest -> ObjState]
           /\ nHooks' \in [Interest -> SUBSET ObjHooks]
           /\ lIntent' \in [Link -> Intent \cup {Nil}]
           /\ lInterest' \in [Link -> Interest \cup {Nil}]
           /\ lHooks' \in [Link -> SUBSET LinkHooks]
           /\ UNCHANGED <<use, ctxDone, teardown, intents, msgC, lClosed, lStep,
                          iRoute, iState, linkedC, notifyC, iHooks, sIntent, sChan>>
<1>1. PICK n \in Interest :
        /\ NewInterest(r, n, "open")
        /\ IF teardown = "torn"
           THEN fault' = "nilMap" /\ UNCHANGED <<interests, links, linkVars>>
           ELSE /\ WriteMap
                /\ interests' = [interests EXCEPT ![r] = n]
                /\ IF intents[r] = Nil
                   THEN UNCHANGED <<links, linkVars>>
                   ELSE LinkUp(r, intents[r], n)
    BY DEF AddInterest
<1>2. /\ nRoute' \in [Interest -> Route \cup {Nil}]
      /\ nState' \in [Interest -> ObjState]
      /\ nHooks' \in [Interest -> SUBSET ObjHooks]
      /\ UNCHANGED msgC
    BY <1>1 DEF NewInterest, TypeOK, ObjState, ObjHooks
<1>3. fault' \in Fault /\ interests' \in [Route -> Interest \cup {Nil}]
    BY <1>1 DEF WriteMap, Fault, TypeOK
<1>4. /\ links' \in [Route -> Link \cup {Nil}]
      /\ lIntent' \in [Link -> Intent \cup {Nil}]
      /\ lInterest' \in [Link -> Interest \cup {Nil}]
      /\ lHooks' \in [Link -> SUBSET LinkHooks]
      /\ UNCHANGED <<lClosed, lStep>>
    <2>1. CASE UNCHANGED <<links, linkVars>>
        BY <2>1 DEF TypeOK, linkVars
    <2>2. CASE intents[r] # Nil /\ LinkUp(r, intents[r], n)
        <3>1. intents[r] \in Intent
            BY <2>2 DEF TypeOK
        <3> QED
            BY <2>2, <3>1, LinkUpType
    <2> QED
        BY <1>1, <2>1, <2>2
<1>5. UNCHANGED <<use, ctxDone, teardown, intents, iRoute, iState, linkedC, notifyC, iHooks,
                  sIntent, sChan>>
    BY DEF AddInterest, linkerVars, intentVars, senderVars
<1> QED
    BY <1>2, <1>3, <1>4, <1>5

(* Every step keeps every variable in its type. *)
LEMMA TypeStep == TypeOK /\ [Next]_vars => TypeOK'
<1> SUFFICES ASSUME TypeOK, [Next]_vars PROVE TypeOK'
    OBVIOUS
<1> USE DEF linkerVars, mapVars, intentVars, interestVars, linkVars, senderVars
<1> USE SizeAssumption DEF TypeOK, ObjState, ObjHooks, LinkStep, LinkHooks, Fault
<1>1. ASSUME NEW r \in Route, AddIntentExisting(r) PROVE TypeOK'
    BY <1>1 DEF AddIntentExisting, vars
<1>2. ASSUME NEW r \in Route, AddIntentRefused(r) PROVE TypeOK'
    BY <1>2 DEF AddIntentRefused, NewIntent
<1>3. ASSUME NEW r \in Route, AddIntent(r) PROVE TypeOK'
    BY <1>3, AddIntentType
<1>4. ASSUME NEW r \in Route, AddInterestExisting(r) PROVE TypeOK'
    BY <1>4 DEF AddInterestExisting, Notify
<1>5. ASSUME NEW r \in Route, AddInterestRefused(r) PROVE TypeOK'
    BY <1>5 DEF AddInterestRefused, NewInterest
<1>6. ASSUME NEW r \in Route, AddInterest(r) PROVE TypeOK'
    BY <1>6, AddInterestType
<1>7. ASSUME NEW r \in Route, CallRemoveIntent(r) PROVE TypeOK'
    BY <1>7 DEF CallRemoveIntent, RemoveIntent, WriteMap
<1>8. ASSUME NEW r \in Route, CallRemoveInterest(r) PROVE TypeOK'
    BY <1>8, RemoveInterestType DEF CallRemoveInterest
<1>9. ASSUME NEW i \in Intent, CloseIntent(i) PROVE TypeOK'
    BY <1>9 DEF CloseIntent
<1>10. ASSUME NEW i \in Intent, RecvNotify(i) PROVE TypeOK'
    BY <1>10 DEF RecvNotify
<1>11. ASSUME NEW i \in Intent, IntentChanHook(i) PROVE TypeOK'
    BY <1>11 DEF IntentChanHook
<1>12. ASSUME NEW i \in Intent, IntentRemoveHook(i) PROVE TypeOK'
    BY <1>12 DEF IntentRemoveHook, RemoveIntent, WriteMap
<1>13. ASSUME NEW n \in Interest, CloseInterest(n) PROVE TypeOK'
    BY <1>13 DEF CloseInterest
<1>14. ASSUME NEW n \in Interest, Recv(n) PROVE TypeOK'
    BY <1>14 DEF Recv
<1>15. ASSUME NEW n \in Interest, InterestChanHook(n) PROVE TypeOK'
    BY <1>15 DEF InterestChanHook
<1>16. ASSUME NEW n \in Interest, InterestRemoveHook(n) PROVE TypeOK'
    BY <1>16, RemoveInterestType DEF InterestRemoveHook
<1>17. ASSUME NEW l \in Link, LinkGoLink(l) PROVE TypeOK'
    BY <1>17 DEF LinkGoLink
<1>18. ASSUME NEW l \in Link, LinkGoNotify(l) PROVE TypeOK'
    BY <1>18 DEF LinkGoNotify, Notify
<1>19. ASSUME NEW l \in Link, LinkSeverHook(l) PROVE TypeOK'
    BY <1>19 DEF LinkSeverHook
<1>20. ASSUME NEW l \in Link, LinkUnlinkHook(l) PROVE TypeOK'
    BY <1>20 DEF LinkUnlinkHook, LinkRoute
<1>21. ASSUME NEW s \in Sender, NEW i \in Intent, SendBegin(s, i) PROVE TypeOK'
    BY <1>21 DEF SendBegin
<1>22. ASSUME NEW s \in Sender, SendGiveUp(s) PROVE TypeOK'
    BY <1>22 DEF SendGiveUp, SendReturn
<1>23. ASSUME NEW s \in Sender, SendMsg(s) PROVE TypeOK'
    BY <1>23 DEF SendMsg, SendReturn
<1>24. ASSUME ParentCancel PROVE TypeOK'
    BY <1>24 DEF ParentCancel
<1>25. ASSUME CloseLinker PROVE TypeOK'
    BY <1>25 DEF CloseLinker
<1>26. ASSUME TeardownBegin PROVE TypeOK'
    BY <1>26 DEF TeardownBegin
<1>27. ASSUME TeardownEnd PROVE TypeOK'
    BY <1>27 DEF TeardownEnd
<1>28. CASE UNCHANGED vars
    BY <1>28 DEF vars
<1> QED
    BY <1>1, <1>2, <1>3, <1>4, <1>5, <1>6, <1>7, <1>8, <1>9, <1>10, <1>11,
       <1>12, <1>13, <1>14, <1>15, <1>16, <1>17, <1>18, <1>19, <1>20,
       <1>21, <1>22, <1>23, <1>24, <1>25, <1>26, <1>27, <1>28 DEF Next,
       UserStep, IntentStep, InterestStep, LinkGo

(* What is registered on a route was created for it. *)
LEMMA RegistryStep == TypeOK /\ RegistryInv /\ [Next]_vars => RegistryInv'
<1> SUFFICES ASSUME TypeOK, RegistryInv, [Next]_vars PROVE RegistryInv'
    OBVIOUS
<1> USE DEF linkerVars, mapVars, intentVars, interestVars, linkVars, senderVars
<1> USE NilAssumption DEF TypeOK, RegistryInv
<1>1. ASSUME NEW r \in Route, AddIntentExisting(r) PROVE RegistryInv'
    BY <1>1 DEF AddIntentExisting, vars
<1>2. ASSUME NEW r \in Route, AddIntentRefused(r) PROVE RegistryInv'
    BY <1>2 DEF AddIntentRefused, NewIntent
<1>3. ASSUME NEW r \in Route, AddIntent(r) PROVE RegistryInv'
    BY <1>3 DEF AddIntent, NewIntent, WriteMap, LinkUp
<1>4. ASSUME NEW r \in Route, AddInterestExisting(r) PROVE RegistryInv'
    BY <1>4 DEF AddInterestExisting, Notify
<1>5. ASSUME NEW r \in Route, AddInterestRefused(r) PROVE RegistryInv'
    BY <1>5 DEF AddInterestRefused, NewInterest
<1>6. ASSUME NEW r \in Route, AddInterest(r) PROVE RegistryInv'
    BY <1>6 DEF AddInterest, NewInterest, WriteMap, LinkUp
<1>7. ASSUME NEW r \in Route, CallRemoveIntent(r) PROVE RegistryInv'
    BY <1>7 DEF CallRemoveIntent, RemoveIntent, WriteMap
<1>8. ASSUME NEW r \in Route, CallRemoveInterest(r) PROVE RegistryInv'
    BY <1>8 DEF CallRemoveInterest, RemoveInterest, WriteMap
<1>9. ASSUME NEW i \in Intent, CloseIntent(i) PROVE RegistryInv'
    BY <1>9 DEF CloseIntent
<1>10. ASSUME NEW i \in Intent, RecvNotify(i) PROVE RegistryInv'
    BY <1>10 DEF RecvNotify
<1>11. ASSUME NEW i \in Intent, IntentChanHook(i) PROVE RegistryInv'
    BY <1>11 DEF IntentChanHook
<1>12. ASSUME NEW i \in Intent, IntentRemoveHook(i) PROVE RegistryInv'
    BY <1>12 DEF IntentRemoveHook, RemoveIntent, WriteMap, IntentDone
<1>13. ASSUME NEW n \in Interest, CloseInterest(n) PROVE RegistryInv'
    BY <1>13 DEF CloseInterest
<1>14. ASSUME NEW n \in Interest, Recv(n) PROVE RegistryInv'
    BY <1>14 DEF Recv
<1>15. ASSUME NEW n \in Interest, InterestChanHook(n) PROVE RegistryInv'
    BY <1>15 DEF InterestChanHook
<1>16. ASSUME NEW n \in Interest, InterestRemoveHook(n) PROVE RegistryInv'
    BY <1>16 DEF InterestRemoveHook, RemoveInterest, WriteMap, InterestDone
<1>17. ASSUME NEW l \in Link, LinkGoLink(l) PROVE RegistryInv'
    BY <1>17 DEF LinkGoLink
<1>18. ASSUME NEW l \in Link, LinkGoNotify(l) PROVE RegistryInv'
    BY <1>18 DEF LinkGoNotify, Notify
<1>19. ASSUME NEW l \in Link, LinkSeverHook(l) PROVE RegistryInv'
    BY <1>19 DEF LinkSeverHook
<1>20. ASSUME NEW l \in Link, LinkUnlinkHook(l) PROVE RegistryInv'
    BY <1>20 DEF LinkUnlinkHook, LinkRoute
<1>21. ASSUME NEW s \in Sender, NEW i \in Intent, SendBegin(s, i) PROVE RegistryInv'
    BY <1>21 DEF SendBegin
<1>22. ASSUME NEW s \in Sender, SendGiveUp(s) PROVE RegistryInv'
    BY <1>22 DEF SendGiveUp, SendReturn
<1>23. ASSUME NEW s \in Sender, SendMsg(s) PROVE RegistryInv'
    BY <1>23 DEF SendMsg, SendReturn
<1>24. ASSUME ParentCancel PROVE RegistryInv'
    BY <1>24 DEF ParentCancel
<1>25. ASSUME CloseLinker PROVE RegistryInv'
    BY <1>25 DEF CloseLinker
<1>26. ASSUME TeardownBegin PROVE RegistryInv'
    BY <1>26 DEF TeardownBegin
<1>27. ASSUME TeardownEnd PROVE RegistryInv'
    BY <1>27 DEF TeardownEnd
<1>28. CASE UNCHANGED vars
    BY <1>28 DEF vars
<1> QED
    BY <1>1, <1>2, <1>3, <1>4, <1>5, <1>6, <1>7, <1>8, <1>9, <1>10, <1>11,
       <1>12, <1>13, <1>14, <1>15, <1>16, <1>17, <1>18, <1>19, <1>20,
       <1>21, <1>22, <1>23, <1>24, <1>25, <1>26, <1>27, <1>28 DEF Next,
       UserStep, IntentStep, InterestStep, LinkGo

(* Only its own hook unregisters an object. *)
LEMMA HookStep == TypeOK /\ RegistryInv /\ HookInv /\ [Next]_vars => HookInv'
<1> SUFFICES ASSUME TypeOK, RegistryInv, HookInv, [Next]_vars PROVE HookInv'
    OBVIOUS
<1> USE DEF linkerVars, mapVars, intentVars, interestVars, linkVars, senderVars
<1> USE NilAssumption DEF TypeOK, RegistryInv, HookInv, ObjHooks, DirectRemove
<1>1. ASSUME NEW r \in Route, AddIntentExisting(r) PROVE HookInv'
    BY <1>1 DEF AddIntentExisting, vars
<1>2. ASSUME NEW r \in Route, AddIntentRefused(r) PROVE HookInv'
    BY <1>2 DEF AddIntentRefused, NewIntent
<1>3. ASSUME NEW r \in Route, AddIntent(r) PROVE HookInv'
    BY <1>3 DEF AddIntent, NewIntent, WriteMap, LinkUp
<1>4. ASSUME NEW r \in Route, AddInterestExisting(r) PROVE HookInv'
    BY <1>4 DEF AddInterestExisting, Notify
<1>5. ASSUME NEW r \in Route, AddInterestRefused(r) PROVE HookInv'
    BY <1>5 DEF AddInterestRefused, NewInterest
<1>6. ASSUME NEW r \in Route, AddInterest(r) PROVE HookInv'
    BY <1>6 DEF AddInterest, NewInterest, WriteMap, LinkUp
<1>7. ASSUME NEW r \in Route, CallRemoveIntent(r) PROVE HookInv'
    BY <1>7 DEF CallRemoveIntent, RemoveIntent, WriteMap
<1>8. ASSUME NEW r \in Route, CallRemoveInterest(r) PROVE HookInv'
    BY <1>8 DEF CallRemoveInterest, RemoveInterest, WriteMap
<1>9. ASSUME NEW i \in Intent, CloseIntent(i) PROVE HookInv'
    BY <1>9 DEF CloseIntent
<1>10. ASSUME NEW i \in Intent, RecvNotify(i) PROVE HookInv'
    BY <1>10 DEF RecvNotify
<1>11. ASSUME NEW i \in Intent, IntentChanHook(i) PROVE HookInv'
    BY <1>11 DEF IntentChanHook
<1>12. ASSUME NEW i \in Intent, IntentRemoveHook(i) PROVE HookInv'
    BY <1>12 DEF IntentRemoveHook, RemoveIntent, WriteMap, IntentDone
<1>13. ASSUME NEW n \in Interest, CloseInterest(n) PROVE HookInv'
    BY <1>13 DEF CloseInterest
<1>14. ASSUME NEW n \in Interest, Recv(n) PROVE HookInv'
    BY <1>14 DEF Recv
<1>15. ASSUME NEW n \in Interest, InterestChanHook(n) PROVE HookInv'
    BY <1>15 DEF InterestChanHook
<1>16. ASSUME NEW n \in Interest, InterestRemoveHook(n) PROVE HookInv'
    BY <1>16 DEF InterestRemoveHook, RemoveInterest, WriteMap, InterestDone
<1>17. ASSUME NEW l \in Link, LinkGoLink(l) PROVE HookInv'
    BY <1>17 DEF LinkGoLink
<1>18. ASSUME NEW l \in Link, LinkGoNotify(l) PROVE HookInv'
    BY <1>18 DEF LinkGoNotify, Notify
<1>19. ASSUME NEW l \in Link, LinkSeverHook(l) PROVE HookInv'
    BY <1>19 DEF LinkSeverHook
<1>20. ASSUME NEW l \in Link, LinkUnlinkHook(l) PROVE HookInv'
    BY <1>20 DEF LinkUnlinkHook, LinkRoute
<1>21. ASSUME NEW s \in Sender, NEW i \in Intent, SendBegin(s, i) PROVE HookInv'
    BY <1>21 DEF SendBegin
<1>22. ASSUME NEW s \in Sender, SendGiveUp(s) PROVE HookInv'
    BY <1>22 DEF SendGiveUp, SendReturn
<1>23. ASSUME NEW s \in Sender, SendMsg(s) PROVE HookInv'
    BY <1>23 DEF SendMsg, SendReturn
<1>24. ASSUME ParentCancel PROVE HookInv'
    BY <1>24 DEF ParentCancel
<1>25. ASSUME CloseLinker PROVE HookInv'
    BY <1>25 DEF CloseLinker
<1>26. ASSUME TeardownBegin PROVE HookInv'
    BY <1>26 DEF TeardownBegin
<1>27. ASSUME TeardownEnd PROVE HookInv'
    BY <1>27 DEF TeardownEnd
<1>28. CASE UNCHANGED vars
    BY <1>28 DEF vars
<1> QED
    BY <1>1, <1>2, <1>3, <1>4, <1>5, <1>6, <1>7, <1>8, <1>9, <1>10, <1>11,
       <1>12, <1>13, <1>14, <1>15, <1>16, <1>17, <1>18, <1>19, <1>20,
       <1>21, <1>22, <1>23, <1>24, <1>25, <1>26, <1>27, <1>28 DEF Next,
       UserStep, IntentStep, InterestStep, LinkGo

(* Everything that joins an intent and an interest joins two of one route. *)
LEMMA WireStep ==
    TypeOK /\ RegistryInv /\ LinkTableConsistent /\ WireInv /\ [Next]_vars => WireInv'
<1> SUFFICES ASSUME TypeOK, RegistryInv, LinkTableConsistent, WireInv, [Next]_vars PROVE WireInv'
    OBVIOUS
<1> USE DEF linkerVars, mapVars, intentVars, interestVars, linkVars, senderVars
<1> USE NilAssumption DEF TypeOK, RegistryInv, WireInv
<1>1. ASSUME NEW r \in Route, AddIntentExisting(r) PROVE WireInv'
    BY <1>1 DEF AddIntentExisting, vars
<1>2. ASSUME NEW r \in Route, AddIntentRefused(r) PROVE WireInv'
    BY <1>2 DEF AddIntentRefused, NewIntent
<1>3. ASSUME NEW r \in Route, AddIntent(r) PROVE WireInv'
    BY <1>3 DEF AddIntent, NewIntent, WriteMap, LinkUp
<1>4. ASSUME NEW r \in Route, AddInterestExisting(r) PROVE WireInv'
    BY <1>4 DEF AddInterestExisting, Notify
<1>5. ASSUME NEW r \in Route, AddInterestRefused(r) PROVE WireInv'
    BY <1>5 DEF AddInterestRefused, NewInterest
<1>6. ASSUME NEW r \in Route, AddInterest(r) PROVE WireInv'
    BY <1>6 DEF AddInterest, NewInterest, WriteMap, LinkUp
<1>7. ASSUME NEW r \in Route, CallRemoveIntent(r) PROVE WireInv'
    BY <1>7 DEF CallRemoveIntent, RemoveIntent, WriteMap
<1>8. ASSUME NEW r \in Route, CallRemoveInterest(r) PROVE WireInv'
    BY <1>8 DEF CallRemoveInterest, RemoveInterest, WriteMap, LinkTableConsistent
<1>9. ASSUME NEW i \in Intent, CloseIntent(i) PROVE WireInv'
    BY <1>9 DEF CloseIntent
<1>10. ASSUME NEW i \in Intent, RecvNotify(i) PROVE WireInv'
    BY <1>10 DEF RecvNotify
<1>11. ASSUME NEW i \in Intent, IntentChanHook(i) PROVE WireInv'
    BY <1>11 DEF IntentChanHook
<1>12. ASSUME NEW i \in Intent, IntentRemoveHook(i) PROVE WireInv'
    BY <1>12 DEF IntentRemoveHook, RemoveIntent, WriteMap, IntentDone
<1>13. ASSUME NEW n \in Interest, CloseInterest(n) PROVE WireInv'
    BY <1>13 DEF CloseInterest
<1>14. ASSUME NEW n \in Interest, Recv(n) PROVE WireInv'
    BY <1>14 DEF Recv
<1>15. ASSUME NEW n \in Interest, InterestChanHook(n) PROVE WireInv'
    BY <1>15 DEF InterestChanHook
<1>16. ASSUME NEW n \in Interest, InterestRemoveHook(n) PROVE WireInv'
    BY <1>16 DEF InterestRemoveHook, RemoveInterest, WriteMap, InterestDone, LinkTableConsistent
<1>17. ASSUME NEW l \in Link, LinkGoLink(l) PROVE WireInv'
    BY <1>17 DEF LinkGoLink
<1>18. ASSUME NEW l \in Link, LinkGoNotify(l) PROVE WireInv'
    BY <1>18 DEF LinkGoNotify, Notify
<1>19. ASSUME NEW l \in Link, LinkSeverHook(l) PROVE WireInv'
    BY <1>19 DEF LinkSeverHook
<1>20. ASSUME NEW l \in Link, LinkUnlinkHook(l) PROVE WireInv'
    BY <1>20 DEF LinkUnlinkHook, LinkRoute
<1>21. ASSUME NEW s \in Sender, NEW i \in Intent, SendBegin(s, i) PROVE WireInv'
    BY <1>21 DEF SendBegin
<1>22. ASSUME NEW s \in Sender, SendGiveUp(s) PROVE WireInv'
    BY <1>22 DEF SendGiveUp, SendReturn
<1>23. ASSUME NEW s \in Sender, SendMsg(s) PROVE WireInv'
    BY <1>23 DEF SendMsg, SendReturn
<1>24. ASSUME ParentCancel PROVE WireInv'
    BY <1>24 DEF ParentCancel
<1>25. ASSUME CloseLinker PROVE WireInv'
    BY <1>25 DEF CloseLinker
<1>26. ASSUME TeardownBegin PROVE WireInv'
    BY <1>26 DEF TeardownBegin
<1>27. ASSUME TeardownEnd PROVE WireInv'
    BY <1>27 DEF TeardownEnd
<1>28. CASE UNCHANGED vars
    BY <1>28 DEF vars
<1> QED
    BY <1>1, <1>2, <1>3, <1>4, <1>5, <1>6, <1>7, <1>8, <1>9, <1>10, <1>11,
       <1>12, <1>13, <1>14, <1>15, <1>16, <1>17, <1>18, <1>19, <1>20,
       <1>21, <1>22, <1>23, <1>24, <1>25, <1>26, <1>27, <1>28 DEF Next,
       UserStep, IntentStep, InterestStep, LinkGo

(* Removing an end of a link removes the link from the table. *)
LEMMA TableStep == TypeOK /\ RegistryInv /\ LinkTableConsistent /\ [Next]_vars => LinkTableConsistent'
<1> SUFFICES ASSUME TypeOK, RegistryInv, LinkTableConsistent, [Next]_vars PROVE LinkTableConsistent'
    OBVIOUS
<1> USE DEF linkerVars, mapVars, intentVars, interestVars, linkVars, senderVars
<1> USE NilAssumption DEF TypeOK, RegistryInv, LinkTableConsistent
<1>1. ASSUME NEW r \in Route, AddIntentExisting(r) PROVE LinkTableConsistent'
    BY <1>1 DEF AddIntentExisting, vars
<1>2. ASSUME NEW r \in Route, AddIntentRefused(r) PROVE LinkTableConsistent'
    BY <1>2 DEF AddIntentRefused, NewIntent
<1>3. ASSUME NEW r \in Route, AddIntent(r) PROVE LinkTableConsistent'
    BY <1>3 DEF AddIntent, NewIntent, WriteMap, LinkUp
<1>4. ASSUME NEW r \in Route, AddInterestExisting(r) PROVE LinkTableConsistent'
    BY <1>4 DEF AddInterestExisting, Notify
<1>5. ASSUME NEW r \in Route, AddInterestRefused(r) PROVE LinkTableConsistent'
    BY <1>5 DEF AddInterestRefused, NewInterest
<1>6. ASSUME NEW r \in Route, AddInterest(r) PROVE LinkTableConsistent'
    BY <1>6 DEF AddInterest, NewInterest, WriteMap, LinkUp
<1>7. ASSUME NEW r \in Route, CallRemoveIntent(r) PROVE LinkTableConsistent'
    BY <1>7 DEF CallRemoveIntent, RemoveIntent, WriteMap
<1>8. ASSUME NEW r \in Route, CallRemoveInterest(r) PROVE LinkTableConsistent'
    BY <1>8 DEF CallRemoveInterest, RemoveInterest, WriteMap
<1>9. ASSUME NEW i \in Intent, CloseIntent(i) PROVE LinkTableConsistent'
    BY <1>9 DEF CloseIntent
<1>10. ASSUME NEW i \in Intent, RecvNotify(i) PROVE LinkTableConsistent'
    BY <1>10 DEF RecvNotify
<1>11. ASSUME NEW i \in Intent, IntentChanHook(i) PROVE LinkTableConsistent'
    BY <1>11 DEF IntentChanHook
<1>12. ASSUME NEW i \in Intent, IntentRemoveHook(i) PROVE LinkTableConsistent'
    BY <1>12 DEF IntentRemoveHook, RemoveIntent, WriteMap, IntentDone
<1>13. ASSUME NEW n \in Interest, CloseInterest(n) PROVE LinkTableConsistent'
    BY <1>13 DEF CloseInterest
<1>14. ASSUME NEW n \in Interest, Recv(n) PROVE LinkTableConsistent'
    BY <1>14 DEF Recv
<1>15. ASSUME NEW n \in Interest, InterestChanHook(n) PROVE LinkTableConsistent'
    BY <1>15 DEF InterestChanHook
<1>16. ASSUME NEW n \in Interest, InterestRemoveHook(n) PROVE LinkTableConsistent'
    BY <1>16 DEF InterestRemoveHook, RemoveInterest, WriteMap, InterestDone
<1>17. ASSUME NEW l \in Link, LinkGoLink(l) PROVE LinkTableConsistent'
    BY <1>17 DEF LinkGoLink
<1>18. ASSUME NEW l \in Link, LinkGoNotify(l) PROVE LinkTableConsistent'
    BY <1>18 DEF LinkGoNotify, Notify
<1>19. ASSUME NEW l \in Link, LinkSeverHook(l) PROVE LinkTableConsistent'
    BY <1>19 DEF LinkSeverHook
<1>20. ASSUME NEW l \in Link, LinkUnlinkHook(l) PROVE LinkTableConsistent'
    BY <1>20 DEF LinkUnlinkHook, LinkRoute
<1>21. ASSUME NEW s \in Sender, NEW i \in Intent, SendBegin(s, i) PROVE LinkTableConsistent'
    BY <1>21 DEF SendBegin
<1>22. ASSUME NEW s \in Sender, SendGiveUp(s) PROVE LinkTableConsistent'
    BY <1>22 DEF SendGiveUp, SendReturn
<1>23. ASSUME NEW s \in Sender, SendMsg(s) PROVE LinkTableConsistent'
    BY <1>23 DEF SendMsg, SendReturn
<1>24. ASSUME ParentCancel PROVE LinkTableConsistent'
    BY <1>24 DEF ParentCancel
<1>25. ASSUME CloseLinker PROVE LinkTableConsistent'
    BY <1>25 DEF CloseLinker
<1>26. ASSUME TeardownBegin PROVE LinkTableConsistent'
    BY <1>26 DEF TeardownBegin
<1>27. ASSUME TeardownEnd PROVE LinkTableConsistent'
    BY <1>27 DEF TeardownEnd
<1>28. CASE UNCHANGED vars
    BY <1>28 DEF vars
<1> QED
    BY <1>1, <1>2, <1>3, <1>4, <1>5, <1>6, <1>7, <1>8, <1>9, <1>10, <1>11,
       <1>12, <1>13, <1>14, <1>15, <1>16, <1>17, <1>18, <1>19, <1>20,
       <1>21, <1>22, <1>23, <1>24, <1>25, <1>26, <1>27, <1>28 DEF Next,
       UserStep, IntentStep, InterestStep, LinkGo

-----------------------------------------------------------------------------
(* The invariant holds in every reachable state of every instance. *)
THEOREM LinkerInvariant == Spec => []LinkerInv
<1>1. Init => LinkerInv
  <2> SUFFICES ASSUME Init PROVE LinkerInv
      OBVIOUS
  <2>1. TypeOK
    <3>1. /\ notifyC \in [Intent -> 0..Size]
          /\ msgC \in [Interest -> 0..Size]
        BY SizeAssumption DEF Init
    <3>2. /\ iState \in [Intent -> ObjState]
          /\ nState \in [Interest -> ObjState]
          /\ lStep \in [Link -> LinkStep]
          /\ lClosed \in [Link -> BOOLEAN]
          /\ fault \in Fault
        BY DEF Init, ObjState, LinkStep, Fault
    <3>3. /\ iHooks \in [Intent -> SUBSET ObjHooks]
          /\ nHooks \in [Interest -> SUBSET ObjHooks]
          /\ lHooks \in [Link -> SUBSET LinkHooks]
        BY DEF Init
    <3> QED
        BY <3>1, <3>2, <3>3 DEF Init, TypeOK
  <2>2. RegistryInv /\ HookInv
      BY DEF Init, RegistryInv, HookInv
  <2>3. WireInv /\ LinkTableConsistent
      BY DEF Init, WireInv, LinkTableConsistent
  <2> QED
      BY <2>1, <2>2, <2>3 DEF LinkerInv
<1>2. LinkerInv /\ [Next]_vars => LinkerInv'
    BY TypeStep, RegistryStep, HookStep, WireStep, TableStep DEF LinkerInv
<1> QED
    BY <1>1, <1>2, PTL DEF Spec

(* The maps, contexts, channels and hooks of the Linker keep their types; in *)
(* particular no buffered channel ever holds more than Size elements.        *)
THEOREM TypeCorrect == Spec => []TypeOK
    BY LinkerInvariant, PTL DEF LinkerInv

(* The table of links never holds a link one of whose ends is no longer the *)
(* one registered on its route.                                             *)
THEOREM TableCorrect == Spec => []LinkTableConsistent
    BY LinkerInvariant, PTL DEF LinkerInv

(* As long as nobody removes by route and the linker lives, no hook evicts *)
(* the registration of an object that is still open.                       *)
THEOREM LiveRegistered == Spec => []LiveIsRegistered
<1>1. LinkerInv => LiveIsRegistered
    BY DEF LinkerInv, HookInv, LiveIsRegistered
<1> QED
    BY <1>1, LinkerInvariant, PTL

(* No message can leave its route, not even one whose Send was overtaken by *)
(* any number of relinks.                                                   *)
THEOREM RouteIsolation == Spec => []NoCrossWire
<1>1. LinkerInv => NoCrossWire
    BY DEF LinkerInv, WireInv, NoCrossWire
<1> QED
    BY <1>1, LinkerInvariant, PTL

-----------------------------------------------------------------------------
(* Users who are careful. *)

(* The linker is used in one way, and its context does not come back.         *)
LEMMA UseIsFixed == ASSUME [Next]_vars PROVE use' = use /\ (ctxDone => ctxDone')
BY DEF Next, UserStep, IntentStep, InterestStep, LinkGo, vars, linkerVars, AddIntentExisting,
       AddIntentRefused, AddIntent, AddInterestExisting, AddInterestRefused, AddInterest,
       CallRemoveIntent, CallRemoveInterest, CloseIntent, RecvNotify, CloseInterest, Recv,
       SendBegin, SendGiveUp, SendMsg, ParentCancel, CloseLinker, IntentChanHook,
       IntentRemoveHook, InterestChanHook, InterestRemoveHook, LinkGoLink, LinkGoNotify,
       LinkSeverHook, LinkUnlinkHook, TeardownBegin, TeardownEnd

(* What is registered on a route that has settled is open, and no late hook   *)
(* of a link is about to touch it.                                            *)
LEMMA SettledIsOpen ==
    ASSUME LinkerInv, ArmedInv, NEW r \in Route, Settled(r)
    PROVE  /\ intents[r] # Nil => iState[intents[r]] = "open" /\ "chan" \in iHooks[intents[r]]
           /\ interests[r] # Nil => nState[interests[r]] = "open"
           /\ \A l \in Link : LinkRoute(l) = r => lStep[l] = "wait" /\ (lClosed[l] => lHooks[l] = {})
BY DEF LinkerInv, ArmedInv, TypeOK, RegistryInv, Settled, LinksSetUp

Calm == LinkerInv /\ Careful /\ ~ctxDone /\ ArmedInv /\ LinkInv /\ ChannelInv

(* A step of a careful user keeps hooks armed.  *)
LEMMA ArmedStep ==
    ASSUME Calm, [Next]_vars, ~ctxDone'
    PROVE  ArmedInv'
<1>0. /\ TypeOK /\ RegistryInv /\ HookInv /\ WireInv /\ LinkTableConsistent
      /\ teardown = "none" /\ Patient /\ ~DirectRemove /\ ~ctxDone
    BY DEF Calm, LinkerInv, Careful, RegistryInv
<1>1. ArmedInv
    BY DEF Calm
<1> USE DEF linkerVars, mapVars, intentVars, interestVars, linkVars, senderVars
<1> USE <1>0, <1>1, NilAssumption DEF TypeOK, ArmedInv, ObjHooks
<1>2. ASSUME NEW r \in Route, AddIntentExisting(r) PROVE ArmedInv'
    BY <1>2 DEF AddIntentExisting, vars
<1>3. ASSUME NEW r \in Route, AddIntentRefused(r) PROVE ArmedInv'
    BY <1>3 DEF AddIntentRefused, NewIntent
<1>4. ASSUME NEW r \in Route, AddIntent(r) PROVE ArmedInv'
    BY <1>4 DEF AddIntent, NewIntent, WriteMap, LinkUp
<1>5. ASSUME NEW r \in Route, AddInterestExisting(r) PROVE ArmedInv'
    BY <1>5 DEF AddInterestExisting, Notify
<1>6. ASSUME NEW r \in Route, AddInterestRefused(r) PROVE ArmedInv'
    BY <1>6 DEF AddInterestRefused, NewInterest
<1>7. ASSUME NEW r \in Route, AddInterest(r) PROVE ArmedInv'
    BY <1>7 DEF AddInterest, NewInterest, WriteMap, LinkUp
<1>8. ASSUME NEW r \in Route, CallRemoveIntent(r) PROVE ArmedInv'
    BY <1>8 DEF CallRemoveIntent
<1>9. ASSUME NEW r \in Route, CallRemoveInterest(r) PROVE ArmedInv'
    BY <1>9 DEF CallRemoveInterest
<1>10. ASSUME NEW i \in Intent, CloseIntent(i) PROVE ArmedInv'
    BY <1>10 DEF CloseIntent
<1>11. ASSUME NEW i \in Intent, RecvNotify(i) PROVE ArmedInv'
    BY <1>11 DEF RecvNotify
<1>12. ASSUME NEW i \in Intent, IntentChanHook(i) PROVE ArmedInv'
    BY <1>12 DEF IntentChanHook, IntentDone
<1>13. ASSUME NEW i \in Intent, IntentRemoveHook(i) PROVE ArmedInv'
    BY <1>13 DEF IntentRemoveHook, RemoveIntent, WriteMap, IntentDone, HookInv, RegistryInv
<1>14. ASSUME NEW n \in Interest, CloseInterest(n) PROVE ArmedInv'
    BY <1>14 DEF CloseInterest
<1>15. ASSUME NEW n \in Interest, Recv(n) PROVE ArmedInv'
    BY <1>15 DEF Recv
<1>16. ASSUME NEW n \in Interest, InterestChanHook(n) PROVE ArmedInv'
    BY <1>16 DEF InterestChanHook, InterestDone
<1>17. ASSUME NEW n \in Interest, InterestRemoveHook(n) PROVE ArmedInv'
    BY <1>17 DEF InterestRemoveHook, RemoveInterest, WriteMap, InterestDone, HookInv, RegistryInv
<1>18. ASSUME NEW l \in Link, LinkGoLink(l) PROVE ArmedInv'
    BY <1>18 DEF LinkGoLink, Calm, LinkInv
<1>19. ASSUME NEW l \in Link, LinkGoNotify(l) PROVE ArmedInv'
    BY <1>19 DEF LinkGoNotify, Notify
<1>20. ASSUME NEW l \in Link, LinkSeverHook(l) PROVE ArmedInv'
    BY <1>20 DEF LinkSeverHook
<1>21. ASSUME NEW l \in Link, LinkUnlinkHook(l) PROVE ArmedInv'
    BY <1>21 DEF LinkUnlinkHook
<1>22. ASSUME NEW s \in Sender, NEW i \in Intent, SendBegin(s, i) PROVE ArmedInv'
    BY <1>22 DEF SendBegin
<1>23. ASSUME NEW s \in Sender, SendGiveUp(s) PROVE ArmedInv'
    BY <1>23 DEF SendGiveUp, SendReturn
<1>24. ASSUME NEW s \in Sender, SendMsg(s) PROVE ArmedInv'
    BY <1>24 DEF SendMsg, SendReturn
<1>25. ASSUME ParentCancel PROVE ArmedInv'
    BY <1>25 DEF ParentCancel
<1>26. ASSUME CloseLinker PROVE ArmedInv'
    BY <1>26 DEF CloseLinker
<1>27. ASSUME TeardownBegin PROVE ArmedInv'
    BY <1>27 DEF TeardownBegin
<1>28. ASSUME TeardownEnd PROVE ArmedInv'
    BY <1>28 DEF TeardownEnd
<1>29. ASSUME UNCHANGED vars PROVE ArmedInv'
    BY <1>29 DEF vars
<1> QED
    BY <1>2, <1>3, <1>4, <1>5, <1>6, <1>7, <1>8, <1>9, <1>10, <1>11, <1>12, <1>13, <1>14, <1>15, <1>16, <1>17, <1>18, <1>19, <1>20, <1>21, <1>22, <1>23, <1>24, <1>25, <1>26, <1>27, <1>28, <1>29 DEF Next, UserStep, IntentStep, InterestStep, LinkGo

(* A step of a careful user keeps the links in order: users wait for new      *)
(* links to be set up and for the hooks of closed ones.                       *)
LEMMA LinkStepKeeps ==
    ASSUME Calm, [Next]_vars, ~ctxDone'
    PROVE  LinkInv'
<1>0. /\ TypeOK /\ RegistryInv /\ HookInv /\ WireInv /\ LinkTableConsistent /\ ArmedInv
      /\ teardown = "none" /\ Patient /\ ~DirectRemove /\ ~ctxDone
    BY DEF Calm, LinkerInv, Careful, RegistryInv
<1>1. LinkInv /\ LinkerInv
    BY DEF Calm
<1> USE DEF linkerVars, mapVars, intentVars, interestVars, linkVars, senderVars
<1> USE <1>0, <1>1, NilAssumption DEF TypeOK, LinkInv, LinkRoute
<1>2. ASSUME NEW r \in Route, AddIntent(r) PROVE LinkInv'
  <2>1. PICK i \in Intent :
            /\ NewIntent(r, i, "open") /\ intents' = [intents EXCEPT ![r] = i]
            /\ IF interests[r] = Nil THEN UNCHANGED <<links, linkVars>> ELSE LinkUp(r, i, interests[r])
      BY <1>2 DEF AddIntent
  <2>2. /\ intents[r] = Nil /\ links[r] = Nil /\ Settled(r)
        /\ UNCHANGED <<interests, interestVars>>
      BY <1>2 DEF AddIntent, MayAdd, LinkTableConsistent
  <2>3. /\ i # Nil /\ iState'[i] = "open" /\ iRoute'[i] = r
        /\ \A j \in Intent \ {i} : iState'[j] = iState[j] /\ iRoute'[j] = iRoute[j]
      BY <2>1 DEF NewIntent
  <2>4. \A l \in Link : lIntent[l] # Nil => lIntent[l] # i
      BY <2>1 DEF NewIntent, WireInv
  <2>5. \A l \in Link : lIntent[l] # Nil => LinkRoute(l) = iRoute'[lIntent[l]] /\ LinkRoute(l) \in Route
      BY <2>3, <2>4 DEF WireInv, RegistryInv
  <2>6. CASE interests[r] = Nil
    <3>1. UNCHANGED <<links, linkVars>>
        BY <2>1, <2>6
    <3> QED
        BY <2>1, <2>2, <2>3, <2>4, <2>5, <2>6, <3>1
  <2>7. CASE interests[r] # Nil
    <3>1. PICK k \in Link :
              /\ lIntent[k] = Nil
              /\ links' = [links EXCEPT ![r] = k] /\ lIntent' = [lIntent EXCEPT ![k] = i]
              /\ lInterest' = [lInterest EXCEPT ![k] = interests[r]]
              /\ lHooks' = [lHooks EXCEPT ![k] = LinkHooks]
              /\ UNCHANGED <<lClosed, lStep>>
        BY <2>1, <2>2, <2>7 DEF LinkUp
    <3>2. nState[interests[r]] = "open"
        BY <2>2, <2>7, SettledIsOpen
    <3>3. \A q \in Route : intents'[q] # Nil /\ interests'[q] # Nil => links'[q] # Nil
        BY <2>1, <2>2, <3>1
    <3>4. /\ LinkRoute(k)' = r /\ links'[r] = k /\ lIntent'[k] = i /\ lInterest'[k] = interests[r]
          /\ lHooks'[k] = LinkHooks /\ ~lClosed'[k]
        BY <2>3, <3>1
    <3>5. ASSUME NEW l \in Link \ {k}
          PROVE  /\ lIntent'[l] = lIntent[l] /\ lInterest'[l] = lInterest[l] /\ lHooks'[l] = lHooks[l]
                 /\ lIntent[l] # Nil =>
                      /\ LinkRoute(l)' = LinkRoute(l) /\ iState'[lIntent[l]] = iState[lIntent[l]]
                      /\ links[LinkRoute(l)] # l => links'[LinkRoute(l)] # l
                      /\ LinkRoute(l) # r => links'[LinkRoute(l)] = links[LinkRoute(l)]
        BY <2>3, <2>4, <2>5, <3>1
    <3>6. ASSUME NEW l \in Link, lIntent[l] # Nil, LinkRoute(l) = r
          PROVE  links[r] # l /\ lStep[l] = "wait" /\ (lClosed[l] => lHooks[l] = {})
        BY <2>2, <3>6, SettledIsOpen
    <3> QED
        BY <2>2, <2>3, <3>1, <3>2, <3>3, <3>4, <3>5, <3>6
  <2> QED
      BY <2>6, <2>7
<1>3. ASSUME NEW r \in Route, AddInterest(r) PROVE LinkInv'
  <2>1. PICK n \in Interest :
            /\ NewInterest(r, n, "open") /\ interests' = [interests EXCEPT ![r] = n]
            /\ IF intents[r] = Nil THEN UNCHANGED <<links, linkVars>> ELSE LinkUp(r, intents[r], n)
      BY <1>3 DEF AddInterest
  <2>2. /\ interests[r] = Nil /\ links[r] = Nil /\ Settled(r)
        /\ UNCHANGED <<intents, intentVars>>
      BY <1>3 DEF AddInterest, MayAdd, LinkTableConsistent
  <2>3. /\ n # Nil /\ nState'[n] = "open"
        /\ \A m \in Interest \ {n} : nState'[m] = nState[m]
      BY <2>1 DEF NewInterest
  <2>4. \A l \in Link : lIntent[l] # Nil => lInterest[l] # n /\ nState'[lInterest[l]] = nState[lInterest[l]]
      BY <2>1, <2>3 DEF NewInterest, WireInv
  <2>5. \A l \in Link : lIntent[l] # Nil => LinkRoute(l) \in Route
      BY DEF WireInv, RegistryInv
  <2>6. ASSUME NEW l \in Link, lIntent[l] # Nil, LinkRoute(l) = r
        PROVE  links[r] # l /\ lStep[l] = "wait" /\ (lClosed[l] => lHooks[l] = {})
      BY <2>2, <2>6, SettledIsOpen
  <2>7. CASE intents[r] = Nil
    <3>1. UNCHANGED <<links, linkVars>>
        BY <2>1, <2>7
    <3> QED
        BY <2>1, <2>2, <2>3, <2>4, <2>5, <2>6, <2>7, <3>1
  <2>8. CASE intents[r] # Nil
    <3>1. PICK k \in Link :
              /\ lIntent[k] = Nil
              /\ links' = [links EXCEPT ![r] = k] /\ lIntent' = [lIntent EXCEPT ![k] = intents[r]]
              /\ lInterest' = [lInterest EXCEPT ![k] = n]
              /\ lHooks' = [lHooks EXCEPT ![k] = LinkHooks]
              /\ UNCHANGED <<lClosed, lStep>>
        BY <2>1, <2>2, <2>8 DEF LinkUp
    <3>2. iState[intents[r]] = "open" /\ iRoute[intents[r]] = r
        BY <2>2, <2>8, SettledIsOpen DEF RegistryInv
    <3>3. \A q \in Route : intents'[q] # Nil /\ interests'[q] # Nil => links'[q] # Nil
        BY <2>1, <2>2, <3>1
    <3>4. /\ LinkRoute(k)' = r /\ links'[r] = k /\ lIntent'[k] = intents[r] /\ lInterest'[k] = n
          /\ lHooks'[k] = LinkHooks /\ ~lClosed'[k]
        BY <2>2, <2>8, <3>1, <3>2
    <3>5. ASSUME NEW l \in Link \ {k}
          PROVE  /\ lIntent'[l] = lIntent[l] /\ lInterest'[l] = lInterest[l] /\ lHooks'[l] = lHooks[l]
                 /\ lIntent[l] # Nil =>
                      /\ LinkRoute(l)' = LinkRoute(l)
                      /\ links[LinkRoute(l)] # l => links'[LinkRoute(l)] # l
                      /\ LinkRoute(l) # r =>
                           /\ links'[LinkRoute(l)] = links[LinkRoute(l)]
                           /\ interests'[LinkRoute(l)] = interests[LinkRoute(l)]
        BY <2>1, <2>2, <2>5, <3>1
    <3> QED
        BY <2>2, <2>3, <2>4, <2>6, <3>1, <3>2, <3>3, <3>4, <3>5
  <2> QED
      BY <2>7, <2>8
<1>4. ASSUME NEW r \in Route, AddIntentRefused(r) PROVE LinkInv'
    BY <1>4 DEF AddIntentRefused, NewIntent, WireInv
<1>5. ASSUME NEW r \in Route, AddInterestRefused(r) PROVE LinkInv'
    BY <1>5 DEF AddInterestRefused, NewInterest, WireInv
<1>6. ASSUME NEW i \in Intent, CloseIntent(i) PROVE LinkInv'
    BY <1>6 DEF CloseIntent, MayClose, LinksSetUp
<1>7. ASSUME NEW n \in Interest, CloseInterest(n) PROVE LinkInv'
    BY <1>7 DEF CloseInterest, MayClose, LinksSetUp, WireInv
<1>8. ASSUME NEW i \in Intent, IntentRemoveHook(i) PROVE LinkInv'
    BY <1>8 DEF IntentRemoveHook, RemoveIntent, IntentDone, HookInv, RegistryInv, LinkTableConsistent
<1>9. ASSUME NEW n \in Interest, InterestRemoveHook(n) PROVE LinkInv'
    BY <1>9 DEF InterestRemoveHook, RemoveInterest, InterestDone, HookInv, RegistryInv, LinkTableConsistent, WireInv
<1>10. ASSUME NEW l \in Link, LinkGoLink(l) PROVE LinkInv'
    BY <1>10 DEF LinkGoLink, LinkStep
<1>11. ASSUME NEW l \in Link, LinkGoNotify(l) PROVE LinkInv'
    BY <1>11 DEF LinkGoNotify, LinkStep
<1>12. ASSUME NEW l \in Link, LinkSeverHook(l) PROVE LinkInv'
    BY <1>12 DEF LinkSeverHook, LinkDone
<1>13. ASSUME NEW l \in Link, LinkUnlinkHook(l) PROVE LinkInv'
    BY <1>13 DEF LinkUnlinkHook, LinkDone, LinkTableConsistent
<1>14. ASSUME NEW r \in Route, AddIntentExisting(r) \/ AddInterestExisting(r) PROVE LinkInv'
    BY <1>14 DEF AddIntentExisting, AddInterestExisting, vars
<1>15. ASSUME NEW i \in Intent, RecvNotify(i) \/ IntentChanHook(i) PROVE LinkInv'
    BY <1>15 DEF RecvNotify, IntentChanHook
<1>16. ASSUME NEW n \in Interest, Recv(n) \/ InterestChanHook(n) PROVE LinkInv'
    BY <1>16 DEF Recv, InterestChanHook
<1>17. ASSUME NEW s \in Sender, SendGiveUp(s) \/ SendMsg(s) \/ \E i \in Intent : SendBegin(s, i) PROVE LinkInv'
    BY <1>17 DEF SendBegin, SendGiveUp, SendMsg
<1>18. ASSUME NEW r \in Route, CallRemoveIntent(r) \/ CallRemoveInterest(r) PROVE FALSE
    BY <1>18 DEF CallRemoveIntent, CallRemoveInterest
<1>19. ASSUME ParentCancel \/ CloseLinker \/ TeardownBegin \/ TeardownEnd PROVE FALSE
    BY <1>19 DEF ParentCancel, CloseLinker, TeardownBegin, TeardownEnd
<1>20. CASE UNCHANGED vars
    BY <1>20 DEF vars
<1> QED
    BY <1>2, <1>3, <1>4, <1>5, <1>6, <1>7, <1>8, <1>9, <1>10, <1>11, <1>12, <1>13, <1>14,
       <1>15, <1>16, <1>17, <1>18, <1>19, <1>20 DEF Next, UserStep, IntentStep, InterestStep, LinkGo

(* A step of a careful user keeps the channels of intents in order.           *)
LEMMA ChannelStep ==
    ASSUME Calm, [Next]_vars, ~ctxDone'
    PROVE  ChannelInv'
<1>0. /\ TypeOK /\ RegistryInv /\ HookInv /\ WireInv /\ LinkTableConsistent /\ ArmedInv
      /\ teardown = "none" /\ Patient /\ ~DirectRemove /\ ~ctxDone
    BY DEF Calm, LinkerInv, Careful, RegistryInv
<1>1. LinkInv /\ LinkerInv /\ ChannelInv
    BY DEF Calm
<1> USE DEF linkerVars, mapVars, intentVars, interestVars, linkVars, senderVars
<1> USE <1>0, <1>1, NilAssumption DEF TypeOK, ChannelInv, LinkRoute
<1>2. ASSUME NEW r \in Route, AddIntent(r) PROVE ChannelInv'
    BY <1>2 DEF AddIntent, NewIntent, WriteMap, LinkUp, WireInv, RegistryInv, LinkTableConsistent, LinkInv
<1>3. ASSUME NEW r \in Route, AddInterest(r) PROVE ChannelInv'
  <2>1. UNCHANGED <<intents, iRoute, iState, linkedC, lClosed, lStep>>
      BY <1>3 DEF AddInterest, LinkUp
  <2>2. CASE UNCHANGED <<links, lIntent, lInterest, lHooks>>
      BY <2>1, <2>2
  <2>3. CASE \E n \in Interest, l \in Link :
                /\ lIntent[l] = Nil
                /\ links' = [links EXCEPT ![r] = l] /\ lIntent' = [lIntent EXCEPT ![l] = intents[r]]
                /\ lInterest' = [lInterest EXCEPT ![l] = n] /\ lHooks' = [lHooks EXCEPT ![l] = LinkHooks]
    <3>1. PICK n \in Interest, l \in Link :
                /\ lIntent[l] = Nil
                /\ links' = [links EXCEPT ![r] = l] /\ lIntent' = [lIntent EXCEPT ![l] = intents[r]]
                /\ lInterest' = [lInterest EXCEPT ![l] = n] /\ lHooks' = [lHooks EXCEPT ![l] = LinkHooks]
        BY <2>3
    <3>2. links[r] = Nil /\ lStep[l] = "link"
        BY <1>3, <3>1 DEF AddInterest, LinkTableConsistent, LinkInv
    <3>3. \A q \in Route : q # r /\ links[q] # Nil => links'[q] = links[q] /\ links[q] # l
        BY <3>1 DEF LinkTableConsistent
    <3>4. ASSUME NEW i \in Intent, linkedC[i] # Nil
          PROVE  \/ /\ links'[iRoute[i]] # Nil
                    /\ lIntent'[links'[iRoute[i]]] = i /\ lInterest'[links'[iRoute[i]]] = linkedC[i]
                 \/ iState[i] = "closed"
                 \/ \E k \in Link : lIntent'[k] = i /\ lClosed[k] /\ "sever" \in lHooks'[k]
      <4>0. iRoute[i] \in Route
          BY <3>4 DEF WireInv, RegistryInv
      <4>1. CASE /\ links[iRoute[i]] # Nil
                 /\ lIntent[links[iRoute[i]]] = i /\ lInterest[links[iRoute[i]]] = linkedC[i]
          BY <3>1, <3>2, <3>3, <4>0, <4>1
      <4>2. CASE \E k \in Link : lIntent[k] = i /\ lClosed[k] /\ "sever" \in lHooks[k]
          BY <3>1, <4>2
      <4> QED
          BY <3>4, <4>1, <4>2
    <3>5. ASSUME NEW i \in Intent, iState[i] = "open", links'[iRoute[i]] # Nil
          PROVE  lStep[links'[iRoute[i]]] = "link" \/ linkedC[i] = lInterest'[links'[iRoute[i]]]
      <4>0. iRoute[i] \in Route
          BY <3>5 DEF RegistryInv
      <4>1. CASE iRoute[i] = r
          BY <3>1, <3>2, <4>1
      <4>2. CASE iRoute[i] # r
          BY <3>1, <3>3, <3>5, <4>0, <4>2
      <4> QED
          BY <4>1, <4>2
    <3> QED
        BY <2>1, <3>4, <3>5
  <2> QED
      BY <1>3, <2>2, <2>3 DEF AddInterest, LinkUp
<1>4. ASSUME NEW r \in Route, AddIntentRefused(r) PROVE ChannelInv'
    BY <1>4 DEF AddIntentRefused, NewIntent, WireInv
<1>5. ASSUME NEW r \in Route, AddInterestRefused(r) PROVE ChannelInv'
    BY <1>5 DEF AddInterestRefused, NewInterest
<1>6. ASSUME NEW i \in Intent, CloseIntent(i) PROVE ChannelInv'
    BY <1>6 DEF CloseIntent
<1>7. ASSUME NEW n \in Interest, CloseInterest(n) PROVE ChannelInv'
    BY <1>7 DEF CloseInterest
<1>8. ASSUME NEW i \in Intent, IntentRemoveHook(i) PROVE ChannelInv'
    BY <1>8 DEF IntentRemoveHook, RemoveIntent, IntentDone, HookInv, RegistryInv, LinkTableConsistent
<1>9. ASSUME NEW n \in Interest, InterestRemoveHook(n) PROVE ChannelInv'
  <2>1. UNCHANGED <<iRoute, iState, linkedC, lStep, lIntent, lInterest, lHooks>>
      BY <1>9 DEF InterestRemoveHook, RemoveInterest
  <2>2. CASE UNCHANGED <<links, lClosed>>
      BY <2>1, <2>2
  <2>3. CASE /\ interests[nRoute[n]] # Nil /\ links' = [links EXCEPT ![nRoute[n]] = Nil]
             /\ lClosed' = IF links[nRoute[n]] = Nil THEN lClosed
                           ELSE [lClosed EXCEPT ![links[nRoute[n]]] = TRUE]
    <3>1. ASSUME NEW i \in Intent, links[iRoute[i]] # Nil, lIntent[links[iRoute[i]]] = i,
                 links'[iRoute[i]] = Nil
          PROVE  \E l \in Link : lIntent[l] = i /\ lClosed'[l] /\ "sever" \in lHooks[l]
      <4>1. iRoute[i] \in Route /\ iRoute[i] = nRoute[n]
          BY <2>3, <3>1 DEF WireInv, RegistryInv
      <4>2. ~lClosed[links[iRoute[i]]]
          BY <3>1, <4>1 DEF LinkInv
      <4>3. lHooks[links[iRoute[i]]] = LinkHooks
          BY <3>1, <4>1, <4>2 DEF LinkInv
      <4> QED
          BY <2>3, <3>1, <4>1, <4>3 DEF LinkHooks
    <3>2. \A q \in Route : links'[q] \in {links[q], Nil}
        BY <2>3
    <3>3. \A i \in Intent : linkedC[i] # Nil \/ iState[i] = "open" => iRoute[i] \in Route
        BY DEF WireInv, RegistryInv
    <3>4. \A l \in Link : lClosed[l] => lClosed'[l]
        BY <2>3
    <3> QED
        BY <2>1, <3>1, <3>2, <3>3, <3>4
  <2> QED
      BY <1>9, <2>2, <2>3 DEF InterestRemoveHook, RemoveInterest
<1>10. ASSUME NEW l \in Link, LinkGoLink(l) PROVE ChannelInv'
  <2>1. /\ lIntent[l] \in Intent /\ lInterest[l] \in Interest
        /\ links[iRoute[lIntent[l]]] = l
        /\ UNCHANGED <<links, iRoute, iState, lIntent, lInterest, lClosed, lHooks>>
      BY <1>10 DEF LinkGoLink, LinkInv, WireInv
  <2>2. CASE UNCHANGED <<linkedC, lStep>>
      BY <2>1, <2>2
  <2>3. CASE /\ linkedC' = [linkedC EXCEPT ![lIntent[l]] = lInterest[l]]
             /\ lStep' = [lStep EXCEPT ![l] = "notify"]
    <3>1. ASSUME NEW i \in Intent, i # lIntent[l], iState[i] = "open", links[iRoute[i]] # Nil
          PROVE  links[iRoute[i]] # l
      <4>1. iRoute[i] \in Route /\ iRoute[lIntent[l]] \in Route
          BY <2>1, <3>1 DEF RegistryInv, WireInv
      <4>2. links[iRoute[i]] = l => iRoute[i] = iRoute[lIntent[l]]
          BY <4>1 DEF LinkTableConsistent, RegistryInv
      <4>3. intents[iRoute[i]] = i
          BY <3>1, <4>1 DEF HookInv
      <4> QED
          BY <2>1, <3>1, <4>1, <4>2, <4>3 DEF LinkTableConsistent
    <3> QED
        BY <2>1, <2>3, <3>1
  <2> QED
      BY <1>10, <2>2, <2>3 DEF LinkGoLink
<1>11. ASSUME NEW l \in Link, LinkGoNotify(l) PROVE ChannelInv'
    BY <1>11 DEF LinkGoNotify, LinkStep
<1>12. ASSUME NEW l \in Link, LinkSeverHook(l) PROVE ChannelInv'
  <2>1. /\ lIntent[l] \in Intent /\ lClosed[l] /\ lHooks[l] # {}
        /\ linkedC' = [linkedC EXCEPT ![lIntent[l]] = Nil]
        /\ lHooks' = [lHooks EXCEPT ![l] = @ \ {"sever"}]
        /\ UNCHANGED <<links, iRoute, iState, lIntent, lInterest, lClosed, lStep>>
      BY <1>12 DEF LinkSeverHook, LinkDone, LinkInv
  <2>2. iRoute[lIntent[l]] \in Route
      BY <2>1 DEF WireInv, RegistryInv
  <2>3. links[iRoute[lIntent[l]]] = Nil
      BY <2>1, <2>2 DEF LinkInv, LinkTableConsistent
  <2> QED
      BY <2>1, <2>3
<1>13. ASSUME NEW l \in Link, LinkUnlinkHook(l) PROVE ChannelInv'
    BY <1>13 DEF LinkUnlinkHook, LinkDone, LinkInv, LinkTableConsistent
<1>14. ASSUME NEW r \in Route, AddIntentExisting(r) \/ AddInterestExisting(r) PROVE ChannelInv'
    BY <1>14 DEF AddIntentExisting, AddInterestExisting, vars
<1>15. ASSUME NEW i \in Intent, RecvNotify(i) \/ IntentChanHook(i) PROVE ChannelInv'
    BY <1>15 DEF RecvNotify, IntentChanHook, IntentDone
<1>16. ASSUME NEW n \in Interest, Recv(n) \/ InterestChanHook(n) PROVE ChannelInv'
    BY <1>16 DEF Recv, InterestChanHook
<1>17. ASSUME NEW s \in Sender, SendGiveUp(s) \/ SendMsg(s) \/ \E i \in Intent : SendBegin(s, i) PROVE ChannelInv'
    BY <1>17 DEF SendBegin, SendGiveUp, SendMsg
<1>18. ASSUME NEW r \in Route, CallRemoveIntent(r) \/ CallRemoveInterest(r) PROVE FALSE
    BY <1>18 DEF CallRemoveIntent, CallRemoveInterest
<1>19. ASSUME ParentCancel \/ CloseLinker \/ TeardownBegin \/ TeardownEnd PROVE FALSE
    BY <1>19 DEF ParentCancel, CloseLinker, TeardownBegin, TeardownEnd
<1>20. CASE UNCHANGED vars
    BY <1>20 DEF vars
<1> QED
    BY <1>2, <1>3, <1>4, <1>5, <1>6, <1>7, <1>8, <1>9, <1>10, <1>11, <1>12, <1>13, <1>14,
       <1>15, <1>16, <1>17, <1>18, <1>19, <1>20 DEF Next, UserStep, IntentStep, InterestStep, LinkGo

(* A careful user only ever sees a Send crash: a new link finds its intent    *)
(* without a channel, and whoever notifies an intent finds it open.           *)
LEMMA FaultStep ==
    ASSUME Calm, [Next]_vars, ~ctxDone', fault \in {"none", "sendClosed"}
    PROVE  fault' \in {"none", "sendClosed"}
<1>0. /\ TypeOK /\ RegistryInv /\ WireInv /\ LinkTableConsistent /\ ArmedInv
      /\ teardown = "none" /\ Patient /\ ~DirectRemove /\ ~ctxDone
    BY DEF Calm, LinkerInv, Careful, RegistryInv
<1>1. LinkInv /\ LinkerInv /\ ChannelInv
    BY DEF Calm
<1> USE DEF linkerVars, mapVars, intentVars, interestVars, linkVars, senderVars
<1> USE <1>0, <1>1, NilAssumption DEF TypeOK
<1>2. ASSUME NEW r \in Route, AddInterestExisting(r) PROVE fault' = fault
  <2>1. CASE links[r] = Nil
      BY <1>2, <2>1 DEF AddInterestExisting
  <2>2. CASE links[r] # Nil
    <3>1. intents[r] # Nil /\ lIntent[links[r]] = intents[r] /\ intents[r] \in Intent
        BY <2>2 DEF LinkTableConsistent
    <3>2. ~NotifyClosed(intents[r])
        BY <1>2, <3>1, SettledIsOpen DEF AddInterestExisting, MayAdd, NotifyClosed
    <3> QED
        BY <1>2, <2>2, <3>1, <3>2 DEF AddInterestExisting, Notify
  <2> QED
      BY <2>1, <2>2
<1>3. ASSUME NEW l \in Link, LinkGoLink(l) PROVE fault' = fault
  <2>1. /\ lIntent[l] \in Intent /\ links[LinkRoute(l)] = l
        /\ LinkRoute(l) = iRoute[lIntent[l]] /\ iRoute[lIntent[l]] \in Route
        /\ iState[lIntent[l]] = "open"
      BY <1>3 DEF LinkGoLink, LinkInv, LinkRoute, RegistryInv
  <2>2. \A k \in Link : lIntent[k] = lIntent[l] /\ lClosed[k] => lHooks[k] = {}
      BY <2>1 DEF LinkInv, LinkRoute, LinkTableConsistent
  <2>3. linkedC[lIntent[l]] \in {Nil, lInterest[l]}
      BY <2>1, <2>2 DEF ChannelInv
  <2> QED
      BY <1>3, <2>3 DEF LinkGoLink
<1>4. ASSUME NEW l \in Link, LinkGoNotify(l) PROVE fault' = fault
  <2>1. lIntent[l] \in Intent /\ ~NotifyClosed(lIntent[l])
      BY <1>4 DEF LinkGoNotify, LinkInv, ArmedInv, NotifyClosed
  <2> QED
      BY <1>4, <2>1 DEF LinkGoNotify, Notify
<1>5. ASSUME NEW r \in Route, AddIntent(r) \/ AddInterest(r) PROVE fault' = "none"
    BY <1>5 DEF AddIntent, AddInterest, WriteMap
<1>6. ASSUME NEW i \in Intent, IntentRemoveHook(i) PROVE fault' = "none"
    BY <1>6 DEF IntentRemoveHook, RemoveIntent, WriteMap
<1>7. ASSUME NEW n \in Interest, InterestRemoveHook(n) PROVE fault' \in {"none", fault}
    BY <1>7 DEF InterestRemoveHook, RemoveInterest, WriteMap
<1>8. ASSUME NEW s \in Sender, SendMsg(s) PROVE fault' \in {fault, "sendClosed"}
    BY <1>8 DEF SendMsg
<1>9. ASSUME NEW r \in Route, CallRemoveIntent(r) \/ CallRemoveInterest(r) PROVE FALSE
    BY <1>9 DEF CallRemoveIntent, CallRemoveInterest
<1>10. CASE \/ \E r \in Route : AddIntentExisting(r) \/ AddIntentRefused(r) \/ AddInterestRefused(r)
            \/ \E i \in Intent : CloseIntent(i) \/ RecvNotify(i) \/ IntentChanHook(i)
            \/ \E n \in Interest : CloseInterest(n) \/ Recv(n) \/ InterestChanHook(n)
            \/ \E l \in Link : LinkSeverHook(l) \/ LinkUnlinkHook(l)
            \/ \E s \in Sender : SendGiveUp(s) \/ \E i \in Intent : SendBegin(s, i)
            \/ ParentCancel \/ CloseLinker \/ TeardownBegin \/ TeardownEnd \/ UNCHANGED vars
    BY <1>10 DEF AddIntentExisting, AddIntentRefused, AddInterestRefused, CloseIntent, RecvNotify,
           IntentChanHook, CloseInterest, Recv, InterestChanHook, LinkSeverHook, LinkUnlinkHook,
           SendGiveUp, SendBegin, ParentCancel, CloseLinker, TeardownBegin, TeardownEnd, vars
<1> QED
    BY <1>2, <1>3, <1>4, <1>5, <1>6, <1>7, <1>8, <1>9, <1>10
       DEF Next, UserStep, IntentStep, InterestStep, LinkGo

(* While careful users keep the linker's context, hooks stay armed, links in *)
(* order and the channels of intents open.                                   *)
THEOREM CarefulInvariant == Spec => []CarefulInv
<1>1. Init => CarefulInv
    BY DEF Init, CarefulInv, ArmedInv, LinkInv, ChannelInv
<1>2. LinkerInv /\ CarefulInv /\ [Next]_vars => CarefulInv'
  <2> SUFFICES ASSUME LinkerInv, CarefulInv, [Next]_vars, Careful', ~ctxDone'
               PROVE  (ArmedInv /\ LinkInv /\ ChannelInv /\ fault \in {"none", "sendClosed"})'
      BY DEF CarefulInv
  <2>1. Calm /\ fault \in {"none", "sendClosed"}
      BY UseIsFixed DEF Calm, CarefulInv, Careful, Patient, DirectRemove
  <2> QED
      BY <2>1, ArmedStep, LinkStepKeeps, ChannelStep, FaultStep
<1> QED
    BY <1>1, <1>2, LinkerInvariant, PTL DEF Spec

(* The careful user's registered pairs are linked, and to each other          *)
(* (linker.go 153-155, 217-219, link.go 38-53).                               *)
THEOREM MatchedCorrect == Spec => []MatchedIsLinked
<1>1. LinkerInv /\ CarefulInv => MatchedIsLinked
  <2> SUFFICES ASSUME LinkerInv, CarefulInv, Careful, ~ctxDone, NEW r \in Route,
                      intents[r] # Nil, interests[r] # Nil
               PROVE  /\ links[r] # Nil
                      /\ lStep[links[r]] # "link" /\ iState[intents[r]] = "open"
                            => linkedC[intents[r]] = interests[r]
      BY DEF MatchedIsLinked
  <2>1. links[r] # Nil
      BY DEF CarefulInv, LinkInv
  <2>2. intents[r] \in Intent /\ iRoute[intents[r]] = r /\ lInterest[links[r]] = interests[r]
      BY <2>1 DEF LinkerInv, TypeOK, RegistryInv, LinkTableConsistent
  <2> QED
      BY <2>1, <2>2 DEF CarefulInv, ChannelInv
<1> QED
    BY <1>1, LinkerInvariant, CarefulInvariant, PTL

(* Once its hooks have run, nothing leads to the channel of a closed          *)
(* interest any more (link.go 28, interest.go 66-69).                         *)
THEOREM NothingDangles == Spec => []NoDanglingChannel
<1>1. LinkerInv /\ CarefulInv => NoDanglingChannel
  <2> SUFFICES ASSUME LinkerInv, CarefulInv, Careful, ~ctxDone, NEW i \in Intent, NEW n \in Interest,
                      linkedC[i] = n, nState[n] = "closed", Settled(nRoute[n])
               PROVE  FALSE
      BY DEF NoDanglingChannel
  <2>1. /\ linkedC[i] # Nil /\ nRoute[n] = iRoute[i] /\ iState[i] # "free" /\ iRoute[i] \in Route
      BY NilAssumption DEF LinkerInv, WireInv, RegistryInv
  <2>2. Settled(iRoute[i]) /\ ArmedInv /\ ChannelInv
      BY <2>1 DEF CarefulInv
  <2>3. interests[iRoute[i]] # n
      BY <2>1, <2>2, SettledIsOpen, NilAssumption
  <2>4. ~(links[iRoute[i]] # Nil /\ lInterest[links[iRoute[i]]] = linkedC[i])
      BY <2>1, <2>3, NilAssumption DEF LinkerInv, LinkTableConsistent, RegistryInv
  <2>5. iState[i] # "closed"
      BY <2>1, <2>2 DEF Settled, ArmedInv
  <2>6. \A l \in Link : ~(lIntent[l] = i /\ lClosed[l] /\ "sever" \in lHooks[l])
      BY <2>1, <2>2, SettledIsOpen, NilAssumption DEF LinkRoute
  <2> QED
      BY <2>1, <2>2, <2>4, <2>5, <2>6 DEF ChannelInv
<1> QED
    BY <1>1, LinkerInvariant, CarefulInvariant, PTL

(* Nothing but a Send that meets the closing of its interest crashes the      *)
(* process of careful users (intent.go 117, 127, linker.go 153-155).          *)
THEOREM CrashesOnlyInSend == Spec => []OnlySendCanCrash
<1>1. CarefulInv => OnlySendCanCrash
    BY DEF CarefulInv, OnlySendCanCrash
<1> QED
    BY <1>1, CarefulInvariant, PTL

-----------------------------------------------------------------------------
(* The Linker implements the matching service, for every set of routes and   *)
(* objects and every way of using it.  A step that leaves the mapped state   *)
(* alone is a stutter of the service; each of the others has a step below.   *)

\* The state of the service, as the Linker's variables show it.
Pair    == [r \in Route |-> links[r] # Nil /\ teardown # "torn"]
PubGone == {i \in Intent : iState[i] = "closed"}
SubGone == {n \in Interest : nState[n] = "closed"}
Parted  == {r \in Route : \E l \in Link : lClosed[l] /\ LinkRoute(l) = r}

\* The variables it depends on.
mapped == <<use, ctxDone, teardown, intents, interests, links, iRoute, iState, nState,
            lIntent, lClosed>>

(* Adding an intent changes nothing of who has left and which links are      *)
(* closed: the object and the link, if one is made, are new.                 *)
LEMMA NewIntentHasNoPast ==
    ASSUME TypeOK, WireInv, NEW r \in Route, NEW i \in Intent, NewIntent(r, i, "open"),
           UNCHANGED <<nState, lClosed>>,
           \/ UNCHANGED lIntent
           \/ \E l \in Link : lIntent[l] = Nil /\ lIntent' = [lIntent EXCEPT ![l] = i]
    PROVE  UNCHANGED <<PubGone, SubGone, Parted>>
<1>1. iState[i] = "free" /\ iState' = [iState EXCEPT ![i] = "open"]
      /\ iRoute' = [iRoute EXCEPT ![i] = r]
    BY DEF NewIntent
<1>2. PubGone' = PubGone
    BY <1>1 DEF PubGone, TypeOK
<1>3. ASSUME NEW l \in Link, lClosed[l] PROVE LinkRoute(l)' = LinkRoute(l)
  <2>1. lIntent[l] # Nil /\ iState[lIntent[l]] # "free" /\ lIntent[l] \in Intent
      BY <1>3 DEF WireInv, TypeOK
  <2>2. lIntent'[l] = lIntent[l]
      BY <2>1 DEF TypeOK
  <2>3. iRoute'[lIntent[l]] = iRoute[lIntent[l]]
      BY <1>1, <2>1 DEF TypeOK
  <2> QED
      BY <2>1, <2>2, <2>3 DEF LinkRoute
<1>4. Parted' = Parted
    BY <1>3 DEF Parted
<1> QED
    BY <1>2, <1>4 DEF SubGone

(* The same of a new interest.                                             *)
LEMMA NewInterestHasNoPast ==
    ASSUME TypeOK, WireInv, NilAssumption, NEW r \in Route, NEW n \in Interest,
           NewInterest(r, n, "open"), UNCHANGED <<iState, iRoute, lClosed>>,
           \/ UNCHANGED lIntent
           \/ \E l \in Link, i \in Intent :
                  lIntent[l] = Nil /\ lIntent' = [lIntent EXCEPT ![l] = i]
    PROVE  UNCHANGED <<PubGone, SubGone, Parted>>
<1>1. nState[n] = "free" /\ nState' = [nState EXCEPT ![n] = "open"]
    BY DEF NewInterest
<1>2. SubGone' = SubGone
    BY <1>1 DEF SubGone, TypeOK
<1>3. ASSUME NEW l \in Link, lClosed[l] PROVE LinkRoute(l)' = LinkRoute(l)
  <2>1. lIntent[l] # Nil
      BY <1>3 DEF WireInv, TypeOK
  <2>2. lIntent'[l] = lIntent[l]
      BY <2>1 DEF TypeOK
  <2> QED
      BY <2>1, <2>2 DEF LinkRoute
<1>4. Parted' = Parted
    BY <1>3 DEF Parted
<1> QED
    BY <1>2, <1>4 DEF PubGone

(* Adding an intent is Publish: the route's link is free, because a link   *)
(* joins two registered objects, and it is taken in the same step when an  *)
(* interest was there (linker.go 116-158).                                 *)
LEMMA AddIntentPublishes ==
    ASSUME TypeOK, LinkTableConsistent, WireInv, NilAssumption, NEW r \in Route, AddIntent(r)
    PROVE  [Service!Next]_(Service!vars)
<1> USE DEF TypeOK
<1>1. PICK i \in Intent :
        /\ NewIntent(r, i, "open")
        /\ IF teardown = "torn"
           THEN fault' = "nilMap" /\ UNCHANGED <<intents, links, linkVars>>
           ELSE /\ WriteMap
                /\ intents' = [intents EXCEPT ![r] = i]
                /\ IF interests[r] = Nil
                   THEN UNCHANGED <<links, linkVars>>
                   ELSE LinkUp(r, i, interests[r])
    BY DEF AddIntent
<1>2. UNCHANGED <<use, ctxDone, interests, teardown, nState>> /\ intents[r] = Nil
    BY DEF AddIntent, linkerVars, interestVars
<1>3. UNCHANGED <<PubGone, SubGone, Parted>>
  <2>1. UNCHANGED lClosed /\ (\/ UNCHANGED lIntent
                              \/ \E l \in Link : lIntent[l] = Nil
                                                 /\ lIntent' = [lIntent EXCEPT ![l] = i])
      BY <1>1 DEF LinkUp, linkVars
  <2> QED
      BY <1>1, <1>2, <2>1, NewIntentHasNoPast
<1>4. UNCHANGED <<ctxDone, DirectRemove>>
    BY <1>2 DEF DirectRemove
<1>5. CASE teardown = "torn"
    BY <1>1, <1>2, <1>3, <1>4, <1>5 DEF Service!vars, PubGone, SubGone, Parted, LinkRoute
<1>6. CASE teardown # "torn"
  <2>1. links[r] = Nil
      BY <1>2, <1>6 DEF LinkTableConsistent
  <2>2. intents' = [intents EXCEPT ![r] = i]
      BY <1>1, <1>6
  <2>3. Pair' = [Pair EXCEPT ![r] = interests[r] # Nil]
    <3>1. CASE interests[r] = Nil
        BY <1>1, <1>2, <1>6, <2>1, <3>1 DEF Pair
    <3>2. CASE interests[r] # Nil
      <4>1. PICK l \in Link : links' = [links EXCEPT ![r] = l]
          BY <1>1, <1>6, <2>1, <3>2 DEF LinkUp
      <4> QED
          BY <1>2, <1>6, <3>2, <4>1, NilAssumption DEF Pair
    <3> QED
        BY <3>1, <3>2
  <2>4. i \notin PubGone
      BY <1>1 DEF NewIntent, PubGone
  <2>5. Service!Publish(r, i)
      BY <1>2, <1>3, <1>4, <2>2, <2>3, <2>4 DEF Service!Publish, Pair, PubGone, SubGone, Parted
  <2> QED
      BY <2>5 DEF Service!Next
<1> QED
    BY <1>5, <1>6

(* Adding an interest is Subscribe, for the same reason (linker.go 177-222). *)
LEMMA AddInterestSubscribes ==
    ASSUME TypeOK, LinkTableConsistent, WireInv, NilAssumption, NEW r \in Route, AddInterest(r)
    PROVE  [Service!Next]_(Service!vars)
<1> USE DEF TypeOK
<1>1. PICK n \in Interest :
        /\ NewInterest(r, n, "open")
        /\ IF teardown = "torn"
           THEN fault' = "nilMap" /\ UNCHANGED <<interests, links, linkVars>>
           ELSE /\ WriteMap
                /\ interests' = [interests EXCEPT ![r] = n]
                /\ IF intents[r] = Nil
                   THEN UNCHANGED <<links, linkVars>>
                   ELSE LinkUp(r, intents[r], n)
    BY DEF AddInterest
<1>2. UNCHANGED <<use, ctxDone, intents, teardown, iState, iRoute>> /\ interests[r] = Nil
    BY DEF AddInterest, linkerVars, intentVars
<1>3. UNCHANGED <<PubGone, SubGone, Parted>>
  <2>1. CASE UNCHANGED linkVars
      BY <1>1, <1>2, <2>1, NewInterestHasNoPast, NilAssumption DEF linkVars
  <2>2. CASE intents[r] # Nil /\ LinkUp(r, intents[r], n)
    <3>1. intents[r] \in Intent
        BY <2>2
    <3>2. UNCHANGED lClosed /\ (\/ UNCHANGED lIntent
                                \/ \E l \in Link, i \in Intent :
                                     lIntent[l] = Nil /\ lIntent' = [lIntent EXCEPT ![l] = i])
        BY <2>2, <3>1 DEF LinkUp, linkVars
    <3> QED
        BY <1>1, <1>2, <3>2, NewInterestHasNoPast, NilAssumption
  <2> QED
      BY <1>1, <2>1, <2>2
<1>4. UNCHANGED <<ctxDone, DirectRemove>>
    BY <1>2 DEF DirectRemove
<1>5. CASE teardown = "torn"
    BY <1>1, <1>2, <1>3, <1>4, <1>5 DEF Service!vars, PubGone, SubGone, Parted, LinkRoute
<1>6. CASE teardown # "torn"
  <2>1. links[r] = Nil
      BY <1>2, <1>6 DEF LinkTableConsistent
  <2>2. interests' = [interests EXCEPT ![r] = n]
      BY <1>1, <1>6
  <2>3. Pair' = [Pair EXCEPT ![r] = intents[r] # Nil]
    <3>1. CASE intents[r] = Nil
        BY <1>1, <1>2, <1>6, <2>1, <3>1 DEF Pair
    <3>2. CASE intents[r] # Nil
      <4>1. PICK l \in Link : links' = [links EXCEPT ![r] = l]
          BY <1>1, <1>6, <2>1, <3>2 DEF LinkUp
      <4> QED
          BY <1>2, <1>6, <3>2, <4>1, NilAssumption DEF Pair
    <3> QED
        BY <3>1, <3>2
  <2>4. n \notin SubGone
      BY <1>1 DEF NewInterest, SubGone
  <2>5. Service!Subscribe(r, n)
      BY <1>2, <1>3, <1>4, <2>2, <2>3, <2>4 DEF Service!Subscribe, Pair, PubGone, SubGone, Parted
  <2> QED
      BY <2>5 DEF Service!Next
<1> QED
    BY <1>5, <1>6

\* What a removal by route leaves alone.
LeftAlone == <<use, ctxDone, teardown, iRoute, iState, nState>>

(* Removal by route is Withdraw where the intent on the route has closed,  *)
(* the linker ends or users remove by route (linker.go 160-167).           *)
LEMMA RemoveIntentWithdraws ==
    ASSUME TypeOK, NEW r \in Route, RemoveIntent(r), UNCHANGED LeftAlone,
           intents[r] \in PubGone \/ ctxDone \/ DirectRemove
    PROVE  [Service!Next]_(Service!vars)
<1>1. intents' = [intents EXCEPT ![r] = Nil] /\ UNCHANGED <<interests, lIntent, lClosed>>
    BY DEF RemoveIntent, linkVars
<1>2. Pair' = [Pair EXCEPT ![r] = FALSE]
    BY DEF RemoveIntent, Pair, TypeOK, LeftAlone
<1>3. UNCHANGED <<ctxDone, DirectRemove, PubGone, SubGone, Parted>>
    BY <1>1 DEF LeftAlone, DirectRemove, PubGone, SubGone, Parted, LinkRoute
<1>4. Service!Withdraw(r)
    BY <1>1, <1>2, <1>3 DEF Service!Withdraw, Pair, PubGone, SubGone, Parted
<1> QED
    BY <1>4 DEF Service!Next

(* ... and of an interest Unsubscribe, or nothing.  The link that is       *)
(* closed with it is one of the same route (linker.go 224-238).            *)
LEMMA RemoveInterestUnsubscribes ==
    ASSUME TypeOK, RegistryInv, LinkTableConsistent, NilAssumption, NEW r \in Route,
           RemoveInterest(r), UNCHANGED LeftAlone,
           interests[r] = Nil \/ interests[r] \in SubGone \/ ctxDone \/ DirectRemove
    PROVE  [Service!Next]_(Service!vars)
<1>0. UNCHANGED <<ctxDone, DirectRemove, PubGone, SubGone>> /\ UNCHANGED iRoute
    BY DEF LeftAlone, DirectRemove, PubGone, SubGone
<1>1. CASE interests[r] = Nil
    BY <1>0, <1>1 DEF RemoveInterest, mapVars, linkVars, Service!vars, LeftAlone, PubGone, SubGone,
                      LinkRoute
<1>2. CASE interests[r] # Nil
  <2>1. interests' = [interests EXCEPT ![r] = Nil] /\ UNCHANGED <<intents, lIntent>>
      BY <1>2 DEF RemoveInterest
  <2>2. Pair' = [Pair EXCEPT ![r] = FALSE]
      BY <1>2 DEF RemoveInterest, Pair, TypeOK, LeftAlone
  <2>3. teardown # "torn"
      BY <1>2 DEF RegistryInv
  <2>4. \A l \in Link : LinkRoute(l)' = LinkRoute(l)
      BY <1>0, <2>1 DEF LinkRoute
  <2>5. Parted' = IF Pair[r] THEN Parted \cup {r} ELSE Parted
    <3>1. CASE links[r] = Nil
      <4>1. lClosed' = lClosed /\ ~Pair[r]
          BY <1>2, <3>1 DEF RemoveInterest, Pair
      <4> QED
          BY <2>4, <4>1 DEF Parted
    <3>2. CASE links[r] # Nil
      <4>1. links[r] \in Link /\ lClosed' = [lClosed EXCEPT ![links[r]] = TRUE] /\ Pair[r]
          BY <1>2, <2>3, <3>2 DEF RemoveInterest, Pair, TypeOK
      <4>2. LinkRoute(links[r]) = r
          BY <2>3, <3>2, NilAssumption DEF LinkTableConsistent, RegistryInv, LinkRoute, TypeOK
      <4>3. \A l \in Link : lClosed'[l] <=> (l = links[r] \/ lClosed[l])
          BY <4>1 DEF TypeOK
      <4> QED
          BY <2>4, <4>1, <4>2, <4>3 DEF Parted
    <3> QED
        BY <3>1, <3>2
  <2>6. Service!Unsubscribe(r)
      BY <1>0, <1>2, <2>1, <2>2, <2>5 DEF Service!Unsubscribe, Pair, PubGone, SubGone, Parted
  <2> QED
      BY <2>6 DEF Service!Next
<1> QED
    BY <1>1, <1>2

(* The hook of a closed link is Unpair (linker.go 256-277).                *)
LEMMA UnlinkUnpairs ==
    ASSUME TypeOK, NEW r \in Route, links' = [links EXCEPT ![r] = Nil],
           UNCHANGED <<LeftAlone, intents, interests, lIntent, lClosed>>,
           r \in Parted \/ ctxDone
    PROVE  [Service!Next]_(Service!vars)
<1>1. Pair' = [Pair EXCEPT ![r] = FALSE]
    BY DEF Pair, TypeOK, LeftAlone
<1>2. UNCHANGED <<ctxDone, DirectRemove, PubGone, SubGone, Parted>>
    BY DEF LeftAlone, DirectRemove, PubGone, SubGone, Parted, LinkRoute
<1>3. Service!Unpair(r)
    BY <1>1, <1>2 DEF Service!Unpair, Pair, PubGone, SubGone, Parted
<1> QED
    BY <1>3 DEF Service!Next

(* Closing is leaving (linker.go 124, 188: the objects are Bases).         *)
LEMMA CloseLeaves ==
    ASSUME TypeOK, (\E i \in Intent : CloseIntent(i)) \/ (\E n \in Interest : CloseInterest(n))
    PROVE  [Service!Next]_(Service!vars)
<1>1. ASSUME NEW i \in Intent, CloseIntent(i) PROVE [Service!Next]_(Service!vars)
  <2>1. PubGone' = PubGone \cup {i}
      BY <1>1 DEF CloseIntent, PubGone, TypeOK
  <2>2. UNCHANGED <<use, ctxDone, teardown, intents, interests, links, iRoute, nState, lIntent,
                    lClosed>>
      BY <1>1 DEF CloseIntent, linkerVars, mapVars, interestVars, linkVars
  <2>3. Service!PublisherLeaves(i)
      BY <2>1, <2>2 DEF Service!PublisherLeaves, PubGone, LinkRoute, DirectRemove
  <2> QED
      BY <2>3 DEF Service!Next
<1>2. ASSUME NEW n \in Interest, CloseInterest(n) PROVE [Service!Next]_(Service!vars)
  <2>1. SubGone' = SubGone \cup {n}
      BY <1>2 DEF CloseInterest, SubGone, TypeOK
  <2>2. UNCHANGED <<use, ctxDone, teardown, intents, interests, links, iRoute, iState, lIntent,
                    lClosed>>
      BY <1>2 DEF CloseInterest, linkerVars, mapVars, intentVars, linkVars
  <2>3. Service!SubscriberLeaves(n)
      BY <2>1, <2>2 DEF Service!SubscriberLeaves, SubGone, LinkRoute, DirectRemove
  <2> QED
      BY <2>3 DEF Service!Next
<1> QED
    BY <1>1, <1>2

(* The end of the linker's context is End, its teardown AllLeave and then  *)
(* Dissolve (linker.go 92-114).                                            *)
LEMMA TeardownDissolves ==
    ASSUME TypeOK, RegistryInv, ParentCancel \/ CloseLinker \/ TeardownBegin \/ TeardownEnd
    PROVE  [Service!Next]_(Service!vars)
<1>1. CASE ParentCancel \/ CloseLinker
  <2>1. ctxDone' /\ (teardown = "torn" <=> teardown' = "torn")
        /\ UNCHANGED <<use, intents, interests, links, iRoute, iState, nState, lIntent, lClosed>>
      BY <1>1 DEF ParentCancel, CloseLinker, mapVars, intentVars, interestVars, linkVars
  <2>2. Service!End
      BY <2>1 DEF Service!End, LinkRoute, DirectRemove, TypeOK
  <2> QED
      BY <2>2 DEF Service!Next
<1>2. CASE TeardownBegin
  <2>1. UNCHANGED <<use, ctxDone, intents, interests, links, iRoute, lIntent, lClosed>>
        /\ ctxDone /\ teardown # "torn" /\ teardown' # "torn"
      BY <1>2 DEF TeardownBegin, mapVars, linkVars
  <2>2. PubGone' = PubGone \cup ({intents[r] : r \in Route} \ {Nil})
      BY <1>2, NilAssumption DEF TeardownBegin, PubGone, TypeOK
  <2>3. SubGone' = SubGone \cup ({interests[r] : r \in Route} \ {Nil})
      BY <1>2, NilAssumption DEF TeardownBegin, SubGone, TypeOK
  <2>4. Service!AllLeave
      BY <2>1, <2>2, <2>3 DEF Service!AllLeave, PubGone, SubGone, LinkRoute, DirectRemove
  <2> QED
      BY <2>4 DEF Service!Next
<1>3. CASE TeardownEnd
  <2>1. UNCHANGED <<use, iRoute, iState, nState, lIntent, lClosed>> /\ ctxDone
      BY <1>3 DEF TeardownEnd, intentVars, interestVars, linkVars, RegistryInv
  <2>2. Service!Dissolve
      BY <1>3, <2>1 DEF TeardownEnd, Service!Dissolve, LinkRoute, DirectRemove
  <2> QED
      BY <2>2 DEF Service!Next
<1> QED
    BY <1>1, <1>2, <1>3

(* A step that leaves the mapped state alone is a stutter.                 *)
LEMMA Stutters == UNCHANGED mapped => UNCHANGED Service!vars
    BY DEF mapped, Service!vars, LinkRoute, DirectRemove

(* A remove hook finds on its route the object it belongs to, closed, as   *)
(* long as the linker lives and users leave removing to the hooks.         *)
LEMMA HookFindsItsOwn ==
    ASSUME TypeOK, RegistryInv, HookInv
    PROVE  /\ \A i \in Intent : IntentRemoveHook(i) =>
                \/ iRoute[i] \in Route /\ intents[iRoute[i]] \in PubGone
                \/ ctxDone \/ DirectRemove
           /\ \A n \in Interest : InterestRemoveHook(n) =>
                \/ nRoute[n] \in Route /\ interests[nRoute[n]] \in SubGone
                \/ ctxDone \/ DirectRemove
BY DEF TypeOK, RegistryInv, HookInv, IntentRemoveHook, InterestRemoveHook, IntentDone,
       InterestDone, PubGone, SubGone

(* Every step of the Linker is a step of the service or a stutter.         *)
LEMMA StepRefines == LinkerInv /\ [Next]_vars => [Service!Next]_(Service!vars)
<1> SUFFICES ASSUME LinkerInv, [Next]_vars PROVE [Service!Next]_(Service!vars)
    OBVIOUS
<1>0. TypeOK /\ RegistryInv /\ HookInv /\ WireInv /\ LinkTableConsistent
    BY DEF LinkerInv
<1>1. ASSUME NEW r \in Route, AddInterestExisting(r) \/ AddInterestRefused(r)
      PROVE  [Service!Next]_(Service!vars)
  <2>1. SubGone' = SubGone
      BY <1>0, <1>1 DEF AddInterestExisting, AddInterestRefused, NewInterest, SubGone, TypeOK,
                       interestVars
  <2>2. UNCHANGED <<use, ctxDone, teardown, intents, interests, links, iRoute, iState, lIntent,
                    lClosed>>
      BY <1>1 DEF AddInterestExisting, AddInterestRefused, linkerVars, mapVars, intentVars, linkVars
  <2> QED
      BY <2>1, <2>2 DEF SubGone, Service!vars, LinkRoute, DirectRemove
<1>2. ASSUME NEW r \in Route, AddIntentRefused(r) PROVE [Service!Next]_(Service!vars)
  <2>1. PICK i \in Intent : NewIntent(r, i, "orphan")
      BY <1>2 DEF AddIntentRefused
  <2>2. PubGone' = PubGone
      BY <1>0, <2>1 DEF NewIntent, PubGone, TypeOK
  <2>3. UNCHANGED <<use, ctxDone, teardown, intents, interests, links, nState, lIntent, lClosed>>
      BY <1>2 DEF AddIntentRefused, linkerVars, mapVars, interestVars, linkVars
  <2>4. ASSUME NEW l \in Link PROVE LinkRoute(l)' = LinkRoute(l)
    <3>1. CASE lIntent[l] = Nil
        BY <2>3, <3>1 DEF LinkRoute
    <3>2. CASE lIntent[l] # Nil
      <4>1. lIntent[l] \in Intent /\ lIntent[l] # i
          BY <1>0, <2>1, <3>2 DEF WireInv, TypeOK, NewIntent
      <4>2. iRoute'[lIntent[l]] = iRoute[lIntent[l]]
          BY <1>0, <2>1, <4>1 DEF NewIntent, TypeOK
      <4> QED
          BY <2>3, <3>2, <4>2 DEF LinkRoute
    <3> QED
        BY <3>1, <3>2
  <2>5. Parted' = Parted
      BY <2>3, <2>4 DEF Parted
  <2> QED
      BY <2>2, <2>3, <2>5 DEF PubGone, Parted, Service!vars, DirectRemove
<1>3. ASSUME NEW r \in Route, AddIntent(r) PROVE [Service!Next]_(Service!vars)
    BY <1>0, <1>3, AddIntentPublishes, NilAssumption
<1>4. ASSUME NEW r \in Route, AddInterest(r) PROVE [Service!Next]_(Service!vars)
    BY <1>0, <1>4, AddInterestSubscribes, NilAssumption
<1>5. ASSUME NEW r \in Route, CallRemoveIntent(r) PROVE [Service!Next]_(Service!vars)
  <2>1. RemoveIntent(r) /\ UNCHANGED LeftAlone /\ DirectRemove
      BY <1>5 DEF CallRemoveIntent, linkerVars, intentVars, interestVars, LeftAlone
  <2> QED
      BY <1>0, <2>1, RemoveIntentWithdraws
<1>6. ASSUME NEW r \in Route, CallRemoveInterest(r) PROVE [Service!Next]_(Service!vars)
  <2>1. RemoveInterest(r) /\ UNCHANGED LeftAlone /\ DirectRemove
      BY <1>6 DEF CallRemoveInterest, linkerVars, intentVars, interestVars, LeftAlone
  <2> QED
      BY <1>0, <2>1, RemoveInterestUnsubscribes, NilAssumption
<1>7. ASSUME NEW i \in Intent, IntentRemoveHook(i) PROVE [Service!Next]_(Service!vars)
  <2>1. RemoveIntent(iRoute[i]) /\ UNCHANGED LeftAlone
      BY <1>7 DEF IntentRemoveHook, linkerVars, interestVars, LeftAlone
  <2>2. CASE iRoute[i] \in Route
      BY <1>0, <1>7, <2>1, <2>2, RemoveIntentWithdraws, HookFindsItsOwn
  <2>3. CASE iRoute[i] \notin Route
    <3>1. UNCHANGED <<intents, interests, links, lIntent, lClosed>>
        BY <1>0, <2>1, <2>3 DEF RemoveIntent, TypeOK, linkVars
    <3> QED
        BY <2>1, <3>1, Stutters DEF mapped, LeftAlone
  <2> QED
      BY <2>2, <2>3
<1>8. ASSUME NEW n \in Interest, InterestRemoveHook(n) PROVE [Service!Next]_(Service!vars)
  <2>1. RemoveInterest(nRoute[n]) /\ UNCHANGED LeftAlone
      BY <1>8 DEF InterestRemoveHook, linkerVars, intentVars, LeftAlone
  <2>2. CASE nRoute[n] \in Route
      BY <1>0, <1>8, <2>1, <2>2, RemoveInterestUnsubscribes, HookFindsItsOwn, NilAssumption
  <2>3. CASE nRoute[n] \notin Route
    <3>1. nState[n] = "free"
        BY <1>0, <2>3 DEF RegistryInv
    <3>2. nState[n] # "free"
        BY <1>0, <1>8 DEF InterestRemoveHook, RegistryInv
    <3> QED
        BY <3>1, <3>2
  <2> QED
      BY <2>2, <2>3
<1>9. ASSUME NEW l \in Link, LinkUnlinkHook(l) PROVE [Service!Next]_(Service!vars)
  <2>1. links' = [links EXCEPT ![LinkRoute(l)] = Nil]
        /\ UNCHANGED <<LeftAlone, intents, interests, lIntent, lClosed>>
      BY <1>9 DEF LinkUnlinkHook, linkerVars, intentVars, interestVars, LeftAlone
  <2>2. lClosed[l] \/ ctxDone
      BY <1>9 DEF LinkUnlinkHook, LinkDone
  <2>3. CASE LinkRoute(l) \in Route
    <3>1. LinkRoute(l) \in Parted \/ ctxDone
        BY <2>2, <2>3 DEF Parted
    <3> QED
        BY <1>0, <2>1, <2>3, <3>1, UnlinkUnpairs
  <2>4. CASE LinkRoute(l) \notin Route
    <3>1. UNCHANGED links
        BY <1>0, <2>1, <2>4 DEF TypeOK
    <3> QED
        BY <2>1, <3>1, Stutters DEF mapped, LeftAlone
  <2> QED
      BY <2>3, <2>4
<1>10. ASSUME ParentCancel \/ CloseLinker \/ TeardownBegin \/ TeardownEnd
       PROVE  [Service!Next]_(Service!vars)
    BY <1>0, <1>10, TeardownDissolves
<1>11. ASSUME NEW i \in Intent, CloseIntent(i) PROVE [Service!Next]_(Service!vars)
    BY <1>0, <1>11, CloseLeaves
<1>12. ASSUME NEW n \in Interest, CloseInterest(n) PROVE [Service!Next]_(Service!vars)
    BY <1>0, <1>12, CloseLeaves
<1>13. ASSUME NEW r \in Route, AddIntentExisting(r) PROVE UNCHANGED mapped
    BY <1>13 DEF AddIntentExisting, mapped, vars, linkerVars, mapVars, intentVars, interestVars,
                 linkVars
<1>14. ASSUME NEW i \in Intent, RecvNotify(i) \/ IntentChanHook(i) PROVE UNCHANGED mapped
    BY <1>14 DEF RecvNotify, IntentChanHook, mapped, mapVars, linkerVars, interestVars, linkVars
<1>15. ASSUME NEW n \in Interest, Recv(n) \/ InterestChanHook(n) PROVE UNCHANGED mapped
    BY <1>15 DEF Recv, InterestChanHook, mapped, mapVars, linkerVars, intentVars, linkVars
<1>16. ASSUME NEW l \in Link, LinkGo(l) \/ LinkSeverHook(l) PROVE UNCHANGED mapped
    BY <1>16 DEF LinkGo, LinkGoLink, LinkGoNotify, LinkSeverHook, mapped, mapVars, linkerVars,
                 interestVars
<1>17. ASSUME NEW s \in Sender, (\E i \in Intent : SendBegin(s, i)) \/ SendGiveUp(s) \/ SendMsg(s)
       PROVE  UNCHANGED mapped
    BY <1>17 DEF SendBegin, SendGiveUp, SendMsg, mapped, mapVars, linkerVars, intentVars,
                 interestVars, linkVars
<1>18. CASE UNCHANGED vars
  <2>1. UNCHANGED mapped
      BY <1>18 DEF vars, mapped, mapVars, linkerVars, intentVars, interestVars, linkVars
  <2> QED
      BY <2>1, Stutters
<1> QED
    BY <1>1, <1>2, <1>3, <1>4, <1>5, <1>6, <1>7, <1>8, <1>9, <1>10, <1>11, <1>12, <1>13,
       <1>14, <1>15, <1>16, <1>17, <1>18, Stutters DEF Next, UserStep, IntentStep, InterestStep

(* The Linker implements the matching service: whatever hooks are pending  *)
(* on a route, nobody is replaced or taken off it who has not left, unless *)
(* users remove by route or the linker ends, and the second half of a pair *)
(* is paired as it comes (linker.go).                                      *)
THEOREM LinkerImplements == Spec => ImplementsMatching
<1>1. Init => Service!Init
  <2> SUFFICES ASSUME Init PROVE Service!Init
      OBVIOUS
  <2>1. PubGone = {} /\ SubGone = {} /\ Parted = {}
      BY DEF Init, PubGone, SubGone, Parted
  <2>2. Pair = [r \in Route |-> FALSE]
      BY DEF Init, Pair
  <2>3. DirectRemove \in BOOLEAN
      BY DEF DirectRemove
  <2>4. /\ intents = [r \in Route |-> Nil]
        /\ interests = [r \in Route |-> Nil]
        /\ ctxDone = FALSE
      BY DEF Init
  <2> QED
      BY ONLY <2>1, <2>2, <2>3, <2>4 DEF Service!Init, PubGone, SubGone, Parted, Pair
<1> QED
    BY <1>1, StepRefines, LinkerInvariant, PTL DEF Spec, ImplementsMatching, Service!Spec
=============================================================================
