------------------------------- MODULE Linker -------------------------------
(***************************************************************************)
(* The Linker of dndm (linker.go) with the objects it manages: LocalIntent *)
(* (intent.go), LocalInterest (interest.go), Link (link.go) and the close  *)
(* hooks of Base (endpoint.go).                                            *)
(*                                                                         *)
(* Base.AddOnClose starts one goroutine per hook; each waits for the       *)
(* context and then runs.  So after a context is cancelled its hooks run   *)
(* in any order, interleaved with everything else.  A pending hook is a    *)
(* member of the object's hook set and running it is an action.            *)
(*                                                                         *)
(* Objects are allocated from the finite sets Intent, Interest and Link,   *)
(* which bound how many can be created in a behaviour.  An interest's      *)
(* message channel is identified with the interest that owns it.           *)
(***************************************************************************)
EXTENDS Integers

CONSTANTS
    Route,         \* routes, the keys of the three maps
    Intent,        \* LocalIntent objects that may be created
    Interest,      \* LocalInterest objects that may be created
    Link,          \* Link objects that may be created
    Sender,        \* goroutines calling LocalIntent.Send
    Nil,           \* absent object, nil channel
    Size,          \* buffer size of notifyC and msgC
    Usage          \* ways of using the linker, one of which is followed

ASSUME SizeAssumption == Size \in Nat \ {0}
ASSUME UsageAssumption == Usage \subseteq SUBSET {"send", "direct", "patient", "shutdown", "once"}
ASSUME NilAssumption ==
    Nil \notin Route /\ Nil \notin Intent /\ Nil \notin Interest /\ Nil \notin Link

ObjState == {"free", "orphan", "open", "closed"}
ObjHooks == {"chan", "remove"}
LinkStep == {"link", "notify", "wait"}
LinkHooks == {"sever", "unlink"}
Fault == {"none", "relink", "sendClosed", "notifyClosed", "nilMap", "mapRace"}

VARIABLES
    use,        \* the way this behaviour uses the linker, never changes
    ctxDone,    \* the linker's context, parent of every context below
    teardown,   \* the hook Close() adds: "none", "armed", "iterating", "torn"
    fault,      \* what crashed the process, "none" while it runs
    intents, interests, links,                     \* the Linker's maps
    iRoute, iState, linkedC, notifyC, iHooks,      \* LocalIntent
    nRoute, nState, msgC, nHooks,                  \* LocalInterest
    lIntent, lInterest, lClosed, lStep, lHooks,    \* Link
    sIntent, sChan                                 \* a Send in progress

linkerVars   == <<use, ctxDone, teardown>>
mapVars      == <<intents, interests, links>>
intentVars   == <<iRoute, iState, linkedC, notifyC, iHooks>>
interestVars == <<nRoute, nState, msgC, nHooks>>
linkVars     == <<lIntent, lInterest, lClosed, lStep, lHooks>>
senderVars   == <<sIntent, sChan>>
vars == <<linkerVars, fault, mapVars, intentVars, interestVars, linkVars, senderVars>>

-----------------------------------------------------------------------------
MaySend      == "send" \in use      \* users send through their intents
DirectRemove == "direct" \in use    \* users call RemoveIntent, RemoveInterest
Patient      == "patient" \in use   \* users let a route settle before reusing it
MayShutdown  == "shutdown" \in use  \* the linker's context may end
Once         == "once" \in use      \* one intent and one interest are ever created

Up == fault = "none"   \* the process has not crashed; no action happens after

(* Contexts.  Cancelling the linker's context cancels all of its children. *)

IntentDone(i)   == iState[i] = "closed" \/ ctxDone
InterestDone(n) == nState[n] = "closed" \/ ctxDone
LinkDone(l)     == lClosed[l] \/ ctxDone

\* The object's own hook has run and closed its channel.
NotifyClosed(i) == iState[i] # "free" /\ "chan" \notin iHooks[i]
MsgClosed(n)    == nState[n] # "free" /\ "chan" \notin nHooks[n]

LinkRoute(l) == IF lIntent[l] = Nil THEN Nil ELSE iRoute[lIntent[l]]

(* What a patient user waits for: before adding to a route, that every     *)
(* hook of what was closed on it has run and every link goroutine on it    *)
(* has linked and notified; before closing, the latter only.               *)
LinksSetUp(r) == \A l \in Link : LinkRoute(l) = r => lStep[l] = "wait"
Settled(r) ==
    /\ LinksSetUp(r)
    /\ \A i \in Intent : iRoute[i] = r /\ iState[i] = "closed" => iHooks[i] = {}
    /\ \A n \in Interest : nRoute[n] = r /\ nState[n] = "closed" => nHooks[n] = {}
    /\ \A l \in Link : LinkRoute(l) = r /\ lClosed[l] => lHooks[l] = {}
Careful     == Patient /\ ~DirectRemove   \* and leave removing to the hooks
MayAdd(r)   == Patient => Settled(r)
MayClose(r) == Patient => LinksSetUp(r)

-----------------------------------------------------------------------------
Init ==
    /\ use \in Usage
    /\ ctxDone = FALSE /\ teardown = "none" /\ fault = "none"
    /\ intents   = [r \in Route |-> Nil]
    /\ interests = [r \in Route |-> Nil]
    /\ links     = [r \in Route |-> Nil]
    /\ iRoute  = [i \in Intent |-> Nil]
    /\ iState  = [i \in Intent |-> "free"]
    /\ linkedC = [i \in Intent |-> Nil]
    /\ notifyC = [i \in Intent |-> 0]
    /\ iHooks  = [i \in Intent |-> {}]
    /\ nRoute  = [n \in Interest |-> Nil]
    /\ nState  = [n \in Interest |-> "free"]
    /\ msgC    = [n \in Interest |-> 0]
    /\ nHooks  = [n \in Interest |-> {}]
    /\ lIntent   = [l \in Link |-> Nil]
    /\ lInterest = [l \in Link |-> Nil]
    /\ lClosed   = [l \in Link |-> FALSE]
    /\ lStep     = [l \in Link |-> "link"]
    /\ lHooks    = [l \in Link |-> {}]
    /\ sIntent = [s \in Sender |-> Nil]
    /\ sChan   = [s \in Sender |-> Nil]

-----------------------------------------------------------------------------
\* Mutant of Notify: the event is queued without a look at the buffer.
NotifyUnbounded(i) ==
    /\ notifyC' = [notifyC EXCEPT ![i] = @ + 1]
    /\ UNCHANGED fault

(* LocalIntent.Notify: select over the context, the buffered channel and a *)
(* default.  With the context done and the channel closed both cases are   *)
(* ready; picking the send panics.                                         *)
Notify(i) ==
    \/ /\ IntentDone(i)
       /\ UNCHANGED <<notifyC, fault>>
    \/ /\ NotifyClosed(i)
       /\ fault' = "notifyClosed"
       /\ UNCHANGED notifyC
    \/ /\ ~NotifyClosed(i) /\ notifyC[i] < Size
       /\ notifyC' = [notifyC EXCEPT ![i] = @ + 1]
       /\ UNCHANGED fault
    \/ /\ ~IntentDone(i) /\ notifyC[i] = Size
       /\ UNCHANGED <<notifyC, fault>>

(* A write to the intents or interests map.  The hook of Close iterates    *)
(* them without the mutex, and the runtime may detect that and abort.      *)
WriteMap ==
    fault' \in IF teardown = "iterating" THEN {"none", "mapRace"} ELSE {"none"}

(* Linker.link: nothing when the route has a link, otherwise a new Link is *)
(* recorded, its two hooks armed and its goroutine started.                *)
LinkUp(r, i, n) ==
    IF links[r] # Nil
    THEN UNCHANGED <<links, linkVars>>
    ELSE \E l \in Link :
        /\ lIntent[l] = Nil
        /\ links'     = [links EXCEPT ![r] = l]
        /\ lIntent'   = [lIntent EXCEPT ![l] = i]
        /\ lInterest' = [lInterest EXCEPT ![l] = n]
        /\ lHooks'    = [lHooks EXCEPT ![l] = LinkHooks]
        /\ UNCHANGED <<lClosed, lStep>>

-----------------------------------------------------------------------------
(* Linker.AddIntent.  An existing registration is returned as it is.       *)
AddIntentExisting(r) ==
    /\ Up /\ intents[r] # Nil /\ MayAdd(r)
    /\ UNCHANGED vars

NewIntent(r, i, st) ==
    /\ iState[i] = "free"
    /\ Once => i = CHOOSE j \in Intent : TRUE
    /\ iRoute' = [iRoute EXCEPT ![i] = r]
    /\ iState' = [iState EXCEPT ![i] = st]
    /\ iHooks' = [iHooks EXCEPT ![i] = ObjHooks]
    /\ UNCHANGED <<linkedC, notifyC>>

(* The wrapper or the onAddIntent callback fails: the new object, with its *)
(* hooks, is dropped unregistered and nobody can close it.                 *)
AddIntentRefused(r) ==
    /\ Up /\ intents[r] = Nil /\ MayAdd(r)
    /\ \E i \in Intent : NewIntent(r, i, "orphan")
    /\ UNCHANGED <<linkerVars, fault, mapVars, interestVars, linkVars, senderVars>>

\* Mutant of AddIntent: an existing registration is overwritten.
AddIntentUnchecked(r) ==
    /\ Up /\ MayAdd(r)
    /\ \E i \in Intent :
        /\ NewIntent(r, i, "open")
        /\ intents' = [intents EXCEPT ![r] = i]
    /\ UNCHANGED <<linkerVars, fault, interests, links, linkVars, interestVars, senderVars>>

\* Mutant of AddIntent: an interest that was there first is not linked.
AddIntentNoLink(r) ==
    /\ Up /\ intents[r] = Nil /\ MayAdd(r)
    /\ \E i \in Intent :
        /\ NewIntent(r, i, "open")
        /\ intents' = [intents EXCEPT ![r] = i]
    /\ UNCHANGED <<linkerVars, fault, interests, links, linkVars, interestVars, senderVars>>

AddIntent(r) ==
    /\ Up /\ intents[r] = Nil /\ MayAdd(r)
    /\ \E i \in Intent :
        /\ NewIntent(r, i, "open")
        /\ IF teardown = "torn"
           THEN fault' = "nilMap" /\ UNCHANGED <<intents, links, linkVars>>
           ELSE /\ WriteMap
                /\ intents' = [intents EXCEPT ![r] = i]
                /\ IF interests[r] = Nil
                   THEN UNCHANGED <<links, linkVars>>
                   ELSE LinkUp(r, i, interests[r])
    /\ UNCHANGED <<linkerVars, interests, interestVars, senderVars>>

(* Linker.AddInterest.  An existing registration is returned, after its    *)
(* link, if there is one, has notified the intent once more.               *)
AddInterestExisting(r) ==
    /\ Up /\ interests[r] # Nil /\ MayAdd(r)
    /\ IF links[r] = Nil
       THEN UNCHANGED <<notifyC, fault>>
       ELSE Notify(lIntent[links[r]])
    /\ UNCHANGED <<linkerVars, mapVars, iRoute, iState, linkedC, iHooks,
                   interestVars, linkVars, senderVars>>

NewInterest(r, n, st) ==
    /\ nState[n] = "free"
    /\ Once => n = CHOOSE j \in Interest : TRUE
    /\ nRoute' = [nRoute EXCEPT ![n] = r]
    /\ nState' = [nState EXCEPT ![n] = st]
    /\ nHooks' = [nHooks EXCEPT ![n] = ObjHooks]
    /\ UNCHANGED msgC

AddInterestRefused(r) ==
    /\ Up /\ interests[r] = Nil /\ MayAdd(r)
    /\ \E n \in Interest : NewInterest(r, n, "orphan")
    /\ UNCHANGED <<linkerVars, fault, mapVars, intentVars, linkVars, senderVars>>

\* Mutant of AddInterest: an intent that was there first is not linked.
AddInterestNoLink(r) ==
    /\ Up /\ interests[r] = Nil /\ MayAdd(r)
    /\ \E n \in Interest :
        /\ NewInterest(r, n, "open")
        /\ interests' = [interests EXCEPT ![r] = n]
    /\ UNCHANGED <<linkerVars, fault, intents, links, linkVars, intentVars, senderVars>>

\* Mutant of AddInterest: links whatever intent it finds first.
AddInterestAnyIntent(r) ==
    /\ Up /\ interests[r] = Nil /\ MayAdd(r) /\ teardown # "torn"
    /\ \E n \in Interest, q \in Route :
        /\ NewInterest(r, n, "open")
        /\ interests' = [interests EXCEPT ![r] = n]
        /\ intents[q] # Nil /\ LinkUp(r, intents[q], n)
    /\ UNCHANGED <<linkerVars, fault, intents, intentVars, senderVars>>

AddInterest(r) ==
    /\ Up /\ interests[r] = Nil /\ MayAdd(r)
    /\ \E n \in Interest :
        /\ NewInterest(r, n, "open")
        /\ IF teardown = "torn"
           THEN fault' = "nilMap" /\ UNCHANGED <<interests, links, linkVars>>
           ELSE /\ WriteMap
                /\ interests' = [interests EXCEPT ![r] = n]
                /\ IF intents[r] = Nil
                   THEN UNCHANGED <<links, linkVars>>
                   ELSE LinkUp(r, intents[r], n)
    /\ UNCHANGED <<linkerVars, intents, intentVars, senderVars>>

-----------------------------------------------------------------------------
\* Mutant of RemoveIntent: the link stays in the table.
RemoveIntentKeepsLink(r) ==
    /\ WriteMap
    /\ intents' = [intents EXCEPT ![r] = Nil]
    /\ UNCHANGED <<interests, links, linkVars>>

(* Linker.RemoveIntent: whatever intent and link the route has are         *)
(* forgotten.  The link is not closed.                                     *)
RemoveIntent(r) ==
    /\ WriteMap
    /\ links'   = [links EXCEPT ![r] = Nil]
    /\ intents' = [intents EXCEPT ![r] = Nil]
    /\ UNCHANGED <<interests, linkVars>>

\* Mutant of RemoveInterest: the link is forgotten but not closed.
RemoveInterestNoClose(r) ==
    IF interests[r] = Nil
    THEN UNCHANGED <<mapVars, linkVars, fault>>
    ELSE /\ WriteMap
         /\ links'     = [links EXCEPT ![r] = Nil]
         /\ interests' = [interests EXCEPT ![r] = Nil]
         /\ UNCHANGED <<intents, linkVars>>

\* Mutant of RemoveInterest: only a linked interest is removed.
RemoveInterestIfLinked(r) ==
    IF links[r] = Nil
    THEN UNCHANGED <<mapVars, linkVars, fault>>
    ELSE /\ WriteMap
         /\ links'     = [links EXCEPT ![r] = Nil]
         /\ interests' = [interests EXCEPT ![r] = Nil]
         /\ lClosed'   = [lClosed EXCEPT ![links[r]] = TRUE]
         /\ UNCHANGED <<intents, lIntent, lInterest, lStep, lHooks>>

(* Linker.RemoveInterest: the route's interest and link are forgotten and  *)
(* the link is closed.  The code closes it just after it releases the      *)
(* mutex; only the link's own hook goroutines can tell, and they run later *)
(* by themselves.                                                          *)
RemoveInterest(r) ==
    IF interests[r] = Nil
    THEN UNCHANGED <<mapVars, linkVars, fault>>
    ELSE /\ WriteMap
         /\ links'     = [links EXCEPT ![r] = Nil]
         /\ interests' = [interests EXCEPT ![r] = Nil]
         /\ lClosed'   = IF links[r] = Nil THEN lClosed
                         ELSE [lClosed EXCEPT ![links[r]] = TRUE]
         /\ UNCHANGED <<intents, lIntent, lInterest, lStep, lHooks>>

(* The two as calls of a user of the Linker.                               *)
CallRemoveIntent(r) ==
    /\ Up /\ DirectRemove /\ intents[r] # Nil
    /\ RemoveIntent(r)
    /\ UNCHANGED <<linkerVars, intentVars, interestVars, senderVars>>

CallRemoveInterest(r) ==
    /\ Up /\ DirectRemove /\ interests[r] # Nil
    /\ RemoveInterest(r)
    /\ UNCHANGED <<linkerVars, intentVars, interestVars, senderVars>>

-----------------------------------------------------------------------------
(* Close of an intent or interest cancels its context, nothing else.       *)
CloseIntent(i) ==
    /\ Up /\ iState[i] = "open" /\ MayClose(iRoute[i])
    /\ iState' = [iState EXCEPT ![i] = "closed"]
    /\ UNCHANGED <<linkerVars, fault, mapVars, iRoute, linkedC, notifyC, iHooks,
                   interestVars, linkVars, senderVars>>

CloseInterest(n) ==
    /\ Up /\ nState[n] = "open" /\ MayClose(nRoute[n])
    /\ nState' = [nState EXCEPT ![n] = "closed"]
    /\ UNCHANGED <<linkerVars, fault, mapVars, intentVars, nRoute, msgC, nHooks,
                   linkVars, senderVars>>

\* Mutant of IntentChanHook: it frees the route too, so that the other hook
\* takes it from whoever has it by then.
IntentChanHookRemoves(i) ==
    /\ Up /\ IntentDone(i) /\ "chan" \in iHooks[i]
    /\ iHooks'  = [iHooks EXCEPT ![i] = @ \ {"chan"}]
    /\ linkedC' = [linkedC EXCEPT ![i] = Nil]
    /\ RemoveIntent(iRoute[i])
    /\ UNCHANGED <<linkerVars, iRoute, iState, notifyC, interestVars, senderVars>>

(* Hook of NewIntent: close(notifyC), linkedC = nil.                       *)
IntentChanHook(i) ==
    /\ Up /\ IntentDone(i) /\ "chan" \in iHooks[i]
    /\ iHooks'  = [iHooks EXCEPT ![i] = @ \ {"chan"}]
    /\ linkedC' = [linkedC EXCEPT ![i] = Nil]
    /\ UNCHANGED <<linkerVars, fault, mapVars, iRoute, iState, notifyC,
                   interestVars, linkVars, senderVars>>

(* Hook of addIntentLocked: RemoveIntent(route).                           *)
IntentRemoveHook(i) ==
    /\ Up /\ IntentDone(i) /\ "remove" \in iHooks[i]
    /\ iHooks' = [iHooks EXCEPT ![i] = @ \ {"remove"}]
    /\ RemoveIntent(iRoute[i])
    /\ UNCHANGED <<linkerVars, iRoute, iState, linkedC, notifyC,
                   interestVars, senderVars>>

(* Hook of NewInterest: close(msgC).                                       *)
InterestChanHook(n) ==
    /\ Up /\ InterestDone(n) /\ "chan" \in nHooks[n]
    /\ nHooks' = [nHooks EXCEPT ![n] = @ \ {"chan"}]
    /\ UNCHANGED <<linkerVars, fault, mapVars, intentVars, nRoute, nState, msgC,
                   linkVars, senderVars>>

(* Hook of addInterestLocked: RemoveInterest(route).                       *)
InterestRemoveHook(n) ==
    /\ Up /\ InterestDone(n) /\ "remove" \in nHooks[n]
    /\ nHooks' = [nHooks EXCEPT ![n] = @ \ {"remove"}]
    /\ RemoveInterest(nRoute[n])
    /\ UNCHANGED <<linkerVars, intentVars, nRoute, nState, msgC, senderVars>>

-----------------------------------------------------------------------------
(* The goroutine of Link.Link: intent.Link(interest.MsgC()), which panics  *)
(* when the intent holds another channel, then intent.Notify().  It then   *)
(* only waits, which changes nothing.                                      *)
LinkGoLink(l) ==
    /\ Up /\ lIntent[l] # Nil /\ lStep[l] = "link"
    /\ IF linkedC[lIntent[l]] \notin {Nil, lInterest[l]}
       THEN fault' = "relink" /\ UNCHANGED <<linkedC, lStep>>
       ELSE /\ linkedC' = [linkedC EXCEPT ![lIntent[l]] = lInterest[l]]
            /\ lStep'   = [lStep EXCEPT ![l] = "notify"]
            /\ UNCHANGED fault
    /\ UNCHANGED <<linkerVars, mapVars, iRoute, iState, notifyC, iHooks,
                   interestVars, lIntent, lInterest, lClosed, lHooks, senderVars>>

LinkGoNotify(l) ==
    /\ Up /\ lIntent[l] # Nil /\ lStep[l] = "notify"
    /\ Notify(lIntent[l])
    /\ lStep' = [lStep EXCEPT ![l] = "wait"]
    /\ UNCHANGED <<linkerVars, mapVars, iRoute, iState, linkedC, iHooks,
                   interestVars, lIntent, lInterest, lClosed, lHooks, senderVars>>

\* Mutant of LinkSeverHook: the intent keeps its channel.
LinkSeverHookNoop(l) ==
    /\ Up /\ LinkDone(l) /\ "sever" \in lHooks[l]
    /\ lHooks' = [lHooks EXCEPT ![l] = @ \ {"sever"}]
    /\ UNCHANGED <<linkerVars, fault, mapVars, intentVars, interestVars,
                   lIntent, lInterest, lClosed, lStep, senderVars>>

(* Hook of NewLink: intent.Link(nil), which never panics.                  *)
LinkSeverHook(l) ==
    /\ Up /\ LinkDone(l) /\ "sever" \in lHooks[l]
    /\ lHooks'  = [lHooks EXCEPT ![l] = @ \ {"sever"}]
    /\ linkedC' = [linkedC EXCEPT ![lIntent[l]] = Nil]
    /\ UNCHANGED <<linkerVars, fault, mapVars, iRoute, iState, notifyC, iHooks,
                   interestVars, lIntent, lInterest, lClosed, lStep, senderVars>>

(* Hook of Linker.link: unlink(route), whatever link the route has by then.*)
LinkUnlinkHook(l) ==
    /\ Up /\ LinkDone(l) /\ "unlink" \in lHooks[l]
    /\ lHooks' = [lHooks EXCEPT ![l] = @ \ {"unlink"}]
    /\ links'  = [links EXCEPT ![LinkRoute(l)] = Nil]
    /\ UNCHANGED <<linkerVars, fault, intents, interests, intentVars,
                   interestVars, lIntent, lInterest, lClosed, lStep, senderVars>>

-----------------------------------------------------------------------------
(* The parent context ends without Close being called.                     *)
ParentCancel ==
    /\ Up /\ MayShutdown /\ ~ctxDone
    /\ ctxDone' = TRUE
    /\ UNCHANGED <<use, teardown, fault, mapVars, intentVars, interestVars, linkVars,
                   senderVars>>

(* Linker.Close: adds the hook below and cancels the context.  A second    *)
(* Close adds a hook that finds the maps being emptied already.            *)
CloseLinker ==
    /\ Up /\ MayShutdown /\ teardown = "none"
    /\ ctxDone' = TRUE /\ teardown' = "armed"
    /\ UNCHANGED <<use, fault, mapVars, intentVars, interestVars, linkVars, senderVars>>

(* The hook closes everything registered (all of it is done already, its   *)
(* context being a child of the linker's) while it iterates the two maps   *)
(* without the mutex, and then sets both maps to nil.                      *)
TeardownBegin ==
    /\ Up /\ ctxDone /\ teardown = "armed"
    /\ teardown' = "iterating"
    /\ iState' = [i \in Intent |-> IF i \in {intents[r] : r \in Route}
                                   THEN "closed" ELSE iState[i]]
    /\ nState' = [n \in Interest |-> IF n \in {interests[r] : r \in Route}
                                     THEN "closed" ELSE nState[n]]
    /\ UNCHANGED <<use, ctxDone, fault, mapVars, iRoute, linkedC, notifyC, iHooks,
                   nRoute, msgC, nHooks, linkVars, senderVars>>

TeardownEnd ==
    /\ Up /\ teardown = "iterating"
    /\ teardown'  = "torn"
    /\ intents'   = [r \in Route |-> Nil]
    /\ interests' = [r \in Route |-> Nil]
    /\ UNCHANGED <<use, ctxDone, fault, links, intentVars, interestVars, linkVars,
                   senderVars>>

-----------------------------------------------------------------------------
(* LocalIntent.Send reads linkedC under the mutex and, holding nothing any *)
(* more, selects over the caller's context, the intent's context and the   *)
(* channel it read.  With no channel it returns ErrNoInterest at once.     *)
SendBegin(s, i) ==
    /\ Up /\ MaySend /\ sIntent[s] = Nil
    /\ iState[i] \in {"open", "closed"} /\ linkedC[i] # Nil
    /\ sIntent' = [sIntent EXCEPT ![s] = i]
    /\ sChan'   = [sChan EXCEPT ![s] = linkedC[i]]
    /\ UNCHANGED <<linkerVars, fault, mapVars, intentVars, interestVars, linkVars>>

SendReturn(s) ==
    /\ sIntent' = [sIntent EXCEPT ![s] = Nil]
    /\ sChan'   = [sChan EXCEPT ![s] = Nil]

\* Either context is done: the caller's may be at any time.
SendGiveUp(s) ==
    /\ Up /\ sIntent[s] # Nil
    /\ SendReturn(s)
    /\ UNCHANGED <<linkerVars, fault, mapVars, intentVars, interestVars, linkVars>>

SendMsg(s) ==
    /\ Up /\ sIntent[s] # Nil
    /\ IF MsgClosed(sChan[s])
       THEN fault' = "sendClosed" /\ UNCHANGED <<msgC, senderVars>>
       ELSE /\ msgC[sChan[s]] < Size
            /\ msgC' = [msgC EXCEPT ![sChan[s]] = @ + 1]
            /\ SendReturn(s)
            /\ UNCHANGED fault
    /\ UNCHANGED <<linkerVars, mapVars, intentVars, nRoute, nState, nHooks, linkVars>>

\* The user takes a message from Interest.C(), an event from Intent.Interest().
Recv(n) ==
    /\ Up /\ msgC[n] > 0
    /\ msgC' = [msgC EXCEPT ![n] = @ - 1]
    /\ UNCHANGED <<linkerVars, fault, mapVars, intentVars, nRoute, nState, nHooks,
                   linkVars, senderVars>>

RecvNotify(i) ==
    /\ Up /\ notifyC[i] > 0
    /\ notifyC' = [notifyC EXCEPT ![i] = @ - 1]
    /\ UNCHANGED <<linkerVars, fault, mapVars, iRoute, iState, linkedC, iHooks,
                   interestVars, linkVars, senderVars>>

-----------------------------------------------------------------------------
IntentStep(i) == IntentChanHook(i) \/ IntentRemoveHook(i)
InterestStep(n) == InterestChanHook(n) \/ InterestRemoveHook(n)
LinkGo(l) == LinkGoLink(l) \/ LinkGoNotify(l)

UserStep ==
    \/ \E r \in Route :
        \/ AddIntentExisting(r) \/ AddIntentRefused(r) \/ AddIntent(r)
        \/ AddInterestExisting(r) \/ AddInterestRefused(r) \/ AddInterest(r)
        \/ CallRemoveIntent(r) \/ CallRemoveInterest(r)
    \/ \E i \in Intent : CloseIntent(i) \/ RecvNotify(i)
    \/ \E n \in Interest : CloseInterest(n) \/ Recv(n)
    \/ \E s \in Sender :
        \/ \E i \in Intent : SendBegin(s, i)
        \/ SendGiveUp(s) \/ SendMsg(s)
    \/ ParentCancel \/ CloseLinker

Next ==
    \/ UserStep
    \/ \E i \in Intent : IntentStep(i)
    \/ \E n \in Interest : InterestStep(n)
    \/ \E l \in Link : LinkGo(l) \/ LinkSeverHook(l) \/ LinkUnlinkHook(l)
    \/ TeardownBegin \/ TeardownEnd

Spec == Init /\ [][Next]_vars

(* The Go scheduler runs every goroutine that can run: each pending hook   *)
(* whose context is done, each link goroutine, the teardown.  Users and    *)
(* senders promise nothing.                                                *)
Fairness ==
    /\ \A i \in Intent : /\ WF_vars(IntentChanHook(i))
                         /\ WF_vars(IntentRemoveHook(i))
    /\ \A n \in Interest : /\ WF_vars(InterestChanHook(n))
                           /\ WF_vars(InterestRemoveHook(n))
    /\ \A l \in Link : /\ WF_vars(LinkGo(l))
                       /\ WF_vars(LinkSeverHook(l))
                       /\ WF_vars(LinkUnlinkHook(l))
    /\ WF_vars(TeardownBegin) /\ WF_vars(TeardownEnd)

FairSpec == Spec /\ Fairness
-----------------------------------------------------------------------------
(* Types of the Linker's state: linker.go 47-58, intent.go 56-62,          *)
(* interest.go 52-56, link.go 12-17.                                       *)
TypeOK ==
    /\ use \in Usage
    /\ ctxDone \in BOOLEAN
    /\ teardown \in {"none", "armed", "iterating", "torn"}
    /\ fault \in Fault
    /\ intents   \in [Route -> Intent \cup {Nil}]
    /\ interests \in [Route -> Interest \cup {Nil}]
    /\ links     \in [Route -> Link \cup {Nil}]
    /\ iRoute  \in [Intent -> Route \cup {Nil}]
    /\ iState  \in [Intent -> ObjState]
    /\ linkedC \in [Intent -> Interest \cup {Nil}]
    /\ notifyC \in [Intent -> 0..Size]
    /\ iHooks  \in [Intent -> SUBSET ObjHooks]
    /\ nRoute  \in [Interest -> Route \cup {Nil}]
    /\ nState  \in [Interest -> ObjState]
    /\ msgC    \in [Interest -> 0..Size]
    /\ nHooks  \in [Interest -> SUBSET ObjHooks]
    /\ lIntent   \in [Link -> Intent \cup {Nil}]
    /\ lInterest \in [Link -> Interest \cup {Nil}]
    /\ lClosed   \in [Link -> BOOLEAN]
    /\ lStep     \in [Link -> LinkStep]
    /\ lHooks    \in [Link -> SUBSET LinkHooks]
    /\ sIntent \in [Sender -> Intent \cup {Nil}]
    /\ sChan   \in [Sender -> Interest \cup {Nil}]

(* The link a route has in the table joins the two objects registered on   *)
(* it, however adds, removes and late hooks interleave: no entry of        *)
(* Linker.links outlives either of its ends (linker.go 161-167, 225-238).  *)
LinkTableConsistent ==
    teardown # "torn" =>
        \A r \in Route : links[r] # Nil =>
            /\ intents[r] # Nil /\ lIntent[links[r]] = intents[r]
            /\ interests[r] # Nil /\ lInterest[links[r]] = interests[r]

(* The remove hooks of linker.go 140-142 and 204-206 know a route, not an  *)
(* object, yet none ever evicts somebody else's registration: an object    *)
(* the linker handed out and nobody has closed stays the one its route     *)
(* finds.  So a route never has two open intents or two open interests.    *)
LiveIsRegistered ==
    ~DirectRemove /\ ~ctxDone =>
        /\ \A i \in Intent : iState[i] = "open" => intents[iRoute[i]] = i
        /\ \A n \in Interest : nState[n] = "open" => interests[nRoute[n]] = n

(* Messages never leave their route: the channel an intent is linked to,   *)
(* and the one a Send has picked up (intent.go 100-102) and may still be   *)
(* blocked on after any number of relinks, belong to the intent's route.   *)
NoCrossWire ==
    /\ \A i \in Intent : linkedC[i] # Nil => nRoute[linkedC[i]] = iRoute[i]
    /\ \A s \in Sender : sIntent[s] # Nil => nRoute[sChan[s]] = iRoute[sIntent[s]]

(* No two live links feed the same intent: Link's panic at intent.go 127   *)
(* is never reached.                                                       *)
NoIllegalRelink == fault # "relink"

(* For users who close what they added, rather than remove it by route, and *)
(* let a route settle before using it again: a registered intent and        *)
(* interest of one route have a link in the table (linker.go 153-155,       *)
(* 217-219), and once its goroutine is through the intent sends to that     *)
(* interest and to no other, until one of them is closed.                   *)
MatchedIsLinked ==
    Careful /\ ~ctxDone => \A r \in Route :
        intents[r] # Nil /\ interests[r] # Nil =>
            /\ links[r] # Nil
            /\ lStep[links[r]] # "link" /\ iState[intents[r]] = "open"
               => linkedC[intents[r]] = interests[r]

(* For the same users: once all the hooks of a closed interest and of its  *)
(* links have run, no intent still holds its closed channel, so a Send     *)
(* that starts later cannot panic (link.go 28, interest.go 66-69).         *)
NoDanglingChannel ==
    Careful => \A i \in Intent : \A n \in Interest :
        linkedC[i] = n /\ nState[n] = "closed" /\ ~ctxDone => ~Settled(nRoute[n])

(* For the same users, while the linker's context lives: the only crash    *)
(* left is a Send that meets the closing of the interest it sends to       *)
(* (intent.go 117 against interest.go 68).                                 *)
OnlySendCanCrash == Careful /\ ~ctxDone => fault \in {"none", "sendClosed"}

(* An intent and an interest that stay open on one route get linked        *)
(* (linker.go 153-155, 217-219; link.go 38-53).                            *)
MatchedGetsLinked ==
    \A i \in Intent : \A n \in Interest :
        (Patient /\ iState[i] = "open" /\ nState[n] = "open" /\ iRoute[i] = nRoute[n]) ~>
            \/ linkedC[i] = n
            \/ iState[i] # "open" \/ nState[n] # "open"
            \/ ctxDone \/ fault # "none"

(* Whoever closes an intent or an interest frees its route: the            *)
(* registration goes away and the route can be used anew (linker.go        *)
(* 140-142, 204-206), however many hooks are pending at the time.          *)
ClosedIsForgotten ==
    /\ \A i \in Intent : iState[i] = "closed" ~>
           fault # "none" \/ \A r \in Route : intents[r] # i
    /\ \A n \in Interest : nState[n] = "closed" ~>
           fault # "none" \/ \A r \in Route : interests[r] # n
-----------------------------------------------------------------------------
(* The matching service of the abstract specification: who is registered,  *)
(* which routes have a link, until the maps are dropped, who has closed    *)
(* what he holds, and where a closed link's unlink hook may be pending.    *)
Service == INSTANCE Matching WITH
    Publisher  <- Intent,
    Subscriber <- Interest,
    pub  <- intents,
    sub  <- interests,
    pair <- [r \in Route |-> links[r] # Nil /\ teardown # "torn"],
    pubGone <- {i \in Intent : iState[i] = "closed"},
    subGone <- {n \in Interest : nState[n] = "closed"},
    parted  <- {r \in Route : \E l \in Link : lClosed[l] /\ LinkRoute(l) = r},
    ended   <- ctxDone,
    byRoute <- DirectRemove

(* The Linker implements that service: every add, close, remove, late hook *)
(* and teardown is one of its steps or leaves it as it is (linker.go       *)
(* 116-277).  So a remove hook, which knows a route and runs at any time   *)
(* after a close, takes nobody off the route but who has closed, unless    *)
(* users remove by route or the linker ends; a pair is made in the step    *)
(* that registers its second half; and it is dropped before either half    *)
(* leaves only where an earlier interest of the route left a closed link.  *)
ImplementsMatching == Service!Spec
-----------------------------------------------------------------------------
(* The strengthening that makes the safety invariants above inductive.     *)

\* What is registered on a route was created for it.
RegistryInv ==
    /\ teardown # "none" => ctxDone
    /\ teardown = "torn" => \A r \in Route : intents[r] = Nil /\ interests[r] = Nil
    /\ \A r \in Route :
        /\ intents[r] # Nil =>
             iRoute[intents[r]] = r /\ iState[intents[r]] # "free"
        /\ interests[r] # Nil =>
             nRoute[interests[r]] = r /\ nState[interests[r]] # "free"
    /\ \A i \in Intent : iState[i] # "free" => iRoute[i] \in Route
    /\ \A n \in Interest : IF nState[n] = "free" THEN nHooks[n] = {} ELSE nRoute[n] \in Route

\* An object that was registered stays so until its own remove hook runs,
\* and that hook is pending as long as the object is open.
HookInv ==
    ~DirectRemove /\ ~ctxDone =>
        /\ \A i \in Intent :
            /\ iState[i] = "open" => "remove" \in iHooks[i]
            /\ iState[i] \in {"open", "closed"} /\ "remove" \in iHooks[i] =>
                 intents[iRoute[i]] = i
        /\ \A n \in Interest :
            /\ nState[n] = "open" => "remove" \in nHooks[n]
            /\ nState[n] \in {"open", "closed"} /\ "remove" \in nHooks[n] =>
                 interests[nRoute[n]] = n

\* Links, linked channels and running sends join objects of one route.
WireInv ==
    /\ \A l \in Link : lClosed[l] => lIntent[l] # Nil
    /\ \A l \in Link : lIntent[l] # Nil =>
        /\ lInterest[l] # Nil
        /\ iState[lIntent[l]] # "free" /\ nState[lInterest[l]] # "free"
        /\ nRoute[lInterest[l]] = iRoute[lIntent[l]]
    /\ \A i \in Intent : linkedC[i] # Nil =>
        /\ iState[i] # "free" /\ nState[linkedC[i]] # "free"
        /\ nRoute[linkedC[i]] = iRoute[i]
    /\ \A s \in Sender : sIntent[s] # Nil =>
        /\ sChan[s] # Nil
        /\ iState[sIntent[s]] # "free" /\ nState[sChan[s]] # "free"
        /\ nRoute[sChan[s]] = iRoute[sIntent[s]]

(* What careful users keep up in addition, while the linker lives.          *)

\* A registered object can be closed and its hooks are armed.
ArmedInv ==
    /\ \A i \in Intent : iState[i] = "open" \/ linkedC[i] # Nil => "chan" \in iHooks[i]
    /\ \A r \in Route :
        /\ intents[r] # Nil =>
             iState[intents[r]] \in {"open", "closed"} /\ "remove" \in iHooks[intents[r]]
        /\ interests[r] # Nil =>
             nState[interests[r]] \in {"open", "closed"} /\ "remove" \in nHooks[interests[r]]

\* A new link is the one its route has, between open objects, until it is set
\* up; one whose late hooks are pending left its route without an interest.
LinkInv ==
    /\ \A r \in Route : intents[r] # Nil /\ interests[r] # Nil => links[r] # Nil
    /\ \A l \in Link :
        IF lIntent[l] = Nil
        THEN lStep[l] = "link" /\ ~lClosed[l] /\ lHooks[l] = {}
        ELSE /\ ~lClosed[l] => lHooks[l] = LinkHooks
             /\ links[LinkRoute(l)] = l => ~lClosed[l]
             /\ lClosed[l] /\ lHooks[l] # {} => interests[LinkRoute(l)] = Nil
             /\ lStep[l] # "wait" =>
                  /\ links[LinkRoute(l)] = l
                  /\ iState[lIntent[l]] = "open" /\ nState[lInterest[l]] = "open"

\* An intent sends to the interest it is linked to by the table, unless a hook
\* that takes its channel away is pending.
ChannelInv ==
    \A i \in Intent :
        /\ linkedC[i] # Nil =>
            \/ /\ links[iRoute[i]] # Nil
               /\ lIntent[links[iRoute[i]]] = i /\ lInterest[links[iRoute[i]]] = linkedC[i]
            \/ iState[i] = "closed"
            \/ \E l \in Link : lIntent[l] = i /\ lClosed[l] /\ "sever" \in lHooks[l]
        /\ iState[i] = "open" /\ links[iRoute[i]] # Nil =>
            lStep[links[iRoute[i]]] = "link" \/ linkedC[i] = lInterest[links[iRoute[i]]]

CarefulInv ==
    Careful /\ ~ctxDone =>
        ArmedInv /\ LinkInv /\ ChannelInv /\ fault \in {"none", "sendClosed"}

LinkerInv == TypeOK /\ RegistryInv /\ HookInv /\ WireInv /\ LinkTableConsistent
=============================================================================
