---------------------------- MODULE IntentRouter ----------------------------
(***************************************************************************)
(* One IntentRouter of intent.go: a FanOutIntent over the intents that the *)
(* endpoints hold for one route, with one goroutine (notifyRunner) per     *)
(* endpoint intent, and the intentWrappers handed out by Publish.          *)
(*                                                                         *)
(* Two mutexes matter: FanOutIntent.mu, read-locked by Send for as long as *)
(* the endpoints take to send, and IntentRouter.mu, held by removeWrapper  *)
(* while it waits for all runners.                                         *)
(***************************************************************************)
EXTENDS Naturals, Sequences, SequencesExt

CONSTANTS
    Target,       \* endpoint intents (external to this file)
    Wrapper,      \* intentWrappers that may be handed out
    Sender,       \* goroutines that call Send on a wrapper
    Nil,
    Size          \* buffer size of every event channel

ASSUME SizeAssumption == Size \in Nat \ {0}
ASSUME NilAssumption == Nil \notin Wrapper

VARIABLES
    liDone,                     \* context of the FanOutIntent
    onNotify,                   \* foi.onNotify has been set
    liBuf, liClosed,            \* its own event channel
    member, cancelled, runner,  \* per target: in intents, its runner
    removing,                   \* RemoveIntent waits, holding FanOutIntent.mu
    linked, tBuf, tClosed, tChClosed,     \* per target: the endpoint intent
    mu, wrappers,               \* IntentRouter.mu and .wrappers
    given, wClosed, hook, buf, chClosed, notified,  \* per wrapper
    inMap,                      \* Publish can still find this router
    sPc, pending,               \* per sender: Send in progress
    fault                       \* "none", "notifyClosed" or "nilRouter"

fanVars  == <<liDone, onNotify, liBuf, liClosed>>
runVars  == <<member, cancelled, runner, removing>>
tgtVars  == <<linked, tBuf, tClosed, tChClosed>>
wrapVars == <<given, wClosed, hook, buf, chClosed, notified>>
sendVars == <<sPc, pending>>
vars == <<fanVars, runVars, tgtVars, mu, wrappers, wrapVars, inMap, sendVars, fault>>

Up == fault = "none"
WrapperDone(w) == given[w] /\ (wClosed[w] \/ liDone)
RunnerDone(t) == cancelled[t] \/ liDone
RunnersGone == \A t \in Target : runner[t] \in {"none", "exited"}

Init ==
    /\ liDone = FALSE /\ onNotify = FALSE /\ liBuf = 0 /\ liClosed = FALSE
    /\ member = [t \in Target |-> FALSE]
    /\ cancelled = [t \in Target |-> FALSE]
    /\ runner = [t \in Target |-> "none"]
    /\ removing = FALSE
    /\ linked = [t \in Target |-> FALSE] /\ tBuf = [t \in Target |-> 0]
    /\ tClosed = [t \in Target |-> FALSE] /\ tChClosed = [t \in Target |-> FALSE]
    /\ mu = Nil /\ wrappers = <<>>
    /\ given = [w \in Wrapper |-> FALSE]
    /\ wClosed = [w \in Wrapper |-> FALSE]
    /\ hook = [w \in Wrapper |-> "armed"]
    /\ buf = [w \in Wrapper |-> 0]
    /\ chClosed = [w \in Wrapper |-> FALSE]
    /\ notified = [w \in Wrapper |-> FALSE]
    /\ inMap = TRUE
    /\ sPc = [p \in Sender |-> "idle"] /\ pending = [p \in Sender |-> {}]
    /\ fault = "none"

-----------------------------------------------------------------------------
(* FanOutIntent.mu is free for writing when no Send holds it for reading   *)
(* and no RemoveIntent is stuck in it.                                     *)
FanFree == ~removing /\ \A p \in Sender : sPc[p] # "sending"

(* AddIntent: a runner is started for the new endpoint intent.             *)
AddIntent(t) ==
    /\ Up /\ runner[t] = "none" /\ FanFree
    /\ member' = [member EXCEPT ![t] = TRUE]
    /\ runner' = [runner EXCEPT ![t] = "select"]
    /\ UNCHANGED <<fanVars, cancelled, removing, tgtVars, mu, wrappers, wrapVars,
                   inMap, sendVars, fault>>

\* Mutant of RemoveIntent: the mutex is not taken.
RemoveIntentUnlocked(t) ==
    /\ Up /\ member[t]
    /\ member' = [member EXCEPT ![t] = FALSE]
    /\ cancelled' = [cancelled EXCEPT ![t] = TRUE]
    /\ UNCHANGED <<fanVars, runner, removing, tgtVars, mu, wrappers, wrapVars, inMap,
                   sendVars, fault>>

(* RemoveIntent: cancels the runner; without intents left the FanOutIntent *)
(* closes itself and waits for its runners, holding its mutex.             *)
RemoveIntent(t) ==
    /\ Up /\ member[t] /\ FanFree
    /\ member' = [member EXCEPT ![t] = FALSE]
    /\ cancelled' = [cancelled EXCEPT ![t] = TRUE]
    /\ LET last == \A u \in Target : ~member'[u]
       IN liDone' = (liDone \/ last) /\ removing' = last
    /\ UNCHANGED <<onNotify, liBuf, liClosed, runner, tgtVars, mu, wrappers, wrapVars,
                   inMap, sendVars, fault>>

RemoveIntentDone ==
    /\ Up /\ removing /\ RunnersGone
    /\ removing' = FALSE
    /\ UNCHANGED <<fanVars, member, cancelled, runner, tgtVars, mu, wrappers, wrapVars,
                   inMap, sendVars, fault>>

(* NewIntentRouter sets onNotify after NewFanOutIntent started the runners.*)
SetOnNotify ==
    /\ Up /\ ~onNotify
    /\ onNotify' = TRUE
    /\ UNCHANGED <<liDone, liBuf, liClosed, runVars, tgtVars, mu, wrappers, wrapVars,
                   inMap, sendVars, fault>>

\* Hook of NewIntent: close(li.notifyC).
LiHook ==
    /\ Up /\ liDone /\ ~liClosed
    /\ liClosed' = TRUE
    /\ UNCHANGED <<liDone, onNotify, liBuf, runVars, tgtVars, mu, wrappers, wrapVars,
                   inMap, sendVars, fault>>

(* notifyRunner: the select.  A closed event channel is always ready.      *)
RunnerExit(t) ==
    /\ Up /\ runner[t] = "select" /\ RunnerDone(t)
    /\ runner' = [runner EXCEPT ![t] = "exited"]
    /\ UNCHANGED <<fanVars, member, cancelled, removing, tgtVars, mu, wrappers,
                   wrapVars, inMap, sendVars, fault>>

RunnerEvent(t) ==
    /\ Up /\ runner[t] = "select" /\ (tBuf[t] > 0 \/ tChClosed[t])
    /\ tBuf' = [tBuf EXCEPT ![t] = IF @ > 0 THEN @ - 1 ELSE 0]
    /\ runner' = [runner EXCEPT ![t] = IF onNotify THEN "notifying" ELSE "fanout"]
    /\ UNCHANGED <<fanVars, member, cancelled, removing, linked, tClosed, tChClosed,
                   mu, wrappers, wrapVars, inMap, sendVars, fault>>

\* FanOutIntent.Notify, of a runner that saw onNotify unset.
NotifyOwn(t) ==
    /\ Up /\ runner[t] = "fanout"
    /\ runner' = [runner EXCEPT ![t] = "select"]
    /\ \/ (liDone \/ liBuf = Size) /\ UNCHANGED <<liBuf, fault>>
       \/ liClosed /\ fault' = "notifyClosed" /\ UNCHANGED liBuf
       \/ ~liClosed /\ liBuf < Size /\ liBuf' = liBuf + 1 /\ UNCHANGED fault
    /\ UNCHANGED <<liDone, onNotify, liClosed, member, cancelled, removing, tgtVars, mu,
                   wrappers, wrapVars, inMap, sendVars>>

\* Mutant of Notify: only the first wrapper is notified.
NotifyFirst(t) ==
    /\ Up /\ runner[t] = "notifying" /\ mu = Nil
    /\ runner' = [runner EXCEPT ![t] = "select"]
    /\ LET to == {wrappers[j] : j \in 1..1 \cap 1..Len(wrappers)} IN
       /\ buf' = [w \in Wrapper |-> IF w \in to THEN Size ELSE buf[w]]
       /\ notified' = [w \in Wrapper |-> notified[w] \/ w \in to]
    /\ UNCHANGED <<fanVars, member, cancelled, removing, tgtVars, mu, wrappers, given,
                   wClosed, hook, chClosed, inMap, sendVars, fault>>

(* IntentRouter.Notify: an event for every wrapper with room.  Once the    *)
(* context is done the round may end after any of them.                    *)
Notify(t) ==
    /\ Up /\ runner[t] = "notifying" /\ mu = Nil
    /\ \E k \in IF liDone THEN 0..Len(wrappers) ELSE {Len(wrappers)} :
        LET to == {wrappers[j] : j \in 1..k} IN
        IF \E w \in to : chClosed[w]
        THEN fault' = "notifyClosed" /\ UNCHANGED <<buf, notified, runner>>
        ELSE /\ buf' = [w \in Wrapper |-> IF w \in to /\ buf[w] < Size
                                          THEN buf[w] + 1 ELSE buf[w]]
             /\ notified' = [w \in Wrapper |-> notified[w] \/ w \in to]
             /\ runner' = [runner EXCEPT ![t] = "select"]
             /\ UNCHANGED fault
    /\ UNCHANGED <<fanVars, member, cancelled, removing, tgtVars, mu, wrappers, given,
                   wClosed, hook, chClosed, inMap, sendVars>>

-----------------------------------------------------------------------------
(* The endpoint intent: an interest is found and it notifies, once; it may *)
(* be closed, and its hooks close its channel and cancel the runner.       *)
TargetLinked(t) ==
    /\ Up /\ ~linked[t] /\ ~tClosed[t] /\ tBuf[t] < Size
    /\ linked' = [linked EXCEPT ![t] = TRUE]
    /\ tBuf' = [tBuf EXCEPT ![t] = @ + 1]
    /\ UNCHANGED <<fanVars, runVars, tClosed, tChClosed, mu, wrappers, wrapVars, inMap,
                   sendVars, fault>>

TargetClose(t) ==
    /\ Up /\ ~tClosed[t]
    /\ tClosed' = [tClosed EXCEPT ![t] = TRUE]
    /\ UNCHANGED <<fanVars, runVars, linked, tBuf, tChClosed, mu, wrappers, wrapVars,
                   inMap, sendVars, fault>>

TargetChanHook(t) ==
    /\ Up /\ tClosed[t] /\ ~tChClosed[t]
    /\ tChClosed' = [tChClosed EXCEPT ![t] = TRUE]
    /\ UNCHANGED <<fanVars, runVars, linked, tBuf, tClosed, mu, wrappers, wrapVars,
                   inMap, sendVars, fault>>

TargetCancelHook(t) ==
    /\ Up /\ tClosed[t] /\ runner[t] # "none" /\ ~cancelled[t]
    /\ cancelled' = [cancelled EXCEPT ![t] = TRUE]
    /\ UNCHANGED <<fanVars, member, runner, removing, tgtVars, mu, wrappers, wrapVars,
                   inMap, sendVars, fault>>

-----------------------------------------------------------------------------
(* Wrap, called by Publish for the router it finds in its map.             *)
Wrap(w) ==
    /\ Up /\ inMap /\ onNotify /\ ~given[w] /\ mu = Nil
    /\ given' = [given EXCEPT ![w] = TRUE]
    /\ wrappers' = Append(wrappers, w)
    /\ UNCHANGED <<fanVars, runVars, tgtVars, mu, wClosed, hook, buf, chClosed, notified,
                   inMap, sendVars, fault>>

WrapperClose(w) ==
    /\ Up /\ given[w] /\ ~wClosed[w]
    /\ wClosed' = [wClosed EXCEPT ![w] = TRUE]
    /\ UNCHANGED <<fanVars, runVars, tgtVars, mu, wrappers, given, hook, buf, chClosed,
                   notified, inMap, sendVars, fault>>

WrapperEvent(w) ==
    /\ Up /\ buf[w] > 0
    /\ buf' = [buf EXCEPT ![w] = @ - 1]
    /\ UNCHANGED <<fanVars, runVars, tgtVars, mu, wrappers, given, wClosed, hook,
                   chClosed, notified, inMap, sendVars, fault>>

(* Hook of addWrapper: removeWrapper, which also clears w.router and, for  *)
(* the last wrapper, closes the FanOutIntent and waits for its runners     *)
(* with the mutex held; then close(w.notifyC).                             *)
RemoveWrapper(w) ==
    /\ Up /\ WrapperDone(w) /\ hook[w] = "armed" /\ mu = Nil
    /\ wrappers' = RemoveFirst(wrappers, w)
    /\ IF wrappers' # <<>>
       THEN /\ hook' = [hook EXCEPT ![w] = "closing"]
            /\ UNCHANGED <<mu, liDone>>
       ELSE /\ hook' = [hook EXCEPT ![w] = "waiting"]
            /\ mu' = w /\ liDone' = TRUE
    /\ UNCHANGED <<onNotify, liBuf, liClosed, runVars, tgtVars, given, wClosed, buf,
                   chClosed, notified, inMap, sendVars, fault>>

RemoveWrapperDone(w) ==
    /\ Up /\ hook[w] = "waiting" /\ RunnersGone
    /\ mu' = Nil
    /\ hook' = [hook EXCEPT ![w] = "closing"]
    /\ UNCHANGED <<fanVars, runVars, tgtVars, wrappers, given, wClosed, buf, chClosed,
                   notified, inMap, sendVars, fault>>

CloseChan(w) ==
    /\ Up /\ hook[w] = "closing"
    /\ chClosed' = [chClosed EXCEPT ![w] = TRUE]
    /\ hook' = [hook EXCEPT ![w] = "done"]
    /\ UNCHANGED <<fanVars, runVars, tgtVars, mu, wrappers, given, wClosed, buf, notified,
                   inMap, sendVars, fault>>

\* Hook added by Publish: the map forgets this router.
ForgetRouter ==
    /\ Up /\ liDone /\ inMap
    /\ inMap' = FALSE
    /\ UNCHANGED <<fanVars, runVars, tgtVars, mu, wrappers, wrapVars, sendVars, fault>>

-----------------------------------------------------------------------------
(* intentWrapper.Send: the router pointer is read without a lock and is    *)
(* nil once removeWrapper has run.  FanOutIntent.Send then checks its      *)
(* context, takes the read lock and sends through every intent at once; it *)
(* keeps the lock until the slowest has returned.                          *)
SendCall(p, w) ==
    /\ Up /\ sPc[p] = "idle" /\ given[w]
    /\ IF hook[w] # "armed"
       THEN fault' = "nilRouter" /\ UNCHANGED sPc
       ELSE /\ ~liDone
            /\ sPc' = [sPc EXCEPT ![p] = "checked"]
            /\ UNCHANGED fault
    /\ UNCHANGED <<fanVars, runVars, tgtVars, mu, wrappers, wrapVars, inMap, pending>>

SendLock(p) ==
    /\ Up /\ sPc[p] = "checked" /\ ~removing
    /\ sPc' = [sPc EXCEPT ![p] = "sending"]
    /\ pending' = [pending EXCEPT ![p] = {t \in Target : member[t]}]
    /\ UNCHANGED <<fanVars, runVars, tgtVars, mu, wrappers, wrapVars, inMap, fault>>

\* An endpoint's Send returns, whatever its result.
TargetSent(p, t) ==
    /\ Up /\ t \in pending[p]
    /\ pending' = [pending EXCEPT ![p] = @ \ {t}]
    /\ UNCHANGED <<fanVars, runVars, tgtVars, mu, wrappers, wrapVars, inMap, sPc, fault>>

SendReturn(p) ==
    /\ Up /\ sPc[p] = "sending" /\ pending[p] = {}
    /\ sPc' = [sPc EXCEPT ![p] = "idle"]
    /\ UNCHANGED <<fanVars, runVars, tgtVars, mu, wrappers, wrapVars, inMap, pending, fault>>

-----------------------------------------------------------------------------
Runner(t) == RunnerExit(t) \/ RunnerEvent(t) \/ NotifyOwn(t) \/ Notify(t)
Hook(w) == RemoveWrapper(w) \/ RemoveWrapperDone(w) \/ CloseChan(w)
Send(p) ==
    \/ \E w \in Wrapper : SendCall(p, w)
    \/ SendLock(p) \/ SendReturn(p)
    \/ \E t \in Target : TargetSent(p, t)

Next ==
    \/ \E t \in Target :
        \/ AddIntent(t) \/ RemoveIntent(t) \/ Runner(t)
        \/ TargetLinked(t) \/ TargetClose(t) \/ TargetChanHook(t) \/ TargetCancelHook(t)
    \/ \E w \in Wrapper : Wrap(w) \/ WrapperClose(w) \/ WrapperEvent(w) \/ Hook(w)
    \/ \E p \in Sender : Send(p)
    \/ RemoveIntentDone \/ SetOnNotify \/ LiHook \/ ForgetRouter

Spec == Init /\ [][Next]_vars

(* Runners and hooks are goroutines; a select with several ready cases     *)
(* picks at random and a mutex lets nobody starve, hence strong fairness   *)
(* where another step can take the turn.  Senders promise nothing.         *)
Fairness ==
    /\ WF_vars(SetOnNotify) /\ WF_vars(LiHook) /\ WF_vars(ForgetRouter)
    /\ WF_vars(RemoveIntentDone)
    /\ \A t \in Target :
        /\ SF_vars(RunnerExit(t)) /\ WF_vars(RunnerEvent(t)) /\ WF_vars(NotifyOwn(t))
        /\ SF_vars(Notify(t))
        /\ WF_vars(TargetChanHook(t)) /\ WF_vars(TargetCancelHook(t))
    /\ \A w \in Wrapper :
        /\ SF_vars(RemoveWrapper(w)) /\ WF_vars(RemoveWrapperDone(w)) /\ WF_vars(CloseChan(w))

FairSpec == Spec /\ Fairness
-----------------------------------------------------------------------------
(* A Send fans out over a stable set: no intent it is still sending        *)
(* through is removed under it (intent.go 201-212, 243-251).               *)
SendSetStable ==
    \A p \in Sender : \A t \in pending[p] : member[t]

(* A publisher who is there when an endpoint finds an interest is told:    *)
(* the event reaches every wrapper, through the runner and the mutex,      *)
(* whoever else leaves meanwhile (intent.go 260-276, 367-382).             *)
PresentIsNotified ==
    \A w \in Wrapper, t \in Target :
        (given[w] /\ ~WrapperDone(w) /\ member[t] /\ ~cancelled[t] /\ tBuf[t] > 0) ~>
            (notified[w] \/ wClosed[w] \/ liDone \/ cancelled[t] \/ fault # "none")
=============================================================================
