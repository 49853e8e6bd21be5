--------------------------- MODULE InterestRouter ---------------------------
(***************************************************************************)
(* One InterestRouter of interest.go: a FanInInterest with one receiving   *)
(* goroutine (recvRunner) per endpoint interest, and the interestWrappers  *)
(* handed out by Subscribe, which all get every message.                   *)
(*                                                                         *)
(* The router's mutex is `mu`.  Sections of code that take it, cannot      *)
(* block inside and release it are single actions; only removeWrapper,     *)
(* which may wait for all runners while it holds the mutex, takes several. *)
(***************************************************************************)
EXTENDS Naturals, Sequences, SequencesExt

CONSTANTS
    Source,       \* endpoint interests (external to this file)
    Wrapper,      \* interestWrappers that may be handed out
    Nil,
    Size,         \* buffer size of every channel
    Resident      \* wrappers their users never close

ASSUME SizeAssumption == Size \in Nat \ {0}
ASSUME SetAssumption == Resident \subseteq Wrapper /\ Nil \notin Wrapper

VARIABLES
    ctxEnded,   \* the context the router was created with
    liDone,     \* the FanInInterest's context
    onRecv,     \* fii.onRecv has been set to routeMsg
    liBuf, liClosed,                \* channel of the FanInInterest itself
    member, cancelled, runner, msg, \* per source: in interests, its runner
    srcClosed, srcBuf, srcChClosed, \* per source: the endpoint interest
    mu, wrappers,                   \* InterestRouter.mu and .wrappers
    given, wClosed, hook, buf, chClosed, \* per wrapper
    inMap,      \* the router or container can still find this InterestRouter
    fault       \* a send on a closed channel crashed the process

fanVars  == <<ctxEnded, liDone, onRecv, liBuf, liClosed>>
runVars  == <<member, cancelled, runner, msg>>
srcVars  == <<srcClosed, srcBuf, srcChClosed>>
wrapVars == <<given, wClosed, hook, buf, chClosed>>
vars == <<fanVars, runVars, srcVars, mu, wrappers, wrapVars, inMap, fault>>

Up == ~fault
Message == {"msg", "nil"}

\* The context of a wrapper is a child of the FanInInterest's.
WrapperDone(w) == given[w] /\ (wClosed[w] \/ liDone)
\* The context of a runner: cancelled by itself or with its parent.
RunnerDone(s) == cancelled[s] \/ liDone

Init ==
    /\ ctxEnded = FALSE /\ liDone = FALSE /\ onRecv = FALSE /\ liBuf = 0 /\ liClosed = FALSE
    /\ member = [s \in Source |-> FALSE]
    /\ cancelled = [s \in Source |-> FALSE]
    /\ runner = [s \in Source |-> "none"]
    /\ msg = [s \in Source |-> "msg"]
    /\ srcClosed = [s \in Source |-> FALSE]
    /\ srcBuf = [s \in Source |-> 0]
    /\ srcChClosed = [s \in Source |-> FALSE]
    /\ mu = Nil /\ wrappers = <<>>
    /\ given = [w \in Wrapper |-> FALSE]
    /\ wClosed = [w \in Wrapper |-> FALSE]
    /\ hook = [w \in Wrapper |-> "armed"]
    /\ buf = [w \in Wrapper |-> <<>>]
    /\ chClosed = [w \in Wrapper |-> FALSE]
    /\ inMap = TRUE /\ fault = FALSE

-----------------------------------------------------------------------------
(* FanInInterest.                                                          *)

(* AddInterest, by the constructor or for an endpoint that joins later: a  *)
(* new interest gets a runner, a known one is left alone.                  *)
AddInterest(s) ==
    /\ Up /\ runner[s] = "none"
    /\ member' = [member EXCEPT ![s] = TRUE]
    /\ runner' = [runner EXCEPT ![s] = "select"]
    /\ UNCHANGED <<fanVars, cancelled, msg, srcVars, mu, wrappers, wrapVars, inMap, fault>>

Drop(s) ==
    /\ member' = [member EXCEPT ![s] = FALSE]
    /\ cancelled' = [cancelled EXCEPT ![s] = cancelled[s] \/ member[s]]

RemoveInterest(s) ==
    /\ Up /\ member[s]
    /\ Drop(s)
    /\ UNCHANGED <<fanVars, runner, msg, srcVars, mu, wrappers, wrapVars, inMap, fault>>

(* NewInterestRouter sets onRecv only after NewFanInInterest has started   *)
(* the runners of the initial interests.                                   *)
SetOnRecv ==
    /\ Up /\ ~onRecv
    /\ onRecv' = TRUE
    /\ UNCHANGED <<ctxEnded, liDone, liBuf, liClosed, runVars, srcVars, mu, wrappers, wrapVars,
                   inMap, fault>>

\* The context above ends, or the hook of NewInterest closes li.msgC.
ContextEnds ==
    /\ Up /\ ~ctxEnded
    /\ ctxEnded' = TRUE /\ liDone' = TRUE
    /\ UNCHANGED <<onRecv, liBuf, liClosed, runVars, srcVars, mu, wrappers, wrapVars,
                   inMap, fault>>

LiHook ==
    /\ Up /\ liDone /\ ~liClosed
    /\ liClosed' = TRUE
    /\ UNCHANGED <<ctxEnded, liDone, onRecv, liBuf, runVars, srcVars, mu, wrappers, wrapVars,
                   inMap, fault>>

(* recvRunner: the outer select.  A closed channel is always ready and     *)
(* yields nil, which is passed on like any message.                        *)
RunnerExit(s) ==
    /\ Up /\ runner[s] = "select" /\ RunnerDone(s)
    /\ runner' = [runner EXCEPT ![s] = "exited"]
    /\ UNCHANGED <<fanVars, member, cancelled, msg, srcVars, mu, wrappers, wrapVars,
                   inMap, fault>>

RunnerRecv(s) ==
    /\ Up /\ runner[s] = "select" /\ (srcBuf[s] > 0 \/ srcChClosed[s])
    /\ msg' = [msg EXCEPT ![s] = IF srcBuf[s] > 0 THEN "msg" ELSE "nil"]
    /\ srcBuf' = [srcBuf EXCEPT ![s] = IF srcBuf[s] > 0 THEN @ - 1 ELSE 0]
    /\ runner' = [runner EXCEPT ![s] = IF onRecv THEN "routing" ELSE "fanin"]
    /\ UNCHANGED <<fanVars, member, cancelled, srcClosed, srcChClosed, mu, wrappers,
                   wrapVars, inMap, fault>>

\* The inner select, of a runner that saw onRecv unset.
RunnerFanIn(s) ==
    /\ Up /\ runner[s] = "fanin"
    /\ \/ /\ RunnerDone(s)
          /\ runner' = [runner EXCEPT ![s] = "exited"]
          /\ UNCHANGED <<liBuf, fault>>
       \/ /\ liClosed
          /\ fault' = TRUE
          /\ UNCHANGED <<runner, liBuf>>
       \/ /\ ~liClosed /\ liBuf < Size
          /\ liBuf' = liBuf + 1
          /\ runner' = [runner EXCEPT ![s] = "select"]
          /\ UNCHANGED fault
    /\ UNCHANGED <<ctxEnded, liDone, onRecv, liClosed, member, cancelled, msg, srcVars, mu,
                   wrappers, wrapVars, inMap>>

(* routeMsg offers the message to the wrappers in turn.  With a context    *)
(* done the select may end the round after any of them.                    *)
Offered(s) == IF RunnerDone(s) THEN 0..Len(wrappers) ELSE {Len(wrappers)}

RouteMsg(s) ==
    /\ Up /\ runner[s] = "routing" /\ mu = Nil
    /\ \E k \in Offered(s) :
        LET offer == {wrappers[j] : j \in 1..k} IN
        IF \E w \in offer : chClosed[w]
        THEN fault' = TRUE /\ UNCHANGED <<buf, runner>>
        ELSE /\ buf' = [w \in Wrapper |->
                          IF w \in offer /\ Len(buf[w]) < Size
                          THEN Append(buf[w], msg[s]) ELSE buf[w]]
             /\ runner' = [runner EXCEPT ![s] = IF k < Len(wrappers)
                                                THEN "leaving" ELSE "select"]
             /\ UNCHANGED fault
    /\ UNCHANGED <<fanVars, member, cancelled, msg, srcVars, mu, wrappers, given,
                   wClosed, hook, chClosed, inMap>>

\* routeMsg failed: the runner removes its interest and ends.
RunnerLeave(s) ==
    /\ Up /\ runner[s] = "leaving"
    /\ Drop(s)
    /\ runner' = [runner EXCEPT ![s] = "exited"]
    /\ UNCHANGED <<fanVars, msg, srcVars, mu, wrappers, wrapVars, inMap, fault>>

-----------------------------------------------------------------------------
(* The endpoint interest: gets messages, may be closed; its two hooks then *)
(* close its channel and cancel the runner, in either order.               *)
Produce(s) ==
    /\ Up /\ ~srcChClosed[s] /\ srcBuf[s] < Size
    /\ srcBuf' = [srcBuf EXCEPT ![s] = @ + 1]
    /\ UNCHANGED <<fanVars, runVars, srcClosed, srcChClosed, mu, wrappers, wrapVars,
                   inMap, fault>>

SourceClose(s) ==
    /\ Up /\ ~srcClosed[s]
    /\ srcClosed' = [srcClosed EXCEPT ![s] = TRUE]
    /\ UNCHANGED <<fanVars, runVars, srcBuf, srcChClosed, mu, wrappers, wrapVars,
                   inMap, fault>>

SourceChanHook(s) ==
    /\ Up /\ srcClosed[s] /\ ~srcChClosed[s]
    /\ srcChClosed' = [srcChClosed EXCEPT ![s] = TRUE]
    /\ UNCHANGED <<fanVars, runVars, srcClosed, srcBuf, mu, wrappers, wrapVars,
                   inMap, fault>>

SourceCancelHook(s) ==
    /\ Up /\ srcClosed[s] /\ runner[s] # "none" /\ ~cancelled[s]
    /\ cancelled' = [cancelled EXCEPT ![s] = TRUE]
    /\ UNCHANGED <<fanVars, member, runner, msg, srcVars, mu, wrappers, wrapVars,
                   inMap, fault>>

-----------------------------------------------------------------------------
(* Wrap, called by Subscribe for the router it finds in its map.           *)
Wrap(w) ==
    /\ Up /\ inMap /\ onRecv /\ ~given[w] /\ mu = Nil
    /\ given' = [given EXCEPT ![w] = TRUE]
    /\ wrappers' = Append(wrappers, w)
    /\ UNCHANGED <<fanVars, runVars, srcVars, mu, wClosed, hook, buf, chClosed, inMap, fault>>

\* The user takes a message from the wrapper; closes the wrapper.
WrapperRecv(w) ==
    /\ Up /\ buf[w] # <<>>
    /\ buf' = [buf EXCEPT ![w] = Tail(@)]
    /\ UNCHANGED <<fanVars, runVars, srcVars, mu, wrappers, given, wClosed, hook,
                   chClosed, inMap, fault>>

WrapperClose(w) ==
    /\ Up /\ given[w] /\ ~wClosed[w] /\ w \notin Resident
    /\ wClosed' = [wClosed EXCEPT ![w] = TRUE]
    /\ UNCHANGED <<fanVars, runVars, srcVars, mu, wrappers, given, hook, buf, chClosed,
                   inMap, fault>>

\* Mutant of RemoveWrapper: the wrapper stays in the list.
RemoveWrapperKeeps(w) ==
    /\ Up /\ WrapperDone(w) /\ hook[w] = "armed" /\ mu = Nil
    /\ hook' = [hook EXCEPT ![w] = "closing"]
    /\ UNCHANGED <<fanVars, runVars, srcVars, mu, wrappers, given, wClosed, buf,
                   chClosed, inMap, fault>>

\* Mutant of RemoveWrapper: any wrapper that leaves closes the router.
RemoveWrapperClosesAll(w) ==
    /\ Up /\ WrapperDone(w) /\ hook[w] = "armed" /\ mu = Nil
    /\ wrappers' = RemoveFirst(wrappers, w)
    /\ mu' = w /\ liDone' = TRUE
    /\ hook' = [hook EXCEPT ![w] = "waiting"]
    /\ UNCHANGED <<ctxEnded, onRecv, liBuf, liClosed, runVars, srcVars, given, wClosed, buf,
                   chClosed, inMap, fault>>

(* Hook of addWrapper: removeWrapper, then close(w.c).  The last wrapper   *)
(* closes the FanInInterest: it cancels the context and then, still        *)
(* holding the mutex, waits for every runner to end.                       *)
RemoveWrapper(w) ==
    /\ Up /\ WrapperDone(w) /\ hook[w] = "armed" /\ mu = Nil
    /\ wrappers' = RemoveFirst(wrappers, w)
    /\ IF wrappers' # <<>>
       THEN /\ hook' = [hook EXCEPT ![w] = "closing"]
            /\ UNCHANGED <<mu, liDone>>
       ELSE /\ hook' = [hook EXCEPT ![w] = "waiting"]
            /\ mu' = w /\ liDone' = TRUE
    /\ UNCHANGED <<ctxEnded, onRecv, liBuf, liClosed, runVars, srcVars, given, wClosed, buf,
                   chClosed, inMap, fault>>

RunnersGone(w) ==
    /\ Up /\ hook[w] = "waiting"
    /\ \A s \in Source : runner[s] \in {"none", "exited"}
    /\ mu' = Nil
    /\ hook' = [hook EXCEPT ![w] = "closing"]
    /\ UNCHANGED <<fanVars, runVars, srcVars, wrappers, given, wClosed, buf, chClosed,
                   inMap, fault>>

CloseChan(w) ==
    /\ Up /\ hook[w] = "closing"
    /\ chClosed' = [chClosed EXCEPT ![w] = TRUE]
    /\ hook' = [hook EXCEPT ![w] = "done"]
    /\ UNCHANGED <<fanVars, runVars, srcVars, mu, wrappers, given, wClosed, buf, inMap, fault>>

\* Hook added by Subscribe: the map forgets this router.
ForgetRouter ==
    /\ Up /\ liDone /\ inMap
    /\ inMap' = FALSE
    /\ UNCHANGED <<fanVars, runVars, srcVars, mu, wrappers, wrapVars, fault>>

-----------------------------------------------------------------------------
Runner(s) == RunnerExit(s) \/ RunnerRecv(s) \/ RunnerFanIn(s) \/ RouteMsg(s) \/ RunnerLeave(s)
Hook(w) == RemoveWrapper(w) \/ RunnersGone(w) \/ CloseChan(w)

Next ==
    \/ \E s \in Source :
        \/ AddInterest(s) \/ RemoveInterest(s) \/ Runner(s)
        \/ Produce(s) \/ SourceClose(s) \/ SourceChanHook(s) \/ SourceCancelHook(s)
    \/ \E w \in Wrapper : Wrap(w) \/ WrapperRecv(w) \/ WrapperClose(w) \/ Hook(w)
    \/ SetOnRecv \/ ContextEnds \/ LiHook \/ ForgetRouter

Spec == Init /\ [][Next]_vars

(* Runners and hooks are goroutines.  A select with several ready cases    *)
(* picks at random, so a runner whose context is done cannot keep missing  *)
(* it: strong fairness on its exit.  The mutex lets nobody starve.         *)
Fairness ==
    /\ WF_vars(SetOnRecv) /\ WF_vars(LiHook) /\ WF_vars(ForgetRouter)
    /\ \A s \in Source :
        /\ SF_vars(RunnerExit(s)) /\ WF_vars(RunnerRecv(s)) /\ SF_vars(RunnerFanIn(s))
        /\ SF_vars(RouteMsg(s)) /\ WF_vars(RunnerLeave(s))
        /\ WF_vars(SourceChanHook(s)) /\ WF_vars(SourceCancelHook(s))
    /\ \A w \in Wrapper :
        SF_vars(RemoveWrapper(w)) /\ WF_vars(RunnersGone(w)) /\ WF_vars(CloseChan(w))

FairSpec == Spec /\ Fairness
-----------------------------------------------------------------------------
(* Routing never meets a closed wrapper channel, however subscribers come  *)
(* and go while messages are routed: removeWrapper takes the wrapper off   *)
(* the list under the mutex before its channel is closed (interest.go      *)
(* 255-258, 281-292).  The runner of an early message is not covered.      *)
ListedIsOpen == \A j \in 1..Len(wrappers) : ~chClosed[wrappers[j]]

(* One subscriber leaving never shuts the router down for another: as long *)
(* as the context above lives, a wrapper that was handed out by a live     *)
(* router and is not closed stays on the list and keeps the router open    *)
(* (interest.go 272-276).                                                  *)
OpenWrapperServed ==
    [][\A w \in Wrapper :
        given[w] /\ ~WrapperDone(w) /\ ~ctxEnded' /\ ~wClosed'[w] =>
            ~liDone' /\ \E j \in 1..Len(wrappers') : wrappers'[j] = w]_vars

(* A closed wrapper's channel gets closed, so that its reader ends         *)
(* ("The channel will be closed when the consumer is closed",              *)
(* x/bus/consumer.go 100).                                                 *)
CloseClosesChannel ==
    \A w \in Wrapper : wClosed[w] ~> (chClosed[w] \/ fault)

(* The same where another subscriber stays: whoever leaves first gets his  *)
(* channel closed even while messages keep coming.                         *)
LeavingClosesChannel ==
    \A w \in Wrapper : \A v \in Resident :
        (wClosed[w] /\ given[v] /\ ~liDone) ~> (chClosed[w] \/ ctxEnded \/ fault)

=============================================================================
