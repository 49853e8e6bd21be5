------------------------------- MODULE Caller -------------------------------
(***************************************************************************)
(* The request/reply Caller of x/bus/caller.go: calls and reply streams    *)
(* register a waiter, send a request and wait; one goroutine               *)
(* (handleResponses) receives the replies and hands each to a waiter.      *)
(*                                                                         *)
(* A reply is identified with the call whose request it answers.  The      *)
(* service and the transport are the environment: a request that is on the *)
(* wire may be answered up to MaxReplies times, at any time and in any     *)
(* order relative to other replies.                                        *)
(***************************************************************************)
EXTENDS Naturals, Sequences, SequencesExt

CONSTANTS
    Call,         \* calls made during a behaviour
    Stream,       \* those made with HandleReplies, the others with Call
    Nil,
    MaxReplies,   \* bound on the replies to one request
    Options       \* ways of using the Caller, one of which is followed

ASSUME CallAssumption == Stream \subseteq Call /\ Nil \notin Call
ASSUME BoundAssumption == MaxReplies \in Nat
ASSUME OptionAssumption == Options \subseteq SUBSET {"nonce", "timeout", "close"}

VARIABLES
    opt,               \* the way this behaviour uses the Caller, never changes
    waiters, order,    \* under mu: the pending waiters and their dispatch order
    buf, chClosed,     \* channel of each waiter: its buffer of one, closed?
    pc, got,           \* each call: where it is, replies it has been handed
    sent, replies,     \* environment: request on the wire, replies received
    hSt, hWaiter, hReply,   \* handleResponses
    closed, ended,     \* Close was called; the Caller's context ended
    fault              \* a send on a closed channel, or on the intent of the
                       \* closed producer, crashed the process

mapVars  == <<waiters, order>>
chanVars == <<buf, chClosed>>
envVars  == <<sent, replies>>
hVars    == <<hSt, hWaiter, hReply>>
lifeVars == <<opt, closed, ended>>
vars == <<mapVars, chanVars, pc, got, envVars, hVars, lifeVars, fault>>

UseNonce   == "nonce" \in opt    \* both nonce hooks are installed
MayTimeout == "timeout" \in opt  \* contexts of calls end, a Send fails
MayClose   == "close" \in opt    \* the Caller is closed, its own context ends

Up == ~fault

Init ==
    /\ opt \in Options
    /\ waiters = {} /\ order = <<>>
    /\ buf = [c \in Call |-> Nil] /\ chClosed = [c \in Call |-> FALSE]
    /\ pc = [c \in Call |-> "idle"] /\ got = [c \in Call |-> {}]
    /\ sent = [c \in Call |-> FALSE] /\ replies = [c \in Call |-> 0]
    /\ hSt = "top" /\ hWaiter = Nil /\ hReply = Nil
    /\ closed = FALSE /\ ended = FALSE /\ fault = FALSE

-----------------------------------------------------------------------------
(* The calling side.                                                       *)

(* registerWaiter.  Every registration draws a nonce of its own, so a      *)
(* waiter stands for its nonce.                                            *)
RegisterWaiter(c) ==
    /\ Up /\ pc[c] = "idle"
    /\ pc' = [pc EXCEPT ![c] = "sending"]
    /\ waiters' = waiters \cup {c}
    /\ order' = Append(order, c)
    /\ UNCHANGED <<chanVars, got, envVars, hVars, lifeVars, fault>>

\* Mutant of GiveUp: the nonce stays in the dispatch order.
GiveUpKeepsOrder(c) ==
    /\ waiters' = waiters \ {c}
    /\ chClosed' = [chClosed EXCEPT ![c] = TRUE]
    /\ UNCHANGED <<order, buf>>

(* How every failing path ends: unregisterWaiter under the mutex, then     *)
(* close the channel, once, whether or not the waiter was still there.     *)
GiveUp(c) ==
    /\ waiters' = waiters \ {c}
    /\ order' = IF c \in waiters THEN RemoveFirst(order, c) ELSE order
    /\ chClosed' = [chClosed EXCEPT ![c] = TRUE]
    /\ UNCHANGED buf

(* requestProducer.Send: the request reaches the wire, possibly being      *)
(* answered before Send returns; Send may also return an error, even after *)
(* the request got through to one of several endpoints.                    *)
Transmit(c) ==
    /\ Up /\ pc[c] = "sending" /\ ~sent[c]
    /\ sent' = [sent EXCEPT ![c] = TRUE]
    /\ UNCHANGED <<mapVars, chanVars, pc, got, replies, hVars,
                   lifeVars, fault>>

SendOk(c) ==
    /\ Up /\ pc[c] = "sending" /\ sent[c]
    /\ pc' = [pc EXCEPT ![c] = "waiting"]
    /\ UNCHANGED <<mapVars, chanVars, got, envVars, hVars,
                   lifeVars, fault>>

SendFail(c) ==
    /\ Up /\ pc[c] = "sending" /\ (MayTimeout \/ closed)
    /\ pc' = [pc EXCEPT ![c] = "done"]
    /\ GiveUp(c)
    /\ UNCHANGED <<got, envVars, hVars, lifeVars, fault>>

(* Once the close hook of the producer's intent has run, Send finds no     *)
(* router behind it and panics (SendCrashes of Bus).                       *)
SendCrashes(c) ==
    /\ Up /\ pc[c] = "sending" /\ closed
    /\ fault' = TRUE
    /\ UNCHANGED <<mapVars, chanVars, pc, got, envVars, hVars, lifeVars>>

(* The call's context is done: Call returns its error, the goroutine of    *)
(* HandleReplies leaves its loop.                                          *)
Timeout(c) ==
    /\ Up /\ pc[c] = "waiting" /\ MayTimeout
    /\ pc' = [pc EXCEPT ![c] = "done"]
    /\ GiveUp(c)
    /\ UNCHANGED <<got, envVars, hVars, lifeVars, fault>>

(* A reply is taken from the channel: Call returns it, HandleReplies runs  *)
(* the callback on it.                                                     *)
TakeReply(c) ==
    /\ Up /\ pc[c] = "waiting" /\ buf[c] # Nil
    /\ got' = [got EXCEPT ![c] = @ \cup {buf[c]}]
    /\ buf' = [buf EXCEPT ![c] = Nil]
    /\ pc' = [pc EXCEPT ![c] = IF c \in Stream THEN "handling" ELSE "done"]
    /\ UNCHANGED <<mapVars, chClosed, envVars, hVars, lifeVars, fault>>

(* The channel is closed and empty: Call returns ErrClosed, HandleReplies  *)
(* unregisters and ends.                                                   *)
SeeClosed(c) ==
    /\ Up /\ pc[c] = "waiting" /\ buf[c] = Nil /\ chClosed[c]
    /\ pc' = [pc EXCEPT ![c] = "done"]
    /\ IF c \in Stream THEN GiveUp(c) ELSE UNCHANGED <<mapVars, chanVars>>
    /\ UNCHANGED <<got, envVars, hVars, lifeVars, fault>>

\* The callback of HandleReplies returns nil, or an error that ends the stream.
CallbackOk(c) ==
    /\ Up /\ pc[c] = "handling"
    /\ pc' = [pc EXCEPT ![c] = "waiting"]
    /\ UNCHANGED <<mapVars, chanVars, got, envVars, hVars,
                   lifeVars, fault>>

CallbackErr(c) ==
    /\ Up /\ pc[c] = "handling" /\ MayTimeout
    /\ pc' = [pc EXCEPT ![c] = "done"]
    /\ GiveUp(c)
    /\ UNCHANGED <<got, envVars, hVars, lifeVars, fault>>

-----------------------------------------------------------------------------
(* handleResponses.                                                        *)

\* Index in order of the first pending waiter, 0 if there is none.
FirstPending == SelectInSeq(order, LAMBDA x : x \in waiters)

\* Mutant of NextWaiter: the nonce is never looked up.
NextWaiterNoNonce(c) == IF FirstPending = 0 THEN Nil ELSE order[FirstPending]

(* The waiter that gets the reply to c: by nonce when the hooks are there  *)
(* and that waiter is pending, otherwise the first pending one in order.   *)
NextWaiter(c) ==
    IF UseNonce /\ c \in waiters THEN c
    ELSE IF FirstPending = 0 THEN Nil ELSE order[FirstPending]

(* What taking it leaves of order: takeWaiterForNonce removes its nonce,   *)
(* takeNextWaiter cuts everything up to it.                                *)
OrderAfter(c) ==
    IF UseNonce /\ c \in waiters THEN RemoveFirst(order, c)
    ELSE IF FirstPending = 0 THEN <<>>
    ELSE SubSeq(order, FirstPending + 1, Len(order))

\* Mutant of Take: a call stays registered after its reply.
TakeKeepsCall(w, rest) == order' = Append(rest, w) /\ UNCHANGED waiters

\* A call that is taken is removed, a stream goes to the back.
Take(w, rest) ==
    IF w \in Stream
    THEN order' = Append(rest, w) /\ UNCHANGED waiters
    ELSE order' = rest /\ waiters' = waiters \ {w}

(* A reply to the request of c is received; with nobody pending it is      *)
(* dropped.                                                                *)
Receive(c) ==
    /\ Up /\ hSt = "recv" /\ sent[c] /\ replies[c] < MaxReplies
    /\ replies' = [replies EXCEPT ![c] = @ + 1]
    /\ IF NextWaiter(c) = Nil
       THEN /\ order' = OrderAfter(c) /\ hSt' = "top"
            /\ UNCHANGED <<waiters, hWaiter, hReply>>
       ELSE /\ Take(NextWaiter(c), OrderAfter(c))
            /\ hSt' = "deliver" /\ hWaiter' = NextWaiter(c) /\ hReply' = c
    /\ UNCHANGED <<chanVars, pc, got, sent, lifeVars, fault>>

(* deliver: the reply is put in the waiter's channel.  It waits while the  *)
(* buffer is full and panics when the channel has been closed.             *)
Deliver ==
    /\ Up /\ hSt = "deliver"
    /\ IF chClosed[hWaiter]
       THEN fault' = TRUE /\ UNCHANGED <<buf, hVars>>
       ELSE /\ buf[hWaiter] = Nil
            /\ buf' = [buf EXCEPT ![hWaiter] = hReply]
            /\ hSt' = IF hWaiter \in Stream THEN "top" ELSE "close"
            /\ UNCHANGED <<hWaiter, hReply, fault>>
    /\ UNCHANGED <<mapVars, chClosed, pc, got, envVars, lifeVars>>

\* deliver closes the channel of a call after its only reply.
DeliverClose ==
    /\ Up /\ hSt = "close"
    /\ chClosed' = [chClosed EXCEPT ![hWaiter] = TRUE]
    /\ hSt' = "top"
    /\ UNCHANGED <<mapVars, buf, pc, got, envVars, hWaiter, hReply,
                   lifeVars, fault>>

\* Mutant of CloseWaiters: the waiters are dropped with their channels open.
CloseWaitersForgets == waiters' = {} /\ order' = <<>> /\ UNCHANGED chanVars

(* Every pending waiter is dropped and its channel closed.                 *)
CloseWaiters ==
    /\ waiters' = {} /\ order' = <<>>
    /\ chClosed' = [c \in Call |-> chClosed[c] \/ c \in waiters]
    /\ UNCHANGED buf

(* The next Receive: it fails on a consumer already closed.  failAll.      *)
FailAll ==
    /\ Up
    /\ \/ hSt = "top" /\ closed
       \/ hSt = "recv" /\ (closed \/ ended)
    /\ CloseWaiters
    /\ hSt' = "stopped"
    /\ UNCHANGED <<pc, got, envVars, hWaiter, hReply, lifeVars, fault>>

LoopReceive ==
    /\ Up /\ hSt = "top" /\ ~closed
    /\ hSt' = "recv"
    /\ UNCHANGED <<mapVars, chanVars, pc, got, envVars, hWaiter,
                   hReply, lifeVars, fault>>

-----------------------------------------------------------------------------
(* Close: closes the pending waiters, then the producer and the consumer.  *)
Close ==
    /\ Up /\ MayClose /\ ~closed
    /\ closed' = TRUE
    /\ CloseWaiters
    /\ UNCHANGED <<pc, got, envVars, hVars, opt, ended, fault>>

\* The context given to NewCaller ends.
ContextEnds ==
    /\ Up /\ MayClose /\ ~ended
    /\ ended' = TRUE
    /\ UNCHANGED <<mapVars, chanVars, pc, got, envVars, hVars,
                   opt, closed, fault>>

-----------------------------------------------------------------------------
Handler == Deliver \/ DeliverClose \/ FailAll \/ LoopReceive \/ \E c \in Call : Receive(c)

Next ==
    \/ \E c \in Call :
        \/ RegisterWaiter(c) \/ Transmit(c) \/ SendOk(c) \/ SendFail(c) \/ SendCrashes(c)
        \/ Timeout(c) \/ TakeReply(c) \/ SeeClosed(c)
        \/ CallbackOk(c) \/ CallbackErr(c)
    \/ Handler \/ Close \/ ContextEnds

Spec == Init /\ [][Next]_vars

(* Goroutines run when they can: the reply loop, and each call that has a  *)
(* reply or a closed channel to look at; a Send that got its request out   *)
(* returns, and so do callbacks.  That requests get out and are answered   *)
(* is promised only where a property assumes AllAnswered.                  *)
Fairness ==
    /\ WF_vars(Deliver) /\ WF_vars(DeliverClose) /\ WF_vars(FailAll)
    /\ WF_vars(LoopReceive)
    /\ \A c \in Call : /\ WF_vars(SendOk(c)) /\ WF_vars(TakeReply(c))
                       /\ WF_vars(SeeClosed(c)) /\ WF_vars(CallbackOk(c))
AllAnswered == \A c \in Call : SF_vars(Receive(c))

FairSpec == Spec /\ Fairness
-----------------------------------------------------------------------------
(* The map and the slice agree: whatever registers, gives up, is answered  *)
(* or fails, order lists exactly the pending waiters, each once.  A nonce  *)
(* left behind in order would be skipped for ever by takeNextWaiter's loop *)
(* and one missing would starve its call (caller.go 55-57, 288-359).       *)
OrderMatchesWaiters ==
    /\ ToSet(order) = waiters
    /\ Len(order) = Cardinality(waiters)

(* With both nonce hooks every caller gets replies to its own request only *)
(* ("handles correlation automatically using nonces", caller.go 46-47).    *)
Correlated == UseNonce => \A c \in Call : got[c] \subseteq {c}

(* The same where nobody gives up and no call is answered twice: streams   *)
(* of any length then never leak into a call, nor calls into a stream.     *)
CorrelatedWhenPrompt ==
    ~MayTimeout /\ ~MayClose /\ (\A c \in Call \ Stream : replies[c] <= 1) => Correlated

(* No call and no reply crashes the process.                               *)
NeverCrashes == ~fault

(* Only a timeout, a failed Send or a Close can crash the process:         *)
(* duplicated replies alone never do (caller.go 259-267, 320).             *)
PromptNeverCrashes == ~MayTimeout /\ ~MayClose => NeverCrashes

(* If every request is answered and nobody gives up, every call returns    *)
(* with a reply.                                                           *)
AnsweredReturns ==
    AllAnswered => \A c \in Call \ Stream :
        (UseNonce /\ ~MayTimeout /\ ~MayClose /\ pc[c] = "sending" /\ sent[c]) ~>
            (pc[c] = "done" /\ got[c] # {})

(* Close releases every call that waits at that time, unless a call makes  *)
(* the process panic (caller.go 235-257).                                  *)
CloseReleases ==
    \A c \in Call \ Stream :
        (closed /\ pc[c] = "waiting" /\ hSt # "stopped") ~> (pc[c] = "done" \/ fault)

=============================================================================
