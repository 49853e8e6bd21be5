-------------------------------- MODULE Bus ---------------------------------
(***************************************************************************)
(* The typed wrappers of x/bus around an interest and an intent: a         *)
(* Consumer with its converting goroutine, a Producer that waits for       *)
(* interest under its mutex, and the two owners that put them together, a  *)
(* Service that answers requests and a processing Module.                  *)
(*                                                                         *)
(* A process is the loop that receives (Loop) or the goroutine of a        *)
(* request, which sends one reply; both may also stand for user code that  *)
(* calls Receive, Reply or Send itself.  The interest and the intent are    *)
(* the wrappers that a Router hands out: their close hooks are modelled    *)
(* here, the routers above them (InterestRouter, IntentRouter) and the     *)
(* other ends of the routes are the environment.  The routers themselves   *)
(* stay open.                                                              *)
(***************************************************************************)
EXTENDS Naturals, Sequences, SequencesExt, FiniteSets

CONSTANTS
    MaxReq,     \* requests that arrive: 1, 2, ...
    OtherType,  \* those of them that are not of the consumer's type
    Size,       \* capacity of the interest's channel and of the typed one
    Nil

ASSUME SizeAssumption == Size \in Nat \ {0} /\ MaxReq \in Nat
ASSUME TypeAssumption == OtherType \subseteq 1..MaxReq
ASSUME NilAssumption == Nil \notin 0..MaxReq

Req  == 1..MaxReq
Loop == 0
Proc == Req \cup {Loop}
Part == {"in", "out"}   \* the Consumer and the Producer

VARIABLES
    owner,     \* "service" or "module"
    part,      \* per part: "none", "made" (not yet listed), "open", "closed"
    ctx,       \* FALSE once the context given to everybody has ended
    sent,      \* requests that have arrived
    interestC, interestEnd,   \* the interest's channel, and whether it is closed
    conv,      \* the request in the hand of the converting goroutine, or Nil
    typedC, typedEnd,   \* the typed channel, closed when that goroutine ends
    closed,    \* Consumer.closed
    taken,     \* requests that Receive has returned
    pc,
    mu,        \* holder of the producer's mutex: a process that waits for interest
    received,  \* interestReceived
    linked,    \* the intent has a receiver
    notes,     \* notifications in the channel of Interest()
    torn,      \* the hook of the closed intent has set its router to nil
    notesEnd,  \* ... and has closed that channel
    fault      \* "none", or what crashed the process

consumer == <<interestC, interestEnd, conv, typedC, typedEnd, closed, taken, sent>>
producer == <<mu, received, linked, notes, torn, notesEnd, fault>>
vars == <<owner, part, ctx, consumer, pc, producer>>

Init ==
    /\ owner \in {"service", "module"}
    /\ part = [x \in Part |-> "none"]
    /\ ctx = TRUE
    /\ sent = 0 /\ interestC = <<>> /\ interestEnd = FALSE
    /\ conv = Nil /\ typedC = <<>> /\ typedEnd = FALSE /\ closed = FALSE /\ taken = <<>>
    /\ pc = [p \in Proc |-> "none"]
    /\ mu = Nil /\ received = FALSE
    /\ linked = FALSE /\ notes = 0 /\ torn = FALSE /\ notesEnd = FALSE
    /\ fault = "none"

Up == fault = "none"

-----------------------------------------------------------------------------
(* Owners. *)

\* Handle waits for interest first; who receives and replies by hand does not.
Begin == pc' \in {[pc EXCEPT ![Loop] = w] : w \in {"lock", "receive"}}

\* NewService: the consumer is closed again when the intent is refused.
NewService ==
    /\ owner = "service" /\ part["in"] = "none"
    /\ \/ part' = [x \in Part |-> "open"] /\ Begin /\ UNCHANGED closed
       \/ part' = [part EXCEPT !["in"] = "closed"] /\ closed' = TRUE /\ UNCHANGED pc
    /\ UNCHANGED <<owner, ctx, interestC, interestEnd, conv, typedC, typedEnd, taken, sent, producer>>

\* AddInput and AddOutput make a part first and list it under the mutex of
\* the module later.
MakePart(x) ==
    /\ owner = "module" /\ part[x] = "none"
    /\ part' = [part EXCEPT ![x] = "made"]
    /\ UNCHANGED <<owner, ctx, consumer, pc, producer>>

ListPart(x) ==
    /\ part[x] = "made"
    /\ part' = [part EXCEPT ![x] = "open"]
    /\ IF x = "in" THEN Begin ELSE UNCHANGED pc
    /\ UNCHANGED <<owner, ctx, consumer, producer>>

\* Consumer.Close sets the flag and closes the interest, Producer.Close the intent.
ClosePart(x) ==
    /\ part[x] = "open"
    /\ part' = [part EXCEPT ![x] = "closed"]
    /\ closed' = (closed \/ x = "in")
    /\ UNCHANGED <<owner, ctx, interestC, interestEnd, conv, typedC, typedEnd, taken, sent, pc, producer>>

\* Service.Close: the consumer, then the producer.
CloseService(x) ==
    /\ owner = "service" /\ (x = "out" => part["in"] = "closed")
    /\ ClosePart(x)

\* Module.Close: the inputs, then the outputs, of those that are listed.
CloseModule(x) ==
    /\ owner = "module" /\ (x = "out" => part["in"] # "open")
    /\ ClosePart(x)

ContextEnds ==
    /\ ctx /\ ctx' = FALSE
    /\ UNCHANGED <<owner, part, consumer, pc, producer>>

-----------------------------------------------------------------------------
(* Consumer. *)

\* The interest is handed a request, in order, until its hook takes it off
\* the router; what finds its channel full is dropped there and never arrives.
Arrive ==
    /\ part["in"] # "none" /\ ~interestEnd /\ sent < MaxReq /\ Len(interestC) < Size
    /\ sent' = sent + 1
    /\ interestC' = Append(interestC, sent + 1)
    /\ UNCHANGED <<owner, part, ctx, interestEnd, conv, typedC, typedEnd, closed, taken, pc, producer>>

\* The hook of the closed interest takes it off its router, which the last
\* one of a route may wait in for ever (CloseClosesChannel of InterestRouter),
\* and closes its channel.
InterestEnds ==
    /\ part["in"] = "closed" /\ ~interestEnd
    /\ interestEnd' = TRUE
    /\ UNCHANGED <<owner, part, ctx, interestC, conv, typedC, typedEnd, closed, taken, sent, pc, producer>>

\* What is of another type is skipped.
Convert ==
    /\ ~typedEnd /\ conv = Nil /\ interestC # <<>>
    /\ conv' = IF Head(interestC) \in OtherType THEN Nil ELSE Head(interestC)
    /\ interestC' = Tail(interestC)
    /\ UNCHANGED <<owner, part, ctx, interestEnd, typedC, typedEnd, closed, taken, sent, pc, producer>>

\* Mutant of PutTyped: a full channel is not waited for.
PutTypedDrops ==
    /\ ~typedEnd /\ conv # Nil
    /\ typedC' = IF Len(typedC) < Size THEN Append(typedC, conv) ELSE typedC
    /\ conv' = Nil
    /\ UNCHANGED <<owner, part, ctx, interestC, interestEnd, typedEnd, closed, taken, sent, pc, producer>>

PutTyped ==
    /\ ~typedEnd /\ conv # Nil /\ Len(typedC) < Size
    /\ typedC' = Append(typedC, conv)
    /\ conv' = Nil
    /\ UNCHANGED <<owner, part, ctx, interestC, interestEnd, typedEnd, closed, taken, sent, pc, producer>>

\* At the end of the context, in either select, or of the interest's channel.
ConverterEnds ==
    /\ part["in"] # "none" /\ ~typedEnd
    /\ ~ctx \/ (conv = Nil /\ interestC = <<>> /\ interestEnd)
    /\ typedEnd' = TRUE
    /\ UNCHANGED <<owner, part, ctx, interestC, interestEnd, conv, typedC, closed, taken, sent, pc, producer>>

\* Receive looks at closed ...
Receive ==
    /\ pc[Loop] = "receive"
    /\ pc' = [pc EXCEPT ![Loop] = IF closed THEN "end" ELSE "take"]
    /\ UNCHANGED <<owner, part, ctx, consumer, producer>>

\* ... and waits for a request, whose goroutine Handle starts, ...
TakeRequest ==
    /\ pc[Loop] = "take" /\ typedC # <<>>
    /\ taken' = Append(taken, Head(typedC))
    /\ typedC' = Tail(typedC)
    /\ pc' = [pc EXCEPT ![Loop] = "receive", ![Head(typedC)] = "check"]
    /\ UNCHANGED <<owner, part, ctx, interestC, interestEnd, conv, typedEnd, closed, sent, producer>>

\* ... for the end of the typed channel (io.EOF) or of the context.
TakeEnd ==
    /\ pc[Loop] = "take"
    /\ \/ typedC = <<>> /\ typedEnd /\ closed' = TRUE
       \/ ~ctx /\ UNCHANGED closed
    /\ pc' = [pc EXCEPT ![Loop] = "end"]
    /\ UNCHANGED <<owner, part, ctx, interestC, interestEnd, conv, typedC, typedEnd, taken, sent, producer>>

-----------------------------------------------------------------------------
(* Producer. *)

Go(p, w) == pc' = [pc EXCEPT ![p] = w]
Granted(p) == IF p = Loop THEN "receive" ELSE "send"

\* ensureInterest reads the flag under the mutex ...
EnsureInterest(p) ==
    /\ part["out"] \in {"open", "closed"}
    /\ pc[p] = "check" /\ mu = Nil
    /\ Go(p, IF received THEN "send" ELSE "lock")
    /\ UNCHANGED <<owner, part, ctx, consumer, producer>>

\* Mutant of WaitForInterest: the flag is not read again under the mutex.
WaitForInterestBlind(p) ==
    /\ part["out"] \in {"open", "closed"}
    /\ pc[p] = "lock" /\ mu = Nil
    /\ Go(p, "wait")
    /\ mu' = p
    /\ UNCHANGED <<owner, part, ctx, consumer, received, linked, notes, torn, notesEnd, fault>>

\* ... and WaitForInterest reads it again; then it waits with the mutex held
\* for a notification, which the end of the intent's channel counts as, ...
WaitForInterest(p) ==
    /\ part["out"] \in {"open", "closed"}
    /\ pc[p] = "lock" /\ mu = Nil
    /\ Go(p, IF received THEN Granted(p) ELSE "wait")
    /\ mu' = IF received THEN Nil ELSE p
    /\ UNCHANGED <<owner, part, ctx, consumer, received, linked, notes, torn, notesEnd, fault>>

\* Mutant of Notified: the end of the channel is not taken for a notification.
NotifiedOpen(p) ==
    /\ pc[p] = "wait" /\ notes > 0
    /\ notes' = notes - 1
    /\ received' = TRUE
    /\ mu' = Nil
    /\ Go(p, Granted(p))
    /\ UNCHANGED <<owner, part, ctx, consumer, linked, torn, notesEnd, fault>>

Notified(p) ==
    /\ pc[p] = "wait"
    /\ \/ notes > 0 /\ notes' = notes - 1
       \/ notes = 0 /\ notesEnd /\ UNCHANGED notes
    /\ received' = TRUE
    /\ mu' = Nil
    /\ Go(p, Granted(p))
    /\ UNCHANGED <<owner, part, ctx, consumer, linked, torn, notesEnd, fault>>

\* ... or for the end of the context.
WaitCancelled(p) ==
    /\ pc[p] = "wait" /\ ~ctx
    /\ mu' = Nil
    /\ Go(p, "end")
    /\ UNCHANGED <<owner, part, ctx, consumer, received, linked, notes, torn, notesEnd, fault>>

\* The intent's Send reads the router, which may be nil by then.
SendCrashes(p) ==
    /\ pc[p] = "send" /\ torn
    /\ fault' = "nilRouter"
    /\ UNCHANGED <<owner, part, ctx, consumer, pc, mu, received, linked, notes, torn, notesEnd>>

\* It fails without a receiver, or when the close has got to the router, ...
SendStarts(p) ==
    /\ pc[p] = "send" /\ ~torn
    /\ \/ linked /\ Go(p, "sending")
       \/ (~linked \/ part["out"] = "closed") /\ Go(p, "end")
    /\ UNCHANGED <<owner, part, ctx, consumer, producer>>

\* ... else it lasts until a receiver takes the message, when it likes, ...
SendTaken(p) ==
    /\ pc[p] = "sending" /\ linked
    /\ Go(p, "end")
    /\ UNCHANGED <<owner, part, ctx, consumer, producer>>

\* ... or the context ends; Close does not end it.
SendCancelled(p) ==
    /\ pc[p] = "sending" /\ ~ctx
    /\ Go(p, "end")
    /\ UNCHANGED <<owner, part, ctx, consumer, producer>>

\* A receiver on the other end comes.  The notification may find the channel
\* full, or have been sent before this intent was made.
InterestComes ==
    /\ part["out"] # "none"
    /\ linked' = TRUE
    /\ \/ notes' = notes /\ ~linked
       \/ notes' = notes + 1 /\ notes < Size /\ ~torn
    /\ UNCHANGED <<owner, part, ctx, consumer, pc, mu, received, torn, notesEnd, fault>>

\* It leaves: a Send that waits for it can meet the close of its channel.
InterestLeaves ==
    /\ linked /\ linked' = FALSE
    /\ \/ UNCHANGED fault
       \/ (\E p \in Proc : pc[p] = "sending") /\ fault' = "closedChannel"
    /\ UNCHANGED <<owner, part, ctx, consumer, pc, mu, received, notes, torn, notesEnd>>

\* The hook of the closed intent: removeWrapper takes it off its router, and
\* may wait there for ever as the one of an interest may, ...
IntentTorn ==
    /\ part["out"] = "closed" /\ ~torn
    /\ torn' = TRUE
    /\ UNCHANGED <<owner, part, ctx, consumer, pc, mu, received, linked, notes, notesEnd, fault>>

\* ... then the channel is closed.
IntentEnds ==
    /\ torn /\ ~notesEnd
    /\ notesEnd' = TRUE
    /\ UNCHANGED <<owner, part, ctx, consumer, pc, mu, received, linked, notes, torn, fault>>

-----------------------------------------------------------------------------

ProcStep(p) ==
    \/ EnsureInterest(p) \/ WaitForInterest(p) \/ Notified(p) \/ WaitCancelled(p)
    \/ SendCrashes(p) \/ SendStarts(p) \/ SendCancelled(p)

LoopStep == Receive \/ TakeRequest \/ TakeEnd
ConverterStep == Convert \/ PutTyped \/ ConverterEnds

Next ==
    /\ Up
    /\ \/ NewService \/ ContextEnds
       \/ \E x \in Part : MakePart(x) \/ ListPart(x) \/ CloseService(x) \/ CloseModule(x)
       \/ Arrive \/ InterestEnds \/ ConverterStep \/ LoopStep
       \/ \E p \in Proc : ProcStep(p) \/ SendTaken(p)
       \/ InterestComes \/ InterestLeaves \/ IntentTorn \/ IntentEnds

Spec == Init /\ [][Next]_vars

\* Goroutines that can run do.  Nobody has to close, to come or to send, and
\* the hooks of closed objects may be stuck in their routers.
FairSpec ==
    /\ Spec
    /\ WF_vars(Up /\ ConverterStep) /\ WF_vars(Up /\ LoopStep)
    /\ \A p \in Proc : WF_vars(Up /\ ProcStep(p))
    /\ \A x \in Part : WF_vars(Up /\ ListPart(x))

-----------------------------------------------------------------------------

\* No request of the consumer's type is overtaken between the interest and
\* the handler, and none is lost before the context ends, whoever closes
\* meanwhile (the converting goroutine of NewConsumer and Receive).
NoRequestLost ==
    LET handled == taken \o typedC
        due(r)  == (1..r) \ OtherType
        onTheWay == IF typedEnd THEN {} ELSE (ToSet(interestC) \cup {conv}) \ {Nil}
    IN /\ \A i, j \in DOMAIN handled : i < j => handled[i] < handled[j]
       /\ ToSet(handled) \subseteq due(sent)
       /\ \A r \in ToSet(handled) : due(r) \subseteq ToSet(handled)
       /\ ctx => due(sent) \subseteq ToSet(handled) \cup onTheWay

\* One notification serves everybody: once interest was seen, who waits for
\* the producer's mutex gets through without another one (WaitForInterest).
OneNotificationServesAll ==
    \A p \in Proc : (received /\ pc[p] \in {"check", "lock"}) ~>
                        (pc[p] \notin {"check", "lock", "wait"} \/ ~Up)

\* Once the hooks of both closed parts are through, nobody receives or waits
\* for interest any more, although neither Receive nor the mutex looks at the
\* close: what is left is a Send that a receiver has not taken, unless a Send
\* on the closed intent crashed the process (Service.Close, Module.Close).
CloseReleases ==
    (interestEnd /\ notesEnd) ~> (~Up \/ \A p \in Proc : pc[p] \in {"none", "end", "sending"})

=============================================================================
