----------------------------- MODULE BusProofs ------------------------------
(* Theorems about the package x/bus: the Caller, for any calls and streams,  *)
(* any number of replies and every way of using it, and the typed wrappers   *)
(* of Bus (B!), for any requests and channel sizes.  The two are separate    *)
(* components: they share only the names of variables.                       *)
EXTENDS Caller, SequenceLemmas

CONSTANTS MaxReq, OtherType, Size
VARIABLES owner, part, ctx, interestC, interestEnd, conv, typedC, typedEnd, taken, mu, received,
          linked, notes, torn, notesEnd

B == INSTANCE Bus

-----------------------------------------------------------------------------
CallSt == {"idle", "sending", "waiting", "handling", "done"}
LoopSt == {"top", "recv", "deliver", "close", "stopped"}

TypeInv ==
    /\ opt \in SUBSET {"nonce", "timeout", "close"}
    /\ waiters \subseteq Call
    /\ order \in Seq(Call)
    /\ buf \in [Call -> Call \cup {Nil}]
    /\ chClosed \in [Call -> BOOLEAN]
    /\ pc \in [Call -> CallSt]
    /\ got \in [Call -> SUBSET Call]
    /\ sent \in [Call -> BOOLEAN]
    /\ replies \in [Call -> Nat]
    /\ hSt \in LoopSt
    /\ hSt \in {"deliver", "close"} => hWaiter \in Call /\ hReply \in Call
    /\ closed \in BOOLEAN /\ ended \in BOOLEAN /\ fault \in BOOLEAN

(* The pending waiters are those in the dispatch order, once each, and the   *)
(* calls that have begun.                                                    *)
OrderInv ==
    /\ ToSet(order) = waiters
    /\ IsInjective(order)
    /\ \A c \in waiters : pc[c] # "idle"

(* How a failing call and the end of a stream change the map.                *)
LEMMA GiveUpKeeps ==
    ASSUME TypeInv, OrderInv, NEW c \in Call, GiveUp(c)
    PROVE  /\ waiters' = waiters \ {c}
           /\ order' \in Seq(Call) /\ ToSet(order') = waiters' /\ IsInjective(order')
           /\ chClosed' = [chClosed EXCEPT ![c] = TRUE] /\ buf' = buf
<1>1. CASE c \in waiters
    BY <1>1, RemoveFirstOf DEF GiveUp, TypeInv, OrderInv
<1>2. CASE c \notin waiters
    BY <1>2 DEF GiveUp, TypeInv, OrderInv
<1> QED
    BY <1>1, <1>2 DEF GiveUp

(* Every waiter in the order is pending, so the first of them is the next.   *)
LEMMA FirstIsPending ==
    ASSUME TypeInv, OrderInv
    PROVE  /\ order = <<>> => FirstPending = 0
           /\ order # <<>> => FirstPending = 1 /\ order[1] \in waiters
<1> DEFINE I == {i \in 1..Len(order) : order[i] \in waiters}
<1>1. order \in Seq(Call) /\ DOMAIN order = 1..Len(order) /\ Len(order) \in Nat
    BY DEF TypeInv
<1>2. I = 1..Len(order)
    BY <1>1 DEF OrderInv, ToSet
<1>3. FirstPending = IF I # {} THEN Min(I) ELSE 0
    BY DEF FirstPending, SelectInSeq
<1>4. CASE order = <<>>
    BY <1>1, <1>2, <1>3, <1>4
<1>5. CASE order # <<>>
  <2>1. 1 \in I
      BY <1>1, <1>2, <1>5
  <2>2. Min(I) = 1
      BY <1>2, <2>1 DEF Min
  <2> QED
      BY <1>3, <1>5, <2>1, <2>2
<1> QED
    BY <1>4, <1>5

(* The waiter that a reply to c goes to, if there is one, is pending; the    *)
(* rest of the order is that of the others.                                  *)
LEMMA NextIsPending ==
    ASSUME TypeInv, OrderInv, NEW c \in Call, NextWaiter(c) # Nil
    PROVE  /\ NextWaiter(c) \in waiters
           /\ UseNonce /\ c \in waiters => NextWaiter(c) = c
           /\ OrderAfter(c) \in Seq(Call)
           /\ ToSet(OrderAfter(c)) = waiters \ {NextWaiter(c)}
           /\ IsInjective(OrderAfter(c))
<1> USE DEF TypeInv, OrderInv
<1>1. CASE UseNonce /\ c \in waiters
    BY <1>1, RemoveFirstOf DEF NextWaiter, OrderAfter
<1>2. CASE ~(UseNonce /\ c \in waiters)
  <2>1. order # <<>>
      BY <1>2, FirstIsPending DEF NextWaiter
  <2>2. NextWaiter(c) = order[1] /\ order[1] \in waiters
      BY <1>2, <2>1, FirstIsPending DEF NextWaiter
  <2>3. OrderAfter(c) = SubSeq(order, 2, Len(order))
    <3>1. FirstPending = 1
        BY <2>1, FirstIsPending
    <3>2. OrderAfter(c) = SubSeq(order, FirstPending + 1, Len(order))
        BY <1>2, <3>1 DEF OrderAfter
    <3> QED
        BY <3>1, <3>2
  <2>4. OrderAfter(c) = Tail(order)
      BY <2>1, <2>3, TailIsSubSeq
  <2> QED
      BY <1>2, <2>1, <2>2, <2>4, TailOf
<1> QED
    BY <1>1, <1>2

(* Taking a waiter, or leaving the one of a stream, keeps order and map in   *)
(* agreement.                                                                *)
LEMMA TakeKeeps ==
    ASSUME NEW W, NEW w \in Call, NEW rest \in Seq(Call), W = waiters, w \in W,
           ToSet(rest) = W \ {w}, IsInjective(rest), Take(w, rest)
    PROVE  /\ order' \in Seq(Call) /\ ToSet(order') = waiters' /\ IsInjective(order')
           /\ waiters' = IF w \in Stream THEN waiters ELSE waiters \ {w}
<1>1. CASE w \in Stream
  <2>1. order' = Append(rest, w) /\ waiters' = W
      BY <1>1 DEF Take
  <2>2. w \notin ToSet(rest)
      OBVIOUS
  <2>3. /\ Append(rest, w) \in Seq(Call) /\ IsInjective(Append(rest, w))
        /\ ToSet(Append(rest, w)) = ToSet(rest) \cup {w}
      BY <2>2, AppendNew
  <2>4. (W \ {w}) \cup {w} = W
      OBVIOUS
  <2> QED
      BY <1>1, <2>1, <2>3, <2>4
<1>2. CASE w \notin Stream
    BY <1>2 DEF Take
<1> QED
    BY <1>1, <1>2

(* All that a reply changes. *)
LEMMA ReceiveKeeps ==
    ASSUME TypeInv, OrderInv, NEW c \in Call, Receive(c)
    PROVE  /\ order' \in Seq(Call) /\ ToSet(order') = waiters' /\ IsInjective(order')
           /\ \/ hSt' = "top" /\ waiters' = waiters
              \/ /\ hSt' = "deliver" /\ hReply' = c
                 /\ hWaiter' \in waiters
                 /\ UseNonce /\ c \in waiters => hWaiter' = c
                 /\ waiters' = IF hWaiter' \in Stream THEN waiters ELSE waiters \ {hWaiter'}
<1>1. CASE NextWaiter(c) = Nil
  <2>1. ~(UseNonce /\ c \in waiters)
      BY <1>1, CallAssumption DEF NextWaiter
  <2>2. order = <<>>
      BY <1>1, <2>1, FirstIsPending, CallAssumption DEF NextWaiter, TypeInv
  <2>3. order' = <<>> /\ hSt' = "top" /\ waiters' = waiters
    <3>1. OrderAfter(c) = <<>>
        BY <2>1, <2>2, FirstIsPending DEF OrderAfter
    <3> QED
        BY <1>1, <3>1 DEF Receive
  <2> QED
      BY <2>2, <2>3, EmptyOrder DEF OrderInv
<1>2. CASE NextWaiter(c) # Nil
  <2>1. /\ Take(NextWaiter(c), OrderAfter(c))
        /\ hSt' = "deliver" /\ hWaiter' = NextWaiter(c) /\ hReply' = c
      BY <1>2 DEF Receive
  <2> QED
      BY <1>2, <2>1, NextIsPending, TakeKeeps DEF TypeInv
<1> QED
    BY <1>1, <1>2

(* Every step of the Caller keeps the map and the order in agreement.        *)
LEMMA OrderStep ==
    ASSUME TypeInv, OrderInv, [Next]_vars
    PROVE  TypeInv' /\ OrderInv'
<1> USE DEF mapVars, chanVars, envVars, hVars, lifeVars
<1>1. ASSUME NEW c \in Call, RegisterWaiter(c)
      PROVE  TypeInv' /\ OrderInv'
  <2>1. c \notin ToSet(order)
      BY <1>1 DEF RegisterWaiter, OrderInv
  <2>2. order' \in Seq(Call) /\ ToSet(order') = waiters' /\ IsInjective(order')
      BY <1>1, <2>1, AppendNew DEF RegisterWaiter, OrderInv, TypeInv
  <2> QED
      BY <1>1, <2>2 DEF RegisterWaiter, OrderInv, TypeInv, CallSt
<1>2. ASSUME NEW c \in Call, Transmit(c) \/ SendOk(c) \/ CallbackOk(c)
      PROVE  TypeInv' /\ OrderInv'
    BY <1>2 DEF Transmit, SendOk, CallbackOk, TypeInv, OrderInv, CallSt
<1>3. ASSUME NEW c \in Call, SendFail(c) \/ Timeout(c) \/ CallbackErr(c)
      PROVE  TypeInv' /\ OrderInv'
  <2>1. GiveUp(c) /\ pc' = [pc EXCEPT ![c] = "done"]
        /\ UNCHANGED <<got, sent, replies, hSt, hWaiter, hReply, opt, closed, ended, fault>>
      BY <1>3 DEF SendFail, Timeout, CallbackErr
  <2> QED
      BY <2>1, GiveUpKeeps DEF TypeInv, OrderInv, CallSt
<1>4. ASSUME NEW c \in Call, TakeReply(c)
      PROVE  TypeInv' /\ OrderInv'
    BY <1>4 DEF TakeReply, TypeInv, OrderInv, CallSt
<1>5. ASSUME NEW c \in Call, SeeClosed(c)
      PROVE  TypeInv' /\ OrderInv'
  <2>1. /\ pc' = [pc EXCEPT ![c] = "done"]
        /\ GiveUp(c) \/ UNCHANGED <<waiters, order, buf, chClosed>>
        /\ UNCHANGED <<got, sent, replies, hSt, hWaiter, hReply, opt, closed, ended, fault>>
      BY <1>5 DEF SeeClosed
  <2>2. CASE GiveUp(c)
      BY <2>1, <2>2, GiveUpKeeps DEF TypeInv, OrderInv, CallSt
  <2>3. CASE UNCHANGED <<waiters, order, buf, chClosed>>
      BY <2>1, <2>3 DEF TypeInv, OrderInv, CallSt
  <2> QED
      BY <2>1, <2>2, <2>3
<1>6. ASSUME NEW c \in Call, Receive(c)
      PROVE  TypeInv' /\ OrderInv'
  <2>1. /\ replies' \in [Call -> Nat]
        /\ UNCHANGED <<buf, chClosed, pc, got, sent, opt, closed, ended, fault>>
      BY <1>6 DEF Receive, TypeInv
  <2> QED
      BY <1>6, <2>1, ReceiveKeeps DEF TypeInv, OrderInv, LoopSt
<1>7. CASE Deliver \/ DeliverClose \/ LoopReceive
    BY <1>7 DEF Deliver, DeliverClose, LoopReceive, TypeInv, OrderInv, LoopSt
<1>8. CASE FailAll \/ Close
    BY <1>8, EmptyOrder DEF FailAll, Close, CloseWaiters, TypeInv, OrderInv, LoopSt
<1>9. CASE ContextEnds
    BY <1>9 DEF ContextEnds, TypeInv, OrderInv
<1>10. CASE UNCHANGED vars
    BY <1>10 DEF vars, TypeInv, OrderInv
<1>11. ASSUME NEW c \in Call, SendCrashes(c)
       PROVE  TypeInv' /\ OrderInv'
    BY <1>11 DEF SendCrashes, TypeInv, OrderInv
<1> QED
    BY <1>1, <1>2, <1>3, <1>4, <1>5, <1>6, <1>7, <1>8, <1>9, <1>10, <1>11 DEF Next, Handler

(* The Caller starts with no waiters. *)
LEMMA InitialState == Init => TypeInv /\ OrderInv
<1>1. ASSUME Init PROVE TypeInv
  <2>1. order \in Seq(Call) /\ opt \in SUBSET {"nonce", "timeout", "close"}
      BY <1>1, EmptyOrder, OptionAssumption DEF Init
  <2>2. buf \in [Call -> Call \cup {Nil}] /\ got \in [Call -> SUBSET Call]
      BY <1>1 DEF Init
  <2>3. pc \in [Call -> CallSt] /\ chClosed \in [Call -> BOOLEAN]
      BY <1>1 DEF Init, CallSt
  <2>4. sent \in [Call -> BOOLEAN] /\ replies \in [Call -> Nat]
      BY <1>1 DEF Init
  <2>5. hSt \in LoopSt /\ hSt = "top" /\ waiters = {}
      BY <1>1 DEF Init, LoopSt
  <2> QED
      BY <1>1, <2>1, <2>2, <2>3, <2>4, <2>5 DEF TypeInv, Init
<1>2. ASSUME Init PROVE OrderInv
  <2>1. waiters = {} /\ order = <<>>
      BY <1>2 DEF Init
  <2> QED
      BY <2>1, EmptyOrder DEF OrderInv
<1> QED
    BY <1>1, <1>2

(* The map and the slice of caller.go agree after any registrations, replies *)
(* and failures: the dispatch order lists the pending waiters, each once.    *)
THEOREM OrderCorrect == Spec => []OrderMatchesWaiters
<1>1. Init => TypeInv /\ OrderInv
    BY InitialState
<1>2. TypeInv /\ OrderInv /\ [Next]_vars => TypeInv' /\ OrderInv'
    BY OrderStep
<1>3. TypeInv /\ OrderInv => OrderMatchesWaiters
    BY DistinctLength DEF TypeInv, OrderInv, OrderMatchesWaiters
<1> QED
    BY <1>1, <1>2, <1>3, PTL DEF Spec

-----------------------------------------------------------------------------
(* Callers that never give up. *)

Prompt == ~MayTimeout /\ ~MayClose

(* Nothing but the delivery of its only reply closes a channel: the waiter   *)
(* of a delivery is open and, if it is a call, no longer pending, so that    *)
(* it is never delivered to again.                                           *)
OpenInv ==
    Prompt =>
        /\ ~closed /\ ~ended /\ ~fault
        /\ \A c \in Call : chClosed[c] => c \notin Stream /\ c \notin waiters /\ pc[c] # "idle"
        /\ hSt \in {"deliver", "close"} =>
              /\ ~chClosed[hWaiter] /\ pc[hWaiter] # "idle"
              /\ hWaiter \in waiters => hWaiter \in Stream
        /\ hSt = "close" => hWaiter \notin Stream

(* Every step keeps the channels of prompt users open.                       *)
LEMMA OpenStep ==
    ASSUME TypeInv, OrderInv, OpenInv, [Next]_vars
    PROVE  OpenInv'
<1> SUFFICES ASSUME Prompt
             PROVE  OpenInv'
  <2>1. opt' = opt
      BY DEF Next, Handler, vars, lifeVars, RegisterWaiter, Transmit, SendOk, SendFail, SendCrashes, Timeout,
             TakeReply, SeeClosed, CallbackOk, CallbackErr, Receive, Deliver, DeliverClose,
             FailAll, LoopReceive, Close, ContextEnds
  <2> QED
      BY <2>1 DEF OpenInv, Prompt, MayTimeout, MayClose
<1> USE DEF mapVars, chanVars, envVars, hVars, lifeVars
<1>1. ASSUME NEW c \in Call, RegisterWaiter(c)
      PROVE  OpenInv'
    BY <1>1 DEF RegisterWaiter, OpenInv, TypeInv
<1>2. ASSUME NEW c \in Call, Transmit(c) \/ SendOk(c) \/ CallbackOk(c)
      PROVE  OpenInv'
    BY <1>2 DEF Transmit, SendOk, CallbackOk, OpenInv, TypeInv
<1>3. ASSUME NEW c \in Call, SendFail(c) \/ SendCrashes(c) \/ Timeout(c) \/ CallbackErr(c)
      PROVE  FALSE
    BY <1>3 DEF SendFail, SendCrashes, Timeout, CallbackErr, OpenInv, Prompt
<1>4. ASSUME NEW c \in Call, TakeReply(c)
      PROVE  OpenInv'
    BY <1>4 DEF TakeReply, OpenInv, TypeInv
<1>5. ASSUME NEW c \in Call, SeeClosed(c)
      PROVE  OpenInv'
  <2>1. /\ c \notin Stream /\ pc' = [pc EXCEPT ![c] = "done"]
        /\ UNCHANGED <<waiters, chClosed, hSt, hWaiter, closed, ended, fault>>
      BY <1>5 DEF SeeClosed, OpenInv
  <2> QED
      BY <2>1 DEF OpenInv, TypeInv
<1>6. ASSUME NEW c \in Call, Receive(c)
      PROVE  OpenInv'
  <2>1. UNCHANGED <<chClosed, pc, closed, ended, fault>>
      BY <1>6 DEF Receive
  <2>2. waiters \subseteq Call /\ \A w \in waiters : pc[w] # "idle"
      BY DEF TypeInv, OrderInv
  <2>3. \/ hSt' = "top" /\ waiters' = waiters
        \/ /\ hSt' = "deliver" /\ hWaiter' \in waiters
           /\ waiters' = IF hWaiter' \in Stream THEN waiters ELSE waiters \ {hWaiter'}
      BY <1>6, ReceiveKeeps
  <2> QED
      BY <2>1, <2>2, <2>3 DEF OpenInv
<1>7. CASE Deliver
    BY <1>7 DEF Deliver, OpenInv
<1>8. CASE DeliverClose
    BY <1>8 DEF DeliverClose, OpenInv, TypeInv
<1>9. CASE LoopReceive
    BY <1>9 DEF LoopReceive, OpenInv
<1>10. ASSUME FailAll \/ Close \/ ContextEnds
       PROVE  FALSE
    BY <1>10 DEF FailAll, Close, ContextEnds, OpenInv, Prompt
<1>11. CASE UNCHANGED vars
    BY <1>11 DEF vars, OpenInv
<1> QED
    BY <1>1, <1>2, <1>3, <1>4, <1>5, <1>6, <1>7, <1>8, <1>9, <1>10, <1>11 DEF Next, Handler

(* Replies alone, however often a request is answered, never make deliver    *)
(* send on a closed channel (caller.go 259-267, 320).                        *)
THEOREM PromptIsSafe == Spec => []PromptNeverCrashes
<1>1. Init => OpenInv
    BY DEF Init, OpenInv
<1>2. TypeInv /\ OrderInv /\ OpenInv /\ [Next]_vars => TypeInv' /\ OrderInv' /\ OpenInv'
    BY OrderStep, OpenStep
<1>3. OpenInv => PromptNeverCrashes
    BY DEF OpenInv, Prompt, PromptNeverCrashes, NeverCrashes
<1> QED
    BY <1>1, <1>2, <1>3, InitialState, PTL DEF Spec

-----------------------------------------------------------------------------
(* Replies by nonce. *)

OneReplyEach == \A c \in Call \ Stream : replies[c] <= 1

(* As long as no call is answered twice, whatever was sent and is still to   *)
(* be answered has its waiter, so that its reply finds it by nonce.          *)
NonceInv ==
    Prompt /\ UseNonce /\ OneReplyEach =>
        /\ \A c \in Call : sent[c] => pc[c] # "idle"
        /\ \A c \in Call : pc[c] # "idle" /\ (c \in Stream \/ replies[c] = 0) => c \in waiters
        /\ hSt \in {"deliver", "close"} => hReply = hWaiter
        /\ \A c \in Call : buf[c] \in {Nil, c} /\ got[c] \subseteq {c}

(* Every step keeps replies and waiters correlated, for prompt users.        *)
LEMMA NonceStep ==
    ASSUME TypeInv, OrderInv, OpenInv, NonceInv, [Next]_vars
    PROVE  NonceInv'
<1>1. opt' = opt /\ (OneReplyEach' => OneReplyEach)
  <2>1. ASSUME NEW c \in Call, Receive(c)
        PROVE  \A d \in Call : replies[d] <= replies'[d] /\ replies'[d] \in Nat /\ replies[d] \in Nat
      BY <2>1 DEF Receive, TypeInv
  <2>2. ASSUME NEW c \in Call, Receive(c)
        PROVE  opt' = opt /\ (OneReplyEach' => OneReplyEach)
    <3>1. opt' = opt
        BY <2>2 DEF Receive, lifeVars
    <3>2. ASSUME OneReplyEach', NEW d \in Call \ Stream
          PROVE  replies[d] <= 1
      <4>1. replies'[d] <= 1
          BY <3>2 DEF OneReplyEach
      <4>2. replies[d] <= replies'[d] /\ replies'[d] \in Nat /\ replies[d] \in Nat
          BY <2>1, <2>2
      <4> QED
          BY <4>1, <4>2
    <3> QED
        BY <3>1, <3>2 DEF OneReplyEach
  <2>3. CASE ~\E c \in Call : Receive(c)
    <3>1. opt' = opt /\ replies' = replies
        BY <2>3 DEF Next, Handler, vars, lifeVars, envVars, RegisterWaiter, Transmit, SendOk,
               SendFail, SendCrashes, Timeout, TakeReply, SeeClosed, CallbackOk, CallbackErr, Deliver,
               DeliverClose, FailAll, LoopReceive, Close, ContextEnds
    <3> QED
        BY <3>1 DEF OneReplyEach
  <2> QED
      BY <2>2, <2>3
<1> SUFFICES ASSUME Prompt, UseNonce, OneReplyEach, OneReplyEach'
             PROVE  NonceInv'
    BY <1>1 DEF NonceInv, Prompt, MayTimeout, MayClose, UseNonce
<1> USE DEF mapVars, chanVars, envVars, hVars, lifeVars
<1>2. ASSUME NEW c \in Call, RegisterWaiter(c)
      PROVE  NonceInv'
    BY <1>2 DEF RegisterWaiter, NonceInv, TypeInv
<1>3. ASSUME NEW c \in Call, Transmit(c) \/ SendOk(c) \/ CallbackOk(c)
      PROVE  NonceInv'
  <2>1. CASE Transmit(c)
      BY <2>1 DEF Transmit, NonceInv, TypeInv
  <2>2. CASE SendOk(c) \/ CallbackOk(c)
    <3>1. /\ pc[c] # "idle" /\ pc' = [pc EXCEPT ![c] = "waiting"]
          /\ UNCHANGED <<waiters, buf, got, sent, replies, hSt, hWaiter, hReply>>
        BY <2>2 DEF SendOk, CallbackOk
    <3>2. pc'[c] = "waiting" /\ \A d \in Call \ {c} : pc'[d] = pc[d]
        BY <3>1 DEF TypeInv
    <3> QED
        BY <3>1, <3>2 DEF NonceInv
  <2> QED
      BY <1>3, <2>1, <2>2
<1>4. ASSUME NEW c \in Call, SendFail(c) \/ SendCrashes(c) \/ Timeout(c) \/ CallbackErr(c)
      PROVE  FALSE
    BY <1>4 DEF SendFail, SendCrashes, Timeout, CallbackErr, OpenInv, Prompt
<1>5. ASSUME NEW c \in Call, TakeReply(c)
      PROVE  NonceInv'
    BY <1>5 DEF TakeReply, NonceInv, TypeInv
<1>6. ASSUME NEW c \in Call, SeeClosed(c)
      PROVE  NonceInv'
  <2>1. /\ pc[c] = "waiting" /\ pc' = [pc EXCEPT ![c] = "done"]
        /\ UNCHANGED <<waiters, buf, got, sent, replies, hSt, hWaiter, hReply>>
      BY <1>6 DEF SeeClosed, OpenInv
  <2> QED
      BY <2>1 DEF NonceInv, TypeInv
<1>7. ASSUME NEW c \in Call, Receive(c)
      PROVE  NonceInv'
  <2>1. /\ UNCHANGED <<buf, pc, got, sent>> /\ sent[c]
        /\ replies' = [replies EXCEPT ![c] = @ + 1] /\ replies[c] \in Nat
      BY <1>7 DEF Receive, TypeInv
  <2>2. c \in Stream \/ replies[c] = 0
    <3>1. c \notin Stream => replies'[c] <= 1
        BY DEF OneReplyEach
    <3> QED
        BY <2>1, <3>1 DEF TypeInv
  <2>3. c \in waiters
      BY <2>1, <2>2 DEF NonceInv
  <2>4. NextWaiter(c) = c
      BY <2>3 DEF NextWaiter
  <2>5. /\ hReply' = c /\ hWaiter' = c
        /\ waiters' = IF c \in Stream THEN waiters ELSE waiters \ {c}
      BY <1>7, <2>4, CallAssumption DEF Receive, Take
  <2>6. \A d \in Call : d # c => replies'[d] = replies[d]
      BY <2>1 DEF TypeInv
  <2>7. replies'[c] # 0
      BY <2>1 DEF TypeInv
  <2> QED
      BY <2>1, <2>5, <2>6, <2>7 DEF NonceInv
<1>8. CASE Deliver
    BY <1>8 DEF Deliver, NonceInv, OpenInv, TypeInv
<1>9. CASE DeliverClose \/ LoopReceive
    BY <1>9 DEF DeliverClose, LoopReceive, NonceInv
<1>10. ASSUME FailAll \/ Close \/ ContextEnds
       PROVE  FALSE
    BY <1>10 DEF FailAll, Close, ContextEnds, OpenInv, Prompt
<1>11. CASE UNCHANGED vars
    BY <1>11 DEF vars, NonceInv
<1> QED
    BY <1>2, <1>3, <1>4, <1>5, <1>6, <1>7, <1>8, <1>9, <1>10, <1>11 DEF Next, Handler

(* With both nonce hooks, when nobody gives up and no call is answered       *)
(* twice, calls and streams of any length only get replies to their own      *)
(* requests (caller.go 46-47, 288-359).                                      *)
THEOREM PromptCorrelation == Spec => []CorrelatedWhenPrompt
<1>1. Init => OpenInv /\ NonceInv
    BY DEF Init, OpenInv, NonceInv
<1>2. TypeInv /\ OrderInv /\ OpenInv /\ NonceInv /\ [Next]_vars
        => TypeInv' /\ OrderInv' /\ OpenInv' /\ NonceInv'
    BY OrderStep, OpenStep, NonceStep
<1>3. NonceInv => CorrelatedWhenPrompt
    BY DEF NonceInv, Prompt, OneReplyEach, CorrelatedWhenPrompt, Correlated
<1> QED
    BY <1>1, <1>2, <1>3, InitialState, PTL DEF Spec

-----------------------------------------------------------------------------
(* Requests on their way through a Consumer. *)

(* What Receive has returned or will return next, and how many requests the  *)
(* converting goroutine has read.                                            *)
handled == taken \o typedC
converted == sent - Len(interestC)

(* The interest's channel holds the requests that arrived last, in order.    *)
ArrivalInv ==
    /\ sent \in 0..MaxReq
    /\ interestC \in Seq(Nat) /\ Len(interestC) <= sent
    /\ \A i \in 1..Len(interestC) : interestC[i] = converted + i

(* Of those that were read, the requests of the consumer's type, in order;   *)
(* the one in the hand of the goroutine is the last of them.                 *)
HandledInv ==
    /\ taken \in Seq(Nat) /\ typedC \in Seq(Nat)
    /\ \A i \in 1..Len(handled) : handled[i] \in (1..converted) \ OtherType
    /\ \A i, j \in 1..Len(handled) : i < j => handled[i] < handled[j]
    /\ conv # Nil => /\ conv \in (1..converted) \ OtherType
                     /\ \A i \in 1..Len(handled) : handled[i] < conv
    /\ \A r \in (1..converted) \ OtherType :
          r = conv \/ \E i \in 1..Len(handled) : handled[i] = r

(* The interest's channel is closed only by the owner; the goroutine leaves  *)
(* nothing behind unless the context has ended.                              *)
EndInv ==
    /\ part \in [B!Part -> {"none", "made", "open", "closed"}]
    /\ interestEnd => part["in"] = "closed"
    /\ ctx /\ typedEnd => conv = Nil /\ interestC = <<>> /\ interestEnd

BusInv == ArrivalInv /\ HandledInv /\ EndInv

(* The Bus starts with nothing received. *)
LEMMA BusInit ==
    ASSUME MaxReq \in Nat, B!Init
    PROVE  BusInv
<1>1. sent = 0 /\ interestC = <<>> /\ taken = <<>> /\ typedC = <<>> /\ conv = Nil
      /\ interestEnd = FALSE /\ typedEnd = FALSE /\ part = [x \in B!Part |-> "none"]
    BY DEF B!Init
<1>3. ArrivalInv
    BY <1>1 DEF ArrivalInv, converted
<1>4. HandledInv
    BY <1>1 DEF HandledInv, converted, handled
<1>5. EndInv
    BY <1>1 DEF EndInv
<1> QED
    BY <1>3, <1>4, <1>5 DEF BusInv

(* Only Arrive and Convert touch the interest's channel, one at each end.    *)
LEMMA ArrivalStep ==
    ASSUME MaxReq \in Nat, BusInv, [B!Next]_(B!vars)
    PROVE  ArrivalInv'
<1> USE DEF B!consumer, B!producer, ArrivalInv, converted
<1>1. CASE B!Arrive
  <2>1. sent' = sent + 1 /\ interestC' = Append(interestC, sent + 1) /\ sent < MaxReq
      BY <1>1 DEF B!Arrive
  <2>2. /\ Len(interestC') = Len(interestC) + 1 /\ interestC' \in Seq(Nat)
        /\ interestC'[Len(interestC) + 1] = sent + 1
        /\ \A i \in 1..Len(interestC) : interestC'[i] = interestC[i]
      BY <2>1, AppendIndex DEF BusInv
  <2> QED
      BY <2>1, <2>2 DEF BusInv
<1>2. CASE B!Convert
  <2>1. sent' = sent /\ interestC' = Tail(interestC) /\ interestC # <<>>
      BY <1>2 DEF B!Convert
  <2> QED
      BY <2>1, TailIndex DEF BusInv
<1>3. CASE UNCHANGED <<sent, interestC>>
    BY <1>3 DEF BusInv
<1>4. ASSUME ~B!Arrive, ~B!Convert
      PROVE  UNCHANGED <<sent, interestC>>
    BY <1>4 DEF B!Next, B!vars, B!NewService, B!ContextEnds, B!MakePart, B!ListPart,
        B!CloseService, B!CloseModule, B!ClosePart, B!InterestEnds, B!ConverterStep,
        B!PutTyped, B!ConverterEnds, B!LoopStep, B!Receive, B!TakeRequest, B!TakeEnd,
        B!ProcStep, B!EnsureInterest, B!WaitForInterest, B!Notified, B!WaitCancelled,
        B!SendCrashes, B!SendStarts, B!SendTaken, B!SendCancelled, B!InterestComes,
        B!InterestLeaves, B!IntentTorn, B!IntentEnds
<1> QED
    BY <1>1, <1>2, <1>3, <1>4

(* A request goes from the interest's channel into the hand of the goroutine, *)
(* from there into the typed channel and from there to Receive.               *)
LEMMA HandledStep ==
    ASSUME MaxReq \in Nat, Nil \notin 0..MaxReq, BusInv, [B!Next]_(B!vars)
    PROVE  HandledInv'
<1> USE DEF B!consumer, B!producer
<1>0. /\ converted \in 0..MaxReq /\ sent \in Nat /\ Len(interestC) \in Nat
      /\ handled \in Seq(Nat) /\ Len(handled) \in Nat
    BY ConcatAppend DEF BusInv, ArrivalInv, HandledInv, converted, handled
<1>1. CASE B!Arrive
  <2>1. sent' = sent + 1 /\ interestC' = Append(interestC, sent + 1)
        /\ UNCHANGED <<taken, typedC, conv>>
      BY <1>1 DEF B!Arrive
  <2>2. converted' = converted /\ handled' = handled
      BY <1>0, <2>1, AppendIndex DEF BusInv, ArrivalInv, converted, handled
  <2> QED
      BY <2>1, <2>2 DEF BusInv, HandledInv
<1>2. CASE B!Convert
  <2>1. /\ interestC # <<>> /\ interestC' = Tail(interestC) /\ conv = Nil
        /\ conv' = IF Head(interestC) \in OtherType THEN Nil ELSE Head(interestC)
        /\ UNCHANGED <<sent, taken, typedC>>
      BY <1>2 DEF B!Convert
  <2>2. Head(interestC) = converted + 1 /\ converted' = converted + 1 /\ handled' = handled
      BY <1>0, <2>1, TailIndex DEF BusInv, ArrivalInv, converted, handled
  <2>3. converted + 1 \in 1..MaxReq
      BY <1>0, <2>1, TailIndex DEF BusInv, ArrivalInv, converted
  <2>4. Nil \notin 1..MaxReq /\ 1..converted \subseteq 1..converted' /\ converted < converted'
      BY <1>0, <2>2, <2>3
  <2>5. \A i \in 1..Len(handled) : handled[i] \in (1..converted) \ OtherType
      BY DEF BusInv, HandledInv
  <2>6. conv' # Nil => conv' = converted + 1 /\ conv' \notin OtherType
      BY <2>1, <2>2
  <2>7. conv' # Nil => /\ conv' \in (1..converted') \ OtherType
                       /\ \A i \in 1..Len(handled) : handled[i] < conv'
      BY <1>0, <2>2, <2>5, <2>6
  <2>8. ASSUME NEW r \in (1..converted') \ OtherType
        PROVE  r = conv' \/ \E i \in 1..Len(handled) : handled[i] = r
    <3>1. CASE r = converted + 1
        BY <2>1, <2>2, <2>8, <3>1
    <3>2. CASE r # converted + 1
      <4>1. r \in (1..converted) \ OtherType /\ r # conv
          BY <1>0, <2>1, <2>2, <2>4, <2>8, <3>2
      <4> QED
          BY <4>1 DEF BusInv, HandledInv
    <3> QED
        BY <3>1, <3>2
  <2>9. UNCHANGED <<taken, typedC>>
      BY <2>1
  <2> QED
      BY <2>2, <2>4, <2>5, <2>7, <2>8, <2>9 DEF BusInv, HandledInv
<1>3. CASE B!PutTyped
  <2>1. /\ conv # Nil /\ typedC' = Append(typedC, conv) /\ conv' = Nil
        /\ UNCHANGED <<sent, interestC, taken>>
      BY <1>3 DEF B!PutTyped
  <2>2. conv \in (1..converted) \ OtherType /\ conv \in Nat
      BY <1>0, <2>1 DEF BusInv, HandledInv
  <2>3. typedC' \in Seq(Nat) /\ handled' = Append(handled, conv) /\ converted' = converted
    <3>1. taken \in Seq(Nat) /\ typedC \in Seq(Nat)
        BY DEF BusInv, HandledInv
    <3>2. /\ taken \o Append(typedC, conv) = Append(taken \o typedC, conv)
          /\ Append(typedC, conv) \in Seq(Nat)
        BY <2>2, <3>1, ConcatAppend
    <3> QED
        BY <2>1, <3>2 DEF handled, converted
  <2>4. /\ Len(handled') = Len(handled) + 1 /\ handled'[Len(handled) + 1] = conv
        /\ \A i \in 1..Len(handled) : handled'[i] = handled[i]
      BY <1>0, <2>2, <2>3, AppendIndex
  <2>5. \A i \in 1..Len(handled') : i = Len(handled) + 1 \/ i \in 1..Len(handled)
      BY <1>0, <2>4
  <2>6. \A i \in 1..Len(handled') : handled'[i] \in (1..converted) \ OtherType
      BY <2>2, <2>4, <2>5 DEF BusInv, HandledInv
  <2>7. ASSUME NEW i \in 1..Len(handled'), NEW j \in 1..Len(handled'), i < j
        PROVE  handled'[i] < handled'[j]
    <3>1. i \in 1..Len(handled) /\ handled'[i] = handled[i]
        BY <1>0, <2>4, <2>7
    <3>2. CASE j \in 1..Len(handled)
        BY <2>4, <2>7, <3>1, <3>2 DEF BusInv, HandledInv
    <3>3. CASE j = Len(handled) + 1
        BY <2>1, <2>4, <3>1, <3>3 DEF BusInv, HandledInv
    <3> QED
        BY <2>5, <3>2, <3>3
  <2>8. ASSUME NEW r \in (1..converted) \ OtherType
        PROVE  \E i \in 1..Len(handled') : handled'[i] = r
    <3>1. r = conv \/ \E i \in 1..Len(handled) : handled[i] = r
        BY <2>8 DEF BusInv, HandledInv
    <3>2. 1..Len(handled) \subseteq 1..Len(handled') /\ Len(handled) + 1 \in 1..Len(handled')
        BY <1>0, <2>4
    <3> QED
        BY <2>4, <3>1, <3>2
  <2> QED
      BY <2>1, <2>3, <2>6, <2>7, <2>8 DEF BusInv, HandledInv
<1>4. CASE B!TakeRequest
  <2>1. /\ typedC # <<>> /\ taken' = Append(taken, Head(typedC)) /\ typedC' = Tail(typedC)
        /\ UNCHANGED <<sent, interestC, conv>>
      BY <1>4 DEF B!TakeRequest
  <2>2. taken' \in Seq(Nat) /\ typedC' \in Seq(Nat) /\ handled' = handled
      BY <2>1, MoveHead DEF BusInv, HandledInv, handled
  <2> QED
      BY <2>1, <2>2 DEF BusInv, HandledInv, converted
<1>5. CASE UNCHANGED <<sent, interestC, conv, typedC, taken>>
    BY <1>5 DEF BusInv, HandledInv, handled, converted
<1>6. ASSUME ~B!Arrive, ~B!Convert, ~B!PutTyped, ~B!TakeRequest
      PROVE  UNCHANGED <<sent, interestC, conv, typedC, taken>>
    BY <1>6 DEF B!Next, B!vars, B!NewService, B!ContextEnds, B!MakePart, B!ListPart,
        B!CloseService, B!CloseModule, B!ClosePart, B!InterestEnds, B!ConverterStep,
        B!ConverterEnds, B!LoopStep, B!Receive, B!TakeEnd,
        B!ProcStep, B!EnsureInterest, B!WaitForInterest, B!Notified, B!WaitCancelled,
        B!SendCrashes, B!SendStarts, B!SendTaken, B!SendCancelled, B!InterestComes,
        B!InterestLeaves, B!IntentTorn, B!IntentEnds
<1> QED
    BY <1>1, <1>2, <1>3, <1>4, <1>5, <1>6

(* While the context lasts, the goroutine ends only after the last request.  *)
LEMMA EndStep ==
    ASSUME BusInv, [B!Next]_(B!vars)
    PROVE  EndInv'
<1> USE DEF B!consumer, B!producer, EndInv, B!Part
<1>1. CASE B!Arrive
    BY <1>1 DEF B!Arrive, BusInv
<1>2. CASE B!Convert \/ B!PutTyped
    BY <1>2 DEF B!Convert, B!PutTyped, BusInv
<1>3. CASE B!ConverterEnds
    BY <1>3 DEF B!ConverterEnds, BusInv
<1>4. CASE B!InterestEnds
    BY <1>4 DEF B!InterestEnds, BusInv
<1>5. CASE B!NewService
    BY <1>5 DEF B!NewService, BusInv
<1>6. ASSUME NEW x \in B!Part, B!MakePart(x) \/ B!ListPart(x) \/ B!CloseService(x) \/ B!CloseModule(x)
      PROVE  EndInv'
    BY <1>6 DEF B!MakePart, B!ListPart, B!CloseService, B!CloseModule, B!ClosePart, BusInv
<1>7. CASE B!ContextEnds
    BY <1>7 DEF B!ContextEnds, BusInv
<1>8. CASE UNCHANGED <<part, ctx, interestC, interestEnd, conv, typedEnd>>
    BY <1>8 DEF BusInv
<1>9. ASSUME B!LoopStep
      PROVE  UNCHANGED <<part, ctx, interestC, interestEnd, conv, typedEnd>>
    BY <1>9 DEF B!LoopStep, B!Receive, B!TakeRequest, B!TakeEnd
<1>10. ASSUME NEW p \in B!Proc, B!ProcStep(p) \/ B!SendTaken(p)
       PROVE  UNCHANGED <<part, ctx, interestC, interestEnd, conv, typedEnd>>
    BY <1>10 DEF B!ProcStep, B!EnsureInterest, B!WaitForInterest, B!Notified, B!WaitCancelled,
        B!SendCrashes, B!SendStarts, B!SendTaken, B!SendCancelled
<1>11. ASSUME B!InterestComes \/ B!InterestLeaves \/ B!IntentTorn \/ B!IntentEnds
              \/ UNCHANGED B!vars
       PROVE  UNCHANGED <<part, ctx, interestC, interestEnd, conv, typedEnd>>
    BY <1>11 DEF B!InterestComes, B!InterestLeaves, B!IntentTorn, B!IntentEnds, B!vars
<1> QED
    BY <1>1, <1>2, <1>3, <1>4, <1>5, <1>6, <1>7, <1>8, <1>9, <1>10, <1>11 DEF B!Next, B!ConverterStep

(* What has been converted is in the hand or handed over; what has not is in *)
(* the interest's channel, which nobody empties but the goroutine.           *)
LEMMA BusInvNoLoss ==
    ASSUME MaxReq \in Nat, Nil \notin 0..MaxReq, BusInv
    PROVE  B!NoRequestLost
<1>0. /\ handled \in Seq(Nat) /\ DOMAIN handled = 1..Len(handled) /\ Len(handled) \in Nat
      /\ converted \in 0..sent /\ sent \in Nat
      /\ DOMAIN interestC = 1..Len(interestC) /\ Len(interestC) \in Nat
    BY ConcatAppend DEF BusInv, HandledInv, ArrivalInv, handled, converted
<1>1. B!ToSet(handled) = {handled[i] : i \in 1..Len(handled)}
    BY <1>0 DEF B!ToSet
<1>2. \A i, j \in DOMAIN handled : i < j => handled[i] < handled[j]
    BY <1>0 DEF BusInv, HandledInv
<1>3. B!ToSet(handled) \subseteq (1..sent) \ OtherType
    BY <1>0, <1>1 DEF BusInv, HandledInv
<1>4. ASSUME NEW r \in B!ToSet(handled), NEW q \in (1..r) \ OtherType
      PROVE  q \in B!ToSet(handled)
  <2>1. r \in 1..converted
      BY <1>1, <1>4 DEF BusInv, HandledInv
  <2>2. q \in (1..converted) \ OtherType
      BY <1>0, <1>4, <2>1
  <2>3. q # conv
    <3>1. PICK i \in 1..Len(handled) : handled[i] = r
        BY <1>1, <1>4
    <3>2. conv # Nil => r < conv
        BY <3>1 DEF BusInv, HandledInv
    <3>3. CASE conv = Nil
        BY <3>3, <2>2, <1>0 DEF BusInv, ArrivalInv
    <3> QED
        BY <3>2, <3>3, <2>1, <1>4, <1>0 DEF BusInv, HandledInv
  <2> QED
      BY <1>1, <2>2, <2>3 DEF BusInv, HandledInv
<1>5. ASSUME ctx, NEW r \in (1..sent) \ OtherType
      PROVE  r \in B!ToSet(handled)
               \cup IF typedEnd THEN {} ELSE (B!ToSet(interestC) \cup {conv}) \ {Nil}
  <2>1. r # Nil
      BY <1>0, <1>5 DEF BusInv, ArrivalInv
  <2>2. CASE r \in 1..converted
    <3>1. r = conv \/ r \in B!ToSet(handled)
        BY <1>1, <1>5, <2>2 DEF BusInv, HandledInv
    <3> QED
        BY <1>5, <2>1, <3>1 DEF BusInv, EndInv
  <2>3. CASE r \notin 1..converted
    <3>1. r - converted \in 1..Len(interestC) /\ interestC[r - converted] = r
        BY <1>0, <1>5, <2>3 DEF BusInv, ArrivalInv, converted
    <3>2. r \in B!ToSet(interestC)
        BY <1>0, <3>1 DEF B!ToSet
    <3>3. ~typedEnd
        BY <1>0, <1>5, <3>1 DEF BusInv, EndInv
    <3> QED
        BY <2>1, <3>2, <3>3
  <2> QED
      BY <2>2, <2>3
<1> QED
    BY <1>2, <1>3, <1>4, <1>5 DEF B!NoRequestLost, handled

(* For any number of requests, types and channel sizes and any order of      *)
(* closing, requests of the consumer's type reach the handler in the order   *)
(* they arrived in, none is skipped, and until the context ends none is lost *)
(* (consumer.go, the goroutine of NewConsumer, and Receive).                 *)
THEOREM RequestsKept ==
    ASSUME MaxReq \in Nat, Nil \notin 0..MaxReq
    PROVE  B!Spec => []B!NoRequestLost
<1>1. B!Init => BusInv
    BY BusInit
<1>2. BusInv /\ [B!Next]_(B!vars) => BusInv'
    BY ArrivalStep, HandledStep, EndStep DEF BusInv
<1>3. BusInv => B!NoRequestLost
    BY BusInvNoLoss
<1> QED
    BY <1>1, <1>2, <1>3, PTL DEF B!Spec
=============================================================================
