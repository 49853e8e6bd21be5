---------------------------- MODULE RouterProofs ----------------------------
(* Theorems about the two routers, InterestRouter and IntentRouter (Out!),   *)
(* for any endpoint interests and intents, wrappers and buffer sizes.  The   *)
(* two are separate components: they share only the names of what their code *)
(* has in common.                                                            *)
EXTENDS InterestRouter, SequenceLemmas

CONSTANTS Target, Sender
VARIABLES onNotify, removing, linked, tBuf, tClosed, tChClosed, notified, sPc, pending

Out == INSTANCE IntentRouter

(* The list holds the wrappers that were handed out and whose hook has not   *)
(* run, each once; a hook runs only for a wrapper that is done, and a        *)
(* channel is closed after it.  Whoever waits for the runners has shut the   *)
(* router down.                                                              *)
WrapperInv ==
    /\ wrappers \in Seq(Wrapper) /\ IsInjective(wrappers)
    /\ given \in [Wrapper -> BOOLEAN] /\ wClosed \in [Wrapper -> BOOLEAN]
    /\ hook \in [Wrapper -> {"armed", "waiting", "closing", "done"}]
    /\ chClosed \in [Wrapper -> BOOLEAN]
    /\ ToSet(wrappers) = {w \in Wrapper : given[w] /\ hook[w] = "armed"}
    /\ \A w \in Wrapper : hook[w] # "armed" => WrapperDone(w)
    /\ \A w \in Wrapper : chClosed[w] => hook[w] = "done"

(* Every wrapper's hook waits for its close; the list starts empty.          *)
LEMMA InitialWrappers == Init => WrapperInv
BY EmptyOrder DEF Init, WrapperInv, WrapperDone

(* The list of wrappers changes in Wrap, which appends a new one, and in     *)
(* RemoveWrapper, which takes out the one that leaves.                       *)
LEMMA WrapperStep == WrapperInv /\ [Next]_vars => WrapperInv'
<1> SUFFICES ASSUME WrapperInv, [Next]_vars
             PROVE  WrapperInv'
    OBVIOUS
<1> USE DEF WrapperInv
<1>0. ASSUME UNCHANGED <<wrappers, wrapVars>>, liDone => liDone'
      PROVE  WrapperInv'
    BY <1>0 DEF wrapVars, WrapperDone
<1>1. ASSUME NEW w \in Wrapper, Wrap(w)
      PROVE  WrapperInv'
  <2>1. w \notin ToSet(wrappers) /\ hook[w] = "armed"
      BY <1>1 DEF Wrap, WrapperDone
  <2>2. /\ wrappers' \in Seq(Wrapper) /\ IsInjective(wrappers')
        /\ ToSet(wrappers') = ToSet(wrappers) \cup {w}
      BY <1>1, <2>1, AppendNew DEF Wrap
  <2> QED
      BY <1>1, <2>1, <2>2 DEF Wrap, WrapperDone, fanVars
<1>2. ASSUME NEW w \in Wrapper, RemoveWrapper(w)
      PROVE  WrapperInv'
  <2>1. w \in ToSet(wrappers)
      BY <1>2 DEF RemoveWrapper, WrapperDone
  <2>2. /\ wrappers' \in Seq(Wrapper) /\ IsInjective(wrappers')
        /\ ToSet(wrappers') = ToSet(wrappers) \ {w}
      BY <1>2, <2>1, RemoveFirstOf DEF RemoveWrapper
  <2>3. /\ UNCHANGED <<given, wClosed, chClosed>> /\ (liDone => liDone') /\ WrapperDone(w)
        /\ \/ hook' = [hook EXCEPT ![w] = "closing"]
           \/ hook' = [hook EXCEPT ![w] = "waiting"]
      BY <1>2 DEF RemoveWrapper
  <2> QED
      BY <2>2, <2>3 DEF WrapperDone
<1>3. ASSUME NEW w \in Wrapper, RunnersGone(w) \/ CloseChan(w)
      PROVE  WrapperInv'
  <2>1. /\ UNCHANGED <<liDone, wrappers, given, wClosed>>
        /\ hook[w] \in {"waiting", "closing"} /\ chClosed' \in [Wrapper -> BOOLEAN]
        /\ \/ hook' = [hook EXCEPT ![w] = "closing"] /\ chClosed' = chClosed
           \/ hook' = [hook EXCEPT ![w] = "done"] /\ chClosed' = [chClosed EXCEPT ![w] = TRUE]
      BY <1>3 DEF RunnersGone, CloseChan, fanVars
  <2>2. hook' \in [Wrapper -> {"armed", "waiting", "closing", "done"}]
      BY <2>1
  <2>3. \A v \in Wrapper : (hook'[v] = "armed") = (hook[v] = "armed")
      BY <2>1
  <2>4. \A v \in Wrapper : chClosed'[v] => hook'[v] = "done"
      BY <2>1
  <2>5. \A v \in Wrapper : hook'[v] # "armed" => WrapperDone(v)'
      BY <2>1, <2>3 DEF WrapperDone
  <2> QED
      BY <2>1, <2>2, <2>3, <2>4, <2>5
<1>4. ASSUME NEW w \in Wrapper, WrapperClose(w)
      PROVE  WrapperInv'
    BY <1>4 DEF WrapperClose, WrapperDone, fanVars
<1>5. ASSUME NEW w \in Wrapper, WrapperRecv(w)
      PROVE  WrapperInv'
    BY <1>5 DEF WrapperRecv, WrapperDone, fanVars
<1>6. CASE \E s \in Source : \/ AddInterest(s) \/ RemoveInterest(s) \/ Runner(s)
                             \/ Produce(s) \/ SourceClose(s) \/ SourceChanHook(s)
                             \/ SourceCancelHook(s)
  <2>1. PICK s \in Source : \/ AddInterest(s) \/ RemoveInterest(s) \/ Runner(s)
                            \/ Produce(s) \/ SourceClose(s) \/ SourceChanHook(s)
                            \/ SourceCancelHook(s)
      BY <1>6
  <2>2. UNCHANGED <<liDone, wrappers, given, wClosed, hook, chClosed>>
      BY <2>1 DEF AddInterest, RemoveInterest, Runner, RunnerExit, RunnerRecv, RunnerFanIn,
                  RouteMsg, RunnerLeave, Produce, SourceClose, SourceChanHook,
                  SourceCancelHook, fanVars, wrapVars
  <2> QED
      BY <2>2 DEF WrapperDone
<1>7. CASE SetOnRecv \/ ContextEnds \/ LiHook \/ ForgetRouter
    BY <1>0, <1>7 DEF SetOnRecv, ContextEnds, LiHook, ForgetRouter, fanVars
<1>8. CASE UNCHANGED vars
    BY <1>0, <1>8 DEF vars, fanVars
<1> QED
    BY <1>1, <1>2, <1>3, <1>4, <1>5, <1>6, <1>7, <1>8 DEF Next, Hook

(* No message is ever routed to a closed wrapper channel, however            *)
(* subscribers come and go (interest.go 255-258, 281-292).                   *)
THEOREM RoutedIsOpen == Spec => []ListedIsOpen
<1>1. WrapperInv => ListedIsOpen
  <2> SUFFICES ASSUME WrapperInv, NEW j \in 1..Len(wrappers)
               PROVE  ~chClosed[wrappers[j]]
      BY DEF ListedIsOpen
  <2>1. wrappers[j] \in ToSet(wrappers)
      BY DEF ToSet, WrapperInv
  <2> QED
      BY <2>1 DEF WrapperInv
<1> QED
    BY <1>1, InitialWrappers, WrapperStep, PTL DEF Spec

(* A wrapper that is not done stays on the list in every step that neither   *)
(* closes it nor ends the context above, and the router stays open.          *)
LEMMA ServedStep ==
    ASSUME WrapperInv, [Next]_vars, NEW w \in Wrapper,
           given[w], ~WrapperDone(w), ~ctxEnded', ~wClosed'[w]
    PROVE  ~liDone' /\ \E j \in 1..Len(wrappers') : wrappers'[j] = w
<1>1. ~liDone /\ hook[w] = "armed"
    BY DEF WrapperInv, WrapperDone
<1>2. given'[w] /\ hook'[w] = "armed" /\ ~liDone'
  <2>1. CASE \E v \in Wrapper : RemoveWrapper(v)
    <3>1. PICK v \in Wrapper : RemoveWrapper(v)
        BY <2>1
    <3>2. v # w /\ v \in ToSet(wrappers) /\ w \in ToSet(wrappers)
        BY <1>1, <3>1 DEF RemoveWrapper, WrapperDone, WrapperInv
    <3>3. w \in ToSet(wrappers')
        BY <3>1, <3>2, RemoveFirstOf DEF RemoveWrapper, WrapperInv
    <3>4. wrappers' # <<>>
        BY <3>3, EmptyOrder
    <3> QED
        BY <1>1, <3>1, <3>2, <3>4 DEF RemoveWrapper, WrapperInv
  <2>2. CASE \E v \in Wrapper : Wrap(v) \/ WrapperRecv(v) \/ WrapperClose(v)
                                \/ RunnersGone(v) \/ CloseChan(v)
    <3>1. PICK v \in Wrapper : Wrap(v) \/ WrapperRecv(v) \/ WrapperClose(v)
                               \/ RunnersGone(v) \/ CloseChan(v)
        BY <2>2
    <3> QED
        BY <1>1, <3>1 DEF Wrap, WrapperRecv, WrapperClose, RunnersGone, CloseChan, fanVars, WrapperInv
  <2>3. CASE \E s \in Source : \/ AddInterest(s) \/ RemoveInterest(s) \/ Runner(s)
                               \/ Produce(s) \/ SourceClose(s) \/ SourceChanHook(s)
                               \/ SourceCancelHook(s)
    <3>1. PICK s \in Source : \/ AddInterest(s) \/ RemoveInterest(s) \/ Runner(s)
                              \/ Produce(s) \/ SourceClose(s) \/ SourceChanHook(s)
                              \/ SourceCancelHook(s)
        BY <2>3
    <3> QED
        BY <1>1, <3>1 DEF AddInterest, RemoveInterest, Runner, RunnerExit, RunnerRecv,
              RunnerFanIn, RouteMsg, RunnerLeave, Produce, SourceClose, SourceChanHook,
              SourceCancelHook, fanVars, wrapVars
  <2>4. CASE SetOnRecv \/ ContextEnds \/ LiHook \/ ForgetRouter \/ UNCHANGED vars
      BY <1>1, <2>4 DEF SetOnRecv, ContextEnds, LiHook, ForgetRouter, vars, fanVars, wrapVars
  <2> QED
      BY <2>1, <2>2, <2>3, <2>4 DEF Next, Hook
<1>3. WrapperInv'
    BY WrapperStep
<1>4. w \in ToSet(wrappers')
    BY <1>2, <1>3 DEF WrapperInv
<1> QED
    BY <1>2, <1>3, <1>4 DEF WrapperInv, ToSet

(* One subscriber leaving never shuts the router down for another            *)
(* (interest.go 272-276).                                                    *)
THEOREM OthersStayServed == Spec => OpenWrapperServed
<1>1. WrapperInv /\ [Next]_vars =>
        [\A w \in Wrapper :
            given[w] /\ ~WrapperDone(w) /\ ~ctxEnded' /\ ~wClosed'[w] =>
                ~liDone' /\ \E j \in 1..Len(wrappers') : wrappers'[j] = w]_vars
    BY ServedStep
<1> QED
    BY <1>1, InitialWrappers, WrapperStep, PTL DEF Spec, OpenWrapperServed

-----------------------------------------------------------------------------
(* IntentRouter. *)

(* A Send that does not hold the lock has nobody left to send through.       *)
SendInv ==
    /\ member \in [Target -> BOOLEAN]
    /\ sPc \in [Sender -> {"idle", "checked", "sending"}]
    /\ pending \in [Sender -> SUBSET Target]
    /\ \A p \in Sender : sPc[p] # "sending" => pending[p] = {}
    /\ \A p \in Sender : \A t \in pending[p] : member[t]

(* Every step keeps SendInv: only SendLock, which reads the intents there    *)
(* are, starts to send, and only RemoveIntent, which waits for the senders,  *)
(* takes an intent out.                                                      *)
LEMMA SendStep == SendInv /\ [Out!Next]_(Out!vars) => SendInv'
<1> SUFFICES ASSUME SendInv, [Out!Next]_(Out!vars)
             PROVE  SendInv'
    OBVIOUS
<1> USE DEF SendInv, Out!sendVars, Out!runVars
<1>1. ASSUME NEW t \in Target, Out!AddIntent(t)
      PROVE  SendInv'
    BY <1>1 DEF Out!AddIntent
<1>2. ASSUME NEW t \in Target, Out!RemoveIntent(t)
      PROVE  SendInv'
  <2>1. \A p \in Sender : pending[p] = {}
      BY <1>2 DEF Out!RemoveIntent, Out!FanFree
  <2>2. member' = [member EXCEPT ![t] = FALSE] /\ UNCHANGED <<sPc, pending>>
      BY <1>2 DEF Out!RemoveIntent
  <2> QED
      BY <2>1, <2>2
<1>3. ASSUME NEW p \in Sender, Out!SendLock(p)
      PROVE  SendInv'
    BY <1>3 DEF Out!SendLock
<1>4. ASSUME NEW p \in Sender,
             \/ \E w \in Wrapper : Out!SendCall(p, w)
             \/ Out!SendReturn(p)
      PROVE  SendInv'
  <2>1. CASE \E w \in Wrapper : Out!SendCall(p, w)
      BY <2>1 DEF Out!SendCall
  <2>2. CASE Out!SendReturn(p)
      BY <2>2 DEF Out!SendReturn
  <2> QED
      BY <1>4, <2>1, <2>2
<1>5. ASSUME NEW p \in Sender, NEW t \in Target, Out!TargetSent(p, t)
      PROVE  SendInv'
    BY <1>5 DEF Out!TargetSent
<1>6. CASE UNCHANGED <<member, sPc, pending>>
    BY <1>6
<1>7. ASSUME NEW t \in Target,
             \/ Out!Runner(t) \/ Out!TargetLinked(t) \/ Out!TargetClose(t)
             \/ Out!TargetChanHook(t) \/ Out!TargetCancelHook(t)
      PROVE  UNCHANGED <<member, sPc, pending>>
    BY <1>7 DEF Out!Runner, Out!RunnerExit, Out!RunnerEvent, Out!NotifyOwn, Out!Notify,
        Out!TargetLinked, Out!TargetClose, Out!TargetChanHook, Out!TargetCancelHook
<1>8. ASSUME NEW w \in Wrapper,
             Out!Wrap(w) \/ Out!WrapperClose(w) \/ Out!WrapperEvent(w) \/ Out!Hook(w)
      PROVE  UNCHANGED <<member, sPc, pending>>
    BY <1>8 DEF Out!Wrap, Out!WrapperClose, Out!WrapperEvent, Out!Hook, Out!RemoveWrapper,
        Out!RemoveWrapperDone, Out!CloseChan
<1>9. ASSUME Out!RemoveIntentDone \/ Out!SetOnNotify \/ Out!LiHook \/ Out!ForgetRouter
      PROVE  UNCHANGED <<member, sPc, pending>>
    BY <1>9 DEF Out!RemoveIntentDone, Out!SetOnNotify, Out!LiHook, Out!ForgetRouter
<1>10. ASSUME UNCHANGED Out!vars
       PROVE  UNCHANGED <<member, sPc, pending>>
    BY <1>10 DEF Out!vars
<1> QED
    BY <1>1, <1>2, <1>3, <1>4, <1>5, <1>6, <1>7, <1>8, <1>9, <1>10 DEF Out!Next, Out!Send

(* The read lock that Send holds until the slowest endpoint has returned     *)
(* keeps every intent it sends through where it is, whatever removals wait   *)
(* (intent.go 201-212, 243-251).                                             *)
THEOREM SendsToMembers == Out!Spec => []Out!SendSetStable
<1>1. Out!Init => SendInv
    BY DEF Out!Init, SendInv
<1>2. SendInv => Out!SendSetStable
    BY DEF SendInv, Out!SendSetStable
<1> QED
    BY <1>1, <1>2, SendStep, PTL DEF Out!Spec
=============================================================================
