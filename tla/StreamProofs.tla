---------------------------- MODULE StreamProofs ----------------------------
(* Theorems about Stream, for any writers, buffers and bounds and every way  *)
(* of using the connection.                                                  *)
EXTENDS Stream, SequenceTheorems, TLAPS

Content == (Writer \X Nat) \cup {Nil}
Cell == [part : {"head", "body", "rest"}, frame : Content, place : Nat]
Request == [at : {"idle", "write", "result", "done"}, by : Writer \cup {Nil}, gone : BOOLEAN,
            frame : Content, buf : Buffer \cup {Nil}, cells : Seq(Content)]

(* Whoever writes has a buffer of its own, which is not in the pool, and the *)
(* goroutine writes from the buffer of the caller that waits for it.         *)
PoolInv ==
    /\ content \in [Buffer -> Content]
    /\ free \subseteq Buffer
    /\ wpc \in [Writer -> {"idle", "offer", "wait"}]
    /\ wbuf \in [Writer -> Buffer \cup {Nil}]
    /\ serial \in Nat
    /\ run \in Request
    /\ \A w \in Writer : wpc[w] # "idle" =>
        /\ wbuf[w] \in Buffer \ free
        /\ content[wbuf[w]] \in {w} \X (1..serial)
    /\ \A w \in Writer : wpc[w] = "wait" =>
        run.at = "done" \/ (run.at \in {"write", "result"} /\ run.by = w /\ ~run.gone)
    /\ \A v, w \in Writer : v # w /\ wpc[v] # "idle" /\ wpc[w] # "idle" => wbuf[v] # wbuf[w]
    /\ run.at = "write" => run.buf \in Buffer /\ content[run.buf] \in Writer \X Nat
    /\ run.at \in {"write", "result"} /\ ~run.gone =>
        /\ run.by \in Writer
        /\ wpc[run.by] = "wait" /\ wbuf[run.by] = run.buf
        /\ content[run.buf] = run.frame
    /\ ~run.gone => \A k \in DOMAIN run.cells : run.cells[k] = run.frame

(* Every step keeps buffers with their owners.                               *)
LEMMA PoolStep ==
    ASSUME PoolInv, [Next]_vars
    PROVE  PoolInv'
<1> USE DEF PoolInv
<1>a. ASSUME UNCHANGED <<content, free, wpc, wbuf, serial, run>>
      PROVE  PoolInv'
    BY <1>a
<1>1. ASSUME NEW w \in Writer, Encode(w)
      PROVE  PoolInv'
    BY <1>1 DEF Encode, Content
<1>2. ASSUME NEW w \in Writer, Accept(w)
      PROVE  PoolInv'
    BY <1>2 DEF Accept, Request, poolVars
<1>3. ASSUME NEW w \in Writer, GiveUp(w)
      PROVE  PoolInv'
    BY <1>3 DEF GiveUp, Return, Request
<1>4. CASE WritePart
  <2> DEFINE f == content[run.buf]
  <2>1. /\ run.at = "write"
        /\ run' = [run EXCEPT !.cells = Append(@, f),
                              !.at = IF run.cells = <<>> THEN "write" ELSE "result"]
        /\ UNCHANGED <<content, free, wpc, wbuf, serial>>
      BY <1>4 DEF WritePart, poolVars, callVars
  <2>2. f \in Content /\ run.cells \in Seq(Content)
      BY <2>1 DEF Request
  <2>3. run' = [at |-> IF run.cells = <<>> THEN "write" ELSE "result", by |-> run.by,
                gone |-> run.gone, frame |-> run.frame, buf |-> run.buf,
                cells |-> Append(run.cells, f)]
      BY <2>1 DEF Request
  <2>4. run' \in Request
      BY <2>2, <2>3 DEF Request
  <2>5. ~run.gone => \A k \in DOMAIN run'.cells : run'.cells[k] = run.frame
      BY <2>1, <2>2, <2>3
  <2> QED
      BY <2>1, <2>3, <2>4, <2>5
<1>5. CASE WriteFails
    BY <1>5 DEF WriteFails, Request, poolVars, callVars
<1>6. ASSUME NEW w \in Writer, Deliver(w)
      PROVE  PoolInv'
    BY <1>6, NilAssumption DEF Deliver, Return, Request, Idle, Content
<1>7. CASE Discard \/ RunnerStops
  <2>1. /\ (run' = Idle /\ run.at = "result" /\ run.gone) \/ run' = [Idle EXCEPT !.at = "done"]
        /\ UNCHANGED <<content, free, wpc, wbuf, serial>>
      BY <1>7 DEF Discard, RunnerStops, poolVars, callVars
  <2>2. PICK a \in {"idle", "done"} :
            /\ a = "idle" => run.at = "result" /\ run.gone
            /\ run' = [at |-> a, by |-> Nil, gone |-> FALSE, frame |-> Nil, buf |-> Nil, cells |-> <<>>]
      BY <2>1 DEF Idle
  <2> QED
      BY <2>1, <2>2 DEF Request, Content
<1>8. CASE TakeRead \/ ReadPart \/ ShortRead \/ StaleRead \/ ReaderStops \/ Decode
    BY <1>8, <1>a DEF TakeRead, ReadPart, ShortRead, StaleRead, ReaderStops, Decode, writeSide, poolVars, callVars
<1>9. CASE BeginRead \/ GiveUpRead \/ AddRoute \/ DelRoute \/ Close
    BY <1>9, <1>a DEF BeginRead, GiveUpRead, AddRoute, DelRoute, Close, writeSide, poolVars, callVars
<1>10. CASE UNCHANGED vars
    BY <1>10, <1>a DEF vars, writeSide, poolVars, callVars
<1> QED
    BY <1>1, <1>2, <1>3, <1>4, <1>5, <1>6, <1>7, <1>8, <1>9, <1>10
    DEF Next, RunnerNext, ReaderNext

(* The frame that the transport carries for a write that was not given up is *)
(* the writer's own, head and body, also when others give up and their       *)
(* buffers are used again (Release in StreamContext.Write).                  *)
THEOREM OwnFrameKept == Spec => []OwnFrameIntact
<1>1. Init => PoolInv
    BY DEF Init, PoolInv, Content, Request, Idle
<1>2. PoolInv /\ [Next]_vars => PoolInv'
    BY PoolStep
<1>3. PoolInv => OwnFrameIntact
    BY DEF PoolInv, OwnFrameIntact
<1> QED
    BY <1>1, <1>2, <1>3, PTL DEF Spec

-----------------------------------------------------------------------------
(* The bodies on a transport s are those of messages after the first a and   *)
(* up to the b-th, in order.                                                 *)
Ordered(s, a, b) ==
    /\ \A i \in DOMAIN s : s[i].part = "body" => a < s[i].place /\ s[i].place <= b
    /\ \A i, j \in DOMAIN s :
         i < j /\ s[i].part = "body" /\ s[j].part = "body" => s[i].place < s[j].place

(* None of them is missing. *)
Complete(s, a, b) ==
    \A p \in (a + 1)..b : \E i \in DOMAIN s : s[i].part = "body" /\ s[i].place = p

(* Another head on the transport changes neither. *)
LEMMA AppendOther ==
    ASSUME NEW s \in Seq(Cell), NEW a \in Nat, NEW b \in Nat, NEW c \in Cell,
           c.part # "body", Ordered(s, a, b)
    PROVE  /\ Ordered(Append(s, c), a, b)
           /\ Complete(s, a, b) => Complete(Append(s, c), a, b)
<1> DEFINE t == Append(s, c)
<1>1. DOMAIN s = 1..Len(s) /\ DOMAIN t = 1..(Len(s) + 1) /\ Len(s) \in Nat
    OBVIOUS
<1>2. \A i \in DOMAIN s : t[i] = s[i]
    OBVIOUS
<1>3. \A i \in DOMAIN t : t[i].part = "body" => i \in DOMAIN s
    BY <1>1
<1> HIDE DEF t
<1>4. Ordered(t, a, b)
    BY <1>2, <1>3 DEF Ordered
<1>5. Complete(s, a, b) => Complete(t, a, b)
    BY <1>1, <1>2 DEF Complete
<1> QED
    BY <1>4, <1>5 DEF t

(* A later body is the last one; when it is the next, none is missing. *)
LEMMA AppendBody ==
    ASSUME NEW s \in Seq(Cell), NEW a \in Nat, NEW b \in Nat, NEW c \in Cell,
           c.part = "body", b < c.place, a <= b, Ordered(s, a, b)
    PROVE  /\ Ordered(Append(s, c), a, c.place)
           /\ c.place = b + 1 /\ Complete(s, a, b) => Complete(Append(s, c), a, c.place)
<1> DEFINE t == Append(s, c)
<1>1. DOMAIN s = 1..Len(s) /\ DOMAIN t = 1..(Len(s) + 1) /\ Len(s) \in Nat
    OBVIOUS
<1>2. \A i \in DOMAIN s : t[i] = s[i] /\ s[i].place \in Nat
  <2>1. \A i \in DOMAIN s : t[i] = s[i] /\ s[i] \in Cell
      OBVIOUS
  <2> QED
      BY <2>1 DEF Cell
<1>3. t[Len(s) + 1] = c
    OBVIOUS
<1> HIDE DEF t
<1>4. c.place \in Nat
    BY DEF Cell
<1>5. Ordered(t, a, c.place)
    BY <1>1, <1>2, <1>3, <1>4 DEF Ordered
<1>6. ASSUME c.place = b + 1, Complete(s, a, b), NEW p \in (a + 1)..(b + 1)
      PROVE  \E i \in DOMAIN t : t[i].part = "body" /\ t[i].place = p
  <2>1. CASE p = b + 1
      BY <1>1, <1>3, <1>6, <2>1
  <2>2. CASE p # b + 1
      BY <1>1, <1>2, <1>6, <2>2 DEF Complete
  <2> QED
      BY <2>1, <2>2
<1> QED
    BY <1>5, <1>6 DEF t, Complete

(* What is taken off the transport without being a body changes neither; the *)
(* order stays whatever is taken.                                            *)
LEMMA TakeOther ==
    ASSUME NEW s \in Seq(Cell), NEW a \in Nat, NEW b \in Nat, s # <<>>, Ordered(s, a, b)
    PROVE  /\ Ordered(Tail(s), a, b)
           /\ Head(s).part # "body" /\ Complete(s, a, b) => Complete(Tail(s), a, b)
<1> DEFINE t == Tail(s)
<1>1. DOMAIN s = 1..Len(s) /\ DOMAIN t = 1..(Len(s) - 1) /\ Len(s) \in Nat /\ Len(s) # 0
    OBVIOUS
<1>2. \A i \in DOMAIN t : t[i] = s[i + 1]
    OBVIOUS
<1>3. Head(s) = s[1]
    OBVIOUS
<1> HIDE DEF t
<1>0. \A i \in DOMAIN t : i + 1 \in DOMAIN s
    BY <1>1
<1>4. Ordered(t, a, b)
  <2>1. ASSUME NEW i \in DOMAIN t, t[i].part = "body"
        PROVE  a < t[i].place /\ t[i].place <= b
    <3>1. i + 1 \in DOMAIN s /\ t[i] = s[i + 1]
        BY <1>0, <1>2
    <3> QED
        BY <2>1, <3>1 DEF Ordered
  <2>2. ASSUME NEW i \in DOMAIN t, NEW j \in DOMAIN t, i < j, t[i].part = "body", t[j].part = "body"
        PROVE  t[i].place < t[j].place
    <3>1. /\ i + 1 \in DOMAIN s /\ t[i] = s[i + 1]
          /\ j + 1 \in DOMAIN s /\ t[j] = s[j + 1]
        BY <1>0, <1>2
    <3>2. i + 1 < j + 1
        BY <1>1, <2>2
    <3> QED
        BY <2>2, <3>1, <3>2 DEF Ordered
  <2> QED
      BY <2>1, <2>2 DEF Ordered
<1>5. ASSUME Head(s).part # "body", Complete(s, a, b), NEW p \in (a + 1)..b
      PROVE  \E i \in DOMAIN t : t[i].part = "body" /\ t[i].place = p
  <2>1. PICK i \in DOMAIN s : s[i].part = "body" /\ s[i].place = p
      BY <1>5 DEF Complete
  <2>2. i # 1
      BY <1>3, <1>5, <2>1
  <2>3. i - 1 \in DOMAIN t /\ t[i - 1] = s[i]
      BY <1>1, <1>2, <2>2
  <2> QED
      BY <2>1, <2>3
<1> QED
    BY <1>4, <1>5 DEF t, Complete

(* The body taken off is older than all that are left, and the next one      *)
(* when none is missing.                                                     *)
LEMMA TakeBody ==
    ASSUME NEW s \in Seq(Cell), NEW a \in Nat, NEW b \in Nat, s # <<>>,
           Head(s).part = "body", Ordered(s, a, b)
    PROVE  /\ a < Head(s).place /\ Head(s).place <= b
           /\ Ordered(Tail(s), Head(s).place, b)
           /\ Complete(s, a, b) =>
                Head(s).place = a + 1 /\ Complete(Tail(s), Head(s).place, b)
<1> DEFINE t == Tail(s)
<1>1. DOMAIN s = 1..Len(s) /\ DOMAIN t = 1..(Len(s) - 1) /\ Len(s) \in Nat /\ Len(s) # 0
    OBVIOUS
<1>2. \A i \in DOMAIN t : t[i] = s[i + 1]
    OBVIOUS
<1>3. Head(s) = s[1] /\ s[1] \in Cell /\ s[1].place \in Nat
  <2>1. Head(s) = s[1] /\ s[1] \in Cell
      OBVIOUS
  <2> QED
      BY <2>1 DEF Cell
<1> HIDE DEF t
<1>4. a < s[1].place /\ s[1].place <= b
    BY <1>1, <1>3 DEF Ordered
<1>0. /\ 1 \in DOMAIN s
      /\ \A i \in DOMAIN t : i + 1 \in DOMAIN s /\ 1 < i + 1
    BY <1>1
<1>5. Ordered(t, s[1].place, b)
  <2>1. ASSUME NEW i \in DOMAIN t, t[i].part = "body"
        PROVE  s[1].place < t[i].place /\ t[i].place <= b
    <3>1. i + 1 \in DOMAIN s /\ 1 < i + 1 /\ t[i] = s[i + 1]
        BY <1>0, <1>2
    <3> QED
        BY <1>0, <1>3, <2>1, <3>1 DEF Ordered
  <2>2. ASSUME NEW i \in DOMAIN t, NEW j \in DOMAIN t, i < j, t[i].part = "body", t[j].part = "body"
        PROVE  t[i].place < t[j].place
    <3>1. /\ i + 1 \in DOMAIN s /\ t[i] = s[i + 1]
          /\ j + 1 \in DOMAIN s /\ t[j] = s[j + 1]
        BY <1>0, <1>2
    <3>2. i + 1 < j + 1
        BY <1>1, <2>2
    <3> QED
        BY <2>2, <3>1, <3>2 DEF Ordered
  <2> QED
      BY <2>1, <2>2 DEF Ordered
<1>6. ASSUME Complete(s, a, b)
      PROVE  s[1].place = a + 1
  <2>1. PICK i \in DOMAIN s : s[i].part = "body" /\ s[i].place = a + 1
      BY <1>3, <1>4, <1>6 DEF Complete
  <2>2. CASE i = 1
      BY <2>1, <2>2
  <2>3. CASE i # 1
      BY <1>1, <1>3, <1>4, <2>1, <2>3 DEF Ordered
  <2> QED
      BY <2>2, <2>3
<1>7. ASSUME Complete(s, a, b), NEW p \in (s[1].place + 1)..b
      PROVE  \E i \in DOMAIN t : t[i].part = "body" /\ t[i].place = p
  <2>1. PICK i \in DOMAIN s : s[i].part = "body" /\ s[i].place = p
      BY <1>3, <1>4, <1>7 DEF Complete
  <2>2. i # 1
      BY <1>3, <2>1
  <2>3. i - 1 \in DOMAIN t /\ t[i - 1] = s[i]
      BY <1>1, <1>2, <2>2
  <2> QED
      BY <2>1, <2>3
<1> QED
    BY <1>3, <1>4, <1>5, <1>6, <1>7 DEF t, Complete

(* Counting from earlier, or up to later, keeps the order. *)
LEMMA OrderedFrom ==
    ASSUME NEW s \in Seq(Cell), NEW a \in Nat, NEW b \in Nat, NEW c \in Nat, NEW d \in Nat,
           c <= a, b <= d, Ordered(s, a, b)
    PROVE  Ordered(s, c, d)
<1>1. \A i \in DOMAIN s : s[i].place \in Nat
  <2>1. \A i \in DOMAIN s : s[i] \in Cell
      OBVIOUS
  <2> QED
      BY <2>1 DEF Cell
<1> QED
    BY <1>1 DEF Ordered

Consumed == IF rpc = "decode" THEN head.place ELSE last

(* The transport holds the bodies after the one consumed last, in order, and *)
(* all of them as long as no Read has failed.                                *)
OrderInv ==
    /\ nsent \in Nat /\ last \in Nat /\ lost \in BOOLEAN
    /\ wire \in Seq(Cell)
    /\ rpc = "decode" => head \in Cell /\ last < head.place
    /\ rpc = "decode" /\ ~lost => head.place = last + 1
    /\ rrun = "stale" => lost
    /\ Consumed <= nsent
    /\ Ordered(wire, Consumed, nsent)
    /\ ~lost => Complete(wire, Consumed, nsent)

(* Whatever the writers and the goroutine do, what they leave alone on the   *)
(* read side and on the transport is in order as before.                     *)
LEMMA OrderFrame ==
    ASSUME OrderInv, UNCHANGED <<nsent, last, lost, wire, rpc, head>>, rrun' = "stale" => lost
    PROVE  OrderInv'
BY DEF OrderInv, Consumed

(* What the goroutine writes goes behind what is on the transport.           *)
LEMMA OrderWrite ==
    ASSUME PoolInv, OrderInv, WritePart
    PROVE  OrderInv'
<1> USE DEF OrderInv
<1> DEFINE part == IF run.cells = <<>> THEN "head" ELSE "body"
           c    == [part |-> part, frame |-> content[run.buf], place |-> nsent + 1]
<1>1. /\ c \in Cell /\ wire' = Append(wire, c)
      /\ nsent' = IF run.cells = <<>> THEN nsent ELSE nsent + 1
      /\ UNCHANGED <<last, lost, rpc, head, rrun>> /\ Consumed' = Consumed
    BY DEF WritePart, PoolInv, Cell, readSide, Consumed
<1>2. Consumed \in Nat
    BY DEF Consumed, Cell
<1>3. CASE run.cells = <<>>
    BY <1>1, <1>2, <1>3, AppendOther
<1>4. CASE run.cells # <<>>
    BY <1>1, <1>2, <1>4, AppendBody
<1> QED
    BY <1>3, <1>4

(* A part that is read is the next one in the order of writing.              *)
LEMMA OrderRead ==
    ASSUME OrderInv, ReadPart
    PROVE  OrderInv'
<1> USE DEF OrderInv
<1> DEFINE want == IF head = Nil THEN "head" ELSE "body"
           c    == Head(wire)
<1>1. /\ rpc = "wait" /\ wire # <<>> /\ wire' = Tail(wire)
      /\ IF c.part = want
         THEN /\ head' = c
              /\ rpc' = IF want = "head" THEN "wait" ELSE "decode"
              /\ UNCHANGED <<reads, lost, last>>
         ELSE FailRead
      /\ nsent' = nsent /\ rrun' = "idle"
    BY DEF ReadPart, writeSide
<1>2. Consumed = last /\ last \in Nat /\ c \in Cell /\ wire' \in Seq(Cell)
    BY <1>1 DEF Consumed
<1> c.place \in Nat
    BY <1>2 DEF Cell
<1>3. CASE c.part = want /\ want = "body"
  <2>1. Consumed' = c.place /\ head' = c /\ rpc' = "decode" /\ UNCHANGED <<lost, last>>
      BY <1>1, <1>3 DEF Consumed
  <2>2. /\ last < c.place /\ c.place <= nsent
        /\ Ordered(Tail(wire), c.place, nsent)
        /\ ~lost => c.place = last + 1 /\ Complete(Tail(wire), c.place, nsent)
      BY <1>1, <1>2, <1>3, TakeBody
  <2> QED
      BY <1>1, <1>2, <2>1, <2>2
<1>4. CASE c.part = want /\ want = "head"
  <2>1. Consumed' = last /\ rpc' = "wait" /\ UNCHANGED <<lost, last>>
      BY <1>1, <1>4 DEF Consumed
  <2>2. /\ Ordered(Tail(wire), last, nsent)
        /\ ~lost => Complete(Tail(wire), last, nsent)
      BY <1>1, <1>2, <1>4, TakeOther
  <2> QED
      BY <1>1, <1>2, <2>1, <2>2
<1>5. CASE c.part # want
  <2>1. Consumed' = last /\ rpc' = "idle" /\ lost' = TRUE /\ UNCHANGED last
      BY <1>1, <1>5 DEF Consumed, FailRead
  <2>2. Ordered(Tail(wire), last, nsent)
      BY <1>1, <1>2, TakeOther
  <2> QED
      BY <1>1, <1>2, <2>1, <2>2
<1> QED
    BY <1>3, <1>4, <1>5

(* A read that returns early keeps the order, or the stream is lost.         *)
LEMMA OrderShort ==
    ASSUME OrderInv, ShortRead
    PROVE  OrderInv'
<1> USE DEF OrderInv
<1>1. /\ rpc = "wait" /\ wire # <<>> /\ wire' = [wire EXCEPT ![1].part = "rest"]
      /\ rpc' = "idle" /\ lost' = TRUE /\ UNCHANGED <<nsent, last>> /\ rrun' = "idle"
    BY DEF ShortRead, FailRead, writeSide
<1>2. Consumed = last /\ Consumed' = last
    BY <1>1 DEF Consumed
<1>3. DOMAIN wire' = DOMAIN wire /\ 1 \in DOMAIN wire /\ \A i \in DOMAIN wire : wire[i] \in Cell
    BY <1>1
<1>4. \A i \in DOMAIN wire : i # 1 => wire'[i] = wire[i]
    BY <1>1
<1>5. wire'[1] = [wire[1] EXCEPT !.part = "rest"]
    BY <1>1, <1>3
<1>6. wire'[1] = [part |-> "rest", frame |-> wire[1].frame, place |-> wire[1].place]
    BY <1>3, <1>5 DEF Cell
<1>7. wire' \in Seq(Cell)
  <2>1. \A i \in DOMAIN wire : wire'[i] \in Cell
      BY <1>3, <1>4, <1>6 DEF Cell
  <2> QED
      BY <1>1, <1>3, <2>1
<1>8. Ordered(wire', last, nsent)
    BY <1>2, <1>3, <1>4, <1>6 DEF Ordered
<1> QED
    BY <1>1, <1>2, <1>7, <1>8

(* Every step keeps the transport in order.                                  *)
LEMMA OrderStep ==
    ASSUME PoolInv, OrderInv, [Next]_vars
    PROVE  OrderInv'
<1> USE DEF readSide
<1>1. ASSUME NEW w \in Writer, Encode(w) \/ Accept(w) \/ GiveUp(w) \/ Deliver(w)
      PROVE  OrderInv'
    BY <1>1, OrderFrame DEF Encode, Accept, GiveUp, Deliver, OrderInv
<1>2. CASE WriteFails \/ Discard \/ RunnerStops
    BY <1>2, OrderFrame DEF WriteFails, Discard, RunnerStops, OrderInv
<1>3. CASE AddRoute \/ DelRoute \/ Close \/ TakeRead \/ ReaderStops
    BY <1>3, OrderFrame DEF AddRoute, DelRoute, Close, TakeRead, ReaderStops, writeSide, OrderInv
<1>4. CASE WritePart
    BY <1>4, OrderWrite
<1>5. CASE ReadPart
    BY <1>5, OrderRead
<1>6. CASE ShortRead
    BY <1>6, OrderShort
<1>7. CASE StaleRead
  <2>1. /\ rrun = "stale" /\ rrun' = "idle" /\ wire # <<>> /\ wire' = Tail(wire)
        /\ UNCHANGED <<nsent, last, lost, rpc, head>>
      BY <1>7 DEF StaleRead, writeSide
  <2>2. Consumed \in Nat /\ Consumed' = Consumed /\ wire' \in Seq(Cell)
      BY <2>1 DEF OrderInv, Consumed, Cell
  <2>3. Ordered(wire', Consumed, nsent)
      BY <2>1, <2>2, TakeOther DEF OrderInv
  <2> QED
      BY <2>1, <2>2, <2>3 DEF OrderInv
<1>8. CASE BeginRead
    BY <1>8 DEF BeginRead, writeSide, OrderInv, Consumed
<1>9. CASE GiveUpRead
    BY <1>9 DEF GiveUpRead, FailRead, writeSide, OrderInv, Consumed
<1>10. CASE Decode
  <2>1. rpc = "decode" /\ rpc' # "decode" /\ UNCHANGED <<nsent, wire, rrun>>
      BY <1>10 DEF Decode, Handled, FailRead, writeSide
  <2>2. \/ last' = head.place /\ UNCHANGED lost
        \/ last' = last /\ lost' = TRUE
      BY <1>10 DEF Decode, FailRead
  <2>3. Consumed = head.place /\ head.place \in Nat /\ Consumed' = last'
      BY <2>1 DEF OrderInv, Consumed, Cell
  <2>4. last' \in Nat /\ last' <= head.place
      BY <2>1, <2>2, <2>3 DEF OrderInv
  <2>5. Ordered(wire, last', nsent)
      BY <2>3, <2>4, OrderedFrom DEF OrderInv
  <2>6. Ordered(wire', Consumed', nsent') /\ Consumed' <= nsent'
      BY <2>1, <2>3, <2>4, <2>5 DEF OrderInv
  <2>7. ~lost' => Complete(wire', Consumed', nsent')
      BY <2>1, <2>2, <2>3 DEF OrderInv
  <2>8. lost' \in BOOLEAN /\ (rrun' = "stale" => lost')
      BY <2>1, <2>2 DEF OrderInv
  <2> QED
      BY <2>1, <2>4, <2>6, <2>7, <2>8 DEF OrderInv
<1>11. CASE UNCHANGED vars
    BY <1>11, OrderFrame DEF vars, writeSide, OrderInv
<1> QED
    BY <1>1, <1>2, <1>3, <1>4, <1>5, <1>6, <1>7, <1>8, <1>9, <1>10, <1>11
    DEF Next, RunnerNext, ReaderNext

-----------------------------------------------------------------------------
(* A transport as one writer sees it: its own bodies, placed by their serial *)
(* numbers.                                                                  *)
Of(c, w) == [part |-> IF c.part = "body" /\ c.frame[1] = w THEN "body" ELSE "rest",
             frame |-> c.frame, place |-> c.frame[2]]
View(s, w) == [i \in DOMAIN s |-> Of(s[i], w)]

Frames(s) == \A i \in DOMAIN s : s[i].frame \in Writer \X Nat

LEMMA ViewType ==
    ASSUME NEW s \in Seq(Cell), NEW w \in Writer, Frames(s)
    PROVE  View(s, w) \in Seq(Cell) /\ Len(View(s, w)) = Len(s)
<1>1. DOMAIN s = 1..Len(s) /\ Len(s) \in Nat
    OBVIOUS
<1>2. \A i \in DOMAIN s : Of(s[i], w) \in Cell
    BY DEF Frames, Of, Cell, Content
<1> QED
    BY <1>1, <1>2 DEF View

LEMMA ViewAppend ==
    ASSUME NEW s \in Seq(Cell), NEW w \in Writer, NEW c \in Cell, Frames(s), c.frame \in Writer \X Nat
    PROVE  View(Append(s, c), w) = Append(View(s, w), Of(c, w)) /\ Frames(Append(s, c)) /\ Of(c, w) \in Cell
<1> DEFINE t == Append(s, c)
<1>1. t \in Seq(Cell) /\ Len(t) = Len(s) + 1 /\ Len(s) \in Nat /\ t[Len(s) + 1] = c
      /\ \A i \in 1..Len(s) : t[i] = s[i]
    OBVIOUS
<1>2. DOMAIN s = 1..Len(s) /\ DOMAIN t = 1..(Len(s) + 1)
    OBVIOUS
<1> HIDE DEF t
<1>3. Frames(t)
    BY <1>1, <1>2 DEF Frames
<1>4. Of(c, w) \in Cell
    BY DEF Of, Cell, Content
<1> DEFINE u == View(t, w)
           v == Append(View(s, w), Of(c, w))
<1>5. u \in Seq(Cell) /\ Len(u) = Len(s) + 1 /\ \A i \in 1..(Len(s) + 1) : u[i] = Of(t[i], w)
    BY <1>1, <1>2, <1>3, ViewType DEF View
<1>6. View(s, w) \in Seq(Cell) /\ Len(View(s, w)) = Len(s) /\ \A i \in 1..Len(s) : View(s, w)[i] = Of(s[i], w)
    BY <1>2, ViewType DEF View
<1>7. v \in Seq(Cell) /\ Len(v) = Len(s) + 1 /\ v[Len(s) + 1] = Of(c, w)
      /\ \A i \in 1..Len(s) : v[i] = Of(s[i], w)
    BY <1>4, <1>6
<1>8. \A i \in 1..(Len(s) + 1) : u[i] = v[i]
    BY <1>1, <1>5, <1>7
<1> HIDE DEF u, v
<1>9. u = v
    BY <1>1, <1>5, <1>7, <1>8, SeqEqual
<1> QED
    BY <1>3, <1>4, <1>9 DEF t, u, v

LEMMA ViewTail ==
    ASSUME NEW s \in Seq(Cell), NEW w \in Writer, Frames(s), s # <<>>
    PROVE  /\ View(Tail(s), w) = Tail(View(s, w)) /\ Frames(Tail(s))
           /\ View(s, w) # <<>> /\ Head(View(s, w)) = Of(Head(s), w) /\ Head(s).frame \in Writer \X Nat
<1> DEFINE t == Tail(s)
<1>1. t \in Seq(Cell) /\ Len(s) \in Nat /\ Len(s) # 0 /\ Len(t) = Len(s) - 1 /\ Head(s) = s[1]
      /\ \A i \in 1..(Len(s) - 1) : t[i] = s[i + 1]
    OBVIOUS
<1>2. DOMAIN s = 1..Len(s) /\ DOMAIN t = 1..(Len(s) - 1)
    OBVIOUS
<1> HIDE DEF t
<1>3. Frames(t)
    BY <1>1, <1>2 DEF Frames
<1> DEFINE u == View(t, w)
           v == Tail(View(s, w))
<1>4. u \in Seq(Cell) /\ Len(u) = Len(s) - 1 /\ \A i \in 1..(Len(s) - 1) : u[i] = Of(t[i], w)
    BY <1>1, <1>2, <1>3, ViewType DEF View
<1>5. View(s, w) \in Seq(Cell) /\ Len(View(s, w)) = Len(s) /\ \A i \in 1..Len(s) : View(s, w)[i] = Of(s[i], w)
    BY <1>2, ViewType DEF View
<1>6. v \in Seq(Cell) /\ Len(v) = Len(s) - 1 /\ \A i \in 1..(Len(s) - 1) : v[i] = Of(s[i + 1], w)
    BY <1>1, <1>5
<1>7. View(s, w) # <<>> /\ Head(View(s, w)) = Of(Head(s), w)
    BY <1>1, <1>5
<1>8. \A i \in 1..(Len(s) - 1) : u[i] = v[i]
    BY <1>1, <1>4, <1>6
<1>10. Head(s).frame \in Writer \X Nat
    BY <1>1, <1>2 DEF Frames
<1> HIDE DEF u, v
<1>9. u = v
    BY <1>1, <1>4, <1>6, <1>8, SeqEqual
<1> QED
    BY <1>3, <1>7, <1>9, <1>10 DEF t, u, v

(* The last serial number that can be on the transport already: a write      *)
(* under way has put nothing there before its body is out.                   *)
Pending(w) == wpc[w] = "offer" \/ (wpc[w] = "wait" /\ run.at = "write")
Written(w) == IF Pending(w) THEN content[wbuf[w]][2] - 1 ELSE serial

(* The last one that was taken off it. *)
Told(w) == IF rpc = "decode" /\ head.frame[1] = w THEN head.frame[2] ELSE seen[w]

(* As long as no write has been given up, the transport holds the messages   *)
(* of each writer in the order of its writes, none of them told before.      *)
MessageInv ==
    /\ seen \in [Writer -> Nat]
    /\ Frames(wire)
    /\ rpc = "decode" => head.frame \in Writer \X Nat
    /\ run.gone => gaveUp
    /\ ~gaveUp =>
        /\ \A w \in Writer : Told(w) <= Written(w) /\ Ordered(View(wire, w), Told(w), Written(w))
        /\ rpc = "decode" => seen[head.frame[1]] < head.frame[2]

(* What was told and what is written are serial numbers.                     *)
LEMMA MessageTypes ==
    ASSUME PoolInv, MessageInv, NEW w \in Writer
    PROVE  Told(w) \in Nat /\ Written(w) \in Nat /\ Written(w) <= serial
<1>1. Told(w) \in Nat
    BY DEF MessageInv, Told
<1>2. Written(w) \in Nat /\ Written(w) <= serial
    BY DEF PoolInv, Written, Pending
<1> QED
    BY <1>1, <1>2

(* Steps that leave the transport and its reader alone, and after which no   *)
(* writer has written less.                                                  *)
LEMMA MessageFrame ==
    ASSUME PoolInv, OrderInv, MessageInv, PoolInv', UNCHANGED <<seen, wire, rpc, head>>,
           run'.gone => gaveUp', ~gaveUp' => ~gaveUp /\ \A w \in Writer : Written(w) <= Written(w)'
    PROVE  MessageInv'
<1>1. ASSUME ~gaveUp', NEW w \in Writer
      PROVE  Told(w)' <= Written(w)' /\ Ordered(View(wire', w), Told(w)', Written(w)')
  <2>1. Told(w)' = Told(w) /\ Told(w) \in Nat /\ Written(w) \in Nat /\ Written(w) <= Written(w)'
      BY <1>1, MessageTypes DEF Told
  <2>2. Written(w)' \in Nat
      BY DEF PoolInv, Written, Pending
  <2>3. Told(w) <= Written(w) /\ Ordered(View(wire, w), Told(w), Written(w)) /\ View(wire, w) \in Seq(Cell)
      BY <1>1, ViewType DEF MessageInv, OrderInv
  <2>4. Ordered(View(wire, w), Told(w), Written(w)')
      BY <2>1, <2>2, <2>3, OrderedFrom
  <2>5. wire' = wire
      OBVIOUS
  <2> QED
      BY <2>1, <2>2, <2>3, <2>4, <2>5
<1>2. ~gaveUp' /\ rpc' = "decode" => seen'[head'.frame[1]] < head'.frame[2]
    BY DEF MessageInv
<1>3. seen' \in [Writer -> Nat] /\ Frames(wire)' /\ (rpc' = "decode" => head'.frame \in Writer \X Nat)
    BY DEF MessageInv, Frames
<1> QED
    BY <1>1, <1>2, <1>3 DEF MessageInv

(* Steps of the reader that take nothing off the transport.                  *)
LEMMA MessageRead ==
    ASSUME PoolInv, OrderInv, MessageInv, UNCHANGED <<callVars, content, run, wire, seen>>, rpc' # "decode",
           ~gaveUp /\ rpc = "decode" => seen[head.frame[1]] < head.frame[2]
    PROVE  MessageInv'
<1>1. ASSUME ~gaveUp, NEW w \in Writer
      PROVE  Told(w)' <= Written(w)' /\ Ordered(View(wire', w), Told(w)', Written(w)')
  <2>1. Told(w)' = seen[w] /\ seen[w] \in Nat /\ seen[w] <= Told(w)
      BY <1>1 DEF Told, MessageInv
  <2>2. Written(w)' = Written(w) /\ Told(w) \in Nat /\ Written(w) \in Nat
      BY MessageTypes DEF Written, Pending, callVars
  <2>3. Told(w) <= Written(w) /\ Ordered(View(wire, w), Told(w), Written(w)) /\ View(wire, w) \in Seq(Cell)
      BY <1>1, ViewType DEF MessageInv, OrderInv
  <2>4. Ordered(View(wire, w), seen[w], Written(w)) /\ seen[w] <= Written(w)
      BY <2>1, <2>2, <2>3, OrderedFrom
  <2>5. wire' = wire
      OBVIOUS
  <2> QED
      BY <2>1, <2>2, <2>4, <2>5
<1>2. UNCHANGED <<gaveUp, run, seen, wire>>
    BY DEF callVars
<1> QED
    BY <1>1, <1>2 DEF MessageInv, Frames

(* A part that is written is behind all that its writer has written.         *)
LEMMA MessageWrite ==
    ASSUME PoolInv, PoolInv', OrderInv, MessageInv, WritePart
    PROVE  MessageInv'
<1> DEFINE first == run.cells = <<>>
           c == [part |-> IF first THEN "head" ELSE "body", frame |-> content[run.buf], place |-> nsent + 1]
<1>1. /\ run.at = "write" /\ wire' = Append(wire, c)
      /\ run'.at = (IF first THEN "write" ELSE "result") /\ run'.by = run.by /\ run'.gone = run.gone
      /\ UNCHANGED <<content, wpc, wbuf, serial, gaveUp, seen, rpc, head>>
    BY DEF WritePart, poolVars, callVars, readSide, PoolInv, Request
<1>2. c \in Cell /\ c.frame \in Writer \X Nat /\ wire \in Seq(Cell) /\ Frames(wire)
    BY <1>1 DEF PoolInv, OrderInv, MessageInv, Cell, Content
<1> HIDE DEF c
<1>3. ASSUME ~gaveUp, NEW w \in Writer
      PROVE  Told(w)' <= Written(w)' /\ Ordered(View(wire', w), Told(w)', Written(w)')
  <2> DEFINE v == View(wire, w)
             d == Of(c, w)
  <2>1. View(wire', w) = Append(v, d) /\ d \in Cell /\ v \in Seq(Cell)
      BY <1>1, <1>2, ViewAppend, ViewType
  <2>2. Told(w)' = Told(w) /\ Told(w) \in Nat /\ Written(w) \in Nat /\ Written(w) <= serial
      BY <1>1, MessageTypes DEF Told
  <2>3. Told(w) <= Written(w) /\ Ordered(v, Told(w), Written(w))
      BY <1>3 DEF MessageInv
  <2>4. Written(w)' \in Nat /\ Written(w) <= Written(w)'
      BY <1>1, <2>2 DEF PoolInv, Written, Pending
  <2>5. CASE d.part # "body"
    <3>1. Ordered(Append(v, d), Told(w), Written(w))
      <4> HIDE DEF v, d
      <4> QED
          BY <2>1, <2>2, <2>3, <2>5, AppendOther
    <3>2. Append(v, d) \in Seq(Cell)
        BY <2>1
    <3>3. Ordered(Append(v, d), Told(w), Written(w)')
      <4> DEFINE u == Append(v, d)
      <4>1. u \in Seq(Cell) /\ Ordered(u, Told(w), Written(w))
          BY <3>1, <3>2
      <4> HIDE DEF u
      <4>2. Ordered(u, Told(w), Written(w)')
          BY <2>2, <2>4, <4>1, OrderedFrom
      <4> QED
          BY <4>2 DEF u
    <3> QED
        BY <2>1, <2>2, <2>3, <2>4, <3>3
  <2>6. CASE d.part = "body"
    <3>1. ~first /\ content[run.buf][1] = w /\ d.place = content[run.buf][2]
        BY <1>1, <2>6 DEF c, Of
    <3>2. ~run.gone /\ run.by \in Writer /\ wpc[run.by] = "wait" /\ wbuf[run.by] = run.buf
        BY <1>1, <1>3 DEF MessageInv, PoolInv
    <3>3. run.by = w /\ d.place \in 1..serial
        BY <3>1, <3>2 DEF PoolInv
    <3>4. Written(w) = d.place - 1 /\ Written(w)' = serial
        BY <1>1, <3>1, <3>2, <3>3 DEF Written, Pending
    <3>5. Ordered(Append(v, d), Told(w), d.place)
      <4> HIDE DEF v, d
      <4> QED
          BY <2>1, <2>2, <2>3, <2>6, <3>3, <3>4, AppendBody
    <3>6. Append(v, d) \in Seq(Cell) /\ serial \in Nat
        BY <2>1 DEF PoolInv
    <3>7. Ordered(Append(v, d), Told(w), serial)
      <4> DEFINE u == Append(v, d)
                 k == d.place
      <4>1. u \in Seq(Cell) /\ Ordered(u, Told(w), k) /\ k \in Nat /\ k <= serial
          BY <3>3, <3>5, <3>6
      <4> HIDE DEF u, k
      <4>2. Ordered(u, Told(w), serial)
          BY <2>2, <3>6, <4>1, OrderedFrom
      <4> QED
          BY <4>2 DEF u
    <3> QED
        BY <2>1, <2>2, <2>3, <2>4, <3>4, <3>7
  <2> QED
      BY <2>5, <2>6
<1>4. Frames(wire')
    BY <1>1, <1>2, ViewAppend DEF Frames
<1>5. /\ seen' \in [Writer -> Nat] /\ (rpc' = "decode" => head'.frame \in Writer \X Nat)
      /\ run'.gone => gaveUp'
      /\ ~gaveUp' /\ rpc' = "decode" => seen'[head'.frame[1]] < head'.frame[2]
    BY <1>1 DEF MessageInv
<1> QED
    BY <1>1, <1>3, <1>4, <1>5 DEF MessageInv

(* What is taken off the transport comes after all that its writer has told. *)
LEMMA MessageTake ==
    ASSUME PoolInv, OrderInv, MessageInv, wire # <<>>, wire' = Tail(wire),
           UNCHANGED <<callVars, content, run, seen>>,
           \/ rpc = "wait" /\ rpc' = "decode" /\ head' = Head(wire) /\ Head(wire).part = "body"
           \/ rpc # "decode" /\ rpc' # "decode"
           \/ UNCHANGED <<rpc, head>>
    PROVE  MessageInv'
<1>1. wire \in Seq(Cell) /\ Frames(wire) /\ Head(wire) \in Cell
    BY DEF OrderInv, MessageInv
<1>2. ASSUME ~gaveUp, NEW w \in Writer
      PROVE  /\ Told(w)' <= Written(w)' /\ Ordered(View(wire', w), Told(w)', Written(w)')
             /\ rpc' = "decode" /\ head'.frame[1] = w => seen'[w] < head'.frame[2]
  <2> DEFINE v == View(wire, w)
             c == Head(wire)
             d == Of(c, w)
  <2>1. View(wire', w) = Tail(v) /\ v # <<>> /\ Head(v) = d /\ v \in Seq(Cell)
      BY <1>1, ViewTail, ViewType
  <2>2. Written(w)' = Written(w) /\ Told(w) \in Nat /\ Written(w) \in Nat
      BY MessageTypes DEF Written, Pending, callVars
  <2>3. Told(w) <= Written(w) /\ Ordered(v, Told(w), Written(w))
      BY <1>2 DEF MessageInv
  <2>4. CASE /\ rpc = "wait" /\ rpc' = "decode" /\ head' = c /\ c.part = "body" /\ c.frame[1] = w
    <3>1. Told(w) = seen[w] /\ Told(w)' = c.frame[2] /\ d.part = "body" /\ d.place = c.frame[2]
        BY <2>4 DEF Told, Of
    <3>2. Told(w) < d.place /\ d.place <= Written(w) /\ Ordered(Tail(v), d.place, Written(w))
      <4> HIDE DEF v, d
      <4> QED
          BY <2>1, <2>2, <2>3, <3>1, TakeBody
    <3> QED
        BY <2>1, <2>2, <2>4, <3>1, <3>2
  <2>5. CASE ~(rpc = "wait" /\ rpc' = "decode" /\ head' = c /\ c.part = "body" /\ c.frame[1] = w)
    <3>1. Told(w)' = Told(w)
        BY <2>5 DEF Told
    <3>2. Ordered(Tail(v), Told(w), Written(w))
      <4> HIDE DEF v
      <4> QED
          BY <2>1, <2>2, <2>3, TakeOther
    <3>3. rpc' = "decode" /\ head'.frame[1] = w => seen'[w] < head'.frame[2]
        BY <1>2, <2>5 DEF MessageInv
    <3> QED
        BY <2>1, <2>2, <2>3, <3>1, <3>2, <3>3
  <2> QED
      BY <2>4, <2>5
<1>3. Frames(wire') /\ Head(wire).frame \in Writer \X Nat
  <2>1. 1 \in DOMAIN wire /\ Head(wire) = wire[1]
      BY <1>1
  <2>2. DOMAIN wire' = 1..(Len(wire) - 1) /\ \A i \in DOMAIN wire' : i + 1 \in DOMAIN wire /\ wire'[i] = wire[i + 1]
      BY <1>1
  <2> QED
      BY <1>1, <2>1, <2>2 DEF Frames
<1>4. rpc' = "decode" => head'.frame \in Writer \X Nat
    BY <1>3 DEF MessageInv
<1>5. UNCHANGED <<gaveUp, run, seen>> /\ (run.gone => gaveUp) /\ seen \in [Writer -> Nat]
    BY DEF callVars, MessageInv
<1>6. ~gaveUp /\ rpc' = "decode" => seen'[head'.frame[1]] < head'.frame[2]
    BY <1>2, <1>4
<1> QED
    BY <1>2, <1>3, <1>4, <1>5, <1>6 DEF MessageInv

(* Every step keeps the messages of every writer in order.                   *)
LEMMA MessageStep ==
    ASSUME PoolInv, PoolInv', OrderInv, MessageInv, [Next]_vars
    PROVE  MessageInv'
<1>1. ASSUME NEW w \in Writer, Encode(w)
      PROVE  MessageInv'
  <2>1. /\ wpc[w] = "idle" /\ wpc' = [wpc EXCEPT ![w] = "offer"] /\ serial' = serial + 1
        /\ UNCHANGED <<gaveUp, run, seen, wire, rpc, head>>
      BY <1>1 DEF Encode, readSide
  <2>2. PICK b \in free : content' = [content EXCEPT ![b] = <<w, serial + 1>>] /\ wbuf' = [wbuf EXCEPT ![w] = b]
      BY <1>1 DEF Encode
  <2>3. ASSUME NEW v \in Writer
        PROVE  Written(v) <= Written(v)'
    <3>1. CASE v = w
      <4>1. Written(v) = serial /\ Written(v)' = content'[wbuf'[v]][2] - 1
          BY <2>1, <3>1 DEF Written, Pending, PoolInv
      <4>2. content'[wbuf'[v]] = <<w, serial + 1>>
          BY <2>2, <3>1 DEF PoolInv
      <4> QED
          BY <4>1, <4>2 DEF PoolInv
    <3>2. CASE v # w /\ Pending(v)
      <4>1. wbuf'[v] = wbuf[v] /\ wpc'[v] = wpc[v] /\ wbuf[v] \in Buffer \ free
          BY <2>1, <2>2, <3>2 DEF PoolInv, Pending
      <4>2. content'[wbuf'[v]] = content[wbuf[v]]
          BY <2>2, <4>1 DEF PoolInv
      <4>3. Written(v)' = Written(v)
          BY <2>1, <3>2, <4>1, <4>2 DEF Written, Pending
      <4> QED
          BY <4>3, MessageTypes
    <3>3. CASE v # w /\ ~Pending(v)
        BY <2>1, <3>3 DEF Written, Pending, PoolInv
    <3> QED
        BY <3>1, <3>2, <3>3
  <2> QED
      BY <2>1, <2>3, MessageFrame DEF MessageInv
<1>2. ASSUME NEW w \in Writer, Accept(w)
      PROVE  MessageInv'
  <2>1. /\ wpc[w] = "offer" /\ run.at = "idle" /\ run'.at = "write" /\ run'.gone = FALSE
        /\ wpc' = [wpc EXCEPT ![w] = "wait"]
        /\ UNCHANGED <<content, wbuf, serial, gaveUp, seen, wire, rpc, head>>
      BY <1>2 DEF Accept, poolVars, readSide
  <2>2. ASSUME NEW v \in Writer
        PROVE  Written(v) <= Written(v)'
    <3>1. wpc[v] # "wait" /\ wpc'[v] = IF v = w THEN "wait" ELSE wpc[v]
        BY <2>1 DEF PoolInv
    <3>2. Written(v)' = Written(v)
        BY <2>1, <3>1 DEF Written, Pending
    <3> QED
        BY <3>2, MessageTypes
  <2> QED
      BY <2>1, <2>2, MessageFrame
<1>3. ASSUME NEW w \in Writer, GiveUp(w)
      PROVE  MessageInv'
    BY <1>3, MessageFrame DEF GiveUp, readSide
<1>4. ASSUME NEW w \in Writer, Deliver(w)
      PROVE  MessageInv'
  <2>1. /\ run.at = "result" /\ run' = Idle /\ wpc' = [wpc EXCEPT ![w] = "idle"] /\ wpc[w] = "wait"
        /\ wbuf' = [wbuf EXCEPT ![w] = Nil]
        /\ UNCHANGED <<content, serial, gaveUp, seen, wire, rpc, head>>
      BY <1>4 DEF Deliver, Return, readSide, PoolInv
  <2>2. ASSUME NEW v \in Writer
        PROVE  Written(v) <= Written(v)'
    <3>1. Written(v)' = Written(v)
        BY <2>1 DEF Written, Pending, Idle, PoolInv
    <3> QED
        BY <3>1, MessageTypes
  <2> QED
      BY <2>1, <2>2, MessageFrame DEF Idle
<1>5. CASE WritePart
    BY <1>5, MessageWrite
<1>6. CASE WriteFails \/ Discard \/ RunnerStops
  <2>1. /\ run'.at # "write" /\ (run'.gone => run.gone)
        /\ UNCHANGED <<content, wpc, wbuf, serial, gaveUp, seen, wire, rpc, head>>
      BY <1>6 DEF WriteFails, Discard, RunnerStops, poolVars, callVars, readSide, Idle, PoolInv, Request
  <2>2. ASSUME NEW v \in Writer
        PROVE  Written(v) <= Written(v)'
    <3>1. Written(v)' = Written(v) \/ Written(v)' = serial
        BY <2>1 DEF Written, Pending
    <3> QED
        BY <3>1, MessageTypes DEF PoolInv
  <2> QED
      BY <2>1, <2>2, MessageFrame DEF MessageInv
<1>7. CASE ReadPart
  <2> DEFINE want == IF head = Nil THEN "head" ELSE "body"
             c    == Head(wire)
  <2>1. /\ rpc = "wait" /\ wire # <<>> /\ wire' = Tail(wire)
        /\ IF c.part = want
           THEN head' = c /\ rpc' = (IF want = "head" THEN "wait" ELSE "decode") /\ seen' = seen
           ELSE FailRead
        /\ UNCHANGED <<content, callVars, run>>
      BY <1>7 DEF ReadPart, writeSide, poolVars
  <2>2. \/ rpc' = "decode" /\ head' = Head(wire) /\ Head(wire).part = "body" /\ seen' = seen
        \/ rpc' # "decode" /\ seen' = seen
      BY <2>1 DEF FailRead
  <2> QED
      BY <2>1, <2>2, MessageTake
<1>8. CASE StaleRead
  <2>1. wire # <<>> /\ wire' = Tail(wire) /\ UNCHANGED <<content, callVars, run, seen, rpc, head>>
      BY <1>8 DEF StaleRead, writeSide, poolVars
  <2> QED
      BY <2>1, MessageTake
<1>9. CASE ShortRead
  <2>1. /\ rpc = "wait" /\ rpc' = "idle" /\ wire # <<>> /\ wire' = [wire EXCEPT ![1].part = "rest"]
        /\ UNCHANGED <<content, callVars, run, seen>>
      BY <1>9 DEF ShortRead, FailRead, writeSide, poolVars
  <2>2. DOMAIN wire' = DOMAIN wire /\ 1 \in DOMAIN wire /\ (\A i \in DOMAIN wire : wire[i] \in Cell)
        /\ (\A i \in DOMAIN wire : i # 1 => wire'[i] = wire[i])
      BY <2>1 DEF OrderInv
  <2>3. wire'[1] = [part |-> "rest", frame |-> wire[1].frame, place |-> wire[1].place]
    <3>1. wire'[1] = [wire[1] EXCEPT !.part = "rest"] /\ wire[1] \in Cell
        BY <2>1, <2>2
    <3> QED
        BY <3>1 DEF Cell
  <2>4. Frames(wire')
      BY <2>2, <2>3 DEF Frames, MessageInv
  <2>5. ASSUME ~gaveUp, NEW w \in Writer
        PROVE  Told(w)' <= Written(w)' /\ Ordered(View(wire', w), Told(w)', Written(w)')
    <3>1. Told(w)' = Told(w) /\ Written(w)' = Written(w)
        BY <2>1 DEF Told, Written, Pending, callVars
    <3>2. Told(w) <= Written(w) /\ Ordered(View(wire, w), Told(w), Written(w))
        BY <2>5 DEF MessageInv
    <3>3. /\ DOMAIN View(wire', w) = DOMAIN wire /\ DOMAIN View(wire, w) = DOMAIN wire
          /\ \A i \in DOMAIN wire : /\ View(wire', w)[i] = Of(wire'[i], w)
                                    /\ View(wire, w)[i] = Of(wire[i], w)
        BY <2>2 DEF View
    <3>4. \A i \in DOMAIN wire : View(wire', w)[i].part = "body" => View(wire', w)[i] = View(wire, w)[i]
        BY <2>2, <2>3, <3>3 DEF Of
    <3>5. Ordered(View(wire', w), Told(w), Written(w))
        BY <3>2, <3>3, <3>4 DEF Ordered
    <3> QED
        BY <3>1, <3>2, <3>5
  <2> QED
      BY <2>1, <2>4, <2>5 DEF MessageInv, callVars
<1>10. CASE BeginRead \/ GiveUpRead \/ TakeRead
  <2>1. /\ UNCHANGED <<content, callVars, run, wire, seen>> /\ rpc' # "decode"
        /\ rpc # "decode"
      BY <1>10 DEF BeginRead, GiveUpRead, TakeRead, FailRead, writeSide, poolVars
  <2> QED
      BY <2>1, MessageRead
<1>11. CASE Decode
  <2>1. /\ rpc = "decode" /\ rpc' # "decode" /\ UNCHANGED <<content, callVars, run, wire>>
      BY <1>11 DEF Decode, Handled, FailRead, writeSide, poolVars
  <2>2. CASE seen' = seen
      BY <2>1, <2>2, MessageRead DEF MessageInv
  <2>3. CASE seen' = See(head.frame)
    <3>1. head.frame \in Writer \X Nat /\ seen \in [Writer -> Nat]
        BY <2>1 DEF MessageInv
    <3>2. seen' \in [Writer -> Nat] /\ \A w \in Writer : seen'[w] = Told(w)
        BY <2>1, <2>3, <3>1 DEF See, Told
    <3>3. ASSUME ~gaveUp, NEW w \in Writer
          PROVE  Told(w)' <= Written(w)' /\ Ordered(View(wire', w), Told(w)', Written(w)')
      <4>1. Told(w)' = Told(w) /\ Written(w)' = Written(w) /\ wire' = wire
          BY <2>1, <3>2 DEF Told, Written, Pending, callVars
      <4> QED
          BY <3>3, <4>1 DEF MessageInv
    <3> QED
        BY <2>1, <3>2, <3>3 DEF MessageInv, callVars, Frames
  <2> QED
      BY <1>11, <2>2, <2>3 DEF Decode, FailRead
<1>12. CASE AddRoute \/ DelRoute \/ Close \/ ReaderStops \/ UNCHANGED vars
  <2>1. UNCHANGED <<content, wpc, wbuf, serial, gaveUp, run, seen, wire, rpc, head>>
      BY <1>12 DEF AddRoute, DelRoute, Close, ReaderStops, vars, writeSide, poolVars, callVars, readSide
  <2>2. ASSUME NEW v \in Writer
        PROVE  Written(v) <= Written(v)'
    <3>1. Written(v)' = Written(v)
        BY <2>1 DEF Written, Pending
    <3> QED
        BY <3>1, MessageTypes
  <2> QED
      BY <2>1, <2>2, MessageFrame DEF MessageInv
<1> QED
    BY <1>1, <1>2, <1>3, <1>4, <1>5, <1>6, <1>7, <1>8, <1>9, <1>10, <1>11, <1>12
    DEF Next, RunnerNext, ReaderNext

(* A message is decoded only as the one consumed last, which is newer than   *)
(* the one decoded last, and its successor as long as no Read has failed; it *)
(* is newer than all of its writer's that were told.                         *)
LEMMA DecodeInOrder ==
    ASSUME OrderInv, MessageInv, [Next]_vars, last' # last
    PROVE  /\ last' > last /\ (~lost => last' = last + 1)
           /\ ~gaveUp => head.frame[2] > seen[head.frame[1]]
<1> USE DEF readSide
<1>1. CASE Decode
  <2>1. rpc = "decode"
      BY <1>1 DEF Decode
  <2>2. last' > last /\ (~lost => last' = last + 1)
      BY <1>1 DEF Decode, FailRead, OrderInv, Cell
  <2>3. head.frame \in Writer \X Nat /\ seen \in [Writer -> Nat]
      BY <2>1 DEF MessageInv
  <2>4. head.frame[2] \in Nat /\ seen[head.frame[1]] \in Nat
      BY <2>3
  <2> QED
      BY <2>1, <2>2, <2>4 DEF MessageInv
<1>2. CASE ~Decode
    BY <1>2 DEF Next, RunnerNext, ReaderNext, Encode, Accept, GiveUp, Deliver, WritePart,
        WriteFails, Discard, RunnerStops, AddRoute, DelRoute, Close, ReadPart, ShortRead,
        StaleRead, ReaderStops, BeginRead, TakeRead, GiveUpRead, FailRead, vars
<1> QED
    BY <1>1, <1>2

(* Frames are decoded in the order of the transport, whatever reads fail in  *)
(* between, and none is left out before a Read has failed (ReadMessage,      *)
(* DecodeMessage); as long as no write is given up, each writer's messages   *)
(* come in the order of its writes and none comes twice.                     *)
THEOREM DecodesInOrder == Spec => DecodedInOrder
<1>1. Init => PoolInv /\ OrderInv /\ MessageInv
  <2>1. Init => PoolInv
      BY DEF Init, PoolInv, Content, Request, Idle
  <2>2. Init => OrderInv
    <3> SUFFICES ASSUME Init
                 PROVE  OrderInv
        OBVIOUS
    <3>1. nsent = 0 /\ wire = <<>> /\ last = 0 /\ lost = FALSE /\ rpc = "idle" /\ rrun = "idle"
        BY DEF Init
    <3>2. Ordered(<<>>, 0, 0) /\ Complete(<<>>, 0, 0)
        BY DEF Ordered, Complete
    <3>3. Consumed = 0
        BY <3>1 DEF Consumed
    <3>4. Ordered(wire, Consumed, nsent) /\ Complete(wire, Consumed, nsent)
        BY <3>1, <3>2, <3>3
    <3>5. wire \in Seq(Cell)
        BY <3>1
    <3>6. lost \in BOOLEAN /\ (rrun = "stale" => lost) /\ rpc # "decode"
        BY <3>1
    <3>7. nsent \in Nat /\ last \in Nat /\ Consumed <= nsent
        BY <3>1, <3>3
    <3> QED
        BY <3>4, <3>5, <3>6, <3>7 DEF OrderInv
  <2>3. Init => MessageInv
    <3> SUFFICES ASSUME Init
                 PROVE  MessageInv
        OBVIOUS
    <3>1. wire = <<>> /\ rpc = "idle" /\ run.gone = FALSE /\ seen = [w \in Writer |-> 0]
        BY DEF Init, Idle
    <3>2. ASSUME NEW w \in Writer
          PROVE  Told(w) <= Written(w) /\ Ordered(View(wire, w), Told(w), Written(w))
      <4>1. Told(w) = 0 /\ Written(w) = 0
          BY <3>1 DEF Init, Told, Written, Pending
      <4>2. DOMAIN View(wire, w) = {}
          BY <3>1 DEF View
      <4> QED
          BY <4>1, <4>2 DEF Ordered
    <3> QED
        BY <3>1, <3>2 DEF MessageInv, Frames
  <2> QED
      BY <2>1, <2>2, <2>3
<1>2. PoolInv /\ OrderInv /\ MessageInv /\ [Next]_vars => PoolInv' /\ OrderInv' /\ MessageInv'
    BY PoolStep, OrderStep, MessageStep
<1>3. OrderInv /\ MessageInv /\ [Next]_vars =>
        [last' # last => /\ last' > last
                         /\ ~lost => last' = last + 1
                         /\ ~gaveUp => head.frame[2] > seen[head.frame[1]]]_vars
    BY DecodeInOrder
<1> QED
    BY <1>1, <1>2, <1>3, PTL DEF Spec, DecodedInOrder
=============================================================================
