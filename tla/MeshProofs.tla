----------------------------- MODULE MeshProofs -----------------------------
(* Theorems about Mesh, for any nodes, seeds and connections at the start,   *)
(* and any number of faults.                                                 *)
EXTENDS Mesh, FiniteSetTheorems, SequenceTheorems, TLAPS

Entry == [known : BOOLEAN, outbound : BOOLEAN, conn : Conn \cup {Nil}, dialing : BOOLEAN,
          failed : Nat, shared : SUBSET Node]
EndSt == {"closed", "aborted", "backlog", "init", "wait", "sharing", "done"}

(* A function of the connections and their ends.                             *)
Nest(f) == f = [c \in Conn |-> f[c]] /\ \A c \in Conn : f[c] = [n \in Ends(c) |-> f[c][n]]

TypeInv ==
    /\ book \in [Node -> [Node -> Entry]]
    /\ queued \in [Node -> SUBSET Node]
    /\ dials \in [Node -> [Node -> 0..2]]
    /\ retry \in [Node -> SUBSET Node]
    /\ Nest(end) /\ \A c \in Conn : \A n \in Ends(c) : end[c][n] \in EndSt
    /\ Nest(wire)
    /\ hook \in [Conn -> SUBSET Node]
    /\ Nest(todo) /\ \A c \in Conn : \A n \in Ends(c) : todo[c][n] \subseteq Node \ {n}
    /\ Nest(absent) /\ \A c \in Conn : \A n \in Ends(c) : absent[c][n] \in (Node \ {n}) \cup {Nil}

(* A node never dials itself, and finds an unused connection for each of its *)
(* dials.                                                                    *)
DialInv ==
    /\ \A n \in Node : /\ ~book[n][n].known /\ dials[n][n] = 0
                       /\ n \notin queued[n] /\ n \notin retry[n]
    /\ \A n, p \in Node :
        /\ dials[n][p] = 1 => \E k \in {1, 2} : Unused(<<n, p, k>>)
        /\ dials[n][p] = 2 => \A k \in {1, 2} : Unused(<<n, p, k>>)

(* The entry of a peer holds a connection with the peer, the one whose close *)
(* will reset the entry.                                                     *)
HookInv ==
    /\ \A n, p \in Node : LET c == book[n][p].conn
                          IN c # Nil => book[n][p].known /\ Ends(c) = {n, p} /\ n \in hook[c]
    /\ \A c \in Conn : \A n \in hook[c] : n \in Ends(c) /\ book[n][Other(c, n)].conn = c

OnWay(c, d, l) == wire[c][c[1]] = d /\ wire[c][c[2]] = l

(* A Handshaker that is not done will meet a handshake before any peers.     *)
Clean(c, n) ==
    \/ end[c][n] \in {"sharing", "done"}
    \/ wire[c][n] = <<>>
    \/ wire[c][n] # <<>> /\ wire[c][n][1] = Handshake

(* What holds of every end: it has not aborted, nothing is on the way to one *)
(* that is closed.                                                           *)
EndFine(c, n) ==
    /\ end[c][n] # "aborted" /\ Clean(c, n)
    /\ end[c][n] = "closed" => wire[c][n] = <<>>

(* A connection that is gone at one end at least.                            *)
Halved(c) == (\E n \in Ends(c) : end[c][n] = "closed") /\ \A n \in Ends(c) : EndFine(c, n)

(* How far the two Handshakers of a connection are, and what is on the way   *)
(* to each, until both have seen the other's handshake.                      *)
Whole(c) ==
    LET d == end[c][c[1]]
        l == end[c][c[2]]
    IN \/ d = "init" /\ l \in {"backlog", "wait"} /\ OnWay(c, <<>>, <<>>)
       \/ d = "wait" /\ l \in {"backlog", "wait"} /\ OnWay(c, <<>>, <<Handshake>>)
       \/ d = "wait" /\ l = "sharing" /\ OnWay(c, <<Handshake>>, <<>>)
       \/ d = "wait" /\ l = "done" /\ \E ids : OnWay(c, <<Handshake, Peers(ids)>>, <<>>)
       \/ d \in {"sharing", "done"} /\ l \in {"sharing", "done"}

InStep(c) == Whole(c) \/ Halved(c)

HandshakeInv == \A c \in Conn : InStep(c)

MeshInv == TypeInv /\ DialInv /\ HookInv /\ HandshakeInv

-----------------------------------------------------------------------------
(* A connection has two ends, of which one dialled.                          *)
LEMMA ConnEnds ==
    ASSUME NEW c \in Conn
    PROVE  /\ c[1] \in Node /\ c[2] \in Node /\ c[1] # c[2] /\ c[3] \in {1, 2}
           /\ c = <<c[1], c[2], c[3]>> /\ c # Nil
           /\ \A n \in Ends(c) : n \in Node /\ Other(c, n) \in Node /\ Other(c, n) # n
                                 /\ Ends(c) = {n, Other(c, n)}
BY NilAssumption DEF Conn, Ends, Other

(* What is written into the book are entries.                                *)
LEMMA NewEntryType ==
    ASSUME NEW outbound \in BOOLEAN
    PROVE  NewEntry(outbound) \in Entry
<1>1. Unknown \in Entry
    BY DEF Unknown, Entry
<1> QED
    BY <1>1 DEF Entry, NewEntry

(* An entry stays an entry when one of its fields changes.                   *)
LEMMA EntryUpdates ==
    ASSUME NEW e \in Entry
    PROVE  /\ \A b \in BOOLEAN : [e EXCEPT !.dialing = b] \in Entry
           /\ \A k \in Nat : [e EXCEPT !.failed = k] \in Entry
           /\ \A ids \in SUBSET Node : [e EXCEPT !.shared = ids] \in Entry
           /\ \A c \in Conn \cup {Nil} : [e EXCEPT !.conn = c] \in Entry
<1>1. ASSUME NEW b \in BOOLEAN
      PROVE  [e EXCEPT !.dialing = b] \in Entry
    BY DEF Entry
<1>2. ASSUME NEW k \in Nat
      PROVE  [e EXCEPT !.failed = k] \in Entry
    BY DEF Entry
<1>3. ASSUME NEW ids \in SUBSET Node
      PROVE  [e EXCEPT !.shared = ids] \in Entry
    BY DEF Entry
<1>4. ASSUME NEW c \in Conn \cup {Nil}
      PROVE  [e EXCEPT !.conn = c] \in Entry
    BY DEF Entry
<1> QED
    BY <1>1, <1>2, <1>3, <1>4

(* Writing an entry keeps the type of the book.                              *)
LEMMA BookWrite ==
    ASSUME TypeInv, NEW n \in Node, NEW p \in Node, NEW e \in Entry
    PROVE  [book EXCEPT ![n][p] = e] \in [Node -> [Node -> Entry]]
BY DEF TypeInv

(* Writing one end of one connection.                                        *)
Put(f, c, n, v) == [f EXCEPT ![c][n] = v]

LEMMA NestWrite ==
    ASSUME NEW f, Nest(f), NEW c \in Conn, NEW n \in Ends(c), NEW v
    PROVE  /\ Nest(Put(f, c, n, v)) /\ Put(f, c, n, v)[c][n] = v
           /\ \A d \in Conn : \A m \in Ends(d) : ~(d = c /\ m = n) => Put(f, c, n, v)[d][m] = f[d][m]
<1> DEFINE g == Put(f, c, n, v)
<1>1. g = [f EXCEPT ![c] = [f[c] EXCEPT ![n] = v]]
    BY DEF Put
<1>2. [f[c] EXCEPT ![n] = v] = [m \in Ends(c) |-> IF m = n THEN v ELSE f[c][m]]
    BY DEF Nest
<1>3. g[c] = [m \in Ends(c) |-> IF m = n THEN v ELSE f[c][m]] /\ \A d \in Conn : d # c => g[d] = f[d]
    BY <1>1, <1>2 DEF Nest
<1>4. g = [d \in Conn |-> g[d]]
    BY <1>1 DEF Nest
<1>5. \A d \in Conn : g[d] = [m \in Ends(d) |-> g[d][m]]
    BY <1>3 DEF Nest
<1> QED
    BY <1>3, <1>4, <1>5 DEF Nest

(* A message is put on the way to an end, or one is taken from an end and    *)
(* another put on the way to the other.                                      *)
LEMMA WireTypes ==
    ASSUME TypeInv, NEW c \in Conn, NEW n \in Ends(c), NEW m \in Ends(c), NEW v, NEW w,
           wire' = [wire EXCEPT ![c][n] = v] \/ wire' = [wire EXCEPT ![c][n] = v, ![c][m] = w]
    PROVE  Nest(wire')
<1>1. Nest(wire) /\ Nest(Put(wire, c, n, v))
    BY NestWrite DEF TypeInv
<1>2. Nest(Put(Put(wire, c, n, v), c, m, w))
    BY <1>1, NestWrite
<1>3. wire' = Put(wire, c, n, v) \/ wire' = Put(Put(wire, c, n, v), c, m, w)
    BY DEF Put
<1> QED
    BY <1>1, <1>2, <1>3

(* What a handler has left to look up or to insert stays peers of its node.  *)
LEMMA TodoTypes ==
    ASSUME TypeInv, NEW c \in Conn, NEW n \in Ends(c), NEW ps \in SUBSET (Node \ {n}),
           todo' = Put(todo, c, n, ps)
    PROVE  Nest(todo') /\ \A d \in Conn : \A m \in Ends(d) : todo'[d][m] \subseteq Node \ {m}
<1>2. /\ Nest(Put(todo, c, n, ps))
      /\ \A d \in Conn : \A m \in Ends(d) : Put(todo, c, n, ps)[d][m] = IF d = c /\ m = n THEN ps ELSE todo[d][m]
    BY NestWrite DEF TypeInv
<1>3. \A d \in Conn : \A m \in Ends(d) : todo[d][m] \subseteq Node \ {m}
    BY DEF TypeInv
<1>4. Nest(todo')
    BY <1>2
<1>5. ASSUME NEW d \in Conn, NEW m \in Ends(d)
      PROVE  todo'[d][m] \subseteq Node \ {m}
  <2>1. todo'[d][m] = IF d = c /\ m = n THEN ps ELSE todo[d][m]
      BY <1>2
  <2> QED
      BY <1>3, <2>1
<1> QED
    BY <1>4, <1>5

LEMMA AbsentTypes ==
    ASSUME TypeInv, NEW c \in Conn, NEW n \in Ends(c), NEW p \in (Node \ {n}) \cup {Nil},
           absent' = [absent EXCEPT ![c][n] = p]
    PROVE  /\ Nest(absent')
           /\ \A d \in Conn : \A m \in Ends(d) : absent'[d][m] \in (Node \ {m}) \cup {Nil}
<1>1. absent' = Put(absent, c, n, p)
    BY DEF Put
<1>2. /\ Nest(Put(absent, c, n, p))
      /\ \A d \in Conn : \A m \in Ends(d) : Put(absent, c, n, p)[d][m] = IF d = c /\ m = n THEN p ELSE absent[d][m]
    BY NestWrite DEF TypeInv
<1>3. \A d \in Conn : \A m \in Ends(d) : absent[d][m] \in (Node \ {m}) \cup {Nil}
    BY DEF TypeInv
<1>4. Nest(absent')
    BY <1>1, <1>2
<1>5. ASSUME NEW d \in Conn, NEW m \in Ends(d)
      PROVE  absent'[d][m] \in (Node \ {m}) \cup {Nil}
  <2>1. absent'[d][m] = IF d = c /\ m = n THEN p ELSE absent[d][m]
      BY <1>1, <1>2
  <2> QED
      BY <1>3, <2>1
<1> QED
    BY <1>4, <1>5

(* A Handshaker moves on.                                                    *)
LEMMA EndTypes ==
    ASSUME TypeInv, NEW c \in Conn, NEW n \in Ends(c), NEW st \in EndSt,
           end' = [end EXCEPT ![c][n] = st]
    PROVE  Nest(end') /\ \A d \in Conn : \A m \in Ends(d) : end'[d][m] \in EndSt
<1>1. end' = Put(end, c, n, st)
    BY DEF Put
<1>2. /\ Nest(Put(end, c, n, st))
      /\ \A d \in Conn : \A m \in Ends(d) : Put(end, c, n, st)[d][m] = IF d = c /\ m = n THEN st ELSE end[d][m]
    BY NestWrite DEF TypeInv
<1>3. \A d \in Conn : \A m \in Ends(d) : end[d][m] \in EndSt
    BY DEF TypeInv
<1> QED
    BY <1>1, <1>2, <1>3

(* AddConn keeps the types.                                                  *)
LEMMA AddConnType ==
    ASSUME TypeInv, NEW c \in Conn, NEW n \in Ends(c), NEW outbound \in BOOLEAN,
           AddConn(n, Other(c, n), outbound, c)
    PROVE  /\ book' \in [Node -> [Node -> Entry]] /\ hook' \in [Conn -> SUBSET Node]
           /\ absent' = [absent EXCEPT ![c][n] = Nil]
           /\ Nest(absent')
           /\ \A d \in Conn : \A m \in Ends(d) : absent'[d][m] \in (Node \ {m}) \cup {Nil}
<1> DEFINE p == Other(c, n)
           new == absent[c][n] = p \/ ~book[n][p].known
           e == IF new THEN NewEntry(outbound) ELSE book[n][p]
           kept == IF new THEN Forget(n, book[n][p].conn) ELSE hook
<1>1. n \in Node /\ p \in Node
    BY ConnEnds
<1>2. e \in Entry
    BY <1>1, NewEntryType DEF TypeInv
<1>3. [e EXCEPT !.conn = c, !.shared = {}] \in Entry
    BY <1>2 DEF Entry
<1>4. kept \in [Conn -> SUBSET Node]
    BY DEF Forget, TypeInv
<1>5. book' = [book EXCEPT ![n][p] = IF e.conn = Nil THEN [e EXCEPT !.conn = c, !.shared = {}] ELSE e]
    BY DEF AddConn
<1>6. hook' = IF e.conn = Nil THEN [kept EXCEPT ![c] = @ \cup {n}] ELSE kept
    BY DEF AddConn
<1>7. absent' = [absent EXCEPT ![c][n] = Nil]
    BY DEF AddConn
<1> HIDE DEF e, p, kept
<1>8. [book EXCEPT ![n][p] = IF e.conn = Nil THEN [e EXCEPT !.conn = c, !.shared = {}] ELSE e]
          \in [Node -> [Node -> Entry]]
    BY <1>1, <1>2, <1>3 DEF TypeInv
<1>9. [kept EXCEPT ![c] = @ \cup {n}] \in [Conn -> SUBSET Node]
    BY <1>1, <1>4
<1>10. /\ Nest(absent')
       /\ \A d \in Conn : \A m \in Ends(d) : absent'[d][m] \in (Node \ {m}) \cup {Nil}
    BY <1>7, AbsentTypes
<1> QED
    BY <1>4, <1>5, <1>6, <1>7, <1>8, <1>9, <1>10

(* How often a node is on its way to a peer says how many of the connections *)
(* it could get are unused.                                                  *)
LEMMA DialledCounts ==
    ASSUME TypeInv, NEW n \in Node, NEW p \in Node, n # p
    PROVE  /\ Dialled(n, p) = 0 => dials[n][p] = 0 /\ \A k \in {1, 2} : Unused(<<n, p, k>>)
           /\ Dialled(n, p) = 1 => \/ dials[n][p] = 0 /\ \E k \in {1, 2} : Unused(<<n, p, k>>)
                                   \/ dials[n][p] = 1 /\ \A k \in {1, 2} : Unused(<<n, p, k>>)
<1> DEFINE U == {c \in Conn : c[1] = n /\ c[2] = p /\ ~Unused(c)}
           a == <<n, p, 1>>
           b == <<n, p, 2>>
<1>1. a \in Conn /\ b \in Conn /\ a # b
    BY DEF Conn
<1>2. U \subseteq {a, b} /\ (~Unused(a) => a \in U) /\ (~Unused(b) => b \in U)
    BY <1>1, ConnEnds
<1>3. IsFiniteSet(U)
  <2>1. IsFiniteSet({a} \cup {b})
      BY FS_Singleton, FS_Union
  <2>2. {a} \cup {b} = {a, b}
      OBVIOUS
  <2> QED
      BY <1>2, <2>1, <2>2, FS_Subset
<1>4. Cardinality(U) \in Nat /\ (Cardinality(U) = 0 => U = {}) /\ (Cardinality(U) = 1 => \E u : U = {u})
    BY <1>3, FS_CardinalityType, FS_EmptySet, FS_Singleton
<1>5. Dialled(n, p) = dials[n][p] + Cardinality(U) /\ dials[n][p] \in Nat
    BY DEF Dialled, TypeInv
<1>6. Cardinality(U) = 0 => Unused(a) /\ Unused(b)
    BY <1>2, <1>4
<1>7. Cardinality(U) = 1 => Unused(a) \/ Unused(b)
    BY <1>1, <1>2, <1>4
<1> HIDE DEF U, a, b
<1>8. /\ Dialled(n, p) = 0 => dials[n][p] = 0 /\ Cardinality(U) = 0
      /\ Dialled(n, p) = 1 => \/ dials[n][p] = 0 /\ Cardinality(U) = 1
                              \/ dials[n][p] = 1 /\ Cardinality(U) = 0
    BY <1>4, <1>5
<1> QED
    BY <1>6, <1>7, <1>8 DEF a, b

(* A dialer whose dial succeeds gets an unused connection.                   *)
LEMMA DialFindsUnused ==
    ASSUME TypeInv, DialInv, NEW n \in Node, NEW p \in Node, DialSucceeds(n, p)
    PROVE  n # p /\ \E k \in {1, 2} :
               /\ <<n, p, k>> \in Conn /\ Unused(<<n, p, k>>)
               /\ end' = [end EXCEPT ![<<n, p, k>>] = NewHandshaker(n, p)]
<1> DEFINE IsFor(c) == c[1] = n /\ c[2] = p /\ Unused(c)
           d == CHOOSE c \in Conn : IsFor(c)
<1>1. dials[n][p] \in {1, 2} /\ n # p
    BY DEF DialSucceeds, TypeInv, DialInv
<1>2. PICK k \in {1, 2} : Unused(<<n, p, k>>)
    BY <1>1 DEF DialInv
<1>3. <<n, p, k>> \in Conn /\ IsFor(<<n, p, k>>)
    BY <1>1, <1>2 DEF Conn
<1>4. d \in Conn /\ IsFor(d)
    BY <1>3
<1>5. end' = [end EXCEPT ![d] = NewHandshaker(n, p)]
    BY DEF DialSucceeds
<1>6. d = <<n, p, d[3]>> /\ d[3] \in {1, 2}
    BY <1>4, ConnEnds
<1> HIDE DEF d
<1> QED
    BY <1>1, <1>4, <1>5, <1>6

(* Every step keeps the types.                                               *)
LEMMA TypeStep == TypeInv /\ DialInv /\ [Next]_vars => TypeInv'
<1> SUFFICES ASSUME TypeInv, DialInv, [Next]_vars
             PROVE  TypeInv'
    OBVIOUS
<1> USE DEF TypeInv
<1>1. ASSUME NEW n \in Node, Monitor(n)
      PROVE  TypeInv'
    BY <1>1 DEF Monitor
<1>2. ASSUME NEW n \in Node, NEW p \in Node, Dial(n, p)
      PROVE  TypeInv'
  <2>1. queued' \in [Node -> SUBSET Node] /\ UNCHANGED <<retry, end, wire, hook, todo, absent>>
      BY <1>2 DEF Dial
  <2>2. book' \in [Node -> [Node -> Entry]]
    <3>1. [book[n][p] EXCEPT !.dialing = FALSE] \in Entry /\ [book[n][p] EXCEPT !.dialing = TRUE] \in Entry
      <4>1. book[n][p] \in Entry
          OBVIOUS
      <4> QED
          BY <4>1, EntryUpdates
    <3>2. PICK b \in BOOLEAN : book' = [book EXCEPT ![n][p] = [book[n][p] EXCEPT !.dialing = b]]
        BY <1>2 DEF Dial
    <3>3. [book[n][p] EXCEPT !.dialing = b] \in Entry
        BY <3>1
    <3> QED
        BY <3>2, <3>3, BookWrite
  <2>3. dials' \in [Node -> [Node -> 0..2]]
    <3>1. UNCHANGED dials \/ (Dialled(n, p) \in {0, 1} /\ dials' = [dials EXCEPT ![n][p] = @ + 1])
        BY <1>2 DEF Dial
    <3>2. n # p
        BY <1>2 DEF Dial, DialInv
    <3>3. Dialled(n, p) \in {0, 1} => dials[n][p] = 0 \/ dials[n][p] = 1
        BY <3>2, DialledCounts
    <3>4. dials' = dials \/ dials' = [dials EXCEPT ![n][p] = 1] \/ dials' = [dials EXCEPT ![n][p] = 2]
        BY <3>1, <3>3
    <3>5. 1 \in 0..2 /\ 2 \in 0..2 /\ dials \in [Node -> [Node -> 0..2]]
        OBVIOUS
    <3>6. CASE dials' = dials
        BY <3>5, <3>6
    <3>7. CASE dials' = [dials EXCEPT ![n][p] = 1]
        BY <3>5, <3>7
    <3>8. CASE dials' = [dials EXCEPT ![n][p] = 2]
        BY <3>5, <3>8
    <3> QED
        BY <3>4, <3>6, <3>7, <3>8
  <2> QED
      BY <2>1, <2>2, <2>3
<1>3. ASSUME NEW n \in Node, NEW p \in Node, DialSucceeds(n, p)
      PROVE  TypeInv'
  <2>1. book' \in [Node -> [Node -> Entry]]
    <3> DEFINE e == [book[n][p] EXCEPT !.dialing = FALSE]
    <3>1. book[n][p] \in Entry
        OBVIOUS
    <3>2. e \in Entry
        BY <3>1, EntryUpdates
    <3>3. [e EXCEPT !.failed = 0] \in Entry
        BY <3>2, EntryUpdates
    <3>4. book' = [book EXCEPT ![n][p] = [e EXCEPT !.failed = 0]]
        BY <1>3 DEF DialSucceeds
    <3> QED
        BY <3>3, <3>4, BookWrite
  <2>2. dials[n][p] \in {1, 2} /\ dials' = [dials EXCEPT ![n][p] = @ - 1]
      BY <1>3 DEF DialSucceeds
  <2>3. dials' \in [Node -> [Node -> 0..2]]
      BY <2>2
  <2>4. PICK c \in Conn : c[1] = n /\ c[2] = p /\ end' = [end EXCEPT ![c] = NewHandshaker(n, p)]
      BY <1>3, DialFindsUnused
  <2>5. NewHandshaker(n, p) \in [Ends(c) -> EndSt]
      BY <2>4 DEF NewHandshaker, Ends, EndSt
  <2>6. Nest(end') /\ \A d \in Conn : \A m \in Ends(d) : end'[d][m] \in EndSt
    <3>1. \A d \in Conn : end'[d] = IF d = c THEN NewHandshaker(n, p) ELSE end[d]
        BY <2>4 DEF Nest
    <3>2. end' = [d \in Conn |-> end'[d]]
        BY <2>4 DEF Nest
    <3>3. \A d \in Conn : end[d] = [m \in Ends(d) |-> end[d][m]] /\ \A m \in Ends(d) : end[d][m] \in EndSt
        BY DEF Nest
    <3>4. ASSUME NEW d \in Conn
          PROVE  end'[d] = [m \in Ends(d) |-> end'[d][m]] /\ \A m \in Ends(d) : end'[d][m] \in EndSt
      <4>1. CASE d = c
        <5>1. end'[d] = NewHandshaker(n, p)
            BY <3>1, <4>1
        <5> QED
            BY <2>5, <4>1, <5>1
      <4>2. CASE d # c
        <5>1. end'[d] = end[d]
            BY <3>1, <4>2
        <5> QED
            BY <3>3, <5>1
      <4> QED
          BY <4>1, <4>2
    <3> QED
        BY <3>2, <3>4 DEF Nest
  <2>7. UNCHANGED <<queued, retry, wire, hook, todo, absent>>
      BY <1>3 DEF DialSucceeds
  <2> QED
      BY <2>1, <2>3, <2>6, <2>7
<1>4. ASSUME NEW n \in Node, NEW p \in Node, DialFails(n, p)
      PROVE  TypeInv'
  <2>1. retry' \in [Node -> SUBSET Node] /\ UNCHANGED <<queued, end, wire, hook, todo, absent>>
      BY <1>4 DEF DialFails
  <2>2. book' \in [Node -> [Node -> Entry]]
    <3> DEFINE e == [book[n][p] EXCEPT !.dialing = FALSE]
    <3>1. book[n][p] \in Entry
        OBVIOUS
    <3>2. book[n][p].failed + 1 \in Nat
        BY <3>1 DEF Entry
    <3>3. e \in Entry
        BY <3>1, EntryUpdates
    <3>4. [e EXCEPT !.failed = book[n][p].failed + 1] \in Entry
        BY <3>2, <3>3, EntryUpdates
    <3>5. book' = [book EXCEPT ![n][p] = [e EXCEPT !.failed = book[n][p].failed + 1]]
        BY <1>4 DEF DialFails
    <3> QED
        BY <3>4, <3>5, BookWrite
  <2>3. dials' \in [Node -> [Node -> 0..2]]
      BY <1>4 DEF DialFails
  <2> QED
      BY <2>1, <2>2, <2>3
<1>5. ASSUME NEW n \in Node, NEW p \in Node, Retry(n, p)
      PROVE  TypeInv'
    BY <1>5 DEF Retry
<1>6. ASSUME NEW c \in Conn, InitHandshake(c)
      PROVE  TypeInv'
  <2>1. c[1] \in Ends(c) /\ c[2] \in Ends(c) /\ c[2] = Other(c, c[1])
      BY DEF Ends, Other
  <2>2. AddConn(c[1], Other(c, c[1]), TRUE, c) /\ UNCHANGED <<queued, dials, retry, todo>>
      BY <1>6, <2>1 DEF InitHandshake
  <2>3. end' = [end EXCEPT ![c][c[1]] = "wait"] /\ wire' = [wire EXCEPT ![c][c[2]] = Sent(c, c[2], Handshake)]
      BY <1>6 DEF InitHandshake
  <2>4. Nest(wire') /\ Nest(end') /\ \A d \in Conn : \A m \in Ends(d) : end'[d][m] \in EndSt
      BY <2>1, <2>3, WireTypes, EndTypes DEF EndSt
  <2> QED
      BY <2>1, <2>2, <2>4, AddConnType
<1>7. ASSUME NEW c \in Conn, Accept(c)
      PROVE  TypeInv'
  <2>1. c[2] \in Ends(c) /\ end' = [end EXCEPT ![c][c[2]] = "wait"]
      BY <1>7 DEF Accept, Ends
  <2>2. UNCHANGED <<book, queued, dials, retry, wire, hook, todo, absent>>
      BY <1>7 DEF Accept
  <2> QED
      BY <2>1, <2>2, EndTypes DEF EndSt
<1>8. ASSUME NEW c \in Conn, NEW n \in Ends(c), Break(c, n) \/ Notice(c, n)
      PROVE  TypeInv'
  <2>1. end' = [end EXCEPT ![c][n] = "closed"] /\ wire' = [wire EXCEPT ![c][n] = <<>>]
      BY <1>8 DEF Break, Notice, Shut
  <2>2. Nest(wire') /\ Nest(end') /\ \A d \in Conn : \A m \in Ends(d) : end'[d][m] \in EndSt
      BY <2>1, WireTypes, EndTypes DEF EndSt
  <2>3. UNCHANGED <<book, queued, dials, retry, hook, todo, absent>>
      BY <1>8 DEF Break, Notice
  <2> QED
      BY <2>2, <2>3
<1>9. ASSUME NEW c \in Conn, NEW n \in Ends(c), AnswerHandshake(c, n)
      PROVE  TypeInv'
  <2>1. AddConn(n, Other(c, n), FALSE, c) /\ UNCHANGED <<queued, dials, retry, todo>>
      BY <1>9 DEF AnswerHandshake
  <2>2. /\ end' = [end EXCEPT ![c][n] = "sharing"]
        /\ wire' = [wire EXCEPT ![c][n] = Tail(wire[c][n]),
                                ![c][Other(c, n)] = Sent(c, Other(c, n), Handshake)]
      BY <1>9 DEF AnswerHandshake
  <2>3. Other(c, n) \in Ends(c) /\ Other(c, n) # n
      BY ConnEnds
  <2>4. Nest(wire')
      BY <2>2, <2>3, WireTypes
  <2>5. Nest(end') /\ \A d \in Conn : \A m \in Ends(d) : end'[d][m] \in EndSt
      BY <2>2, EndTypes DEF EndSt
  <2> QED
      BY <2>1, <2>4, <2>5, AddConnType
<1>10. ASSUME NEW c \in Conn, NEW n \in Ends(c), EnterGone(c, n)
       PROVE  TypeInv'
  <2>1. AddConn(n, Other(c, n), FALSE, c) /\ UNCHANGED <<queued, dials, retry, todo, end, wire>>
      BY <1>10 DEF EnterGone
  <2> QED
      BY <2>1, AddConnType
<1>11. ASSUME NEW c \in Conn, NEW n \in Ends(c), SharePeers(c, n)
       PROVE  TypeInv'
  <2>1. n \in Node /\ Other(c, n) \in Node /\ Other(c, n) \in Ends(c)
      BY ConnEnds
  <2>2. book' \in [Node -> [Node -> Entry]]
    <3> DEFINE ids == ActivePeers(n, Other(c, n))
    <3>1. ids \subseteq Node
        BY DEF ActivePeers
    <3>2. SetSharedPeers(n, Other(c, n), ids)
        BY <1>11 DEF SharePeers
    <3> HIDE DEF ids
    <3>3. book[n][Other(c, n)] \in Entry
        BY <2>1
    <3>4. book[n][Other(c, n)].shared \cup ids \subseteq Node
        BY <3>1, <3>3 DEF Entry
    <3>5. [book[n][Other(c, n)] EXCEPT !.shared = @ \cup ids] \in Entry
        BY <3>3, <3>4, EntryUpdates
    <3> QED
        BY <2>1, <3>2, <3>5 DEF SetSharedPeers, AddShared
  <2>3. /\ end' = [end EXCEPT ![c][n] = "done"]
        /\ wire' = [wire EXCEPT ![c][Other(c, n)] = Sent(c, Other(c, n), Peers(ActivePeers(n, Other(c, n))))]
        /\ UNCHANGED <<queued, dials, retry, hook, todo, absent>>
      BY <1>11 DEF SharePeers
  <2>4. Nest(wire') /\ Nest(end') /\ \A d \in Conn : \A m \in Ends(d) : end'[d][m] \in EndSt
      BY <2>1, <2>3, WireTypes, EndTypes DEF EndSt
  <2> QED
      BY <2>2, <2>3, <2>4
<1>12. ASSUME NEW c \in Conn, NEW n \in Ends(c), LookUp(c, n)
       PROVE  TypeInv'
  <2>1. Other(c, n) \in Node \ {n}
      BY ConnEnds
  <2>2. /\ absent' = [absent EXCEPT ![c][n] = Other(c, n)]
        /\ UNCHANGED <<book, queued, dials, retry, end, wire, hook, todo>>
      BY <1>12 DEF LookUp
  <2> QED
      BY <2>1, <2>2, AbsentTypes
<1>13. ASSUME NEW c \in Conn, NEW n \in Ends(c), PeersMsg(c, n)
       PROVE  TypeInv'
  <2>1. UNCHANGED <<book, queued, dials, retry, hook, absent>>
      BY <1>13 DEF PeersMsg
  <2>2. PICK k \in DOMAIN wire[c][n] :
            \/ /\ todo' = [todo EXCEPT ![c][n] = wire[c][n][k].ids \cap (Node \ {n})]
               /\ wire' = [wire EXCEPT ![c][n] = SubSeq(wire[c][n], k + 1, Len(wire[c][n]))]
               /\ end' = end
            \/ Shut(c, n, "aborted") /\ todo' = todo
      BY <1>13 DEF PeersMsg
  <2>3. CASE /\ todo' = [todo EXCEPT ![c][n] = wire[c][n][k].ids \cap (Node \ {n})]
             /\ wire' = [wire EXCEPT ![c][n] = SubSeq(wire[c][n], k + 1, Len(wire[c][n]))]
             /\ end' = end
    <3>1. Nest(wire')
        BY <2>3, WireTypes
    <3>2. PICK ps \in SUBSET (Node \ {n}) : ps = wire[c][n][k].ids \cap (Node \ {n})
        OBVIOUS
    <3>3. todo' = Put(todo, c, n, ps)
        BY <2>3, <3>2 DEF Put
    <3>4. Nest(todo') /\ \A d \in Conn : \A m \in Ends(d) : todo'[d][m] \subseteq Node \ {m}
        BY <3>3, TodoTypes
    <3> QED
        BY <2>1, <2>3, <3>1, <3>4
  <2>4. CASE Shut(c, n, "aborted") /\ todo' = todo
    <3>1. Nest(wire') /\ Nest(end') /\ \A d \in Conn : \A m \in Ends(d) : end'[d][m] \in EndSt
        BY <2>4, WireTypes, EndTypes DEF Shut, EndSt
    <3> QED
        BY <2>1, <2>4, <3>1
  <2> QED
      BY <2>2, <2>3, <2>4
<1>14. ASSUME NEW c \in Conn, NEW n \in Ends(c), LookUpPeer(c, n)
       PROVE  TypeInv'
  <2>1. PICK p \in todo[c][n] : /\ todo' = [todo EXCEPT ![c][n] = todo[c][n] \ {p}]
                                /\ absent' = absent \/ absent' = [absent EXCEPT ![c][n] = p]
      BY <1>14 DEF LookUpPeer
  <2>2. p \in Node \ {n} /\ todo[c][n] \ {p} \subseteq Node \ {n}
      OBVIOUS
  <2>3. UNCHANGED <<book, queued, dials, retry, end, wire, hook>>
      BY <1>14 DEF LookUpPeer
  <2>4. PICK ps \in SUBSET (Node \ {n}) : ps = todo[c][n] \ {p}
      BY <2>2
  <2>5. todo' = Put(todo, c, n, ps)
      BY <2>1, <2>4 DEF Put
  <2>6. Nest(todo') /\ \A d \in Conn : \A m \in Ends(d) : todo'[d][m] \subseteq Node \ {m}
      BY <2>5, TodoTypes
  <2>7. /\ Nest(absent')
        /\ \A d \in Conn : \A m \in Ends(d) : absent'[d][m] \in (Node \ {m}) \cup {Nil}
      BY <2>1, <2>2, AbsentTypes
  <2> QED
      BY <2>3, <2>6, <2>7
<1>15. ASSUME NEW c \in Conn, NEW n \in Ends(c), InsertPeer(c, n)
       PROVE  TypeInv'
  <2> DEFINE p == absent[c][n]
  <2>1. n \in Node /\ p \in Node
      BY <1>15, ConnEnds DEF InsertPeer
  <2>2. book' = [book EXCEPT ![n][p] = NewEntry(TRUE)] /\ NewEntry(TRUE) \in Entry
      BY <1>15, NewEntryType DEF InsertPeer, Learned
  <2>3. book' \in [Node -> [Node -> Entry]]
      BY <2>1, <2>2, BookWrite
  <2>4. hook' \in [Conn -> SUBSET Node]
      BY <1>15 DEF InsertPeer, Forget
  <2>5. absent' = [absent EXCEPT ![c][n] = Nil] /\ UNCHANGED <<queued, dials, retry, end, wire, todo>>
      BY <1>15 DEF InsertPeer
  <2> QED
      BY <2>3, <2>4, <2>5, AbsentTypes
<1>16. ASSUME NEW c \in Conn, NEW n \in Ends(c), CloseHook(c, n)
       PROVE  TypeInv'
  <2>1. n \in Node /\ Other(c, n) \in Node
      BY ConnEnds
  <2>2. PICK p \in Node : p = Other(c, n)
      BY <2>1
  <2>3. book' \in [Node -> [Node -> Entry]]
    <3> DEFINE e == [book[n][p] EXCEPT !.conn = Nil]
    <3>1. book[n][p] \in Entry
        BY <2>1
    <3>2. e \in Entry
        BY <3>1, EntryUpdates
    <3>3. [e EXCEPT !.shared = {}] \in Entry
        BY <3>2, EntryUpdates
    <3>4. book' = [book EXCEPT ![n][p].conn = Nil, ![n][p].shared = {}]
        BY <1>16, <2>2 DEF CloseHook
    <3>5. book' = [book EXCEPT ![n][p] = [e EXCEPT !.shared = {}]]
        BY <2>1, <3>4
    <3> QED
        BY <2>1, <3>3, <3>5, BookWrite
  <2> QED
      BY <1>16, <2>3 DEF CloseHook
<1>17. CASE UNCHANGED vars
    BY <1>17 DEF vars
<1> QED
    BY <1>1, <1>2, <1>3, <1>4, <1>5, <1>6, <1>7, <1>8, <1>9, <1>10, <1>11, <1>12, <1>13, <1>14,
       <1>15, <1>16, <1>17 DEF Next, NodeStep, EndStep

-----------------------------------------------------------------------------
(* What AddConn does to the book: nothing when the entry has a connection,   *)
(* otherwise an entry with this one takes the place of what was there, and   *)
(* the connection gets the hook.                                             *)
LEMMA AddConnEffect ==
    ASSUME TypeInv, HookInv, NEW c \in Conn, NEW n \in Ends(c), NEW outbound \in BOOLEAN,
           AddConn(n, Other(c, n), outbound, c)
    PROVE  \/ book' = book /\ hook' = hook
           \/ /\ hook' = [Forget(n, book[n][Other(c, n)].conn) EXCEPT ![c] = @ \cup {n}]
              /\ \E e \in Entry : /\ e.known /\ e.conn = c
                                  /\ book' = [book EXCEPT ![n][Other(c, n)] = e]
<1> DEFINE p == Other(c, n)
           new == absent[c][n] = p \/ ~book[n][p].known
           e == IF new THEN NewEntry(outbound) ELSE book[n][p]
           kept == IF new THEN Forget(n, book[n][p].conn) ELSE hook
           f == [e EXCEPT !.conn = c, !.shared = {}]
<1>1. n \in Node /\ p \in Node /\ c # Nil
    BY ConnEnds
<1>2. NewEntry(outbound).known /\ NewEntry(outbound).conn = Nil
    BY DEF NewEntry, Unknown
<1>3. book[n][p] \in Entry /\ e \in Entry /\ e.known
    BY <1>1, <1>2, NewEntryType DEF TypeInv, Nest
<1>4. /\ book' = [book EXCEPT ![n][p] = IF e.conn = Nil THEN f ELSE e]
      /\ hook' = IF e.conn = Nil THEN [kept EXCEPT ![c] = @ \cup {n}] ELSE kept
    BY DEF AddConn
<1>5. f \in Entry /\ f.known /\ f.conn = c
    BY <1>3 DEF Entry
<1>6. CASE e.conn # Nil
  <2>1. ~new
      BY <1>2, <1>6
  <2>2. e = book[n][p] /\ kept = hook
      BY <2>1
  <2>3. book' = [book EXCEPT ![n][p] = book[n][p]] /\ hook' = hook
      BY <1>4, <1>6, <2>2
  <2> QED
      BY <1>1, <2>3 DEF TypeInv, Nest
<1>7. CASE e.conn = Nil
  <2>1. kept = Forget(n, book[n][p].conn)
    <3>1. CASE new
        BY <3>1
    <3>2. CASE ~new
      <4>1. book[n][p].conn = Nil
          BY <1>7, <3>2
      <4> QED
          BY <3>2, <4>1 DEF Forget
    <3> QED
        BY <3>1, <3>2
  <2> HIDE DEF f, e, kept
  <2> QED
      BY <1>4, <1>5, <1>7, <2>1
<1> QED
    BY <1>6, <1>7

(* No step makes a node an acquaintance of itself.                           *)
LEMMA SelfStep ==
    ASSUME TypeInv, HookInv, DialInv, [Next]_vars, NEW n \in Node
    PROVE  ~book'[n][n].known /\ dials'[n][n] = 0 /\ n \notin queued'[n] /\ n \notin retry'[n]
<1>a. ASSUME NEW c \in Conn, NEW m \in Ends(c), NEW outbound \in BOOLEAN,
             AddConn(m, Other(c, m), outbound, c)
      PROVE  book' = book \/ \E e \in Entry : book' = [book EXCEPT ![m][Other(c, m)] = e]
    BY <1>a, AddConnEffect
<1> USE DEF TypeInv, Nest
<1>0. ~book[n][n].known /\ dials[n][n] = 0 /\ n \notin queued[n] /\ n \notin retry[n]
    BY DEF DialInv
<1>1. ASSUME NEW m \in Node, Monitor(m)
      PROVE  ~book'[n][n].known /\ dials'[n][n] = 0 /\ n \notin queued'[n] /\ n \notin retry'[n]
    BY <1>0, <1>1 DEF Monitor
<1>2. ASSUME NEW m \in Node, NEW p \in Node, Dial(m, p) \/ DialSucceeds(m, p) \/ DialFails(m, p) \/ Retry(m, p)
      PROVE  ~book'[n][n].known /\ dials'[n][n] = 0 /\ n \notin queued'[n] /\ n \notin retry'[n]
  <2>1. m # p
      BY <1>2 DEF Dial, DialSucceeds, DialFails, Retry, DialInv
  <2>2. book'[n][n] = book[n][n] /\ dials'[n][n] = dials[n][n]
    <3>1. CASE Dial(m, p)
      <4>1. PICK b \in BOOLEAN : book' = [book EXCEPT ![m][p].dialing = b]
          BY <3>1 DEF Dial
      <4>2. book'[n][n] = book[n][n]
          BY <2>1, <4>1
      <4>3. dials'[n][n] = dials[n][n]
        <5>1. CASE dials' = dials
            BY <5>1
        <5>2. CASE dials' = [dials EXCEPT ![m][p] = @ + 1]
            BY <2>1, <5>2
        <5> QED
            BY <3>1, <5>1, <5>2 DEF Dial
      <4> QED
          BY <4>2, <4>3
    <3>2. CASE DialSucceeds(m, p)
        BY <2>1, <3>2 DEF DialSucceeds
    <3>3. CASE DialFails(m, p)
        BY <2>1, <3>3 DEF DialFails
    <3>4. CASE Retry(m, p)
        BY <3>4 DEF Retry
    <3> QED
        BY <1>2, <3>1, <3>2, <3>3, <3>4
  <2>3. n \notin queued'[n] /\ n \notin retry'[n]
      BY <1>0, <1>2, <2>1 DEF Dial, DialSucceeds, DialFails, Retry
  <2> QED
      BY <1>0, <2>2, <2>3
<1>3. ASSUME NEW c \in Conn, NEW m \in Ends(c), NEW outbound \in BOOLEAN,
             AddConn(m, Other(c, m), outbound, c), UNCHANGED <<dials, queued, retry>>
      PROVE  ~book'[n][n].known /\ dials'[n][n] = 0 /\ n \notin queued'[n] /\ n \notin retry'[n]
  <2>1. m \in Node /\ Other(c, m) \in Node /\ m # Other(c, m)
      BY ConnEnds
  <2>2. book' = book \/ \E e \in Entry : book' = [book EXCEPT ![m][Other(c, m)] = e]
      BY <1>a, <1>3
  <2>3. book'[n][n] = book[n][n]
    <3>1. CASE book' = book
        BY <3>1
    <3>2. ASSUME NEW e \in Entry, book' = [book EXCEPT ![m][Other(c, m)] = e]
          PROVE  book'[n][n] = book[n][n]
        BY <2>1, <3>2
    <3> QED
        BY <2>2, <3>1, <3>2
  <2> QED
      BY <1>0, <1>3, <2>3
<1>4. ASSUME NEW c \in Conn, NEW m \in Ends(c), SharePeers(c, m) \/ CloseHook(c, m) \/ InsertPeer(c, m)
      PROVE  ~book'[n][n].known /\ dials'[n][n] = 0 /\ n \notin queued'[n] /\ n \notin retry'[n]
  <2>1. m \in Node /\ Other(c, m) \in Node /\ m # Other(c, m)
      BY ConnEnds
  <2>2. book'[n][n] = book[n][n]
    <3>1. CASE SharePeers(c, m)
        BY <2>1, <3>1 DEF SharePeers, SetSharedPeers
    <3>2. CASE CloseHook(c, m)
        BY <2>1, <3>2 DEF CloseHook
    <3>3. CASE InsertPeer(c, m)
      <4>1. absent[c][m] \in Node /\ absent[c][m] # m
          BY <3>3 DEF InsertPeer
      <4> QED
          BY <2>1, <3>3, <4>1 DEF InsertPeer
    <3> QED
        BY <1>4, <3>1, <3>2, <3>3
  <2>3. UNCHANGED <<dials, queued, retry>>
      BY <1>4 DEF SharePeers, CloseHook, InsertPeer
  <2> QED
      BY <1>0, <2>2, <2>3
<1>5. ASSUME NEW c \in Conn, InitHandshake(c)
      PROVE  ~book'[n][n].known /\ dials'[n][n] = 0 /\ n \notin queued'[n] /\ n \notin retry'[n]
  <2>1. c[1] \in Ends(c) /\ c[2] = Other(c, c[1])
      BY DEF Ends, Other
  <2>2. AddConn(c[1], Other(c, c[1]), TRUE, c) /\ UNCHANGED <<dials, queued, retry>>
      BY <1>5, <2>1 DEF InitHandshake
  <2> QED
      BY <1>3, <2>1, <2>2
<1>6. ASSUME NEW c \in Conn, NEW m \in Ends(c), AnswerHandshake(c, m) \/ EnterGone(c, m)
      PROVE  ~book'[n][n].known /\ dials'[n][n] = 0 /\ n \notin queued'[n] /\ n \notin retry'[n]
  <2>1. AddConn(m, Other(c, m), FALSE, c) /\ UNCHANGED <<dials, queued, retry>>
      BY <1>6 DEF AnswerHandshake, EnterGone
  <2> QED
      BY <1>3, <2>1
<1>7. CASE UNCHANGED <<book, dials, queued, retry>>
    BY <1>0, <1>7
<1>8. ASSUME NEW c \in Conn, Accept(c)
      PROVE  UNCHANGED <<book, dials, queued, retry>>
    BY <1>8 DEF Accept
<1>9. ASSUME NEW c \in Conn, NEW m \in Ends(c),
             LookUp(c, m) \/ PeersMsg(c, m) \/ LookUpPeer(c, m) \/ Break(c, m) \/ Notice(c, m)
      PROVE  UNCHANGED <<book, dials, queued, retry>>
    BY <1>9 DEF LookUp, PeersMsg, LookUpPeer, Break, Notice
<1> QED
    BY <1>1, <1>2, <1>4, <1>5, <1>6, <1>7, <1>8, <1>9 DEF Next, NodeStep, EndStep, vars

(* A step of an end that is in use leaves the unused connections alone.      *)
LEMMA UnusedFrame ==
    ASSUME TypeInv, NEW d \in Conn, Unused(d), NEW c \in Conn, NEW m \in Ends(c),
           end[c][m] # "closed" \/ m \in hook[c] \/ ~Idle(c, m),
           \A b \in Conn : b # c => /\ end'[b] = end[b] /\ hook'[b] \subseteq hook[b]
                                   /\ todo'[b] = todo[b] /\ absent'[b] = absent[b]
    PROVE  Unused(d)'
BY DEF Unused, Idle

(* AddConn adds a hook to its own connection at most.                        *)
LEMMA AddConnFrame ==
    ASSUME TypeInv, HookInv, NEW c \in Conn, NEW n \in Ends(c), NEW outbound \in BOOLEAN,
           AddConn(n, Other(c, n), outbound, c)
    PROVE  absent' = [absent EXCEPT ![c][n] = Nil] /\ \A b \in Conn : b # c => hook'[b] \subseteq hook[b]
<1>1. absent' = [absent EXCEPT ![c][n] = Nil]
    BY AddConnType
<1>2. CASE hook' = hook
    BY <1>1, <1>2
<1>3. CASE hook' = [Forget(n, book[n][Other(c, n)].conn) EXCEPT ![c] = @ \cup {n}]
    BY <1>1, <1>3 DEF Forget, TypeInv
<1> QED
    BY <1>2, <1>3, AddConnEffect

(* Only a dial that succeeds takes an unused connection.                     *)
LEMMA UnusedStays ==
    ASSUME TypeInv, HookInv, [Next]_vars, NEW d \in Conn, Unused(d),
           ~(\E n, p \in Node : DialSucceeds(n, p))
    PROVE  Unused(d)'
<1>1. ASSUME NEW c \in Conn, NEW m \in Ends(c), NEW outbound \in BOOLEAN,
             AddConn(m, Other(c, m), outbound, c), end[c][m] # "closed" \/ ~Idle(c, m),
             todo' = todo, \A b \in Conn : b # c => end'[b] = end[b]
      PROVE  Unused(d)'
  <2>1. absent' = [absent EXCEPT ![c][m] = Nil] /\ \A b \in Conn : b # c => hook'[b] \subseteq hook[b]
      BY <1>1, AddConnFrame
  <2>2. \A b \in Conn : b # c => absent'[b] = absent[b]
      BY <2>1 DEF TypeInv, Nest
  <2> QED
      BY <1>1, <2>1, <2>2, UnusedFrame
<1> USE DEF TypeInv, Nest
<1>2. ASSUME UNCHANGED <<end, hook, todo, absent>>
      PROVE  Unused(d)'
    BY <1>2 DEF Unused, Idle
<1>3. ASSUME NEW n \in Node, NEW p \in Node,
             Monitor(n) \/ Dial(n, p) \/ DialFails(n, p) \/ Retry(n, p)
      PROVE  Unused(d)'
    BY <1>2, <1>3 DEF Monitor, Dial, DialFails, Retry
<1>4. ASSUME NEW c \in Conn, InitHandshake(c)
      PROVE  Unused(d)'
  <2>1. c[1] \in Ends(c) /\ end[c][c[1]] # "closed" /\ c[2] = Other(c, c[1])
      BY <1>4 DEF InitHandshake, Ends, Other
  <2>2. AddConn(c[1], Other(c, c[1]), TRUE, c) /\ end' = [end EXCEPT ![c][c[1]] = "wait"] /\ todo' = todo
      BY <1>4, <2>1 DEF InitHandshake
  <2> QED
      BY <1>1, <2>1, <2>2
<1>5. ASSUME NEW c \in Conn, Accept(c)
      PROVE  Unused(d)'
  <2>1. c[2] \in Ends(c) /\ end[c][c[2]] # "closed"
      BY <1>5 DEF Accept, Ends
  <2>2. end' = [end EXCEPT ![c][c[2]] = "wait"] /\ UNCHANGED <<hook, todo, absent>>
      BY <1>5 DEF Accept
  <2> QED
      BY <2>1, <2>2, UnusedFrame
<1>6. ASSUME NEW c \in Conn, NEW m \in Ends(c), Break(c, m) \/ Notice(c, m)
      PROVE  Unused(d)'
  <2>1. end[c][m] # "closed"
      BY <1>6 DEF Break, Notice, Gone
  <2>2. end' = [end EXCEPT ![c][m] = "closed"] /\ UNCHANGED <<hook, todo, absent>>
      BY <1>6 DEF Break, Notice, Shut
  <2> QED
      BY <2>1, <2>2, UnusedFrame
<1>7. ASSUME NEW c \in Conn, NEW m \in Ends(c), AnswerHandshake(c, m) \/ EnterGone(c, m)
      PROVE  Unused(d)'
  <2>1. end[c][m] # "closed" \/ ~Idle(c, m)
    <3>1. Other(c, m) # Nil
        BY ConnEnds, NilAssumption
    <3> QED
        BY <1>7, <3>1 DEF AnswerHandshake, EnterGone, Idle
  <2>2. AddConn(m, Other(c, m), FALSE, c) /\ todo' = todo
    <3>1. CASE AnswerHandshake(c, m)
        BY <3>1 DEF AnswerHandshake
    <3>2. CASE EnterGone(c, m)
        BY <3>2 DEF EnterGone
    <3> QED
        BY <1>7, <3>1, <3>2
  <2>3. \A b \in Conn : b # c => end'[b] = end[b]
    <3>1. CASE AnswerHandshake(c, m)
      <4>1. end' = [end EXCEPT ![c][m] = "sharing"]
          BY <3>1 DEF AnswerHandshake
      <4> QED
          BY <4>1
    <3>2. CASE EnterGone(c, m)
        BY <3>2 DEF EnterGone
    <3> QED
        BY <1>7, <3>1, <3>2
  <2> QED
      BY <1>1, <2>1, <2>2, <2>3
<1>8. ASSUME NEW c \in Conn, NEW m \in Ends(c),
             SharePeers(c, m) \/ PeersMsg(c, m) \/ LookUp(c, m) \/ LookUpPeer(c, m)
      PROVE  Unused(d)'
  <2>1. end[c][m] # "closed" \/ ~Idle(c, m)
      BY <1>8 DEF SharePeers, PeersMsg, LookUp, LookUpPeer, Idle
  <2>2. hook' = hook
      BY <1>8 DEF SharePeers, PeersMsg, LookUp, LookUpPeer
  <2>3. \A b \in Conn : b # c => end'[b] = end[b]
      BY <1>8 DEF SharePeers, PeersMsg, Shut, LookUp, LookUpPeer
  <2>4. \A b \in Conn : b # c => todo'[b] = todo[b]
      BY <1>8 DEF SharePeers, PeersMsg, LookUp, LookUpPeer
  <2>5. \A b \in Conn : b # c => absent'[b] = absent[b]
      BY <1>8 DEF SharePeers, PeersMsg, LookUp, LookUpPeer
  <2> QED
      BY <2>1, <2>2, <2>3, <2>4, <2>5, UnusedFrame
<1>9. ASSUME NEW c \in Conn, NEW m \in Ends(c), InsertPeer(c, m)
      PROVE  Unused(d)'
  <2>1. ~Idle(c, m)
      BY <1>9 DEF InsertPeer, Idle
  <2>2. /\ UNCHANGED <<end, todo>> /\ absent' = [absent EXCEPT ![c][m] = Nil]
        /\ \A b \in Conn : hook'[b] \subseteq hook[b]
      BY <1>9 DEF InsertPeer, Forget
  <2> QED
      BY <2>1, <2>2, UnusedFrame
<1>10. ASSUME NEW c \in Conn, NEW m \in Ends(c), CloseHook(c, m)
       PROVE  Unused(d)'
  <2>1. m \in hook[c] /\ UNCHANGED <<end, todo, absent>> /\ hook' = [hook EXCEPT ![c] = @ \ {m}]
      BY <1>10 DEF CloseHook
  <2> QED
      BY <2>1, UnusedFrame
<1>11. CASE UNCHANGED vars
    BY <1>2, <1>11 DEF vars
<1> QED
    BY <1>3, <1>4, <1>5, <1>6, <1>7, <1>8, <1>9, <1>10, <1>11 DEF Next, NodeStep, EndStep

(* Every dial keeps a connection it could get.                               *)
LEMMA UnusedStep ==
    ASSUME TypeInv, HookInv, DialInv, [Next]_vars, NEW n \in Node, NEW p \in Node
    PROVE  /\ dials'[n][p] = 1 => \E k \in {1, 2} : Unused(<<n, p, k>>)'
           /\ dials'[n][p] = 2 => \A k \in {1, 2} : Unused(<<n, p, k>>)'
<1> USE DEF TypeInv, Nest
<1> DEFINE a == <<n, p, 1>>
           b == <<n, p, 2>>
<1>1. CASE n = p
    BY <1>1, SelfStep
<1>2. CASE n # p
  <2>1. a \in Conn /\ b \in Conn /\ a # b
      BY <1>2 DEF Conn
  <2>2. CASE \E m, q \in Node : DialSucceeds(m, q)
    <3>1. PICK m \in Node, q \in Node : DialSucceeds(m, q)
        BY <2>2
    <3>2. PICK k \in {1, 2} : /\ <<m, q, k>> \in Conn
                              /\ end' = [end EXCEPT ![<<m, q, k>>] = NewHandshaker(m, q)]
        BY <3>1, DialFindsUnused
    <3>3. hook' = hook /\ dials' = [dials EXCEPT ![m][q] = @ - 1]
        BY <3>1 DEF DialSucceeds
    <3>4. \A d \in Conn : d # <<m, q, k>> /\ Unused(d) => Unused(d)'
      <4>1. UNCHANGED <<todo, absent>>
          BY <3>1 DEF DialSucceeds
      <4> QED
          BY <3>2, <3>3, <4>1 DEF Unused, Idle
    <3>5. CASE m = n /\ q = p
      <4>1. dials'[n][p] = dials[n][p] - 1 /\ dials[n][p] \in 0..2
          BY <3>3, <3>5
      <4>2. dials'[n][p] # 2 /\ (dials'[n][p] = 1 => dials[n][p] = 2)
          BY <4>1
      <4>3. dials[n][p] = 2 => Unused(a) /\ Unused(b)
          BY DEF DialInv
      <4>4. <<m, q, k>> = a \/ <<m, q, k>> = b
          BY <3>5
      <4>5. dials[n][p] = 2 => Unused(a)' \/ Unused(b)'
          BY <2>1, <3>4, <4>3, <4>4
      <4> QED
          BY <4>2, <4>5
    <3>6. CASE ~(m = n /\ q = p)
      <4>1. dials'[n][p] = dials[n][p]
          BY <3>3, <3>6
      <4>2. <<m, q, k>> # a /\ <<m, q, k>> # b
          BY <3>6
      <4> QED
          BY <2>1, <3>4, <4>1, <4>2 DEF DialInv
    <3> QED
        BY <3>5, <3>6
  <2>3. CASE ~(\E m, q \in Node : DialSucceeds(m, q))
    <3>1. (Unused(a) => Unused(a)') /\ (Unused(b) => Unused(b)')
        BY <2>1, <2>3, UnusedStays
    <3>2. CASE Dial(n, p)
      <4>1. \/ dials' = dials
            \/ Dialled(n, p) \in {0, 1} /\ dials' = [dials EXCEPT ![n][p] = @ + 1]
          BY <3>2 DEF Dial
      <4>2. CASE dials' = dials
          BY <3>1, <4>2 DEF DialInv
      <4>3. CASE Dialled(n, p) \in {0, 1} /\ dials' = [dials EXCEPT ![n][p] = @ + 1]
        <5>1. dials'[n][p] = dials[n][p] + 1
            BY <4>3
        <5>2. \/ dials[n][p] = 0 /\ (Unused(a) \/ Unused(b))
              \/ dials[n][p] = 1 /\ Unused(a) /\ Unused(b)
            BY <1>2, <4>3, DialledCounts
        <5>3. \/ dials'[n][p] = 1 /\ (Unused(a)' \/ Unused(b)')
              \/ dials'[n][p] = 2 /\ Unused(a)' /\ Unused(b)'
            BY <3>1, <5>1, <5>2
        <5> QED
            BY <5>3
      <4> QED
          BY <4>1, <4>2, <4>3
    <3>3. CASE DialFails(n, p)
      <4>1. dials[n][p] \in 0..2 /\ dials'[n][p] = dials[n][p] - 1
          BY <3>3 DEF DialFails
      <4>2. dials'[n][p] # 2 /\ (dials'[n][p] = 1 => dials[n][p] = 2)
          BY <4>1
      <4> QED
          BY <3>1, <4>2 DEF DialInv
    <3>4. CASE ~Dial(n, p) /\ ~DialFails(n, p)
      <4>1. ASSUME NEW m \in Node, NEW q \in Node, Dial(m, q) \/ DialFails(m, q)
            PROVE  dials'[n][p] = dials[n][p]
        <5>1. ~(m = n /\ q = p)
            BY <3>4, <4>1
        <5>2. CASE dials' = dials
            BY <5>2
        <5>3. CASE dials' = [dials EXCEPT ![m][q] = @ + 1]
            BY <5>1, <5>3
        <5>4. CASE dials' = [dials EXCEPT ![m][q] = @ - 1]
            BY <5>1, <5>4
        <5> QED
            BY <4>1, <5>2, <5>3, <5>4 DEF Dial, DialFails
      <4>2. ASSUME NEW m \in Node, NEW q \in Node, Monitor(m) \/ Retry(m, q)
            PROVE  dials' = dials
          BY <4>2 DEF Monitor, Retry
      <4>3. ASSUME NEW c \in Conn, InitHandshake(c) \/ Accept(c)
            PROVE  dials' = dials
          BY <4>3 DEF InitHandshake, Accept
      <4>4. ASSUME NEW c \in Conn, NEW m \in Ends(c),
                   EndStep(c, m) \/ Break(c, m) \/ Notice(c, m) \/ CloseHook(c, m)
            PROVE  dials' = dials
          BY <4>4 DEF EndStep, LookUp, AnswerHandshake, EnterGone, SharePeers, PeersMsg, LookUpPeer,
                      InsertPeer, Break, Notice, CloseHook
      <4>5. UNCHANGED vars => dials' = dials
          BY DEF vars
      <4>6. dials'[n][p] = dials[n][p]
        <5>1. dials' = dials => dials'[n][p] = dials[n][p]
            OBVIOUS
        <5> QED
            BY <2>3, <4>1, <4>2, <4>3, <4>4, <4>5, <5>1 DEF Next, NodeStep
      <4> QED
          BY <3>1, <4>6 DEF DialInv
    <3> QED
        BY <3>2, <3>3, <3>4
  <2> QED
      BY <2>2, <2>3
<1> QED
    BY <1>1, <1>2

(* Every step keeps who dials whom.                                          *)
LEMMA DialStep == TypeInv /\ HookInv /\ DialInv /\ [Next]_vars => DialInv'
BY SelfStep, UnusedStep DEF DialInv

-----------------------------------------------------------------------------
(* A step that leaves the connections of the book and the hooks alone keeps  *)
(* HookInv.                                                                  *)
LEMMA HookFrame ==
    ASSUME TypeInv, HookInv, hook' = hook,
           \A n, p \in Node : /\ book'[n][p].conn = book[n][p].conn
                              /\ book[n][p].known => book'[n][p].known
    PROVE  HookInv'
<1>1. ASSUME NEW n \in Node, NEW p \in Node, book'[n][p].conn # Nil
      PROVE  /\ book'[n][p].known /\ Ends(book'[n][p].conn) = {n, p}
             /\ n \in hook'[book'[n][p].conn]
    BY <1>1 DEF HookInv
<1>2. ASSUME NEW c \in Conn, NEW n \in hook'[c]
      PROVE  n \in Ends(c) /\ book'[n][Other(c, n)].conn = c
  <2>1. n \in Ends(c) /\ book[n][Other(c, n)].conn = c
      BY DEF HookInv
  <2>2. n \in Node /\ Other(c, n) \in Node
      BY <2>1, ConnEnds
  <2> QED
      BY <2>1, <2>2
<1> QED
    BY <1>1, <1>2 DEF HookInv

(* An entry with a new connection, or with none, takes the place of another. *)
LEMMA HookWritten ==
    ASSUME TypeInv, HookInv, NEW n \in Node, NEW p \in Node, n # p,
           NEW e \in Entry, e.known, e.conn # Nil => Ends(e.conn) = {n, p},
           book' = [book EXCEPT ![n][p] = e],
           hook' = IF e.conn = Nil THEN Forget(n, book[n][p].conn)
                   ELSE [Forget(n, book[n][p].conn) EXCEPT ![e.conn] = @ \cup {n}]
    PROVE  HookInv'
<1> DEFINE old == book[n][p].conn
           c == e.conn
<1>1. book'[n][p] = e /\ \A m, q \in Node : ~(m = n /\ q = p) => book'[m][q] = book[m][q]
    BY DEF TypeInv, Nest
<1>2. c \in Conn \cup {Nil} /\ old \in Conn \cup {Nil} /\ hook \in [Conn -> SUBSET Node]
    BY DEF TypeInv, Entry
<1>3. Nil \notin Conn
    BY NilAssumption
<1>4. ASSUME NEW d \in Conn
      PROVE  \A m : m \in hook'[d] <=> (m \in hook[d] /\ ~(d = old /\ m = n)) \/ (d = c /\ m = n)
  <2>1. \A m : m \in Forget(n, old)[d] <=> m \in hook[d] /\ ~(d = old /\ m = n)
      BY <1>2, <1>3 DEF Forget
  <2>2. Forget(n, old) \in [Conn -> SUBSET Node]
      BY <1>2 DEF Forget
  <2>3. hook'[d] = IF d = c THEN Forget(n, old)[d] \cup {n} ELSE Forget(n, old)[d]
      BY <1>2, <1>3, <2>2
  <2> HIDE DEF old, c
  <2> QED
      BY <2>1, <2>3
<1>5. ASSUME NEW m \in Node, NEW q \in Node, book'[m][q].conn # Nil
      PROVE  /\ book'[m][q].known /\ Ends(book'[m][q].conn) = {m, q}
             /\ m \in hook'[book'[m][q].conn]
  <2>1. CASE m = n /\ q = p
      BY <1>1, <1>2, <1>4, <1>5, <2>1
  <2>2. CASE ~(m = n /\ q = p)
    <3>1. book'[m][q] = book[m][q] /\ book[m][q].conn \in Conn
        BY <1>1, <1>5, <2>2 DEF TypeInv, Entry
    <3>2. /\ book[m][q].known /\ Ends(book[m][q].conn) = {m, q}
          /\ m \in hook[book[m][q].conn]
        BY <1>5, <3>1 DEF HookInv
    <3>3. ~(book[m][q].conn = old /\ m = n)
      <4>1. SUFFICES ASSUME book[m][q].conn = old, m = n
                     PROVE  FALSE
          OBVIOUS
      <4>2. Ends(old) = {n, p}
          BY <1>3, <3>1, <4>1 DEF HookInv
      <4>3. {n, p} = {n, q}
          BY <3>2, <4>1, <4>2
      <4>4. p = q
          BY <4>3
      <4> QED
          BY <2>2, <4>1, <4>4
    <3> HIDE DEF old, c
    <3> QED
        BY <1>4, <3>1, <3>2, <3>3
  <2> QED
      BY <2>1, <2>2
<1>6. ASSUME NEW d \in Conn, NEW m \in hook'[d]
      PROVE  m \in Ends(d) /\ book'[m][Other(d, m)].conn = d
  <2>1. CASE d = c /\ m = n
    <3>1. Ends(d) = {n, p} /\ n \in Ends(d)
        BY <1>3, <2>1
    <3>2. Other(d, n) = p
        BY <3>1, ConnEnds
    <3> QED
        BY <1>1, <2>1, <3>1, <3>2
  <2>2. CASE m \in hook[d] /\ ~(d = old /\ m = n)
    <3>1. m \in Ends(d) /\ book[m][Other(d, m)].conn = d
        BY <2>2 DEF HookInv
    <3>2. m \in Node /\ Other(d, m) \in Node
        BY <3>1, ConnEnds
    <3>3. ~(m = n /\ Other(d, m) = p)
        BY <2>2, <3>1
    <3> QED
        BY <1>1, <3>1, <3>2, <3>3
  <2> HIDE DEF old, c
  <2> QED
      BY <1>4, <2>1, <2>2
<1> QED
    BY <1>5, <1>6 DEF HookInv

(* AddConn keeps HookInv.                                                    *)
LEMMA HookAdded ==
    ASSUME TypeInv, HookInv, NEW c \in Conn, NEW n \in Ends(c), NEW outbound \in BOOLEAN,
           AddConn(n, Other(c, n), outbound, c)
    PROVE  HookInv'
<1> DEFINE p == Other(c, n)
<1>1. n \in Node /\ p \in Node /\ n # p /\ Ends(c) = {n, p} /\ c # Nil
    BY ConnEnds
<1>2. CASE book' = book /\ hook' = hook
    BY <1>2, HookFrame
<1>3. ASSUME hook' = [Forget(n, book[n][p].conn) EXCEPT ![c] = @ \cup {n}],
             NEW e \in Entry, e.known, e.conn = c, book' = [book EXCEPT ![n][p] = e]
      PROVE  HookInv'
    BY <1>1, <1>3, HookWritten
<1> QED
    BY <1>2, <1>3, AddConnEffect

(* Every step keeps HookInv.                                                 *)
LEMMA HookStep == TypeInv /\ HookInv /\ DialInv /\ [Next]_vars => HookInv'
<1> SUFFICES ASSUME TypeInv, HookInv, DialInv, [Next]_vars
             PROVE  HookInv'
    OBVIOUS
<1>1. ASSUME NEW n \in Node, Monitor(n)
      PROVE  HookInv'
    BY <1>1, HookFrame DEF Monitor
<1>2. ASSUME NEW n \in Node, NEW p \in Node, Dial(n, p) \/ DialSucceeds(n, p) \/ DialFails(n, p)
      PROVE  HookInv'
  <2>1. hook' = hook
      BY <1>2 DEF Dial, DialSucceeds, DialFails
  <2>2. \E b \in BOOLEAN : \/ book' = [book EXCEPT ![n][p].dialing = b]
                           \/ \E k : book' = [book EXCEPT ![n][p].dialing = b, ![n][p].failed = k]
      BY <1>2 DEF Dial, DialSucceeds, DialFails
  <2>3. ASSUME NEW m \in Node, NEW q \in Node
        PROVE  book'[m][q].conn = book[m][q].conn /\ book'[m][q].known = book[m][q].known
    <3>1. book[m][q] \in Entry
        BY DEF TypeInv, Nest
    <3>2. ASSUME NEW b \in BOOLEAN, book' = [book EXCEPT ![n][p].dialing = b]
          PROVE  book'[m][q].conn = book[m][q].conn /\ book'[m][q].known = book[m][q].known
        BY <3>1, <3>2 DEF TypeInv, Entry
    <3>3. ASSUME NEW b \in BOOLEAN, NEW k,
                 book' = [book EXCEPT ![n][p].dialing = b, ![n][p].failed = k]
          PROVE  book'[m][q].conn = book[m][q].conn /\ book'[m][q].known = book[m][q].known
        BY <3>1, <3>3 DEF TypeInv, Entry
    <3> QED
        BY <2>2, <3>2, <3>3
  <2> QED
      BY <2>1, <2>3, HookFrame
<1>3. ASSUME NEW n \in Node, NEW p \in Node, Retry(n, p)
      PROVE  HookInv'
    BY <1>3, HookFrame DEF Retry
<1>4. ASSUME NEW c \in Conn, InitHandshake(c)
      PROVE  HookInv'
  <2>1. c[1] \in Ends(c) /\ c[2] = Other(c, c[1])
      BY DEF Ends, Other
  <2>2. AddConn(c[1], Other(c, c[1]), TRUE, c)
      BY <1>4, <2>1 DEF InitHandshake
  <2> QED
      BY <2>1, <2>2, HookAdded
<1>5. ASSUME NEW c \in Conn, NEW n \in Ends(c), AnswerHandshake(c, n) \/ EnterGone(c, n)
      PROVE  HookInv'
  <2>1. AddConn(n, Other(c, n), FALSE, c)
      BY <1>5 DEF AnswerHandshake, EnterGone
  <2> QED
      BY <2>1, HookAdded
<1>6. ASSUME NEW c \in Conn, NEW n \in Ends(c), SharePeers(c, n)
      PROVE  HookInv'
  <2>1. hook' = hook
      BY <1>6 DEF SharePeers
  <2>2. ASSUME NEW m \in Node, NEW q \in Node
        PROVE  book'[m][q].conn = book[m][q].conn /\ book'[m][q].known = book[m][q].known
    <3>1. book[m][q] \in Entry
        BY DEF TypeInv, Nest
    <3>2. book' = book \/ \E ids : book' = [book EXCEPT ![n][Other(c, n)].shared = ids]
        BY <1>6 DEF SharePeers, SetSharedPeers, AddShared
    <3>3. n \in Node /\ Other(c, n) \in Node
        BY ConnEnds
    <3>4. ASSUME NEW ids, book' = [book EXCEPT ![n][Other(c, n)].shared = ids]
          PROVE  book'[m][q].conn = book[m][q].conn /\ book'[m][q].known = book[m][q].known
        BY <3>1, <3>3, <3>4 DEF TypeInv, Entry
    <3> QED
        BY <3>2, <3>4
  <2> QED
      BY <2>1, <2>2, HookFrame
<1>7. ASSUME NEW c \in Conn, NEW n \in Ends(c), InsertPeer(c, n)
      PROVE  HookInv'
  <2>1. n \in Node /\ absent[c][n] \in Node /\ absent[c][n] # n
      BY <1>7, ConnEnds DEF InsertPeer, TypeInv, Nest
  <2>2. NewEntry(TRUE) \in Entry /\ NewEntry(TRUE).conn = Nil /\ NewEntry(TRUE).known
      BY NewEntryType DEF NewEntry, Unknown
  <2>3. /\ book' = [book EXCEPT ![n][absent[c][n]] = NewEntry(TRUE)]
        /\ hook' = Forget(n, book[n][absent[c][n]].conn)
      BY <1>7 DEF InsertPeer, Learned
  <2> QED
      BY <2>1, <2>2, <2>3, HookWritten
<1>8. ASSUME NEW c \in Conn, NEW n \in Ends(c), CloseHook(c, n)
      PROVE  HookInv'
  <2> DEFINE p == Other(c, n)
  <2>1. n \in Node /\ p \in Node /\ Ends(c) = {n, p} /\ c # Nil
      BY ConnEnds
  <2>2. book[n][p].conn = c /\ hook' = [hook EXCEPT ![c] = @ \ {n}]
      BY <1>8 DEF CloseHook, HookInv
  <2>3. book'[n][p].conn = Nil
    <3>1. book[n][p] \in Entry
        BY <2>1 DEF TypeInv, Nest
    <3>2. book' = [book EXCEPT ![n][p].conn = Nil, ![n][p].shared = {}]
        BY <1>8 DEF CloseHook
    <3> QED
        BY <2>1, <3>1, <3>2 DEF TypeInv, Entry
  <2>4. \A m, q \in Node : ~(m = n /\ q = p) => book'[m][q] = book[m][q]
    <3>1. book' = [book EXCEPT ![n][p].conn = Nil, ![n][p].shared = {}]
        BY <1>8 DEF CloseHook
    <3> QED
        BY <2>1, <3>1 DEF TypeInv, Nest
  <2>5. \A d \in Conn : hook'[d] = IF d = c THEN hook[d] \ {n} ELSE hook[d]
      BY <2>2 DEF TypeInv, Nest
  <2>6. ASSUME NEW m \in Node, NEW q \in Node, book'[m][q].conn # Nil
        PROVE  /\ book'[m][q].known /\ Ends(book'[m][q].conn) = {m, q}
               /\ m \in hook'[book'[m][q].conn]
    <3>1. ~(m = n /\ q = p)
        BY <2>3, <2>6
    <3>2. book'[m][q] = book[m][q] /\ book[m][q].conn \in Conn
        BY <2>4, <2>6, <3>1 DEF TypeInv, Entry
    <3>3. Ends(book[m][q].conn) = {m, q} /\ m \in hook[book[m][q].conn] /\ book[m][q].known
        BY <2>6, <3>2 DEF HookInv
    <3>4. ~(book[m][q].conn = c /\ m = n)
        BY <2>1, <3>1, <3>3
    <3> QED
        BY <2>5, <3>2, <3>3, <3>4
  <2>7. ASSUME NEW d \in Conn, NEW m \in hook'[d]
        PROVE  m \in Ends(d) /\ book'[m][Other(d, m)].conn = d
    <3>1. m \in hook[d] /\ ~(d = c /\ m = n)
        BY <2>5
    <3>2. m \in Ends(d) /\ book[m][Other(d, m)].conn = d
        BY <3>1 DEF HookInv
    <3>3. m \in Node /\ Other(d, m) \in Node
        BY <3>2, ConnEnds
    <3>4. ~(m = n /\ Other(d, m) = p)
        BY <2>2, <3>1, <3>2
    <3> QED
        BY <2>4, <3>2, <3>3, <3>4
  <2> QED
      BY <2>6, <2>7 DEF HookInv
<1>9. ASSUME NEW c \in Conn, Accept(c)
      PROVE  HookInv'
    BY <1>9, HookFrame DEF Accept
<1>10. ASSUME NEW c \in Conn, NEW n \in Ends(c),
              LookUp(c, n) \/ PeersMsg(c, n) \/ LookUpPeer(c, n) \/ Break(c, n) \/ Notice(c, n)
       PROVE  HookInv'
  <2>1. UNCHANGED <<book, hook>>
      BY <1>10 DEF LookUp, PeersMsg, LookUpPeer, Break, Notice
  <2> QED
      BY <2>1, HookFrame
<1>11. CASE UNCHANGED vars
    BY <1>11, HookFrame DEF vars
<1> QED
    BY <1>1, <1>2, <1>3, <1>4, <1>5, <1>6, <1>7, <1>8, <1>9, <1>10, <1>11 DEF Next, NodeStep, EndStep

-----------------------------------------------------------------------------
(* A step of one connection's Handshakers leaves the others where they are.  *)
LEMMA HandshakeFrame ==
    ASSUME TypeInv, HandshakeInv, NEW c \in Conn, InStep(c)',
           \A d \in Conn : d # c => end'[d] = end[d] /\ wire'[d] = wire[d]
    PROVE  HandshakeInv'
<1> SUFFICES ASSUME NEW d \in Conn, d # c
             PROVE  InStep(d)'
    BY DEF HandshakeInv
<1>1. InStep(d) /\ end'[d] = end[d] /\ wire'[d] = wire[d]
    BY DEF HandshakeInv
<1> QED
    BY <1>1 DEF InStep, Whole, Halved, EndFine, Clean, OnWay

(* The queues of a connection, written out.                                  *)
LEMMA Queues ==
    ASSUME NEW a, NEW b
    PROVE  Append(<<>>, a) = <<a>> /\ Tail(<<a>>) = <<>> /\ Append(<<a>>, b) = <<a, b>>
<1>1. Append(<<>>, a) = <<a>> /\ Tail(<<a>>) = <<>>
    OBVIOUS
<1>2. Append(<<a>>, b) = <<a, b>>
  <2> DEFINE s == Append(<<a>>, b)
             t == <<a, b>>
  <2>1. <<a>> \in Seq({a, b}) /\ Len(<<a>>) = 1 /\ <<a>>[1] = a
      OBVIOUS
  <2>2. s \in Seq({a, b}) /\ Len(s) = 2 /\ s[1] = a /\ s[2] = b
      BY <2>1
  <2>3. t \in Seq({a, b}) /\ Len(t) = 2 /\ t[1] = a /\ t[2] = b
      OBVIOUS
  <2> HIDE DEF s, t
  <2>4. \A i \in 1..2 : s[i] = t[i]
      BY <2>2, <2>3
  <2> QED
      BY <2>2, <2>3, <2>4, SeqEqual DEF s, t
<1> QED
    BY <1>1, <1>2

(* Both ends of every connection are fine.                                   *)
LEMMA EndsFine ==
    ASSUME NEW c \in Conn, InStep(c), NEW n \in Ends(c)
    PROVE  EndFine(c, n)
<1>1. CASE Halved(c)
    BY <1>1 DEF Halved
<1>2. CASE Whole(c)
  <2>1. n = c[1] \/ n = c[2]
      BY DEF Ends
  <2>2. ASSUME NEW ids
        PROVE  <<Handshake, Peers(ids)>> # <<>> /\ <<Handshake, Peers(ids)>>[1] = Handshake
      OBVIOUS
  <2>3. <<Handshake>> # <<>> /\ <<Handshake>>[1] = Handshake
      OBVIOUS
  <2> QED
      BY <1>2, <2>1, <2>2, <2>3 DEF Whole, OnWay, EndFine, Clean
<1> QED
    BY <1>1, <1>2 DEF InStep

(* A step of the end that stands keeps a connection halved.                  *)
LEMMA HalvedFrame ==
    ASSUME NEW c \in Conn, Halved(c), NEW n \in Ends(c), end[c][n] # "closed",
           end'[c][Other(c, n)] = end[c][Other(c, n)], wire'[c][Other(c, n)] = wire[c][Other(c, n)],
           end'[c][n] \notin {"aborted", "closed"}, Clean(c, n)'
    PROVE  InStep(c)'
<1>1. Ends(c) = {n, Other(c, n)}
    BY ConnEnds
<1>2. end[c][Other(c, n)] = "closed" /\ EndFine(c, Other(c, n))
    BY <1>1 DEF Halved
<1>3. EndFine(c, Other(c, n))' /\ EndFine(c, n)'
    BY <1>2 DEF EndFine, Clean
<1> QED
    BY <1>1, <1>2, <1>3 DEF InStep, Halved

(* The other end of a halved connection gets nothing more.                   *)
LEMMA HalvedSends ==
    ASSUME NEW c \in Conn, Halved(c), NEW n \in Ends(c), end[c][n] # "closed", NEW m
    PROVE  Sent(c, Other(c, n), m) = wire[c][Other(c, n)]
<1>1. end[c][Other(c, n)] = "closed"
    BY ConnEnds DEF Halved
<1> QED
    BY <1>1 DEF Sent, Gone

(* A list of peers that comes first finds its Handshaker done.               *)
LEMMA PeersFindDone ==
    ASSUME NEW c \in Conn, InStep(c), NEW n \in Ends(c), wire[c][n] # <<>>,
           wire[c][n][1].kind = "peers"
    PROVE  end[c][n] \notin {"init", "wait"}
<1>1. EndFine(c, n)
    BY EndsFine
<1>2. Handshake.kind = "handshake"
    BY DEF Handshake
<1> QED
    BY <1>1, <1>2 DEF EndFine, Clean

(* No Handshaker meets a list of peers before it is done, so none aborts.    *)
LEMMA HandshakeStep == TypeInv /\ DialInv /\ HandshakeInv /\ [Next]_vars => HandshakeInv'
<1> SUFFICES ASSUME TypeInv, DialInv, HandshakeInv, [Next]_vars
             PROVE  HandshakeInv'
    OBVIOUS
<1>0. ASSUME UNCHANGED <<end, wire>>
      PROVE  HandshakeInv'
    BY <1>0 DEF HandshakeInv, InStep, Whole, Halved, EndFine, Clean, OnWay
<1>h. Handshake.kind = "handshake" /\ \A ids : Peers(ids).kind = "peers"
    BY DEF Handshake, Peers
<1>1. ASSUME NEW n \in Node, NEW p \in Node,
             Monitor(n) \/ Dial(n, p) \/ DialFails(n, p) \/ Retry(n, p)
      PROVE  HandshakeInv'
    BY <1>0, <1>1 DEF Monitor, Dial, DialFails, Retry
<1>2. ASSUME NEW n \in Node, NEW p \in Node, DialSucceeds(n, p)
      PROVE  HandshakeInv'
  <2>1. n # p /\ wire' = wire
      BY <1>2, DialFindsUnused DEF DialSucceeds
  <2>2. PICK k \in {1, 2} : /\ <<n, p, k>> \in Conn /\ Unused(<<n, p, k>>)
                            /\ end' = [end EXCEPT ![<<n, p, k>>] = NewHandshaker(n, p)]
      BY <1>2, DialFindsUnused
  <2> DEFINE c == <<n, p, k>>
  <2>3. end[c][n] = "closed" /\ end[c][p] = "closed" /\ c[1] = n /\ c[2] = p /\ Ends(c) = {n, p}
      BY <2>2 DEF Unused, Ends
  <2>4. OnWay(c, <<>>, <<>>)
    <3>1. InStep(c)
        BY <2>2 DEF HandshakeInv
    <3>2. EndFine(c, n) /\ EndFine(c, p)
        BY <2>2, <2>3, <3>1, EndsFine
    <3> QED
        BY <2>3, <3>2 DEF EndFine, OnWay
  <2>5. end'[c] = NewHandshaker(n, p)
      BY <2>2 DEF TypeInv, Nest
  <2>6. end'[c][n] = "init" /\ end'[c][p] = "backlog"
      BY <2>1, <2>5 DEF NewHandshaker
  <2>7. InStep(c)'
      BY <2>1, <2>3, <2>4, <2>6 DEF InStep, Whole, OnWay
  <2>8. \A d \in Conn : d # c => end'[d] = end[d] /\ wire'[d] = wire[d]
      BY <2>1, <2>2 DEF TypeInv, Nest
  <2> QED
      BY <2>2, <2>7, <2>8, HandshakeFrame
<1>3. ASSUME NEW c \in Conn, InitHandshake(c) \/ Accept(c)
      PROVE  HandshakeInv'
  <2>1. /\ c[1] \in Ends(c) /\ c[2] \in Ends(c) /\ c[1] # c[2] /\ Ends(c) = {c[1], c[2]}
        /\ Other(c, c[1]) = c[2] /\ Other(c, c[2]) = c[1]
      BY ConnEnds DEF Ends, Other
  <2>2. InStep(c)
      BY DEF HandshakeInv
  <2>3. CASE InitHandshake(c)
    <3>1. /\ end[c][c[1]] = "init" /\ end' = [end EXCEPT ![c][c[1]] = "wait"]
          /\ wire' = [wire EXCEPT ![c][c[2]] = Sent(c, c[2], Handshake)]
        BY <2>3 DEF InitHandshake
    <3>2. /\ end'[c][c[1]] = "wait" /\ end'[c][c[2]] = end[c][c[2]]
          /\ wire'[c][c[1]] = wire[c][c[1]] /\ wire'[c][c[2]] = Sent(c, c[2], Handshake)
        BY <2>1, <3>1 DEF TypeInv, Nest
    <3>3. ASSUME Whole(c)
          PROVE  InStep(c)'
      <4>1. end[c][c[2]] \in {"backlog", "wait"} /\ OnWay(c, <<>>, <<>>)
          BY <3>1, <3>3 DEF Whole
      <4>2. Sent(c, c[2], Handshake) = <<Handshake>>
          BY <4>1, Queues DEF Sent, Gone, OnWay
      <4>3. OnWay(c, <<>>, <<Handshake>>)'
          BY <3>2, <4>1, <4>2 DEF OnWay
      <4>4. end'[c][c[1]] = "wait" /\ end'[c][c[2]] \in {"backlog", "wait"}
          BY <3>2, <4>1
      <4> QED
          BY <4>3, <4>4 DEF InStep, Whole
    <3>4. ASSUME Halved(c)
          PROVE  InStep(c)'
      <4>1. EndFine(c, c[1])
          BY <2>1, <2>2, EndsFine
      <4>2. Clean(c, c[1])'
          BY <3>1, <3>2, <4>1 DEF EndFine, Clean
      <4> QED
          BY <2>1, <3>1, <3>2, <3>4, <4>2, HalvedSends, HalvedFrame
    <3>5. \A d \in Conn : d # c => end'[d] = end[d] /\ wire'[d] = wire[d]
        BY <3>1 DEF TypeInv, Nest
    <3> QED
        BY <2>2, <3>3, <3>4, <3>5, HandshakeFrame DEF InStep
  <2>4. CASE Accept(c)
    <3>1. /\ end[c][c[2]] = "backlog" /\ end' = [end EXCEPT ![c][c[2]] = "wait"] /\ wire' = wire
        BY <2>4 DEF Accept
    <3>2. end'[c][c[2]] = "wait" /\ end'[c][c[1]] = end[c][c[1]]
        BY <2>1, <3>1 DEF TypeInv, Nest
    <3>3. ASSUME Whole(c)
          PROVE  InStep(c)'
        BY <3>1, <3>2, <3>3 DEF InStep, Whole, OnWay
    <3>4. ASSUME Halved(c)
          PROVE  InStep(c)'
      <4>1. EndFine(c, c[2])
          BY <2>1, <2>2, EndsFine
      <4>2. Clean(c, c[2])'
          BY <3>1, <3>2, <4>1 DEF EndFine, Clean
      <4> QED
          BY <2>1, <3>1, <3>2, <3>4, <4>2, HalvedFrame
    <3>5. \A d \in Conn : d # c => end'[d] = end[d] /\ wire'[d] = wire[d]
        BY <3>1 DEF TypeInv, Nest
    <3> QED
        BY <2>2, <3>3, <3>4, <3>5, HandshakeFrame DEF InStep
  <2> QED
      BY <1>3, <2>3, <2>4
<1>4. ASSUME NEW c \in Conn, NEW n \in Ends(c), AnswerHandshake(c, n)
      PROVE  HandshakeInv'
  <2>1. /\ c[1] \in Ends(c) /\ c[2] \in Ends(c) /\ c[1] # c[2] /\ Ends(c) = {c[1], c[2]}
        /\ Other(c, n) # n /\ Other(c, n) \in Ends(c)
      BY ConnEnds DEF Ends
  <2>2. InStep(c)
      BY DEF HandshakeInv
  <2>3. /\ end[c][n] = "wait" /\ wire[c][n] # <<>> /\ Head(wire[c][n]).kind = "handshake"
        /\ end' = [end EXCEPT ![c][n] = "sharing"]
        /\ wire' = [wire EXCEPT ![c][n] = Tail(@), ![c][Other(c, n)] = Sent(c, Other(c, n), Handshake)]
      BY <1>4 DEF AnswerHandshake, Takes
  <2>4. /\ end'[c][n] = "sharing" /\ end'[c][Other(c, n)] = end[c][Other(c, n)]
        /\ wire'[c][n] = Tail(wire[c][n])
        /\ wire'[c][Other(c, n)] = Sent(c, Other(c, n), Handshake)
      BY <2>1, <2>3 DEF TypeInv, Nest
  <2>5. ASSUME Whole(c)
        PROVE  InStep(c)'
    <3>1. CASE n = c[1]
      <4>1. Other(c, n) = c[2] /\ end[c][c[2]] \in {"sharing", "done"}
          BY <2>1, <2>3, <2>5, <3>1 DEF Whole, OnWay, Other
      <4> QED
          BY <2>4, <3>1, <4>1 DEF InStep, Whole
    <3>2. CASE n = c[2]
      <4>1. Other(c, n) = c[1] /\ end[c][c[1]] = "wait" /\ OnWay(c, <<>>, <<Handshake>>)
          BY <2>1, <2>3, <2>5, <3>2 DEF Whole, OnWay, Other
      <4>2. Tail(<<Handshake>>) = <<>> /\ Sent(c, c[1], Handshake) = <<Handshake>>
          BY <4>1, Queues DEF Sent, Gone, OnWay
      <4> QED
          BY <2>4, <3>2, <4>1, <4>2 DEF InStep, Whole, OnWay
    <3> QED
        BY <2>1, <3>1, <3>2
  <2>6. ASSUME Halved(c)
        PROVE  InStep(c)'
    <3>1. Clean(c, n)'
        BY <2>4 DEF Clean
    <3> QED
        BY <2>3, <2>4, <2>6, <3>1, HalvedSends, HalvedFrame
  <2>7. \A d \in Conn : d # c => end'[d] = end[d] /\ wire'[d] = wire[d]
      BY <2>3 DEF TypeInv, Nest
  <2> QED
      BY <2>2, <2>5, <2>6, <2>7, HandshakeFrame DEF InStep
<1>5. ASSUME NEW c \in Conn, NEW n \in Ends(c), SharePeers(c, n)
      PROVE  HandshakeInv'
  <2>1. /\ c[1] \in Ends(c) /\ c[2] \in Ends(c) /\ c[1] # c[2] /\ Ends(c) = {c[1], c[2]}
        /\ Other(c, n) # n /\ Other(c, n) \in Ends(c)
      BY ConnEnds DEF Ends
  <2>2. InStep(c)
      BY DEF HandshakeInv
  <2> DEFINE m == Peers(ActivePeers(n, Other(c, n)))
  <2>3. /\ end[c][n] = "sharing" /\ end' = [end EXCEPT ![c][n] = "done"]
        /\ wire' = [wire EXCEPT ![c][Other(c, n)] = Sent(c, Other(c, n), m)]
      BY <1>5 DEF SharePeers
  <2>4. /\ end'[c][n] = "done" /\ end'[c][Other(c, n)] = end[c][Other(c, n)]
        /\ wire'[c][n] = wire[c][n]
        /\ wire'[c][Other(c, n)] = Sent(c, Other(c, n), m)
      BY <2>1, <2>3 DEF TypeInv, Nest
  <2>5. ASSUME Whole(c)
        PROVE  InStep(c)'
    <3>1. CASE n = c[1]
      <4>1. Other(c, n) = c[2] /\ end[c][c[2]] \in {"sharing", "done"}
          BY <2>1, <2>3, <2>5, <3>1 DEF Whole, Other
      <4> QED
          BY <2>4, <3>1, <4>1 DEF InStep, Whole
    <3>2. CASE n = c[2] /\ end[c][c[1]] = "wait"
      <4>1. Other(c, n) = c[1] /\ OnWay(c, <<Handshake>>, <<>>)
          BY <2>1, <2>3, <2>5, <3>2 DEF Whole, Other
      <4>2. Sent(c, c[1], m) = <<Handshake, m>>
        <5>1. Append(<<Handshake>>, m) = <<Handshake, m>>
            BY Queues
        <5> QED
            BY <3>2, <4>1, <5>1 DEF Sent, Gone, OnWay
      <4> QED
          BY <2>4, <3>2, <4>1, <4>2 DEF InStep, Whole, OnWay
    <3>3. CASE n = c[2] /\ end[c][c[1]] # "wait"
      <4>1. Other(c, n) = c[1] /\ end[c][c[1]] \in {"sharing", "done"}
          BY <2>1, <2>3, <2>5, <3>3 DEF Whole, Other
      <4> QED
          BY <2>4, <3>3, <4>1 DEF InStep, Whole
    <3> QED
        BY <2>1, <3>1, <3>2, <3>3
  <2>6. ASSUME Halved(c)
        PROVE  InStep(c)'
    <3>1. Clean(c, n)'
        BY <2>4 DEF Clean
    <3> QED
        BY <2>3, <2>4, <2>6, <3>1, HalvedSends, HalvedFrame
  <2>7. \A d \in Conn : d # c => end'[d] = end[d] /\ wire'[d] = wire[d]
      BY <2>3 DEF TypeInv, Nest
  <2> QED
      BY <2>2, <2>5, <2>6, <2>7, HandshakeFrame DEF InStep
<1>6. ASSUME NEW c \in Conn, NEW n \in Ends(c), PeersMsg(c, n)
      PROVE  HandshakeInv'
  <2>1. c[1] \in Ends(c) /\ c[2] \in Ends(c) /\ c[1] # c[2] /\ Ends(c) = {c[1], c[2]}
        /\ Other(c, n) # n /\ Other(c, n) \in Ends(c)
      BY ConnEnds DEF Ends
  <2>2. InStep(c)
      BY DEF HandshakeInv
  <2>3. PICK k \in DOMAIN wire[c][n] :
            /\ wire[c][n][k].kind = "peers"
            /\ \/ /\ end[c][n] = "done" /\ end' = end
                  /\ wire' = [wire EXCEPT ![c][n] = SubSeq(@, k + 1, Len(@))]
               \/ end[c][n] \in {"init", "wait"} /\ k = 1
      BY <1>6 DEF PeersMsg
  <2>4. ~(end[c][n] \in {"init", "wait"} /\ k = 1)
    <3>1. k = 1 => wire[c][n] # <<>> /\ wire[c][n][1].kind = "peers"
        BY <2>3
    <3> QED
        BY <2>2, <3>1, PeersFindDone
  <2>5. /\ end[c][n] = "done" /\ end' = end /\ wire'[c][Other(c, n)] = wire[c][Other(c, n)]
        /\ \A d \in Conn : d # c => end'[d] = end[d] /\ wire'[d] = wire[d]
      BY <2>1, <2>3, <2>4 DEF TypeInv, Nest
  <2>6. ASSUME Whole(c)
        PROVE  InStep(c)'
    <3>1. end[c][c[1]] \in {"sharing", "done"} /\ end[c][c[2]] \in {"sharing", "done"}
      <4>1. n = c[1] \/ (n = c[2] /\ (end[c][c[1]] = "wait" => wire[c][n] = <<>>))
          BY <2>1, <2>5, <2>6 DEF Whole, OnWay
      <4>2. wire[c][n] # <<>>
          BY <2>3
      <4> QED
          BY <2>5, <2>6, <4>1, <4>2 DEF Whole
    <3> QED
        BY <2>5, <3>1 DEF InStep, Whole
  <2>7. ASSUME Halved(c)
        PROVE  InStep(c)'
    <3>1. Clean(c, n)'
        BY <2>5 DEF Clean
    <3> QED
        BY <2>5, <2>7, <3>1, HalvedFrame
  <2> QED
      BY <2>2, <2>5, <2>6, <2>7, HandshakeFrame DEF InStep
<1>9. ASSUME NEW c \in Conn, NEW n \in Ends(c), Break(c, n) \/ Notice(c, n)
      PROVE  HandshakeInv'
  <2>1. /\ end' = [end EXCEPT ![c][n] = "closed"] /\ wire' = [wire EXCEPT ![c][n] = <<>>]
        /\ Other(c, n) # n /\ Other(c, n) \in Ends(c) /\ Ends(c) = {n, Other(c, n)}
      BY <1>9, ConnEnds DEF Break, Notice, Shut
  <2>2. /\ end'[c][n] = "closed" /\ wire'[c][n] = <<>>
        /\ end'[c][Other(c, n)] = end[c][Other(c, n)]
        /\ wire'[c][Other(c, n)] = wire[c][Other(c, n)]
        /\ \A d \in Conn : d # c => end'[d] = end[d] /\ wire'[d] = wire[d]
      BY <2>1 DEF TypeInv, Nest
  <2>3. EndFine(c, Other(c, n))
      BY <2>1, EndsFine DEF HandshakeInv
  <2>4. EndFine(c, n)' /\ EndFine(c, Other(c, n))'
      BY <2>2, <2>3 DEF EndFine, Clean
  <2>5. InStep(c)'
      BY <2>1, <2>2, <2>4 DEF InStep, Halved
  <2> QED
      BY <2>2, <2>5, HandshakeFrame
<1>10. ASSUME NEW c \in Conn, NEW n \in Ends(c),
              LookUp(c, n) \/ EnterGone(c, n) \/ LookUpPeer(c, n) \/ InsertPeer(c, n)
       PROVE  HandshakeInv'
    BY <1>0, <1>10 DEF LookUp, EnterGone, LookUpPeer, InsertPeer
<1>7. ASSUME NEW c \in Conn, NEW n \in Ends(c), CloseHook(c, n)
      PROVE  HandshakeInv'
    BY <1>0, <1>7 DEF CloseHook
<1>8. CASE UNCHANGED vars
    BY <1>0, <1>8 DEF vars
<1> QED
    BY <1>1, <1>2, <1>3, <1>4, <1>5, <1>6, <1>7, <1>8, <1>9, <1>10 DEF Next, NodeStep, EndStep

-----------------------------------------------------------------------------
(* A step that joins nobody new and forgets nothing that was shared with     *)
(* those who stay joined keeps OneIsTold.                                    *)
LEMMA ToldFrame ==
    ASSUME OneIsTold,
           \A n, p \in Node : Joined(n, p)' => /\ Joined(n, p)
                                               /\ book[n][p].shared \subseteq book'[n][p].shared
    PROVE  OneIsTold'
BY DEF OneIsTold

(* The same for steps that leave the connections and the shared peers of the *)
(* book alone and finish no handshake.                                       *)
LEMMA ToldKept ==
    ASSUME TypeInv, HookInv, OneIsTold,
           \A n, p \in Node : /\ book'[n][p].conn \in {book[n][p].conn, Nil}
                              /\ book'[n][p].conn # Nil => book'[n][p].shared = book[n][p].shared,
           \A c \in Conn : \A n \in Ends(c) : end'[c][n] = "done" => end[c][n] = "done"
    PROVE  OneIsTold'
<1>1. ASSUME NEW n \in Node, NEW p \in Node, Joined(n, p)'
      PROVE  Joined(n, p) /\ book[n][p].shared \subseteq book'[n][p].shared
  <2>1. book'[n][p].conn # Nil /\ end'[book'[n][p].conn][n] = "done"
      BY <1>1 DEF Joined
  <2>2. /\ book'[n][p].conn = book[n][p].conn
        /\ book'[n][p].shared = book[n][p].shared
      BY <2>1
  <2>3. book[n][p].conn \in Conn /\ n \in Ends(book[n][p].conn)
      BY <2>1, <2>2 DEF TypeInv, Entry, HookInv
  <2> QED
      BY <2>1, <2>2, <2>3 DEF Joined
<1> QED
    BY <1>1, ToldFrame

(* A node that enters a connection in its book has not shared its peers with *)
(* the other end yet.                                                        *)
LEMMA ToldAdded ==
    ASSUME TypeInv, HookInv, OneIsTold, NEW c \in Conn, NEW n \in Ends(c), NEW outbound \in BOOLEAN,
           AddConn(n, Other(c, n), outbound, c), end'[c][n] # "done",
           \A d \in Conn : \A m \in Ends(d) : end'[d][m] = "done" => end[d][m] = "done"
    PROVE  OneIsTold'
<1> DEFINE p == Other(c, n)
<1>1. n \in Node /\ p \in Node
    BY ConnEnds
<1>2. end'[c][n] # "done" /\ \A d \in Conn : \A m \in Ends(d) : end'[d][m] = "done" => end[d][m] = "done"
    OBVIOUS
<1>3. CASE book' = book
    BY <1>2, <1>3, ToldKept
<1>4. ASSUME NEW e \in Entry, e.conn = c, book' = [book EXCEPT ![n][p] = e]
      PROVE  OneIsTold'
  <2>1. book'[n][p] = e /\ \A m, q \in Node : ~(m = n /\ q = p) => book'[m][q] = book[m][q]
      BY <1>1, <1>4 DEF TypeInv, Nest
  <2>2. ASSUME NEW m \in Node, NEW q \in Node, Joined(m, q)'
        PROVE  Joined(m, q) /\ book[m][q].shared \subseteq book'[m][q].shared
    <3>1. ~(m = n /\ q = p)
        BY <1>2, <1>4, <2>1, <2>2 DEF Joined
    <3>2. book'[m][q] = book[m][q] /\ book[m][q].conn # Nil /\ end'[book[m][q].conn][m] = "done"
        BY <2>1, <2>2, <3>1 DEF Joined
    <3>3. book[m][q].conn \in Conn /\ m \in Ends(book[m][q].conn)
        BY <3>2 DEF TypeInv, Entry, HookInv
    <3> QED
        BY <1>2, <3>2, <3>3 DEF Joined
  <2> QED
      BY <2>2, ToldFrame
<1> QED
    BY <1>3, <1>4, AddConnEffect

(* Whoever finishes its handshake last is told of those who have finished    *)
(* before: the book has had their connections since.                         *)
LEMMA ToldShared ==
    ASSUME TypeInv, HookInv, OneIsTold, NEW c \in Conn, NEW n \in Ends(c), SharePeers(c, n)
    PROVE  OneIsTold'
<1> DEFINE p == Other(c, n)
           ids == ActivePeers(n, p)
<1>1. n \in Node /\ p \in Node /\ n # p /\ Ends(c) = {n, p} /\ c # Nil
    BY ConnEnds
<1> DEFINE e == [book[n][p] EXCEPT !.shared = @ \cup ids]
<1>2. /\ end' = [end EXCEPT ![c][n] = "done"]
      /\ book' = IF book[n][p].known THEN [book EXCEPT ![n][p] = e] ELSE book
  <2>1. end' = [end EXCEPT ![c][n] = "done"] /\ SetSharedPeers(n, p, ids)
      BY DEF SharePeers
  <2> HIDE DEF ids
  <2> QED
      BY <1>1, <2>1 DEF SetSharedPeers, AddShared
<1>e. e.conn = book[n][p].conn /\ e.shared = book[n][p].shared \cup ids
  <2>1. book[n][p] \in Entry
      BY <1>1 DEF TypeInv, Nest
  <2> HIDE DEF ids
  <2> QED
      BY <2>1 DEF Entry
<1> HIDE DEF ids, e
<1>3. /\ end'[c][n] = "done"
      /\ \A d \in Conn : \A m \in Ends(d) : ~(d = c /\ m = n) => end'[d][m] = end[d][m]
    BY <1>2 DEF TypeInv, Nest
<1>4. ASSUME NEW m \in Node, NEW q \in Node
      PROVE  /\ book'[m][q].conn = book[m][q].conn
             /\ book[m][q].shared \subseteq book'[m][q].shared
  <2>1. book[m][q] \in Entry
      BY DEF TypeInv, Nest
  <2>2. CASE book' = book
      BY <2>2
  <2>3. CASE book' = [book EXCEPT ![n][p] = e]
      BY <1>1, <1>e, <2>3 DEF TypeInv, Nest
  <2> QED
      BY <1>2, <2>2, <2>3
<1>5. book[n][p].known => ids \subseteq book'[n][p].shared
    BY <1>1, <1>2, <1>e DEF TypeInv, Nest
<1>6. ASSUME NEW m \in Node, NEW q \in Node, Joined(m, q)', ~(m = n /\ q = p)
      PROVE  Joined(m, q)
  <2>1. book[m][q].conn # Nil /\ end'[book[m][q].conn][m] = "done"
      BY <1>4, <1>6 DEF Joined
  <2>2. book[m][q].conn \in Conn /\ Ends(book[m][q].conn) = {m, q}
    <3>1. book[m][q] \in Entry
        BY DEF TypeInv, Nest
    <3>2. book[m][q].conn \in Conn
        BY <2>1, <3>1 DEF Entry
    <3> QED
        BY <2>1, <3>2 DEF HookInv
  <2>3. ~(book[m][q].conn = c /\ m = n)
      BY <1>1, <1>6, <2>2
  <2> QED
      BY <1>3, <2>1, <2>2, <2>3 DEF Joined
<1>7. ASSUME NEW q \in Node, q # p, Joined(n, p)', Joined(n, q)'
      PROVE  q \in book'[n][p].shared
  <2>1. Joined(n, q) /\ book[n][q].known /\ IsActive(book[n][q])
      BY <1>1, <1>6, <1>7 DEF Joined, HookInv, IsActive
  <2>2. q \in ids \/ q \in book[n][p].shared
      BY <1>7, <2>1 DEF ids, ActivePeers, SharedPeers
  <2>3. book[n][p].known
      BY <1>1, <1>4, <1>7 DEF Joined, HookInv
  <2> QED
      BY <1>1, <1>4, <1>5, <2>2, <2>3
<1>8. ASSUME NEW m \in Node, NEW q \in Node, NEW r \in Node, q # r, Joined(m, q)', Joined(m, r)'
      PROVE  r \in book'[m][q].shared \/ q \in book'[m][r].shared
  <2>1. CASE m = n /\ q = p
      BY <1>7, <1>8, <2>1
  <2>2. CASE m = n /\ r = p
      BY <1>7, <1>8, <2>2
  <2>3. CASE ~(m = n /\ q = p) /\ ~(m = n /\ r = p)
    <3>1. Joined(m, q) /\ Joined(m, r)
        BY <1>6, <1>8, <2>3
    <3> QED
        BY <1>4, <1>8, <3>1 DEF OneIsTold
  <2> QED
      BY <2>1, <2>2, <2>3
<1> QED
    BY <1>8 DEF OneIsTold

(* Every step keeps OneIsTold.                                               *)
LEMMA ToldStep == TypeInv /\ HookInv /\ DialInv /\ OneIsTold /\ [Next]_vars => OneIsTold'
<1> SUFFICES ASSUME TypeInv, HookInv, DialInv, OneIsTold, [Next]_vars
             PROVE  OneIsTold'
    OBVIOUS
<1>0. ASSUME book' = book, \A c \in Conn : \A n \in Ends(c) : end'[c][n] = "done" => end[c][n] = "done"
      PROVE  OneIsTold'
    BY <1>0, ToldKept
<1>1. ASSUME NEW n \in Node, NEW p \in Node, Monitor(n) \/ Retry(n, p)
      PROVE  OneIsTold'
    BY <1>0, <1>1 DEF Monitor, Retry
<1>2. ASSUME NEW n \in Node, NEW p \in Node, Dial(n, p) \/ DialSucceeds(n, p) \/ DialFails(n, p)
      PROVE  OneIsTold'
  <2>1. \E b \in BOOLEAN : \/ book' = [book EXCEPT ![n][p].dialing = b]
                           \/ \E k : book' = [book EXCEPT ![n][p].dialing = b, ![n][p].failed = k]
      BY <1>2 DEF Dial, DialSucceeds, DialFails
  <2>2. ASSUME NEW m \in Node, NEW q \in Node
        PROVE  book'[m][q].conn = book[m][q].conn /\ book'[m][q].shared = book[m][q].shared
    <3>1. book[m][q] \in Entry
        BY DEF TypeInv, Nest
    <3>2. ASSUME NEW b \in BOOLEAN, book' = [book EXCEPT ![n][p].dialing = b]
          PROVE  book'[m][q].conn = book[m][q].conn /\ book'[m][q].shared = book[m][q].shared
        BY <3>1, <3>2 DEF TypeInv, Entry
    <3>3. ASSUME NEW b \in BOOLEAN, NEW k,
                 book' = [book EXCEPT ![n][p].dialing = b, ![n][p].failed = k]
          PROVE  book'[m][q].conn = book[m][q].conn /\ book'[m][q].shared = book[m][q].shared
        BY <3>1, <3>3 DEF TypeInv, Entry
    <3> QED
        BY <2>1, <3>2, <3>3
  <2>3. ASSUME NEW c \in Conn, NEW m \in Ends(c), end'[c][m] = "done"
        PROVE  end[c][m] = "done"
    <3>1. CASE end' = end
        BY <2>3, <3>1
    <3>2. CASE DialSucceeds(n, p)
      <4>1. n # p /\ \E k \in {1, 2} :
                /\ <<n, p, k>> \in Conn
                /\ end' = [end EXCEPT ![<<n, p, k>>] = NewHandshaker(n, p)]
          BY <3>2, DialFindsUnused
      <4>2. PICK k \in {1, 2} : /\ <<n, p, k>> \in Conn
                                /\ end' = [end EXCEPT ![<<n, p, k>>] = NewHandshaker(n, p)]
          BY <4>1
      <4>3. CASE c = <<n, p, k>>
        <5>1. m \in {n, p} /\ end'[c] = NewHandshaker(n, p)
            BY <4>2, <4>3 DEF Ends, TypeInv, Nest
        <5> QED
            BY <2>3, <5>1 DEF NewHandshaker
      <4>4. CASE c # <<n, p, k>>
          BY <2>3, <4>2, <4>4 DEF TypeInv, Nest
      <4> QED
          BY <4>3, <4>4
    <3> QED
        BY <1>2, <3>1, <3>2 DEF Dial, DialFails
  <2> QED
      BY <2>2, <2>3, ToldKept
<1>3. ASSUME NEW c \in Conn, InitHandshake(c)
      PROVE  OneIsTold'
  <2>1. c[1] \in Ends(c) /\ c[2] = Other(c, c[1])
      BY DEF Ends, Other
  <2>2. AddConn(c[1], Other(c, c[1]), TRUE, c) /\ end' = [end EXCEPT ![c][c[1]] = "wait"]
      BY <1>3, <2>1 DEF InitHandshake
  <2>3. /\ end'[c][c[1]] # "done"
        /\ \A d \in Conn : \A m \in Ends(d) : end'[d][m] = "done" => end[d][m] = "done"
      BY <2>1, <2>2 DEF TypeInv, Nest
  <2> QED
      BY <2>1, <2>2, <2>3, ToldAdded
<1>4. ASSUME NEW c \in Conn, NEW n \in Ends(c), AnswerHandshake(c, n) \/ EnterGone(c, n)
      PROVE  OneIsTold'
  <2>1. AddConn(n, Other(c, n), FALSE, c)
      BY <1>4 DEF AnswerHandshake, EnterGone
  <2>2. /\ end'[c][n] # "done"
        /\ \A d \in Conn : \A m \in Ends(d) : end'[d][m] = "done" => end[d][m] = "done"
    <3>1. CASE AnswerHandshake(c, n)
        BY <3>1 DEF AnswerHandshake, TypeInv, Nest
    <3>2. CASE EnterGone(c, n)
        BY <3>2 DEF EnterGone, Gone
    <3> QED
        BY <1>4, <3>1, <3>2
  <2> QED
      BY <2>1, <2>2, ToldAdded
<1>5. ASSUME NEW c \in Conn, Accept(c)
      PROVE  OneIsTold'
    BY <1>0, <1>5 DEF Accept, TypeInv, Nest
<1>6. ASSUME NEW c \in Conn, NEW n \in Ends(c),
             LookUp(c, n) \/ PeersMsg(c, n) \/ LookUpPeer(c, n) \/ Break(c, n) \/ Notice(c, n)
      PROVE  OneIsTold'
  <2>1. book' = book
      BY <1>6 DEF LookUp, PeersMsg, LookUpPeer, Break, Notice
  <2>2. end' = end \/ end' = [end EXCEPT ![c][n] = "closed"] \/ end' = [end EXCEPT ![c][n] = "aborted"]
      BY <1>6 DEF LookUp, PeersMsg, LookUpPeer, Break, Notice, Shut
  <2>3. \A d \in Conn : \A m \in Ends(d) : end'[d][m] = "done" => end[d][m] = "done"
    <3>1. CASE end' = end
        BY <3>1
    <3>2. CASE end' = [end EXCEPT ![c][n] = "closed"]
        BY <3>2 DEF TypeInv, Nest
    <3>3. CASE end' = [end EXCEPT ![c][n] = "aborted"]
        BY <3>3 DEF TypeInv, Nest
    <3> QED
        BY <2>2, <3>1, <3>2, <3>3
  <2> QED
      BY <1>0, <2>1, <2>3
<1>9. ASSUME NEW c \in Conn, NEW n \in Ends(c), InsertPeer(c, n)
      PROVE  OneIsTold'
  <2>1. n \in Node /\ absent[c][n] \in Node /\ end' = end
      BY <1>9, ConnEnds DEF InsertPeer, TypeInv, Nest
  <2>2. NewEntry(TRUE).conn = Nil
      BY DEF NewEntry, Unknown
  <2>3. book' = [book EXCEPT ![n][absent[c][n]] = NewEntry(TRUE)]
      BY <1>9 DEF InsertPeer, Learned
  <2>4. ASSUME NEW m \in Node, NEW q \in Node
        PROVE  book'[m][q] = book[m][q] \/ book'[m][q] = NewEntry(TRUE)
      BY <2>1, <2>3 DEF TypeInv, Nest
  <2> QED
      BY <2>1, <2>2, <2>4, ToldKept
<1>7. ASSUME NEW c \in Conn, NEW n \in Ends(c), CloseHook(c, n)
      PROVE  OneIsTold'
  <2>1. n \in Node /\ Other(c, n) \in Node /\ end' = end
      BY <1>7, ConnEnds DEF CloseHook
  <2>2. book' = [book EXCEPT ![n][Other(c, n)].conn = Nil, ![n][Other(c, n)].shared = {}]
      BY <1>7 DEF CloseHook
  <2>3. ASSUME NEW m \in Node, NEW q \in Node
        PROVE  /\ book'[m][q].conn \in {book[m][q].conn, Nil}
               /\ book'[m][q].conn # Nil => book'[m][q].shared = book[m][q].shared
    <3>1. book[m][q] \in Entry
        BY DEF TypeInv, Nest
    <3> QED
        BY <2>1, <2>2, <3>1 DEF TypeInv, Entry
  <2> QED
      BY <2>1, <2>3, ToldKept
<1>8. CASE UNCHANGED vars
    BY <1>0, <1>8 DEF vars
<1> QED
    BY <1>1, <1>2, <1>3, <1>4, <1>5, <1>6, <1>7, <1>8, <1>9, ToldShared DEF Next, NodeStep, EndStep

-----------------------------------------------------------------------------
(* The joined connections of the start are in the books of their ends, and   *)
(* nobody dials.                                                             *)
LEMMA InitialMesh == Init => MeshInv /\ OneIsTold
<1> SUFFICES ASSUME Init
             PROVE  MeshInv /\ OneIsTold
    OBVIOUS
<1>1. PICK st \in Starts :
        /\ book = [n \in Node |-> [p \in Node |->
                    LET e  == IF p \in st.seeds[n] THEN NewEntry(TRUE) ELSE Unknown
                        cs == {c \in st.joined : Ends(c) = {n, p}}
                    IN IF cs = {} THEN e
                       ELSE [e EXCEPT !.known = TRUE, !.conn = CHOOSE c \in cs : TRUE]]]
        /\ end = [c \in Conn |-> [n \in Ends(c) |-> IF c \in st.joined THEN "done" ELSE "closed"]]
        /\ hook = [c \in Conn |-> IF c \in st.joined THEN Ends(c) ELSE {}]
    BY DEF Init
<1>2. /\ queued = [n \in Node |-> {}] /\ retry = [n \in Node |-> {}]
      /\ dials = [n \in Node |-> [p \in Node |-> 0]]
      /\ wire = [c \in Conn |-> [n \in Ends(c) |-> <<>>]]
      /\ todo = [c \in Conn |-> [n \in Ends(c) |-> {}]]
      /\ absent = [c \in Conn |-> [n \in Ends(c) |-> Nil]]
    BY DEF Init
<1>3. /\ st.joined \subseteq Conn
      /\ \A c, d \in st.joined : c # d => Ends(c) \cap Ends(d) = {}
    BY <1>1, StartsAssumption
<1> DEFINE Cs(n, p) == {c \in st.joined : Ends(c) = {n, p}}
           Seed(n, p) == IF p \in st.seeds[n] THEN NewEntry(TRUE) ELSE Unknown
<1>4. ASSUME NEW n \in Node, NEW p \in Node
      PROVE  /\ Seed(n, p) \in Entry /\ Seed(n, p).conn = Nil /\ Seed(n, p).shared = {}
             /\ n = p => ~Seed(n, p).known
  <2>1. NewEntry(TRUE) \in Entry /\ NewEntry(TRUE).conn = Nil /\ NewEntry(TRUE).shared = {}
      BY NewEntryType DEF NewEntry, Unknown
  <2>2. Unknown \in Entry /\ Unknown.conn = Nil /\ Unknown.shared = {} /\ ~Unknown.known
      BY DEF Unknown, Entry
  <2>3. st.seeds[n] \subseteq Node \ {n}
      BY SeedsAssumption
  <2> QED
      BY <2>1, <2>2, <2>3
<1>5. ASSUME NEW n \in Node, NEW p \in Node
      PROVE  /\ book[n][p] \in Entry /\ book[n][p].shared = {}
             /\ Cs(n, p) = {} => book[n][p] = Seed(n, p)
             /\ Cs(n, p) # {} => book[n][p].known /\ book[n][p].conn \in Cs(n, p)
  <2> DEFINE c == CHOOSE c \in Cs(n, p) : TRUE
  <2>1. book[n][p] = IF Cs(n, p) = {} THEN Seed(n, p)
                     ELSE [Seed(n, p) EXCEPT !.known = TRUE, !.conn = c]
      BY <1>1
  <2>2. Cs(n, p) # {} => c \in Cs(n, p) /\ c \in Conn
      BY <1>3
  <2> HIDE DEF c, Cs, Seed
  <2>3. CASE Cs(n, p) = {}
      BY <1>4, <2>1, <2>3
  <2>4. CASE Cs(n, p) # {}
    <3>1. book[n][p] = [Seed(n, p) EXCEPT !.known = TRUE, !.conn = c] /\ Seed(n, p) \in Entry
        BY <1>4, <2>1, <2>4
    <3>2. book[n][p] \in Entry /\ book[n][p].known /\ book[n][p].conn = c
        BY <2>2, <2>4, <3>1 DEF Entry
    <3>3. book[n][p].shared = {}
        BY <1>4, <3>1 DEF Entry
    <3> QED
        BY <2>2, <2>4, <3>2, <3>3
  <2> QED
      BY <2>3, <2>4
<1>6. ASSUME NEW n \in Node, NEW p \in Node
      PROVE  /\ book[n][p].conn # Nil => /\ book[n][p].known /\ book[n][p].conn \in st.joined
                                         /\ Ends(book[n][p].conn) = {n, p}
             /\ n = p => ~book[n][p].known
  <2>1. n = p => Cs(n, p) = {}
    <3>1. \A c \in st.joined : Ends(c) # {n, n}
        BY <1>3, ConnEnds DEF Ends
    <3> QED
        BY <3>1
  <2>2. CASE Cs(n, p) = {}
    <3>1. book[n][p] = Seed(n, p)
        BY <1>5, <2>2
    <3> HIDE DEF Seed, Cs
    <3> QED
        BY <1>4, <3>1
  <2>3. CASE Cs(n, p) # {}
    <3>1. book[n][p].known /\ book[n][p].conn \in Cs(n, p)
        BY <1>5, <2>3
    <3> QED
        BY <2>1, <2>3, <3>1
  <2> QED
      BY <2>2, <2>3
<1> HIDE DEF Seed
<1>7. TypeInv
  <2>1. book \in [Node -> [Node -> Entry]]
      BY <1>1, <1>5
  <2>2. hook \in [Conn -> SUBSET Node]
      BY <1>1, <1>3, ConnEnds
  <2>3. end = [c \in Conn |-> end[c]] /\ \A c \in Conn : end[c] \in [Ends(c) -> EndSt]
      BY <1>1 DEF EndSt
  <2> QED
      BY <1>2, <2>1, <2>2, <2>3 DEF TypeInv, Nest
<1>8. DialInv
    BY <1>2, <1>6 DEF DialInv
<1>9. HookInv
  <2>1. ASSUME NEW n \in Node, NEW p \in Node, book[n][p].conn # Nil
        PROVE  book[n][p].known /\ Ends(book[n][p].conn) = {n, p} /\ n \in hook[book[n][p].conn]
    <3>1. book[n][p].known /\ book[n][p].conn \in st.joined /\ Ends(book[n][p].conn) = {n, p}
        BY <1>6, <2>1
    <3>2. hook[book[n][p].conn] = Ends(book[n][p].conn)
        BY <1>1, <1>3, <3>1
    <3> QED
        BY <3>1, <3>2
  <2>2. ASSUME NEW c \in Conn, NEW n \in hook[c]
        PROVE  n \in Ends(c) /\ book[n][Other(c, n)].conn = c
    <3>1. c \in st.joined /\ n \in Ends(c)
        BY <1>1
    <3>2. n \in Node /\ Other(c, n) \in Node /\ Ends(c) = {n, Other(c, n)}
        BY <3>1, ConnEnds
    <3>3. c \in Cs(n, Other(c, n))
        BY <3>1, <3>2
    <3>4. Cs(n, Other(c, n)) = {c}
        BY <1>3, <3>1, <3>3
    <3> QED
        BY <1>5, <3>1, <3>2, <3>4
  <2> QED
      BY <2>1, <2>2 DEF HookInv
<1>10. HandshakeInv
  <2> SUFFICES ASSUME NEW c \in Conn
               PROVE  InStep(c)
      BY DEF HandshakeInv
  <2>1. c[1] \in Ends(c) /\ c[2] \in Ends(c)
      BY DEF Ends
  <2>2. \A n \in Ends(c) : wire[c][n] = <<>>
      BY <1>2
  <2>3. CASE c \in st.joined
      BY <1>1, <2>1, <2>3 DEF InStep, Whole
  <2>4. CASE c \notin st.joined
    <3>1. \A n \in Ends(c) : end[c][n] = "closed"
        BY <1>1, <2>4
    <3> QED
        BY <2>1, <2>2, <3>1 DEF InStep, Halved, EndFine, Clean
  <2> QED
      BY <2>3, <2>4
<1>11. OneIsTold
  <2> SUFFICES ASSUME NEW n \in Node, NEW p \in Node, NEW q \in Node, p # q,
                      Joined(n, p), Joined(n, q)
               PROVE  FALSE
      BY DEF OneIsTold
  <2>1. /\ book[n][p].conn \in st.joined /\ Ends(book[n][p].conn) = {n, p}
        /\ book[n][q].conn \in st.joined /\ Ends(book[n][q].conn) = {n, q}
      BY <1>6 DEF Joined
  <2>2. {n, p} \cap {n, q} # {}
      OBVIOUS
  <2>3. book[n][p].conn = book[n][q].conn
      BY <1>3, <2>1, <2>2
  <2>4. {n, p} = {n, q} /\ n # p
      BY <1>3, <2>1, <2>3, ConnEnds DEF Ends
  <2> QED
      BY <2>4
<1> QED
    BY <1>7, <1>8, <1>9, <1>10, <1>11 DEF MeshInv

(* Every step keeps the invariant and what OneIsTold says.                   *)
LEMMA MeshStep == MeshInv /\ OneIsTold /\ [Next]_vars => MeshInv' /\ OneIsTold'
BY TypeStep, DialStep, HookStep, HandshakeStep, ToldStep DEF MeshInv

(* Of two peers that have finished their handshake with a node, at least one *)
(* was told of the other, however many nodes connect, fail and reconnect in  *)
(* whatever order (mesh/handshake.go, mesh/addrbook.go).                     *)
THEOREM OneTold == Spec => []OneIsTold
BY InitialMesh, MeshStep, PTL DEF Spec

(* Nodes that keep to the handshake never close a connection with            *)
(* ErrForbidden.                                                             *)
THEOREM NobodyAborts == Spec => []HonestNeverAborts
<1>1. MeshInv => HonestNeverAborts
  <2> SUFFICES ASSUME MeshInv, NEW c \in Conn, NEW n \in Ends(c)
               PROVE  end[c][n] # "aborted"
      BY DEF HonestNeverAborts
  <2>1. EndFine(c, n)
      BY EndsFine DEF MeshInv, HandshakeInv
  <2> QED
      BY <2>1 DEF EndFine
<1> QED
    BY <1>1, InitialMesh, MeshStep, PTL DEF Spec
=============================================================================
