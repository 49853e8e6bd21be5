---------------------------- MODULE RemoteProofs ----------------------------
(* Theorems about Remote, for any routes, bounds and ways of using the two   *)
(* endpoints, and about the texts of Naming, of any length.                  *)
EXTENDS Remote, SequenceTheorems, FiniteSetTheorems, TLAPS

-----------------------------------------------------------------------------
(* Texts of routes. *)

(* A text with one separator splits there.                                   *)
LEMMA SplitAt ==
    ASSUME NEW S, NEW a \in Seq(S), NEW b \in Seq(S), NEW c \in S,
           c \notin Symbols(a), c \notin Symbols(b)
    PROVE  LET text == a \o <<c>> \o b
           IN /\ c \in Symbols(text) /\ Count(text, c) = 1
              /\ Before(text, c) = a /\ After(text, c) = b
              /\ \A x \in Symbols(text) : x = c \/ x \in Symbols(a) \/ x \in Symbols(b)
<1> DEFINE text == a \o <<c>> \o b
           p == Len(a) + 1
<1>1. /\ Len(a) \in Nat /\ Len(b) \in Nat /\ DOMAIN a = 1..Len(a) /\ DOMAIN b = 1..Len(b)
      /\ text \in Seq(S) /\ Len(text) = p + Len(b) /\ DOMAIN text = 1..(p + Len(b))
      /\ \A k \in 1..Len(a) : text[k] = a[k]
      /\ text[p] = c
      /\ \A k \in 1..Len(b) : text[p + k] = b[k]
    OBVIOUS
<1> HIDE DEF text
<1>2. \A k \in 1..Len(a) : a[k] # c
    BY <1>1 DEF Symbols
<1>3. \A k \in 1..Len(b) : b[k] # c
    BY <1>1 DEF Symbols
<1>4. ASSUME NEW k \in DOMAIN text
      PROVE  \/ k \in 1..Len(a) /\ text[k] = a[k]
             \/ k = p
             \/ k - p \in 1..Len(b) /\ text[k] = b[k - p]
  <2>1. k \in 1..Len(a) \/ k = p \/ k - p \in 1..Len(b)
      BY <1>1, <1>4
  <2>2. CASE k - p \in 1..Len(b)
    <3>1. PICK j \in 1..Len(b) : j = k - p
        BY <2>2
    <3>2. p + j = k
        BY <1>1, <1>4, <3>1
    <3>3. text[p + j] = b[j]
        BY <1>1
    <3> QED
        BY <2>2, <3>1, <3>2, <3>3
  <2> QED
      BY <1>1, <2>1, <2>2
<1>5. p \in DOMAIN text /\ \A k \in DOMAIN text : text[k] = c <=> k = p
  <2>1. p \in DOMAIN text
      BY <1>1
  <2> QED
      BY <1>1, <1>2, <1>3, <1>4, <2>1
<1>6. Count(text, c) = 1
  <2>1. {k \in DOMAIN text : text[k] = c} = {p}
      BY <1>5
  <2> QED
      BY <2>1, FS_Singleton DEF Count
<1>7. Position(text, c) = p
    BY <1>5 DEF Position
<1>8. Before(text, c) = a
  <2>1. Before(text, c) = SubSeq(text, 1, Len(a))
      BY <1>1, <1>7 DEF Before
  <2> QED
      BY <1>1, <2>1
<1>9. After(text, c) = b
  <2>1. After(text, c) = SubSeq(text, p + 1, p + Len(b))
      BY <1>1, <1>7 DEF After
  <2>2. SubSeq(text, p + 1, p + Len(b)) \in Seq(S) /\ Len(SubSeq(text, p + 1, p + Len(b))) = Len(b)
        /\ \A k \in 1..Len(b) : SubSeq(text, p + 1, p + Len(b))[k] = text[p + k]
      BY <1>1
  <2>3. /\ After(text, c) \in Seq(S) /\ Len(After(text, c)) = Len(b)
        /\ \A k \in 1..Len(b) : After(text, c)[k] = b[k]
      BY <1>1, <2>1, <2>2
  <2> QED
      BY <2>3, SeqEqual
<1>10. c \in Symbols(text)
    BY <1>5 DEF Symbols
<1>11. ASSUME NEW x \in Symbols(text)
       PROVE  x = c \/ x \in Symbols(a) \/ x \in Symbols(b)
  <2>1. PICK k \in DOMAIN text : x = text[k]
      BY <1>11 DEF Symbols
  <2> QED
      BY <1>1, <1>4, <2>1 DEF Symbols
<1> QED
    BY <1>6, <1>8, <1>9, <1>10, <1>11 DEF text

(* The separators are different from each other and from every hash.         *)
LEMMA Separators == At # Mark /\ \A text : Sha1(text) # At /\ Sha1(text) # Mark
<1>1. At # Mark
    BY DEF At, Mark
<1>2. ASSUME NEW text PROVE Sha1(text) # At /\ Sha1(text) # Mark
    BY DEF At, Mark, Sha1
<1> QED
    BY <1>1, <1>2

(* A peer or a user who reads the text of a plain route finds the route that *)
(* was written, however long its path (NewRoute, String, RouteFromString).   *)
THEOREM PlainRoundTrip ==
    ASSUME NEW S, NEW path \in Seq(S), NEW type, type # At, NEW r,
           r = NewRoute(path, type), r.kind # "invalid"
    PROVE  LET s == RouteFromString(String(r))
           IN Equal(s, r) /\ s.kind = r.kind /\ s.path = r.path
<1> DEFINE T == S \cup {type, At}
           text == <<type>> \o <<At>> \o path
<1>1. /\ path # <<>> /\ Symbols(path) \cap {At, Mark} = {}
      /\ r = [kind |-> "plain", route |-> routeString(path, type), path |-> path, type |-> type]
    BY DEF NewRoute, InvalidRoute
<1>2. <<type>> \in Seq(T) /\ path \in Seq(T) /\ At \in T
    OBVIOUS
<1>3. routeString(path, type) = text
    BY <1>2 DEF routeString
<1>4. At \notin Symbols(<<type>>) /\ At \notin Symbols(path)
    BY <1>1 DEF Symbols
<1>5. /\ At \in Symbols(text) /\ Count(text, At) = 1
      /\ Before(text, At) = <<type>> /\ After(text, At) = path
  <2> HIDE DEF T
  <2> QED
    BY <1>2, <1>4, SplitAt
<1>6. String(r) = text
    BY <1>1, <1>3 DEF String
<1>7. RouteFromString(text) = [kind |-> "plain", route |-> text, path |-> path, type |-> NoType]
  <2>1. RouteFromString(text) = plainRouteFromString(text)
      BY <1>5 DEF RouteFromString
  <2>2. <<type>> # <<>>
      OBVIOUS
  <2> QED
      BY <1>1, <1>5, <2>1, <2>2 DEF plainRouteFromString
<1> HIDE DEF text
<1> QED
    BY <1>1, <1>3, <1>6, <1>7 DEF Equal, ID

(* So does who reads the text of a hashed route: its prefix and its hash.    *)
THEOREM HashedRoundTrip ==
    ASSUME NEW S, NEW path, NEW prefix \in Seq(S), NEW type, NEW r,
           r = NewHashedRoute(prefix, path, type), r.kind # "invalid"
    PROVE  LET s == RouteFromString(String(r))
           IN Equal(s, r) /\ s.kind = r.kind /\ s.path = r.path
<1> DEFINE hash == Sha1(routeString(path, type))
           T == S \cup {Mark, hash}
           text == prefix \o <<Mark>> \o <<hash>>
<1>1. /\ Symbols(prefix) \cap {At, Mark} = {}
      /\ r = [kind |-> "hashed", route |-> <<hash>>, path |-> prefix, type |-> type]
    BY DEF NewHashedRoute, InvalidRoute
<1>2. hash # At /\ hash # Mark /\ At # Mark
    BY Separators
<1> HIDE DEF hash
<1>3. prefix \in Seq(T) /\ <<hash>> \in Seq(T) /\ Mark \in T
    OBVIOUS
<1>4. Symbols(<<hash>>) = {hash}
    BY DEF Symbols
<1>5. /\ Mark \in Symbols(text) /\ Count(text, Mark) = 1
      /\ Before(text, Mark) = prefix /\ After(text, Mark) = <<hash>>
      /\ \A x \in Symbols(text) : x = Mark \/ x \in Symbols(prefix) \/ x = hash
  <2> HIDE DEF T
  <2>1. Mark \notin Symbols(prefix) /\ Mark \notin Symbols(<<hash>>)
      BY <1>1, <1>2, <1>4
  <2>2. /\ Mark \in Symbols(text) /\ Count(text, Mark) = 1
        /\ Before(text, Mark) = prefix /\ After(text, Mark) = <<hash>>
        /\ \A x \in Symbols(text) : x = Mark \/ x \in Symbols(prefix) \/ x \in Symbols(<<hash>>)
      BY <1>3, <2>1, SplitAt
  <2> QED
      BY <1>4, <2>2
<1>6. At \notin Symbols(text)
    BY <1>1, <1>2, <1>5
<1>7. String(r) = text
    BY <1>1 DEF String
<1>8. RouteFromString(text) = [kind |-> "hashed", route |-> <<hash>>, path |-> prefix, type |-> NoType]
  <2>1. RouteFromString(text) = hashedRouteFromString(text)
      BY <1>5, <1>6 DEF RouteFromString
  <2>2. <<hash>> # <<>>
      OBVIOUS
  <2> QED
      BY <1>5, <2>1, <2>2 DEF hashedRouteFromString
<1> HIDE DEF text
<1> QED
    BY <1>1, <1>7, <1>8 DEF Equal, ID

-----------------------------------------------------------------------------
Registration == [who : {"none", "local", "remote"}, open : BOOLEAN]
Announcement == [kind : {"intent", "interest"}, text : {ID(route)}, register : BOOLEAN,
                 from : {Nil}]
Message == Announcement \cup [kind : {"message"}, text : {ID(route)}, register : {FALSE},
                              from : Node]

TypeInv ==
    /\ route \in Routes
    /\ up \in [Node -> BOOLEAN] /\ handler \in [Node -> {"reading", "stuck", "done"}]
    /\ cut \in BOOLEAN
    /\ adding \in [Node -> BOOLEAN]
    /\ intent \in [Node -> Registration] /\ interest \in [Node -> Registration]
    /\ hand \in [Node -> Node \cup {Nil}]
    /\ chan \in [Node -> Seq(Node)] /\ stray \in [Node -> Seq(Node \cup {Nil})]
    /\ wire \in [Node -> Seq(Message)]

(* What is open belongs to an endpoint that is up, and only an open interest *)
(* has messages under way: its forwarder's if it was made for the peer.      *)
OpenInv ==
    \A n \in Node :
        /\ intent[n].open => intent[n].who # "none" /\ up[n]
        /\ interest[n].open => interest[n].who # "none" /\ up[n]
        /\ adding[n] => interest[n] = None
        /\ hand[n] # Nil => interest[n] = Open("remote")
        /\ chan[n] # <<>> => interest[n].open
        /\ handler[n] # "reading" => ~up[n]

(* An announcement that the peer cannot parse makes nothing there, so that   *)
(* nothing is ever forwarded.                                                *)
LocalInv ==
    RouteFromString(ID(route)).kind = "invalid" =>
        \A n \in Node : /\ intent[n].who # "remote" /\ interest[n].who # "remote"
                        /\ stray[n] = <<>>
                        /\ \A k \in DOMAIN wire[n] : wire[n][k].kind # "message"

-----------------------------------------------------------------------------
(* What the peer knows of a node. *)

(* The reader of the announcements s, who has a registration already if r,   *)
(* has one before the k-th message, the last announcement before it being to *)
(* register.                                                                 *)
Registers(s, kind, r, k) ==
    \/ \E j \in DOMAIN s : /\ j < k /\ s[j].kind = kind /\ s[j].register
                           /\ \A i \in DOMAIN s : j < i /\ i < k => s[i].kind # kind
    \/ r /\ \A i \in DOMAIN s : i < k => s[i].kind # kind

MadeFor(reg, q) == reg[Peer(q)] = Open("remote")

Alive(q) == "failed" \notin odd /\ ~cut /\ up[q] /\ up[Peer(q)]

(* While announcements get through, what a node has for its peer once it has *)
(* read everything is what the peer has.                                     *)
IntentInv(q) ==
    Alive(q) /\ Registers(wire[q], "intent", MadeFor(intent, q), Len(wire[q]) + 1)
    => intent[q] = Open("local")
InterestInv(q) ==
    Alive(q) /\ Registers(wire[q], "interest", MadeFor(interest, q), Len(wire[q]) + 1)
    => interest[q] = Open("local") \/ adding[q]

(* A message is its writer's own, and when it is read the reader has no      *)
(* interest that was made for the writer: the writer had one for the reader. *)
(* What a forwarder finds in the channel and holds is its node's own.        *)
Mine(q) ==
    \A k \in DOMAIN wire[q] : wire[q][k].kind = "message" =>
        /\ wire[q][k].from = q
        /\ ~Registers(wire[q], "interest", MadeFor(interest, q), k)
Held(q) ==
    /\ hand[q] \in {Nil, q}
    /\ interest[q] = Open("remote") => \A k \in DOMAIN chan[q] : chan[q][k] = q

OwnInv(q) == odd = {} => Mine(q) /\ Held(q)

RemoteInv ==
    /\ TypeInv /\ OpenInv /\ LocalInv
    /\ \A q \in Node : IntentInv(q) /\ InterestInv(q) /\ OwnInv(q)

(* There are two endpoints, each the other's peer.                           *)
LEMMA Peers ==
    ASSUME NEW n \in Node
    PROVE  /\ Peer(n) \in Node /\ Peer(n) # n /\ Peer(Peer(n)) = n
           /\ \A m \in Node : m = n \/ m = Peer(n)
<1>1. PICK a, b \in Node : a # b /\ Node = {a, b}
    BY NodeAssumption
<1>2. Peer(a) = b /\ Peer(b) = a
    BY <1>1 DEF Peer
<1> QED
    BY <1>1, <1>2

(* A message that is written changes what is known only behind it, and only  *)
(* if it is an announcement.                                                 *)
LEMMA WrittenRegisters ==
    ASSUME NEW s \in Seq(Message), NEW m \in Message, NEW kind, NEW r \in BOOLEAN
    PROVE  /\ \A k \in 1..(Len(s) + 1) :
                 Registers(Append(s, m), kind, r, k) = Registers(s, kind, r, k)
           /\ m.kind = kind =>
                 Registers(Append(s, m), kind, r, Len(s) + 2) = m.register
           /\ m.kind # kind =>
                 Registers(Append(s, m), kind, r, Len(s) + 2) = Registers(s, kind, r, Len(s) + 1)
<1> DEFINE t == Append(s, m)
<1>1. /\ t \in Seq(Message) /\ Len(t) = Len(s) + 1 /\ Len(s) \in Nat /\ DOMAIN t = 1..(Len(s) + 1)
      /\ DOMAIN s = 1..Len(s) /\ t[Len(s) + 1] = m /\ \A i \in 1..Len(s) : t[i] = s[i]
    BY AppendProperties
<1>2. m.register \in BOOLEAN
    BY DEF Message, Announcement
<1> HIDE DEF t
<1>3. ASSUME NEW k \in 1..(Len(s) + 1)
      PROVE  Registers(t, kind, r, k) = Registers(s, kind, r, k)
  <2>1. \A i \in DOMAIN t : i < k => i \in DOMAIN s /\ t[i] = s[i]
      BY <1>1
  <2>2. \A i \in DOMAIN s : i \in DOMAIN t /\ t[i] = s[i]
      BY <1>1
  <2>3. Registers(t, kind, r, k) => Registers(s, kind, r, k)
      BY <2>1, <2>2 DEF Registers
  <2>4. Registers(s, kind, r, k) => Registers(t, kind, r, k)
      BY <2>1, <2>2 DEF Registers
  <2> QED
      BY <2>3, <2>4 DEF Registers
<1>4. CASE m.kind = kind
  <2>1. Registers(t, kind, r, Len(s) + 2) => m.register
    <3>1. Len(s) + 1 \in DOMAIN t /\ t[Len(s) + 1].kind = kind /\ Len(s) + 1 < Len(s) + 2
        BY <1>1, <1>4
    <3>2. \A j \in DOMAIN t : j = Len(s) + 1 \/ j < Len(s) + 1
        BY <1>1
    <3> QED
        BY <1>1, <3>1, <3>2 DEF Registers
  <2>2. m.register => Registers(t, kind, r, Len(s) + 2)
    <3>1. Len(s) + 1 \in DOMAIN t /\ t[Len(s) + 1].kind = kind /\ Len(s) + 1 < Len(s) + 2
        BY <1>1, <1>4
    <3>2. \A i \in DOMAIN t : ~(Len(s) + 1 < i)
        BY <1>1
    <3> QED
        BY <1>1, <3>1, <3>2 DEF Registers
  <2> QED
      BY <1>2, <1>3, <1>4, <2>1, <2>2 DEF t, Registers
<1>5. CASE m.kind # kind
  <2>1. \A i \in DOMAIN t : i < Len(s) + 2 /\ t[i].kind = kind => i \in DOMAIN s /\ i < Len(s) + 1
      BY <1>1, <1>5
  <2>2. \A i \in DOMAIN s : i \in DOMAIN t /\ t[i] = s[i] /\ i < Len(s) + 2 /\ i < Len(s) + 1
      BY <1>1
  <2>3. Registers(t, kind, r, Len(s) + 2) => Registers(s, kind, r, Len(s) + 1)
      BY <1>1, <2>1, <2>2 DEF Registers
  <2>4. Registers(s, kind, r, Len(s) + 1) => Registers(t, kind, r, Len(s) + 2)
      BY <1>1, <2>1, <2>2 DEF Registers
  <2> QED
      BY <1>3, <1>5, <2>3, <2>4 DEF t, Registers
<1> QED
    BY <1>4, <1>5

(* Less is known when there was no registration at first.                    *)
LEMMA FewerRegister ==
    ASSUME NEW s, NEW kind, NEW k, NEW r, NEW q, q => r, Registers(s, kind, q, k)
    PROVE  Registers(s, kind, r, k)
BY DEF Registers

(* Reading the first message moves what it says into what the reader has; a  *)
(* reader that is left with a registration was told to register, or had one  *)
(* and was told nothing.                                                     *)
LEMMA ReadRegisters ==
    ASSUME NEW s \in Seq(Message), s # <<>>, NEW kind, NEW r, NEW q, NEW k \in 1..Len(s),
           IF s[1].kind = kind THEN q => s[1].register ELSE q => r,
           Registers(Tail(s), kind, q, k)
    PROVE  Registers(s, kind, r, k + 1)
<1>1. /\ Len(s) \in Nat /\ Len(s) > 0 /\ DOMAIN s = 1..Len(s) /\ DOMAIN Tail(s) = 1..(Len(s) - 1)
      /\ \A i \in 1..(Len(s) - 1) : Tail(s)[i] = s[i + 1]
    BY EmptySeq, HeadTailProperties
<1>2. ASSUME NEW i \in DOMAIN s, 1 < i
      PROVE  i - 1 \in DOMAIN Tail(s) /\ s[i] = Tail(s)[i - 1]
  <2>1. i - 1 \in 1..(Len(s) - 1) /\ (i - 1) + 1 = i
      BY <1>1, <1>2
  <2> QED
      BY <1>1, <2>1
<1>3. CASE \E j \in DOMAIN Tail(s) : /\ j < k /\ Tail(s)[j].kind = kind /\ Tail(s)[j].register
                 /\ \A i \in DOMAIN Tail(s) : j < i /\ i < k => Tail(s)[i].kind # kind
  <2>1. PICK j \in DOMAIN Tail(s) : /\ j < k /\ Tail(s)[j].kind = kind /\ Tail(s)[j].register
                 /\ \A i \in DOMAIN Tail(s) : j < i /\ i < k => Tail(s)[i].kind # kind
      BY <1>3
  <2>2. j + 1 \in DOMAIN s /\ j + 1 < k + 1 /\ s[j + 1].kind = kind /\ s[j + 1].register
      BY <1>1, <2>1
  <2>3. ASSUME NEW i \in DOMAIN s, j + 1 < i, i < k + 1
        PROVE  s[i].kind # kind
    <3>1. i - 1 \in DOMAIN Tail(s) /\ s[i] = Tail(s)[i - 1] /\ j < i - 1 /\ i - 1 < k
        BY <1>1, <1>2, <2>1, <2>3
    <3> QED
        BY <2>1, <3>1
  <2> QED
      BY <2>2, <2>3 DEF Registers
<1>4. CASE q /\ \A i \in DOMAIN Tail(s) : i < k => Tail(s)[i].kind # kind
  <2>1. ASSUME NEW i \in DOMAIN s, 1 < i, i < k + 1
        PROVE  s[i].kind # kind
    <3>1. i - 1 \in DOMAIN Tail(s) /\ s[i] = Tail(s)[i - 1] /\ i - 1 < k
        BY <1>1, <1>2, <2>1
    <3> QED
        BY <1>4, <3>1
  <2>2. 1 \in DOMAIN s /\ 1 < k + 1 /\ \A i \in DOMAIN s : i = 1 \/ 1 < i
      BY <1>1
  <2> QED
      BY <1>4, <2>1, <2>2 DEF Registers
<1> QED
    BY <1>3, <1>4 DEF Registers

-----------------------------------------------------------------------------
(* Types. *)

(* What is written is a message more, or nothing.                            *)
LEMMA WrittenType ==
    ASSUME TypeInv, NEW n \in Node, NEW m \in Message
    PROVE  Written(n, m) \in [Node -> Seq(Message)]
BY DEF TypeInv, Written

(* Announcements and forwarded data are messages.                            *)
LEMMA MessageTypes ==
    /\ \A kind \in {"intent", "interest"}, register \in BOOLEAN :
          Announce(kind, register) \in Message
    /\ \A m \in Node : Data(m) \in Message
BY DEF Announce, Data, Message, Announcement

(* Registrations stay registrations.                                         *)
LEMMA RegistrationTypes ==
    /\ None \in Registration /\ Open("local") \in Registration /\ Open("remote") \in Registration
    /\ \A r \in Registration, b \in BOOLEAN : [r EXCEPT !.open = b] \in Registration
    /\ \A r \in Registration : Register(r) \in Registration /\ Unregister(r) \in Registration
BY DEF None, Open, Registration, Register, Unregister

(* An intent that is closed is a registration.                               *)
LEMMA ClosedType ==
    ASSUME TypeInv, NEW n \in Node
    PROVE  [intent EXCEPT ![n].open = FALSE] \in [Node -> Registration]
<1>1. intent[n] \in Registration
    BY DEF TypeInv
<1>2. [intent[n] EXCEPT !.open = FALSE] \in Registration
    BY <1>1, RegistrationTypes
<1> QED
    BY <1>2 DEF TypeInv

(* A failed or a successful announcement keeps the type of what is written.  *)
LEMMA AnnounceType ==
    ASSUME TypeInv, NEW n \in Node, NEW m \in Message, NEW ok \in BOOLEAN, WriteAnnounce(n, m, ok)
    PROVE  wire' \in [Node -> Seq(Message)]
BY WrittenType DEF WriteAnnounce, TypeInv

(* What a forwarder writes after its interest is a message that it held.     *)
LEMMA StrayWrites ==
    ASSUME TypeInv, NEW n \in Node, StrayWrite(n)
    PROVE  wire' = wire \/ \E m \in Node : wire' = Written(n, Data(m))
<1>1. stray[n] # <<>> /\ stray[n] \in Seq(Node \cup {Nil})
    BY DEF StrayWrite, TypeInv
<1>2. Head(stray[n]) \in Node \cup {Nil}
    BY <1>1, EmptySeq, HeadTailProperties
<1> QED
    BY <1>2 DEF StrayWrite

(* The end of an interest's channel.                                         *)
LEMMA ShutType ==
    ASSUME TypeInv, NEW n \in Node, ShutInterest(n)
    PROVE  /\ interest' \in [Node -> Registration] /\ hand' \in [Node -> Node \cup {Nil}]
           /\ chan' \in [Node -> Seq(Node)] /\ stray' \in [Node -> Seq(Node \cup {Nil})]
<1>1. interest' \in [Node -> Registration]
    BY RegistrationTypes DEF TypeInv, ShutInterest
<1>2. hand' \in [Node -> Node \cup {Nil}]
    BY DEF TypeInv, ShutInterest
<1>3. chan' \in [Node -> Seq(Node)]
    BY DEF TypeInv, ShutInterest
<1>4. stray' \in [Node -> Seq(Node \cup {Nil})]
  <2> DEFINE held == stray[n] \o (IF hand[n] = Nil THEN <<>> ELSE <<hand[n]>>)
                             \o chan[n] \o <<Nil>>
             S == Node \cup {Nil}
  <2>1. held \in Seq(S)
    <3>1. stray[n] \in Seq(S) /\ chan[n] \in Seq(Node) /\ hand[n] \in S
        BY DEF TypeInv
    <3>2. <<Nil>> \in Seq(S) /\ <<hand[n]>> \in Seq(S) /\ <<>> \in Seq(S)
      <4>1. Nil \in S
          OBVIOUS
      <4> HIDE DEF S
      <4> QED
          BY <3>1, <4>1
    <3>4. (IF hand[n] = Nil THEN <<>> ELSE <<hand[n]>>) \in Seq(S)
        BY <3>2
    <3>3. chan[n] \in Seq(S)
        BY <3>1
    <3> HIDE DEF S
    <3> QED
        BY <3>1, <3>2, <3>3, <3>4, ConcatProperties
  <2>2. stray' = stray \/ stray' = [stray EXCEPT ![n] = held]
      BY DEF ShutInterest
  <2> HIDE DEF held
  <2> QED
      BY <2>1, <2>2 DEF TypeInv
<1> QED
    BY <1>1, <1>2, <1>3, <1>4

(* Every step keeps the types.                                               *)
LEMMA TypeStep ==
    ASSUME TypeInv, [Next]_vars
    PROVE  TypeInv'
<1>1. route' = route
    BY DEF Next, vars, envVars, Cut, UserNext, HookNext, DataNext, HandlerNext, ExpireNext,
        Publish, Subscribe, CloseIntent, CloseInterest, Send, Close, RemoveIntent, RemoveInterest,
        DelRoute, AddInterest, Receive, ForwardTake, ForwardWrite, StrayWrite, StrayCrash,
        HandleIntent, HandleInterest, HandleMessage, ReadFails, HandlerEnds, ExpireIntent,
        ExpireInterest
<1>2. Message' = Message
    BY <1>1 DEF Message, Announcement
<1> USE DEF envVars, regVars, dataVars
<1>3. ASSUME NEW n \in Node, Publish(n)
      PROVE  TypeInv'
    <2>1. wire' \in [Node -> Seq(Message)]
        BY <1>3, AnnounceType, MessageTypes DEF Publish
    <2>2. intent' \in [Node -> Registration]
        BY <1>3, RegistrationTypes DEF Publish, TypeInv
    <2> QED
        BY <1>1, <1>2, <1>3, <2>1, <2>2 DEF Publish, TypeInv
<1>4. ASSUME NEW n \in Node, Subscribe(n)
      PROVE  TypeInv'
    <2>1. wire' \in [Node -> Seq(Message)]
        BY <1>4, AnnounceType, MessageTypes DEF Subscribe
    <2> QED
        BY <1>1, <1>2, <1>4, <2>1 DEF Subscribe, TypeInv
<1>5. ASSUME NEW n \in Node, CloseIntent(n)
      PROVE  TypeInv'
    <2>1. wire' \in [Node -> Seq(Message)]
        BY <1>5, AnnounceType, MessageTypes DEF CloseIntent
    <2>2. intent' \in [Node -> Registration]
        BY <1>5, ClosedType DEF CloseIntent
    <2> QED
        BY <1>1, <1>2, <1>5, <2>1, <2>2 DEF CloseIntent, TypeInv
<1>6. ASSUME NEW n \in Node, CloseInterest(n)
      PROVE  TypeInv'
    <2>1. wire' \in [Node -> Seq(Message)]
        BY <1>6, AnnounceType, MessageTypes DEF CloseInterest
    <2> QED
        BY <1>1, <1>2, <1>6, <2>1, ShutType DEF CloseInterest, TypeInv
<1>7. ASSUME NEW n \in Node, Close(n) \/ ReadFails(n)
      PROVE  TypeInv'
    <2>1. Shut(n)
        BY <1>7 DEF Close, ReadFails
    <2>2. intent' \in [Node -> Registration] /\ ShutInterest(n)
        BY <2>1, ClosedType DEF Shut
    <2> QED
        BY <1>1, <1>2, <1>7, <2>1, <2>2, ShutType DEF Close, ReadFails, Shut, TypeInv
<1>8. ASSUME NEW n \in Node, Send(n) \/ Receive(n) \/ ForwardTake(n)
      PROVE  TypeInv'
    <2>1. chan[n] \in Seq(Node) /\ Append(chan[n], n) \in Seq(Node)
          /\ (chan[n] # <<>> => Head(chan[n]) \in Node /\ Tail(chan[n]) \in Seq(Node))
        BY AppendProperties, EmptySeq, HeadTailProperties DEF TypeInv
    <2> QED
        BY <1>1, <1>2, <1>8, <2>1 DEF Send, Receive, ForwardTake, TypeInv
<1>9. ASSUME NEW n \in Node, RemoveIntent(n) \/ RemoveInterest(n) \/ DelRoute(n) \/ AddInterest(n)
      PROVE  TypeInv'
    <2>1. [who |-> "local", open |-> up[n]] \in Registration
        BY DEF Registration, TypeInv
    <2>2. CASE RemoveIntent(n)
        BY <1>1, <1>2, <2>2, RegistrationTypes DEF RemoveIntent, TypeInv
    <2>3. CASE RemoveInterest(n)
        BY <1>1, <1>2, <2>3, RegistrationTypes DEF RemoveInterest, TypeInv
    <2>4. CASE DelRoute(n)
        BY <1>1, <1>2, <2>4 DEF DelRoute, TypeInv
    <2>5. CASE AddInterest(n)
        BY <1>1, <1>2, <2>1, <2>5 DEF AddInterest, TypeInv
    <2> QED
        BY <1>9, <2>2, <2>3, <2>4, <2>5
<1>10. ASSUME NEW n \in Node, ForwardWrite(n)
       PROVE  TypeInv'
    <2>1. wire' \in [Node -> Seq(Message)]
      <3>1. hand[n] \in Node
          BY <1>10 DEF ForwardWrite, TypeInv
      <3>2. Written(n, Data(hand[n])) \in [Node -> Seq(Message)]
          BY <3>1, WrittenType, MessageTypes
      <3> QED
          BY <1>10, <3>2 DEF ForwardWrite, TypeInv
    <2> QED
        BY <1>1, <1>2, <1>10, <2>1 DEF ForwardWrite, TypeInv
<1>11. ASSUME NEW n \in Node, StrayWrite(n) \/ StrayCrash(n)
       PROVE  TypeInv'
    <2>1. CASE StrayWrite(n)
      <3>1. wire' \in [Node -> Seq(Message)]
        <4>1. \A m \in Node : Written(n, Data(m)) \in [Node -> Seq(Message)]
            BY WrittenType, MessageTypes
        <4> QED
            BY <2>1, <4>1, StrayWrites DEF TypeInv
      <3>2. stray[n] # <<>> /\ stray[n] \in Seq(Node \cup {Nil})
            /\ stray' = [stray EXCEPT ![n] = Tail(stray[n])]
          BY <2>1 DEF StrayWrite, TypeInv
      <3>3. Tail(stray[n]) \in Seq(Node \cup {Nil})
          BY <3>2, EmptySeq, HeadTailProperties
      <3>4. stray' \in [Node -> Seq(Node \cup {Nil})]
          BY <3>2, <3>3 DEF TypeInv
      <3> QED
          BY <1>1, <1>2, <2>1, <3>1, <3>4 DEF StrayWrite, TypeInv
    <2>2. CASE StrayCrash(n)
        BY <1>1, <1>2, <2>2, RegistrationTypes DEF StrayCrash, TypeInv
    <2> QED
        BY <1>11, <2>1, <2>2
<1>12. ASSUME NEW n \in Node, HandleIntent(n) \/ HandleInterest(n) \/ HandleMessage(n)
       PROVE  TypeInv'
    <2>1. wire' \in [Node -> Seq(Message)]
      <3>1. wire[Peer(n)] # <<>> /\ wire' = [wire EXCEPT ![Peer(n)] = Tail(@)]
          BY <1>12 DEF HandleIntent, HandleInterest, HandleMessage, Reads
      <3>2. wire[Peer(n)] \in Seq(Message)
          BY Peers DEF TypeInv
      <3>3. Tail(wire[Peer(n)]) \in Seq(Message)
          BY <3>1, <3>2
      <3> QED
          BY <3>1, <3>3 DEF TypeInv
    <2>2. CASE HandleIntent(n)
      <3>1. intent' \in [Node -> Registration]
          BY <2>2, RegistrationTypes DEF HandleIntent, TypeInv
      <3> QED
          BY <1>1, <1>2, <2>1, <2>2, <3>1 DEF HandleIntent, TypeInv
    <2>3. CASE HandleInterest(n)
      <3>1. CASE ShutInterest(n)
          BY <1>1, <1>2, <2>1, <2>3, <3>1, ShutType DEF HandleInterest, TypeInv
      <3>2. CASE ~ShutInterest(n)
        <4>1. interest' \in [Node -> Registration]
          <5>1. interest' = interest \/ interest' = [interest EXCEPT ![n] = Register(interest[n])]
              BY <2>3, <3>2 DEF HandleInterest
          <5>2. interest[n] \in Registration /\ Register(interest[n]) \in Registration
              BY RegistrationTypes DEF TypeInv
          <5> QED
              BY <5>1, <5>2 DEF TypeInv
        <4> QED
            BY <1>1, <1>2, <2>1, <2>3, <3>2, <4>1 DEF HandleInterest, TypeInv
      <3> QED
          BY <3>1, <3>2
    <2>4. CASE HandleMessage(n)
      <3>1. Next1(n).kind = "message" /\ Next1(n) \in Message
          BY <2>4, Peers, EmptySeq, HeadTailProperties DEF HandleMessage, Reads, Next1, TypeInv
      <3>2. Next1(n).from \in Node
          BY <3>1 DEF Message, Announcement
      <3>3. chan' \in [Node -> Seq(Node)]
          BY <2>4, <3>2, AppendProperties DEF HandleMessage, TypeInv
      <3> QED
          BY <1>1, <1>2, <2>1, <2>4, <3>3 DEF HandleMessage, TypeInv
    <2> QED
        BY <1>12, <2>2, <2>3, <2>4
<1>13. ASSUME NEW n \in Node, HandlerEnds(n) \/ ExpireIntent(n)
       PROVE  TypeInv'
    BY <1>1, <1>2, <1>13, ClosedType DEF HandlerEnds, ExpireIntent, TypeInv
<1>14. ASSUME NEW n \in Node, ExpireInterest(n)
       PROVE  TypeInv'
    BY <1>1, <1>2, <1>14, ShutType DEF ExpireInterest, TypeInv
<1>15. CASE Cut
    BY <1>1, <1>2, <1>15 DEF Cut, TypeInv
<1>16. CASE UNCHANGED vars
    BY <1>1, <1>2, <1>16 DEF vars, TypeInv
<1> QED
    BY <1>3, <1>4, <1>5, <1>6, <1>7, <1>8, <1>9, <1>10, <1>11, <1>12, <1>13, <1>14, <1>15, <1>16
    DEF Next, UserNext, HookNext, DataNext, HandlerNext, ExpireNext

-----------------------------------------------------------------------------
(* What is open. *)

(* The end of an interest's channel leaves nothing open at its node.         *)
LEMMA ShutOpen ==
    ASSUME TypeInv, OpenInv, NEW n \in Node, ShutInterest(n)
    PROVE  /\ ~interest'[n].open /\ hand'[n] = Nil /\ chan'[n] = <<>>
           /\ interest[n] = None => interest'[n] = None
           /\ \A m \in Node \ {n} : /\ interest'[m] = interest[m] /\ hand'[m] = hand[m]
                                    /\ chan'[m] = chan[m] /\ stray'[m] = stray[m]
<1>1. interest[n] \in Registration
    BY DEF TypeInv
<1>2. interest' = [interest EXCEPT ![n].open = FALSE]
    BY DEF ShutInterest
<1>3. ~interest'[n].open /\ (interest[n] = None => interest'[n] = None)
  <2>1. interest'[n] = [interest[n] EXCEPT !.open = FALSE]
      BY <1>2 DEF TypeInv
  <2>2. interest'[n] \in Registration /\ None \in Registration
      BY <1>1, <2>1, RegistrationTypes
  <2>3. interest'[n].open = FALSE /\ interest'[n].who = interest[n].who
      BY <1>1, <2>1 DEF Registration
  <2>4. \A r, s \in Registration : r.who = s.who /\ r.open = s.open => r = s
      BY DEF Registration
  <2> QED
      BY <2>2, <2>3, <2>4 DEF None
<1> QED
    BY <1>2, <1>3 DEF ShutInterest, TypeInv

(* Every step keeps what is open to endpoints that are up.                   *)
LEMMA OpenStep ==
    ASSUME TypeInv, OpenInv, [Next]_vars
    PROVE  OpenInv'
<1> USE DEF envVars, regVars, dataVars
<1> DEFINE OpenAt(n) ==
        /\ intent[n].open => intent[n].who # "none" /\ up[n]
        /\ interest[n].open => interest[n].who # "none" /\ up[n]
        /\ adding[n] => interest[n] = None
        /\ hand[n] # Nil => interest[n] = Open("remote")
        /\ chan[n] # <<>> => interest[n].open
        /\ handler[n] # "reading" => ~up[n]
<1>0. /\ ~None.open /\ \A w : Open(w).open /\ Open(w).who = w
      /\ \A w : None # Open(w)
    BY DEF None, Open
<1>1. ASSUME NEW n \in Node, Publish(n) \/ Subscribe(n) \/ CloseIntent(n) \/ ExpireIntent(n)
      PROVE  OpenInv'
    <2>1. UNCHANGED <<up, handler, interest, chan, hand>>
        BY <1>1 DEF Publish, Subscribe, CloseIntent, ExpireIntent
    <2>2. ASSUME NEW m \in Node
          PROVE  OpenAt(m)'
      <3>1. intent'[m] = intent[m] \/ ~intent'[m].open \/ (m = n /\ up[n] /\ intent'[m] = Open("local"))
        <4>1. CASE Publish(n)
            BY <4>1 DEF Publish, TypeInv
        <4>2. CASE Subscribe(n)
            BY <4>2 DEF Subscribe
        <4>3. CASE CloseIntent(n)
            BY <4>3 DEF CloseIntent, TypeInv, Registration
        <4>4. CASE ExpireIntent(n)
            BY <4>4 DEF ExpireIntent, TypeInv, Registration
        <4> QED
            BY <1>1, <4>1, <4>2, <4>3, <4>4
      <3>2. adding'[m] => adding[m] \/ interest[m] = None
          BY <1>1 DEF Publish, Subscribe, CloseIntent, ExpireIntent, TypeInv
      <3> QED
          BY <1>0, <2>1, <3>1, <3>2 DEF OpenInv
    <2> QED
        BY <2>2 DEF OpenInv
<1>2. ASSUME NEW n \in Node, CloseInterest(n) \/ ExpireInterest(n)
      PROVE  OpenInv'
    <2>1. UNCHANGED <<up, handler, intent, adding>> /\ ShutInterest(n)
        BY <1>2 DEF CloseInterest, ExpireInterest
    <2> QED
        BY <2>1, ShutOpen DEF OpenInv
<1>3. ASSUME NEW n \in Node, Close(n) \/ ReadFails(n)
      PROVE  OpenInv'
    <2>1. /\ up' = [up EXCEPT ![n] = FALSE] /\ ShutInterest(n) /\ UNCHANGED adding
          /\ intent' = [intent EXCEPT ![n].open = FALSE]
          /\ handler' = handler \/ handler' = [handler EXCEPT ![n] = "stuck"]
        BY <1>3 DEF Close, ReadFails, Shut
    <2>2. ~intent'[n].open /\ \A m \in Node \ {n} : intent'[m] = intent[m]
        BY <2>1 DEF TypeInv, Registration
    <2> QED
        BY <2>1, <2>2, ShutOpen DEF OpenInv, TypeInv
<1>4. ASSUME NEW n \in Node, Send(n) \/ Receive(n) \/ ForwardTake(n)
      PROVE  OpenInv'
    <2>1. UNCHANGED <<up, handler, intent, interest, adding>>
        BY <1>4 DEF Send, Receive, ForwardTake
    <2>2. interest[n].open /\ \A m \in Node \ {n} : chan'[m] = chan[m] /\ hand'[m] = hand[m]
        BY <1>4, <1>0 DEF Send, Receive, ForwardTake, Linked, TypeInv
    <2>3. hand'[n] = hand[n] \/ interest[n] = Open("remote")
        BY <1>4 DEF Send, Receive, ForwardTake
    <2> QED
        BY <2>1, <2>2, <2>3 DEF OpenInv
<1>5. ASSUME NEW n \in Node, RemoveIntent(n) \/ RemoveInterest(n) \/ DelRoute(n) \/ AddInterest(n)
      PROVE  OpenInv'
    <2>1. UNCHANGED <<up, handler, hand, chan>>
        BY <1>5 DEF RemoveIntent, RemoveInterest, DelRoute, AddInterest
    <2>2. ASSUME NEW m \in Node
          PROVE  OpenAt(m)'
      <3>1. intent'[m] = intent[m] \/ intent'[m] = None
          BY <1>5 DEF RemoveIntent, RemoveInterest, DelRoute, AddInterest, TypeInv
      <3>2. CASE interest'[m] = interest[m] /\ adding'[m] = adding[m]
          BY <1>0, <2>1, <3>1, <3>2 DEF OpenInv
      <3>3. CASE m = n /\ RemoveInterest(n)
        <4>1. interest'[m] = None /\ ~interest[m].open
            BY <3>3 DEF RemoveInterest, TypeInv
        <4> QED
            BY <1>0, <2>1, <3>1, <4>1 DEF OpenInv
      <3>4. CASE m = n /\ AddInterest(n)
        <4>1. /\ ~adding'[m] /\ interest[m] = None /\ interest'[m] = [who |-> "local", open |-> up[m]]
            BY <3>4 DEF AddInterest, TypeInv, OpenInv
        <4> QED
            BY <1>0, <2>1, <3>1, <4>1 DEF OpenInv
      <3> QED
          BY <1>5, <3>2, <3>3, <3>4 DEF RemoveIntent, RemoveInterest, DelRoute, AddInterest, TypeInv
    <2> QED
        BY <2>2 DEF OpenInv
<1>6. ASSUME NEW n \in Node, ForwardWrite(n) \/ StrayWrite(n)
      PROVE  OpenInv'
    <2>1. UNCHANGED <<up, handler, intent, interest, adding, chan>>
          /\ (hand' = hand \/ hand' = [hand EXCEPT ![n] = Nil])
        BY <1>6 DEF ForwardWrite, StrayWrite
    <2> QED
        BY <2>1 DEF OpenInv, TypeInv
<1>7. ASSUME NEW n \in Node, StrayCrash(n)
      PROVE  OpenInv'
    BY <1>0, <1>7 DEF StrayCrash, OpenInv, TypeInv
<1>8. ASSUME NEW n \in Node, HandleIntent(n)
      PROVE  OpenInv'
    <2>1. UNCHANGED <<up, handler, interest, adding, hand, chan>> /\ up[n]
        BY <1>8 DEF HandleIntent, Reads
    <2>2. ASSUME NEW m \in Node
          PROVE  intent'[m].open => intent'[m].who # "none" /\ up[m]
      <3>1. \/ intent'[m] = intent[m]
            \/ m = n /\ (intent'[m] = Register(intent[m]) \/ intent'[m] = Unregister(intent[m]))
          BY <1>8 DEF HandleIntent, TypeInv
      <3>2. intent[m] \in Registration
          BY DEF TypeInv
      <3> QED
          BY <1>0, <2>1, <3>1, <3>2 DEF OpenInv, Register, Unregister, Registration
    <2> QED
        BY <2>1, <2>2 DEF OpenInv
<1>9. ASSUME NEW n \in Node, HandleInterest(n)
      PROVE  OpenInv'
    <2>1. UNCHANGED <<up, handler, intent, adding>> /\ up[n] /\ ~adding[n]
        BY <1>9 DEF HandleInterest, Reads
    <2>2. CASE ShutInterest(n)
        BY <2>1, <2>2, ShutOpen DEF OpenInv
    <2>3. CASE ~ShutInterest(n)
      <3>1. /\ UNCHANGED <<hand, chan>>
            /\ interest' = interest \/ interest' = [interest EXCEPT ![n] = Register(interest[n])]
          BY <1>9, <2>3 DEF HandleInterest
      <3>2. interest[n] # None => Register(interest[n]) = interest[n]
          BY DEF Register
      <3>3. interest[n] = None => Register(interest[n]) = Open("remote")
          BY DEF Register
      <3> QED
          BY <1>0, <2>1, <3>1, <3>2, <3>3 DEF OpenInv, TypeInv
    <2> QED
        BY <2>2, <2>3
<1>10. ASSUME NEW n \in Node, HandleMessage(n)
       PROVE  OpenInv'
    <2>1. UNCHANGED <<up, handler, intent, interest, adding, hand>>
        BY <1>10 DEF HandleMessage
    <2>2. \A m \in Node : chan'[m] = chan[m] \/ interest[m].open
        BY <1>10 DEF HandleMessage, Linked, TypeInv
    <2> QED
        BY <2>1, <2>2 DEF OpenInv
<1>11. ASSUME NEW n \in Node, HandlerEnds(n)
       PROVE  OpenInv'
    BY <1>11 DEF HandlerEnds, OpenInv, TypeInv
<1>12. CASE Cut
    BY <1>12 DEF Cut, OpenInv
<1>13. CASE UNCHANGED vars
    BY <1>13 DEF vars, OpenInv
<1> QED
    BY <1>1, <1>2, <1>3, <1>4, <1>5, <1>6, <1>7, <1>8, <1>9, <1>10, <1>11, <1>12, <1>13
    DEF Next, UserNext, HookNext, DataNext, HandlerNext, ExpireNext

-----------------------------------------------------------------------------
(* Routes that the peer cannot parse. *)

(* Every step keeps a route that cannot be parsed to its own side.           *)
LEMMA LocalStep ==
    ASSUME TypeInv, OpenInv, LocalInv, [Next]_vars
    PROVE  LocalInv'
<1> USE DEF envVars, regVars, dataVars
<1>1. route' = route
    BY DEF Next, vars, Cut, UserNext, HookNext, DataNext, HandlerNext, ExpireNext,
        Publish, Subscribe, CloseIntent, CloseInterest, Send, Close, RemoveIntent, RemoveInterest,
        DelRoute, AddInterest, Receive, ForwardTake, ForwardWrite, StrayWrite, StrayCrash,
        HandleIntent, HandleInterest, HandleMessage, ReadFails, HandlerEnds, ExpireIntent,
        ExpireInterest
<1> SUFFICES ASSUME RouteFromString(ID(route)).kind = "invalid"
             PROVE  \A n \in Node : /\ intent'[n].who # "remote" /\ interest'[n].who # "remote"
                                     /\ stray'[n] = <<>>
                                     /\ \A k \in DOMAIN wire'[n] : wire'[n][k].kind # "message"
    BY <1>1 DEF LocalInv
<1> DEFINE Local(n) == /\ intent[n].who # "remote" /\ interest[n].who # "remote"
                       /\ stray[n] = <<>>
                       /\ \A k \in DOMAIN wire[n] : wire[n][k].kind # "message"
<1>2. \A n \in Node : Local(n) /\ hand[n] = Nil
    BY DEF LocalInv, OpenInv, Open
<1>3. \A n \in Node : wire[Peer(n)] # <<>> => ~Parsed(n)
  <2> SUFFICES ASSUME NEW n \in Node, wire[Peer(n)] # <<>>
               PROVE  Next1(n).text = ID(route)
      BY DEF Parsed
  <2>1. wire[Peer(n)] \in Seq(Message)
      BY Peers DEF TypeInv
  <2>2. Next1(n) \in Message
      BY <2>1 DEF Next1
  <2> QED
      BY <2>2 DEF Message, Announcement
<1>4. ASSUME NEW n \in Node, NEW m \in Announcement, NEW w,
             w \in {wire, Written(n, m)}
      PROVE  \A q \in Node : \A k \in DOMAIN w[q] : w[q][k].kind # "message"
  <2>1. m \in Message /\ m.kind # "message"
      BY DEF Message, Announcement
  <2>2. wire[n] \in Seq(Message)
      BY DEF TypeInv
  <2>3. \A k \in DOMAIN Append(wire[n], m) : Append(wire[n], m)[k].kind # "message"
      BY <1>2, <2>1, <2>2, AppendProperties
  <2>4. w = wire \/ w = [wire EXCEPT ![n] = Append(wire[n], m)]
      BY <1>4 DEF Written
  <2>5. CASE w = [wire EXCEPT ![n] = Append(wire[n], m)]
    <3>1. w[n] = Append(wire[n], m) /\ \A q \in Node \ {n} : w[q] = wire[q]
        BY <2>5 DEF TypeInv
    <3> QED
        BY <1>2, <2>3, <3>1
  <2> QED
      BY <1>2, <2>4, <2>5
<1>5. ASSUME NEW n \in Node, NEW m \in Announcement, NEW ok \in BOOLEAN, WriteAnnounce(n, m, ok)
      PROVE  \A q \in Node : \A k \in DOMAIN wire'[q] : wire'[q][k].kind # "message"
  <2>1. wire' \in {wire, Written(n, m)}
      BY <1>5 DEF WriteAnnounce
  <2> QED
      BY <1>4, <2>1
<1>6. \A kind \in {"intent", "interest"}, b \in BOOLEAN : Announce(kind, b) \in Announcement
    BY DEF Announce, Announcement
<1>7. ASSUME NEW n \in Node, ShutInterest(n)
      PROVE  \A q \in Node : interest'[q].who = interest[q].who /\ stray'[q] = stray[q]
  <2>1. interest[n].who # "remote" /\ interest[n] \in Registration
      BY <1>2 DEF TypeInv
  <2> QED
      BY <1>7, <2>1 DEF ShutInterest, Open, TypeInv, Registration
<1>8. ~(None.who = "remote") /\ ~(Open("local").who = "remote")
    BY DEF None, Open
<1>9. ASSUME NEW n \in Node, Publish(n) \/ Subscribe(n) \/ CloseIntent(n)
      PROVE  \A q \in Node : Local(q)'
  <2>1. \A q \in Node : \A k \in DOMAIN wire'[q] : wire'[q][k].kind # "message"
      BY <1>5, <1>6, <1>9 DEF Publish, Subscribe, CloseIntent
  <2>2. UNCHANGED <<interest, stray>>
      BY <1>9 DEF Publish, Subscribe, CloseIntent
  <2>3. \A q \in Node : intent'[q].who # "remote"
    <3>1. \/ intent' = intent \/ intent' = [intent EXCEPT ![n] = Open("local")]
          \/ intent' = [intent EXCEPT ![n].open = FALSE]
        BY <1>9 DEF Publish, Subscribe, CloseIntent
    <3>2. \A q \in Node : intent[q].who # "remote" /\ intent[q] \in Registration
        BY <1>2 DEF TypeInv
    <3>3. [intent[n] EXCEPT !.open = FALSE].who = intent[n].who
        BY <3>2 DEF Registration
    <3> QED
        BY <1>8, <3>1, <3>2, <3>3 DEF TypeInv
  <2> QED
      BY <1>2, <2>1, <2>2, <2>3
<1>10. ASSUME NEW n \in Node, CloseInterest(n)
       PROVE  \A q \in Node : Local(q)'
  <2>1. \A q \in Node : \A k \in DOMAIN wire'[q] : wire'[q][k].kind # "message"
      BY <1>5, <1>6, <1>10 DEF CloseInterest
  <2> QED
      BY <1>2, <1>7, <1>10, <2>1 DEF CloseInterest
<1>11. ASSUME NEW n \in Node, Close(n) \/ ReadFails(n)
       PROVE  \A q \in Node : Local(q)'
  <2>1. wire' = wire /\ ShutInterest(n) /\ intent' = [intent EXCEPT ![n].open = FALSE]
      BY <1>11 DEF Close, ReadFails, Shut
  <2>2. \A q \in Node : intent'[q].who = intent[q].who
      BY <2>1 DEF TypeInv, Registration
  <2> QED
      BY <1>2, <1>7, <2>1, <2>2
<1>12. ASSUME NEW n \in Node, HandleIntent(n) \/ HandleInterest(n) \/ HandleMessage(n)
       PROVE  \A q \in Node : Local(q)'
  <2>1. wire[Peer(n)] # <<>> /\ wire' = [wire EXCEPT ![Peer(n)] = Tail(@)]
      BY <1>12 DEF HandleIntent, HandleInterest, HandleMessage, Reads
  <2>2. UNCHANGED <<intent, interest, stray>>
      BY <1>3, <1>12, <2>1 DEF HandleIntent, HandleInterest, HandleMessage
  <2>3. Peer(n) \in Node /\ wire[Peer(n)] \in Seq(Message)
      BY Peers DEF TypeInv
  <2>4. \A k \in DOMAIN Tail(wire[Peer(n)]) : Tail(wire[Peer(n)])[k].kind # "message"
      BY <1>2, <2>1, <2>3, EmptySeq, HeadTailProperties
  <2>5. \A q \in Node : \A k \in DOMAIN wire'[q] : wire'[q][k].kind # "message"
      BY <1>2, <2>1, <2>3, <2>4 DEF TypeInv
  <2> QED
      BY <1>2, <2>2, <2>5
<1>13. ASSUME NEW n \in Node,
              \/ Send(n) \/ Receive(n) \/ RemoveIntent(n) \/ RemoveInterest(n) \/ DelRoute(n)
              \/ AddInterest(n) \/ HandlerEnds(n) \/ ForwardTake(n)
       PROVE  \A q \in Node : Local(q)'
  <2>1. UNCHANGED <<wire, stray>>
      BY <1>13 DEF Send, Receive, RemoveIntent, RemoveInterest, DelRoute, AddInterest, HandlerEnds,
          ForwardTake
  <2>2. \A q \in Node : intent'[q] \in {intent[q], None}
      BY <1>13 DEF Send, Receive, RemoveIntent, RemoveInterest, DelRoute, AddInterest, HandlerEnds,
          ForwardTake, TypeInv
  <2>3. \A q \in Node : interest'[q] \in {interest[q], None} \/ interest'[q].who = "local"
      BY <1>13 DEF Send, Receive, RemoveIntent, RemoveInterest, DelRoute, AddInterest, HandlerEnds,
          ForwardTake, TypeInv
  <2> QED
      BY <1>2, <1>8, <2>1, <2>2, <2>3
<1>14. ASSUME NEW n \in Node,
              \/ ForwardWrite(n) \/ StrayWrite(n) \/ StrayCrash(n)
              \/ ExpireIntent(n) \/ ExpireInterest(n)
       PROVE  FALSE
    BY <1>2, <1>14 DEF ForwardWrite, StrayWrite, StrayCrash, ExpireIntent, ExpireInterest, Open
<1>15. CASE Cut
    BY <1>2, <1>15 DEF Cut
<1>16. CASE UNCHANGED vars
    BY <1>2, <1>16 DEF vars
<1> QED
    BY <1>9, <1>10, <1>11, <1>12, <1>13, <1>14, <1>15, <1>16
    DEF Next, UserNext, HookNext, DataNext, HandlerNext, ExpireNext

-----------------------------------------------------------------------------
(* What the peer makes of the announcements. *)

(* An endpoint that was closed stays closed, a connection that was cut stays *)
(* cut and a failure is not forgotten.                                       *)
LEMMA AliveStep ==
    ASSUME TypeInv, [Next]_vars
    PROVE  /\ \A q \in Node : Alive(q)' => Alive(q)
           /\ odd' = {} => odd = {}
<1> USE DEF envVars, regVars, dataVars
<1>1. cut => cut'
    BY DEF Next, vars, Cut, UserNext, HookNext, DataNext, HandlerNext, ExpireNext,
        Publish, Subscribe, CloseIntent, CloseInterest, Send, Close, RemoveIntent, RemoveInterest,
        DelRoute, AddInterest, Receive, ForwardTake, ForwardWrite, StrayWrite, StrayCrash,
        HandleIntent, HandleInterest, HandleMessage, ReadFails, HandlerEnds, ExpireIntent,
        ExpireInterest
<1>2. \A x \in odd : x \in odd'
    BY DEF Next, vars, Cut, UserNext, HookNext, DataNext, HandlerNext, ExpireNext, WriteAnnounce,
        Publish, Subscribe, CloseIntent, CloseInterest, Send, Close, RemoveIntent, RemoveInterest,
        DelRoute, AddInterest, Receive, ForwardTake, ForwardWrite, StrayWrite, StrayCrash,
        HandleIntent, HandleInterest, HandleMessage, ReadFails, HandlerEnds, ExpireIntent,
        ExpireInterest
<1>3. up' = up \/ \E n \in Node : up' = [up EXCEPT ![n] = FALSE]
    BY DEF Next, vars, Cut, UserNext, HookNext, DataNext, HandlerNext, ExpireNext, Shut,
        Publish, Subscribe, CloseIntent, CloseInterest, Send, Close, RemoveIntent, RemoveInterest,
        DelRoute, AddInterest, Receive, ForwardTake, ForwardWrite, StrayWrite, StrayCrash,
        HandleIntent, HandleInterest, HandleMessage, ReadFails, HandlerEnds, ExpireIntent,
        ExpireInterest
<1>4. \A q \in Node : up'[q] => up[q]
    BY <1>3 DEF TypeInv
<1> QED
    BY <1>1, <1>2, <1>4, Peers DEF Alive

(* An announcement that gets through is written behind what is on the way.   *)
LEMMA AnnounceWritten ==
    ASSUME TypeInv, NEW n \in Node, NEW m \in Message, NEW ok \in BOOLEAN, WriteAnnounce(n, m, ok)
    PROVE  /\ wire'[n] \in {wire[n], Append(wire[n], m)}
           /\ \A q \in Node \ {n} : wire'[q] = wire[q]
           /\ ~cut /\ up[Peer(n)] /\ "failed" \notin odd' => ok /\ wire'[n] = Append(wire[n], m)
BY DEF WriteAnnounce, Written, TypeInv

(* Whoever has unregistered has no registration.                             *)
LEMMA UnregisterForgets ==
    ASSUME NEW s \in Seq(Message), NEW m \in Message, NEW r \in BOOLEAN, ~m.register
    PROVE  ~Registers(Append(s, m), m.kind, r, Len(Append(s, m)) + 1)
<1>1. Len(Append(s, m)) + 1 = Len(s) + 2
    BY AppendProperties
<1> QED
    BY <1>1, WrittenRegisters

(* What s becomes when a message of another kind is written or read.         *)
Moves(s, t, kind) ==
    \/ t = s
    \/ \E m \in Message : m.kind # kind /\ t = Append(s, m)
    \/ s # <<>> /\ s[1].kind # kind /\ t = Tail(s)

(* Messages of another kind tell nothing.                                    *)
LEMMA OtherKind ==
    ASSUME NEW s \in Seq(Message), NEW t, NEW kind, NEW r \in BOOLEAN, NEW q \in BOOLEAN,
           Moves(s, t, kind), q => r, Registers(t, kind, q, Len(t) + 1)
    PROVE  Registers(s, kind, r, Len(s) + 1)
<1>1. CASE t = s
    BY <1>1, FewerRegister
<1>2. CASE \E m \in Message : m.kind # kind /\ t = Append(s, m)
  <2>1. PICK m \in Message : m.kind # kind /\ t = Append(s, m)
      BY <1>2
  <2>2. Len(t) + 1 = Len(s) + 2
      BY <2>1, AppendProperties
  <2>3. Registers(s, kind, q, Len(s) + 1)
      BY <2>1, <2>2, WrittenRegisters
  <2> QED
      BY <2>3, FewerRegister
<1>3. CASE s # <<>> /\ s[1].kind # kind /\ t = Tail(s)
  <2>1. Len(t) = Len(s) - 1 /\ Len(s) \in Nat /\ Len(s) > 0
      BY <1>3, EmptySeq, HeadTailProperties
  <2>2. Len(s) \in 1..Len(s) /\ Len(t) + 1 = Len(s)
      BY <2>1
  <2> QED
      BY <1>3, <2>2, ReadRegisters
<1> QED
    BY <1>1, <1>2, <1>3 DEF Moves

(* A message that is read is the first one on the way from the peer.         *)
LEMMA ReadsHead ==
    ASSUME TypeInv, NEW n \in Node, NEW kind, Reads(n, kind), NEW q \in Node
    PROVE  \/ wire'[q] = wire[q] /\ q = n
           \/ /\ q = Peer(n) /\ wire[q] # <<>> /\ wire[q][1] = Next1(n) /\ wire[q][1].kind = kind
              /\ wire'[q] = Tail(wire[q])
<1>1. Peer(n) \in Node /\ wire[Peer(n)] # <<>> /\ wire[Peer(n)] \in Seq(Message)
    BY Peers DEF Reads, TypeInv
<1>2. Next1(n) = wire[Peer(n)][1] /\ Next1(n).kind = kind
    BY <1>1 DEF Reads, Next1
<1>3. wire' = [wire EXCEPT ![Peer(n)] = Tail(wire[Peer(n)])] /\ wire \in [Node -> Seq(Message)]
    BY DEF Reads, TypeInv
<1>4. CASE q = Peer(n)
    BY <1>1, <1>2, <1>3, <1>4
<1>5. CASE q # Peer(n)
    BY <1>1, <1>3, <1>5, Peers
<1> QED
    BY <1>4, <1>5

(* Users, hooks and timers that touch one kind of registration only, and     *)
(* everything that moves data.                                               *)
LEMMA MovesOther ==
    ASSUME TypeInv, NEW n \in Node, NEW q \in Node
    PROVE  /\ Publish(n) \/ CloseIntent(n) \/ HandleIntent(n) => Moves(wire[q], wire'[q], "interest")
           /\ Subscribe(n) \/ CloseInterest(n) \/ HandleInterest(n) => Moves(wire[q], wire'[q], "intent")
           /\ ForwardWrite(n) \/ StrayWrite(n) \/ HandleMessage(n) =>
                  Moves(wire[q], wire'[q], "intent") /\ Moves(wire[q], wire'[q], "interest")
<1>1. ASSUME NEW kind \in {"intent", "interest"}, NEW b \in BOOLEAN, NEW ok \in BOOLEAN,
             WriteAnnounce(n, Announce(kind, b), ok), NEW other, other # kind
      PROVE  Moves(wire[q], wire'[q], other)
  <2>1. Announce(kind, b) \in Message /\ Announce(kind, b).kind = kind
      BY MessageTypes DEF Announce
  <2> QED
      BY <1>1, <2>1, AnnounceWritten DEF Moves
<1>2. ASSUME NEW m \in Node, wire' \in {wire, Written(n, Data(m))}
      PROVE  Moves(wire[q], wire'[q], "intent") /\ Moves(wire[q], wire'[q], "interest")
  <2>1. Data(m) \in Message /\ Data(m).kind = "message"
      BY MessageTypes DEF Data
  <2>2. wire'[q] = wire[q] \/ wire'[q] = Append(wire[q], Data(m))
      BY <1>2 DEF Written, TypeInv
  <2> QED
      BY <2>1, <2>2 DEF Moves
<1>3. ASSUME NEW kind, NEW other, other # kind, Reads(n, kind)
      PROVE  Moves(wire[q], wire'[q], other)
    BY <1>3, ReadsHead DEF Moves
<1>4. Publish(n) \/ CloseIntent(n) => Moves(wire[q], wire'[q], "interest")
    BY <1>1 DEF Publish, CloseIntent
<1>5. Subscribe(n) \/ CloseInterest(n) => Moves(wire[q], wire'[q], "intent")
    BY <1>1 DEF Subscribe, CloseInterest
<1>6. ForwardWrite(n) => Moves(wire[q], wire'[q], "intent") /\ Moves(wire[q], wire'[q], "interest")
  <2> SUFFICES ASSUME ForwardWrite(n)
               PROVE  hand[n] \in Node /\ wire' \in {wire, Written(n, Data(hand[n]))}
      BY <1>2
  <2> QED
      BY DEF ForwardWrite, TypeInv
<1>7. StrayWrite(n) => Moves(wire[q], wire'[q], "intent") /\ Moves(wire[q], wire'[q], "interest")
  <2> SUFFICES ASSUME StrayWrite(n)
               PROVE  \E m \in Node : wire' \in {wire, Written(n, Data(m))}
      BY <1>2
  <2> QED
      BY StrayWrites
<1>8. /\ HandleIntent(n) => Moves(wire[q], wire'[q], "interest")
      /\ HandleInterest(n) => Moves(wire[q], wire'[q], "intent")
      /\ HandleMessage(n) => Moves(wire[q], wire'[q], "intent") /\ Moves(wire[q], wire'[q], "interest")
    BY <1>3 DEF HandleIntent, HandleInterest, HandleMessage
<1> QED
    BY <1>4, <1>5, <1>6, <1>7, <1>8

(* What the peer makes of an announcement that it reads.                     *)
LEMMA ReadAnnouncement ==
    ASSUME TypeInv, LocalInv, NEW n \in Node, NEW kind \in {"intent", "interest"}, Reads(n, kind)
    PROVE  /\ wire[Peer(n)] # <<>> /\ wire'[Peer(n)] = Tail(wire[Peer(n)])
           /\ \A q \in Node \ {Peer(n)} : wire'[q] = wire[q]
           /\ Next1(n) = wire[Peer(n)][1] /\ Next1(n).kind = kind /\ Next1(n).register \in BOOLEAN
           /\ ~Parsed(n) => intent[n].who # "remote" /\ interest[n].who # "remote"
<1>1. /\ Peer(n) \in Node /\ Peer(n) # n /\ wire[Peer(n)] # <<>> /\ Next1(n).kind = kind
      /\ wire[Peer(n)] \in Seq(Message) /\ Next1(n) = wire[Peer(n)][1]
      /\ wire'[Peer(n)] = Tail(wire[Peer(n)]) /\ \A q \in Node \ {Peer(n)} : wire'[q] = wire[q]
  <2>1. Peer(n) \in Node /\ Peer(n) # n
      BY Peers
  <2>2. /\ wire[Peer(n)] # <<>> /\ Next1(n) = wire[Peer(n)][1] /\ Next1(n).kind = kind
        /\ wire'[Peer(n)] = Tail(wire[Peer(n)])
      BY <2>1, ReadsHead
  <2>3. \A q \in Node \ {Peer(n)} : wire'[q] = wire[q]
      BY ReadsHead
  <2> QED
      BY <2>1, <2>2, <2>3 DEF TypeInv
<1>2. Next1(n) \in Message
    BY <1>1
<1>3. Next1(n).register \in BOOLEAN /\ Next1(n).text = ID(route)
    BY <1>2 DEF Message, Announcement
<1> QED
    BY <1>1, <1>3 DEF Parsed, LocalInv

(* Every step keeps what is known of intents.                                *)
LEMMA IntentStep ==
    ASSUME TypeInv, OpenInv, LocalInv, \A q \in Node : IntentInv(q), [Next]_vars
    PROVE  \A q \in Node : IntentInv(q)'
<1> USE DEF envVars, regVars, dataVars
<1> SUFFICES ASSUME NEW q \in Node, Alive(q)',
                    Registers(wire[q], "intent", MadeFor(intent, q), Len(wire[q]) + 1)'
             PROVE  intent'[q] = Open("local")
    BY DEF IntentInv
<1> DEFINE p == Peer(q)
<1>1. p \in Node /\ p # q /\ Peer(p) = q /\ \A m \in Node : m = q \/ m = p
    BY Peers
<1> HIDE DEF p
<1>2. Alive(q)
    BY AliveStep
<1>3. wire[q] \in Seq(Message) /\ MadeFor(intent, q) \in BOOLEAN /\ MadeFor(intent, q)' \in BOOLEAN
    BY DEF TypeInv, MadeFor
<1>4. Registers(wire'[q], "intent", MadeFor(intent, q)', Len(wire'[q]) + 1)
    OBVIOUS
<1>5. MadeFor(intent, q) = (intent[p] = Open("remote")) /\ MadeFor(intent, q)' = (intent'[p] = Open("remote"))
    BY DEF MadeFor, p
<1>6. ASSUME Moves(wire[q], wire'[q], "intent"), MadeFor(intent, q)' => MadeFor(intent, q)
      PROVE  intent[q] = Open("local")
  <2>1. Registers(wire[q], "intent", MadeFor(intent, q), Len(wire[q]) + 1)
      BY <1>3, <1>4, <1>6, OtherKind
  <2> QED
      BY <1>2, <2>1 DEF IntentInv
<1>7. ~cut /\ up[p] /\ "failed" \notin odd'
    BY <1>2 DEF Alive, p
<1>8. ASSUME NEW n \in Node, Publish(n)
      PROVE  intent'[q] = Open("local")
  <2>1. PICK ok \in BOOLEAN :
            /\ WriteAnnounce(n, Announce("intent", TRUE), ok)
            /\ intent' = IF ok THEN [intent EXCEPT ![n] = Open("local")] ELSE intent
      BY <1>8 DEF Publish
  <2>2. Announce("intent", TRUE) \in Message
      BY MessageTypes
  <2>3. CASE n = q
    <3>1. ok
        BY <1>7, <2>1, <2>2, <2>3, AnnounceWritten DEF p
    <3> QED
        BY <2>1, <2>3, <3>1 DEF TypeInv
  <2>4. CASE n = p
    <3>1. wire'[q] = wire[q] /\ intent'[q] = intent[q] /\ intent'[p] \in {intent[p], Open("local")}
        BY <1>1, <2>1, <2>2, <2>4, AnnounceWritten DEF TypeInv
    <3>2. Open("local") # Open("remote")
        BY DEF Open
    <3> QED
        BY <1>5, <1>6, <3>1, <3>2 DEF Moves
  <2> QED
      BY <1>1, <2>3, <2>4
<1>9. ASSUME NEW n \in Node, CloseIntent(n)
      PROVE  intent'[q] = Open("local")
  <2>1. PICK ok \in BOOLEAN : WriteAnnounce(n, Announce("intent", FALSE), ok)
      BY <1>9 DEF CloseIntent
  <2>2. Announce("intent", FALSE) \in Message
        /\ Announce("intent", FALSE).kind = "intent" /\ ~Announce("intent", FALSE).register
      BY MessageTypes DEF Announce
  <2>3. CASE n = q
    <3>1. wire'[q] = Append(wire[q], Announce("intent", FALSE))
        BY <1>7, <2>1, <2>2, <2>3, AnnounceWritten DEF p
    <3>2. ~Registers(wire'[q], "intent", MadeFor(intent, q)', Len(wire'[q]) + 1)
        BY <1>3, <2>2, <3>1, UnregisterForgets
    <3> QED
        BY <1>4, <3>2
  <2>4. CASE n = p
    <3>1. wire'[q] = wire[q] /\ intent'[q] = intent[q]
        BY <1>1, <1>9, <2>1, <2>2, <2>4, AnnounceWritten DEF CloseIntent, TypeInv
    <3>2. ~intent'[p].open
        BY <1>9, <2>4 DEF CloseIntent, TypeInv, Registration
    <3>3. intent'[p] # Open("remote")
        BY <3>2 DEF Open
    <3> QED
        BY <1>5, <1>6, <3>1, <3>3 DEF Moves
  <2> QED
      BY <1>1, <2>3, <2>4
<1>10. ASSUME NEW n \in Node, RemoveIntent(n) \/ ExpireIntent(n)
       PROVE  intent'[q] = Open("local")
  <2>1. wire' = wire /\ \A m \in Node \ {n} : intent'[m] = intent[m]
      BY <1>10 DEF RemoveIntent, ExpireIntent, TypeInv
  <2>2. ~intent'[n].open /\ intent[n] # Open("local")
      BY <1>10 DEF RemoveIntent, ExpireIntent, TypeInv, Registration, None, Open
  <2>3. intent'[n] # Open("remote")
      BY <2>2 DEF Open
  <2>4. intent[q] = Open("local")
      BY <1>1, <1>5, <1>6, <2>1, <2>3 DEF Moves
  <2> QED
      BY <2>1, <2>2, <2>4
<1>11. ASSUME NEW n \in Node, HandleIntent(n)
       PROVE  intent'[q] = Open("local")
  <2>1. Reads(n, "intent")
      BY <1>11 DEF HandleIntent
  <2>2. CASE n = q
    <3>1. wire'[q] = wire[q] /\ intent'[p] = intent[p]
      <4>1. wire'[q] = wire[q]
          BY <1>1, <2>1, <2>2, ReadAnnouncement DEF p
      <4> QED
          BY <1>1, <1>11, <2>2, <4>1 DEF HandleIntent, TypeInv
    <3>2. intent[q] = Open("local")
        BY <1>5, <1>6, <3>1 DEF Moves
    <3>3. Register(intent[q]) = intent[q] /\ Unregister(intent[q]) = intent[q]
        BY <3>2 DEF Register, Unregister, Open, None
    <3> QED
        BY <1>11, <2>2, <3>2, <3>3 DEF HandleIntent, TypeInv
  <2>3. CASE n = p
    <3> DEFINE m == wire[q][1]
    <3>1. /\ wire[q] # <<>> /\ wire'[q] = Tail(wire[q]) /\ m.kind = "intent" /\ m.register \in BOOLEAN
          /\ Next1(p) = m /\ (~Parsed(p) => intent[p].who # "remote")
        BY <1>1, <2>1, <2>3, ReadAnnouncement
    <3>2. intent'[q] = intent[q]
        BY <1>1, <1>11, <2>3 DEF HandleIntent, TypeInv
    <3>3. ~m.register => intent'[p] # Open("remote")
      <4> SUFFICES ASSUME ~m.register
                   PROVE  intent'[p] # Open("remote")
          OBVIOUS
      <4>1. CASE ~Parsed(p)
          BY <1>11, <2>3, <3>1, <4>1 DEF HandleIntent, Open
      <4>2. CASE Parsed(p)
        <5>1. intent'[p] = Unregister(intent[p]) /\ intent[p] \in Registration
            BY <1>1, <1>11, <2>3, <3>1, <4>2 DEF HandleIntent, TypeInv
        <5> QED
            BY <5>1 DEF Unregister, Registration, Open
      <4> QED
          BY <4>1, <4>2
    <3>4. Len(wire[q]) \in 1..Len(wire[q]) /\ Len(wire'[q]) + 1 = Len(wire[q])
        BY <1>3, <3>1, EmptySeq, HeadTailProperties
    <3>5. MadeFor(intent, q)' => m.register
        BY <1>5, <3>1, <3>3
    <3>6. Registers(wire[q], "intent", MadeFor(intent, q), Len(wire[q]) + 1)
        BY <1>3, <1>4, <3>1, <3>4, <3>5, ReadRegisters
    <3> QED
        BY <1>2, <3>2, <3>6 DEF IntentInv
  <2> QED
      BY <1>1, <2>2, <2>3
<1>12. ASSUME NEW n \in Node,
              \/ Subscribe(n) \/ CloseInterest(n) \/ ForwardWrite(n) \/ StrayWrite(n)
              \/ HandleInterest(n) \/ HandleMessage(n)
       PROVE  intent'[q] = Open("local")
  <2>1. Moves(wire[q], wire'[q], "intent")
      BY <1>12, MovesOther
  <2>2. intent' = intent
      BY <1>12 DEF Subscribe, CloseInterest, ForwardWrite, StrayWrite, HandleInterest, HandleMessage
  <2> QED
      BY <1>5, <1>6, <2>1, <2>2
<1>13. ASSUME NEW n \in Node,
              \/ Send(n) \/ Receive(n) \/ RemoveInterest(n) \/ DelRoute(n) \/ AddInterest(n)
              \/ ForwardTake(n) \/ ExpireInterest(n) \/ HandlerEnds(n)
       PROVE  intent'[q] = Open("local")
  <2>1. intent' = intent /\ wire' = wire
      BY <1>13 DEF Send, Receive, RemoveInterest, DelRoute, AddInterest, ForwardTake, ExpireInterest,
          HandlerEnds
  <2> QED
      BY <1>5, <1>6, <2>1 DEF Moves
<1>14. ASSUME NEW n \in Node, Close(n) \/ ReadFails(n) \/ StrayCrash(n)
       PROVE  FALSE
  <2>1. ~up'[n]
      BY <1>14 DEF Close, ReadFails, StrayCrash, Shut, TypeInv
  <2> QED
      BY <1>1, <2>1 DEF Alive, p
<1>15. CASE Cut
    BY <1>15 DEF Cut, Alive
<1>16. CASE UNCHANGED vars
    BY <1>5, <1>6, <1>16 DEF vars, Moves
<1> QED
    BY <1>8, <1>9, <1>10, <1>11, <1>12, <1>13, <1>14, <1>15, <1>16
    DEF Next, UserNext, HookNext, DataNext, HandlerNext, ExpireNext

(* Every step keeps what is known of interests.                              *)
LEMMA InterestStep ==
    ASSUME TypeInv, OpenInv, LocalInv, \A q \in Node : InterestInv(q), [Next]_vars
    PROVE  \A q \in Node : InterestInv(q)'
<1> USE DEF envVars, regVars, dataVars
<1> SUFFICES ASSUME NEW q \in Node, Alive(q)',
                    Registers(wire[q], "interest", MadeFor(interest, q), Len(wire[q]) + 1)'
             PROVE  interest'[q] = Open("local") \/ adding'[q]
    BY DEF InterestInv
<1> DEFINE p == Peer(q)
<1>1. p \in Node /\ p # q /\ Peer(p) = q /\ \A m \in Node : m = q \/ m = p
    BY Peers
<1> HIDE DEF p
<1>2. Alive(q)
    BY AliveStep
<1>3. wire[q] \in Seq(Message) /\ MadeFor(interest, q) \in BOOLEAN /\ MadeFor(interest, q)' \in BOOLEAN
    BY DEF TypeInv, MadeFor
<1>4. Registers(wire'[q], "interest", MadeFor(interest, q)', Len(wire'[q]) + 1)
    OBVIOUS
<1>5. /\ MadeFor(interest, q) = (interest[p] = Open("remote"))
      /\ MadeFor(interest, q)' = (interest'[p] = Open("remote"))
    BY DEF MadeFor, p
<1>6. ASSUME Moves(wire[q], wire'[q], "interest"), MadeFor(interest, q)' => MadeFor(interest, q)
      PROVE  interest[q] = Open("local") \/ adding[q]
  <2>1. Registers(wire[q], "interest", MadeFor(interest, q), Len(wire[q]) + 1)
      BY <1>3, <1>4, <1>6, OtherKind
  <2> QED
      BY <1>2, <2>1 DEF InterestInv
<1>7. ~cut /\ up[p] /\ up'[q] /\ "failed" \notin odd'
    BY <1>2 DEF Alive, p
<1>8. ASSUME NEW n \in Node, Subscribe(n)
      PROVE  interest'[q] = Open("local") \/ adding'[q]
  <2>1. PICK ok \in BOOLEAN : /\ WriteAnnounce(n, Announce("interest", TRUE), ok)
                              /\ adding' = [adding EXCEPT ![n] = ok]
      BY <1>8 DEF Subscribe
  <2>2. Announce("interest", TRUE) \in Message /\ interest' = interest
      BY <1>8, MessageTypes DEF Subscribe
  <2>3. CASE n = q
    <3>1. ok
        BY <1>7, <2>1, <2>2, <2>3, AnnounceWritten DEF p
    <3> QED
        BY <2>1, <2>3, <3>1 DEF TypeInv
  <2>4. CASE n = p
    <3>1. wire'[q] = wire[q] /\ adding'[q] = adding[q]
        BY <1>1, <2>1, <2>2, <2>4, AnnounceWritten DEF TypeInv
    <3> QED
        BY <1>5, <1>6, <2>2, <3>1 DEF Moves
  <2> QED
      BY <1>1, <2>3, <2>4
<1>9. ASSUME NEW n \in Node, CloseInterest(n)
      PROVE  interest'[q] = Open("local") \/ adding'[q]
  <2>1. PICK ok \in BOOLEAN : WriteAnnounce(n, Announce("interest", FALSE), ok)
      BY <1>9 DEF CloseInterest
  <2>2. Announce("interest", FALSE) \in Message
        /\ Announce("interest", FALSE).kind = "interest" /\ ~Announce("interest", FALSE).register
      BY MessageTypes DEF Announce
  <2>3. CASE n = q
    <3>1. wire'[q] = Append(wire[q], Announce("interest", FALSE))
        BY <1>7, <2>1, <2>2, <2>3, AnnounceWritten DEF p
    <3>2. ~Registers(wire'[q], "interest", MadeFor(interest, q)', Len(wire'[q]) + 1)
        BY <1>3, <2>2, <3>1, UnregisterForgets
    <3> QED
        BY <1>4, <3>2
  <2>4. CASE n = p
    <3>1. wire'[q] = wire[q] /\ adding' = adding /\ ShutInterest(p)
        BY <1>1, <1>9, <2>1, <2>2, <2>4, AnnounceWritten DEF CloseInterest
    <3>2. ~interest'[p].open /\ interest'[q] = interest[q]
        BY <1>1, <3>1, ShutOpen
    <3>3. interest'[p] # Open("remote")
        BY <3>2 DEF Open
    <3> QED
        BY <1>5, <1>6, <3>1, <3>2, <3>3 DEF Moves
  <2> QED
      BY <1>1, <2>3, <2>4
<1>10. ASSUME NEW n \in Node, RemoveInterest(n) \/ ExpireInterest(n)
       PROVE  interest'[q] = Open("local") \/ adding'[q]
  <2>1. wire' = wire /\ adding' = adding
      BY <1>10 DEF RemoveInterest, ExpireInterest
  <2>2. \A m \in Node \ {n} : interest'[m] = interest[m]
      BY <1>10, ShutOpen DEF RemoveInterest, ExpireInterest, TypeInv
  <2>3. ~interest'[n].open
    <3>1. CASE RemoveInterest(n)
        BY <3>1 DEF RemoveInterest, TypeInv, None
    <3>2. CASE ExpireInterest(n)
        BY <3>2, ShutOpen DEF ExpireInterest
    <3> QED
        BY <1>10, <3>1, <3>2
  <2>4. interest[n] # Open("local")
      BY <1>10 DEF RemoveInterest, ExpireInterest, Open
  <2>5. interest'[n] # Open("remote")
      BY <2>3 DEF Open
  <2>6. interest[q] = Open("local") \/ adding[q]
      BY <1>1, <1>5, <1>6, <2>1, <2>2, <2>5 DEF Moves
  <2> QED
      BY <2>1, <2>2, <2>4, <2>6
<1>11. ASSUME NEW n \in Node, AddInterest(n)
       PROVE  interest'[q] = Open("local") \/ adding'[q]
  <2>1. wire' = wire /\ interest' = [interest EXCEPT ![n] = [who |-> "local", open |-> up[n]]]
        /\ up' = up /\ adding' = [adding EXCEPT ![n] = FALSE]
      BY <1>11 DEF AddInterest
  <2>2. CASE n = q
      BY <1>7, <2>1, <2>2 DEF TypeInv, Open
  <2>3. CASE n = p
    <3>1. interest'[p].who = "local" /\ interest'[q] = interest[q] /\ adding'[q] = adding[q]
        BY <1>1, <2>1, <2>3 DEF TypeInv
    <3>2. interest'[p] # Open("remote")
        BY <3>1 DEF Open
    <3> QED
        BY <1>5, <1>6, <2>1, <3>1, <3>2 DEF Moves
  <2> QED
      BY <1>1, <2>2, <2>3
<1>12. ASSUME NEW n \in Node, HandleInterest(n)
       PROVE  interest'[q] = Open("local") \/ adding'[q]
  <2>1. Reads(n, "interest") /\ adding' = adding /\ ~adding[n]
      BY <1>12 DEF HandleInterest
  <2>2. CASE n = q
    <3>1. wire'[q] = wire[q]
        BY <1>1, <2>1, <2>2, ReadAnnouncement DEF p
    <3>2. interest'[p] = interest[p]
        BY <1>1, <1>12, <2>2, ShutOpen DEF HandleInterest, TypeInv
    <3>3. interest[q] = Open("local")
        BY <1>5, <1>6, <2>1, <2>2, <3>1, <3>2 DEF Moves
    <3>4. Register(interest[q]) = interest[q] /\ interest[q] # Open("remote")
        BY <3>3 DEF Register, Open, None
    <3> QED
        BY <1>12, <2>2, <3>3, <3>4 DEF HandleInterest, TypeInv
  <2>3. CASE n = p
    <3> DEFINE m == wire[q][1]
    <3>1. /\ wire[q] # <<>> /\ wire'[q] = Tail(wire[q]) /\ m.kind = "interest" /\ m.register \in BOOLEAN
          /\ Next1(p) = m /\ (~Parsed(p) => interest[p].who # "remote")
        BY <1>1, <2>1, <2>3, ReadAnnouncement
    <3>2. interest'[q] = interest[q]
        BY <1>1, <1>12, <2>3, ShutOpen DEF HandleInterest, TypeInv
    <3>3. ~m.register => interest'[p] # Open("remote")
      <4> SUFFICES ASSUME ~m.register
                   PROVE  interest'[p] # Open("remote")
          OBVIOUS
      <4>1. CASE Parsed(p) /\ interest[p] = Open("remote")
        <5>1. ShutInterest(p)
            BY <1>12, <2>3, <3>1, <4>1 DEF HandleInterest
        <5>2. ~interest'[p].open
            BY <1>1, <5>1, ShutOpen
        <5> QED
            BY <5>2 DEF Open
      <4>2. CASE ~(Parsed(p) /\ interest[p] = Open("remote"))
        <5>1. interest' = interest
            BY <1>12, <2>3, <3>1, <4>2 DEF HandleInterest
        <5> QED
            BY <3>1, <4>2, <5>1 DEF Open
      <4> QED
          BY <4>1, <4>2
    <3>4. Len(wire[q]) \in 1..Len(wire[q]) /\ Len(wire'[q]) + 1 = Len(wire[q])
        BY <1>3, <3>1, EmptySeq, HeadTailProperties
    <3>5. MadeFor(interest, q)' => m.register
        BY <1>5, <3>1, <3>3
    <3>6. Registers(wire[q], "interest", MadeFor(interest, q), Len(wire[q]) + 1)
        BY <1>3, <1>4, <3>1, <3>4, <3>5, ReadRegisters
    <3> QED
        BY <1>2, <2>1, <3>2, <3>6 DEF InterestInv
  <2> QED
      BY <1>1, <2>2, <2>3
<1>13. ASSUME NEW n \in Node,
              \/ Publish(n) \/ CloseIntent(n) \/ ForwardWrite(n) \/ StrayWrite(n)
              \/ HandleIntent(n) \/ HandleMessage(n)
       PROVE  interest'[q] = Open("local") \/ adding'[q]
  <2>1. Moves(wire[q], wire'[q], "interest")
      BY <1>13, MovesOther
  <2>2. interest' = interest /\ adding' = adding
      BY <1>13 DEF Publish, CloseIntent, ForwardWrite, StrayWrite, HandleIntent, HandleMessage
  <2> QED
      BY <1>5, <1>6, <2>1, <2>2
<1>14. ASSUME NEW n \in Node,
              \/ Send(n) \/ Receive(n) \/ RemoveIntent(n) \/ DelRoute(n)
              \/ ForwardTake(n) \/ ExpireIntent(n) \/ HandlerEnds(n)
       PROVE  interest'[q] = Open("local") \/ adding'[q]
  <2>1. interest' = interest /\ adding' = adding /\ wire' = wire
      BY <1>14 DEF Send, Receive, RemoveIntent, DelRoute, ForwardTake, ExpireIntent, HandlerEnds
  <2> QED
      BY <1>5, <1>6, <2>1 DEF Moves
<1>15. ASSUME NEW n \in Node, Close(n) \/ ReadFails(n) \/ StrayCrash(n)
       PROVE  FALSE
  <2>1. ~up'[n]
      BY <1>15 DEF Close, ReadFails, StrayCrash, Shut, TypeInv
  <2> QED
      BY <1>1, <2>1 DEF Alive, p
<1>16. CASE Cut
    BY <1>16 DEF Cut, Alive
<1>17. CASE UNCHANGED vars
    BY <1>5, <1>6, <1>17 DEF vars, Moves
<1> QED
    BY <1>8, <1>9, <1>10, <1>11, <1>12, <1>13, <1>14, <1>15, <1>16, <1>17
    DEF Next, UserNext, HookNext, DataNext, HandlerNext, ExpireNext

-----------------------------------------------------------------------------
(* Whose messages are under way. *)

(* Whatever the peer does with its interests, as long as it does not make    *)
(* one for a node whose messages are on the way, they stay its own.          *)
LEMMA MineStays ==
    ASSUME TypeInv, NEW q \in Node, Mine(q),
           MadeFor(interest, q)' => MadeFor(interest, q),
           \/ wire'[q] = wire[q]
           \/ \E m \in Message : m.kind # "message" /\ wire'[q] = Append(wire[q], m)
           \/ wire[q] # <<>> /\ wire[q][1].kind # "interest" /\ wire'[q] = Tail(wire[q])
    PROVE  Mine(q)'
<1> DEFINE s == wire[q]
           was == MadeFor(interest, q)
           is == MadeFor(interest, q)'
<1>1. s \in Seq(Message) /\ was \in BOOLEAN /\ is \in BOOLEAN
    BY DEF TypeInv, MadeFor
<1>2. \A k \in DOMAIN s : s[k].kind = "message" => s[k].from = q /\ ~Registers(s, "interest", is, k)
    BY FewerRegister DEF Mine
<1>3. CASE wire'[q] = wire[q]
    BY <1>2, <1>3 DEF Mine
<1>4. CASE \E m \in Message : m.kind # "message" /\ wire'[q] = Append(wire[q], m)
  <2>1. PICK m \in Message : m.kind # "message" /\ wire'[q] = Append(s, m)
      BY <1>4
  <2>2. ASSUME NEW k \in DOMAIN wire'[q], wire'[q][k].kind = "message"
        PROVE  wire'[q][k].from = q /\ ~Registers(wire'[q], "interest", is, k)
    <3>1. k \in 1..Len(s) /\ wire'[q][k] = s[k] /\ k \in DOMAIN s /\ k \in 1..(Len(s) + 1)
        BY <1>1, <2>1, <2>2, AppendProperties
    <3>2. Registers(Append(s, m), "interest", is, k) = Registers(s, "interest", is, k)
        BY <1>1, <2>1, <3>1, WrittenRegisters
    <3> QED
        BY <1>2, <2>1, <2>2, <3>1, <3>2
  <2> QED
      BY <2>2 DEF Mine
<1>5. CASE wire[q] # <<>> /\ wire[q][1].kind # "interest" /\ wire'[q] = Tail(wire[q])
  <2>1. ASSUME NEW k \in DOMAIN wire'[q], wire'[q][k].kind = "message"
        PROVE  wire'[q][k].from = q /\ ~Registers(wire'[q], "interest", is, k)
    <3>1. k \in 1..Len(s) /\ k + 1 \in DOMAIN s /\ wire'[q][k] = s[k + 1]
        BY <1>1, <1>5, EmptySeq, HeadTailProperties
    <3>2. ~Registers(s, "interest", is, k + 1)
        BY <1>2, <2>1, <3>1
    <3>3. Registers(Tail(s), "interest", is, k) => Registers(s, "interest", is, k + 1)
        BY <1>1, <1>5, <3>1, ReadRegisters
    <3> QED
        BY <1>2, <1>5, <2>1, <3>1, <3>2, <3>3
  <2> QED
      BY <2>1 DEF Mine
<1> QED
    BY <1>3, <1>4, <1>5

(* A forwarder writes for a reader that has no interest made for its node:   *)
(* the node would have an interest of its own, and no forwarder.             *)
LEMMA MineForwarded ==
    ASSUME TypeInv, OpenInv, NEW q \in Node, InterestInv(q), Mine(q), Held(q), odd = {},
           ForwardWrite(q)
    PROVE  Mine(q)'
<1> DEFINE s == wire[q]
           m == Data(hand[q])
           r == MadeFor(interest, q)
<1>1. hand[q] = q /\ interest[q] = Open("remote") /\ up[q] /\ ~adding[q]
    BY DEF ForwardWrite, Held, OpenInv, Open, None
<1>2. s \in Seq(Message) /\ m \in Message /\ m.from = q /\ m.kind = "message" /\ r \in BOOLEAN
    BY <1>1, MessageTypes DEF TypeInv, MadeFor, Data
<1>3. interest' = interest /\ MadeFor(interest, q)' = r
    BY DEF ForwardWrite, regVars, MadeFor
<1>4. CASE wire'[q] = s
    BY <1>3, <1>4, MineStays
<1>5. CASE wire'[q] # s
  <2>1. wire'[q] = Append(s, m) /\ ~cut /\ up[Peer(q)]
      BY <1>5 DEF ForwardWrite, Written, TypeInv
  <2>2. ~Registers(s, "interest", r, Len(s) + 1)
      BY <1>1, <2>1 DEF InterestInv, Alive, Open
  <2>3. ASSUME NEW k \in DOMAIN wire'[q], wire'[q][k].kind = "message"
        PROVE  wire'[q][k].from = q /\ ~Registers(wire'[q], "interest", r, k)
    <3>1. k \in 1..(Len(s) + 1) /\ Len(s) \in Nat
        BY <1>2, <2>1, AppendProperties
    <3>2. Registers(Append(s, m), "interest", r, k) = Registers(s, "interest", r, k)
        BY <1>2, <3>1, WrittenRegisters
    <3>3. CASE k = Len(s) + 1
        BY <1>2, <2>1, <2>2, <3>2, <3>3, AppendProperties
    <3>4. CASE k # Len(s) + 1
      <4>1. k \in DOMAIN s /\ wire'[q][k] = s[k]
          BY <1>2, <2>1, <3>1, <3>4, AppendProperties
      <4> QED
          BY <2>1, <2>3, <3>2, <4>1 DEF Mine
    <3> QED
        BY <3>3, <3>4
  <2> QED
      BY <1>3, <2>3 DEF Mine
<1> QED
    BY <1>4, <1>5

(* An interest is made for the peer once it is read that the peer registers, *)
(* before any message that follows.                                          *)
LEMMA MineRead ==
    ASSUME TypeInv, OpenInv, LocalInv, NEW n \in Node, HandleInterest(n), Mine(Peer(n))
    PROVE  Mine(Peer(n))'
<1> DEFINE q == Peer(n)
           s == wire[q]
           is == MadeFor(interest, q)'
<1>1. q \in Node /\ Peer(q) = n
    BY Peers
<1>2. /\ s # <<>> /\ wire'[q] = Tail(s) /\ s[1].kind = "interest" /\ s[1].register \in BOOLEAN
      /\ Next1(n) = s[1] /\ (~Parsed(n) => interest[n].who # "remote")
    BY ReadAnnouncement DEF HandleInterest
<1> HIDE DEF q
<1>3. s \in Seq(Message) /\ is \in BOOLEAN /\ is = (interest'[n] = Open("remote"))
    BY <1>1 DEF TypeInv, MadeFor
<1>4. is => s[1].register
  <2> SUFFICES ASSUME ~s[1].register
               PROVE  interest'[n] # Open("remote")
      BY <1>2, <1>3
  <2>1. CASE Parsed(n) /\ interest[n] = Open("remote")
    <3>1. ShutInterest(n)
        BY <1>2, <2>1 DEF HandleInterest
    <3>2. ~interest'[n].open
        BY <3>1, ShutOpen
    <3> QED
        BY <3>2 DEF Open
  <2>2. CASE ~(Parsed(n) /\ interest[n] = Open("remote"))
    <3>1. interest' = interest
        BY <1>2, <2>2 DEF HandleInterest
    <3> QED
        BY <1>2, <2>2, <3>1 DEF Open
  <2> QED
      BY <2>1, <2>2
<1>5. ASSUME NEW k \in DOMAIN wire'[q], wire'[q][k].kind = "message"
      PROVE  wire'[q][k].from = q /\ ~Registers(wire'[q], "interest", is, k)
  <2>1. k \in 1..Len(s) /\ k + 1 \in DOMAIN s /\ wire'[q][k] = s[k + 1]
      BY <1>2, <1>3, EmptySeq, HeadTailProperties
  <2>2. s[k + 1].from = q /\ ~Registers(s, "interest", MadeFor(interest, q), k + 1)
      BY <1>5, <2>1 DEF Mine, q
  <2>3. Registers(Tail(s), "interest", is, k) => Registers(s, "interest", MadeFor(interest, q), k + 1)
      BY <1>2, <1>3, <1>4, <2>1, ReadRegisters
  <2> QED
      BY <1>2, <2>1, <2>2, <2>3
<1> QED
    BY <1>5 DEF Mine, q

(* Every step keeps messages to those of their writers.                      *)
LEMMA MineStep ==
    ASSUME TypeInv, OpenInv, LocalInv, \A q \in Node : InterestInv(q) /\ Mine(q) /\ Held(q),
           odd = {}, odd' = {}, [Next]_vars
    PROVE  \A q \in Node : Mine(q)'
<1> USE DEF envVars, regVars, dataVars
<1> SUFFICES ASSUME NEW q \in Node
             PROVE  Mine(q)'
    OBVIOUS
<1>0. /\ Peer(q) \in Node /\ \A w : Open(w).open /\ ~None.open
      /\ MadeFor(interest, q) = (interest[Peer(q)] = Open("remote"))
      /\ MadeFor(interest, q)' = (interest'[Peer(q)] = Open("remote"))
    BY Peers DEF MadeFor, Open, None
<1>1. ASSUME NEW n \in Node, ShutInterest(n)
      PROVE  MadeFor(interest, q)' => MadeFor(interest, q)
    BY <1>0, <1>1, ShutOpen
<1>2. ASSUME NEW n \in Node, NEW kind \in {"intent", "interest"}, NEW b \in BOOLEAN, NEW ok \in BOOLEAN,
             WriteAnnounce(n, Announce(kind, b), ok), MadeFor(interest, q)' => MadeFor(interest, q)
      PROVE  Mine(q)'
  <2>1. Announce(kind, b) \in Message /\ Announce(kind, b).kind # "message"
      BY MessageTypes DEF Announce
  <2>2. wire'[q] = wire[q] \/ wire'[q] = Append(wire[q], Announce(kind, b))
      BY <1>2, <2>1, AnnounceWritten
  <2> QED
      BY <1>2, <2>1, <2>2, MineStays
<1>3. ASSUME NEW n \in Node, Publish(n) \/ Subscribe(n) \/ CloseIntent(n)
      PROVE  Mine(q)'
  <2>1. interest' = interest
      BY <1>3 DEF Publish, Subscribe, CloseIntent
  <2> QED
      BY <1>0, <1>2, <1>3, <2>1 DEF Publish, Subscribe, CloseIntent
<1>4. ASSUME NEW n \in Node, CloseInterest(n)
      PROVE  Mine(q)'
    BY <1>1, <1>2, <1>4 DEF CloseInterest
<1>5. ASSUME NEW n \in Node, ForwardWrite(n)
      PROVE  Mine(q)'
  <2>1. CASE n = q
      BY <1>5, <2>1, MineForwarded
  <2>2. CASE n # q
    <3>1. interest' = interest /\ wire'[q] = wire[q]
        BY <1>5, <2>2 DEF ForwardWrite, Written, TypeInv
    <3> QED
        BY <1>0, <3>1, MineStays
  <2> QED
      BY <2>1, <2>2
<1>6. ASSUME NEW n \in Node, HandleInterest(n)
      PROVE  Mine(q)'
  <2>1. CASE q = Peer(n)
      BY <1>6, <2>1, MineRead
  <2>2. CASE q = n
    <3>1. wire'[q] = wire[q]
        BY <1>6, <2>2, ReadsHead, Peers DEF HandleInterest
    <3>2. interest'[Peer(q)] = interest[Peer(q)]
        BY <1>0, <1>6, <2>2, ShutOpen, Peers DEF HandleInterest, TypeInv
    <3> QED
        BY <1>0, <3>1, <3>2, MineStays
  <2> QED
      BY <2>1, <2>2, Peers
<1>7. ASSUME NEW n \in Node, HandleIntent(n) \/ HandleMessage(n)
      PROVE  Mine(q)'
  <2>1. interest' = interest
      BY <1>7 DEF HandleIntent, HandleMessage
  <2>2. Reads(n, "intent") \/ Reads(n, "message")
      BY <1>7 DEF HandleIntent, HandleMessage
  <2>3. wire'[q] = wire[q] \/ (wire[q] # <<>> /\ wire[q][1].kind # "interest" /\ wire'[q] = Tail(wire[q]))
      BY <2>2, ReadsHead
  <2> QED
      BY <1>0, <2>1, <2>3, MineStays
<1>8. ASSUME NEW n \in Node, StrayWrite(n) \/ StrayCrash(n)
      PROVE  Mine(q)'
  <2>1. wire' = wire
      BY <1>8 DEF StrayWrite, StrayCrash
  <2>2. interest' = interest \/ interest' = [interest EXCEPT ![n] = None]
      BY <1>8 DEF StrayWrite, StrayCrash
  <2>3. MadeFor(interest, q)' => MadeFor(interest, q)
    <3>1. interest'[Peer(q)] = interest[Peer(q)] \/ interest'[Peer(q)] = None
        BY <1>0, <2>2 DEF TypeInv
    <3>2. None # Open("remote")
        BY <1>0
    <3> QED
        BY <1>0, <3>1, <3>2
  <2> QED
      BY <2>1, <2>3, MineStays
<1>9. ASSUME NEW n \in Node, Close(n) \/ ReadFails(n) \/ ExpireInterest(n)
      PROVE  Mine(q)'
    BY <1>1, <1>9, MineStays DEF Close, ReadFails, Shut, ExpireInterest
<1>10. ASSUME NEW n \in Node, RemoveInterest(n) \/ AddInterest(n)
       PROVE  Mine(q)'
  <2>1. wire' = wire /\ \A m \in Node \ {n} : interest'[m] = interest[m]
      BY <1>10 DEF RemoveInterest, AddInterest, TypeInv
  <2>2. interest'[n].who # "remote"
      BY <1>10 DEF RemoveInterest, AddInterest, TypeInv, None
  <2>3. MadeFor(interest, q)' => MadeFor(interest, q)
    <3>1. Peer(q) = n => interest'[Peer(q)] # Open("remote")
        BY <2>2 DEF Open
    <3>2. Peer(q) # n => interest'[Peer(q)] = interest[Peer(q)]
        BY <1>0, <2>1
    <3> QED
        BY <1>0, <3>1, <3>2
  <2> QED
      BY <2>1, <2>3, MineStays
<1>11. ASSUME NEW n \in Node,
              \/ Send(n) \/ Receive(n) \/ RemoveIntent(n) \/ DelRoute(n)
              \/ ForwardTake(n) \/ ExpireIntent(n) \/ HandlerEnds(n)
       PROVE  Mine(q)'
  <2>1. interest' = interest /\ wire' = wire
      BY <1>11 DEF Send, Receive, RemoveIntent, DelRoute, ForwardTake, ExpireIntent, HandlerEnds
  <2> QED
      BY <1>0, <2>1, MineStays
<1>12. CASE Cut
    BY <1>12 DEF Cut, Mine
<1>13. CASE UNCHANGED vars
    BY <1>0, <1>13, MineStays DEF vars
<1> QED
    BY <1>3, <1>4, <1>5, <1>6, <1>7, <1>8, <1>9, <1>10, <1>11, <1>12, <1>13
    DEF Next, UserNext, HookNext, DataNext, HandlerNext, ExpireNext

(* Every step keeps forwarders to the messages of their node.                *)
LEMMA HeldStep ==
    ASSUME TypeInv, OpenInv, \A q \in Node : Mine(q) /\ Held(q), [Next]_vars
    PROVE  \A q \in Node : Held(q)'
<1> USE DEF envVars, regVars, dataVars
<1>0. /\ \A w : Open(w).open /\ Open(w).who = w
      /\ ~None.open /\ None.who = "none"
    BY DEF Open, None
<1>1. ASSUME NEW n \in Node, ShutInterest(n)
      PROVE  \A q \in Node : Held(q)'
    BY <1>0, <1>1, ShutOpen DEF Held
<1>2. ASSUME UNCHANGED <<interest, hand, chan>>
      PROVE  \A q \in Node : Held(q)'
    BY <1>2 DEF Held
<1>3. ASSUME NEW n \in Node,
             \/ Publish(n) \/ Subscribe(n) \/ CloseIntent(n) \/ RemoveIntent(n) \/ DelRoute(n)
             \/ StrayWrite(n) \/ HandleIntent(n) \/ ExpireIntent(n) \/ HandlerEnds(n)
      PROVE  \A q \in Node : Held(q)'
  <2>1. UNCHANGED <<interest, hand, chan>>
      BY <1>3 DEF Publish, Subscribe, CloseIntent, RemoveIntent, DelRoute, StrayWrite, HandleIntent,
          ExpireIntent, HandlerEnds
  <2> QED
      BY <1>2, <2>1
<1>4. ASSUME NEW n \in Node, CloseInterest(n) \/ ExpireInterest(n) \/ Close(n) \/ ReadFails(n)
      PROVE  \A q \in Node : Held(q)'
    BY <1>1, <1>4 DEF CloseInterest, ExpireInterest, Close, ReadFails, Shut
<1>5. ASSUME NEW n \in Node, RemoveInterest(n) \/ AddInterest(n)
      PROVE  \A q \in Node : Held(q)'
  <2>1. UNCHANGED <<hand, chan>> /\ \A m \in Node \ {n} : interest'[m] = interest[m]
      BY <1>5 DEF RemoveInterest, AddInterest, TypeInv
  <2>2. interest'[n].who # "remote"
      BY <1>5, <1>0 DEF RemoveInterest, AddInterest, TypeInv
  <2> QED
      BY <1>0, <2>1, <2>2 DEF Held
<1>6. ASSUME NEW n \in Node, Send(n)
      PROVE  \A q \in Node : Held(q)'
  <2>1. UNCHANGED <<interest, hand>> /\ chan' = [chan EXCEPT ![n] = Append(chan[n], n)]
      BY <1>6 DEF Send
  <2>2. chan[n] \in Seq(Node)
      BY DEF TypeInv
  <2>3. (\A k \in DOMAIN chan[n] : chan[n][k] = n) =>
            \A k \in DOMAIN Append(chan[n], n) : Append(chan[n], n)[k] = n
      BY <2>2, AppendProperties
  <2> QED
      BY <2>1, <2>3 DEF Held, TypeInv
<1>7. ASSUME NEW n \in Node, Receive(n)
      PROVE  \A q \in Node : Held(q)'
  <2>1. UNCHANGED <<interest, hand>> /\ \A m \in Node \ {n} : chan'[m] = chan[m]
      BY <1>7 DEF Receive, TypeInv
  <2>2. interest[n] # Open("remote")
      BY <1>0, <1>7 DEF Receive
  <2> QED
      BY <2>1, <2>2 DEF Held
<1>8. ASSUME NEW n \in Node, ForwardTake(n)
      PROVE  \A q \in Node : Held(q)'
  <2>1. chan[n] \in Seq(Node) /\ chan[n] # <<>> /\ \A k \in DOMAIN chan[n] : chan[n][k] = n
      BY <1>8 DEF ForwardTake, Held, TypeInv
  <2>2. Head(chan[n]) = n /\ \A k \in DOMAIN Tail(chan[n]) : Tail(chan[n])[k] = n
      BY <2>1, EmptySeq, HeadTailProperties
  <2>3. /\ UNCHANGED interest /\ hand' = [hand EXCEPT ![n] = n]
        /\ chan' = [chan EXCEPT ![n] = Tail(chan[n])]
      BY <1>8, <2>2 DEF ForwardTake
  <2> QED
      BY <2>2, <2>3 DEF Held, TypeInv
<1>9. ASSUME NEW n \in Node, ForwardWrite(n) \/ StrayCrash(n)
      PROVE  \A q \in Node : Held(q)'
  <2>1. /\ hand' = [hand EXCEPT ![n] = Nil]
        /\ UNCHANGED <<interest, chan>>
           \/ (interest' = [interest EXCEPT ![n] = None] /\ chan' = [chan EXCEPT ![n] = <<>>])
      BY <1>9 DEF ForwardWrite, StrayCrash
  <2> QED
      BY <1>0, <2>1 DEF Held, TypeInv
<1>10. ASSUME NEW n \in Node, HandleInterest(n)
       PROVE  \A q \in Node : Held(q)'
  <2>1. CASE ShutInterest(n)
      BY <1>1, <2>1
  <2>2. CASE ~ShutInterest(n)
    <3>1. /\ UNCHANGED <<hand, chan>>
          /\ interest' = interest \/ interest' = [interest EXCEPT ![n] = Register(interest[n])]
        BY <1>10, <2>2 DEF HandleInterest
    <3>2. interest[n] = None => chan[n] = <<>>
        BY <1>0 DEF OpenInv
    <3>3. interest'[n] = interest[n] \/ chan[n] = <<>>
        BY <3>1, <3>2 DEF Register, TypeInv
    <3>4. \A m \in Node \ {n} : interest'[m] = interest[m]
        BY <3>1 DEF TypeInv
    <3> QED
        BY <3>1, <3>3, <3>4 DEF Held
  <2> QED
      BY <2>1, <2>2
<1>11. ASSUME NEW n \in Node, HandleMessage(n)
       PROVE  \A q \in Node : Held(q)'
  <2>1. UNCHANGED <<interest, hand>> /\ \A m \in Node \ {n} : chan'[m] = chan[m]
      BY <1>11 DEF HandleMessage, TypeInv
  <2>2. interest[n] # Open("remote")
    <3> DEFINE q == Peer(n)
    <3>1. q \in Node /\ Peer(q) = n
        BY Peers
    <3>2. q # n /\ wire[q] \in Seq(Message) /\ wire[q] # <<>> /\ wire[q][1].kind = "message"
        BY <1>11, <3>1, Peers, ReadsHead DEF HandleMessage, TypeInv
    <3>3. 1 \in DOMAIN wire[q] /\ \A i \in DOMAIN wire[q] : ~(i < 1)
        BY <3>2, EmptySeq
    <3>4. ~Registers(wire[q], "interest", MadeFor(interest, q), 1)
        BY <3>1, <3>2, <3>3 DEF Mine
    <3>5. ~MadeFor(interest, q)
        BY <3>3, <3>4 DEF Registers
    <3> QED
        BY <3>1, <3>5 DEF MadeFor
  <2> QED
      BY <2>1, <2>2 DEF Held
<1>12. CASE Cut
    BY <1>2, <1>12 DEF Cut
<1>13. CASE UNCHANGED vars
    BY <1>2, <1>13 DEF vars
<1> QED
    BY <1>3, <1>4, <1>5, <1>6, <1>7, <1>8, <1>9, <1>10, <1>11, <1>12, <1>13
    DEF Next, UserNext, HookNext, DataNext, HandlerNext, ExpireNext

(* Every step keeps RemoteInv.                                               *)
LEMMA RemoteStep ==
    ASSUME RemoteInv, [Next]_vars
    PROVE  RemoteInv'
<1>1. TypeInv' /\ OpenInv' /\ LocalInv'
    BY TypeStep, OpenStep, LocalStep DEF RemoteInv
<1>2. \A q \in Node : IntentInv(q)' /\ InterestInv(q)'
    BY IntentStep, InterestStep DEF RemoteInv
<1>3. \A q \in Node : OwnInv(q)'
  <2> SUFFICES ASSUME odd' = {}
               PROVE  \A q \in Node : Mine(q)' /\ Held(q)'
      BY DEF OwnInv
  <2>1. odd = {}
      BY AliveStep DEF RemoteInv
  <2>2. \A q \in Node : InterestInv(q) /\ Mine(q) /\ Held(q)
      BY <2>1 DEF RemoteInv, OwnInv
  <2> QED
      BY <2>1, <2>2, MineStep, HeldStep DEF RemoteInv
<1> QED
    BY <1>1, <1>2, <1>3 DEF RemoteInv

(* Nothing is registered or under way at first.                              *)
LEMMA InitialRemote == Init => RemoteInv
<1> SUFFICES ASSUME Init
             PROVE  RemoteInv
    OBVIOUS
<1>1. /\ None \in Registration /\ ~None.open /\ None.who = "none"
      /\ None # Open("remote")
    BY RegistrationTypes DEF None, Open
<1>2. TypeInv
  <2>1. chan \in [Node -> Seq(Node)] /\ stray \in [Node -> Seq(Node \cup {Nil})] /\ wire \in [Node -> Seq(Message)]
      BY DEF Init
  <2> QED
      BY <1>1, <2>1 DEF Init, TypeInv
<1>3. OpenInv
    BY <1>1 DEF Init, OpenInv
<1>4. LocalInv
    BY <1>1 DEF Init, LocalInv
<1>5. ASSUME NEW q \in Node
      PROVE  IntentInv(q) /\ InterestInv(q) /\ OwnInv(q)
  <2>1. wire[q] = <<>> /\ ~MadeFor(intent, q) /\ ~MadeFor(interest, q)
      BY <1>1, Peers DEF Init, MadeFor
  <2>2. IntentInv(q) /\ InterestInv(q)
      BY <2>1 DEF IntentInv, InterestInv, Registers
  <2>3. Mine(q) /\ Held(q)
      BY <1>1, <2>1 DEF Mine, Held, Init
  <2> QED
      BY <2>2, <2>3 DEF OwnInv
<1> QED
    BY <1>2, <1>3, <1>4, <1>5 DEF RemoteInv

(* While announcements get through, whatever crosses on the way, a           *)
(* registration that was made for the peer does not outlive the peer's own.  *)
THEOREM NothingOutlives == Spec => []NoGhost
<1>1. RemoteInv => NoGhost
  <2> SUFFICES ASSUME RemoteInv, Quiet, ~cut, "failed" \notin odd, NEW n \in Node
               PROVE  Owned(n)
      BY DEF NoGhost
  <2> DEFINE q == Peer(n)
  <2>1. q \in Node /\ Peer(q) = n
      BY Peers
  <2>2. wire[q] = <<>> /\ ~adding[q] /\ (~up[q] => handler[n] # "reading")
      BY <2>1 DEF Quiet
  <2> HIDE DEF q
  <2>3. up[n] => Alive(q)
      BY <2>1, <2>2 DEF Alive, RemoteInv, OpenInv
  <2>4. ASSUME NEW kind
        PROVE  Registers(wire[q], kind, TRUE, Len(wire[q]) + 1)
      BY <2>2 DEF Registers
  <2>5. ASSUME intent[n] = Open("remote")
        PROVE  intent[q] = Open("local")
    <3>1. up[n] /\ MadeFor(intent, q) = TRUE
        BY <2>1, <2>5 DEF RemoteInv, OpenInv, Open, MadeFor
    <3> QED
        BY <2>1, <2>3, <2>4, <3>1 DEF RemoteInv, IntentInv
  <2>6. ASSUME interest[n] = Open("remote")
        PROVE  interest[q] = Open("local")
    <3>1. up[n] /\ MadeFor(interest, q) = TRUE
        BY <2>1, <2>6 DEF RemoteInv, OpenInv, Open, MadeFor
    <3> QED
        BY <2>1, <2>2, <2>3, <2>4, <3>1 DEF RemoteInv, InterestInv
  <2> QED
      BY <2>5, <2>6 DEF Owned, q
<1> QED
    BY <1>1, InitialRemote, RemoteStep, PTL DEF Spec

(* A node writes to its peer only what its own users have sent, as long as   *)
(* announcements get through and no forwarder outlives its interest: nothing *)
(* is relayed (endpoint/remote/README.md).                                   *)
THEOREM NothingRelayed == Spec => []NoRelay
<1>1. RemoteInv => NoRelay
    BY DEF RemoteInv, OwnInv, Mine, NoRelay
<1> QED
    BY <1>1, InitialRemote, RemoteStep, PTL DEF Spec

-----------------------------------------------------------------------------
(* Paths. *)

Settled ==
    /\ "patient" \in use /\ "ttl" \notin use /\ route.kind = "plain"
    /\ ~cut /\ \A n \in Node : up[n]

(* The announcement that the peer of q reads next.                           *)
Ahead(q) == IF wire[q] # <<>> /\ wire[q][1].kind # "message" THEN {wire[q][1]} ELSE {}
Announced(q, kind) == {a \in Ahead(q) : a.kind = kind}

(* Patient users announce nothing while anything is on the way, so that an   *)
(* announcement is alone with the data behind it.                            *)
HeadOnly(q) ==
    \A k \in DOMAIN wire[q] : wire[q][k].kind # "message" =>
        /\ k = 1
        /\ \A j \in DOMAIN wire[Peer(q)] : wire[Peer(q)][j].kind = "message"

(* Once the peer has read what was announced, it has an open registration    *)
(* for every intent that is open; until then, it has none of its own.        *)
IntentPath(q) ==
    /\ \A a \in Announced(q, "intent") :
          IF a.register THEN intent[Peer(q)] \in {None, Open("remote")}
          ELSE intent[q] # Open("local")
    /\ intent[q] = Open("local") /\ Announced(q, "intent") = {} => intent[Peer(q)] = Open("remote")

(* So it has for interests, from before they are added.                      *)
Wants(q) == interest[q] = Open("local") \/ adding[q]

InterestPath(q) ==
    /\ \A a \in Announced(q, "interest") :
          IF a.register THEN interest[Peer(q)] \in {None, Open("remote")} /\ ~adding[Peer(q)]
          ELSE ~Wants(q)
    /\ Wants(q) /\ Announced(q, "interest") = {} => interest[Peer(q)] = Open("remote")

(* No hook of an earlier interest is left to take the route out of the table *)
(* of a new one.                                                             *)
DecodePath(q) ==
    /\ Wants(q) => delHook[q] = 0
    /\ interest[q] = Open("local") => decodes[q]

PathInv ==
    /\ delHook \in [Node -> Nat] /\ decodes \in [Node -> BOOLEAN]
    /\ Settled => \A q \in Node : HeadOnly(q) /\ IntentPath(q) /\ InterestPath(q) /\ DecodePath(q)

(* The peer understands the name of a plain route.                           *)
LEMMA PlainParsed ==
    ASSUME TypeInv, route.kind = "plain"
    PROVE  RouteFromString(ID(route)).kind # "invalid"
<1>1. /\ route.path \in Seq(Symbols(route.path)) /\ route.type # At
      /\ route = NewRoute(route.path, route.type)
    BY RouteAssumption DEF TypeInv
<1>2. RouteFromString(String(route)).kind = "plain"
    BY <1>1, PlainRoundTrip
<1> QED
    BY <1>2 DEF String, ID

(* Settled endpoints have been so all along: they do not crash, close, cut   *)
(* or expire anything.                                                       *)
LEMMA SettledBefore ==
    ASSUME TypeInv, [Next]_vars, Settled'
    PROVE  /\ Settled /\ ~Cut
           /\ \A n \in Node : /\ ~Close(n) /\ ~ReadFails(n) /\ ~StrayCrash(n) /\ ~ExpireNext(n)
                              /\ ~HandlerEnds(n)
<1> USE DEF envVars, regVars, dataVars
<1>1. use' = use /\ route' = route
    BY DEF Next, vars, Cut, UserNext, HookNext, DataNext, HandlerNext, ExpireNext,
        Publish, Subscribe, CloseIntent, CloseInterest, Send, Close, RemoveIntent, RemoveInterest,
        DelRoute, AddInterest, Receive, ForwardTake, ForwardWrite, StrayWrite, StrayCrash,
        HandleIntent, HandleInterest, HandleMessage, ReadFails, HandlerEnds, ExpireIntent,
        ExpireInterest
<1>2. ~Cut
    BY DEF Cut, Settled
<1>3. ASSUME NEW n \in Node
      PROVE  ~Close(n) /\ ~ReadFails(n) /\ ~StrayCrash(n)
    BY DEF Close, ReadFails, StrayCrash, Shut, Settled, TypeInv
<1>4. ASSUME NEW n \in Node
      PROVE  ~ExpireNext(n)
    BY <1>1 DEF ExpireNext, ExpireIntent, ExpireInterest, Settled
<1>5. up' = up /\ cut' = cut
    BY <1>2, <1>3, <1>4 DEF Next, vars, UserNext, HookNext, DataNext, HandlerNext, ExpireNext,
        Publish, Subscribe, CloseIntent, CloseInterest, Send, RemoveIntent, RemoveInterest,
        DelRoute, AddInterest, Receive, ForwardTake, ForwardWrite, StrayWrite,
        HandleIntent, HandleInterest, HandleMessage, HandlerEnds
<1>6. Settled
    BY <1>1, <1>5 DEF Settled
<1> QED
    BY <1>2, <1>3, <1>4, <1>6 DEF HandlerEnds, Settled

(* What is announced, and may be, as messages are written and read.          *)
Kept(q) == Ahead(q)' = Ahead(q)

(* Data goes behind what is announced.                                       *)
LEMMA DataKeeps ==
    ASSUME TypeInv, TypeInv', \A q \in Node : HeadOnly(q), NEW n \in Node,
           ForwardWrite(n) \/ StrayWrite(n) \/ HandleMessage(n)
    PROVE  \A q \in Node : HeadOnly(q)' /\ Kept(q)
<1>1. ASSUME NEW m \in Node, wire' \in {wire, Written(n, Data(m))}
      PROVE  \A q \in Node : HeadOnly(q)' /\ Kept(q)
  <2>1. Data(m) \in Message /\ Data(m).kind = "message"
      BY MessageTypes DEF Data
  <2>2. ASSUME NEW q \in Node
        PROVE  /\ wire[q] \in Seq(Message) /\ DOMAIN wire[q] = 1..Len(wire[q])
               /\ DOMAIN wire'[q] = 1..Len(wire'[q]) /\ Len(wire[q]) \in Nat
               /\ wire'[q] = wire[q] \/ wire'[q] = Append(wire[q], Data(m))
    <3>1. wire[q] \in Seq(Message) /\ wire'[q] \in Seq(Message')
        BY DEF TypeInv
    <3>2. wire' = wire \/ wire' = [wire EXCEPT ![n] = Append(wire[n], Data(m))]
        BY <1>1 DEF Written
    <3>3. wire'[q] = wire[q] \/ wire'[q] = Append(wire[q], Data(m))
        BY <3>2 DEF TypeInv
    <3> QED
        BY <3>1, <3>3
  <2>3. ASSUME NEW q \in Node, NEW k \in DOMAIN wire'[q]
        PROVE  wire'[q][k].kind = "message" \/ (k \in DOMAIN wire[q] /\ wire'[q][k] = wire[q][k])
    <3>1. CASE wire'[q] = Append(wire[q], Data(m))
        BY <2>1, <2>2, <2>3, <3>1, AppendProperties
    <3> QED
        BY <2>2, <2>3, <3>1
  <2>4. ASSUME NEW q \in Node
        PROVE  HeadOnly(q)'
      BY <2>3, Peers DEF HeadOnly
  <2>5. ASSUME NEW q \in Node
        PROVE  Kept(q)
    <3>1. CASE wire'[q] = Append(wire[q], Data(m)) /\ wire[q] = <<>>
        BY <2>1, <3>1 DEF Kept, Ahead
    <3>2. CASE wire'[q] = Append(wire[q], Data(m)) /\ wire[q] # <<>>
      <4>1. 1 \in 1..Len(wire[q])
          BY <2>2, <3>2, EmptySeq
      <4>2. wire'[q][1] = wire[q][1] /\ wire'[q] # <<>>
          BY <2>1, <2>2, <3>2, <4>1, AppendProperties
      <4> QED
          BY <3>2, <4>2 DEF Kept, Ahead
    <3>3. CASE wire'[q] = wire[q]
        BY <3>3 DEF Kept, Ahead
    <3> QED
        BY <2>2, <3>1, <3>2, <3>3
  <2> QED
      BY <2>4, <2>5
<1>2. CASE ForwardWrite(n)
  <2>1. hand[n] \in Node /\ wire' \in {wire, Written(n, Data(hand[n]))}
      BY <1>2 DEF ForwardWrite, TypeInv
  <2> QED
      BY <1>1, <2>1
<1>3. CASE StrayWrite(n)
  <2>1. \E m \in Node : wire' \in {wire, Written(n, Data(m))}
      BY <1>3, StrayWrites
  <2> QED
      BY <1>1, <2>1
<1>4. CASE HandleMessage(n)
  <2>1. Reads(n, "message")
      BY <1>4 DEF HandleMessage
  <2>2. ASSUME NEW q \in Node
        PROVE  \/ wire'[q] = wire[q]
               \/ wire[q] # <<>> /\ wire[q][1].kind = "message" /\ wire'[q] = Tail(wire[q])
      BY <2>1, ReadsHead
  <2>3. ASSUME NEW q \in Node, NEW k \in DOMAIN wire'[q]
        PROVE  \/ k \in DOMAIN wire[q] /\ wire'[q][k] = wire[q][k] /\ wire'[q] = wire[q]
               \/ k + 1 \in DOMAIN wire[q] /\ wire'[q][k] = wire[q][k + 1] /\ k + 1 # 1
    <3>1. CASE wire'[q] = Tail(wire[q]) /\ wire[q] # <<>>
      <4>1. wire[q] \in Seq(Message) /\ Len(wire[q]) \in Nat \ {0} /\ DOMAIN wire[q] = 1..Len(wire[q])
          BY <3>1, EmptySeq DEF TypeInv
      <4>2. /\ DOMAIN wire'[q] = 1..(Len(wire[q]) - 1)
            /\ \A i \in 1..(Len(wire[q]) - 1) : wire'[q][i] = wire[q][i + 1]
          BY <3>1, <4>1, HeadTailProperties
      <4>3. k \in 1..(Len(wire[q]) - 1) /\ k + 1 \in 1..Len(wire[q]) /\ k + 1 # 1
          BY <2>3, <4>1, <4>2
      <4> QED
          BY <4>1, <4>2, <4>3
    <3> QED
        BY <2>2, <2>3, <3>1
  <2>4. ASSUME NEW q \in Node
        PROVE  HeadOnly(q)'
      BY <2>3, Peers DEF HeadOnly
  <2>5. ASSUME NEW q \in Node
        PROVE  Kept(q)
    <3>1. CASE wire[q] # <<>> /\ wire[q][1].kind = "message" /\ wire'[q] = Tail(wire[q])
      <4>1. wire'[q] # <<>> => 1 \in DOMAIN wire'[q]
          BY EmptySeq DEF TypeInv
      <4>2. wire'[q] # <<>> => wire'[q][1].kind = "message"
        <5>1. CASE wire'[q] # <<>>
          <6>1. \/ 1 \in DOMAIN wire[q] /\ wire'[q][1] = wire[q][1]
                \/ 1 + 1 \in DOMAIN wire[q] /\ wire'[q][1] = wire[q][1 + 1] /\ 1 + 1 # 1
              BY <2>3, <4>1, <5>1
          <6> QED
              BY <3>1, <6>1 DEF HeadOnly
        <5> QED
            BY <5>1
      <4> QED
          BY <3>1, <4>2 DEF Kept, Ahead
    <3> QED
        BY <2>2, <3>1 DEF Kept, Ahead
  <2> QED
      BY <2>4, <2>5
<1> QED
    BY <1>2, <1>3, <1>4

(* Nothing is announced any more once the announcement is read.              *)
LEMMA ReadEmpties ==
    ASSUME TypeInv, TypeInv', \A q \in Node : HeadOnly(q), NEW n \in Node,
           NEW kind \in {"intent", "interest"}, Reads(n, kind)
    PROVE  /\ \A q \in Node : HeadOnly(q)'
           /\ Ahead(Peer(n)) = {Next1(n)} /\ Ahead(Peer(n))' = {}
           /\ Ahead(n) = {} /\ Ahead(n)' = {}
           /\ Next1(n).kind = kind /\ Next1(n).register \in BOOLEAN
           /\ Parsed(n) = (RouteFromString(ID(route)).kind # "invalid")
<1> DEFINE p == Peer(n)
<1>1. p \in Node /\ p # n /\ Peer(p) = n /\ \A q \in Node : q = n \/ q = p
    BY Peers
<1>2. /\ wire[p] # <<>> /\ wire[p] \in Seq(Message) /\ wire[p][1] = Next1(n)
      /\ Next1(n).kind = kind /\ wire'[p] = Tail(wire[p]) /\ wire'[n] = wire[n]
    BY <1>1, ReadsHead DEF TypeInv
<1>3. /\ DOMAIN wire[p] = 1..Len(wire[p]) /\ Len(wire[p]) \in Nat \ {0}
      /\ DOMAIN wire'[p] = 1..(Len(wire[p]) - 1)
      /\ \A k \in DOMAIN wire'[p] : wire'[p][k] = wire[p][k + 1]
      /\ wire'[p] # <<>> => 1 \in DOMAIN wire'[p]
    BY <1>2, EmptySeq, HeadTailProperties
<1> HIDE DEF p
<1>4. 1 \in DOMAIN wire[p] /\ kind # "message"
    BY <1>3
<1>5. \A k \in DOMAIN wire'[p] : k + 1 \in DOMAIN wire[p] /\ k + 1 # 1
    BY <1>3
<1>6. \A k \in DOMAIN wire'[p] : wire'[p][k].kind = "message"
    BY <1>1, <1>3, <1>5 DEF HeadOnly
<1>7. \A k \in DOMAIN wire[n] : wire[n][k].kind = "message"
    BY <1>1, <1>2, <1>4 DEF HeadOnly
<1>8. Ahead(p) = {Next1(n)} /\ Ahead(p)' = {}
    BY <1>2, <1>3, <1>4, <1>6 DEF Ahead
<1>9. Ahead(n) = {} /\ Ahead(n)' = {}
  <2>1. wire[n] # <<>> => 1 \in DOMAIN wire[n]
      BY EmptySeq DEF TypeInv
  <2> QED
      BY <1>2, <1>7, <2>1 DEF Ahead
<1>10. \A q \in Node : HeadOnly(q)'
    BY <1>1, <1>2, <1>6, <1>7 DEF HeadOnly
<1>11. Next1(n) \in Message
    BY <1>2, <1>4
<1>12. Next1(n).register \in BOOLEAN /\ Next1(n).text = ID(route)
    BY <1>11 DEF Message, Announcement
<1> QED
    BY <1>2, <1>8, <1>9, <1>10, <1>12 DEF p, Parsed

(* A patient user announces when everything has been read.                   *)
LEMMA UserAnnounces ==
    ASSUME TypeInv, Settled, NEW n \in Node, NEW m \in Message, m.kind # "message",
           NEW ok \in BOOLEAN, UserStep, WriteAnnounce(n, m, ok)
    PROVE  /\ Quiet
           /\ \A q \in Node : HeadOnly(q)' /\ Ahead(q) = {}
           /\ Ahead(n)' \in {{}, {m}} /\ (ok => Ahead(n)' = {m})
           /\ Ahead(Peer(n))' = {}
<1>1. Quiet
    BY DEF UserStep, Settled
<1>2. \A q \in Node : wire[q] = <<>>
    BY <1>1 DEF Quiet
<1>3. Peer(n) \in Node /\ Peer(n) # n /\ Peer(Peer(n)) = n /\ \A q \in Node : q = n \/ q = Peer(n)
    BY Peers
<1>4. /\ wire'[n] \in {<<>>, <<m>>} /\ wire'[Peer(n)] = <<>>
      /\ ok => wire'[n] = <<m>>
  <2>1. Append(<<>>, m) = <<m>>
      OBVIOUS
  <2>2. Written(n, m)[n] = Append(wire[n], m)
      BY <1>3 DEF Written, Settled, TypeInv
  <2> QED
      BY <1>2, <1>3, <2>1, <2>2, AnnounceWritten DEF WriteAnnounce
<1>5. <<m>> # <<>> /\ <<m>>[1] = m /\ DOMAIN <<m>> = {1}
    OBVIOUS
<1>6. Ahead(n)' \in {{}, {m}} /\ (ok => Ahead(n)' = {m}) /\ Ahead(Peer(n))' = {}
    BY <1>4, <1>5 DEF Ahead
<1>7. \A q \in Node : HeadOnly(q)'
    BY <1>3, <1>4, <1>5 DEF HeadOnly
<1>8. \A q \in Node : Ahead(q) = {}
    BY <1>2 DEF Ahead
<1> QED
    BY <1>1, <1>6, <1>7, <1>8

(* One step of somebody else's, or of another kind, leaves announcements of  *)
(* a kind as they are.                                                       *)
LEMMA OthersAnnounce ==
    ASSUME TypeInv, TypeInv', Settled, \A q \in Node : HeadOnly(q), NEW n \in Node
    PROVE  /\ Publish(n) \/ CloseIntent(n) \/ HandleIntent(n) =>
                 \A q \in Node : HeadOnly(q)' /\ Announced(q, "interest")' = Announced(q, "interest")
           /\ Subscribe(n) \/ CloseInterest(n) \/ HandleInterest(n) =>
                 \A q \in Node : HeadOnly(q)' /\ Announced(q, "intent")' = Announced(q, "intent")
           /\ ForwardWrite(n) \/ StrayWrite(n) \/ HandleMessage(n) =>
                 \A q \in Node : /\ HeadOnly(q)'
                                 /\ Announced(q, "intent")' = Announced(q, "intent")
                                 /\ Announced(q, "interest")' = Announced(q, "interest")
<1>0. \A q \in Node : q = n \/ q = Peer(n)
    BY Peers
<1>1. ASSUME NEW kind \in {"intent", "interest"}, NEW b \in BOOLEAN, NEW ok \in BOOLEAN,
             UserStep, WriteAnnounce(n, Announce(kind, b), ok),
             NEW other \in {"intent", "interest"}, other # kind
      PROVE  \A q \in Node : HeadOnly(q)' /\ Announced(q, other)' = Announced(q, other)
  <2>1. Announce(kind, b) \in Message /\ Announce(kind, b).kind = kind
      BY MessageTypes DEF Announce
  <2>2. /\ \A q \in Node : HeadOnly(q)' /\ Ahead(q) = {}
        /\ Ahead(n)' \in {{}, {Announce(kind, b)}} /\ Ahead(Peer(n))' = {}
      BY <1>1, <2>1, UserAnnounces
  <2> QED
      BY <1>0, <1>1, <2>1, <2>2 DEF Announced
<1>2. ASSUME NEW kind \in {"intent", "interest"}, Reads(n, kind),
             NEW other \in {"intent", "interest"}, other # kind
      PROVE  \A q \in Node : HeadOnly(q)' /\ Announced(q, other)' = Announced(q, other)
  <2>1. /\ \A q \in Node : HeadOnly(q)'
        /\ Ahead(Peer(n)) = {Next1(n)} /\ Ahead(Peer(n))' = {}
        /\ Ahead(n) = {} /\ Ahead(n)' = {} /\ Next1(n).kind = kind
      BY <1>2, ReadEmpties
  <2> QED
      BY <1>0, <1>2, <2>1 DEF Announced
<1>3. Publish(n) \/ CloseIntent(n) \/ HandleIntent(n) =>
          \A q \in Node : HeadOnly(q)' /\ Announced(q, "interest")' = Announced(q, "interest")
    BY <1>1, <1>2 DEF Publish, CloseIntent, HandleIntent
<1>4. Subscribe(n) \/ CloseInterest(n) \/ HandleInterest(n) =>
          \A q \in Node : HeadOnly(q)' /\ Announced(q, "intent")' = Announced(q, "intent")
    BY <1>1, <1>2 DEF Subscribe, CloseInterest, HandleInterest
<1>5. ForwardWrite(n) \/ StrayWrite(n) \/ HandleMessage(n) =>
          \A q \in Node : /\ HeadOnly(q)'
                          /\ Announced(q, "intent")' = Announced(q, "intent")
                          /\ Announced(q, "interest")' = Announced(q, "interest")
    BY DataKeeps DEF Kept, Announced
<1> QED
    BY <1>3, <1>4, <1>5

(* What a patient user's announcement finds and leaves.                      *)
LEMMA PatientAnnounces ==
    ASSUME TypeInv, Settled, NEW n \in Node, NEW m \in Message, m.kind # "message",
           NEW ok \in BOOLEAN, UserStep, WriteAnnounce(n, m, ok)
    PROVE  /\ Quiet
           /\ Announced(n, m.kind) = {} /\ Announced(Peer(n), m.kind) = {}
           /\ Announced(n, m.kind)' \in {{}, {m}}
           /\ ok => Announced(n, m.kind)' # {}
           /\ Announced(Peer(n), m.kind)' = {}
<1>1. /\ Quiet /\ \A q \in Node : HeadOnly(q)' /\ Ahead(q) = {}
      /\ Ahead(n)' \in {{}, {m}} /\ (ok => Ahead(n)' = {m})
      /\ Ahead(Peer(n))' = {}
    BY UserAnnounces
<1> QED
    BY <1>1, Peers DEF Announced

(* What the reader of an announcement finds and leaves.                      *)
LEMMA ReaderFinds ==
    ASSUME TypeInv, TypeInv', Settled, \A q \in Node : HeadOnly(q), NEW n \in Node,
           NEW kind \in {"intent", "interest"}, Reads(n, kind)
    PROVE  /\ Announced(Peer(n), kind) = {Next1(n)} /\ Announced(Peer(n), kind)' = {}
           /\ Announced(n, kind) = {} /\ Announced(n, kind)' = {}
           /\ Next1(n).register \in BOOLEAN /\ Parsed(n)
<1>1. RouteFromString(ID(route)).kind # "invalid"
    BY PlainParsed DEF Settled
<1> QED
    BY <1>1, ReadEmpties DEF Announced

(* Steps that touch neither intents nor their announcements keep paths.      *)
LEMMA IntentPathStays ==
    ASSUME \A q \in Node : IntentPath(q), intent' = intent,
           \A q \in Node : Announced(q, "intent")' = Announced(q, "intent")
    PROVE  \A q \in Node : IntentPath(q)'
BY DEF IntentPath

(* The same for interests and theirs.                                        *)
LEMMA InterestPathStays ==
    ASSUME \A q \in Node : InterestPath(q), interest' = interest, adding' = adding,
           \A q \in Node : Announced(q, "interest")' = Announced(q, "interest")
    PROVE  \A q \in Node : InterestPath(q)'
BY DEF InterestPath, Wants

(* What is on the way and unread stays so when nobody writes or reads.       *)
LEMMA WireStays ==
    ASSUME wire' = wire, \A q \in Node : HeadOnly(q)
    PROVE  \A q \in Node : /\ HeadOnly(q)'
                           /\ Announced(q, "intent")' = Announced(q, "intent")
                           /\ Announced(q, "interest")' = Announced(q, "interest")
BY DEF HeadOnly, Announced, Ahead

(* Every step keeps the intents of patient users connected.                  *)
LEMMA IntentPathStep ==
    ASSUME TypeInv, OpenInv, TypeInv', Settled, Settled', [Next]_vars,
           \A q \in Node : HeadOnly(q) /\ IntentPath(q)
    PROVE  \A q \in Node : HeadOnly(q)' /\ IntentPath(q)'
<1> USE DEF envVars, regVars, dataVars
<1>0. /\ \A w : Open(w).open /\ Open(w).who = w /\ None # Open(w)
      /\ ~None.open /\ Open("local") # Open("remote")
    BY DEF Open, None
<1>1. ASSUME NEW n \in Node, Publish(n)
      PROVE  \A q \in Node : HeadOnly(q)' /\ IntentPath(q)'
  <2> DEFINE m == Announce("intent", TRUE)
  <2>0. m \in Message /\ m.kind = "intent" /\ m.register
      BY MessageTypes DEF Announce
  <2>1. PICK ok \in BOOLEAN :
            /\ WriteAnnounce(n, m, ok)
            /\ intent' = IF ok THEN [intent EXCEPT ![n] = Open("local")] ELSE intent
      BY <1>1 DEF Publish
  <2> HIDE DEF m
  <2>2. UserStep /\ intent[n] = None
      BY <1>1 DEF Publish
  <2>3. /\ Quiet
        /\ Announced(n, "intent") = {} /\ Announced(Peer(n), "intent") = {}
        /\ Announced(n, "intent")' \in {{}, {m}}
        /\ ok => Announced(n, "intent")' # {}
        /\ Announced(Peer(n), "intent")' = {}
      BY <2>0, <2>1, <2>2, PatientAnnounces
  <2>4. intent[Peer(n)] \in {None, Open("remote")}
    <3>1. intent[Peer(n)] # Open("local")
        BY <1>0, <2>2, <2>3, Peers DEF IntentPath
    <3>2. intent[Peer(n)] = None \/ (intent[Peer(n)].open /\ intent[Peer(n)].who # "none")
        BY <2>3, Peers DEF Quiet, OpenInv
    <3>3. intent[Peer(n)] \in Registration
        BY Peers DEF TypeInv
    <3> QED
        BY <3>1, <3>2, <3>3 DEF Registration, Open
  <2>5. /\ intent'[Peer(n)] = intent[Peer(n)]
        /\ intent'[n] = IF ok THEN Open("local") ELSE None
      BY <2>1, <2>2, Peers DEF TypeInv
  <2>6. IntentPath(n)'
      BY <1>0, <2>0, <2>3, <2>4, <2>5 DEF IntentPath
  <2>7. IntentPath(Peer(n))'
    <3>1. intent'[Peer(n)] # Open("local")
        BY <1>0, <2>4, <2>5
    <3> QED
        BY <2>3, <3>1 DEF IntentPath
  <2> QED
      BY <1>1, <2>6, <2>7, Peers, UserAnnounces, OthersAnnounce
<1>2. ASSUME NEW n \in Node, CloseIntent(n)
      PROVE  \A q \in Node : HeadOnly(q)' /\ IntentPath(q)'
  <2> DEFINE m == Announce("intent", FALSE)
  <2>0. m \in Message /\ m.kind = "intent" /\ ~m.register
      BY MessageTypes DEF Announce
  <2>1. PICK ok \in BOOLEAN : WriteAnnounce(n, m, ok)
      BY <1>2 DEF CloseIntent
  <2> HIDE DEF m
  <2>2. UserStep /\ intent[n] = Open("local") /\ intent' = [intent EXCEPT ![n].open = FALSE]
      BY <1>2 DEF CloseIntent
  <2>3. /\ Announced(n, "intent") = {} /\ Announced(Peer(n), "intent") = {}
        /\ Announced(n, "intent")' \in {{}, {m}}
        /\ Announced(Peer(n), "intent")' = {}
      BY <2>0, <2>1, <2>2, PatientAnnounces
  <2>4. intent'[Peer(n)] = intent[Peer(n)] /\ intent'[n] # Open("local")
    <3>1. intent'[n] = [Open("local") EXCEPT !.open = FALSE]
        BY <2>2 DEF TypeInv
    <3>2. ~[Open("local") EXCEPT !.open = FALSE].open
        BY DEF Open
    <3>3. intent'[n] # Open("local")
        BY <1>0, <3>1, <3>2
    <3> QED
        BY <2>2, <3>3, Peers DEF TypeInv
  <2>5. intent[Peer(n)] # Open("local")
      BY <1>0, <2>2, <2>3, Peers DEF IntentPath
  <2>6. IntentPath(n)' /\ IntentPath(Peer(n))'
      BY <2>0, <2>3, <2>4, <2>5 DEF IntentPath
  <2> QED
      BY <1>2, <2>6, Peers, OthersAnnounce
<1>3. ASSUME NEW n \in Node, HandleIntent(n)
      PROVE  \A q \in Node : HeadOnly(q)' /\ IntentPath(q)'
  <2> DEFINE p == Peer(n)
  <2>1. Reads(n, "intent")
      BY <1>3 DEF HandleIntent
  <2>2. /\ Announced(p, "intent") = {Next1(n)} /\ Announced(p, "intent")' = {}
        /\ Announced(n, "intent") = {} /\ Announced(n, "intent")' = {}
        /\ Next1(n).register \in BOOLEAN /\ Parsed(n)
      BY <2>1, ReaderFinds
  <2>3. /\ p \in Node /\ p # n /\ Peer(p) = n
        /\ intent'[p] = intent[p]
        /\ intent'[n] = IF Next1(n).register THEN Register(intent[n]) ELSE Unregister(intent[n])
      BY <1>3, <2>2, Peers DEF HandleIntent, TypeInv
  <2> HIDE DEF p
  <2>4. IntentPath(p)'
    <3>1. CASE Next1(n).register
      <4>1. intent[n] \in {None, Open("remote")}
          BY <2>2, <2>3, <3>1 DEF IntentPath
      <4>2. intent'[n] = Open("remote")
          BY <2>3, <3>1, <4>1 DEF Register
      <4> QED
          BY <2>2, <2>3, <4>2 DEF IntentPath
    <3>2. CASE ~Next1(n).register
      <4>1. intent'[p] # Open("local")
          BY <2>2, <2>3, <3>2 DEF IntentPath
      <4> QED
          BY <2>2, <4>1 DEF IntentPath
    <3> QED
        BY <3>1, <3>2
  <2>5. IntentPath(n)'
    <3>1. intent'[n] = Open("local") => intent[n] = Open("local")
      <4>1. ~Unregister(Open("remote")).open
          BY DEF Unregister, Open
      <4> QED
          BY <1>0, <2>3, <4>1 DEF Register, Unregister
    <3>2. p = Peer(n)
        BY DEF p
    <3> QED
        BY <2>2, <2>3, <3>1, <3>2 DEF IntentPath
  <2> QED
      BY <1>3, <2>3, <2>4, <2>5, Peers, OthersAnnounce
<1>4. ASSUME NEW n \in Node, Subscribe(n) \/ CloseInterest(n) \/ HandleInterest(n)
      PROVE  \A q \in Node : HeadOnly(q)' /\ IntentPath(q)'
  <2>1. intent' = intent
      BY <1>4 DEF Subscribe, CloseInterest, HandleInterest
  <2> QED
      BY <1>4, <2>1, OthersAnnounce, IntentPathStays
<1>5. ASSUME NEW n \in Node, ForwardWrite(n) \/ StrayWrite(n) \/ HandleMessage(n)
      PROVE  \A q \in Node : HeadOnly(q)' /\ IntentPath(q)'
  <2>1. intent' = intent
      BY <1>5 DEF ForwardWrite, StrayWrite, HandleMessage
  <2> QED
      BY <1>5, <2>1, OthersAnnounce, IntentPathStays
<1>6. ASSUME NEW n \in Node, RemoveIntent(n)
      PROVE  \A q \in Node : HeadOnly(q)' /\ IntentPath(q)'
  <2>1. wire' = wire /\ intent' = [intent EXCEPT ![n] = None] /\ ~intent[n].open
      BY <1>6 DEF RemoveIntent
  <2>2. /\ intent'[n] = None /\ intent[n] # Open("remote") /\ intent[n] # Open("local")
        /\ intent'[Peer(n)] = intent[Peer(n)]
      BY <1>0, <2>1, Peers DEF TypeInv
  <2>3. IntentPath(n)' /\ IntentPath(Peer(n))'
      BY <1>0, <2>1, <2>2, WireStays, Peers DEF IntentPath
  <2> QED
      BY <2>1, <2>3, WireStays, Peers
<1>7. ASSUME UNCHANGED <<intent, wire>>
      PROVE  \A q \in Node : HeadOnly(q)' /\ IntentPath(q)'
    BY <1>7, WireStays, IntentPathStays
<1>8. ASSUME NEW n \in Node,
             \/ Send(n) \/ RemoveInterest(n) \/ DelRoute(n) \/ AddInterest(n) \/ Receive(n)
             \/ ForwardTake(n)
      PROVE  UNCHANGED <<intent, wire>>
    BY <1>8 DEF Send, RemoveInterest, DelRoute, AddInterest, Receive, ForwardTake
<1>9. UNCHANGED vars => UNCHANGED <<intent, wire>>
    BY DEF vars
<1> QED
    BY <1>1, <1>2, <1>3, <1>4, <1>5, <1>6, <1>7, <1>8, <1>9, SettledBefore
    DEF Next, UserNext, HookNext, DataNext, HandlerNext

(* What is open has an owner; a registration of a quiet endpoint is none, or *)
(* open.                                                                     *)
LEMMA QuietOpen ==
    ASSUME TypeInv, OpenInv, Quiet, NEW n \in Node, interest[n] # Open("local")
    PROVE  interest[n] \in {None, Open("remote")} /\ ~adding[n] /\ delHook[n] = 0
<1>1. interest[n] = None \/ (interest[n].open /\ interest[n].who # "none")
    BY DEF Quiet, OpenInv
<1>2. interest[n] \in Registration
    BY DEF TypeInv
<1>3. interest[n] \in {None, Open("remote")}
    BY <1>1, <1>2 DEF Registration, Open
<1> QED
    BY <1>3 DEF Quiet

(* Every step keeps the interests of patient users connected.                *)
LEMMA InterestPathStep ==
    ASSUME TypeInv, OpenInv, TypeInv', Settled, Settled', [Next]_vars,
           \A q \in Node : HeadOnly(q) /\ InterestPath(q)
    PROVE  \A q \in Node : InterestPath(q)'
<1> USE DEF envVars, regVars, dataVars
<1>0. /\ \A w : Open(w).open /\ Open(w).who = w /\ None # Open(w)
      /\ ~None.open /\ Open("local") # Open("remote")
    BY DEF Open, None
<1>1. ASSUME NEW n \in Node, Subscribe(n)
      PROVE  \A q \in Node : InterestPath(q)'
  <2> DEFINE m == Announce("interest", TRUE)
  <2>0. m \in Message /\ m.kind = "interest" /\ m.register
      BY MessageTypes DEF Announce
  <2>1. PICK ok \in BOOLEAN : WriteAnnounce(n, m, ok) /\ adding' = [adding EXCEPT ![n] = ok]
      BY <1>1 DEF Subscribe
  <2> HIDE DEF m
  <2>2. UserStep /\ interest[n] = None /\ interest' = interest
      BY <1>1 DEF Subscribe
  <2>3. /\ Quiet
        /\ Announced(n, "interest") = {} /\ Announced(Peer(n), "interest") = {}
        /\ Announced(n, "interest")' \in {{}, {m}}
        /\ ok => Announced(n, "interest")' # {}
        /\ Announced(Peer(n), "interest")' = {}
      BY <2>0, <2>1, <2>2, PatientAnnounces
  <2>4. ~Wants(Peer(n))
      BY <1>0, <2>2, <2>3, Peers DEF InterestPath
  <2>5. interest[Peer(n)] \in {None, Open("remote")} /\ ~adding[Peer(n)]
      BY <2>3, <2>4, Peers, QuietOpen DEF Wants
  <2>6. ~adding'[Peer(n)] /\ (adding'[n] <=> ok)
      BY <2>1, <2>5, Peers DEF TypeInv
  <2>7. InterestPath(n)'
    <3>1. Wants(n)' => ok
        BY <1>0, <2>2, <2>6 DEF Wants
    <3> QED
        BY <2>0, <2>2, <2>3, <2>5, <2>6, <3>1 DEF InterestPath
  <2>8. InterestPath(Peer(n))'
    <3>1. ~Wants(Peer(n))'
        BY <2>2, <2>4, <2>6 DEF Wants
    <3> QED
        BY <2>3, <3>1 DEF InterestPath
  <2> QED
      BY <2>7, <2>8, Peers
<1>2. ASSUME NEW n \in Node, CloseInterest(n)
      PROVE  \A q \in Node : InterestPath(q)'
  <2> DEFINE m == Announce("interest", FALSE)
  <2>0. m \in Message /\ m.kind = "interest" /\ ~m.register
      BY MessageTypes DEF Announce
  <2>1. PICK ok \in BOOLEAN : WriteAnnounce(n, m, ok)
      BY <1>2 DEF CloseInterest
  <2> HIDE DEF m
  <2>2. UserStep /\ interest[n] = Open("local") /\ ShutInterest(n) /\ adding' = adding
      BY <1>2 DEF CloseInterest
  <2>3. /\ Announced(n, "interest") = {} /\ Announced(Peer(n), "interest") = {}
        /\ Announced(n, "interest")' \in {{}, {m}}
        /\ Announced(Peer(n), "interest")' = {}
      BY <2>0, <2>1, <2>2, PatientAnnounces
  <2>4. ~Wants(n)'
    <3>1. interest'[n] # Open("local")
        BY <1>0, <2>2, ShutOpen
    <3>2. ~adding[n]
        BY <1>0, <2>2 DEF OpenInv
    <3> QED
        BY <2>2, <3>1, <3>2 DEF Wants
  <2>5. ~Wants(Peer(n))'
    <3>1. ~Wants(Peer(n))
        BY <1>0, <2>2, <2>3, Peers DEF InterestPath
    <3>2. interest'[Peer(n)] = interest[Peer(n)]
        BY <2>2, ShutOpen, Peers
    <3> QED
        BY <2>2, <3>1, <3>2 DEF Wants
  <2>6. InterestPath(n)' /\ InterestPath(Peer(n))'
      BY <2>0, <2>3, <2>4, <2>5 DEF InterestPath
  <2> QED
      BY <2>6, Peers
<1>3. ASSUME NEW n \in Node, HandleInterest(n)
      PROVE  \A q \in Node : InterestPath(q)'
  <2> DEFINE p == Peer(n)
  <2>1. Reads(n, "interest") /\ ~adding[n] /\ adding' = adding
      BY <1>3 DEF HandleInterest
  <2>2. /\ Announced(p, "interest") = {Next1(n)} /\ Announced(p, "interest")' = {}
        /\ Announced(n, "interest") = {} /\ Announced(n, "interest")' = {}
        /\ Next1(n).register \in BOOLEAN /\ Parsed(n)
      BY <2>1, ReaderFinds
  <2>3. p \in Node /\ p # n /\ Peer(p) = n
      BY Peers
  <2>4. CASE ~Next1(n).register /\ interest[n] = Open("remote")
    <3>1. ShutInterest(n)
        BY <1>3, <2>2, <2>4 DEF HandleInterest
    <3>2. interest'[n] # Open("local") /\ interest'[p] = interest[p]
        BY <1>0, <2>3, <3>1, ShutOpen
    <3>3. ~Wants(n)'
        BY <2>1, <3>2 DEF Wants
    <3>4. ~Wants(p)'
      <4>1. ~Wants(p)
          BY <2>2, <2>3, <2>4 DEF InterestPath
      <4> QED
          BY <2>1, <3>2, <4>1 DEF Wants
    <3>5. InterestPath(n)' /\ InterestPath(p)'
        BY <2>2, <3>3, <3>4 DEF InterestPath
    <3> QED
        BY <2>3, <3>5, Peers
  <2>5. CASE ~(~Next1(n).register /\ interest[n] = Open("remote"))
    <3>1. interest' = IF Next1(n).register THEN [interest EXCEPT ![n] = Register(@)] ELSE interest
        BY <1>3, <2>2, <2>5 DEF HandleInterest
    <3>2. /\ interest'[p] = interest[p]
          /\ interest'[n] = IF Next1(n).register THEN Register(interest[n]) ELSE interest[n]
        BY <2>3, <3>1 DEF TypeInv
    <3> HIDE DEF p
    <3>3. InterestPath(p)'
      <4>1. CASE Next1(n).register
        <5>1. interest[n] \in {None, Open("remote")}
            BY <2>2, <2>3, <4>1 DEF InterestPath
        <5>2. interest'[n] = Open("remote")
            BY <3>2, <4>1, <5>1 DEF Register
        <5> QED
            BY <2>2, <2>3, <5>2 DEF InterestPath
      <4>2. CASE ~Next1(n).register
        <5>1. ~Wants(p)
            BY <2>2, <2>3, <4>2 DEF InterestPath
        <5>2. ~Wants(p)'
            BY <2>1, <3>2, <5>1 DEF Wants
        <5> QED
            BY <2>2, <5>2 DEF InterestPath
      <4> QED
          BY <4>1, <4>2
    <3>4. InterestPath(n)'
      <4>1. interest'[n] = Open("local") => interest[n] = Open("local")
          BY <1>0, <3>2 DEF Register
      <4>2. Wants(n)' => Wants(n)
          BY <2>1, <4>1 DEF Wants
      <4>3. p = Peer(n)
          BY DEF p
      <4> QED
          BY <2>2, <2>3, <3>2, <4>2, <4>3 DEF InterestPath
    <3> QED
        BY <2>3, <3>3, <3>4, Peers DEF p
  <2> QED
      BY <2>4, <2>5, Peers
<1>4. ASSUME NEW n \in Node, AddInterest(n)
      PROVE  \A q \in Node : InterestPath(q)'
  <2>1. /\ adding[n] /\ wire' = wire /\ adding' = [adding EXCEPT ![n] = FALSE]
        /\ interest' = [interest EXCEPT ![n] = [who |-> "local", open |-> up[n]]]
      BY <1>4 DEF AddInterest
  <2>2. interest[n] = None /\ up[n] = TRUE
      BY <2>1 DEF OpenInv, Settled, TypeInv
  <2>3. /\ interest'[n] = Open("local") /\ ~adding'[n]
        /\ interest'[Peer(n)] = interest[Peer(n)] /\ (adding'[Peer(n)] <=> adding[Peer(n)])
      BY <2>1, <2>2, Peers DEF TypeInv, Open
  <2>4. InterestPath(n)'
    <3>1. Wants(n) /\ Wants(n)'
        BY <2>1, <2>3 DEF Wants
    <3> QED
        BY <2>1, <2>3, <3>1, WireStays DEF InterestPath
  <2>5. InterestPath(Peer(n))'
    <3>1. (Wants(Peer(n))' <=> Wants(Peer(n)))
        BY <2>3 DEF Wants
    <3>2. \A a \in Announced(Peer(n), "interest") : ~a.register
        BY <2>1, Peers DEF InterestPath
    <3>3. interest[n] # Open("remote")
        BY <1>0, <2>2
    <3>4. Wants(Peer(n)) => Announced(Peer(n), "interest") # {}
        BY <3>3, Peers DEF InterestPath
    <3>5. \A a \in Announced(Peer(n), "interest") : ~Wants(Peer(n))
        BY <3>2, Peers DEF InterestPath
    <3>6. Announced(Peer(n), "interest")' = Announced(Peer(n), "interest")
        BY <2>1, WireStays, Peers
    <3> QED
        BY <3>1, <3>2, <3>4, <3>5, <3>6 DEF InterestPath
  <2> QED
      BY <2>4, <2>5, Peers
<1>5. ASSUME NEW n \in Node, RemoveInterest(n)
      PROVE  \A q \in Node : InterestPath(q)'
  <2>1. /\ wire' = wire /\ adding' = adding /\ ~adding[n] /\ ~interest[n].open
        /\ interest' = [interest EXCEPT ![n] = None]
      BY <1>5 DEF RemoveInterest
  <2>2. /\ interest'[n] = None /\ interest'[Peer(n)] = interest[Peer(n)]
        /\ interest[n] # Open("remote") /\ ~Wants(n)'
      BY <1>0, <2>1, Peers DEF TypeInv, Wants
  <2>3. Wants(Peer(n))' = Wants(Peer(n))
      BY <2>1, <2>2 DEF Wants
  <2>4. InterestPath(n)' /\ InterestPath(Peer(n))'
      BY <2>1, <2>2, <2>3, WireStays, Peers DEF InterestPath
  <2> QED
      BY <2>4, Peers
<1>6. ASSUME NEW n \in Node,
             \/ Publish(n) \/ CloseIntent(n) \/ HandleIntent(n)
             \/ ForwardWrite(n) \/ StrayWrite(n) \/ HandleMessage(n)
      PROVE  \A q \in Node : InterestPath(q)'
  <2>1. interest' = interest /\ adding' = adding
      BY <1>6 DEF Publish, CloseIntent, HandleIntent, ForwardWrite, StrayWrite, HandleMessage
  <2> QED
      BY <1>6, <2>1, OthersAnnounce, InterestPathStays
<1>7. ASSUME UNCHANGED <<interest, adding, wire>>
      PROVE  \A q \in Node : InterestPath(q)'
    BY <1>7, WireStays, InterestPathStays
<1>8. ASSUME NEW n \in Node,
             Send(n) \/ RemoveIntent(n) \/ DelRoute(n) \/ Receive(n) \/ ForwardTake(n)
      PROVE  UNCHANGED <<interest, adding, wire>>
    BY <1>8 DEF Send, RemoveIntent, DelRoute, Receive, ForwardTake
<1>9. UNCHANGED vars => UNCHANGED <<interest, adding, wire>>
    BY DEF vars
<1> QED
    BY <1>1, <1>2, <1>3, <1>4, <1>5, <1>6, <1>7, <1>8, <1>9, SettledBefore
    DEF Next, UserNext, HookNext, DataNext, HandlerNext

(* Every step keeps the route of a patient user's interest decodable.        *)
LEMMA DecodePathStep ==
    ASSUME TypeInv, OpenInv, Settled, Settled', [Next]_vars,
           delHook \in [Node -> Nat], decodes \in [Node -> BOOLEAN],
           \A q \in Node : DecodePath(q)
    PROVE  \A q \in Node : DecodePath(q)'
<1> USE DEF envVars, regVars, dataVars
<1>0. /\ \A w : Open(w).open /\ None # Open(w)
      /\ ~None.open /\ Open("local") # Open("remote")
    BY DEF Open, None
<1>1. ASSUME NEW n \in Node, Subscribe(n)
      PROVE  \A q \in Node : DecodePath(q)'
  <2>1. /\ UNCHANGED <<interest, delHook, decodes>>
        /\ UserStep /\ \A q \in Node \ {n} : adding'[q] = adding[q]
      BY <1>1 DEF Subscribe, TypeInv
  <2>2. Quiet
      BY <2>1 DEF UserStep, Settled
  <2>3. \A q \in Node : delHook[q] = 0
      BY <2>2 DEF Quiet
  <2> QED
      BY <2>1, <2>3 DEF DecodePath, Wants
<1>2. ASSUME NEW n \in Node, CloseInterest(n)
      PROVE  \A q \in Node : DecodePath(q)'
  <2>1. /\ ShutInterest(n) /\ adding' = adding /\ decodes' = decodes
        /\ interest[n] = Open("local")
      BY <1>2 DEF CloseInterest
  <2>2. interest'[n] # Open("local") /\ ~adding[n]
      BY <1>0, <2>1, ShutOpen DEF OpenInv
  <2>3. \A q \in Node \ {n} : interest'[q] = interest[q] /\ delHook'[q] = delHook[q]
      BY <2>1, ShutOpen DEF ShutInterest
  <2> QED
      BY <2>1, <2>2, <2>3 DEF DecodePath, Wants
<1>3. ASSUME NEW n \in Node, HandleInterest(n)
      PROVE  \A q \in Node : DecodePath(q)'
  <2>1. adding' = adding /\ decodes' = decodes
      BY <1>3 DEF HandleInterest
  <2>2. /\ delHook' = delHook
        /\ \A q \in Node : interest'[q] = Open("local") => interest[q] = Open("local")
    <3>1. CASE ShutInterest(n) /\ interest[n] = Open("remote")
        BY <1>0, <3>1, ShutOpen DEF ShutInterest
    <3>2. CASE ~(ShutInterest(n) /\ interest[n] = Open("remote"))
      <4>1. /\ delHook' = delHook
            /\ interest' = interest \/ interest' = [interest EXCEPT ![n] = Register(interest[n])]
          BY <1>3, <3>2 DEF HandleInterest
      <4> QED
          BY <1>0, <4>1 DEF Register, TypeInv
    <3> QED
        BY <3>1, <3>2
  <2> QED
      BY <2>1, <2>2 DEF DecodePath, Wants
<1>4. ASSUME NEW n \in Node, AddInterest(n)
      PROVE  \A q \in Node : DecodePath(q)'
  <2>1. /\ adding[n] /\ delHook' = delHook /\ decodes' = [decodes EXCEPT ![n] = TRUE]
        /\ \A q \in Node \ {n} : interest'[q] = interest[q] /\ adding'[q] = adding[q]
      BY <1>4 DEF AddInterest, Settled, TypeInv
  <2>2. delHook[n] = 0 /\ decodes'[n] = TRUE /\ \A q \in Node \ {n} : decodes'[q] = decodes[q]
      BY <2>1 DEF DecodePath, Wants
  <2> QED
      BY <2>1, <2>2 DEF DecodePath, Wants
<1>5. ASSUME NEW n \in Node, DelRoute(n)
      PROVE  \A q \in Node : DecodePath(q)'
  <2>1. /\ delHook[n] > 0 /\ UNCHANGED <<interest, adding>>
        /\ \A q \in Node \ {n} : delHook'[q] = delHook[q] /\ decodes'[q] = decodes[q]
      BY <1>5 DEF DelRoute
  <2>2. ~Wants(n)
      BY <2>1 DEF DecodePath
  <2> QED
      BY <2>1, <2>2 DEF DecodePath, Wants
<1>6. ASSUME NEW n \in Node, RemoveInterest(n)
      PROVE  \A q \in Node : DecodePath(q)'
  <2>1. UNCHANGED <<adding, delHook, decodes>> /\ interest' = [interest EXCEPT ![n] = None]
      BY <1>6 DEF RemoveInterest
  <2> QED
      BY <1>0, <2>1 DEF DecodePath, Wants, TypeInv
<1>7. ASSUME UNCHANGED <<interest, adding, delHook, decodes>>
      PROVE  \A q \in Node : DecodePath(q)'
    BY <1>7 DEF DecodePath, Wants
<1>8. ASSUME NEW n \in Node,
             \/ Publish(n) \/ CloseIntent(n) \/ Send(n) \/ RemoveIntent(n) \/ Receive(n)
             \/ ForwardTake(n) \/ ForwardWrite(n) \/ StrayWrite(n)
             \/ HandleIntent(n) \/ HandleMessage(n)
      PROVE  UNCHANGED <<interest, adding, delHook, decodes>>
    BY <1>8 DEF Publish, CloseIntent, Send, RemoveIntent, Receive, ForwardTake, ForwardWrite,
        StrayWrite, HandleIntent, HandleMessage
<1>9. UNCHANGED vars => UNCHANGED <<interest, adding, delHook, decodes>>
    BY DEF vars
<1> QED
    BY <1>1, <1>2, <1>3, <1>4, <1>5, <1>6, <1>7, <1>8, <1>9, SettledBefore
    DEF Next, UserNext, HookNext, DataNext, HandlerNext

(* Hooks are counted, whatever happens.                                      *)
LEMMA HookType ==
    ASSUME delHook \in [Node -> Nat], decodes \in [Node -> BOOLEAN], [Next]_vars
    PROVE  delHook' \in [Node -> Nat] /\ decodes' \in [Node -> BOOLEAN]
<1> USE DEF envVars, regVars, dataVars
<1>1. ASSUME NEW n \in Node, ShutInterest(n)
      PROVE  delHook' \in [Node -> Nat]
    BY <1>1 DEF ShutInterest
<1>2. ASSUME NEW n \in Node, CloseInterest(n) \/ Close(n) \/ ReadFails(n) \/ ExpireInterest(n)
      PROVE  delHook' \in [Node -> Nat] /\ decodes' = decodes
    BY <1>1, <1>2 DEF CloseInterest, Close, ReadFails, ExpireInterest, Shut
<1>3. ASSUME NEW n \in Node, HandleInterest(n)
      PROVE  delHook' \in [Node -> Nat] /\ decodes' = decodes
    BY <1>1, <1>3 DEF HandleInterest
<1>4. ASSUME NEW n \in Node, AddInterest(n) \/ DelRoute(n) \/ StrayCrash(n)
      PROVE  delHook' \in [Node -> Nat] /\ decodes' \in [Node -> BOOLEAN]
  <2>1. CASE AddInterest(n)
    <3>1. /\ delHook' = delHook \/ delHook' = [delHook EXCEPT ![n] = delHook[n] + 1]
          /\ decodes' = [decodes EXCEPT ![n] = TRUE]
        BY <2>1 DEF AddInterest
    <3>2. delHook[n] + 1 \in Nat
        OBVIOUS
    <3> QED
        BY <3>1, <3>2
  <2>2. CASE DelRoute(n)
    <3>1. delHook[n] - 1 \in Nat
        BY <2>2 DEF DelRoute
    <3> QED
        BY <2>2, <3>1 DEF DelRoute
  <2>3. CASE StrayCrash(n)
      BY <2>3 DEF StrayCrash
  <2> QED
      BY <1>4, <2>1, <2>2, <2>3
<1>5. ASSUME NEW n \in Node,
             \/ Publish(n) \/ Subscribe(n) \/ CloseIntent(n) \/ Send(n) \/ RemoveIntent(n)
             \/ RemoveInterest(n) \/ Receive(n) \/ ForwardTake(n) \/ ForwardWrite(n)
             \/ StrayWrite(n) \/ HandleIntent(n) \/ HandleMessage(n) \/ HandlerEnds(n)
             \/ ExpireIntent(n)
      PROVE  UNCHANGED <<delHook, decodes>>
    BY <1>5 DEF Publish, Subscribe, CloseIntent, Send, RemoveIntent, RemoveInterest, Receive,
        ForwardTake, ForwardWrite, StrayWrite, HandleIntent, HandleMessage, HandlerEnds,
        ExpireIntent
<1>6. Cut \/ UNCHANGED vars => UNCHANGED <<delHook, decodes>>
    BY DEF Cut, vars
<1> QED
    BY <1>2, <1>3, <1>4, <1>5, <1>6 DEF Next, UserNext, HookNext, DataNext, HandlerNext, ExpireNext

(* Every step keeps PathInv.                                                 *)
LEMMA PathStep ==
    ASSUME RemoteInv, RemoteInv', PathInv, [Next]_vars
    PROVE  PathInv'
<1>1. delHook' \in [Node -> Nat] /\ decodes' \in [Node -> BOOLEAN]
    BY HookType DEF PathInv
<1>2. ASSUME Settled'
      PROVE  \A q \in Node : (HeadOnly(q) /\ IntentPath(q) /\ InterestPath(q) /\ DecodePath(q))'
  <2>1. TypeInv /\ OpenInv /\ TypeInv'
      BY DEF RemoteInv
  <2>2. Settled
      BY <1>2, <2>1, SettledBefore
  <2>3. \A q \in Node : HeadOnly(q) /\ IntentPath(q) /\ InterestPath(q) /\ DecodePath(q)
      BY <2>2 DEF PathInv
  <2>4. \A q \in Node : HeadOnly(q)' /\ IntentPath(q)'
      BY <1>2, <2>1, <2>2, <2>3, IntentPathStep
  <2>5. \A q \in Node : InterestPath(q)'
      BY <1>2, <2>1, <2>2, <2>3, InterestPathStep
  <2>6. \A q \in Node : DecodePath(q)'
      BY <1>2, <2>1, <2>2, <2>3, DecodePathStep DEF PathInv
  <2> QED
      BY <2>4, <2>5, <2>6
<1> QED
    BY <1>1, <1>2 DEF PathInv

(* No paths are promised at first.                                           *)
LEMMA InitialPaths == Init => PathInv
<1> SUFFICES ASSUME Init
             PROVE  PathInv
    OBVIOUS
<1>1. \A w : None # Open(w)
    BY DEF None, Open
<1>2. delHook \in [Node -> Nat] /\ decodes \in [Node -> BOOLEAN]
    BY DEF Init
<1>3. ASSUME NEW q \in Node
      PROVE  HeadOnly(q) /\ IntentPath(q) /\ InterestPath(q) /\ DecodePath(q)
  <2>1. /\ wire[q] = <<>> /\ interest[q] = None /\ intent[q] = None /\ ~adding[q]
        /\ delHook[q] = 0
      BY DEF Init
  <2>2. Ahead(q) = {} /\ ~Wants(q)
      BY <1>1, <2>1 DEF Ahead, Wants
  <2> QED
      BY <1>1, <2>1, <2>2 DEF HeadOnly, IntentPath, InterestPath, DecodePath, Announced
<1> QED
    BY <1>2, <1>3 DEF PathInv

(* Users who let a route settle before they use it again are never cut off,  *)
(* whatever announcements fail, as long as nothing expires.                  *)
THEOREM PatientConnect == Spec => []PathExists
<1>1. RemoteInv /\ PathInv => PathExists
  <2> SUFFICES ASSUME RemoteInv, PathInv, "patient" \in use, "ttl" \notin use, Quiet,
                      route.kind = "plain", NEW n \in Node, up[n], up[Peer(n)],
                      intent[n] = Open("local"), interest[Peer(n)] = Open("local")
               PROVE  interest[n] = Open("remote") /\ decodes[Peer(n)]
                      /\ intent[Peer(n)] = Open("remote")
      BY DEF PathExists
  <2>1. ~cut
      BY DEF Quiet, RemoteInv, OpenInv
  <2>2. Settled
      BY <2>1, Peers DEF Settled
  <2>3. \A q \in Node : Announced(q, "intent") = {} /\ Announced(q, "interest") = {}
      BY DEF Quiet, Announced, Ahead
  <2> QED
      BY <2>2, <2>3, Peers DEF PathInv, IntentPath, InterestPath, DecodePath, Wants
<1>2. RemoteInv /\ PathInv /\ [Next]_vars => RemoteInv' /\ PathInv'
    BY RemoteStep, PathStep
<1> QED
    BY <1>1, <1>2, InitialRemote, InitialPaths, PTL DEF Spec
=============================================================================
