-------------------------------- MODULE Mesh --------------------------------
(***************************************************************************)
(* Nodes that connect into a full mesh (endpoint/mesh): the address book   *)
(* of each node, its dialers and monitor, and a Handshaker at each end of  *)
(* every connection.  A peer is identified with the node it names, whose   *)
(* address every other node can dial.                                      *)
(*                                                                         *)
(* A connection is <<dialer, listener, k>>.  end[c][n] is the Handshaker   *)
(* of node n on c: "backlog" before the listener has accepted c, "init"   *)
(* and "wait" are HS_INIT and HS_WAIT, "sharing" and "done" are HS_DONE    *)
(* before and after the peers were shared.  Each handles its messages one  *)
(* after the other, in the connection's order.                             *)
(***************************************************************************)
EXTENDS Naturals, Sequences, FiniteSets

CONSTANTS
    Node,
    Nil,
    MaxAttempts,  \* of an address book entry
    Starts        \* records of the peers each node is configured with (seeds), the
                  \* connections that stand at first (joined) and how much can follow: connections that break (breaks), dials that
                  \* fail (failures), dials of a peer while another connection to
                  \* it is under way, stands or is not over at both ends (redials)

ASSUME SeedsAssumption == \A st \in Starts : \A n \in Node : st.seeds[n] \subseteq Node \ {n}
\* A node is not given up on: see README for what happens otherwise.
ASSUME AttemptsAssumption == MaxAttempts \in Nat /\ \A st \in Starts : st.failures \in 0..MaxAttempts

Conn == {c \in Node \X Node \X {1, 2} : c[1] # c[2]}
Ends(c) == {c[1], c[2]}
Other(c, n) == IF n = c[1] THEN c[2] ELSE c[1]

ASSUME NilAssumption == Nil \notin Conn /\ Nil \notin Node
\* Nobody has been told of a peer yet, so no node stands in two connections.
ASSUME StartsAssumption ==
    \A st \in Starts : /\ st.joined \subseteq Conn
                       /\ \A c, d \in st.joined : c # d => Ends(c) \cap Ends(d) = {}

VARIABLES
    book,       \* book[n][p]: the AddrbookEntry n has for p
    queued,     \* peers in the dialer queue of a node
    dials,      \* dials[n][p]: the dialers of n inside Dial of its entry for p
    retry,      \* peers whose failed dial waits for its backoff
    end, wire,  \* per connection and node: the Handshaker, messages on the way to it
    todo,       \* per connection and node: peers of a list that AddConn has yet to look up
    absent,     \* per connection and node: the peer AddConn has not found and will insert
    hook,       \* per connection: nodes whose entry its close will reset
    budget      \* what can still break, fail and be dialled again

vars == <<book, queued, dials, retry, end, wire, todo, absent, hook, budget>>

Unknown == [known |-> FALSE, outbound |-> FALSE, conn |-> Nil, dialing |-> FALSE,
            failed |-> 0, shared |-> {}]
NewEntry(outbound) == [Unknown EXCEPT !.known = TRUE, !.outbound = outbound]

\* Endpoints are initialised, and the handshakes of the joined connections are over.
Init ==
    /\ queued = [n \in Node |-> {}]
    /\ dials = [n \in Node |-> [p \in Node |-> 0]]
    /\ retry = [n \in Node |-> {}]
    /\ wire = [c \in Conn |-> [n \in Ends(c) |-> <<>>]]
    /\ \E st \in Starts :
        /\ book = [n \in Node |-> [p \in Node |->
                    LET e  == IF p \in st.seeds[n] THEN NewEntry(TRUE) ELSE Unknown
                        cs == {c \in st.joined : Ends(c) = {n, p}}
                    IN IF cs = {} THEN e
                       ELSE [e EXCEPT !.known = TRUE, !.conn = CHOOSE c \in cs : TRUE]]]
        /\ end = [c \in Conn |-> [n \in Ends(c) |-> IF c \in st.joined THEN "done" ELSE "closed"]]
        /\ hook = [c \in Conn |-> IF c \in st.joined THEN Ends(c) ELSE {}]
        /\ budget = [breaks |-> st.breaks, failures |-> st.failures, redials |-> st.redials]
    /\ todo = [c \in Conn |-> [n \in Ends(c) |-> {}]]
    /\ absent = [c \in Conn |-> [n \in Ends(c) |-> Nil]]

IsActive(e) == e.conn # Nil \/ e.dialing
Gone(c, n) == end[c][n] \in {"closed", "aborted"}
\* No handler of n on c is inside AddConn.
Idle(c, n) == absent[c][n] = Nil /\ todo[c][n] = {}
Unused(c) == hook[c] = {} /\ \A n \in Ends(c) : end[c][n] = "closed" /\ Idle(c, n)

Handshake == [kind |-> "handshake", ids |-> {}]
Peers(ids) == [kind |-> "peers", ids |-> ids]

-----------------------------------------------------------------------------
(* The address book and the dialers of a node. *)

\* Every ten seconds; the queue has room for all.
Monitor(n) ==
    LET due == {p \in Node : /\ book[n][p].known /\ book[n][p].outbound
                             /\ ~IsActive(book[n][p])
                             /\ book[n][p].failed <= MaxAttempts}
    IN /\ ~(due \subseteq queued[n])
       /\ queued' = [queued EXCEPT ![n] = @ \cup due]
       /\ UNCHANGED <<book, dials, retry, end, wire, todo, absent, hook, budget>>

\* How often n is on its way to p.
Dialled(n, p) ==
    dials[n][p] + Cardinality({c \in Conn : c[1] = n /\ c[2] = p /\ ~Unused(c)})

Spend(what) == budget[what] > 0 /\ budget' = [budget EXCEPT ![what] = @ - 1]

\* A dialer takes an entry; one that has a connection by now is left alone.  It
\* is all Dial looks at: that n dials p at most twice at a time, the second
\* time from its budget, is a bound of the model.
Dial(n, p) ==
    /\ p \in queued[n]
    /\ queued' = [queued EXCEPT ![n] = @ \ {p}]
    /\ \/ /\ book[n][p].conn # Nil
          /\ book' = [book EXCEPT ![n][p].dialing = FALSE]
          /\ UNCHANGED <<dials, budget>>
       \/ /\ book[n][p].conn = Nil
          /\ \/ Dialled(n, p) = 0 /\ UNCHANGED budget
             \/ Dialled(n, p) = 1 /\ Spend("redials")
          /\ book' = [book EXCEPT ![n][p].dialing = TRUE]
          /\ dials' = [dials EXCEPT ![n][p] = @ + 1]
    /\ UNCHANGED <<retry, end, wire, todo, absent, hook>>

\* A connection whose dialer has its Handshaker, in HS_INIT.
NewHandshaker(n, p) == [m \in {n, p} |-> IF m = n THEN "init" ELSE "backlog"]

\* The operating system has connected the two.
DialSucceeds(n, p) ==
    /\ dials[n][p] > 0
    /\ dials' = [dials EXCEPT ![n][p] = @ - 1]
    /\ book' = [book EXCEPT ![n][p].dialing = FALSE, ![n][p].failed = 0]
    /\ LET c == CHOOSE c \in Conn : c[1] = n /\ c[2] = p /\ Unused(c)
       IN end' = [end EXCEPT ![c] = NewHandshaker(n, p)]
    /\ UNCHANGED <<queued, retry, wire, todo, absent, hook, budget>>

\* Serve takes the connection and onConnect makes a Handshaker in HS_WAIT.
Accept(c) ==
    /\ end[c][c[2]] = "backlog"
    /\ end' = [end EXCEPT ![c][c[2]] = "wait"]
    /\ UNCHANGED <<book, queued, dials, retry, wire, todo, absent, hook, budget>>

DialFails(n, p) ==
    /\ dials[n][p] > 0 /\ Spend("failures")
    /\ dials' = [dials EXCEPT ![n][p] = @ - 1]
    /\ book' = [book EXCEPT ![n][p].dialing = FALSE, ![n][p].failed = @ + 1]
    /\ retry' = IF book'[n][p].failed > MaxAttempts THEN retry ELSE [retry EXCEPT ![n] = @ \cup {p}]
    /\ UNCHANGED <<queued, end, wire, todo, absent, hook>>

Retry(n, p) ==
    /\ p \in retry[n]
    /\ retry' = [retry EXCEPT ![n] = @ \ {p}]
    /\ queued' = [queued EXCEPT ![n] = @ \cup {p}]
    /\ UNCHANGED <<book, dials, end, wire, todo, absent, hook, budget>>

\* The hook of a connection that leaves the book with its entry resets nothing.
Forget(n, c) == IF c = Nil THEN hook ELSE [hook EXCEPT ![c] = @ \ {n}]

\* AddConn for a connection.  An entry that has one keeps it (ErrDuplicate,
\* which no caller looks at); SetConn forgets what was shared before.  The map
\* is written without the mutex of the lookup: when the peer was absent then, the new
\* entry replaces the one that another handler may have inserted since.
AddConn(n, p, outbound, c) ==
    LET new  == absent[c][n] = p \/ ~book[n][p].known
        e    == IF new THEN NewEntry(outbound) ELSE book[n][p]
        kept == IF new THEN Forget(n, book[n][p].conn) ELSE hook
        free == e.conn = Nil
    IN /\ book' = [book EXCEPT ![n][p] = IF free THEN [e EXCEPT !.conn = c, !.shared = {}] ELSE e]
       /\ hook' = IF free THEN [kept EXCEPT ![c] = @ \cup {n}] ELSE kept
       /\ absent' = [absent EXCEPT ![c][n] = Nil]

\* What the entry of p remembers to have been told.
SharedPeers(n, p) == book[n][p].shared
AddShared(e, ids) == [e EXCEPT !.shared = @ \cup ids]
SetSharedPeers(n, p, ids) ==
    book' = IF book[n][p].known THEN [book EXCEPT ![n][p] = AddShared(@, ids)] ELSE book

\* Mutant of ActivePeers: only peers that n itself would dial.
ActivePeersOutbound(n, p) ==
    {q \in Node \ {p} : book[n][q].outbound /\ IsActive(book[n][q])} \ book[n][p].shared

\* ActivePeers: whom n is connected to or dialling, without the peer itself
\* and those it has been told of.
ActivePeers(n, p) ==
    {q \in Node \ {p} : book[n][q].known /\ IsActive(book[n][q])} \ SharedPeers(n, p)

-----------------------------------------------------------------------------
(* The Handshakers. *)

\* What is sent to an end that is gone is lost.
Sent(c, n, m) == IF Gone(c, n) THEN wire[c][n] ELSE Append(wire[c][n], m)
Takes(c, n, kind) == wire[c][n] # <<>> /\ Head(wire[c][n]).kind = kind

\* Handshaker.Init on the side that dialled.
InitHandshake(c) ==
    LET n == c[1]
        p == c[2]
    IN /\ end[c][n] = "init"
       /\ AddConn(n, p, TRUE, c)
       /\ end' = [end EXCEPT ![c][n] = "wait"]
       /\ wire' = [wire EXCEPT ![c][p] = Sent(c, p, Handshake)]
       /\ UNCHANGED <<queued, dials, retry, todo, budget>>

\* The lookup of AddConn finds no entry for the peer that sends a handshake.
LookUp(c, n) ==
    /\ Takes(c, n, "handshake") /\ end[c][n] = "wait"
    /\ absent[c][n] = Nil /\ ~book[n][Other(c, n)].known
    /\ absent' = [absent EXCEPT ![c][n] = Other(c, n)]
    /\ UNCHANGED <<book, queued, dials, retry, end, wire, todo, hook, budget>>

\* Mutant of AnswerHandshake: the peers are sent before the answer.
AnswerHandshakeLast(c, n) ==
    LET p == Other(c, n)
    IN /\ Takes(c, n, "handshake") /\ end[c][n] = "wait"
       /\ absent[c][n] = p \/ book[n][p].known
       /\ AddConn(n, p, FALSE, c)
       /\ end' = [end EXCEPT ![c][n] = "done"]
       /\ wire' = [wire EXCEPT ![c][n] = Tail(@),
                               ![c][p] = Append(Sent(c, p, Peers(ActivePeers(n, p))), Handshake)]
       /\ UNCHANGED <<queued, dials, retry, todo, budget>>

\* handshakeMsg in HS_WAIT: the connection is entered in the book and the
\* handshake answered ...
AnswerHandshake(c, n) ==
    LET p == Other(c, n)
    IN /\ Takes(c, n, "handshake") /\ end[c][n] = "wait"
       /\ absent[c][n] = p \/ book[n][p].known
       /\ AddConn(n, p, FALSE, c)
       /\ end' = [end EXCEPT ![c][n] = "sharing"]
       /\ wire' = [wire EXCEPT ![c][n] = Tail(@), ![c][p] = Sent(c, p, Handshake)]
       /\ UNCHANGED <<queued, dials, retry, todo, budget>>

\* ... also when the connection has gone since the lookup: AddConn does not see it.
EnterGone(c, n) ==
    /\ Gone(c, n) /\ absent[c][n] = Other(c, n)
    /\ AddConn(n, Other(c, n), FALSE, c)
    /\ UNCHANGED <<queued, dials, retry, end, wire, todo, budget>>

\* ... and then the peers are shared.  A write that fails ends the handler: it
\* is the loss of the connection noticed before.
SharePeers(c, n) ==
    LET p   == Other(c, n)
        ids == ActivePeers(n, p)
    IN /\ end[c][n] = "sharing"
       /\ end' = [end EXCEPT ![c][n] = "done"]
       /\ wire' = [wire EXCEPT ![c][p] = Sent(c, p, Peers(ids))]
       /\ SetSharedPeers(n, p, ids)
       /\ UNCHANGED <<queued, dials, retry, todo, absent, hook, budget>>

\* The connection is gone at this end, with what was on the way to it.
Shut(c, n, why) ==
    /\ end' = [end EXCEPT ![c][n] = why]
    /\ wire' = [wire EXCEPT ![c][n] = <<>>]

\* peersMsg; in any state but HS_DONE it closes the connection with
\* ErrForbidden.  A handshake that finds HS_DONE is passed on without effect:
\* the listener handles it together with the peers that follow.
PeersMsg(c, n) ==
    /\ \E k \in DOMAIN wire[c][n] :
        /\ wire[c][n][k].kind = "peers"
        /\ \A j \in 1..(k - 1) : wire[c][n][j].kind = "handshake"
        /\ \/ /\ end[c][n] = "done" /\ Idle(c, n)
              /\ todo' = [todo EXCEPT ![c][n] = wire[c][n][k].ids \cap (Node \ {n})]
              /\ wire' = [wire EXCEPT ![c][n] = SubSeq(@, k + 1, Len(@))]
              /\ UNCHANGED end
           \/ /\ end[c][n] \in {"init", "wait"} /\ k = 1
              /\ Shut(c, n, "aborted") /\ UNCHANGED todo
    /\ UNCHANGED <<book, queued, dials, retry, absent, hook, budget>>

\* AddConn without a connection, for one id of a list after the other: the lookup ...
LookUpPeer(c, n) ==
    /\ absent[c][n] = Nil
    /\ \E p \in todo[c][n] :
        /\ todo' = [todo EXCEPT ![c][n] = @ \ {p}]
        /\ absent' = IF book[n][p].known THEN absent ELSE [absent EXCEPT ![c][n] = p]
    /\ UNCHANGED <<book, queued, dials, retry, end, wire, hook, budget>>

\* Mutant of Learned: a learned peer is not one to dial.
LearnedInbound == NewEntry(FALSE)
Learned == NewEntry(TRUE)

\* ... and the write of the map, over what may have been inserted since.
InsertPeer(c, n) ==
    LET p == absent[c][n]
    IN /\ p \notin {Nil, Other(c, n)}
       /\ book' = [book EXCEPT ![n][p] = Learned]
       /\ hook' = Forget(n, book[n][p].conn)
       /\ absent' = [absent EXCEPT ![c][n] = Nil]
       /\ UNCHANGED <<queued, dials, retry, end, wire, todo, budget>>

\* A connection that stands at both ends breaks, and n sees it first.
Break(c, n) ==
    /\ Spend("breaks") /\ \A m \in Ends(c) : ~Gone(c, m)
    /\ Shut(c, n, "closed")
    /\ UNCHANGED <<book, queued, dials, retry, todo, absent, hook>>

\* The other end sees it too, before or after it has read what was on the way.
Notice(c, n) ==
    /\ Gone(c, Other(c, n)) /\ ~Gone(c, n)
    /\ Shut(c, n, "closed")
    /\ UNCHANGED <<book, queued, dials, retry, todo, absent, hook, budget>>

\* The hook SetConn has put on the connection resets the entry.
CloseHook(c, n) ==
    /\ n \in hook[c] /\ Gone(c, n)
    /\ hook' = [hook EXCEPT ![c] = @ \ {n}]
    /\ book' = [book EXCEPT ![n][Other(c, n)].conn = Nil, ![n][Other(c, n)].shared = {}]
    /\ UNCHANGED <<queued, dials, retry, end, wire, todo, absent, budget>>

-----------------------------------------------------------------------------

NodeStep(n, p) == Dial(n, p) \/ DialSucceeds(n, p) \/ Retry(n, p)

\* What the reader and the handler of an end do.
EndStep(c, n) ==
    \/ LookUp(c, n) \/ AnswerHandshake(c, n) \/ EnterGone(c, n) \/ SharePeers(c, n)
    \/ PeersMsg(c, n) \/ LookUpPeer(c, n) \/ InsertPeer(c, n)

Next ==
    \/ \E n \in Node : Monitor(n)
    \/ \E n, p \in Node : NodeStep(n, p) \/ DialFails(n, p)
    \/ \E c \in Conn : InitHandshake(c) \/ Accept(c)
    \/ \E c \in Conn : \E n \in Ends(c) :
        EndStep(c, n) \/ Break(c, n) \/ Notice(c, n) \/ CloseHook(c, n)

Spec == Init /\ [][Next]_vars

\* The ticker of the monitor, the dialers, the servers, the backoff timer, the
\* readers of the connections and the close hooks go on, and an end sees in the
\* end that the other is gone; connections need not break.
FairSpec ==
    /\ Spec
    /\ \A n \in Node : WF_vars(Monitor(n))
    /\ \A n, p \in Node : WF_vars(NodeStep(n, p))
    /\ \A c \in Conn : WF_vars(InitHandshake(c)) /\ WF_vars(Accept(c))
    /\ \A c \in Conn : \A n \in Ends(c) :
        WF_vars(EndStep(c, n)) /\ WF_vars(Notice(c, n)) /\ WF_vars(CloseHook(c, n))

-----------------------------------------------------------------------------

\* The connection that stands in the book of n for p, with its handshake over.
Joined(n, p) == book[n][p].conn # Nil /\ end[book[n][p].conn][n] = "done"

\* Of two peers that have finished their handshake with a node, at least one
\* was told of the other (handshakeMsg enters the connection in the book
\* before it asks for the active peers): no order of the two handshakes makes
\* each miss the other.
OneIsTold ==
    \A n, p, q \in Node :
        p # q /\ Joined(n, p) /\ Joined(n, q)
            => q \in book[n][p].shared \/ p \in book[n][q].shared

\* Between nodes that keep to the handshake nobody closes a connection with
\* ErrForbidden, whoever dials whom and however often (peersMsg): the list of
\* peers never overtakes the answer to the handshake.
HonestNeverAborts == \A c \in Conn : \A n \in Ends(c) : end[c][n] # "aborted"

\* "Mesh router transport connects nodes into a full mesh": from one seed every
\* two nodes end up with a connection whose handshake is over at both ends
\* (monitor, Dial, peersMsg), also when a dial fails, when a peer is dialled twice
\* and when AddConn loses an entry.  Stated for connections that do not break:
\* one that does can keep two nodes apart, since the end that has not seen it yet
\* refuses the next connection (SetConn) and its late hook empties the entry.
MeshForms ==
    budget.breaks = 0 => <>[](\A n, p \in Node : n # p =>
            \E c \in Conn : Ends(c) = {n, p} /\ \A m \in Ends(c) : end[c][m] = "done")
=============================================================================
