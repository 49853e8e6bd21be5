------------------------------- MODULE Remote -------------------------------
(***************************************************************************)
(* Two remote endpoints (endpoint/remote) joined by one connection, for    *)
(* one route.  Each keeps a Linker; what the Linker promises (module       *)
(* Linker) is taken for granted here: a registry with at most one intent   *)
(* and one interest for the route, linked while both are open.             *)
(*                                                                         *)
(* A registration is [who, open]: who is "none", "local" (made by a user   *)
(* and announced to the peer) or "remote" (made for the peer).  A closed   *)
(* registration stays in the registry until the Linker's hook removes it.  *)
(* wire[n] holds what n has written and its peer has not read, in order.   *)
(* A data message is the node whose user sent it.                          *)
(***************************************************************************)
EXTENDS Naturals, Naming

CONSTANTS
    Node,       \* the two endpoints
    Nil,
    Routes,     \* routes of which a behaviour uses one
    Size,       \* buffer size of an interest's channel
    MaxOps,     \* bound on what users and the environment do in a behaviour
    Usage       \* ways of using the endpoints, one of which is followed

ASSUME SizeAssumption == Size \in Nat \ {0}
ASSUME NodeAssumption == Nil \notin Node /\ \E a, b \in Node : a # b /\ Node = {a, b}
\* A plain route is made by NewRoute; the name of a message type has no "@".
ASSUME RouteAssumption ==
    \A r \in Routes : r.kind = "plain" =>
        r.path \in Seq(Symbols(r.path)) /\ r.type # At /\ r = NewRoute(r.path, r.type)
\* A hash contains none of the separators.
ASSUME HashAssumption ==
    \A r \in Routes : r.kind = "hashed" => Symbols(ID(r)) \cap {At, Mark} = {}
ASSUME UsageAssumption ==
    Usage \subseteq SUBSET {"both", "patient", "fail", "ttl", "close", "cut", "send"}

VARIABLES
    use, route, ops,
    up,         \* the endpoint's and the connection's contexts are alive
    handler,    \* messageHandler: "reading", "stuck" in its own Close, "done"
    cut,        \* the connection is broken: nothing written arrives
    odd,        \* what has happened so far of {"failed", "late"}: a failed
                \* announcement, a write by the forwarder of a closed interest
    adding,     \* a Subscribe has announced the interest and not added it yet
    intent, interest,
    decodes,    \* the route is in the decode table of the connection
    delHook,    \* pending DelRoute hooks of closed local interests
    chan,       \* channel of the registered interest
    hand,       \* message a remote interest's forwarder is writing
    stray,      \* what the forwarder of a closed remote interest has before it
    wire

envVars  == <<use, route>>
regVars  == <<intent, interest, adding>>
dataVars == <<chan, hand, stray>>
vars == <<envVars, ops, up, handler, cut, odd, regVars, decodes, delHook, dataVars, wire>>

None == [who |-> "none", open |-> FALSE]
Open(w) == [who |-> w, open |-> TRUE]
Peer(n) == CHOOSE m \in Node : m # n

Announce(kind, register) == [kind |-> kind, text |-> ID(route), register |-> register, from |-> Nil]
Data(m) == [kind |-> "message", text |-> ID(route), register |-> FALSE, from |-> m]

Init ==
    /\ use \in Usage
    /\ route \in Routes
    /\ ops = 0
    /\ up = [n \in Node |-> TRUE]
    /\ handler = [n \in Node |-> "reading"]
    /\ cut = FALSE
    /\ odd = {}
    /\ adding = [n \in Node |-> FALSE]
    /\ intent = [n \in Node |-> None]
    /\ interest = [n \in Node |-> None]
    /\ decodes = [n \in Node |-> FALSE]
    /\ delHook = [n \in Node |-> 0]
    /\ chan = [n \in Node |-> <<>>]
    /\ hand = [n \in Node |-> Nil]
    /\ stray = [n \in Node |-> <<>>]
    /\ wire = [n \in Node |-> <<>>]

Quiet ==    \* nothing is under way: no message, no hook, no forwarder
    \A n \in Node :
        /\ wire[n] = <<>> /\ delHook[n] = 0 /\ ~adding[n] /\ hand[n] = Nil /\ stray[n] = <<>>
        /\ intent[n] = None \/ intent[n].open
        /\ interest[n] = None \/ interest[n].open
        /\ up[n] \/ handler[n] # "reading"
        /\ ~up[Peer(n)] \/ cut => handler[n] # "reading"

UserStep ==
    /\ ops < MaxOps
    /\ ops' = ops + 1
    /\ "patient" \in use => Quiet

\* In one direction only, unless both sides publish and subscribe.
Publishers  == IF "both" \in use THEN Node ELSE {CHOOSE n \in Node : TRUE}
Subscribers == IF "both" \in use THEN Node ELSE Node \ Publishers

Linked(n) == intent[n].open /\ interest[n].open /\ ~adding[n]

Written(n, m) == IF cut \/ ~up[Peer(n)] THEN wire ELSE [wire EXCEPT ![n] = Append(@, m)]

\* conn.Write of an announcement.  A write that times out may still be
\* done by the stream's runner.  ok is what the caller is told.
WriteAnnounce(n, m, ok) ==
    /\ ok \/ "fail" \in use \/ cut
    /\ odd' = IF ok THEN odd ELSE odd \cup {"failed"}
    /\ wire' \in IF ok THEN {Written(n, m)} ELSE {wire, Written(n, m)}

-----------------------------------------------------------------------------
(* Users. *)

\* Endpoint.Publish.  An existing registration is returned, or refused with
\* ErrRemoteIntent: nothing changes.  A failed write drops the new intent.
Publish(n) ==
    /\ UserStep
    /\ n \in Publishers /\ up[n] /\ ~adding[n] /\ intent[n] = None
    /\ \E ok \in BOOLEAN :
        /\ WriteAnnounce(n, Announce("intent", TRUE), ok)
        /\ intent' = IF ok THEN [intent EXCEPT ![n] = Open("local")] ELSE intent
    /\ UNCHANGED <<envVars, up, handler, cut, interest, adding, decodes, delHook, dataVars>>

\* Endpoint.Subscribe: wrapLocalInterest announces the interest ...
Subscribe(n) ==
    /\ UserStep
    /\ n \in Subscribers /\ up[n] /\ ~adding[n] /\ interest[n] = None
    /\ \E ok \in BOOLEAN :
        /\ WriteAnnounce(n, Announce("interest", TRUE), ok)
        /\ adding' = [adding EXCEPT ![n] = ok]
    /\ UNCHANGED <<envVars, up, handler, cut, intent, interest, decodes, delHook, dataVars>>

\* ... and onAddInterest makes its messages decodable afterwards.  The
\* Linker's mutex is held all along.
AddInterest(n) ==
    /\ adding[n]
    /\ adding' = [adding EXCEPT ![n] = FALSE]
    /\ interest' = [interest EXCEPT ![n] = [who |-> "local", open |-> up[n]]]
    /\ delHook' = IF up[n] THEN delHook ELSE [delHook EXCEPT ![n] = @ + 1]
    /\ decodes' = [decodes EXCEPT ![n] = TRUE]
    /\ UNCHANGED <<envVars, ops, up, handler, cut, odd, intent, dataVars, wire>>

\* Effects of closing the interest of n: its channel is gone.  The forwarder of
\* a remote interest may still write what it holds and what is buffered, and
\* then finds both the context done and the channel closed, which gives Nil.
ShutInterest(n) ==
    /\ interest' = [interest EXCEPT ![n].open = FALSE]
    /\ delHook' = IF interest[n] = Open("local") THEN [delHook EXCEPT ![n] = @ + 1] ELSE delHook
    /\ chan' = [chan EXCEPT ![n] = <<>>]
    /\ hand' = [hand EXCEPT ![n] = Nil]
    /\ stray' = IF interest[n] # Open("remote") THEN stray
                ELSE [stray EXCEPT ![n] = @ \o (IF hand[n] = Nil THEN <<>> ELSE <<hand[n]>>)
                                            \o chan[n] \o <<Nil>>]

\* LocalIntent.Close, LocalInterest.Close: the peer is told first.
CloseIntent(n) ==
    /\ UserStep
    /\ up[n] /\ intent[n] = Open("local")
    /\ \E ok \in BOOLEAN : WriteAnnounce(n, Announce("intent", FALSE), ok)
    /\ intent' = [intent EXCEPT ![n].open = FALSE]
    /\ UNCHANGED <<envVars, up, handler, cut, interest, adding, decodes, delHook, dataVars>>

CloseInterest(n) ==
    /\ UserStep
    /\ up[n] /\ interest[n] = Open("local")
    /\ \E ok \in BOOLEAN : WriteAnnounce(n, Announce("interest", FALSE), ok)
    /\ ShutInterest(n)
    /\ UNCHANGED <<envVars, up, handler, cut, intent, adding, decodes>>

\* LocalIntent.Send by a user: into the channel of the linked interest.
Send(n) ==
    /\ UserStep
    /\ "send" \in use
    /\ intent[n] = Open("local") /\ Linked(n) /\ Len(chan[n]) < Size
    /\ chan' = [chan EXCEPT ![n] = Append(@, n)]
    /\ UNCHANGED <<envVars, up, handler, cut, odd, regVars, decodes, delHook, hand, stray, wire>>

\* A subscriber takes a message from its interest.
Receive(n) ==
    /\ interest[n] = Open("local") /\ chan[n] # <<>>
    /\ chan' = [chan EXCEPT ![n] = Tail(@)]
    /\ UNCHANGED <<envVars, ops, up, handler, cut, odd, regVars, decodes, delHook, hand, stray, wire>>

-----------------------------------------------------------------------------
(* The hooks of closed registrations, each in a goroutine of its own. *)

\* Mutant of RemoveIntent: the route is no longer decoded without the intent.
RemoveIntentUndecodes(n) ==
    /\ intent[n] # None /\ ~intent[n].open /\ ~adding[n]
    /\ intent' = [intent EXCEPT ![n] = None]
    /\ decodes' = [decodes EXCEPT ![n] = FALSE]
    /\ UNCHANGED <<envVars, ops, up, handler, cut, odd, interest, adding, delHook, dataVars, wire>>

RemoveIntent(n) ==
    /\ intent[n] # None /\ ~intent[n].open /\ ~adding[n]
    /\ intent' = [intent EXCEPT ![n] = None]
    /\ UNCHANGED <<envVars, ops, up, handler, cut, odd, interest, adding, decodes, delHook, dataVars, wire>>

RemoveInterest(n) ==
    /\ interest[n] # None /\ ~interest[n].open /\ ~adding[n]
    /\ interest' = [interest EXCEPT ![n] = None]
    /\ UNCHANGED <<envVars, ops, up, handler, cut, odd, intent, adding, decodes, delHook, dataVars, wire>>

DelRoute(n) ==
    /\ delHook[n] > 0
    /\ delHook' = [delHook EXCEPT ![n] = @ - 1]
    /\ decodes' = [decodes EXCEPT ![n] = FALSE]
    /\ UNCHANGED <<envVars, ops, up, handler, cut, odd, regVars, dataVars, wire>>

-----------------------------------------------------------------------------
(* The goroutine of a RemoteInterest. *)

ForwardTake(n) ==
    /\ interest[n] = Open("remote") /\ hand[n] = Nil /\ chan[n] # <<>>
    /\ hand' = [hand EXCEPT ![n] = Head(chan[n])]
    /\ chan' = [chan EXCEPT ![n] = Tail(@)]
    /\ UNCHANGED <<envVars, ops, up, handler, cut, odd, regVars, decodes, delHook, stray, wire>>

ForwardWrite(n) ==
    /\ hand[n] # Nil
    /\ wire' \in {Written(n, Data(hand[n]))} \cup (IF cut THEN {wire} ELSE {})
    /\ hand' = [hand EXCEPT ![n] = Nil]
    /\ UNCHANGED <<envVars, ops, up, handler, cut, odd, regVars, decodes, delHook, chan, stray>>

\* After the close of its interest the select may still pick the channel: a
\* write with a cancelled context is done or not.  Or it picks the context,
\* and what is left is not written.
StrayWrite(n) ==
    /\ stray[n] # <<>>
    /\ \/ UNCHANGED <<wire, odd>>
       \/ /\ Head(stray[n]) # Nil /\ up[n]
          /\ wire' = Written(n, Data(Head(stray[n]))) /\ odd' = odd \cup {"late"}
    /\ stray' = [stray EXCEPT ![n] = Tail(@)]
    /\ UNCHANGED <<envVars, ops, up, handler, cut, regVars, decodes, delHook, chan, hand>>

\* It picks the closed channel, which it may also when it has never held a
\* message: EncodeMessage of nil panics, and the process of n ends with its side
\* of the connection.
StrayCrash(n) ==
    /\ stray[n] # <<>> /\ Head(stray[n]) = Nil
    /\ up' = [up EXCEPT ![n] = FALSE]
    /\ handler' = [handler EXCEPT ![n] = "done"]
    /\ intent' = [intent EXCEPT ![n] = None]
    /\ interest' = [interest EXCEPT ![n] = None]
    /\ adding' = [adding EXCEPT ![n] = FALSE]
    /\ delHook' = [delHook EXCEPT ![n] = 0]
    /\ chan' = [chan EXCEPT ![n] = <<>>]
    /\ hand' = [hand EXCEPT ![n] = Nil]
    /\ stray' = [stray EXCEPT ![n] = <<>>]
    /\ UNCHANGED <<envVars, ops, cut, odd, decodes, wire>>

\* Mutant of ExpireIntent: an intent that is in use is not expired.
ExpireIntentIdle(n) ==
    /\ "ttl" \in use
    /\ intent[n] = Open("remote") /\ ~Linked(n)
    /\ intent' = [intent EXCEPT ![n].open = FALSE]
    /\ UNCHANGED <<envVars, ops, up, handler, cut, odd, interest, adding, decodes, delHook, dataVars, wire>>

\* The watchdog of a remote registration.  The time to live is the one
\* announced, a minute, and nobody announces again.
ExpireIntent(n) ==
    /\ "ttl" \in use
    /\ intent[n] = Open("remote")
    /\ intent' = [intent EXCEPT ![n].open = FALSE]
    /\ UNCHANGED <<envVars, ops, up, handler, cut, odd, interest, adding, decodes, delHook, dataVars, wire>>

ExpireInterest(n) ==
    /\ "ttl" \in use
    /\ interest[n] = Open("remote")
    /\ ShutInterest(n)
    /\ UNCHANGED <<envVars, ops, up, handler, cut, odd, intent, adding, decodes, wire>>

-----------------------------------------------------------------------------
(* messageHandler: one message at a time. *)

Next1(n) == Head(wire[Peer(n)])

Reads(n, kind) ==
    /\ up[n] /\ handler[n] = "reading" /\ ~cut
    /\ wire[Peer(n)] # <<>>
    /\ Next1(n).kind = kind
    /\ wire' = [wire EXCEPT ![Peer(n)] = Tail(@)]

Parsed(n) == RouteFromString(Next1(n).text).kind # "invalid"

\* Mutants: a registration replaces the one there is; none is given up.
RegisterOver(r)   == Open("remote")
UnregisterKeeps(r) == r

\* What handleRemoteIntent and handleRemoteInterest make of a registration.
Register(r)   == IF r = None THEN Open("remote") ELSE r
Unregister(r) == IF r = Open("remote") THEN [r EXCEPT !.open = FALSE] ELSE r

HandleIntent(n) ==
    /\ Reads(n, "intent") /\ ~adding[n]
    /\ intent' = IF ~Parsed(n) THEN intent
                 ELSE [intent EXCEPT ![n] = IF Next1(n).register THEN Register(@) ELSE Unregister(@)]
    /\ UNCHANGED <<envVars, ops, up, handler, cut, odd, interest, adding, decodes, delHook, dataVars>>

HandleInterest(n) ==
    /\ Reads(n, "interest") /\ ~adding[n]
    /\ IF Parsed(n) /\ ~Next1(n).register /\ interest[n] = Open("remote")
       THEN ShutInterest(n)
       ELSE /\ interest' = IF Parsed(n) /\ Next1(n).register
                           THEN [interest EXCEPT ![n] = Register(@)] ELSE interest
            /\ UNCHANGED <<delHook, dataVars>>
    /\ UNCHANGED <<envVars, ops, up, handler, cut, odd, intent, adding, decodes>>

\* handleMsg: through whatever intent the route has.  A full channel is
\* waited for until the timeout; the message is dropped then.
HandleMessage(n) ==
    /\ Reads(n, "message") /\ ~adding[n] /\ decodes[n]
    /\ chan' = IF Parsed(n) /\ Linked(n) /\ Len(chan[n]) < Size
               THEN [chan EXCEPT ![n] = Append(@, Next1(n).from)] ELSE chan
    /\ UNCHANGED <<envVars, ops, up, handler, cut, odd, regVars, decodes, delHook, hand, stray>>

-----------------------------------------------------------------------------
(* Endpoint.Close: the connection, the contexts, everything registered. *)

\* Mutant of Shut: the intent stays registered.
ShutKeepsIntent(n) ==
    /\ up' = [up EXCEPT ![n] = FALSE]
    /\ UNCHANGED intent
    /\ ShutInterest(n)

Shut(n) ==
    /\ up' = [up EXCEPT ![n] = FALSE]
    /\ intent' = [intent EXCEPT ![n].open = FALSE]
    /\ ShutInterest(n)

\* Read fails: the connection is broken, the peer has closed it, or a
\* message came for a route that is not in the decode table.
ReadFails(n) ==
    /\ up[n] /\ handler[n] = "reading"
    /\ \/ cut
       \/ ~up[Peer(n)] /\ wire[Peer(n)] = <<>>
       \/ wire[Peer(n)] # <<>> /\ Next1(n).kind = "message" /\ ~decodes[n]
    /\ Shut(n)
    /\ handler' = [handler EXCEPT ![n] = "stuck"]    \* Close waits for its caller
    /\ UNCHANGED <<envVars, ops, cut, odd, adding, decodes, wire>>

Close(n) ==
    /\ UserStep
    /\ "close" \in use
    /\ up[n]
    /\ Shut(n)
    /\ UNCHANGED <<envVars, handler, cut, odd, adding, decodes, wire>>

\* The handler finds the endpoint closed: at the top of its loop, or as a
\* failed Read, after which it calls Close as well.
HandlerEnds(n) ==
    /\ ~up[n] /\ handler[n] = "reading"
    /\ \E s \in {"stuck", "done"} : handler' = [handler EXCEPT ![n] = s]
    /\ UNCHANGED <<envVars, ops, up, cut, odd, regVars, decodes, delHook, dataVars, wire>>

\* The connection breaks and what is on the way is lost.
Cut ==
    /\ "cut" \in use /\ ~cut
    /\ cut' = TRUE
    /\ wire' = [n \in Node |-> <<>>]
    /\ UNCHANGED <<envVars, ops, up, handler, odd, regVars, decodes, delHook, dataVars>>

UserNext(n) == \/ Publish(n) \/ Subscribe(n) \/ CloseIntent(n) \/ CloseInterest(n)
               \/ Send(n) \/ Close(n)
HookNext(n) == RemoveIntent(n) \/ RemoveInterest(n) \/ DelRoute(n) \/ AddInterest(n)
DataNext(n) == Receive(n) \/ ForwardTake(n) \/ ForwardWrite(n) \/ StrayWrite(n) \/ StrayCrash(n)
HandlerNext(n) == \/ HandleIntent(n) \/ HandleInterest(n) \/ HandleMessage(n)
                  \/ ReadFails(n) \/ HandlerEnds(n)
ExpireNext(n) == ExpireIntent(n) \/ ExpireInterest(n)

Next == \/ Cut
        \/ \E n \in Node : \/ UserNext(n) \/ HookNext(n) \/ DataNext(n)
                           \/ HandlerNext(n) \/ ExpireNext(n)

Spec == Init /\ [][Next]_vars

\* Goroutines that can run do run and timers fire.  Users, the scheduler of
\* their calls and the network owe nothing.
FairSpec ==
    /\ Spec
    /\ \A n \in Node : /\ WF_vars(RemoveIntent(n)) /\ WF_vars(RemoveInterest(n))
                       /\ WF_vars(DelRoute(n)) /\ WF_vars(AddInterest(n))
                       /\ WF_vars(DataNext(n)) /\ WF_vars(HandlerNext(n))
                       /\ WF_vars(ExpireIntent(n)) /\ WF_vars(ExpireInterest(n))

-----------------------------------------------------------------------------
(* Properties. *)

Owned(n) ==
    /\ intent[n] = Open("remote") => intent[Peer(n)] = Open("local")
    /\ interest[n] = Open("remote") => interest[Peer(n)] = Open("local")

\* While announcements get through, a registration made for the peer does
\* not outlive the peer's own: announcements of both sides may cross, be
\* refused and be repeated, and once all is quiet nobody serves an intent or
\* an interest that its owner has closed (handleRemoteIntent,
\* handleUnregisterIntent and their twins).
NoGhost == Quiet /\ ~cut /\ "failed" \notin odd => \A n \in Node : Owned(n)

\* A node writes to its peer only what its own users have sent: "if both are
\* remote - ignore (relay not supported)" (endpoint/remote/README.md).  No
\* line of the code checks it; it rests on the order of the connection.  Two
\* things break that order: a forwarder that has outlived its interest, and an
\* announcement that failed, after which a node keeps what its peer has given up.
NoRelay ==
    odd = {} =>
    \A n \in Node : \A k \in DOMAIN wire[n] : wire[n][k].kind = "message" => wire[n][k].from = n

\* Users of a plain route who let it settle before they use it again are never
\* cut off (handleRemoteIntent, handleRemoteInterest, DelRoute): between an open
\* intent on one side and an open interest on the other there is a whole path, a
\* remote interest that takes the messages, a decode table that knows the route
\* and a remote intent that delivers them.  A hashed route never gets one: what
\* is announced is ID(), the bare hash, which RouteFromString takes for invalid.
PathExists ==
    "patient" \in use /\ "ttl" \notin use /\ Quiet /\ route.kind = "plain" =>
        \A n \in Node :
            /\ up[n] /\ up[Peer(n)]
            /\ intent[n] = Open("local") /\ interest[Peer(n)] = Open("local")
            => /\ interest[n] = Open("remote") /\ intent[Peer(n)] = Open("remote")
               /\ decodes[Peer(n)]

\* What a failed announcement leaves behind at the peer goes away in the end
\* (the watchdogs of wrapRemoteIntent and wrapRemoteInterest).  Stated for
\* routes on which nothing is sent: every forwarded message restarts the
\* watchdog, so a ghost that is in use stays.
GhostsVanish == "ttl" \in use => <>[](\A n \in Node : Owned(n))

\* "When a peer is disconnected: remove interests and intents"
\* (endpoint/remote/README.md): on both sides, however the connection ended.
DisconnectReleases ==
    \A n \in Node : (cut \/ ~up[n]) ~> (\A m \in Node : intent[m] = None /\ interest[m] = None)

=============================================================================
