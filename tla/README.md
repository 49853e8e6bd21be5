# A TLA+ model of dndm

dndm (decentralised named data messaging) connects publishers and subscribers
of typed, named data inside one process and between processes. A publisher holds
an *intent*, a subscriber an *interest*; both name a *route* (a path and a
message type). Intents and interests of one route that meet in an *endpoint* are
*linked*, and from then on messages go from one to the other through a Go channel.

This directory models the parts of the code that keep state: the linker of a
process and the routers above it, the endpoints that join two processes, the mesh
that joins many, the stream below them and the bus above. Most of the difficulty is
in objects that many goroutines share, whose clean-up runs in *close hooks*. `Base.AddOnClose`
(`endpoint.go`) starts one goroutine per hook, so after a `Close` the hooks of an
object run one by one, in any order, interleaved with everything else in the
process, including the creation of its successor.

## Inventory

| Part | State | Operations | Talks to | What is hard |
|---|---|---|---|---|
| **Linker** `linker.go`, with `LocalIntent`, `LocalInterest`, `Link`, `Base` | maps of intents, interests and links by route; per object a context, a channel, its hooks | AddIntent, AddInterest, RemoveIntent, RemoveInterest, link, unlink, Close; Send, Notify, Link, Close of the objects | called by endpoints; calls back `onAddIntent`, `onAddInterest` | hooks that know a route and not an object, channels closed under a sender, relinking before the old link is severed, teardown without the mutex |
| **IntentRouter** `intent.go` (FanOutIntent, wrappers) | endpoint intents of one route, one notify goroutine each; wrappers given to publishers | AddIntent, RemoveIntent, Wrap, Send, Notify, removeWrapper, Close | created by Router and Container; reads events of Linker's intents | two mutexes, one held while waiting for goroutines that need it |
| **InterestRouter** `interest.go` (FanInInterest, wrappers) | endpoint interests, one receiving goroutine each; wrappers given to subscribers | AddInterest, RemoveInterest, Wrap, routeMsg, removeWrapper, Close | as above; reads messages of Linker's interests | the same, and closed channels that yield nil messages |
| **Container** `container.go` and **Router** `dndm.go` | list of endpoints, routers by route | Add, Remove, Publish, Subscribe, Close; addInterest | own the routers; call the endpoints | partial failure of Publish over several endpoints, close hooks that forget a router by route or remove an endpoint |
| **Caller** `x/bus/caller.go` | pending waiters by nonce, their order, one channel each | Call, CallWithTimeout, HandleReplies, handleResponses, deliver, Close | a Producer and a Consumer of the bus | replies late, duplicated or reordered; timeouts racing delivery |
| **Direct endpoint** `endpoint/direct` | a Linker | Publish, Subscribe, Close | Linker | order of its context and its Linker's at Close |
| **Remote endpoint** `endpoint/remote` | a Linker, in it objects of local users and objects made for the peer, with a watchdog each | Publish, Subscribe, announcements and their handlers, forwarders, Close | its twin, over a network Conn | announcements that cross, a failed write that was done all the same, forwarders that outlive their interest, the loss of the connection |
| **Mesh endpoint** `endpoint/mesh` | a Container, an address book with a connection per entry, handshakers | monitor, dialling with backoff, handshake, sharing of peers, close hooks | Container, remote endpoints, dialers | simultaneous dials, duplicate connections, late hooks that reset an entry, a map written without its mutex |
| **Streams and dialers** `network/...` | two goroutines that own the transport, a decode table | Read and Write with a context, AddRoute, DelRoute, Close | codec | requests given up half way, buffers released under the writer |
| **Codec** `codec` | a pool of buffers | EncodeMessage, ReadMessage, DecodeMessage, Release | stream | buffers used again |
| **Route, Peer** `route.go`, `peer.go` | none | constructors, RouteFromString, String, ID, Equal, HasPrefix | all | two kinds of routes in one text format |
| **Producer, Consumer, Service, Module** `x/bus` | a converting goroutine and its channel; a mutex around waiting for interest | Send, Receive, Handle, Reply, AddInput, AddOutput, Close | Router | waiting with the mutex held, values between two channels at Close |

What makes each part correct:

- *Linker*: a route has at most one open intent and one open interest, and they
  are the registered ones; the link table agrees with both maps; messages stay on
  their route; a matching pair becomes linked; a closed object frees its route;
  nothing panics.
- *Routers*: every publisher and subscriber that stays is served for as long as
  it stays, whoever else leaves; nothing is sent on a closed channel; leaving
  closes one's channel; a router nobody uses is forgotten.
- *Container*: every endpoint takes part in every route it accepts; the router a
  user holds is the one the route finds; removing an endpoint disturbs nobody.
- *Caller*: a reply reaches the call it answers; no call is forgotten; Close
  releases everyone.
- *Remote endpoint*: an object made for the peer does not outlive the peer's own; a
  publisher here and a subscriber there have a whole path between them; a node writes
  only what its own users sent; the end of the connection frees everything.
- *Mesh*: from one seed every two nodes get connected; of two peers of a node, one is
  told of the other; nobody is thrown out who keeps to the protocol.
- *Stream and codec*: the bytes of a write are its own; messages are decoded in order;
  no call blocks another for ever; the goroutines end with the stream, or with the read
  they are blocked in.
- *Route*: parsing undoes printing, and the two kinds are never confused.
- *Bus*: no request is lost or overtaken between interest and handler; one
  notification serves all who wait; a closed part holds nobody back.

## Modules

| Module | Models | Used by |
|---|---|---|
| `Linker` | `linker.go`, `link.go`, the first halves of `intent.go` and `interest.go`, `endpoint.go` hooks | `MCLinker`, `LinkerProofs` |
| `Matching` | the abstract service that a Linker offers to endpoints | `Linker` (INSTANCE) |
| `LinkerProofs` | theorems about `Linker`, that it implements `Matching` among them | |
| `InterestRouter` | `FanInInterest`, `InterestRouter`, `interestWrapper` of `interest.go` | `MCInterestRouter`, `RouterProofs` |
| `IntentRouter` | `FanOutIntent`, `IntentRouter`, `intentWrapper` of `intent.go` | `MCIntentRouter`, `RouterProofs` |
| `RouterProofs` | theorems about `InterestRouter` and `IntentRouter` | |
| `Container` | `container.go`, `dndm.go`, and `endpoint/direct` as they see it | `MCContainer`, `ContainerProofs` |
| `ContainerProofs` | theorems about `Container` | |
| `Naming` | `route.go`, `peer.go`: pure operators | `Remote`, `MCContainer`, `MCRemote`, `RemoteProofs` |
| `Remote` | `endpoint/remote`, both ends | `MCRemote`, `RemoteProofs` |
| `RemoteProofs` | theorems about `Remote` and `Naming` | |
| `Mesh` | `endpoint/mesh`, and Dial and Serve of `network/net` | `MCMesh`, `MeshProofs` |
| `MeshProofs` | theorems about `Mesh` | |
| `Stream` | `network/stream`, `codec` | `MCStream`, `StreamProofs` |
| `StreamProofs` | theorems about `Stream` | |
| `Caller` | `x/bus/caller.go` | `MCCaller`, `BusProofs` |
| `Bus` | `consumer.go`, `producer.go`, `service.go`, `module.go` of `x/bus` | `MCBus`, `BusProofs` |
| `BusProofs` | theorems about `Caller` and `Bus` | |
| `SequenceLemmas` | lemmas about lists without duplicates and about channels | `BusProofs`, `ContainerProofs`, `RouterProofs` |

The `MC` modules add what a cfg cannot write: symmetry sets, constants that are
functions, records or routes, and in `MCRemote` an assumption TLC evaluates
(`TextRoundTrip`, below). How the modules rest on each other: `Container` and the
routers see endpoints whose objects behave as `Linker` shows; `Remote` uses a registry
with `Matching`'s promise and a connection that keeps order, which `Stream` shows of
its decoded messages; `Mesh` stops where a connection gets its remote endpoint; `Bus`
and `Caller` sit on intents and interests of the routers. They are checked one by one,
not composed: each has about a hundred thousand states of its own.

Conventions. In the modules of one process `fault` records what crashed it; once it is
set no action happens (`Up` is a conjunct of every action). In `Remote` a crash takes
one of the two endpoints away. A section of code under a mutex that
cannot block is one action; one that blocks with the mutex held, or that drops it
and goes on with what it read, is several. A `select` is a choice among its ready
cases. Sending on a closed channel is ready and panics. Operators whose
comment says *Mutant of X* are variations of `X` with a plausible bug; no
specification uses them, and each makes one property fail when it takes the
place of `X`.

### Linker

`intents`, `interests`, `links` are the three maps. `iState`, `nState` say whether
an object exists and is closed, `iHooks`, `nHooks`, `lHooks` which of its hooks
have not run: `"chan"` is the hook of `NewIntent`/`NewInterest` that closes the
channel, `"remove"` the one of `addIntentLocked`/`addInterestLocked` that removes
the registration, `"sever"` the one of `NewLink` (`intent.Link(nil)`), `"unlink"`
the one of `Linker.link`. `lStep` is the program counter of the goroutine started
by `Link.Link`. `sIntent`, `sChan` are a `Send` that has copied the channel and
dropped the lock. An interest's channel is identified with the interest.

`use`, chosen once from `Usage`, says what users do in a behaviour:
*send* (they send), *direct* (they call RemoveIntent and RemoveInterest
themselves), *shutdown* (the linker is closed or its context ends), *once* (one
intent and one interest are ever created, which keeps such runs small), and *patient*:
before they reuse a route they wait until the hooks of what was closed there
have run. A patient user who also leaves the removals to the hooks is *careful*.
The code enforces neither; properties that hold only for careful users say so
(`NoDanglingChannel` fails with a direct removal, which leaves the intent its channel),
and `linker_relink` shows what happens to the others.

Left out: `beforeLink` (every caller passes nil or a function that returns nil);
the errors returned by closed objects. The context of an object is done at the
same instant as its parent's. `RemoveInterest` closes the link just after it
releases the mutex; the two are one action, because only the hooks of that link
see the difference and they run later.

`Matching` has no objects, hooks or goroutines: a route has at most one publisher and
one subscriber, the second to come is paired with the first in the same step, nobody is
replaced while registered, and nobody is taken off a route who has not left. Exceptions
are explicit: users who may remove by route (`byRoute`) and the shutdown (`ended`). A
pairing ends with one of its two, or where an earlier subscriber of the route left one
behind (`parted`), whose late hook the code lets hit its successor. The refinement mapping
reads `pub` and `sub` from the two maps, `pair` from the link table (`teardown = "torn"`
makes the maps nil), `pubGone` and `subGone` from the objects that are closed, `parted` from
the links that are.

### InterestRouter, IntentRouter

One router each, with `Source`/`Target` the endpoint objects (external: they get
messages or events, and may close at any time) and `Wrapper` what Subscribe or
Publish hands out. `runner[s]` is the program counter of the goroutine of an
endpoint object. The hook of a wrapper goes through `"armed"`, `"waiting"`
(removeWrapper holds the mutex and waits for all runners), `"closing"`, `"done"`.
`onRecv`/`onNotify` are set after the first runners have started, so a runner may
still see them unset. `inMap` is the entry in the owner's map, which the owner's
hook deletes. Each endpoint object is added at most once.

### Container

Publish and Subscribe of `Container` and of `Router` are the same code for two kinds
of objects, so a *key* (kind and route) replaces four copies of it. `IsRouter` says
which owner a behaviour has: a Router gets its endpoints in `New`, a Container by
`Add`. `array` and `size` are the slice of endpoints with the array behind it, which
`Container.Close` goes on reading while `Remove` shifts it. `run[e]` is an endpoint's
context and Linker: `up`, `cancelled` (the owner's context ended), `closing` (closed,
the hook of its Linker pending), `torn` (the Linker's maps are nil). `ripe[e]` counts
the close hooks of the container that may run, `toClose[e]` the calls of Remove that
are between their unlock and `ep.Close()`. `reg[e][k]` is the object that an endpoint
has registered. `routers` are the owner's maps; `src[x]` are the endpoints whose
*registered* object router `x` has. `late` are goroutines started by
`Router.addInterest`. Endpoints are finitely many (`EndpointAssumption`). Everything done
under the owner's mutex is one action.

Wrappers are counted, not told apart; the routers' inside is in `IntentRouter` and
`InterestRouter`. The prefix checks of remote peers are the constant `Refused`, a set
of pairs. A duplicate Add, an unknown Remove and a failing Init change nothing.
`use` has one flag per thing that users may do to the owner (see the module), and the
properties name the flags they are stated without: `RemovalIsSafe` is about endpoints that
are neither closed directly nor added again and an owner that is not shut down,
`EveryEndpointJoins` about endpoints that do not fail, and about the intents of a Router
only.

### Caller

`waiters` and `order` are the map and the dispatch order under the mutex; a waiter is
identified with its call, and stands for its nonce, of which every registration draws
a new one. `hSt` is the loop of `handleResponses`: `"top"`, `"recv"` (in Receive),
`"deliver"` and `"close"` (in deliver), `"stopped"`. The service and the transport are
the environment: a request on the wire is answered up to `MaxReplies` times, at any
time. `opt` says whether the nonce hooks are installed, whether calls time out or fail,
and whether the Caller is closed. A Send on the closed producer fails or, once the hook of its intent
has run, crashes (`SendCrashes`).

### Remote and Naming

Two endpoints over one connection, for one route. A registration is `[who, open]`:
nobody's, of a local user, or made for the peer; what a closed one leaves in the
registry is removed by a step of its own, the Linker's hook. `wire[n]` is what `n` has
written and its peer not read. Subscribe announces first and registers afterwards
(`adding`); the hook that takes the route out of the decode table is `delHook`. A
remote interest has a forwarder, with the message it holds in `hand`; what it still
holds when its interest is closed is `stray`, with the nil of the closed channel at the
end, which it may read also when it held nothing (`StrayCrash`). `odd` records what properties have
to leave out: an announcement that failed (`NoGhost`, `NoRelay`), and a write by such a
forwarder (`NoRelay`). `NodeAssumption` says that there are two endpoints,
`HashAssumption` that a hash has no separator in it, `RouteAssumption` that NewRoute made
the plain routes and that no type is named by a separator. `up` is the context of an endpoint
and of its connection, `handler` its reading loop; a message that cannot be decoded ends the
loop. A write that times out is told to the caller as a
failure and may be done all the same.

`use`: *both* (both sides publish and subscribe, else one publishes and the other
subscribes), *patient* (users wait until all is quiet), *send*, *fail* (writes of
announcements fail), *ttl* (watchdogs fire), *close* (an endpoint is closed), *cut*
(the connection breaks). `Naming` gives the text that an announcement carries and
what the other side makes of it: a route is text over symbols, a hash one symbol.

### Mesh

Nodes with an address book each. A connection is `<<dialer, listener, k>>`, with a
Handshaker at both ends (`end`): `"backlog"` until the listener's Serve has it,
`"init"`, `"wait"`, `"sharing"`, `"done"`. `book[n][p]` is the entry with its current
connection, the `dialing` flag, the failed attempts and the peers shared; `hook` is the
hook that SetConn puts on a connection to reset the entry. Messages of one direction
keep their order. AddConn takes three steps: `LookUp` under the mutex, `EnterGone` when it
found nothing, which inserts without the mutex and may overwrite what another handler has
inserted meanwhile (`Forget`), and the look-up of the peers of a list one by one (`todo`).
A connection breaks for one end first (`Break`); the other sees it later (`Notice`), and
each runs its close hook when it has. `Dial` looks only at the dialer's own entry, as the
code does: a node that has seen the break dials again while the other has not.

`Starts` says which connections stand at first and how much may follow: connections that break,
dials that fail, and dials of a peer while an older connection to it is not over at both ends
(`redials`); and with which peers each node is configured (`seeds`). Whoever is joined at the
start has not been told of third nodes, so no node stands in two of those connections
(`StartsAssumption`). A queue entry and the `dialing` flag belong to a peer here and to an
entry object in the code; the two differ only for an entry that AddConn has lost. That Go may
end a program that writes a map from two goroutines is not modelled, only that one of the
writes is lost.

Left out: the remote endpoint made at the end of a handshake (it is in `Remote`), and
giving up on a peer after `MaxAttempts` (an assumption keeps the faults below it: a peer
given up on is never dialled again, and no mesh forms).

### Stream

One direction: writers on one side, readers on the other. A frame is two *cells*, head
and body, written one after the other from the buffer, so that a buffer used again in
between mixes two frames; all frames have one length, so that such a mixture can be read. A
writer encodes into a buffer of the pool, offers it to the goroutine of `contextRW.Run` and
waits; when its context ends it goes, and releases the buffer. `run` is that goroutine, with
the frame it was asked to write; `rrun` and `rpc` are the reading goroutine and its caller.
`use`: *cancel*, *short* (a read returns early), *routes* (the decode table changes),
*close*, and *closer*: the transport is an io.Closer, so that Close ends a Read or Write
blocked in it (`stream.go:285`). Without it they stay blocked, as `stream.go:22` says, and
`RunnersEnd` leaves that goroutine out. `last` is the place on the transport of the frame
decoded last, `seen` the number of the last message of each writer. The two tell order on
the wire from order of messages: a Write that was given up may send what another writer has
put into the released buffer, which that one sends again (`stream.go:115-119`). So
`DecodedInOrder` says that messages come in order and once only while no Write was given up
(`gaveUp`).

### Bus

A Consumer (`"in"`), a Producer (`"out"`) and their owner, a Service or a Module. A
part is `"none"`, `"made"` (a Module has it but has not listed it), `"open"`, `"closed"`.
Processes are the receiving loop and one goroutine per request, which sends a reply;
`mu` is the producer's mutex, held while waiting for interest. The interest and the intent
are the wrappers of a Router. The hook of a closed intent sets its router to nil (`torn`)
and closes the channel of notifications (`notesEnd`); each hook may wait for ever in
removeWrapper, so no fairness makes them run, and `CloseReleases` speaks of the time after
both. A Send reads the router: nil crashes it (`fault`), which is what becomes of a process
that the close of the channel has woken from waiting for interest. A Send under way
(`"sending"`) is ended by a receiver or its context and not by Close, which never reaches
the objects of the endpoints. A notification may find the channel full or have been sent
before the intent was made. A request is in the
interest's channel, in the hand of the converting goroutine (`conv`), in the typed
channel, or taken; one of another type is skipped.

## Runs

| Run | Instance | Shows |
|---|---|---|
| `linker` | 2 routes, 2 intents, 2 interests, 2 links, 1 sender; hasty users, and patient users who send | the Linker implements `Matching`; no registration is ever evicted by a late hook of its predecessor and no message leaves its route, even for hasty users; for careful ones every pair is linked, no intent keeps a dead channel, and only a Send that meets a closing interest can crash |
| `linker_live` | 1 route, 2 of everything, patient; or one pair with direct removals, or with shutdown | matching pairs get linked, closed objects are forgotten, the link table agrees with both registries through removals and teardown |
| `linker_relink` | 1 route, hasty | **violation**: the assertion of `LocalIntent.Link` fails |
| `interest_router` | 1 endpoint interest, 2 subscribers of which 1 stays | every listed interest has a live runner, staying subscribers are served, leaving ones get their channel closed |
| `interest_router_last` | 1 and 1 | **violation**: the last subscriber's channel may stay open for ever |
| `intent_router` | 1 endpoint intent, 2 publishers, 1 sender | a Send works on a stable set; whoever is there is notified |
| `container` | 2 endpoints, one of which refuses to publish; 1 route for either kind, 2 routers, 2 wrappers, 2 additions; 8 ways of use over Container and Router | an open router is the one its route finds; while none fails, every endpoint takes part in every route it accepts, whatever the order of Add and Publish; removal alone never crashes; a dead endpoint leaves the list |
| `caller` | 1 call and 1 stream, 3 replies each; timeouts without nonces, nonces alone, all at once | map and order agree; replies are correlated, and delivery never crashes, when nobody gives up; answered calls return; Close releases |
| `remote` | 2 endpoints, a plain or a hashed route, 5 operations of users, 5 ways of use | no object made for the peer outlives the peer's; no relaying; patient users, whose announcements may fail, have a whole path for a plain route; what failed announcements leave vanishes; a lost connection frees everything on both sides |
| `mesh` | 3 nodes, 1 seed; two join at once, or one after the other with a dial that fails or is repeated; or one joins alone, its connection may break at any point and it dials again at any time | one of two peers is told of the other; nobody is aborted; the mesh forms where no connection breaks, also where AddConn loses an entry |
| `stream` | 2 writers, one of control messages, 2 buffers, 3 writes (2 when the stream is closed), 2 reads | a write's bytes are its own; decoding keeps the order; writes are served, whoever gave up; both goroutines end, unless blocked in a transport that cannot be closed |
| `bus` | 3 requests, one of another type | no request of the consumer's type is lost or overtaken before the context ends; one notification serves all; once the hooks of the closed parts are through, nobody waits for interest or requests |

`MCRemote` also has TLC evaluate `TextRoundTrip`: for all routes made of paths and
prefixes up to three symbols (the separators among them), RouteFromString of String
gives an equal route of the same kind and path. Texts of any length are a theorem (below).

Bounds. The object sets bound how many objects a behaviour creates. Every hazard
here is between an object and its successor on the same route, or between two
objects of one kind, so two of each suffice; the second route is there for cross
talk. `Size` is 1, the smallest buffer that can be full and empty. A stream of replies
with three of them meets its full buffer with one in delivery and one in the callback.
In `Container` two routers are one and its successor, two endpoints suffice for a
slot to shift, and two additions for a hook to outlive the removal it belongs to.
In `Remote` five operations are a publication and a subscription on either side, a
close, and one more that meets what the close has left under way. In `Mesh` three nodes
are the least for which a peer must be told of another, and two connections per
direction let a second dial cross a first. A break together with three nodes is beyond TLC, so
the run has it between two; the two safety properties are proved for any number of nodes,
breaks and dials. In `Stream` two writers and two buffers let a
released buffer be filled while the goroutine still writes it, and a third write meets
the result of the first. In `Bus` three requests fill both channels and the hand between
them. Runs do not check for deadlock: a bounded supply of objects always runs out, and
a system with nothing to do may rest. Waiting for ever is covered by the liveness
properties.

Fairness. The Go scheduler runs every goroutine that can run: weak fairness on each hook (but
for those of `Bus`, see above), each link goroutine, each runner, forwarder, message handler
and converter, the reply loop, the rest of a Remove or a Close that has begun. Timers fire: the
watchdogs of `Remote`, the monitor's ticker and the backoff of `Mesh`. In `Mesh` connections
are also accepted, dials come to an end, messages arrive unless the connection breaks, and an
end sees in the end that the other is gone; in `Stream` the transport moves the bytes that are
written, but nothing makes a peer send any. Where another goroutine may disable a step again
and again, strong fairness is used, and only where Go provides it: a `select` picks at random
among ready cases, a mutex does not starve a waiter, and senders blocked on a channel are
served in turn (`Accept` of `Stream`). Users promise nothing, and the network does not in
`Remote`. That a service answers is assumed only as the premise of the property that needs it
(`AllAnswered`).

## Proofs

Every safety and action property that the passing runs check is a theorem, for all values
of the constants that the named assumptions allow, and so is the refinement of `Matching`.
`RouterProofs` and `BusProofs` are about two components each: they extend the module of one and
have the other as a named instance (`Out!`, `B!`). An instance does not bring the assumptions
of its module, so a theorem about it has those it needs as hypotheses. The theorems, and what
each module adds to the property to make it inductive:

**`LinkerProofs`**, for any sets of routes, objects and senders, any buffer size and any
usage:

- `TypeCorrect`, `TableCorrect`, `LiveRegistered`, `RouteIsolation`: `TypeOK`,
  `LinkTableConsistent`, `LiveIsRegistered` and `NoCrossWire` always hold;
- `MatchedCorrect`, `NothingDangles`, `CrashesOnlyInSend`: `MatchedIsLinked`,
  `NoDanglingChannel` and `OnlySendCanCrash` always hold (they speak of careful users);
- `LinkerImplements`: `Spec => ImplementsMatching`.

The first four follow from `LinkerInvariant`: `Spec => []LinkerInv`. The assumptions are
`SizeAssumption` (the buffer has room for one; `TypeOK` needs it) and
`NilAssumption` (`Nil` is no object or route). `LinkerInv` adds to `TypeOK` and
`LinkTableConsistent`

- `RegistryInv`: what a route finds was created for that route. Without it, a
  hook, which computes the route from the object, could hit another entry;
- `HookInv`: an object that was registered and whose remove hook is pending is
  still the registered one, and the hook of an open object is pending. This is
  why the hooks, which only know a route, are harmless: the route cannot get a
  new registration before the old one's hook has run, and that hook runs once;
- `WireInv`: links, linked channels and running sends join objects of one route.
  It is needed because an intent's channel is set by a goroutine that read both
  objects long before.

Each conjunct has a lemma that every step preserves it, with one proof step per
action (`TypeStep`, `RegistryStep`, `HookStep`, `WireStep`, `TableStep`); the larger
steps of `TypeStep` are lemmas of their own.

For careful users, while the linker lives, three more hold together (`CarefulInv`):
`ArmedInv` (whatever is registered or linked still has its hooks to run), `LinkInv` (a
link whose goroutine is not done is the one of its route, between open objects; one whose
hooks are pending left a route without an interest) and `ChannelInv` (an intent sends
where the table says, unless the hook that severs the channel is pending). They need each
other: that a new link finds an intent without a channel rests on the hooks of the old
link having run, that on the users' waiting, and that on no registration being closed
without its hooks armed. `SettledIsOpen` says what waiting gives.

`LinkTableConsistent` is needed for the refinement, for the adds (a route that one half is
added to has no link) and for the removals (the link that goes is the route's own), and
`HookInv` for the hooks: what a late one finds on its route is the object that was closed,
so `Withdraw` and `Unsubscribe` are allowed. Every other action leaves the maps alone and
is the leaving of a user or a stutter. The pairing promised is that of the
table; that the goroutine of the link then connects the channels is `MatchedGetsLinked`,
which is checked by TLC only.

**`ContainerProofs`**, for any endpoints, routes, refusals, bounds and usage, from
`NilAssumption` and `EndpointAssumption`:

- `OpenRouterCorrect`: `OpenRouterFound`. `RouterInv` says more than the property: a router is
  the one its key finds from its creation until *its own hook has run*, even when it is closed.
  So no second router is made for the key in between (`NewRouterKeeps`), and the hook, which
  deletes by route, can only delete its own router;
- `ListedOnce`: for any usage, the list names each endpoint once. `ListInv` (it is also within
  its array) is kept by `append` into room left by earlier removals (`AppendLists`) and by the
  shift of `slices.Delete` (`UnlistTakes`);
- `RemovalCorrect`: `RemovalIsSafe`, for endpoints that leave by Remove only and do not come
  back and an owner that is not shut down. `RemovalInv` is why no torn Linker is met there: a
  listed endpoint runs, and no Remove is about to close it;
- `EndpointsJoin`: `EveryEndpointJoins`, as long as no endpoint fails and, of a Router, for
  intents. `JoinInv` adds that a running endpoint has no closed object then, so that Publish,
  Subscribe and Add always end up with an open object in the router. Publish covers the
  endpoints that are listed (`OpenJoins`), Add the routers that are there (`AddJoins`); what is
  lost is owed no more (`LossKeeps`).

**`BusProofs`**, for any calls, streams and numbers of replies, from `CallAssumption`:

- `OrderCorrect`: `OrderMatchesWaiters`, from `TypeInv` and `OrderInv` (the order has no
  duplicates and a pending waiter is of a call that has begun, so a new one is not in it);
- `PromptIsSafe`: `PromptNeverCrashes`. `OpenInv` says which channels can be closed when
  nobody gives up: those of calls that are no longer pending. The reply loop, which holds
  a waiter it has looked up, holds an open one because the last delivery to a call is its
  own;
- `PromptCorrelation`: `CorrelatedWhenPrompt`. `NonceInv` says that a call without a reply
  is still pending, so the fallback to the oldest waiter is never taken;
- `RequestsKept`: `NoRequestLost` of `Bus`, for any number of requests, any of which may be of
  another type, and any channel sizes (`NilAssumption` of `Bus` is a hypothesis). `BusInv` follows a
  request from one channel to the next. `ArrivalInv`: the interest's channel holds the
  latest requests, without a gap. `HandledInv`: of those that were read from it, the ones of
  the consumer's type have been handed on in order, but for the last, which may be in the
  hand of the converting goroutine. `EndInv`: while the context lasts, the goroutine closes
  the typed channel only with an empty hand and the interest's channel drained and closed,
  and only the consumer's close makes it so.

**`RouterProofs`**, for any wrappers, endpoint objects and senders, without assumptions:

- `RoutedIsOpen` (`ListedIsOpen`) and `OthersStayServed` (the action property
  `OpenWrapperServed`), from `WrapperInv`: the list names exactly the wrappers whose hook is
  armed, each once, and a channel is closed by the hook only, after it has left the list and
  waited;
- `SendsToMembers`: `SendSetStable` of `IntentRouter`. `SendInv` adds that whoever sends
  through an intent holds the read lock, for which RemoveIntent waits.

**`StreamProofs`**, for any writers and buffers and any usage, from `NilAssumption`:

- `OwnFrameKept`: `OwnFrameIntact`. `PoolInv` says who owns a buffer: each writer under way
  has its own, which is not in the pool; the goroutine writes from the buffer of the caller
  who waits for it, unless that caller has gone;
- `DecodesInOrder`: the action property `DecodedInOrder`. `OrderInv` says that the bodies on
  the transport are younger than what was consumed and in order, and that none is missing
  until a short read loses one (`Ordered`, `Complete`). What a write adds behind and a read
  takes in front is in `AppendOther`, `AppendBody`, `TakeOther`, `TakeBody`. `MessageInv` says
  the same of the messages of one writer (`View`) while no Write was given up: what was
  decoded, what is on the transport and what is being written have growing numbers.

**`MeshProofs`**, for any nodes, seeds, connections at the start and faults, from `NilAssumption`,
`SeedsAssumption` and `StartsAssumption`, also with entries that AddConn loses and connections that
break at either end first:

- `NobodyAborts`: `HonestNeverAborts`. `InStep` lists how far the two Handshakers of a
  connection can be from each other, with what is on the way between them, a broken end
  included;
- `OneTold`: `OneIsTold`. Of two peers of a node the one that finishes later is told of the
  other, because the book has the connection of the first by then. `HookInv` (an entry holds
  a connection with its peer, and exactly that one resets it) is why the entry cannot be
  reset by a hook of an older connection; `DialInv` says that a dial gets a connection
  nobody has used.

**`RemoteProofs`**, for any routes, bounds and usage, from `NodeAssumption`, `HashAssumption`
and `RouteAssumption`:

- `NothingOutlives`: `NoGhost`. An announcement on the way counts as read: `Registers` says
  what its reader will have when it has read the first k messages. `IntentInv` and
  `InterestInv`: if a node will be left with a registration for its peer, the peer has its
  own;
- `NothingRelayed`: `NoRelay`. `Mine` says more of a message on the way than whose it is:
  its reader will have no interest made for the writer when it comes to read it, so it goes
  to a user and not to a forwarder. `Held` says it of what forwarders hold;
- `PatientConnect`: `PathExists`, for patient users of a plain route without the end of the time
  to live.
  `PathInv` says it of every state and not only of the quiet ones. `HeadOnly`: what a patient
  user announces is alone on the connection, but for data behind it, so its reader is in the
  state that the announcer left it in. `IntentPath` and `InterestPath`: until an announcement
  is read, the reader has nothing of its own that would refuse it; after that, it has an open
  registration for every open one here. `DecodePath`: no hook of an earlier interest is left
  that would take the route out of the decode table;
- `PlainRoundTrip` and `HashedRoundTrip`: RouteFromString of String gives an equal route of the
  same kind and path, for every valid route. Both rest on `SplitAt`: a text with one separator
  splits there.

`TypeInv` and `OpenInv` (what is open is of an endpoint that is up; only an open interest
has messages under way) come with them. TLC checked all these conjuncts, on one usage with
every fault at once, before they were proved.

`SequenceLemmas` states what the three modules that use it need: a list without
duplicates stays one, and becomes the set it should be, when an element is added behind or
the first occurrence of one is removed; and what an index of a channel's contents becomes when
the head is taken, an element comes in behind, or the head of one channel goes behind the next.

Only model-checked are the liveness properties (`MatchedGetsLinked`, `ClosedIsForgotten`,
`LeavingClosesChannel`, `PresentIsNotified`, `DeadEndpointLeaves`, `AnsweredReturns`,
`GhostsVanish`, `DisconnectReleases`, `MeshForms`, `WritesServed`, `RunnersEnd`,
`OneNotificationServesAll` and both `CloseReleases`): they rest on fairness, and reasoning
about it needs ENABLED, which the prover does not support. The two violations are runs of
TLC by their nature.

## Findings

- `linker_relink`: closing an interest and subscribing to its route again can
  reach the panic "Link called multiple times illegally" (`intent.go:127`).
- `interest_router_last`: the last subscriber's clean-up can deadlock with a
  runner that has just received a message (`interest.go:276` against `281`); its
  channel is never closed. `intent.go:351-365` has the same shape.

Five more statements of the repository do not hold of the code. The models contain the
behaviour of the code, and the properties are stated around it; where a formula is named,
TLC finds it violated and prints the steps:

- "Prefix is used for routing Remote Interests and Intents" (`route.go:99`, also
  `README.md:57` and `COMMUNICATION_AND_USAGE_SPEC.md:158-169`): a hashed route is announced
  by its ID, the bare hash (`wrappers.go:66` and `174`), which the peer's RouteFromString
  (`route.go:127-135`) takes for an invalid route, so no hashed route ever works across a
  connection: `PathExists` without `route.kind = "plain"`, under `MCRemote_pair.cfg`.
- "Mesh router transport connects nodes into a full mesh" (`endpoint/mesh/README.md:3`): after
  one broken connection the end that has not seen it refuses the next one with ErrDuplicate
  (`addrbook.go:333`), and its late hook leaves the entry empty for good: `MeshForms` without
  its premise, with `Starts` in which the connection of *a* may break and *a* dial once more.
- "the Intent receives a notification to start publishing" (`README.md:48`): a publisher that
  joins a route after the endpoint's event was routed is not told; the endpoint's intent
  notifies once per link, and Wrap does not. So `PresentIsNotified` asks for an event that
  is still in the channel (`tBuf[t] > 0`).
- "ErrClosed is returned when operations are attempted on a closed producer/consumer"
  (`x/bus/errors.go:10`): Send finds a nil router (`intent.go:303`, `356`) and panics; who waits
  for interest when the producer is closed is led there by the close itself:
  `fault # "nilRouter"`, under `MCBus_owner.cfg`.
- "It handles correlation automatically using nonces" (`caller.go:47`): a late reply, whose
  nonce has no waiter, is given to the next waiter in order (`caller.go:124`): `Correlated`,
  under `MCCaller_all.cfg`.

Other behaviour that the models show, and that a condition of a property leaves out or no
document of the repository speaks of:

The Linker, the routers and their owners:

- `Container.Close` reads the list without the mutex (`container.go:45`); with two or
  more endpoints it can read a slot that `slices.Delete` has cleared (`:182`).
- Publish or Subscribe over an endpoint that was closed directly and torn down, while
  the container's hook for it has not run, writes to a nil map.
- The close hook of a removed endpoint that is added again may remove it again
  (`container.go:105`).
- When one endpoint refuses, `closeAll` (`container.go:223`) closes what the endpoints
  before it returned, also where an open router of the route uses it.
- A late `addInterest` of a Router can make a router out of one endpoint's interest
  (`dndm.go:62-75`).
- A subscriber's clean-up stuck as in `interest_router_last` keeps its router's mutex;
  a Subscribe to the route then waits with the owner's mutex held.

The bus:

- A timeout during delivery closes the channel that `deliver` is about to send on
  (`caller.go:171` against `265`) and crashes the process. `NeverCrashes` as an
  invariant of `MCCaller_all.cfg` shows it; `PromptNeverCrashes` is what remains.
- `SendWithTimeout` of a Producer (`producer.go:51`) may wait for the mutex of a Send
  without a timeout, longer than its own.
- Close of a producer does not end a Send that waits for a receiver to take its message:
  that message's channel belongs to the endpoint's intent, which stays open.
- A Consumer that is closed while nobody receives leaves its converting goroutine
  waiting until the context ends.

The remote endpoint:

- An announcement that reaches the peer before the remove hook of the closed
  predecessor there has run is lost; so is a publication refused because the other side
  publishes too, when that one ends. Patience avoids both (`PathExists`).
- Nothing refreshes the time to live of a registration on which nothing is sent: an
  idle path is cut after a minute. One in use never expires, also when its owner's
  unregistration was lost (`GhostsVanish` is about idle ones).
- `messageHandler` calls Close, which waits for `messageHandler` (`remote.go:113`):
  that goroutine never ends.
- A forwarder whose interest is closed may read nil from the closed channel
  (`wrappers.go:220`), and encoding nil panics; it may also write after its peer's state has
  changed. That, and an announcement that failed, are the two ways to a relayed message
  (`NoRelay` holds while neither has happened).

Streams and mesh:

- A message that cannot be decoded, such as one of a route just taken out of the
  decode table, ends the reading loop and with it the connection. SPEC.md:13 counts on
  known routes.
- A Write that is given up releases its buffer while the goroutine may be writing from
  it: the frame of the caller that has gone can get another frame's bytes, and that
  message is then decoded twice (`stream.go:115-119`).
- A goroutine blocked in the Read of a transport that cannot be closed outlives the stream,
  as `stream.go:22` says.
- AddConn writes the map of peers without the mutex (`addrbook.go:228`): an entry made by
  another handler in between is lost, with its connection. The mesh of three still forms.
- `NewAddrbookEntry` never copies `Persistent`, and routes that exist already are not
  announced on a connection that joins later.

## Not modelled

- *Remote*: ping, pong and latency statistics; results; the batches INTENTS and INTERESTS
  and those in a handshake, which nothing in the repository sends with contents.
- *Mesh*: the ADDRBOOK message, which has no effect; AddPeers and DelConn, which nobody
  calls; Publish and Subscribe of a Handshaker before HS_DONE; Close of the mesh
  endpoint, which is that of its Container.
- *Streams, codec*: the plain Stream (the synchronous form of what is modelled), the
  bytes of a frame, the factory that picks a dialer by scheme, the serial port and the
  other wrappers of libraries.
- *Route, Peer*: PeerFromString, which is `url.Parse`.
- *Router*: a misconfigured New, the same endpoint given twice, removeInterest, which
  nobody calls.
- Generated protobuf types, mocks, test helpers, examples, logging.
