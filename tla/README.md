# ZBProxy in TLA+

ZBProxy is a TCP relay for Minecraft servers.  It accepts connections over TCP and
over its own UDP tunnel, checks them, sniffs the Minecraft handshake, chooses an
outbound by rules, dials the server over one of two paths and copies the streams.  Its
configuration file is watched and reloaded while connections are being served.

This directory holds TLA+ models of that program, the TLC runs that check them on small
instances, and proofs, checked by TLAPS, of what matters most for instances of any size.
Every definition is written from the source; `PROJECT.json` ("map") names the lines each
one stands for.

## 1. Inventory of the system

| Component | State it keeps | Operations | Hard behaviour |
|---|---|---|---|
| Tunnel session, `common/udptunnel/session.go`, `conn.go` | send window, receive window, reassembled stream, flags, one-token wake-up channels | Write, Read, onPacket, retransmitTick, Close, forced close | loss, repetition and reordering of frames; lost wake-ups; Close against everything |
| Tunnel listener and dialer, `listener.go`, `dial.go` | map of sessions, accept queue, lock, idle timer | dispatch, Accept, removeSession, timerLoop, Close; Dial | repeated and late SYNs, two limits, sweeps against Close, callbacks under a lock |
| Transport selector, `common/transportselect` | belief, round trip and failures of each path, preference | probe, choose, Preferred, Start, Stop | stale measurements, flapping, being stopped during a probe |
| Hot reload, `config/root.go`, `zbproxy.go` | Root, maps of outbounds and services | watcher loop, UpdateConfig | errors half way, a file read half written, locks held by connections |
| Router, `route/router.go` | rules, outbound map, lock | HandleConnection, UpdateConfig | a connection between two versions |
| Plain outbound, `protocol/outbound.go` | configuration, dialer, selector, secret, lock | Reload, DialContextWithMetadata | reload against dials |
| Minecraft outbound, `protocol/minecraft/outbound.go` | configuration, lists, online count, lock | InjectConnection, connectServer, Reload | a dozen early returns under a lock, the limit of players |
| Service, `service/service.go` | listeners, configuration, lists, legacy outbound, secret; unlocked | Start, Reload, Close, accept loops, handleInbound | unlocked fields shared with the accept loops, failures half way through Start |
| Relay, `common/bufio`, `common/buf` | cache of a CachedConn: a buffer with two indices | Peek, Rewind, CopyConn, Close | two goroutines and one cache, the end of each direction, what was read and not consumed |
| Sniffing, PROXY headers, secret | none of their own | read or write the first bytes of a connection | they move the cursor the relay starts from |
| Rules and lists, `route/rule*.go`, `common/domain`, `common/access` | none that changes | Match, Has, Check | rules see what earlier rules sniffed and rewrote; inversion of what is unknown; a trie in two bit maps |
| SOCKS client, `common/network/socks` | one connection | DialContext, a handshake for each version | answers in pieces, or together with the stream |
| Packet codecs, framing, main program | none, or none that is shared | pure functions | – |

How they interact:

- A *service* owns a TCP listener and a tunnel *listener* and starts a goroutine for each
  connection they give it.  The goroutine verifies the secret, consults the lists, reads
  a PROXY header, and calls the *router* (or the legacy outbound).
- The *router*, holding its read lock, matches rules; a rule may *sniff* through the cache
  of the connection and names an *outbound*.  A Minecraft outbound takes the connection
  over (InjectConnection); any other is dialled under the router's lock and CopyConn
  *relays*.
- An *outbound* reads its configuration under its own read lock, asks its *selector* for
  the path, and dials TCP or a tunnel *session*.
- The *reload loop* runs UpdateConfig, which takes each outbound's write lock, then the
  router's, then closes and restarts each service.  Locks are therefore held by
  connections for as long as a dial, or a client, takes.
- The *tunnel*: the dialer's goroutine reads frames and resends; the listener has one
  goroutine that dispatches frames and one with timers.  Applications block in Read and
  Write until a token wakes them.

What makes each part correct:

- session: the stream arrives complete, in order and once; nothing is released too early;
  nobody blocked is forgotten;
- listener: limits hold, live sessions are reachable, closed ones give their place back, and a
  dial that succeeds has a session behind it;
- selector: the preferred path is up, not clearly slower, and changes for a reason only;
- reload: one consistent version when it ends, an order that holds wherever it is cut
  off, and in the end the file in force;
- Minecraft outbound: nobody unlisted is served, the preamble is complete and in order,
  everything is given back, players are counted;
- service: a port opens only when everything its connections are checked with is there,
  and no socket or loop is forgotten;
- relay: the server gets the client's stream, without gap or repetition and without what
  was meant for the proxy, the client gets the server's, and both goroutines and both
  connections end;
- rules: a connection reaches the outbound and the destination its configuration means, and
  the router's lock and the connections are given back on every way out;
- SOCKS client: only a granted request is a success, and the relay starts at the first byte
  of the stream.

## 2. Modules

| Module | Models | State and actions against the code |
|---|---|---|
| `ReliableStream` | what a session promises: a bounded pipe in each direction | abstract specification |
| `TunnelSession` | both ends of an established session and the path | one variable for each field of `session`; `Write*`, `Read*`, `Receive*`, `Retransmit`, `CloseBegin`/`CloseEnd`, `TearDown`.  A step is one critical section of `s.mu`, or one operation outside it (handing a frame to the socket, which may refuse it, taking a token) |
| `TunnelListener` | handshakes, limits, queue, sweep, Close, dialers | session *values* are numbered, ids are dialers; `dispatch` is split by what it decides (`SynKnown`, `SynRefused`, `SynAccepted`); Close is one step for each acquisition of the lock and each session; a dialer may lose its socket or its first write |
| `TransportSelector` | one selector from Start to Stop | a probe of each path, the update under `s.mu`, the `select` with its two cases |
| `HotReload` | the loop, UpdateConfig, Router, outbounds and services as a reload sees them, connections holding locks | objects are named by name and creating version; RWMutexes with a waiting writer that keeps readers out; Start may refuse a configuration or fail at a port, Close of a tunnel may hang |
| `MinecraftOutbound` | all connections in InjectConnection of one outbound | a label for every place with an early return; dials and writes may fail |
| `Relay` | one connection from its PROXY header to the end of CopyConn | the cache with start and end, both goroutines, both peers; streams counted in units of what one write of the client holds |
| `ServiceLifecycle` | one service through several versions with its accept loops and connections | every access to an unlocked field that another goroutine can tell apart is a step of its own; the tunnel's queue and its map of sessions |
| `DomainMatcher` | the matcher of host names | `Collected` is the builder, `SuccinctSet` the trie in level order, `Has` the walk over its labels; `Means` says what the two lists say |
| `Rules` | `Match` of every rule | one operator for each type, one for rules of another program; `Says` is the reference definition, with inversions pushed to the leaves |
| `Routing` | handleInbound and HandleConnection for one connection | who is let in, the rules in order with sniffing and rewrites, the lookup of the outbound, every way out |
| `SocksClient` | a dial through a SOCKS server, and that server | the answers as bytes, of which a prefix has arrived; an action for each Write and Read of the three handshakes |

`TunnelSessionProofs`, `TunnelListenerProofs`, `TransportSelectorProofs`,
`MinecraftOutboundProofs`, `ServiceLifecycleProofs`, `HotReloadProofs`, `RelayProofs` and
`SocksClientProofs` extend the modules they prove about.  The `MC*` modules give the constants
their small values.

Composition is by interface.  `TunnelListener` ends where a session is established and
`TunnelSession` begins there.  `ServiceLifecycle` ends where handleInbound hands a
connection on and `Relay` begins there; `Relay` abstracts InjectConnection to a login
that passes, `MinecraftOutbound` has its checks and the status requests.  `HotReload` sees
a connection only through the locks it holds and the configuration it reads.  `Routing`
extends `Rules`, which extends `DomainMatcher`: it is what the free choices of `HotReload`
and `Relay` (which rule matches, what has been sniffed) stand for.  `SocksClient` is one way
for the dials of the other modules to succeed or fail.

Mutants: the definitions with an underscore (`Slide_Stale`, `Commit_Deaf`, ...) are what a
plausible mistake in the code would make of the definition named before the underscore.
No specification uses them.  Replacing the original by one must break the property
`PROJECT.json` lists with it; this is how each property is known to depend on the code.

## 3. Abstractions

- Payloads, names, packets and addresses are numbers or model values; a chunk of a stream
  is its ordinal, so that a gap, a repetition or a swap is visible.
- The outcome of a comparison of secrets, a dial or a write is a free choice wherever the
  code reacts to it; that of rules and lists is computed in `Routing` and `MinecraftOutbound`
  and free elsewhere.
- In `Rules` a reference to a named list stands for its members, and a list of networks for
  the set of addresses it contains; names are sequences of ASCII codes.  The rank and select
  tables of `common/domain` are modelled by the counts they return.
- In `SocksClient` addresses and ports are filler bytes; lengths, codes and positions are real.
- Time does not exist; a deadline may pass whenever the code would notice it, the idle
  sweep may hit any session, retransmission may happen at any time.
- In `Relay` a packet is never torn between two reads, and the 4096 bytes of a cache are
  never full.
- In `HotReload` and `ServiceLifecycle` Close of a tunnel listener hangs as `listener_deadlock`
  shows (section 7): when there is a session; which ones there are is a free choice in
  `HotReload`, a variable (`mapped`) in `ServiceLifecycle`.
- An application that a socket error has told of a failed Write writes no more, as the relay's
  copy loop does.  One that goes on behaves as if the path had lost the frame.
- A rule registered by another program is one that looks at two parts of the metadata and
  changes none.
- Undefined interleavings on unsynchronised fields are explicit: the cache pointer in
  `Relay` (`UseCache`, `DrainCache`), the fields of a service in `ServiceLifecycle`.
- `crashed` stands for a panic that nothing recovers; the process does nothing more.

History variables (`applied`, `seen`, `saw`, `clean`, `orphaned`,
`torn`) are read by properties only.

## 4. Runs

| Run | Instance | What it shows |
|---|---|---|
| `session` | 4 chunks one way, window 2, 3 frames on the path | the stream is in order, nothing unreceived is released, both windows agree, each direction implements `ReliableStream` |
| `session_close` | 2 chunks, window 1, 1 frame on the path; the dialer's application may Close, the acceptor may be torn down | no lost wake-up, Close unblocks its own end, everything arrives on a session nobody closes |
| `listener` | 2 dialers, 1 place, a queue of 1, 2 session values, idle sweeps, Close of connections and of the listener | limits, routability, a dial that succeeds has a session, a refusal or a dead socket behind it, places come back |
| `listener_deadlock` | 2 dialers, 2 places, Close of the listener, no sweeps | **violated**: Close never returns while a session is open |
| `selector` | round trips 0..3, stickiness 2, threshold 3, every mode and choice of ports | best, configured and sticky preference, convergence |
| `reload` | 7 versions (below), one failing Listen, 2 connections, one of a silent client | consistency after an update, order of secret and config and of routes and rules when cut off, one config for each connection; the last file takes effect unless one of five named things keeps it out, no connection waits for ever but behind a silent client |
| `outbound` | 2 clients, every request over TCP, every configuration of the flags | lists, preamble, locks and connections given back, count of players |
| `relay` | 3 client units after an optional header, 1 answer, every setup | the upload is exact, the sniffer leaves no trace, the download is complete for a client that stays, everything ends |
| `relay_resend` | a plain outbound behind a sniffing rule | **violated**: what was sniffed is sent for ever |
| `service` | 3 versions (guarded, open, guarded), 1 connection, any step of Start may fail | secret, lists and legacy outbound precede the port, no forgotten socket, Close ends the loops |
| `socks` | each version, target and form of reply, granted or not, any cut of the answer | only a granted request succeeds, the relay starts at the stream, the handshake ends |
| `routing` | 14 configurations, 1 connection: every host name of 4 letters out of 3, every intent, handshakes cut off anywhere, PROXY headers | routed as meant, host names as meant, every exit releases |

Why the bounds are enough to be interesting:

- *session*: 4 chunks against a window of 2 fill the window, slide it and fill it again;
  3 frames on the path allow a frame, an older copy and one that overtook it.  Larger
  windows are what the proofs are for.  `session_close` needs one frame in flight and one
  waiting: a blocked Write, a blocked Read and a Close.
- *listener*: 2 dialers for 1 place make the limit bite, a queue of 1 the other limit;
  `MaxMade` = 2 lets an id be mapped a second time by a late SYN, also between the forceClose
  of a sweep and its removeSession, which is what `orphaned` records.
- *selector*: stickiness 2 in 0..3 has differences below, at and above it; threshold 3 has
  a first, a middle and a last failure.
- *reload*: two outbounds, one of each kind, so that one may fail after the other has been
  reloaded; two connections, so that one may hold a lock the loop waits for while another
  waits behind the loop.  The seven versions are: one outbound and a service with a tunnel; a
  file cut short; one refused at the outbound; one without the service; one refused at its rules
  after it has made an outbound; one whose service Start refuses without opening a port; and the
  last, which has another outbound.  So the service is removed and added again (`svcMap` changes,
  and the old object keeps its port), its Close may hang, and every update may be the one that a
  silent client stops.  Every way to be `Obstructed` is reached but the last: with one failing
  Listen no service is new in version 7 and finds no port of its own.
- *outbound*: every configuration of the flags the code tests, and one limit against two
  clients.  Connections of the tunnel are left out of the run, because the first one that is
  refused ends the process (section 7); the proofs include them.
- *relay*: three units are handshake, login and one more, so that a read returns none, one
  or both of what follows.  `MaxWritten` only bounds the resending.
- *service*: three versions turn each feature off and on again; connections share nothing
  but the service's fields, so one at a time is enough.
- *socks*: the lengths are those of the protocol, except a domain name of 5 bytes and one byte
  of the stream, which is enough to be swallowed.
- *routing*: a connection reads what it shares with others and changes none of it, so one is
  enough.  The letters are a small one, a capital and the dot; names of up to 4 have labels,
  empty labels, and a suffix with and without a dot before it.  Each configuration is there
  for one way a rule may go wrong: before and after sniffing, inverted inside and outside,
  rewritten by parts (host and port, of the destination and of the handshake), an intent written
  over, an outbound that does not exist, capitals in the names of a rule, a rule of another
  program.

Deadlock checking is off in all runs: every one of these systems may stop (the streams are
finished, the files are all written, the session is closed).

## 5. Fairness

- *session*: goroutines run (WF), and a frame that is sent again and again is delivered in the
  end (SF for each chunk and each acknowledgement number), the least a retransmitting protocol
  needs.  The socket may refuse any frame of a Write.  The acceptor resends from a ticker of its
  own (WF).  The dialer's one goroutine resends only after 500 ms without a frame
  (`dial.go:54`): its fairness is "resends, or receives frames for ever" (`DialerTimer`), and
  the path does not repeat the frames it keeps for ever (`Repeats`).
- *listener*: the application accepts and closes what it has accepted, and goroutines not
  blocked run.  Nothing is assumed of dialers, of sweeps or of the path.
- *selector*: the goroutine runs.  `Converges` assumes, in the property, that one path answers
  from some time on, the other does not, and nobody stops the selector.
- *reload*: the loop runs (WF) and so does each handler (one SF for each connection: a writer's
  unlock lets waiting readers in, as `sync.RWMutex` promises); clients that are not `Silent` ping
  or leave.  Silent ones are in the run, and hold the outbound's lock for ever if they like;
  `FileTakesEffect` and `ConnectionsProceed` except what waits behind one, and nothing else.
- *relay*: the two goroutines run; deadlines of the sniffer and the header pass; a write to a
  peer that is connected ends.  Nothing is assumed of either peer's closing: `RelayEnds`
  starts from it.
- *service*: accept loops run.
- *socks*: the client's goroutine runs and what was sent arrives.  The server may be silent:
  `HandshakeEnds` names it as the only thing a dial may wait for.

## 6. Proofs

Assumptions are those the modules name: `EndsAssumption`, `ParametersAssumption`,
`OutboundAssumption`, `SelectorAssumption`, `ListenerAssumption`, `ServiceAssumption`,
`ReloadAssumption`, `RelayAssumption`, `SocksAssumption`: natural numbers where the code has
lengths and thresholds, a window and thresholds that are not zero, finitely many connections of
an outbound, at least one version of a configuration, and a first file that loads.

**TunnelSessionProofs**, for every window, modulus, path capacity, and set of ends that may
close or be torn down:

- `TypeCorrect` and `NoWakeupIsLost` without a further assumption.  The wake-up invariant is
  inductive once split into a writer's and a reader's half: every action either leaves a
  waiter's condition alone or leaves its token.
- `StreamInOrder`, `ReleasedOnlyWhenReceived`, `WindowsStayTogether` and
  `SessionImplementsStream` under `NoWrap`: fewer chunks than sequence numbers.  None of these
  properties is inductive.  What a frame adds to the stream depends on what it carries
  (`FrameRight`: chunk = sequence number + 1, and an acknowledgement no greater than what its
  sender has received), on what the receive buffer holds at each offset (`BufferRight`), on the
  counters matching the stream (`Counted`, `Ordered`), on the slots (`SlotsRight`) and on every
  unreceived chunk still having one (`Released`).  `IInv` is their conjunction for both ends.
  The delicate step is `Slide`, which shifts the receive buffer by the length of the leading
  run.  Refinement follows: queueing a chunk is `Put` because the window has room, a DATA
  frame is `Arrive` or a stutter, a Read is `Get`.
- Behind `AllDelivered`, under `NoWrap`: `TransferIsNeverStuck` and `DeliveryIsNeverInVain`.
  While no end stops, a direction that is not finished has a writer or a reader that can go on,
  or a frame its timer can send again; and a frame that arrives is never thrown away if the
  reader lacks it.  `EndsAreSeen` (an end only sees EOF or a close that happened) keeps the
  blocked ones honest.  A writer that a socket error has turned away (`wpc = "failed"`) has
  still queued its last chunk, and that chunk is delivered too.  Behind `CloseUnblocks`, without
  `NoWrap`: `ClosedStaysStill`.

**MinecraftOutboundProofs**, for any finite set of connections and any requests and
configurations, those of the tunnel included: `OutboundTypeCorrect`, `OnlyListedServed`,
`PreambleComplete`, `EverythingGivenBack`, `OnlineCountRight`.  `IInv` says, label by label, who
holds the lock (`LockRight`), what the server connection is (`ServerRight`), which checks have
been passed (`ChecksRight`) and what has been written (`WireRight`); the count is the
cardinality of the set of players, kept by adding or removing one element.
`LockWhileReading` sharpens `LockRight` to "exactly while"; `ConnectionsGoForward` counts down the
labels of a connection (`Ahead`), so that no way through InjectConnection is endless and each
gives the lock back; `PanicsAreOfTunnels` says whose type assertion fails, a case the run leaves
out and the proof has.

**TransportSelectorProofs**, for any threshold, stickiness and range of round trips:
`SelectorTypeCorrect`, `BestPathPreferred`, `ConfiguredPathPreferred`, and the action property
`PreferenceIsSticky`, all from one lemma on what `chooseLocked` returns and an `IInv` that is
the conjunction of the first three.
`GivenUpAtThreshold` says when a path is given up, and `RoundsConverge` measures how many failures
the worse path may still have (`Credit`): it is what `Converges` needs beyond fairness.

**TunnelListenerProofs**, for any number of dialers and session values, any limits, with and
without sweeps and Close: `ListenerTypeCorrect`, `LimitsHold`, `SessionsAreRoutable`,
`HandshakeAgrees`.  Every action is reduced to what it does to `Mapped`, the values their ids
are mapped to: SynAccepted adds one, a callback or a sweep takes out whoever one id is mapped
to. `CallbackRemoves` strengthens the properties: without sweeps a session whose callback has
not run is mapped, so that removeSession takes out its own session and nobody else's.
`PlacesAreHeld` says who will give back each place (`PlacesHeld`: what is in the queue is new,
and what leaves the map leaves by its callback or by a sweep), `CloseNeedsEmptyMap` that Close
gets past a session only when there is none, for any number of them.  `HandshakeAgrees` is
`DialersAreServed`: a Dial that succeeded has a session the listener made for it, was refused by
a RST, or has lost its socket (`Agreement`, about the frames that were ever sent), and no
session is made for a dialer that has not begun.

**ServiceLifecycleProofs**, for any sequence of versions, any number of connections, and
whatever fails on the way: `ServiceTypeCorrect`, `SecretIsCurrent`, `ListensWhenReady`,
`SocketsAreHeld`.  The properties are about what a connection has seen when it is handled; the
invariant has to say of which version each field is at each label of an update
(`VersionsInOrder`), that the legacy outbound and the lists of a version are in place for as
long as anything of that version may be accepted (`PreparedFirst`), what a connection has been
checked against on its way (`Checked`), and at which labels a field is nil (`NoListener`, without
which a Listen could drop a socket that is open).
The action properties follow from it: `AcceptedUnderItsConfig` with `PortsAreConfigured`: the
unlocked `s.config` is swapped while no socket is open, so a loop takes a connection under the
config that opened its port; the exception, which the theorem states, is one that was left in a
tunnel's queue and whose session is gone.  `LoopsRunOutOfTurns` says that after Close no loop
waits for a connection, and that what each may still do (`Turns`) only goes down: the loop of a
tunnel may take a queued connection first.

**HotReloadProofs**, for any sequence of files, any outbounds, services and connections, and
however often a Listen fails:

- `ReloadTypeCorrect`, `SecretsFirst`, `RoutesAreConsistent`, `UpdateSettles`, `OneConfigSeen`.
  The argument is about who holds which lock.  A connection that has entered an outbound is
  among the readers and has read what the config is now (`ReadersHold`); the loop is the one
  writer and refreshes the secret before it asks for the lock (`OneWriter`).  The router's map is
  published only when all it names is of the new version, which needs what the half-built map
  contains at each step of the update (`MapGrows`, `MapIsNew`), that nothing runs ahead of `root`
  (`NotAhead`), that an object is as new as the version that created it (`CreatedBefore`), and
  that services come last (`ServicesLast`).  `Settled` is `SettledConsistent` at every label: from
  the Commit that establishes it to the Load that ends it.
- `WritersWait`: no step writes a config that a connection is reading (an action property).
- `LoopNeverDeadlocks`: a connection the loop waits for does not wait for the loop.  The
  router's lock is held across the entry into an outbound, and a waiting writer keeps new
  readers out, so a cycle is conceivable: the loop wants the router, a routed connection holds
  it and wants an outbound, whose writer the loop was.  `LocksHeld` and `OneWriter` rule it out:
  the loop has released every outbound when it asks for the router.  This is safety only: a
  client that holds a lock for ever stops the loop all the same (section 7).
- `LocksAreReleased`, `LoopIsNeverStuck`, `NoEditGoesMissing`, `VersionsOnlyGrow`,
  `UpdateVisitsOnce`: the loop can take its next step, or a connection that does not wait for it
  holds the lock it wants; it visits each name once in each of its loops; an edit that parses is
  never lost between the watcher and Root; and nothing goes back to an older version.

**RelayProofs**, for streams of any length and any way of setting a service up:
`RelayTypeCorrect`, `UploadIsExact`, `SnifferRewinds`, `HandlerLeavesNothing`,
`DownloadIsComplete`, `CrashesAreExplained`.  Up to the relay the label says where the cursor of
the cache stands (`CursorBefore`, `CursorAfter`) and that the cache ends where the next read of
the socket begins (`CacheEnd`); what the server has received is then as long as the label and
the number of units read say (`Progress`), and element by element what is due (`AsDue`, over
`DueAt`, which `DueFacts` and `PrefixOfDue` turn into the prefix the property speaks of).
`LastWords` carries `DownloadComplete` through the two loops: the one that ends first has left
nothing of the server's behind, or the client's own bytes are still unread.
`CrashesAreExplained` says that a handler panics for two reasons only: a plain outbound's dial
has failed, or the download's Close has released the cache between the upload's test for it and
its use. `NobodyIsStuck` and `RelayRunsDown` are the two halves of `RelayEnds`: at every label
either a goroutine can go on or the peer it waits for is there, and a measure (`StepsLeft`, over
labels, streams and the cache) goes down with each of their steps.  The measure is that of a
relay that began with nothing cached (`clean`): with a cache, `relay_resend` shows there is
none.

**SocksClientProofs**, for names and streams of any length: `HandshakeTypeCorrect`,
`OnlyGrantedSucceeds`, `StreamUntouched`, `NeverWaitsInVain`.  The lemmas say how long the answers
are and which byte stands where; the invariant says how many requests have been written
(`Asked`) and, while no Read was short, how much of the answers has been read at each point and
what the server must have granted by then (`Position`).  `NeverWaitsInVain` is the safety behind
`HandshakeEnds`: a read that blocks waits for an answer the server owes, or for bytes that are
sent.  It includes torn answers, of which `Behind` says that they only leave the client behind;
the one step where that is not plain is a method reply cut after its first byte, after which the
head begins with the method, is not taken for version 5, and ends the dial (`HeadInPlace`).
`HandshakeMarches` counts the client's steps down, and `FailedDialsCloseTheirs` says that an error
leaves no connection open.

The type theorems state no property of a run; the other proofs rest on them.  The theorems whose
formulas only the proof modules define are those about panics and circular waits (`WritersWait`,
`LoopNeverDeadlocks`, `CrashesAreExplained`, `PanicsAreOfTunnels`), those named below as the
safety behind a liveness property, and those on locks, configurations, thresholds and handshakes
named above.  The inductive invariants and these formulas were model-checked on small constants
before they were proved.

Model-checked only:

- liveness, which rests on fairness and so is out of the prover's reach.  What each of these
  properties needs of the code, besides goroutines that run and frames that arrive, is proved:

  | Property | rests on |
  |---|---|
  | `AllDelivered` | `TransferIsNeverStuck`, `DeliveryIsNeverInVain` |
  | `CloseUnblocks` | `NoWakeupIsLost`, `ClosedStaysStill` |
  | `PlacesReturn` | `PlacesAreHeld` |
  | `CloseReturns` (violated) | `CloseNeedsEmptyMap` |
  | `Converges` | `RoundsConverge` |
  | `FileTakesEffect` | `NoEditGoesMissing`, `LoopIsNeverStuck`, `UpdateVisitsOnce` |
  | `ConnectionsProceed` | `LocksAreReleased`, `LoopNeverDeadlocks`, `LoopIsNeverStuck` |
  | `RelayEnds` | `NobodyIsStuck`, `RelayRunsDown` |
  | `LoopsEnd` | `LoopsRunOutOfTurns` |
  | `HandshakeEnds` | `NeverWaitsInVain`, `HandshakeMarches` |

  "Can go on" is ENABLED of an action, which the prover cannot handle.  The predicates in its
  place (`HandlerMoves`, `LoopMoves`, `WriterMoves`, ...) repeat the guards of the actions,
  conjunct by conjunct, in terms of the unprimed variables; TLC has compared them with ENABLED.
  The step from these theorems to the liveness property itself is not proved;
- `RoutedAsMeant`, `HostnameMeaning` and `ExitReleases`, the properties of `Routing`:
  `DomainMatcher`, `Rules` and `Routing` compute over data and recurse over nested rules, and what
  a recursion returns for every input takes an induction over data.  The run enumerates inputs.

## 7. Where the code does not do what it should

Shown by a run that is expected to be violated:

- `listener_deadlock`: `Listener.Close` calls the sessions' callbacks with `l.mu` held and the
  callback locks `l.mu` (`listener.go:85`, `:93`).  Closing, and so reloading, a service with a
  live tunnel hangs.  `reload` and `service` have this state (`hung`, `stuck`).
- `relay_resend`: `Buffer.WriteTo` does not advance (`buffer.go:219`) and `CopyBuffer` loops
  while the cache is not empty (`copy.go:44-48`).  Bytes sniffed for a plain outbound are
  written for ever.

In the models, which do as the code does; the properties are stated for what remains true:

- Sequence numbers are compared without wrap-around (`session.go:160`): condition `NoWrap`.
- A FIN carries no sequence number, so EOF may precede data (`session.go:131`), and a closed
  session answers nothing, so a Write at the other end waits for ever (`session.go:109`):
  `AllDelivered` speaks of sessions nobody closes, `CloseUnblocks` of the closed end.
- A RST closes the handshake channel, and Dial takes it for success (`session.go:138`,
  `dial.go:107`).
- The idle sweep does not invoke onClosed (`listener.go:202`), which `session.go:42` promises.
- A status client that never pings holds the outbound's lock and stops all reloads
  (`minecraft/outbound.go:434`): one of the exceptions of `Obstructed`.
- A Start that fails, at a port (`service.go:253`, `:269`) or at the configuration before any
  (`service.go:202-236`), leaves a service that refuses every later reload (`service.go:282`); a
  service that a file drops is never closed, so that its port is taken when a later file has it
  again.  These, with the two above, are what `Obstructed` names, and `FileTakesEffect` promises
  the last file only without them.
- A read error that is no timeout closes a dialer's session, and Dial takes that for success
  too (`dial.go:71-73`): the third case of `DialersAreServed`.
- Accept of a closed tunnel listener may still hand out a queued connection
  (`udptunnel/listener.go:47-57`): it is served under a later config, with a newer secret.
- A connection between the read of the lists and that of the mode may meet the next config
  (`service.go:128-129`, `:287`): `access.Check` panics on the mode it lacks: `crashed`.
- A socket error makes Write return an error for a chunk that is queued and will be delivered
  (`session.go:229`): `AllDelivered` includes that chunk.
- The limit of players is tested before they are counted (`minecraft/outbound.go:484`, `:550`).
- Refusing a connection of the tunnel panics on a type assertion (`minecraft/outbound.go:478`).
- Sniffing "all" does not rewind (`sniff.go:54`): condition in `UploadExact`.
- An idle sweep between forceClose and removeSession lets a late SYN map a new session, which
  removeSession then deletes from the map (`listener.go:97`): `orphaned`.
- The upload that ends first loses what the server was still sending (`copy.go:23`):
  condition in `DownloadComplete`.
- The SOCKS 5 client reads with Read where it needs every byte (`client5.go:129`): an answer
  that comes in pieces leaves zeros, and zero is success: `torn`.
- A name in both the domains and the suffixes of a rule loses its suffix (`builder.go:18`):
  condition in `Means`.  The names of a rule are not brought to lower case, the host is:
  a rule with capitals matches nothing.
- A sniffer nobody registered ends the process at the first connection that matches
  (`sniff.go:62`).  An intent is written over whatever a failed sniff has left
  (`router.go:109`), and a sniff that stops half way keeps the host or the intent it has.
- A login through the legacy outbound of a service uses a cache that was released one line
  before, and panics (`service.go:183`): `LegacyPanics`.
- A failed dial of a plain outbound goes on to CopyConn with a nil connection
  (`router.go:150-155`); the cache is released while it is used (`cached.go:103`, `:120`); an
  accept loop may call Accept on a nil tunnel listener (`service.go:79`): `crashed`.

Met while reading, outside the models: an outbound added by a reload never gets PostInitialize
(`zbproxy.go:166`); outbounds that a file no longer names are never closed; a missing file is
generated as `ZBProxy.json` whatever its path (`root.go:218`); a host rule without names panics
when it is made (`domain/set.go:25`); `Buffer.Write` drops what does not fit without an error
(`buffer.go:82`), and `WriteZeroN` writes one byte more than it counts (`buffer.go:181`).

## 8. Not modelled

- Codecs: the 22-byte tunnel header, VarInts and Minecraft packets, the bytes of PROXY
  headers.  They are sequential functions of bytes without state; the models take a packet as
  read, unreadable or cut off.
- Sniffers registered by another program, and rules that change the metadata; construction of
  rules, except that it may fail; how a list is read and a network is parsed.
- MOTD and kick texts, logging, the console, version checks, socket options, `main`.
- The pool behind `common/buf`; SRV resolution.
- Real time: retransmission intervals, round-trip estimation, deadlines as lengths.

## 9. Plan

Done so far, in this order: session, its abstract specification and proofs; selector and
proofs; Minecraft outbound and proofs; hot reload; listener; relay; service; the dialer's
timer; SOCKS client; rules, host names and routing; proofs of the listener, of the SOCKS
client, of the service, of hot reload and of the relay; the safety behind each liveness
property.  Every safety property of a run is a theorem, but for those of `Routing`.

Next, by importance:

1. Packet codecs: VarInts and the limits a length prefix is checked against, for which a
   reference definition over bounded inputs would do.
2. A composition of `TunnelListener` and `TunnelSession` on one id that is used again.

## 10. Running

    tlc -workers 2 -config MCTunnelSession.cfg MCTunnelSession
    tlapm TunnelSessionProofs.tla

Each `.cfg` belongs to the module whose name it begins with (`MCTransportSelector.cfg` to
`TransportSelector`).  The largest runs take about two minutes, the proofs together about nine.
