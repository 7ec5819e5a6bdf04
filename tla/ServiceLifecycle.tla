--------------------------- MODULE ServiceLifecycle ---------------------------
(***************************************************************************)
(* service/service.go: one Service being started, reloaded and closed by   *)
(* one goroutine while its accept loops hand connections to handleInbound. *)
(* The fields of Service are read and written without a lock (only         *)
(* authSecret is an atomic.Value), so every access is a step of its own.   *)
(*                                                                         *)
(* Configs are the versions the service runs with, in order.  A listener,  *)
(* a list, a legacy outbound and a secret are named by the version they    *)
(* were made for.  Of the tunnel listener (TunnelListener) the module      *)
(* keeps its queue, which Accept may still serve once it is closed, and    *)
(* which sessions it still maps: its Close does not return if there is one.*)
(***************************************************************************)
EXTENDS Integers, Sequences, FiniteSets

CONSTANTS
  Conns,      \* connections that clients make
  Configs     \* the versions: a sequence of Config

\* EnableTCP, EnableUDP; whether RequireAuthSecret, IPAccess.Mode and Minecraft
\* are set, and whether the root has an AuthSecret.
Config == [nets : SUBSET {"tcp", "udp"}, require : BOOLEAN, access : BOOLEAN,
           minecraft : BOOLEAN, haveSecret : BOOLEAN]

ASSUME ServiceAssumption == Configs \in Seq(Config) /\ Configs # <<>>

Version == 1 .. Len(Configs)
Nil == 0
Nets == {"tcp", "udp"}

VARIABLES
  target,    \* version being put in force, or in force
  upc,       \* the goroutine of UpdateConfig
  config, authSecret, legacyOutbound, ipAccessLists,   \* fields of Service
  listener,  \* tcpListener and udpListener
  started,
  open,      \* listening sockets that are open, as <<net, version>>
  mapped,    \* connections whose session the tunnel listener has in its map
  loops,     \* accept loops, by <<net, version>> of the go statement: "off",
             \* "read" the field, "accept" or "ended"
  accepting, \* the version of the listener a loop waits on
  cpc,       \* handleInbound of each connection; before it, "queued" in acceptCh
  from,      \* version of the listener that queued or accepted it
  saw,       \* history: what it was checked against
  crashed    \* a panic: Accept of a nil *udptunnel.Listener, or access.Check
             \* in a mode it does not know

fields == <<config, legacyOutbound, ipAccessLists, listener, started>>
loopVars == <<loops, accepting>>
connVars == <<cpc, from, saw, mapped>>
vars == <<target, upc, fields, authSecret, open, loopVars, connVars, crashed>>

Socket == Nets \X Version
Nothing == [secret |-> Nil, lists |-> Nil, legacy |-> Nil, at |-> Nil]

\* NewService, for the first version; Instance.Start goes on.
Init ==
  /\ target = 1 /\ upc = "secret"
  /\ config = 1 /\ authSecret = Nil /\ legacyOutbound = Nil /\ ipAccessLists = Nil
  /\ listener = [n \in Nets |-> Nil] /\ started = FALSE
  /\ open = {}
  /\ loops = [s \in Socket |-> "off"] /\ accepting = [s \in Socket |-> Nil]
  /\ cpc = [c \in Conns |-> "none"]
  /\ from = [c \in Conns |-> Nil]
  /\ saw = [c \in Conns |-> Nothing]
  /\ mapped = {}
  /\ crashed = FALSE

-----------------------------------------------------------------------------
(***************************************************************************)
(* Instance.Start, UpdateConfig.                                           *)
(***************************************************************************)
\* The next version is loaded, or the instance closes the service.
NextVersion ==
  /\ upc = "idle" /\ target < Len(Configs)
  /\ target' = target + 1 /\ upc' = "secret"
  /\ UNCHANGED <<fields, authSecret, open, loopVars, connVars, crashed>>

\* Mutant: the secret is set when the service has been started.
SetAuthSecret_Last ==
  /\ upc \in {"secret", "idle"}
  /\ authSecret' = IF upc = "idle" THEN target ELSE authSecret
  /\ upc' = IF upc = "idle" THEN "idle" ELSE IF target = 1 THEN "legacy" ELSE "reload"
  /\ UNCHANGED <<target, fields, open, loopVars, connVars, crashed>>

\* "SetAuthSecret before Reload so the new accept loop sees the current key."
SetAuthSecret ==
  /\ upc = "secret"
  /\ authSecret' = target
  /\ upc' = IF target = 1 THEN "legacy" ELSE "reload"
  /\ UNCHANGED <<target, fields, open, loopVars, connVars, crashed>>

\* Reload of a service that is not running is refused.
Refuse ==
  /\ upc = "reload" /\ ~started
  /\ upc' = "idle"
  /\ UNCHANGED <<target, fields, authSecret, open, loopVars, connVars, crashed>>

-----------------------------------------------------------------------------
(***************************************************************************)
(* Close, and the rest of Reload: `then` is what follows.  The tunnel      *)
(* listener closes its socket, then waits for ever if it maps a session.   *)
(***************************************************************************)
CloseSocket(net) ==
  /\ <<net, listener[net]>> \in open
  /\ open' = open \ {<<net, listener[net]>>}
  /\ UNCHANGED <<upc, listener>>

Forget(net, then) ==
  /\ <<net, listener[net]>> \notin open /\ (net = "udp" => mapped = {})
  /\ listener' = [listener EXCEPT ![net] = Nil] /\ upc' = then
  /\ UNCHANGED open

CloseHangs(net) ==
  /\ net = "udp" /\ listener[net] # Nil /\ <<net, listener[net]>> \notin open /\ mapped # {}
  /\ upc' = "stuck"
  /\ UNCHANGED <<open, listener>>

CloseListener(net, label, then) ==
  /\ upc = label
  /\ CloseSocket(net) \/ Forget(net, then) \/ CloseHangs(net)
  /\ UNCHANGED <<target, config, legacyOutbound, ipAccessLists, started, authSecret, loopVars,
                 connVars, crashed>>

BeginClose(label) ==
  /\ upc = label /\ started
  /\ upc' = IF label = "reload" THEN "close tcp" ELSE "stop tcp"
  /\ UNCHANGED <<target, fields, authSecret, open, loopVars, connVars, crashed>>

\* Close has closed both; Reload goes on with the new config.
Closed ==
  /\ upc \in {"closed", "stopped"}
  /\ started' = FALSE
  /\ upc' = IF upc = "closed" THEN "config" ELSE "down"
  /\ UNCHANGED <<target, config, legacyOutbound, ipAccessLists, listener, authSecret, open,
                 loopVars, connVars, crashed>>

SwapConfig ==
  /\ upc = "config"
  /\ config' = target /\ upc' = "no legacy"
  /\ UNCHANGED <<target, legacyOutbound, ipAccessLists, listener, started, authSecret, open,
                 loopVars, connVars, crashed>>

DropLegacy ==
  /\ upc = "no legacy"
  /\ legacyOutbound' = Nil /\ upc' = "no lists"
  /\ UNCHANGED <<target, config, ipAccessLists, listener, started, authSecret, open, loopVars,
                 connVars, crashed>>

DropLists ==
  /\ upc = "no lists"
  /\ ipAccessLists' = Nil /\ upc' = "legacy"
  /\ UNCHANGED <<target, config, legacyOutbound, listener, started, authSecret, open, loopVars,
                 connVars, crashed>>

-----------------------------------------------------------------------------
(***************************************************************************)
(* Start.  Every step can fail, and returns with what was done before it.  *)
(***************************************************************************)
\* It fails before the outbound is set (TLSSniffing is there too) or in its PostInitialize.
StartLegacy ==
  /\ upc = "legacy"
  /\ \/ legacyOutbound' = (IF Configs[config].minecraft THEN config ELSE legacyOutbound)
        /\ upc' = "lists"
     \/ Configs[config].minecraft /\ legacyOutbound' \in {legacyOutbound, config} /\ upc' = "idle"
  /\ UNCHANGED <<target, config, ipAccessLists, listener, started, authSecret, open, loopVars,
                 connVars, crashed>>

\* Mutant: the access lists are looked up in the background.
LoadLists_Lazy ==
  /\ upc = "lists"
  /\ upc' = "tcp"
  /\ UNCHANGED <<target, fields, authSecret, open, loopVars, connVars, crashed>>

\* FindListsByTag returns no lists with its error.
LoadLists ==
  /\ upc = "lists"
  /\ \/ ipAccessLists' = (IF Configs[config].access THEN config ELSE ipAccessLists) /\ upc' = "tcp"
     \/ Configs[config].access /\ ipAccessLists' = Nil /\ upc' = "idle"
  /\ UNCHANGED <<target, config, legacyOutbound, listener, started, authSecret, open, loopVars,
                 connVars, crashed>>

\* Open the socket, store it in its field, start the loop.
Opened(net, then) ==
  LET s == <<net, config>> IN
  /\ open' = open \cup {s}
  /\ listener' = [listener EXCEPT ![net] = config]
  /\ loops' = [loops EXCEPT ![s] = "read"]
  /\ upc' = then

\* EnableUDP without ListenUDP is an error like that of Listen.
ListenTCP ==
  /\ upc = "tcp"
  /\ IF "tcp" \in Configs[config].nets
     THEN Opened("tcp", "udp") \/ (upc' = "idle" /\ UNCHANGED <<open, listener, loops>>)
     ELSE upc' = (IF Configs[config].nets = {} THEN "idle" ELSE "udp")
          /\ UNCHANGED <<open, listener, loops>>
  /\ UNCHANGED <<target, config, legacyOutbound, ipAccessLists, started, authSecret, accepting,
                 connVars, crashed>>

\* Mutant: a tunnel port that cannot be opened leaves the TCP listener open.
ListenFails_Leak == UNCHANGED <<open, listener>>

ListenFails ==
  /\ open' = open \ {<<"tcp", listener["tcp"]>>}
  /\ listener' = [listener EXCEPT !["tcp"] = Nil]

ListenUDP ==
  /\ upc = "udp"
  /\ IF "udp" \in Configs[config].nets
     THEN Opened("udp", "started") \/ (upc' = "idle" /\ ListenFails /\ UNCHANGED loops)
     ELSE upc' = "started" /\ UNCHANGED <<open, listener, loops>>
  /\ UNCHANGED <<target, config, legacyOutbound, ipAccessLists, started, authSecret, accepting,
                 connVars, crashed>>

Started ==
  /\ upc = "started"
  /\ started' = TRUE /\ upc' = "idle"
  /\ UNCHANGED <<target, config, legacyOutbound, ipAccessLists, listener, authSecret, open,
                 loopVars, connVars, crashed>>

-----------------------------------------------------------------------------
(***************************************************************************)
(* listenTCPLoop and listenUDPLoop.  Every turn reads the field again.     *)
(***************************************************************************)
LoopReads(s) ==
  /\ loops[s] = "read"
  /\ accepting' = [accepting EXCEPT ![s] = listener[s[1]]]
  /\ loops' = [loops EXCEPT ![s] = IF listener[s[1]] = Nil THEN "ended" ELSE "accept"]
  /\ crashed' = (listener[s[1]] = Nil /\ s[1] = "udp")
  /\ UNCHANGED <<target, upc, fields, authSecret, open, connVars>>

\* dispatch of a SYN puts the session in the map and its connection in the queue;
\* one that was read before the socket was closed may still do so.
TunnelQueues(c) ==
  /\ listener["udp"] # Nil /\ upc # "stuck" /\ cpc[c] = "none"
  /\ cpc' = [cpc EXCEPT ![c] = "queued"]
  /\ from' = [from EXCEPT ![c] = listener["udp"]]
  /\ mapped' = mapped \cup {c}
  /\ UNCHANGED <<target, upc, fields, authSecret, open, loopVars, saw, crashed>>

\* A RST, the idle sweep or Close of the connection takes a session out of the map,
\* and leaves its connection in the queue.
TunnelForgets(c) ==
  /\ c \in mapped /\ upc # "stuck"
  /\ mapped' = mapped \ {c}
  /\ UNCHANGED <<target, upc, fields, authSecret, open, loopVars, cpc, from, saw, crashed>>

\* Accept of the TCP socket needs the socket; that of the tunnel chooses at random
\* between the queue and the closed channel.
Acceptable(s, c) ==
  IF s[1] = "tcp" THEN <<s[1], accepting[s]>> \in open /\ cpc[c] = "none"
  ELSE cpc[c] = "queued" /\ from[c] = accepting[s]

LoopAccepts(s, c) ==
  /\ loops[s] = "accept" /\ Acceptable(s, c)
  /\ from' = [from EXCEPT ![c] = accepting[s]]
  /\ cpc' = [cpc EXCEPT ![c] = "auth"]
  /\ loops' = [loops EXCEPT ![s] = "read"] /\ accepting' = [accepting EXCEPT ![s] = Nil]
  /\ UNCHANGED <<target, upc, fields, authSecret, open, saw, mapped, crashed>>

\* Mutant: an error of Accept is taken for a passing one.
LoopEnds_Retry(s) ==
  /\ loops[s] = "accept" /\ <<s[1], accepting[s]>> \notin open
  /\ UNCHANGED vars

\* Any error of Accept ends the loop, that of a TCP socket which is still open too.
LoopEnds(s) ==
  /\ loops[s] = "accept" /\ (s[1] = "tcp" \/ <<s[1], accepting[s]>> \notin open)
  /\ loops' = [loops EXCEPT ![s] = "ended"] /\ accepting' = [accepting EXCEPT ![s] = Nil]
  /\ UNCHANGED <<target, upc, fields, authSecret, open, connVars, crashed>>

-----------------------------------------------------------------------------
(***************************************************************************)
(* handleInbound, which reads the fields as they are when it gets there.   *)
(***************************************************************************)
\* The client sent these bytes within the time it has; there are none to send when
\* the version has no AuthSecret.
MayVerify(secret) == secret # Nil /\ Configs[secret].haveSecret

\* RequireAuthSecret: the secret is loaded, and the client given up to 5 s.
Authenticate(c) ==
  /\ cpc[c] = "auth"
  /\ IF Configs[config].require
     THEN /\ saw' = [saw EXCEPT ![c].secret = authSecret]
          /\ \/ cpc' = [cpc EXCEPT ![c] = "closed"]
             \/ MayVerify(authSecret) /\ cpc' = [cpc EXCEPT ![c] = "access"]
     ELSE cpc' = [cpc EXCEPT ![c] = "access"] /\ UNCHANGED saw
  /\ UNCHANGED <<target, upc, fields, authSecret, open, loopVars, from, mapped, crashed>>

\* The check is skipped when there are no lists.
FindLists(c) ==
  /\ cpc[c] = "access"
  /\ cpc' = [cpc EXCEPT ![c] = IF ipAccessLists = Nil THEN "route" ELSE "check"]
  /\ UNCHANGED <<target, upc, fields, authSecret, open, loopVars, from, saw, mapped, crashed>>

\* The lists are read again, and the mode with them; without a mode access.Check panics.
CheckAccess(c) ==
  /\ cpc[c] = "check"
  /\ saw' = [saw EXCEPT ![c].lists = ipAccessLists]
  /\ cpc' \in {[cpc EXCEPT ![c] = to] : to \in {"route", "closed"}}
  /\ crashed' = ~Configs[config].access
  /\ UNCHANGED <<target, upc, fields, authSecret, open, loopVars, from, mapped>>

\* To the legacy outbound or to the router; what follows is Relay.
Handle(c) ==
  /\ cpc[c] = "route"
  /\ saw' = [saw EXCEPT ![c].legacy = legacyOutbound, ![c].at = target]
  /\ cpc' = [cpc EXCEPT ![c] = "served"]
  /\ UNCHANGED <<target, upc, fields, authSecret, open, loopVars, from, mapped, crashed>>

-----------------------------------------------------------------------------
Close ==
  \/ BeginClose("reload") \/ BeginClose("idle")
  \/ CloseListener("tcp", "close tcp", "close udp") \/ CloseListener("udp", "close udp", "closed")
  \/ CloseListener("tcp", "stop tcp", "stop udp") \/ CloseListener("udp", "stop udp", "stopped")
  \/ Closed

Start == StartLegacy \/ LoadLists \/ ListenTCP \/ ListenUDP \/ Started

Update ==
  /\ ~crashed
  /\ NextVersion \/ SetAuthSecret \/ Refuse \/ Close \/ SwapConfig \/ DropLegacy \/ DropLists \/ Start

Loop(s) == ~crashed /\ (LoopReads(s) \/ LoopEnds(s) \/ \E c \in Conns : LoopAccepts(s, c))
Tunnel(c) == ~crashed /\ (TunnelQueues(c) \/ TunnelForgets(c))
HandleInbound(c) == ~crashed /\ (Authenticate(c) \/ FindLists(c) \/ CheckAccess(c) \/ Handle(c))

Next ==
  \/ Update
  \/ \E s \in Socket : Loop(s)
  \/ \E c \in Conns : Tunnel(c) \/ HandleInbound(c)

Spec == Init /\ [][Next]_vars

-----------------------------------------------------------------------------
VersionOrNil == Version \cup {Nil}

\* The values of the service's fields and of the goroutines' states.
TypeOK ==
  /\ target \in Version
  /\ upc \in {"secret", "reload", "close tcp", "close udp", "closed", "config", "no legacy",
              "no lists", "legacy", "lists", "tcp", "udp", "started", "idle", "stop tcp",
              "stop udp", "stopped", "down", "stuck"}
  /\ config \in Version /\ authSecret \in VersionOrNil
  /\ legacyOutbound \in VersionOrNil /\ ipAccessLists \in VersionOrNil
  /\ listener \in [Nets -> VersionOrNil] /\ started \in BOOLEAN /\ open \subseteq Socket
  /\ loops \in [Socket -> {"off", "read", "accept", "ended"}]
  /\ accepting \in [Socket -> VersionOrNil]
  /\ cpc \in [Conns -> {"none", "queued", "auth", "access", "check", "route", "served", "closed"}]
  /\ from \in [Conns -> VersionOrNil] /\ mapped \subseteq Conns
  /\ saw \in [Conns -> [secret : VersionOrNil, lists : VersionOrNil, legacy : VersionOrNil,
                        at : VersionOrNil]]
  /\ crashed \in BOOLEAN

\* "Call before Start/Reload so the listen loop never races on an empty secret": a
\* connection is never verified with a secret older than the listener it came from.
KeyBeforeListener == \A c \in Conns :
  saw[c].secret # Nil => saw[c].secret >= from[c]

\* A port opens only when what its connections need is in place: one that is handled
\* with no later version on its way was checked against the lists of the version
\* that opened its port, and went to that version's outbound (Start).
ReadyBeforeListener == \A c \in Conns :
  cpc[c] = "served" /\ saw[c].at = from[c] =>
    /\ Configs[from[c]].access => saw[c].lists = from[c]
    /\ Configs[from[c]].minecraft => saw[c].legacy = from[c]

\* Whatever failed, the open sockets are the ones the fields hold: nothing listens
\* that a later Close would not close; and no two listeners share a port.
NothingLeftListening ==
  /\ \A s \in open : listener[s[1]] = s[2]
  /\ upc \in {"idle", "down"} /\ ~started => open = {}

(***************************************************************************)
(* Liveness.  A loop that waits for nothing runs on.                       *)
(***************************************************************************)
RunsOn(s) == loops[s] = "read" \/ (loops[s] = "accept" /\ <<s[1], accepting[s]>> \notin open)

FairSpec == Spec /\ \A s \in Socket : WF_vars(RunsOn(s) /\ Loop(s))

\* Whatever reloads came before it, Close leaves no accept loop behind, on a socket
\* that is closed or on one that was forgotten.
LoopsEnd == upc = "down" ~> crashed \/ \A s \in Socket : loops[s] \in {"off", "ended"}
=============================================================================
