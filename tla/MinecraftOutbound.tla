--------------------------- MODULE MinecraftOutbound ---------------------------
(***************************************************************************)
(* protocol/minecraft/outbound.go: what InjectConnection does with each    *)
(* connection of one outbound between two reloads.  Every connection runs  *)
(* in a goroutine of its own; they share the outbound's read lock, its     *)
(* configuration and onlineCount.                                          *)
(*                                                                         *)
(* Dials and writes can fail.  An item of a server connection's `wire` is  *)
(* one Write of the code that succeeded; the packets' layout is left out.  *)
(* A type assertion that fails is a panic in the goroutine, and ends the   *)
(* process.  Reloads are HotReload's.                                      *)
(***************************************************************************)
EXTENDS Integers, Sequences, FiniteSets

CONSTANTS
  Conns,      \* connections given to InjectConnection
  Requests,   \* what a client may ask for: a subset of Request
  Configs     \* the configurations to consider: a subset of Config

NoLimit == -1

\* `listed` of the client's hostname and player name: whether access.Check
\* lets them pass.
Request == [intent : {"status", "login", "transfer", "invalid"},
            network : {"tcp", "udp"}, hostListed : BOOLEAN, nameListed : BOOLEAN]

\* The fields of config.Outbound that InjectConnection and connectServer test;
\* haveSecret: authSecret is not empty.
Config == [hostAccess : BOOLEAN, nameAccess : BOOLEAN, ownMotd : BOOLEAN,
           pingMode : {"disconnect", "0ms", "echo"}, max : Nat \cup {NoLimit},
           sendSecret : BOOLEAN, haveSecret : BOOLEAN, proxy : BOOLEAN]

ASSUME OutboundAssumption ==
  IsFiniteSet(Conns) /\ Requests \subseteq Request /\ Configs \subseteq Config

VARIABLES
  cfg, req,   \* the outbound's configuration, each client's request
  pc,         \* where each connection's goroutine is
  readers,    \* connections that hold o.access for reading
  online,     \* onlineCount
  server,     \* each connection's server side: "none", "open" or "closed"
  wire,       \* what was written to it before the relay
  crashed     \* a goroutine has panicked

vars == <<cfg, req, pc, readers, online, server, wire, crashed>>

Init ==
  /\ cfg \in Configs /\ req \in [Conns -> Requests]
  /\ pc = [c \in Conns |-> "new"]
  /\ readers = {}
  /\ online = 0
  /\ server = [c \in Conns |-> "none"]
  /\ wire = [c \in Conns |-> <<>>]
  /\ crashed = FALSE

-----------------------------------------------------------------------------
Login(c) == req[c].intent = "login"

Goto(c, label) == pc' = [pc EXCEPT ![c] = label]

\* Every return releases the lock first.
Return(c) == Goto(c, "done") /\ readers' = readers \ {c}

\* conn.Conn.(*net.TCPConn), after the lock is released: a connection that came
\* through the tunnel is none.
ReturnLingering(c) == Return(c) /\ crashed' = (req[c].network # "tcp")

HostRefused(c) == cfg.hostAccess /\ ~req[c].hostListed

\* The lock is taken and the hostname is checked; then the intent decides.
Inject(c) ==
  /\ pc[c] = "new"
  /\ \/ /\ req[c].intent = "invalid"
        /\ Goto(c, "done") /\ UNCHANGED <<readers, crashed>>
     \/ /\ req[c].intent \in {"status", "login"} /\ ~HostRefused(c)
        /\ Goto(c, req[c].intent)
        /\ readers' = readers \cup {c} /\ UNCHANGED crashed
     \/ /\ req[c].intent # "invalid" /\ (HostRefused(c) \/ req[c].intent = "transfer")
        /\ ReturnLingering(c)
  /\ UNCHANGED <<cfg, req, online, server, wire>>

-----------------------------------------------------------------------------
(***************************************************************************)
(* Status requests.                                                        *)
(***************************************************************************)
\* Mutant: the lock stays held when the client has gone.
Status_KeepsLock(c) ==
  /\ pc[c] = "status"
  /\ \/ Goto(c, IF cfg.ownMotd THEN "motd" ELSE "dial") /\ UNCHANGED readers
     \/ Goto(c, "done") /\ UNCHANGED readers
  /\ UNCHANGED <<cfg, req, online, server, wire, crashed>>

\* The Status Request packet is skipped, or the client is gone.
Status(c) ==
  /\ pc[c] = "status"
  /\ \/ Goto(c, IF cfg.ownMotd THEN "motd" ELSE "dial") /\ UNCHANGED readers
     \/ Return(c)
  /\ UNCHANGED <<cfg, req, online, server, wire, crashed>>

\* The MOTD is written; in the default ping mode the client's ping is awaited.
RespondMotd(c) ==
  /\ pc[c] = "motd"
  /\ \/ cfg.pingMode = "echo" /\ Goto(c, "ping") /\ UNCHANGED readers
     \/ Return(c)
  /\ UNCHANGED <<cfg, req, online, server, wire, crashed>>

RespondPing(c) ==
  /\ pc[c] = "ping"
  /\ Return(c)
  /\ UNCHANGED <<cfg, req, online, server, wire, crashed>>

-----------------------------------------------------------------------------
(***************************************************************************)
(* Logins: name access, then the player limit.                             *)
(***************************************************************************)
NameRefused(c) == cfg.nameAccess /\ ~req[c].nameListed
LimitReached == cfg.max # NoLimit /\ cfg.max <= online

\* Mutant: the limit is tested, the list is not.
CheckPlayer_LimitOnly(c) ==
  /\ pc[c] = "login"
  /\ IF LimitReached THEN Return(c) \/ ReturnLingering(c)
     ELSE Goto(c, "dial") /\ UNCHANGED <<readers, crashed>>
  /\ UNCHANGED <<cfg, req, online, server, wire>>

\* The kick packet may fail to reach the client: an error, without SetLinger.
CheckPlayer(c) ==
  /\ pc[c] = "login"
  /\ \/ /\ ~NameRefused(c) /\ ~LimitReached
        /\ Goto(c, "dial") /\ UNCHANGED <<readers, crashed>>
     \/ /\ NameRefused(c) \/ LimitReached
        /\ ReturnLingering(c) \/ (Return(c) /\ UNCHANGED crashed)
  /\ UNCHANGED <<cfg, req, online, server, wire>>

-----------------------------------------------------------------------------
(***************************************************************************)
(* connectServer, and the handshake packet.                                *)
(***************************************************************************)
Dial(c) ==
  /\ pc[c] = "dial"
  /\ \/ server' = [server EXCEPT ![c] = "open"] /\ Goto(c, "secret") /\ UNCHANGED readers
     \/ UNCHANGED server /\ Return(c)
  /\ UNCHANGED <<cfg, req, online, wire, crashed>>

Written(c, item, label) ==
  /\ wire' = [wire EXCEPT ![c] = Append(@, item)]
  /\ Goto(c, label)
  /\ UNCHANGED <<readers, server>>

GiveUp(c) ==
  /\ server' = [server EXCEPT ![c] = "closed"]
  /\ Return(c) /\ UNCHANGED wire

\* Mutant: a secret that is not set is no error.
SendSecret_Optional(c) ==
  /\ pc[c] = "secret"
  /\ IF cfg.sendSecret /\ cfg.haveSecret THEN Written(c, "secret", "proxy") \/ GiveUp(c)
     ELSE Goto(c, "proxy") /\ UNCHANGED <<readers, server, wire>>
  /\ UNCHANGED <<cfg, req, online, crashed>>

\* The write fails, or there is no secret to send.
SendSecret(c) ==
  /\ pc[c] = "secret"
  /\ \/ ~cfg.sendSecret /\ Goto(c, "proxy") /\ UNCHANGED <<readers, server, wire>>
     \/ cfg.sendSecret /\ cfg.haveSecret /\ Written(c, "secret", "proxy")
     \/ cfg.sendSecret /\ GiveUp(c)
  /\ UNCHANGED <<cfg, req, online, crashed>>

SendProxyHeader(c) ==
  /\ pc[c] = "proxy"
  /\ \/ ~cfg.proxy /\ Goto(c, "handshake") /\ UNCHANGED <<readers, server, wire>>
     \/ cfg.proxy /\ Written(c, "proxy", "handshake")
     \/ cfg.proxy /\ GiveUp(c)
  /\ UNCHANGED <<cfg, req, online, crashed>>

\* The connection of a failed status request is not closed.
HandshakeFails(c) ==
  IF Login(c) THEN GiveUp(c) ELSE Return(c) /\ UNCHANGED <<server, wire>>

\* The rewritten handshake and, in the same write, what the client sent after it.
Handshake(c) ==
  /\ pc[c] = "handshake"
  /\ \/ /\ wire' = [wire EXCEPT ![c] = Append(@, "handshake")]
        /\ Goto(c, IF Login(c) THEN "joined" ELSE "relay")
        /\ readers' = readers \ {c} /\ UNCHANGED server
     \/ HandshakeFails(c)
  /\ UNCHANGED <<cfg, req, online, crashed>>

-----------------------------------------------------------------------------
Join(c) ==
  /\ pc[c] = "joined"
  /\ online' = online + 1 /\ Goto(c, "relay")
  /\ UNCHANGED <<cfg, req, readers, server, wire, crashed>>

\* Mutant: a player who leaves is not counted out.
EndRelay_Uncounted(c) ==
  /\ pc[c] = "relay"
  /\ server' = [server EXCEPT ![c] = "closed"]
  /\ Goto(c, "done")
  /\ UNCHANGED <<cfg, req, readers, online, wire, crashed>>

\* CopyConn returns: both sides are closed.
EndRelay(c) ==
  /\ pc[c] = "relay"
  /\ server' = [server EXCEPT ![c] = "closed"]
  /\ Goto(c, IF Login(c) THEN "left" ELSE "done")
  /\ UNCHANGED <<cfg, req, readers, online, wire, crashed>>

Leave(c) ==
  /\ pc[c] = "left"
  /\ online' = online - 1 /\ Goto(c, "done")
  /\ UNCHANGED <<cfg, req, readers, server, wire, crashed>>

Next ==
  /\ ~crashed
  /\ \E c \in Conns :
       \/ Inject(c) \/ Status(c) \/ RespondMotd(c) \/ RespondPing(c) \/ CheckPlayer(c)
       \/ Dial(c) \/ SendSecret(c) \/ SendProxyHeader(c) \/ Handshake(c)
       \/ Join(c) \/ EndRelay(c) \/ Leave(c)

Spec == Init /\ [][Next]_vars

-----------------------------------------------------------------------------
Item == {"secret", "proxy", "handshake"}

\* The values the outbound's fields and the goroutines' states take.
TypeOK ==
  /\ cfg \in Configs /\ req \in [Conns -> Requests]
  /\ pc \in [Conns -> {"new", "status", "motd", "ping", "login", "dial", "secret", "proxy",
                       "handshake", "joined", "relay", "left", "done"}]
  /\ readers \subseteq Conns
  /\ online \in Nat
  /\ server \in [Conns -> {"none", "open", "closed"}]
  /\ wire \in [Conns -> Seq(Item)]
  /\ crashed \in BOOLEAN

\* "Whitelist/Blacklist for ... Minecraft player name": the server is only ever
\* dialled for a hostname, and a player, that the lists let pass.
ServedAreListed == \A c \in Conns :
  server[c] # "none" => ~HostRefused(c) /\ (Login(c) => ~NameRefused(c))

\* What a server has been sent when the relay begins: "Auth secret first (before
\* PROXY protocol), only when explicitly enabled", then the handshake, all of it.
Preamble ==
  (IF cfg.sendSecret THEN <<"secret">> ELSE <<>>)
    \o (IF cfg.proxy THEN <<"proxy">> ELSE <<>>) \o <<"handshake">>

\* Nothing else is ever written to a server before the relay, in no other order,
\* and no relay begins without all of it (connectServer, InjectConnection).
PreambleFirst == \A c \in Conns :
  /\ wire[c] = SubSeq(Preamble, 1, Len(wire[c]))
  /\ pc[c] \in {"joined", "relay", "left"} => wire[c] = Preamble

\* A goroutine that relays or has returned keeps neither the outbound's lock,
\* which a reload waits for, nor, for a login, a connection to the server.
NothingKept == \A c \in Conns :
  /\ pc[c] \in {"joined", "relay", "left", "done"} => c \notin readers
  /\ pc[c] = "done" /\ Login(c) => server[c] # "open"

\* The players MOTD and limit count are the logins being relayed: no way out of
\* InjectConnection leaves a ghost behind or counts a player out twice.
Players == {c \in Conns : Login(c) /\ pc[c] \in {"relay", "left"}}
PlayersCounted == online = Cardinality(Players)
=============================================================================
