--------------------------------- MODULE Relay ---------------------------------
(***************************************************************************)
(* The data path of one inbound connection, after the access checks: the   *)
(* PROXY header (common/proxyprotocol), the sniffing of the handshake      *)
(* through the cache of a CachedConn (protocol/sniff.go, common/bufio,     *)
(* common/buf), the dial with its preamble (protocol/outbound.go,          *)
(* protocol/minecraft/outbound.go), and the two goroutines of CopyConn.    *)
(*                                                                         *)
(* The client's stream is counted in units, what one Write of the client   *)
(* may hold: a PROXY header when the service expects one, the Minecraft    *)
(* handshake, the login, and more.  The server receives units of the       *)
(* client by their number, and what the proxy writes itself by name.       *)
(***************************************************************************)
EXTENDS Integers, Sequences, FiniteSets

CONSTANTS
  Setups,       \* the ways to be set up: a subset of Setup
  ClientLen,    \* bound: units the client sends after a PROXY header
  AnswerLen,    \* bound: units the server sends
  MaxWritten    \* bound: units the server reads; then it reads no more

\* What the service and the outbound say, and whether the client speaks Minecraft.
Setup == [header : BOOLEAN, sniff : {"no", "minecraft", "all"}, speaks : BOOLEAN,
          outbound : {"plain", "minecraft"}, secret : BOOLEAN, proxy : BOOLEAN]

ASSUME RelayAssumption ==
  /\ Setups \subseteq Setup
  /\ ClientLen \in Nat /\ AnswerLen \in Nat /\ MaxWritten \in Nat

\* What the proxy writes to the server itself.
Secret == 0 - 1
ProxyHeader == 0 - 2
NewHandshake == 0 - 3

VARIABLES
  setup,
  sent, client,     \* units the client has sent; "open" or "closed"
  got,              \* units read from the client's socket
  cached, cache,    \* CachedConn.cache is not nil; its cursor start and its end
  from,             \* startPosition of Sniff
  position,         \* SniffPosition, and whether a handshake was found
  valid,
  pc,               \* the handling goroutine
  up, down,         \* CopyConn's loops: the handling goroutine and the other one
  toServer,         \* what the server has received
  answered, toClient,   \* units the server has sent and the client received
  server,           \* "none", "open", "closed" by the server, "dropped" by the proxy
  dropped,          \* the proxy has closed the client's connection
  clean,            \* history: nothing was cached when CopyConn began
  crashed           \* a nil pointer was used: the process is gone

inVars == <<setup, from, position, valid>>
peers == <<sent, client, answered, server>>
vars == <<inVars, peers, got, cached, cache, pc, up, down, toServer, toClient, dropped, clean,
          crashed>>

\* A PROXY header is read as one unit, whichever version it has.
HeaderLen == IF setup.header THEN 1 ELSE 0
StreamLen == HeaderLen + ClientLen

Init ==
  /\ setup \in Setups
  /\ sent = 0 /\ client = "open" /\ got = 0
  /\ cached = setup.header /\ cache = [start |-> 0, end |-> 0]
  /\ from = 0 /\ position = 0 /\ valid = FALSE
  /\ pc = IF setup.header THEN "header" ELSE "route"
  /\ up = "off" /\ down = "off"
  /\ toServer = <<>> /\ answered = 0 /\ toClient = <<>>
  /\ server = "none" /\ dropped = FALSE
  /\ clean = TRUE /\ crashed = FALSE

-----------------------------------------------------------------------------
(***************************************************************************)
(* The two peers.                                                          *)
(***************************************************************************)
ClientSends ==
  /\ client = "open" /\ sent < StreamLen /\ ~dropped
  /\ sent' = sent + 1
  /\ UNCHANGED <<inVars, client, answered, server, got, cached, cache, pc, up, down, toServer,
                 toClient, dropped, clean, crashed>>

ClientCloses ==
  /\ client = "open"
  /\ client' = "closed"
  /\ UNCHANGED <<inVars, sent, answered, server, got, cached, cache, pc, up, down, toServer,
                 toClient, dropped, clean, crashed>>

ServerAnswers ==
  /\ server = "open" /\ toServer # <<>> /\ answered < AnswerLen
  /\ answered' = answered + 1
  /\ UNCHANGED <<inVars, sent, client, server, got, cached, cache, pc, up, down, toServer,
                 toClient, dropped, clean, crashed>>

ServerCloses ==
  /\ server = "open"
  /\ server' = "closed"
  /\ UNCHANGED <<inVars, sent, client, answered, got, cached, cache, pc, up, down, toServer,
                 toClient, dropped, clean, crashed>>

-----------------------------------------------------------------------------
(***************************************************************************)
(* CachedConn.                                                             *)
(***************************************************************************)
\* Peek(1), the reads of one unit: from the cache, or from the socket into the
\* cache, and then perhaps more than was asked for.
PeekUnit ==
  \E end \in cache.start + 1 .. sent :
    /\ end >= cache.end /\ (cache.start < cache.end => end = cache.end)
    /\ cache' = [start |-> cache.start + 1, end |-> end]
    /\ got' = end /\ cached' = TRUE

\* The deadline passes or the client leaves before the unit is there.
PeekFails ==
  /\ cache.start = cache.end
  /\ cached' = TRUE /\ UNCHANGED <<cache, got>>

Rewound(to) == cache' = [cache EXCEPT !.start = to]

\* Close of a CachedConn, with the Release of its cache.
CloseClient == dropped' = TRUE /\ cached' = FALSE

\* The handler gives the connection up.
GiveUp == pc' = "done" /\ CloseClient /\ UNCHANGED <<cache, got>>

-----------------------------------------------------------------------------
\* proxyprotocol.HandleConnection: the header, a unit of its own, is consumed.
ReadHeader ==
  /\ pc = "header"
  /\ \/ PeekUnit /\ pc' = "route" /\ UNCHANGED dropped
     \/ GiveUp
  /\ UNCHANGED <<inVars, peers, up, down, toServer, toClient, clean, crashed>>

\* A rule sniffs, or none does.
Route ==
  /\ pc = "route"
  /\ pc' = IF setup.sniff = "no" THEN "outbound" ELSE "handshake"
  /\ from' = cache.start
  /\ UNCHANGED <<setup, position, valid, peers, got, cached, cache, up, down, toServer,
                 toClient, dropped, clean, crashed>>

\* SniffClientHandshake: the handshake packet, or what a client that does not
\* speak Minecraft sent in its place.
SniffHandshake ==
  /\ pc = "handshake"
  /\ \/ /\ PeekUnit
        /\ valid' = setup.speaks
        /\ position' = IF setup.speaks THEN cache.start + 1 ELSE position
        /\ pc' = IF setup.speaks THEN "login" ELSE "sniffed"
     \/ PeekFails /\ pc' = "sniffed" /\ UNCHANGED <<position, valid>>
  /\ UNCHANGED <<setup, from, peers, up, down, toServer, toClient, dropped, clean, crashed>>

SniffLogin ==
  /\ pc = "login"
  /\ PeekUnit \/ PeekFails
  /\ pc' = "sniffed"
  /\ UNCHANGED <<inVars, peers, up, down, toServer, toClient, dropped, clean, crashed>>

\* Mutant: back to the beginning of the cache.
SniffReturns_Zero ==
  /\ pc = "sniffed"
  /\ IF setup.sniff = "all" THEN UNCHANGED cache ELSE Rewound(0)
  /\ pc' = "outbound"
  /\ UNCHANGED <<inVars, peers, got, cached, up, down, toServer, toClient, dropped, clean,
                 crashed>>

\* Sniff rewinds the cache, except on its way out of "all".
SniffReturns ==
  /\ pc = "sniffed"
  /\ IF setup.sniff = "all" THEN UNCHANGED cache ELSE Rewound(from)
  /\ pc' = "outbound"
  /\ UNCHANGED <<inVars, peers, got, cached, up, down, toServer, toClient, dropped, clean,
                 crashed>>

-----------------------------------------------------------------------------
(***************************************************************************)
(* The outbound.  A plain one whose dial fails leaves HandleConnection     *)
(* with no connection to the server, and it goes on to CopyConn.           *)
(***************************************************************************)
Injects == setup.outbound = "minecraft"

\* Mutant: the cursor is left where the handshake begins.
EnterOutbound_FromStart ==
  /\ pc = "outbound"
  /\ IF Injects /\ ~valid THEN GiveUp
     ELSE pc' = "dial" /\ UNCHANGED <<cache, got, cached, dropped>>
  /\ UNCHANGED <<inVars, peers, up, down, toServer, toClient, clean, crashed>>

\* InjectConnection: the client that is not valid is refused, the cursor is put
\* after the handshake.
EnterOutbound ==
  /\ pc = "outbound"
  /\ IF Injects /\ ~valid THEN GiveUp
     ELSE /\ IF Injects THEN Rewound(position) ELSE UNCHANGED cache
          /\ pc' = "dial" /\ UNCHANGED <<got, cached, dropped>>
  /\ UNCHANGED <<inVars, peers, up, down, toServer, toClient, clean, crashed>>

Fails ==
  /\ server' = IF server = "none" THEN "none" ELSE "dropped"
  /\ UNCHANGED toServer
  /\ IF Injects THEN GiveUp /\ UNCHANGED crashed
     ELSE crashed' = TRUE /\ UNCHANGED <<pc, dropped, cached, cache, got>>

Writes(item, label) ==
  /\ server = "open" /\ toServer' = Append(toServer, item) /\ pc' = label
  /\ UNCHANGED <<server, dropped, cached, cache, got, crashed>>

Skips(label) ==
  pc' = label /\ UNCHANGED <<toServer, server, dropped, cached, cache, got, crashed>>

Dial ==
  /\ pc = "dial"
  /\ \/ /\ server' = "open" /\ pc' = "secret"
        /\ UNCHANGED <<toServer, dropped, cached, cache, got, crashed>>
     \/ Fails
  /\ UNCHANGED <<inVars, sent, client, answered, up, down, toClient, clean>>

WriteSecret ==
  /\ pc = "secret"
  /\ IF setup.secret THEN Writes(Secret, "proxy") \/ Fails ELSE Skips("proxy")
  /\ UNCHANGED <<inVars, sent, client, answered, up, down, toClient, clean>>

AfterPreamble == IF Injects THEN "inject" ELSE "start"

WriteProxyHeader ==
  /\ pc = "proxy"
  /\ IF setup.proxy THEN Writes(ProxyHeader, AfterPreamble) \/ Fails ELSE Skips(AfterPreamble)
  /\ UNCHANGED <<inVars, sent, client, answered, up, down, toClient, clean>>

\* The units between the cursor and the end of the cache.
InCache == [i \in 1 .. cache.end - cache.start |-> cache.start + i]

\* A login that MinecraftOutbound's checks let through: the rewritten handshake
\* and all the cache holds, in one write.
Inject ==
  /\ pc = "inject"
  /\ \/ /\ server = "open"
        /\ toServer' = toServer \o <<NewHandshake>> \o InCache
        /\ Rewound(cache.end)
        /\ pc' = "start" /\ UNCHANGED <<server, dropped, cached, got, crashed>>
     \/ Fails
  /\ UNCHANGED <<inVars, sent, client, answered, up, down, toClient, clean>>

-----------------------------------------------------------------------------
(***************************************************************************)
(* CopyConn: the handling goroutine uploads, another one downloads.        *)
(***************************************************************************)
StartRelay ==
  /\ pc = "start"
  /\ pc' = "relay" /\ up' = "look" /\ down' = "copy"
  /\ clean' = (~cached \/ cache.start = cache.end)
  /\ UNCHANGED <<inVars, peers, got, cached, cache, toServer, toClient, dropped, crashed>>

\* UpstreamReader: c.cache is tested, and used, without a lock; the download's
\* Close may set it to nil in between.
LookForCache ==
  /\ up = "look"
  /\ up' = IF cached THEN "use" ELSE "copy"
  /\ UNCHANGED <<inVars, peers, got, cached, cache, pc, down, toServer, toClient, dropped,
                 clean, crashed>>

UseCache ==
  /\ up = "use"
  /\ IF cached THEN up' = (IF cache.start = cache.end THEN "copy" ELSE "drain") /\ UNCHANGED crashed
     ELSE crashed' = TRUE /\ UNCHANGED up
  /\ UNCHANGED <<inVars, peers, got, cached, cache, pc, down, toServer, toClient, dropped, clean>>

\* Buffer.WriteTo writes the cache to the server and leaves the cursor alone; if
\* the cache has gone, its nil pointer is noticed or used.
DrainCache ==
  /\ up = "drain"
  /\ \/ /\ cached /\ server = "open" /\ Len(toServer) < MaxWritten
        /\ toServer' = toServer \o InCache /\ up' = "look" /\ UNCHANGED crashed
     \/ cached /\ server # "open" /\ up' = "end" /\ UNCHANGED <<toServer, crashed>>
     \/ ~cached /\ up' = "copy" /\ UNCHANGED <<toServer, crashed>>
     \/ ~cached /\ crashed' = TRUE /\ UNCHANGED <<toServer, up>>
  /\ UNCHANGED <<inVars, peers, got, cached, cache, pc, down, toClient, dropped, clean>>

\* CopyBuffer's loop, a unit at a time; the end of the stream or an error ends it.
CopyUp ==
  /\ up = "copy"
  /\ \/ /\ ~dropped /\ got < sent /\ server = "open" /\ Len(toServer) < MaxWritten
        /\ got' = got + 1 /\ toServer' = Append(toServer, got + 1) /\ UNCHANGED up
     \/ /\ dropped \/ (client = "closed" /\ got = sent) \/ (got < sent /\ server # "open")
        /\ up' = "end" /\ UNCHANGED <<got, toServer>>
  /\ UNCHANGED <<inVars, peers, cached, cache, pc, down, toClient, dropped, clean, crashed>>

\* remote.Close().
CloseRemote ==
  /\ up = "end"
  /\ server' = "dropped" /\ up' = "wait"
  /\ UNCHANGED <<inVars, sent, client, answered, got, cached, cache, pc, down, toServer,
                 toClient, dropped, clean, crashed>>

\* Mutant: what was read together with the end of the stream is not written.
CopyDown_Cut ==
  /\ down = "copy"
  /\ \/ /\ server = "open" /\ Len(toClient) < answered /\ client = "open"
        /\ toClient' = Append(toClient, Len(toClient) + 1) /\ UNCHANGED down
     \/ /\ server # "open" \/ (Len(toClient) < answered /\ client = "closed")
        /\ down' = "end" /\ UNCHANGED toClient
  /\ UNCHANGED <<inVars, peers, got, cached, cache, pc, up, toServer, dropped, clean, crashed>>

CopyDown ==
  /\ down = "copy"
  /\ \/ /\ server # "dropped" /\ Len(toClient) < answered /\ client = "open"
        /\ toClient' = Append(toClient, Len(toClient) + 1) /\ UNCHANGED down
     \/ /\ \/ server = "dropped"
           \/ server = "closed" /\ Len(toClient) = answered
           \/ Len(toClient) < answered /\ client = "closed"
        /\ down' = "end" /\ UNCHANGED toClient
  /\ UNCHANGED <<inVars, peers, got, cached, cache, pc, up, toServer, dropped, clean, crashed>>

\* Mutant: the end of the download does not close the client's connection.
CloseLocal_Not ==
  /\ down = "end"
  /\ down' = "done" /\ UNCHANGED <<cached, dropped>>
  /\ UNCHANGED <<inVars, peers, got, cache, pc, up, toServer, toClient, clean, crashed>>

\* local.Close(), close(done).
CloseLocal ==
  /\ down = "end"
  /\ CloseClient /\ down' = "done"
  /\ UNCHANGED <<inVars, peers, got, cache, pc, up, toServer, toClient, clean, crashed>>

\* Mutant: the upload does not wait for the download.
Return_AtOnce ==
  /\ pc = "relay" /\ up = "end"
  /\ pc' = "done" /\ CloseClient
  /\ UNCHANGED <<inVars, peers, got, cache, up, down, toServer, toClient, clean, crashed>>

\* CopyConn returns, HandleConnection closes the client's connection.
Return ==
  /\ pc = "relay" /\ up = "wait" /\ down = "done"
  /\ pc' = "done" /\ CloseClient
  /\ UNCHANGED <<inVars, peers, got, cache, up, down, toServer, toClient, clean, crashed>>

-----------------------------------------------------------------------------
Handler ==
  /\ ~crashed
  /\ \/ ReadHeader \/ Route \/ SniffHandshake \/ SniffLogin \/ SniffReturns
     \/ EnterOutbound \/ Dial \/ WriteSecret \/ WriteProxyHeader \/ Inject \/ StartRelay
     \/ LookForCache \/ UseCache \/ DrainCache \/ CopyUp \/ CloseRemote \/ Return

Downloader == ~crashed /\ (CopyDown \/ CloseLocal)

Next == Handler \/ Downloader \/ ClientSends \/ ClientCloses \/ ServerAnswers \/ ServerCloses

Spec == Init /\ [][Next]_vars

-----------------------------------------------------------------------------
\* The values of the connection's fields and of the goroutines' states.
TypeOK ==
  /\ setup \in Setups
  /\ sent \in 0 .. StreamLen /\ client \in {"open", "closed"} /\ got \in 0 .. sent
  /\ cached \in BOOLEAN /\ cache.start \in 0 .. cache.end /\ cache.end \in 0 .. got
  /\ from \in 0 .. StreamLen /\ position \in 0 .. StreamLen /\ valid \in BOOLEAN
  /\ pc \in {"header", "route", "handshake", "login", "sniffed", "outbound", "dial", "secret",
             "proxy", "inject", "start", "relay", "done"}
  /\ up \in {"off", "look", "use", "drain", "copy", "end", "wait"}
  /\ down \in {"off", "copy", "end", "done"}
  /\ toServer \in Seq(1 .. StreamLen \cup {Secret, ProxyHeader, NewHandshake})
  /\ answered \in 0 .. AnswerLen /\ toClient \in Seq(1 .. AnswerLen)
  /\ server \in {"none", "open", "closed", "dropped"}
  /\ dropped \in BOOLEAN /\ clean \in BOOLEAN /\ crashed \in BOOLEAN

\* All the server is to see: "Auth secret first (before PROXY protocol)", then
\* the client's stream without the header meant for the proxy, with the handshake
\* rewritten if the outbound does that.
Due ==
  (IF setup.secret THEN <<Secret>> ELSE <<>>)
    \o (IF setup.proxy THEN <<ProxyHeader>> ELSE <<>>)
    \o (IF Injects THEN <<NewHandshake>> ELSE <<>>)
    \o LET first == IF Injects THEN HeaderLen + 1 ELSE HeaderLen
       IN [i \in 1 .. StreamLen - first |-> first + i]

IsPrefixOf(s, t) == Len(s) <= Len(t) /\ s = SubSeq(t, 1, Len(s))

\* However the client's writes were cut up by the reads of the header and of the
\* sniffer, the server receives each unit once, in order, and nothing that was
\* meant for the proxy: nothing is lost between the cache and the socket.
UploadExact == clean /\ (setup.sniff = "all" => Injects) => IsPrefixOf(toServer, Due)

\* "TCP relay": the same, whatever was cached when the relay began.
RelayedOnce == IsPrefixOf(toServer, Due)

\* When the outbound is chosen the cursor is back where the PROXY header ended, and
\* the cache ends where the next read of the socket begins (Sniff).
SniffLeavesNoTrace ==
  pc = "outbound" /\ setup.sniff # "all" => cache.start = HeaderLen /\ cache.end = got

\* The client gets the units of the server in order, and never after the handler
\* has returned; both connections are closed by then, on every path.
NothingOutlivesHandler ==
  /\ \A i \in 1 .. Len(toClient) : toClient[i] = i
  /\ pc = "done" => dropped /\ server \in {"none", "dropped"} /\ down \in {"off", "done"}

\* A server that closes loses nothing of its last words: to a client that stays, and
\* all of whose bytes could be written, CopyConn delivers everything.  The upload
\* that ends first closes the server's connection and gives up the rest.
DownloadComplete ==
  down = "done" /\ client = "open" /\ got = sent /\ clean => Len(toClient) = answered

(***************************************************************************)
(* Liveness.  The goroutines run, the deadlines of the header and of the   *)
(* sniffer pass, and writes to a peer that is there end.                   *)
(***************************************************************************)
FairSpec == Spec /\ WF_vars(Handler) /\ WF_vars(Downloader)

\* One side that leaves ends the relay: no goroutine and no connection stays behind
\* when the server, or a client of which nothing was cached, has closed.
RelayEnds ==
  /\ server = "closed" ~> pc = "done" \/ crashed
  /\ client = "closed" ~> pc = "done" \/ crashed \/ ~clean
=============================================================================
