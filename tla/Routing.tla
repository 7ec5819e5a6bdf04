-------------------------------- MODULE Routing --------------------------------
(***************************************************************************)
(* The way of one connection from the accept loop to its outbound:         *)
(* Service.handleInbound (service/service.go), the PROXY header's effect on*)
(* the metadata, and Router.HandleConnection (route/router.go), which goes *)
(* through the rules in order, sniffs, rewrites and picks the outbound.    *)
(* Relay has the bytes, HotReload the lock against UpdateConfig.           *)
(***************************************************************************)
EXTENDS Rules

CONSTANTS
  Configs,      \* a sequence: the configurations of a service and the router
  Clients,      \* who connects, and what it sends
  Kind          \* of the outbounds that exist, by name: "inject" or "plain"

\* config.AllowMode, BlockMode, and no list at all.
Modes == {"allow", "block", "off"}

ASSUME RoutingAssumption ==
  /\ \A c \in DOMAIN Configs : Configs[c].access.mode \in Modes
  /\ \A o \in DOMAIN Kind : Kind[o] \in {"inject", "plain"}

VARIABLES
  config,       \* index into Configs
  client,       \* who connected
  pc,
  index,        \* of the rule in hand
  meta,         \* adapter.Metadata
  target,       \* its destination: host and port
  rewritten,    \* its Minecraft.RewrittenDestination and RewrittenPort
  outbound,     \* of the connection, by name
  readers,      \* read locks held on Router.access
  local,        \* the client's connection: "open" or "closed"
  remote        \* the server's: "none", "open" or "closed"

vars == <<config, client, pc, index, meta, target, rewritten, outbound, readers, local, remote>>

C == Configs[config]
Rule == C.rules[index]
NoMinecraft == [known |-> FALSE, state |-> 0, host |-> <<>>, player |-> <<>>]
NoTarget == [host |-> "", port |-> 0]

Init ==
  /\ config \in DOMAIN Configs /\ client \in Clients
  /\ pc = "accepted" /\ index = 0
  /\ meta = [service |-> "", address |-> "", version |-> 0, port |-> 0, minecraft |-> NoMinecraft]
  /\ target = NoTarget /\ rewritten = NoTarget /\ outbound = "" /\ readers = 0
  /\ local = "open" /\ remote = "none"

-----------------------------------------------------------------------------
(***************************************************************************)
(* handleInbound.                                                          *)
(***************************************************************************)
Reject ==
  /\ pc' = "refused" /\ local' = "closed"
  /\ UNCHANGED <<config, client, index, meta, target, rewritten, outbound, readers, remote>>

\* RequireAuthSecret: an empty secret of ours turns everybody away.
SecretOk == C.secret = "off" \/ (C.secret = "set" /\ client.secret)

\* access.Check of the peer's address, not of the one a PROXY header gives.
Passes(access, item) ==
  CASE access.mode = "allow" -> item \in access.list
    [] access.mode = "block" -> item \notin access.list
    [] OTHER -> TRUE

Refuse == pc = "accepted" /\ ~(SecretOk /\ Passes(C.access, client.peer.address)) /\ Reject

Metadata(source) ==
  [service |-> C.service, address |-> source.address, version |-> source.version,
   port |-> source.port, minecraft |-> NoMinecraft]

Admit ==
  /\ pc = "accepted" /\ SecretOk /\ Passes(C.access, client.peer.address)
  /\ meta' = Metadata(client.peer) /\ target' = C.target
  /\ pc' = IF C.proxy THEN "header" ELSE "admitted"
  /\ UNCHANGED <<config, client, index, rewritten, outbound, readers, local, remote>>

\* proxyprotocol.HandleConnection: no header, one that says nothing, or a source.
BadHeader == pc = "header" /\ client.header = "bad" /\ Reject

ReadHeader ==
  /\ pc = "header" /\ client.header # "bad"
  /\ meta' = IF client.header = "local" THEN meta ELSE Metadata(client.source)
  /\ pc' = "admitted"
  /\ UNCHANGED <<config, client, index, target, rewritten, outbound, readers, local, remote>>

\* SniffClientHandshake fills in the metadata as far as it gets: a destination is
\* kept although the port or the intent after it is bad, and an intent although
\* no login packet follows.
Learnt(m) ==
  IF m.known THEN m
  ELSE [known |-> TRUE,
        state |-> IF client.sends \in {"handshake", "login"} THEN client.intent ELSE -1,
        host |-> IF client.sends = "nothing" THEN <<>> ELSE client.host,
        player |-> IF client.sends = "login" THEN client.player ELSE <<>>]

SniffOk == client.sends = "login" \/ (client.sends = "handshake" /\ client.intent = IntentStatus)

\* A legacy service sniffs for itself, and hands over what it recognises, after it
\* has released the cache: a login that gets as far as its relay panics.
Legacy ==
  /\ pc = "admitted" /\ C.legacy
  /\ meta' = [meta EXCEPT !.minecraft = Learnt(@)]
  /\ IF SniffOk THEN outbound' = "legacy" /\ pc' = "injected" /\ UNCHANGED local
     ELSE pc' = "refused" /\ local' = "closed" /\ UNCHANGED outbound
  /\ UNCHANGED <<config, client, index, target, rewritten, readers, remote>>

LegacyPanics ==
  /\ pc = "injected" /\ outbound = "legacy" /\ meta.minecraft.state = IntentLogin
  /\ pc' = "exited"
  /\ UNCHANGED <<config, client, index, meta, target, rewritten, outbound, readers, local, remote>>

-----------------------------------------------------------------------------
(***************************************************************************)
(* HandleConnection.                                                       *)
(***************************************************************************)
Enter ==
  /\ pc = "admitted" /\ ~C.legacy
  /\ readers' = 1 /\ index' = 1 /\ outbound' = C.default /\ pc' = "rule"
  /\ UNCHANGED <<config, client, meta, target, rewritten, local, remote>>

NoMoreRules ==
  /\ pc = "rule" /\ index > Len(C.rules)
  /\ pc' = "decided"
  /\ UNCHANGED <<config, client, index, meta, target, rewritten, outbound, readers, local, remote>>

MatchRule ==
  /\ pc = "rule" /\ index <= Len(C.rules)
  /\ IF Match(Rule, meta) THEN pc' = "sniff" /\ UNCHANGED index
     ELSE index' = index + 1 /\ UNCHANGED pc
  /\ UNCHANGED <<config, client, meta, target, rewritten, outbound, readers, local, remote>>

\* Sniff, with no sniffers registered: "all" ends the list, and another name than
\* these two is fatal to the process.
Unsupported(rule) ==
  \E k \in DOMAIN rule.sniff :
    /\ rule.sniff[k] \notin {"all", "minecraft"}
    /\ \A j \in 1 .. k - 1 : rule.sniff[j] # "all"

SniffFatal ==
  /\ pc = "sniff" /\ Unsupported(Rule)
  /\ pc' = "exited"
  /\ UNCHANGED <<config, client, index, meta, target, rewritten, outbound, readers, local, remote>>

SniffRule ==
  /\ pc = "sniff" /\ ~Unsupported(Rule)
  /\ meta' = IF Rule.sniff = <<>> THEN meta ELSE [meta EXCEPT !.minecraft = Learnt(@)]
  /\ pc' = "rewrite"
  /\ UNCHANGED <<config, client, index, target, rewritten, outbound, readers, local, remote>>

\* A rewrite takes over the fields that are not zero.
Rewrite(new, old) ==
  [host |-> IF new.host # "" THEN new.host ELSE old.host,
   port |-> IF new.port > 0 THEN new.port ELSE old.port]

\* Those of Minecraft need metadata, and an intent is written over whatever the
\* sniffing found.
RewriteRule ==
  /\ pc = "rewrite"
  /\ target' = Rewrite(Rule.target, target)
  /\ IF meta.minecraft.known
     THEN /\ rewritten' = Rewrite(Rule.minecraft, rewritten)
          /\ meta' = IF Rule.intent > 0 THEN [meta EXCEPT !.minecraft.state = Rule.intent] ELSE meta
     ELSE UNCHANGED <<rewritten, meta>>
  /\ pc' = "choose"
  /\ UNCHANGED <<config, client, index, outbound, readers, local, remote>>

Builtin == {"REJECT", "RESET"}
FindOutboundByName(name) == name \in Builtin \cup DOMAIN Kind

NextRule ==
  /\ pc = "choose" /\ Rule.outbound = ""
  /\ index' = index + 1 /\ pc' = "rule"
  /\ UNCHANGED <<config, client, meta, target, rewritten, outbound, readers, local, remote>>

Choose ==
  /\ pc = "choose" /\ Rule.outbound # "" /\ FindOutboundByName(Rule.outbound)
  /\ outbound' = Rule.outbound /\ pc' = "decided"
  /\ UNCHANGED <<config, client, index, meta, target, rewritten, readers, local, remote>>

\* Mutant: the early return forgets the lock.
NotFound_Locked ==
  /\ pc = "choose" /\ Rule.outbound # "" /\ ~FindOutboundByName(Rule.outbound)
  /\ local' = "closed" /\ pc' = "refused"
  /\ UNCHANGED <<config, client, index, meta, target, rewritten, outbound, readers, remote>>

NotFound ==
  /\ pc = "choose" /\ Rule.outbound # "" /\ ~FindOutboundByName(Rule.outbound)
  /\ local' = "closed" /\ readers' = 0 /\ pc' = "refused"
  /\ UNCHANGED <<config, client, index, meta, target, rewritten, outbound, remote>>

Injects(name) == name \in Builtin \cup {o \in DOMAIN Kind : Kind[o] = "inject"}
HasTarget == target.host # "" /\ target.port > 0

Inject ==
  /\ pc = "decided" /\ Injects(outbound)
  /\ readers' = 0 /\ pc' = "injected"
  /\ UNCHANGED <<config, client, index, meta, target, rewritten, outbound, local, remote>>

\* The lock is held while the outbound dials.
Dial ==
  /\ pc = "decided" /\ ~Injects(outbound) /\ HasTarget
  /\ remote' = "open" /\ readers' = 0 /\ pc' = "relaying"
  /\ UNCHANGED <<config, client, index, meta, target, rewritten, outbound, local>>

\* A failed dial goes on to CopyConn with nil, and the process panics.
DialFails ==
  /\ pc = "decided" /\ ~Injects(outbound) /\ HasTarget
  /\ readers' = 0 /\ pc' = "exited"
  /\ UNCHANGED <<config, client, index, meta, target, rewritten, outbound, local, remote>>

Leaked ==
  /\ pc = "decided" /\ ~Injects(outbound) /\ ~HasTarget
  /\ local' = "closed" /\ readers' = 0 /\ pc' = "refused"
  /\ UNCHANGED <<config, client, index, meta, target, rewritten, outbound, remote>>

\* InjectConnection returns, or CopyConn, which has closed the remote.
Finish ==
  /\ pc \in {"injected", "relaying"}
  /\ local' = "closed" /\ pc' = "served"
  /\ remote' = IF remote = "open" THEN "closed" ELSE remote
  /\ UNCHANGED <<config, client, index, meta, target, rewritten, outbound, readers>>

Next ==
  \/ Refuse \/ Admit \/ BadHeader \/ ReadHeader \/ Legacy \/ LegacyPanics
  \/ Enter \/ NoMoreRules \/ MatchRule \/ SniffFatal \/ SniffRule \/ RewriteRule
  \/ NextRule \/ Choose \/ NotFound
  \/ Inject \/ Dial \/ DialFails \/ Leaked \/ Finish

Spec == Init /\ [][Next]_vars

-----------------------------------------------------------------------------
(***************************************************************************)
(* What the configuration means for a client, said without going through  *)
(* the rules: from the set of the rules that hold for it.                  *)
(***************************************************************************)
TypeOK ==
  /\ config \in DOMAIN Configs /\ client \in Clients
  /\ pc \in {"accepted", "header", "admitted", "rule", "sniff", "rewrite", "choose", "decided",
             "injected", "relaying", "served", "refused", "exited"}
  /\ index \in Nat /\ readers \in 0 .. 1
  /\ meta.minecraft.known \in BOOLEAN /\ meta.minecraft.state \in -1 .. 3
  /\ outbound \in {"", "legacy"} \cup Builtin \cup DOMAIN Kind
  /\ local \in {"open", "closed"} /\ remote \in {"none", "open", "closed"}

Sniffs(i) == C.rules[i].sniff # <<>>
Latest(indices, default, Field(_)) == IF indices = {} THEN default ELSE Field(Max(indices))

\* The last host and the last port that rules with such a rewrite give.
LatestTarget(indices, default, Field(_)) ==
  [host |-> Latest({i \in indices : Field(i).host # ""}, default.host, LAMBDA i : Field(i).host),
   port |-> Latest({i \in indices : Field(i).port > 0}, default.port, LAMBDA i : Field(i).port)]

\* What rule i may look at when the rules in `held`, all before it, hold.
Facts(i, held) ==
  LET source == IF C.proxy /\ client.header = "source" THEN client.source ELSE client.peer
      rewriting == {j \in held : C.rules[j].intent > 0 /\ \E k \in held : k <= j /\ Sniffs(k)}
      sniffed == [Learnt(NoMinecraft) EXCEPT
                    !.state = Latest(rewriting, @, LAMBDA j : C.rules[j].intent)]
  IN [Metadata(source) EXCEPT !.minecraft = IF \E j \in held : Sniffs(j) THEN sniffed ELSE @]

Holding ==
  LET upTo[i \in 0 .. Len(C.rules)] ==
        IF i = 0 THEN {}
        ELSE upTo[i - 1] \cup {j \in {i} : Says(C.rules[i], Facts(i, upTo[i - 1]), TRUE)}
  IN upTo[Len(C.rules)]

\* The rules that hold, up to the first of them that names an outbound.
Applied ==
  LET naming == {i \in Holding : C.rules[i].outbound # ""}
  IN {i \in Holding : naming = {} \/ i <= Min(naming)}

\* A connection that reaches an outbound reaches the one its configuration means,
\* with the destinations it means, of the connection and of the handshake: the first
\* rule with an outbound that holds for what the client sent decides, given what the
\* rules before it that hold have sniffed and rewritten; of the rewrites of a host or
\* a port the last wins (Router.HandleConnection).
RoutedAsMeant ==
  pc \in {"injected", "relaying"} /\ ~C.legacy =>
    /\ outbound = Latest({i \in Applied : C.rules[i].outbound # ""}, C.default,
                       LAMBDA i : C.rules[i].outbound)
    /\ target = LatestTarget(Applied, C.target, LAMBDA i : C.rules[i].target)
    /\ rewritten = LatestTarget({i \in Applied : \E k \in Applied : k <= i /\ Sniffs(k)},
                              NoTarget, LAMBDA i : C.rules[i].minecraft)

\* A host name, in whichever case the client writes it, matches when it is one of
\* the domains or lies under one of the suffixes, at a dot: what the trie of
\* common/domain says of the bytes, walked backwards (RuleMinecraftHostname.Match,
\* succinctSet.Has).  The names of the rule are taken as they are written, so that
\* one with an upper-case letter matches nobody.
HostnameMeaning ==
  pc = "rule" /\ index <= Len(C.rules) /\ Rule.type = "MinecraftHostname" =>
    SimpleMatch(Rule, meta) = SimplyMeans(Rule, meta)

\* Whichever way a connection leaves the router, the router's lock is free again
\* (UpdateConfig waits for it), and a connection that is over has both its ends
\* closed: rejected, not found, leaked, injected or relayed.
ExitReleases ==
  /\ pc \in {"injected", "relaying", "served", "refused"} => readers = 0
  /\ pc \in {"served", "refused"} => local = "closed" /\ remote # "open"
=============================================================================
