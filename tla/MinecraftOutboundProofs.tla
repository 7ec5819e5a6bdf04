----------------------- MODULE MinecraftOutboundProofs -----------------------
(***************************************************************************)
(* The invariants of MinecraftOutbound, for every finite set of            *)
(* connections and all sets of requests and configurations.                *)
(***************************************************************************)
EXTENDS MinecraftOutbound, FiniteSetTheorems, TLAPS

SecretPart == IF cfg.sendSecret THEN <<"secret">> ELSE <<>>
ProxyPart == IF cfg.proxy THEN <<"proxy">> ELSE <<>>

Locked == {"status", "motd", "ping", "login", "dial", "secret", "proxy", "handshake"}
Undialled == {"new", "status", "motd", "ping", "login", "dial"}
Dialled == {"secret", "proxy", "handshake", "joined", "relay"}

\* The type invariant but for the sign of onlineCount, which only the count of
\* the players gives.
Typed ==
  /\ cfg \in Configs /\ req \in [Conns -> Requests]
  /\ pc \in [Conns -> Locked \cup {"new", "joined", "relay", "left", "done"}]
  /\ readers \subseteq Conns
  /\ server \in [Conns -> {"none", "open", "closed"}]
  /\ wire \in [Conns -> Seq(Item)]
  /\ crashed \in BOOLEAN

\* The lock is held only by goroutines that still read the configuration.
LockRight == \A c \in Conns : c \in readers => pc[c] \in Locked

\* Where the server connection is to be found, label by label.
ServerRight == \A c \in Conns :
  /\ pc[c] \in Undialled => server[c] = "none"
  /\ pc[c] \in Dialled => server[c] = "open"
  /\ pc[c] = "left" => server[c] = "closed"
  /\ pc[c] = "done" /\ Login(c) => server[c] # "open"

\* Who is past the checks.
ChecksRight == \A c \in Conns :
  /\ pc[c] \in Locked => ~HostRefused(c)
  /\ pc[c] \in {"status", "motd", "ping"} => ~Login(c)
  /\ pc[c] = "dial" /\ Login(c) => ~NameRefused(c)
  /\ pc[c] \in {"joined", "left"} => Login(c)

\* What has been written, label by label.
WireRight == \A c \in Conns :
  /\ pc[c] \in Undialled \cup {"secret"} => wire[c] = <<>>
  /\ pc[c] = "proxy" => wire[c] = SecretPart
  /\ pc[c] = "handshake" => wire[c] = SecretPart \o ProxyPart
  /\ pc[c] \in {"joined", "relay", "left"} => wire[c] = Preamble
  /\ wire[c] \in {<<>>, SecretPart, SecretPart \o ProxyPart, Preamble}

IInv ==
  Typed /\ LockRight /\ ServerRight /\ ChecksRight /\ ServedAreListed /\ WireRight
    /\ PlayersCounted

-----------------------------------------------------------------------------
\* The parts of the preamble are sequences of items.
LEMMA ItemSequences ==
  /\ SecretPart \in Seq(Item) /\ ProxyPart \in Seq(Item)
  /\ SecretPart \o ProxyPart \in Seq(Item) /\ Preamble \in Seq(Item)
<1>1. <<"secret">> \in Seq(Item) /\ <<"proxy">> \in Seq(Item) /\ <<"handshake">> \in Seq(Item)
        /\ <<>> \in Seq(Item)
  BY DEF Item
<1>2. SecretPart \in Seq(Item) /\ ProxyPart \in Seq(Item)
  BY <1>1 DEF SecretPart, ProxyPart
<1>3. Preamble = (SecretPart \o ProxyPart) \o <<"handshake">>
  BY DEF Preamble, SecretPart, ProxyPart
<1> QED
  BY <1>1, <1>2, <1>3

\* Each write appends the next part of the preamble.
LEMMA AppendItem ==
  /\ cfg.sendSecret => Append(<<>>, "secret") = SecretPart
  /\ cfg.proxy => Append(SecretPart, "proxy") = SecretPart \o ProxyPart
  /\ Append(SecretPart \o ProxyPart, "handshake") = Preamble
  /\ ~cfg.sendSecret => SecretPart = <<>>
  /\ ~cfg.proxy => SecretPart \o ProxyPart = SecretPart
<1>1. SecretPart \in Seq(Item) /\ ProxyPart \in Seq(Item)
        /\ SecretPart \o ProxyPart \in Seq(Item)
  BY ItemSequences
<1>2. Preamble = (SecretPart \o ProxyPart) \o <<"handshake">>
  BY DEF Preamble, SecretPart, ProxyPart
<1>3. Append(SecretPart \o ProxyPart, "handshake") = Preamble
  BY <1>1, <1>2 DEF Item
<1>4. cfg.proxy => Append(SecretPart, "proxy") = SecretPart \o ProxyPart
  BY <1>1 DEF ProxyPart, Item
<1>5. cfg.sendSecret => Append(<<>>, "secret") = SecretPart
  BY DEF SecretPart
<1>6. ~cfg.proxy => SecretPart \o ProxyPart = SecretPart
  BY <1>1 DEF ProxyPart
<1> QED
  BY <1>3, <1>4, <1>5, <1>6 DEF SecretPart

\* What is written are items.
LEMMA ItemsAre == "secret" \in Item /\ "proxy" \in Item /\ "handshake" \in Item
BY DEF Item

\* A written item keeps the type of wire.
LEMMA WrittenTyped ==
  ASSUME wire \in [Conns -> Seq(Item)], NEW c \in Conns, NEW item \in Item
  PROVE  [wire EXCEPT ![c] = Append(@, item)] \in [Conns -> Seq(Item)]
<1>1. Append(wire[c], item) \in Seq(Item)
  OBVIOUS
<1> QED
  BY <1>1

\* The types are kept.
LEMMA TypedKept ==
  ASSUME IInv, Next
  PROVE  Typed'
<1> SUFFICES ASSUME NEW c \in Conns,
               \/ Inject(c) \/ Status(c) \/ RespondMotd(c) \/ RespondPing(c)
               \/ CheckPlayer(c) \/ Dial(c) \/ SendSecret(c) \/ SendProxyHeader(c)
               \/ Handshake(c) \/ Join(c) \/ EndRelay(c) \/ Leave(c)
      PROVE  Typed'
  BY DEF Next
<1> USE DEF IInv, Typed, Locked
<1>1. CASE Inject(c)
  BY <1>1 DEF Inject, Goto, Return, ReturnLingering, HostRefused
<1>2. CASE Status(c)
  BY <1>2 DEF Status, Goto, Return
<1>3. CASE RespondMotd(c)
  BY <1>3 DEF RespondMotd, Goto, Return
<1>4. CASE RespondPing(c)
  BY <1>4 DEF RespondPing, Goto, Return
<1>5. CASE CheckPlayer(c)
  BY <1>5 DEF CheckPlayer, Goto, Return, ReturnLingering, NameRefused, LimitReached
<1>6. CASE Dial(c)
  BY <1>6 DEF Dial, Goto, Return
<1>7. CASE SendSecret(c)
  <2>1. wire' = wire \/ wire' = [wire EXCEPT ![c] = Append(@, "secret")]
    BY <1>7 DEF SendSecret, Goto, Return, Written, GiveUp
  <2>2. wire' \in [Conns -> Seq(Item)]
    <3>1. [wire EXCEPT ![c] = Append(@, "secret")] \in [Conns -> Seq(Item)]
      BY WrittenTyped, ItemsAre, Zenon
    <3> QED
      BY <2>1, <3>1, Zenon
  <2>3. cfg' \in Configs /\ req' \in [Conns -> Requests] /\ readers' \subseteq Conns
          /\ crashed' \in BOOLEAN
    BY <1>7 DEF SendSecret, Goto, Return, Written, GiveUp
  <2>4. pc' \in [Conns -> Locked \cup {"new", "joined", "relay", "left", "done"}]
    BY <1>7 DEF SendSecret, Goto, Return, Written, GiveUp
  <2>5. server' \in [Conns -> {"none", "open", "closed"}]
    BY <1>7 DEF SendSecret, Goto, Return, Written, GiveUp
  <2> QED
    BY <2>2, <2>3, <2>4, <2>5
<1>8. CASE SendProxyHeader(c)
  <2>1. wire' = wire \/ wire' = [wire EXCEPT ![c] = Append(@, "proxy")]
    BY <1>8 DEF SendProxyHeader, Goto, Return, Written, GiveUp
  <2>2. wire' \in [Conns -> Seq(Item)]
    <3>1. [wire EXCEPT ![c] = Append(@, "proxy")] \in [Conns -> Seq(Item)]
      BY WrittenTyped, ItemsAre, Zenon
    <3> QED
      BY <2>1, <3>1, Zenon
  <2>3. cfg' \in Configs /\ req' \in [Conns -> Requests] /\ readers' \subseteq Conns
          /\ crashed' \in BOOLEAN
    BY <1>8 DEF SendProxyHeader, Goto, Return, Written, GiveUp
  <2>4. pc' \in [Conns -> Locked \cup {"new", "joined", "relay", "left", "done"}]
    BY <1>8 DEF SendProxyHeader, Goto, Return, Written, GiveUp
  <2>5. server' \in [Conns -> {"none", "open", "closed"}]
    BY <1>8 DEF SendProxyHeader, Goto, Return, Written, GiveUp
  <2> QED
    BY <2>2, <2>3, <2>4, <2>5
<1>9. CASE Handshake(c)
  <2>1. wire' = wire \/ wire' = [wire EXCEPT ![c] = Append(@, "handshake")]
    BY <1>9 DEF Handshake, Goto, Return, HandshakeFails, GiveUp
  <2>2. wire' \in [Conns -> Seq(Item)]
    <3>1. [wire EXCEPT ![c] = Append(@, "handshake")] \in [Conns -> Seq(Item)]
      BY WrittenTyped, ItemsAre, Zenon
    <3> QED
      BY <2>1, <3>1, Zenon
  <2>3. cfg' \in Configs /\ req' \in [Conns -> Requests] /\ readers' \subseteq Conns
          /\ crashed' \in BOOLEAN
    BY <1>9 DEF Handshake, Goto, Return, HandshakeFails, GiveUp
  <2>4. pc' \in [Conns -> Locked \cup {"new", "joined", "relay", "left", "done"}]
    BY <1>9 DEF Handshake, Goto, Return, HandshakeFails, GiveUp
  <2>5. server' \in [Conns -> {"none", "open", "closed"}]
    BY <1>9 DEF Handshake, Goto, Return, HandshakeFails, GiveUp
  <2> QED
    BY <2>2, <2>3, <2>4, <2>5
<1>10. CASE Join(c)
  BY <1>10 DEF Join, Goto
<1>11. CASE EndRelay(c)
  BY <1>11 DEF EndRelay, Goto
<1>12. CASE Leave(c)
  BY <1>12 DEF Leave, Goto
<1> QED
  BY <1>1, <1>2, <1>3, <1>4, <1>5, <1>6, <1>7, <1>8, <1>9, <1>10, <1>11, <1>12

\* Whoever leaves the locked part gives the lock back.
LEMMA LockRightKept ==
  ASSUME IInv, Next
  PROVE  LockRight'
<1> SUFFICES ASSUME NEW c \in Conns,
               \/ Inject(c) \/ Status(c) \/ RespondMotd(c) \/ RespondPing(c)
               \/ CheckPlayer(c) \/ Dial(c) \/ SendSecret(c) \/ SendProxyHeader(c)
               \/ Handshake(c) \/ Join(c) \/ EndRelay(c) \/ Leave(c)
      PROVE  LockRight'
  BY DEF Next
<1> USE DEF IInv, Typed, LockRight, Locked
<1>1. CASE Inject(c)
  BY <1>1 DEF Inject, Goto, Return, ReturnLingering, HostRefused
<1>2. CASE Status(c)
  BY <1>2 DEF Status, Goto, Return
<1>3. CASE RespondMotd(c)
  BY <1>3 DEF RespondMotd, Goto, Return
<1>4. CASE RespondPing(c)
  BY <1>4 DEF RespondPing, Goto, Return
<1>5. CASE CheckPlayer(c)
  BY <1>5 DEF CheckPlayer, Goto, Return, ReturnLingering, NameRefused, LimitReached
<1>6. CASE Dial(c)
  BY <1>6 DEF Dial, Goto, Return
<1>7. CASE SendSecret(c)
  BY <1>7 DEF SendSecret, Goto, Return, Written, GiveUp
<1>8. CASE SendProxyHeader(c)
  BY <1>8 DEF SendProxyHeader, Goto, Return, Written, GiveUp
<1>9. CASE Handshake(c)
  BY <1>9 DEF Handshake, Goto, Return, HandshakeFails, GiveUp
<1>10. CASE Join(c)
  BY <1>10 DEF Join, Goto
<1>11. CASE EndRelay(c)
  BY <1>11 DEF EndRelay, Goto
<1>12. CASE Leave(c)
  BY <1>12 DEF Leave, Goto
<1> QED
  BY <1>1, <1>2, <1>3, <1>4, <1>5, <1>6, <1>7, <1>8, <1>9, <1>10, <1>11, <1>12

\* Whoever gives up a dialled server closes it.
LEMMA ServerRightKept ==
  ASSUME IInv, Next
  PROVE  ServerRight'
<1> SUFFICES ASSUME NEW c \in Conns,
               \/ Inject(c) \/ Status(c) \/ RespondMotd(c) \/ RespondPing(c)
               \/ CheckPlayer(c) \/ Dial(c) \/ SendSecret(c) \/ SendProxyHeader(c)
               \/ Handshake(c) \/ Join(c) \/ EndRelay(c) \/ Leave(c)
      PROVE  ServerRight'
  BY DEF Next
<1> USE DEF IInv, Typed, ServerRight, Locked, Undialled, Dialled, Login
<1>1. CASE Inject(c)
  BY <1>1 DEF Inject, Goto, Return, ReturnLingering, HostRefused
<1>2. CASE Status(c)
  BY <1>2 DEF Status, Goto, Return
<1>3. CASE RespondMotd(c)
  BY <1>3 DEF RespondMotd, Goto, Return
<1>4. CASE RespondPing(c)
  BY <1>4 DEF RespondPing, Goto, Return
<1>5. CASE CheckPlayer(c)
  BY <1>5 DEF CheckPlayer, Goto, Return, ReturnLingering, NameRefused, LimitReached
<1>6. CASE Dial(c)
  BY <1>6 DEF Dial, Goto, Return
<1>7. CASE SendSecret(c)
  BY <1>7 DEF SendSecret, Goto, Return, Written, GiveUp
<1>8. CASE SendProxyHeader(c)
  BY <1>8 DEF SendProxyHeader, Goto, Return, Written, GiveUp
<1>9. CASE Handshake(c)
  BY <1>9 DEF Handshake, Goto, Return, HandshakeFails, GiveUp
<1>10. CASE Join(c)
  BY <1>10 DEF Join, Goto
<1>11. CASE EndRelay(c)
  BY <1>11 DEF EndRelay, Goto
<1>12. CASE Leave(c)
  BY <1>12 DEF Leave, Goto
<1> QED
  BY <1>1, <1>2, <1>3, <1>4, <1>5, <1>6, <1>7, <1>8, <1>9, <1>10, <1>11, <1>12

\* Nobody gets past the checks unchecked.
LEMMA ChecksRightKept ==
  ASSUME IInv, Next
  PROVE  ChecksRight'
<1> SUFFICES ASSUME NEW c \in Conns,
               \/ Inject(c) \/ Status(c) \/ RespondMotd(c) \/ RespondPing(c)
               \/ CheckPlayer(c) \/ Dial(c) \/ SendSecret(c) \/ SendProxyHeader(c)
               \/ Handshake(c) \/ Join(c) \/ EndRelay(c) \/ Leave(c)
      PROVE  ChecksRight'
  BY DEF Next
<1> USE DEF IInv, Typed, ChecksRight, Locked, HostRefused, NameRefused, Login, LimitReached
<1>1. CASE Inject(c)
  BY <1>1 DEF Inject, Goto, Return, ReturnLingering, HostRefused
<1>2. CASE Status(c)
  BY <1>2 DEF Status, Goto, Return
<1>3. CASE RespondMotd(c)
  BY <1>3 DEF RespondMotd, Goto, Return
<1>4. CASE RespondPing(c)
  BY <1>4 DEF RespondPing, Goto, Return
<1>5. CASE CheckPlayer(c)
  BY <1>5 DEF CheckPlayer, Goto, Return, ReturnLingering, NameRefused, LimitReached
<1>6. CASE Dial(c)
  BY <1>6 DEF Dial, Goto, Return
<1>7. CASE SendSecret(c)
  BY <1>7 DEF SendSecret, Goto, Return, Written, GiveUp
<1>8. CASE SendProxyHeader(c)
  BY <1>8 DEF SendProxyHeader, Goto, Return, Written, GiveUp
<1>9. CASE Handshake(c)
  BY <1>9 DEF Handshake, Goto, Return, HandshakeFails, GiveUp
<1>10. CASE Join(c)
  BY <1>10 DEF Join, Goto
<1>11. CASE EndRelay(c)
  BY <1>11 DEF EndRelay, Goto
<1>12. CASE Leave(c)
  BY <1>12 DEF Leave, Goto
<1> QED
  BY <1>1, <1>2, <1>3, <1>4, <1>5, <1>6, <1>7, <1>8, <1>9, <1>10, <1>11, <1>12

\* A server is dialled only after the checks.
LEMMA ServedKept ==
  ASSUME IInv, Next
  PROVE  ServedAreListed'
<1> SUFFICES ASSUME NEW c \in Conns,
               \/ Inject(c) \/ Status(c) \/ RespondMotd(c) \/ RespondPing(c)
               \/ CheckPlayer(c) \/ Dial(c) \/ SendSecret(c) \/ SendProxyHeader(c)
               \/ Handshake(c) \/ Join(c) \/ EndRelay(c) \/ Leave(c)
      PROVE  ServedAreListed'
  BY DEF Next
<1> USE DEF IInv, Typed, ServedAreListed, ServerRight, ChecksRight, Locked, Undialled, Dialled, HostRefused, NameRefused, Login
<1>1. CASE Inject(c)
  BY <1>1 DEF Inject, Goto, Return, ReturnLingering, HostRefused
<1>2. CASE Status(c)
  BY <1>2 DEF Status, Goto, Return
<1>3. CASE RespondMotd(c)
  BY <1>3 DEF RespondMotd, Goto, Return
<1>4. CASE RespondPing(c)
  BY <1>4 DEF RespondPing, Goto, Return
<1>5. CASE CheckPlayer(c)
  BY <1>5 DEF CheckPlayer, Goto, Return, ReturnLingering, NameRefused, LimitReached
<1>6. CASE Dial(c)
  BY <1>6 DEF Dial, Goto, Return
<1>7. CASE SendSecret(c)
  BY <1>7 DEF SendSecret, Goto, Return, Written, GiveUp
<1>8. CASE SendProxyHeader(c)
  BY <1>8 DEF SendProxyHeader, Goto, Return, Written, GiveUp
<1>9. CASE Handshake(c)
  BY <1>9 DEF Handshake, Goto, Return, HandshakeFails, GiveUp
<1>10. CASE Join(c)
  BY <1>10 DEF Join, Goto
<1>11. CASE EndRelay(c)
  BY <1>11 DEF EndRelay, Goto
<1>12. CASE Leave(c)
  BY <1>12 DEF Leave, Goto
<1> QED
  BY <1>1, <1>2, <1>3, <1>4, <1>5, <1>6, <1>7, <1>8, <1>9, <1>10, <1>11, <1>12

\* Every write is the next item of the preamble.
LEMMA WireRightKept ==
  ASSUME IInv, Next
  PROVE  WireRight'
<1> SUFFICES ASSUME NEW c \in Conns,
               \/ Inject(c) \/ Status(c) \/ RespondMotd(c) \/ RespondPing(c)
               \/ CheckPlayer(c) \/ Dial(c) \/ SendSecret(c) \/ SendProxyHeader(c)
               \/ Handshake(c) \/ Join(c) \/ EndRelay(c) \/ Leave(c)
      PROVE  WireRight'
  BY DEF Next
<1> USE DEF IInv, Typed, WireRight, Locked, Undialled
<1>a. cfg' = cfg
  BY DEF Inject, Status, RespondMotd, RespondPing, CheckPlayer, Dial, SendSecret,
         SendProxyHeader, Handshake, Join, EndRelay, Leave
<1>b. SecretPart' = SecretPart /\ ProxyPart' = ProxyPart /\ Preamble' = Preamble
        /\ (SecretPart \o ProxyPart)' = SecretPart \o ProxyPart
  BY <1>a DEF SecretPart, ProxyPart, Preamble
<1>1. CASE Inject(c)
  BY <1>1, <1>b DEF Inject, Goto, Return, ReturnLingering, HostRefused
<1>2. CASE Status(c)
  BY <1>2, <1>b DEF Status, Goto, Return
<1>3. CASE RespondMotd(c)
  BY <1>3, <1>b DEF RespondMotd, Goto, Return
<1>4. CASE RespondPing(c)
  BY <1>4, <1>b DEF RespondPing, Goto, Return
<1>5. CASE CheckPlayer(c)
  BY <1>5, <1>b DEF CheckPlayer, Goto, Return, ReturnLingering, NameRefused, LimitReached
<1>6. CASE Dial(c)
  BY <1>6, <1>b DEF Dial, Goto, Return
<1>7. CASE SendSecret(c)
  <2>1. \A d \in Conns \ {c} : wire'[d] = wire[d] /\ pc'[d] = pc[d]
    BY <1>7 DEF SendSecret, Goto, Return, Written, GiveUp
  <2>2. wire[c] = <<>>
    BY <1>7 DEF SendSecret, Goto, Return, Written, GiveUp
  <2>3. \/ pc'[c] = "done" /\ wire'[c] = wire[c]
        \/ pc'[c] \in {"proxy"} /\ wire'[c] = SecretPart
    BY <1>7, <2>2, AppendItem DEF SendSecret, Goto, Return, Written, GiveUp
  <2> QED
    BY <1>b, <2>1, <2>2, <2>3
<1>8. CASE SendProxyHeader(c)
  <2>1. \A d \in Conns \ {c} : wire'[d] = wire[d] /\ pc'[d] = pc[d]
    BY <1>8 DEF SendProxyHeader, Goto, Return, Written, GiveUp
  <2>2. wire[c] = SecretPart
    BY <1>8 DEF SendProxyHeader, Goto, Return, Written, GiveUp
  <2>3. \/ pc'[c] = "done" /\ wire'[c] = wire[c]
        \/ pc'[c] \in {"handshake"} /\ wire'[c] = SecretPart \o ProxyPart
    BY <1>8, <2>2, AppendItem DEF SendProxyHeader, Goto, Return, Written, GiveUp
  <2> QED
    BY <1>b, <2>1, <2>2, <2>3
<1>9. CASE Handshake(c)
  <2>1. \A d \in Conns \ {c} : wire'[d] = wire[d] /\ pc'[d] = pc[d]
    BY <1>9 DEF Handshake, Goto, Return, HandshakeFails, GiveUp
  <2>2. wire[c] = SecretPart \o ProxyPart
    BY <1>9 DEF Handshake, Goto, Return, HandshakeFails, GiveUp
  <2>3. \/ pc'[c] = "done" /\ wire'[c] = wire[c]
        \/ pc'[c] \in {"joined", "relay"} /\ wire'[c] = Preamble
    BY <1>9, <2>2, AppendItem DEF Handshake, Goto, Return, HandshakeFails, GiveUp
  <2> QED
    BY <1>b, <2>1, <2>2, <2>3
<1>10. CASE Join(c)
  BY <1>10, <1>b DEF Join, Goto
<1>11. CASE EndRelay(c)
  BY <1>11, <1>b DEF EndRelay, Goto
<1>12. CASE Leave(c)
  BY <1>12, <1>b DEF Leave, Goto
<1> QED
  BY <1>1, <1>2, <1>3, <1>4, <1>5, <1>6, <1>7, <1>8, <1>9, <1>10, <1>11, <1>12

-----------------------------------------------------------------------------
(***************************************************************************)
(* onlineCount: Join adds a player and Leave takes one out, and no other   *)
(* step changes who is a player.                                           *)
(***************************************************************************)
\* The players can be counted.
LEMMA PlayersFinite ==
  IsFiniteSet(Players) /\ Cardinality(Players) \in Nat
BY OutboundAssumption, FS_Subset, FS_CardinalityType DEF Players

\* Only Join and Leave change the players or the count.
LEMMA SamePlayers ==
  ASSUME IInv, Next, \A c \in Conns : ~Join(c) /\ ~Leave(c)
  PROVE  Players' = Players /\ online' = online
<1> USE DEF IInv, Typed, ChecksRight, Locked, Players, Login
<1> SUFFICES ASSUME NEW c \in Conns,
               \/ Inject(c) \/ Status(c) \/ RespondMotd(c) \/ RespondPing(c)
               \/ CheckPlayer(c) \/ Dial(c) \/ SendSecret(c) \/ SendProxyHeader(c)
               \/ Handshake(c) \/ EndRelay(c)
      PROVE  Players' = Players /\ online' = online
  BY DEF Next
<1>1. CASE Inject(c) \/ Status(c) \/ RespondMotd(c) \/ RespondPing(c) \/ CheckPlayer(c)
  BY <1>1 DEF Inject, Status, RespondMotd, RespondPing, CheckPlayer, Goto, Return,
              ReturnLingering
<1>2. CASE Dial(c) \/ SendSecret(c) \/ SendProxyHeader(c)
  BY <1>2 DEF Dial, SendSecret, SendProxyHeader, Goto, Return, Written, GiveUp
<1>3. CASE Handshake(c)
  BY <1>3 DEF Handshake, HandshakeFails, GiveUp, Goto, Return
<1>4. CASE EndRelay(c)
  BY <1>4 DEF EndRelay, Goto
<1> QED
  BY <1>1, <1>2, <1>3, <1>4

\* Join and Leave change both alike.
LEMMA CountKept ==
  ASSUME IInv, Next
  PROVE  PlayersCounted'
<1> USE DEF IInv, PlayersCounted
<1>1. ASSUME NEW c \in Conns, Join(c) PROVE PlayersCounted'
  <2>1. c \notin Players /\ Players' = Players \cup {c}
    BY <1>1 DEF Join, Goto, Players, Login, Typed, ChecksRight
  <2>2. Cardinality(Players \cup {c}) = Cardinality(Players) + 1
    BY <2>1, PlayersFinite, FS_AddElement
  <2> QED
    BY <1>1, <2>1, <2>2 DEF Join
<1>2. ASSUME NEW c \in Conns, Leave(c) PROVE PlayersCounted'
  <2>1. c \in Players /\ Players' = Players \ {c}
    BY <1>2 DEF Leave, Goto, Players, Login, Typed, ChecksRight
  <2>2. Cardinality(Players \ {c}) = Cardinality(Players) - 1
    BY <2>1, PlayersFinite, FS_RemoveElement
  <2> QED
    BY <1>2, <2>1, <2>2 DEF Leave
<1>3. CASE \A c \in Conns : ~Join(c) /\ ~Leave(c)
  BY <1>3, SamePlayers
<1> QED
  BY <1>1, <1>2, <1>3

-----------------------------------------------------------------------------
\* The inductive invariant holds of every behaviour.
LEMMA InvariantHolds == Spec => []IInv
<1>1. Init => IInv
  <2> SUFFICES ASSUME Init PROVE IInv
    OBVIOUS
  <2>1. Players = {} /\ Cardinality({}) = 0
    BY FS_EmptySet DEF Init, Players
  <2>2. Typed
    <3>1. <<>> \in Seq(Item)
      OBVIOUS
    <3> QED
      BY <3>1 DEF Init, Typed
  <2>3. LockRight /\ ServerRight /\ ChecksRight /\ ServedAreListed
    BY DEF Init, LockRight, ServerRight, ChecksRight, ServedAreListed, Locked, Undialled,
           Dialled
  <2>4. WireRight
    BY DEF Init, WireRight, Undialled
  <2> QED
    BY <2>1, <2>2, <2>3, <2>4 DEF Init, IInv, PlayersCounted
<1>2. IInv /\ [Next]_vars => IInv'
  <2>1. CASE Next
    BY <2>1, TypedKept, LockRightKept, ServerRightKept, ChecksRightKept, ServedKept,
       WireRightKept, CountKept DEF IInv
  <2>2. CASE UNCHANGED vars
    BY <2>2 DEF vars, IInv, Typed, LockRight, ServerRight, ChecksRight, ServedAreListed,
                WireRight, PlayersCounted, Players, Login, HostRefused, NameRefused,
                Preamble, SecretPart, ProxyPart
  <2> QED
    BY <2>1, <2>2
<1> QED
  BY <1>1, <1>2, PTL DEF Spec

\* The fields of the outbound and the goroutines have their types; onlineCount
\* never goes below zero.
THEOREM OutboundTypeCorrect == Spec => []TypeOK
<1>1. IInv => TypeOK
  BY PlayersFinite DEF IInv, Typed, TypeOK, PlayersCounted, Locked
<1> QED
  BY <1>1, InvariantHolds, PTL

\* InjectConnection dials a server only for those its lists let pass.
THEOREM OnlyListedServed == Spec => []ServedAreListed
<1>1. IInv => ServedAreListed
  BY DEF IInv
<1> QED
  BY <1>1, InvariantHolds, PTL

\* onlineCount is the number of logins being relayed.
THEOREM OnlineCountRight == Spec => []PlayersCounted
<1>1. IInv => PlayersCounted
  BY DEF IInv
<1> QED
  BY <1>1, InvariantHolds, PTL

\* No goroutine that relays or has returned holds the lock, and no login that has
\* returned a server connection.
THEOREM EverythingGivenBack == Spec => []NothingKept
<1>1. IInv => NothingKept
  BY DEF IInv, NothingKept, LockRight, ServerRight, Locked
<1> QED
  BY <1>1, InvariantHolds, PTL

\* What a server is sent first is the secret, the PROXY header and the handshake,
\* in this order and as configured.
THEOREM PreambleComplete == Spec => []PreambleFirst
<1>1. IInv => PreambleFirst
  <2> SUFFICES ASSUME IInv, NEW c \in Conns
               PROVE  wire[c] = SubSeq(Preamble, 1, Len(wire[c]))
    BY DEF IInv, PreambleFirst, WireRight
  <2>1. wire[c] \in {<<>>, SecretPart, SecretPart \o ProxyPart, Preamble}
    BY DEF IInv, WireRight
  <2>2. Preamble = SecretPart \o ProxyPart \o <<"handshake">>
    BY DEF Preamble, SecretPart, ProxyPart
  <2>3. SecretPart \in Seq(Item) /\ ProxyPart \in Seq(Item) /\ <<"handshake">> \in Seq(Item)
          /\ <<>> \in Seq(Item)
    BY ItemSequences DEF Item
  <2>4. ASSUME NEW s \in Seq(Item), NEW t \in Seq(Item)
        PROVE  s = SubSeq(s \o t, 1, Len(s))
    OBVIOUS
  <2>5. <<>> \o Preamble = Preamble /\ Preamble \o <<>> = Preamble /\ Preamble \in Seq(Item)
    BY ItemSequences
  <2>6. SecretPart \o (ProxyPart \o <<"handshake">>) = Preamble
          /\ ProxyPart \o <<"handshake">> \in Seq(Item)
    BY <2>2, <2>3
  <2>7. CASE wire[c] = <<>>
    BY <2>3, <2>4, <2>5, <2>7
  <2>8. CASE wire[c] = SecretPart
    BY <2>3, <2>4, <2>6, <2>8
  <2>9. CASE wire[c] = SecretPart \o ProxyPart
    BY <2>2, <2>3, <2>4, <2>9, ItemSequences
  <2>10. CASE wire[c] = Preamble
    BY <2>3, <2>4, <2>5, <2>10
  <2> QED
    BY <2>1, <2>7, <2>8, <2>9, <2>10
<1> QED
  BY <1>1, InvariantHolds, PTL

-----------------------------------------------------------------------------
(***************************************************************************)
(* The lock, the way through InjectConnection, and the panic.              *)
(***************************************************************************)
\* The lock is held exactly while the configuration is read: from the checks to the
\* handshake.
LockHeld == \A c \in Conns : c \in readers <=> pc[c] \in Locked

\* How far a connection still has to go.
Ahead(label) ==
  CASE label = "new" -> 11 [] label \in {"status", "login"} -> 10 [] label = "motd" -> 9
    [] label \in {"ping", "dial"} -> 8 [] label = "secret" -> 7 [] label = "proxy" -> 6
    [] label = "handshake" -> 5 [] label = "joined" -> 4 [] label = "relay" -> 3
    [] label = "left" -> 2 [] OTHER -> 1

\* A step is one connection's, and takes it forward.
GoesForward == \E c \in Conns :
  /\ Ahead(pc'[c]) < Ahead(pc[c])
  /\ \A d \in Conns \ {c} : pc'[d] = pc[d] /\ (d \in readers' <=> d \in readers)

\* Who is answered and then closed with SetLinger.
Kicked(c) ==
  \/ HostRefused(c) \/ req[c].intent = "transfer"
  \/ Login(c) /\ (NameRefused(c) \/ cfg.max # NoLimit)

\* A panic is that of a connection which came through a tunnel and was to be kicked.
PanicExplained == crashed => \E c \in Conns :
  /\ req[c].network # "tcp" /\ Kicked(c)
  /\ pc[c] = "done" /\ server[c] = "none" /\ c \notin readers

\* Only a login is checked as one.
LoginRight == \A c \in Conns : pc[c] = "login" => Login(c)

\* What an action of c leaves of the others, and how it takes c on.
LEMMA ForwardStep ==
  ASSUME IInv, LockHeld, Next
  PROVE  LockHeld' /\ GoesForward
<1> SUFFICES ASSUME NEW c \in Conns,
               \/ Inject(c) \/ Status(c) \/ RespondMotd(c) \/ RespondPing(c)
               \/ CheckPlayer(c) \/ Dial(c) \/ SendSecret(c) \/ SendProxyHeader(c)
               \/ Handshake(c) \/ Join(c) \/ EndRelay(c) \/ Leave(c)
      PROVE  LockHeld' /\ GoesForward
  BY DEF Next
<1> DEFINE Moved(from, to) == /\ pc[c] = from /\ pc' = [pc EXCEPT ![c] = to]
                              /\ readers' = IF to \in Locked THEN readers \cup {c}
                                            ELSE readers \ {c}
<1>0. pc \in [Conns -> Locked \cup {"new", "joined", "relay", "left", "done"}]
      /\ readers \subseteq Conns
  BY DEF IInv, Typed
<1>1. ASSUME NEW from, NEW to, Moved(from, to), Ahead(to) < Ahead(from)
      PROVE  LockHeld' /\ GoesForward
  <2>1. /\ pc'[c] = to /\ pc[c] = from
        /\ \A d \in Conns \ {c} : pc'[d] = pc[d] /\ (d \in readers' <=> d \in readers)
    BY <1>0, <1>1
  <2>2. c \in readers' <=> to \in Locked
    BY <1>1
  <2> QED
    BY <1>1, <2>1, <2>2 DEF LockHeld, GoesForward
<1>2. c \in readers <=> pc[c] \in Locked
  BY DEF LockHeld
<1> HIDE DEF Moved
<1> USE DEF Goto, Return, ReturnLingering
<1>3. CASE Inject(c)
  <2>1. PICK to \in {"status", "login", "done"} : Moved("new", to)
    BY <1>2, <1>3 DEF Inject, Locked, Moved
  <2>2. Ahead(to) < Ahead("new")
    BY <2>1 DEF Ahead
  <2> QED
    BY <1>1, <2>1, <2>2, Zenon
<1>4. CASE Status(c)
  <2>1. PICK to \in {"motd", "dial", "done"} : Moved("status", to)
    BY <1>2, <1>4 DEF Status, Locked, Moved
  <2>2. Ahead(to) < Ahead("status")
    BY <2>1 DEF Ahead
  <2> QED
    BY <1>1, <2>1, <2>2, Zenon
<1>5. CASE RespondMotd(c)
  <2>1. PICK to \in {"ping", "done"} : Moved("motd", to)
    BY <1>2, <1>5 DEF RespondMotd, Locked, Moved
  <2>2. Ahead(to) < Ahead("motd")
    BY <2>1 DEF Ahead
  <2> QED
    BY <1>1, <2>1, <2>2, Zenon
<1>6. CASE RespondPing(c)
  <2>1. PICK to \in {"done"} : Moved("ping", to)
    BY <1>2, <1>6 DEF RespondPing, Locked, Moved
  <2>2. Ahead(to) < Ahead("ping")
    BY <2>1 DEF Ahead
  <2> QED
    BY <1>1, <2>1, <2>2, Zenon
<1>7. CASE CheckPlayer(c)
  <2>1. PICK to \in {"dial", "done"} : Moved("login", to)
    BY <1>2, <1>7 DEF CheckPlayer, Locked, Moved
  <2>2. Ahead(to) < Ahead("login")
    BY <2>1 DEF Ahead
  <2> QED
    BY <1>1, <2>1, <2>2, Zenon
<1>8. CASE Dial(c)
  <2>1. PICK to \in {"secret", "done"} : Moved("dial", to)
    BY <1>2, <1>8 DEF Dial, Locked, Moved
  <2>2. Ahead(to) < Ahead("dial")
    BY <2>1 DEF Ahead
  <2> QED
    BY <1>1, <2>1, <2>2, Zenon
<1>9. CASE SendSecret(c)
  <2>1. PICK to \in {"proxy", "done"} : Moved("secret", to)
    BY <1>2, <1>9 DEF SendSecret, Written, GiveUp, Locked, Moved
  <2>2. Ahead(to) < Ahead("secret")
    BY <2>1 DEF Ahead
  <2> QED
    BY <1>1, <2>1, <2>2, Zenon
<1>10. CASE SendProxyHeader(c)
  <2>1. PICK to \in {"handshake", "done"} : Moved("proxy", to)
    BY <1>2, <1>10 DEF SendProxyHeader, Written, GiveUp, Locked, Moved
  <2>2. Ahead(to) < Ahead("proxy")
    BY <2>1 DEF Ahead
  <2> QED
    BY <1>1, <2>1, <2>2, Zenon
<1>11. CASE Handshake(c)
  <2>1. PICK to \in {"joined", "relay", "done"} : Moved("handshake", to)
    BY <1>2, <1>11 DEF Handshake, HandshakeFails, GiveUp, Locked, Moved
  <2>2. Ahead(to) < Ahead("handshake")
    BY <2>1 DEF Ahead
  <2> QED
    BY <1>1, <2>1, <2>2, Zenon
<1>12. CASE Join(c)
  <2>1. PICK to \in {"relay"} : Moved("joined", to)
    BY <1>2, <1>12 DEF Join, Locked, Moved
  <2>2. Ahead(to) < Ahead("joined")
    BY <2>1 DEF Ahead
  <2> QED
    BY <1>1, <2>1, <2>2, Zenon
<1>13. CASE EndRelay(c)
  <2>1. PICK to \in {"left", "done"} : Moved("relay", to)
    BY <1>2, <1>13 DEF EndRelay, Locked, Moved
  <2>2. Ahead(to) < Ahead("relay")
    BY <2>1 DEF Ahead
  <2> QED
    BY <1>1, <2>1, <2>2, Zenon
<1>14. CASE Leave(c)
  <2>1. PICK to \in {"done"} : Moved("left", to)
    BY <1>2, <1>14 DEF Leave, Locked, Moved
  <2>2. Ahead(to) < Ahead("left")
    BY <2>1 DEF Ahead
  <2> QED
    BY <1>1, <2>1, <2>2, Zenon
<1> QED
  BY <1>3, <1>4, <1>5, <1>6, <1>7, <1>8, <1>9, <1>10, <1>11, <1>12, <1>13, <1>14

\* Only Inject and CheckPlayer, for such a connection, assert that it is TCP's.
LEMMA PanicStep ==
  ASSUME IInv, LoginRight, PanicExplained, Next
  PROVE  PanicExplained'
<1> SUFFICES ASSUME NEW c \in Conns,
               \/ Inject(c) \/ Status(c) \/ RespondMotd(c) \/ RespondPing(c)
               \/ CheckPlayer(c) \/ Dial(c) \/ SendSecret(c) \/ SendProxyHeader(c)
               \/ Handshake(c) \/ Join(c) \/ EndRelay(c) \/ Leave(c),
               ~crashed, crashed'
      PROVE  PanicExplained'
  BY DEF Next, PanicExplained
<1>1. Inject(c) \/ CheckPlayer(c)
  BY DEF Status, RespondMotd, RespondPing, Dial, SendSecret, SendProxyHeader, Handshake, Join,
     EndRelay, Leave
<1>2. /\ ReturnLingering(c) /\ req[c].network # "tcp" /\ Kicked(c) /\ server[c] = "none"
      /\ UNCHANGED <<cfg, req, server>>
  <2>1. CASE Inject(c)
    BY <2>1 DEF Inject, ReturnLingering, Kicked, IInv, ServerRight, Undialled
  <2>2. CASE CheckPlayer(c)
    <3>1. /\ pc[c] = "login" /\ ReturnLingering(c) /\ UNCHANGED <<cfg, req, server>>
          /\ NameRefused(c) \/ cfg.max # NoLimit
      BY <2>2 DEF CheckPlayer, LimitReached
    <3>2. Login(c)
      BY <3>1 DEF LoginRight
    <3> QED
      BY <3>1, <3>2 DEF ReturnLingering, Kicked, IInv, ServerRight, Undialled
  <2> QED
    BY <1>1, <2>1, <2>2
<1>3. pc'[c] = "done" /\ c \notin readers'
  BY <1>2 DEF ReturnLingering, Return, Goto, IInv, Typed
<1> QED
  BY <1>2, <1>3 DEF PanicExplained, Kicked, HostRefused, NameRefused, Login


\* The login label is Inject's, for a login.
LEMMA LoginKept ==
  ASSUME IInv, LoginRight, Next
  PROVE  LoginRight'
<1> SUFFICES ASSUME NEW c \in Conns,
               \/ Inject(c) \/ Status(c) \/ RespondMotd(c) \/ RespondPing(c)
               \/ CheckPlayer(c) \/ Dial(c) \/ SendSecret(c) \/ SendProxyHeader(c)
               \/ Handshake(c) \/ Join(c) \/ EndRelay(c) \/ Leave(c)
      PROVE  LoginRight'
  BY DEF Next
<1> USE DEF IInv, Typed, LoginRight, Login, Goto, Return
<1>1. CASE Inject(c)
  BY <1>1 DEF Inject, ReturnLingering
<1>2. CASE Status(c) \/ RespondMotd(c) \/ RespondPing(c)
  BY <1>2 DEF Status, RespondMotd, RespondPing
<1>3. CASE CheckPlayer(c) \/ Dial(c)
  BY <1>3 DEF CheckPlayer, ReturnLingering, Dial
<1>4. CASE SendSecret(c) \/ SendProxyHeader(c)
  BY <1>4 DEF SendSecret, SendProxyHeader, Written, GiveUp
<1>5. CASE Handshake(c)
  BY <1>5 DEF Handshake, HandshakeFails, GiveUp
<1>6. CASE Join(c) \/ EndRelay(c) \/ Leave(c)
  BY <1>6 DEF Join, EndRelay, Leave
<1> QED
  BY <1>1, <1>2, <1>3, <1>4, <1>5, <1>6

WayInv == IInv /\ LockHeld /\ LoginRight /\ PanicExplained

LEMMA WayHolds == Spec => []WayInv
<1>1. Init /\ IInv => WayInv
  BY DEF Init, WayInv, LockHeld, LoginRight, PanicExplained, Locked
<1>2. WayInv /\ IInv' /\ [Next]_vars => WayInv'
  <2>1. ASSUME WayInv, IInv', Next PROVE WayInv'
    BY <2>1, ForwardStep, LoginKept, PanicStep DEF WayInv
  <2>2. ASSUME WayInv, IInv', UNCHANGED vars PROVE WayInv'
    BY <2>2 DEF WayInv, vars, LockHeld, LoginRight, PanicExplained, Kicked, HostRefused,
       NameRefused, Login
  <2> QED
    BY <2>1, <2>2
<1> QED
  BY <1>1, <1>2, InvariantHolds, PTL DEF Spec

\* InjectConnection holds the outbound's read lock from its first checks until the
\* handshake is sent or it returns, and at no other time: a reload waits for nobody
\* else.
THEOREM LockWhileReading == Spec => []LockHeld
<1>1. WayInv => LockHeld
  BY DEF WayInv
<1> QED
  BY <1>1, WayHolds, PTL

\* Every step of the outbound takes one connection forward, and leaves the others and
\* their hold of the lock alone: InjectConnection has at most ten steps, whatever the
\* configuration, the client and the errors, and none of them is taken twice.
THEOREM ConnectionsGoForward == Spec => [][GoesForward]_vars
<1>1. WayInv /\ [Next]_vars => [GoesForward]_vars
  BY ForwardStep DEF WayInv
<1> QED
  BY <1>1, WayHolds, PTL DEF Spec

\* The only way to the failed type assertion: a connection that is no TCP connection
\* is refused by a list, asks for a transfer or meets the player limit; its lock is
\* released and no server was dialled for it.
THEOREM PanicsAreOfTunnels == Spec => []PanicExplained
<1>1. WayInv => PanicExplained
  BY DEF WayInv
<1> QED
  BY <1>1, WayHolds, PTL
=============================================================================
