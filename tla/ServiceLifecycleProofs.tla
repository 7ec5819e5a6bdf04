------------------------ MODULE ServiceLifecycleProofs ------------------------
(***************************************************************************)
(* Proofs about ServiceLifecycle, for any sequence of versions and any     *)
(* number of connections, whatever fails on the way.  Each label of upc    *)
(* says which version the secret, the config, the legacy outbound and the  *)
(* lists are of; a listener, and all that comes from it, has a version no  *)
(* higher than the last that got as far as opening its port.               *)
(***************************************************************************)
EXTENDS ServiceLifecycle, TLAPS

\* The listeners and what was accepted from them are of version v or older.
UpTo(v) ==
  /\ \A n \in Nets : listener[n] <= v
  /\ \A s \in Socket : accepting[s] <= v
  /\ \A c \in Conns : from[c] <= v

\* Labels at which the version `target` has opened no port.
BeforePorts == {"secret", "reload", "close tcp", "close udp", "closed", "config", "no legacy",
                "no lists", "legacy", "lists", "tcp"}

LegacyReady == Configs[target].minecraft => legacyOutbound = target
ListsReady == Configs[target].access => ipAccessLists = target

\* The secret is replaced first; the config before what is made of it.
VersionsInOrder ==
  /\ authSecret = IF upc = "secret" THEN target - 1 ELSE target
  /\ config <= target
  /\ upc \in {"no legacy", "no lists", "legacy", "lists", "tcp", "udp", "started"} =>
       config = target
  /\ UpTo(target)
  /\ upc \in BeforePorts => UpTo(target - 1)

\* The legacy outbound and the lists are in place before a port is opened, and stay
\* as long as something of their version can be accepted or handled.
PreparedFirst ==
  /\ upc \in {"lists", "tcp", "udp", "started"} => LegacyReady
  /\ upc \in {"tcp", "udp", "started"} => ListsReady
  /\ UpTo(target - 1) \/ (LegacyReady /\ ListsReady)

\* What a connection has been checked against on its way through handleInbound.
Checked == \A c \in Conns :
  /\ cpc[c] \in {"none", "queued"} => saw[c] = Nothing
  /\ cpc[c] = "route" /\ from[c] = target /\ Configs[from[c]].access =>
       saw[c].lists = from[c]

\* Labels at which the service holds no listener.
NoListener ==
  /\ upc \in {"closed", "config", "no legacy", "no lists", "legacy", "lists", "tcp",
              "stopped", "down"} => listener["tcp"] = Nil /\ listener["udp"] = Nil
  /\ upc \in {"secret", "reload", "idle"} /\ ~started =>
       listener["tcp"] = Nil /\ listener["udp"] = Nil
  /\ upc \in {"config", "no legacy", "no lists", "legacy", "lists", "tcp", "udp",
              "started"} => ~started
  /\ upc = "secret" /\ target = 1 => ~started
  /\ upc \in {"close udp", "stop udp"} => listener["tcp"] = Nil
  /\ upc = "udp" => listener["udp"] = Nil

IInv ==
  /\ TypeOK /\ VersionsInOrder /\ PreparedFirst /\ Checked /\ NoListener
  /\ KeyBeforeListener /\ ReadyBeforeListener /\ NothingLeftListening

-----------------------------------------------------------------------------
LEMMA ConfigFacts ==
  ASSUME NEW v \in Version
  PROVE  /\ Configs[v] \in Config /\ Configs[v].nets \subseteq Nets
         /\ Configs[v].require \in BOOLEAN /\ Configs[v].access \in BOOLEAN
         /\ Configs[v].minecraft \in BOOLEAN /\ Configs[v].haveSecret \in BOOLEAN
<1>1. Configs[v] \in Config
  BY ServiceAssumption DEF Version
<1> QED
  BY <1>1 DEF Config, Nets

LEMMA VersionFacts ==
  /\ Len(Configs) \in Nat /\ 1 \in Version /\ Version \subseteq Nat /\ Nil \notin Version
  /\ VersionOrNil \subseteq Nat /\ Nil = 0
BY ServiceAssumption DEF Version, VersionOrNil, Nil

\* A step of handleInbound.
Handles(c) == Authenticate(c) \/ FindLists(c) \/ CheckAccess(c) \/ Handle(c)

\* The steps of Next, as a case distinction on one of them would have them.
LEMMA StepCases ==
  ASSUME Next
  PROVE  \/ NextVersion \/ SetAuthSecret \/ Refuse \/ Close \/ SwapConfig \/ DropLegacy
         \/ DropLists \/ StartLegacy \/ LoadLists \/ ListenTCP \/ ListenUDP \/ Started
         \/ \E s \in Socket : LoopReads(s) \/ LoopEnds(s) \/ \E c \in Conns : LoopAccepts(s, c)
         \/ \E c \in Conns : TunnelQueues(c) \/ TunnelForgets(c)
         \/ \E c \in Conns : Handles(c)
BY DEF Next, Update, Start, Loop, Tunnel, HandleInbound, Handles

\* What `saw` records of a connection.
Sight == [secret : VersionOrNil, lists : VersionOrNil, legacy : VersionOrNil, at : VersionOrNil]

LEMMA SightKept ==
  ASSUME NEW d \in Sight, NEW v \in VersionOrNil, NEW w \in VersionOrNil
  PROVE  /\ [d EXCEPT !.secret = v] \in Sight /\ [d EXCEPT !.lists = v] \in Sight
         /\ [d EXCEPT !.legacy = v, !.at = w] \in Sight
BY DEF Sight

LEMMA TypeCorrectInit == Init => TypeOK
<1> SUFFICES ASSUME Init PROVE TypeOK
  OBVIOUS
<1>1. Nothing \in [secret : VersionOrNil, lists : VersionOrNil, legacy : VersionOrNil,
                   at : VersionOrNil]
  BY DEF Nothing, VersionOrNil
<1> QED
  BY <1>1, VersionFacts DEF Init, TypeOK, VersionOrNil

LEMMA TypeKept ==
  ASSUME TypeOK, [Next]_vars
  PROVE  TypeOK'
<1> USE VersionFacts DEF TypeOK, VersionOrNil
<1>1. CASE NextVersion
  BY <1>1 DEF NextVersion, Version, fields, loopVars, connVars
<1>2. CASE SetAuthSecret
  BY <1>2 DEF SetAuthSecret, fields, loopVars, connVars
<1>3. CASE Refuse
  BY <1>3 DEF Refuse, fields, loopVars, connVars
<1>4. CASE Close
  <2>1. ASSUME NEW label \in {"reload", "idle"}, BeginClose(label)
        PROVE  TypeOK'
    BY <2>1 DEF BeginClose, fields, loopVars, connVars
  <2>2. ASSUME NEW net \in Nets, NEW label, CloseListener(net, label, "close udp")
                 \/ CloseListener(net, label, "closed") \/ CloseListener(net, label, "stop udp")
                 \/ CloseListener(net, label, "stopped")
        PROVE  TypeOK'
    BY <2>2 DEF CloseListener, CloseSocket, Forget, CloseHangs, loopVars, connVars
  <2>3. CASE Closed
    BY <2>3 DEF Closed, loopVars, connVars
  <2> QED
    BY <1>4, <2>1, <2>2, <2>3 DEF Close, Nets
<1>5. CASE SwapConfig
  BY <1>5 DEF SwapConfig, loopVars, connVars
<1>6. CASE DropLegacy
  BY <1>6 DEF DropLegacy, loopVars, connVars
<1>7. CASE DropLists
  BY <1>7 DEF DropLists, loopVars, connVars
<1>8. CASE StartLegacy
  BY <1>8 DEF StartLegacy, loopVars, connVars
<1>9. CASE LoadLists
  BY <1>9 DEF LoadLists, loopVars, connVars
<1>10. CASE ListenTCP
  <2>1. CASE UNCHANGED <<open, listener, loops>>
    BY <1>10, <2>1 DEF ListenTCP, Opened, connVars
  <2>2. CASE Opened("tcp", "udp")
    BY <1>10, <2>2 DEF ListenTCP, Opened, connVars, Socket, Nets
  <2> QED
    BY <1>10, <2>1, <2>2 DEF ListenTCP
<1>11. CASE ListenUDP
  <2>1. CASE (ListenFails \/ UNCHANGED <<open, listener>>) /\ UNCHANGED loops
                 /\ upc' \in {"idle", "started"}
    BY <1>11, <2>1 DEF ListenUDP, ListenFails, connVars, Nets
  <2>2. CASE Opened("udp", "started")
    BY <1>11, <2>2 DEF ListenUDP, Opened, connVars, Socket, Nets
  <2> QED
    BY <1>11, <2>1, <2>2 DEF ListenUDP
<1>12. CASE Started
  BY <1>12 DEF Started, loopVars, connVars
<1>13. ASSUME NEW s \in Socket, LoopReads(s)
       PROVE  TypeOK'
  BY <1>13 DEF LoopReads, fields, connVars, Socket
<1>14. ASSUME NEW s \in Socket, LoopEnds(s)
       PROVE  TypeOK'
  BY <1>14 DEF LoopEnds, fields, connVars
<1>15. ASSUME NEW s \in Socket, NEW c \in Conns, LoopAccepts(s, c)
       PROVE  TypeOK'
  BY <1>15 DEF LoopAccepts, fields
<1>16. ASSUME NEW c \in Conns, Authenticate(c)
       PROVE  TypeOK'
  <2>1. saw \in [Conns -> Sight] /\ saw[c] \in Sight
    BY DEF Sight
  <2>2. [saw[c] EXCEPT !.secret = authSecret] \in Sight
    BY <2>1, SightKept
  <2>3. saw' = [saw EXCEPT ![c] = [saw[c] EXCEPT !.secret = authSecret]] \/ UNCHANGED saw
    BY <1>16 DEF Authenticate
  <2>4. saw' \in [Conns -> Sight]
    BY <2>1, <2>2, <2>3
  <2>5. cpc' \in [Conns -> {"none", "queued", "auth", "access", "check", "route", "served", "closed"}]
    BY <1>16 DEF Authenticate
  <2> QED
    BY <1>16, <2>4, <2>5 DEF Authenticate, fields, loopVars, Sight
<1>17. ASSUME NEW c \in Conns, CheckAccess(c)
       PROVE  TypeOK'
  <2>1. saw \in [Conns -> Sight] /\ saw[c] \in Sight
    BY DEF Sight
  <2>2. [saw[c] EXCEPT !.lists = ipAccessLists] \in Sight
    BY <2>1, SightKept
  <2>3. saw' = [saw EXCEPT ![c] = [saw[c] EXCEPT !.lists = ipAccessLists]]
    BY <1>17 DEF CheckAccess
  <2>4. saw' \in [Conns -> Sight]
    BY <2>1, <2>2, <2>3
  <2> QED
    BY <1>17, <2>4 DEF CheckAccess, fields, loopVars, Sight
<1>18. ASSUME NEW c \in Conns, Handle(c)
       PROVE  TypeOK'
  <2>1. saw \in [Conns -> Sight] /\ saw[c] \in Sight
    BY DEF Sight
  <2>2. [saw[c] EXCEPT !.legacy = legacyOutbound, !.at = target] \in Sight
    BY <2>1, SightKept
  <2>3. saw' = [saw EXCEPT ![c] = [saw[c] EXCEPT !.legacy = legacyOutbound, !.at = target]]
    BY <1>18 DEF Handle
  <2>4. saw' \in [Conns -> Sight]
    BY <2>1, <2>2, <2>3
  <2> QED
    BY <1>18, <2>4 DEF Handle, fields, loopVars, Sight
<1>19. CASE UNCHANGED vars
  BY <1>19 DEF vars, fields, loopVars, connVars
<1>20. ASSUME NEW c \in Conns, TunnelQueues(c)
       PROVE  TypeOK'
  <2>1. listener["udp"] \in VersionOrNil
    BY DEF Nets
  <2> QED
    BY <1>20, <2>1 DEF TunnelQueues, fields, loopVars
<1>21. ASSUME NEW c \in Conns, TunnelForgets(c) \/ FindLists(c)
       PROVE  TypeOK'
  BY <1>21 DEF TunnelForgets, FindLists, fields, loopVars
<1> QED
  BY <1>1, <1>2, <1>3, <1>4, <1>5, <1>6, <1>7, <1>8, <1>9, <1>10, <1>11, <1>12, <1>13, <1>14,
     <1>15, <1>16, <1>17, <1>18, <1>19, <1>20, <1>21, StepCases DEF Handles

-----------------------------------------------------------------------------
LEMMA NumberFacts ==
  ASSUME TypeOK
  PROVE  /\ target \in Nat /\ target >= 1 /\ target - 1 \in Nat
         /\ config \in Nat /\ config >= 1
         /\ \A n \in Nets : listener[n] \in Nat
         /\ \A s \in Socket : accepting[s] \in Nat
         /\ \A c \in Conns : from[c] \in Nat
<1>1. target \in Version /\ config \in Version
  BY DEF TypeOK
<1>2. /\ target \in Nat /\ target >= 1 /\ target - 1 \in Nat
      /\ config \in Nat /\ config >= 1
  BY <1>1, VersionFacts DEF Version
<1>3. \A v \in VersionOrNil : v \in Nat
  BY VersionFacts
<1>4. /\ \A n \in Nets : listener[n] \in VersionOrNil
      /\ \A s \in Socket : accepting[s] \in VersionOrNil
      /\ \A c \in Conns : from[c] \in VersionOrNil
  BY DEF TypeOK
<1> QED
  BY <1>2, <1>3, <1>4, Zenon

LEMMA NewerBound ==
  ASSUME TypeOK, NEW v \in Int, NEW w \in Int, v <= w, UpTo(v)
  PROVE  UpTo(w)
BY NumberFacts DEF UpTo

\* What a step may take from a listener.
Takes ==
  \/ UNCHANGED <<accepting, from>>
  \/ \E c \in Conns : TunnelQueues(c)
  \/ \E s \in Socket : LoopReads(s) \/ LoopEnds(s) \/ \E c \in Conns : LoopAccepts(s, c)

\* What is taken from a listener is no newer than it.
LEMMA BoundKept ==
  ASSUME TypeOK, NEW v \in Int, UpTo(v), v >= 0,
         \A n \in Nets : listener'[n] \in {listener[n], Nil}, Takes
  PROVE  UpTo(v)'
<1> USE DEF TypeOK, UpTo
<1>1. \A n \in Nets : listener'[n] <= v
  BY DEF Nil
<1>2. CASE UNCHANGED <<accepting, from>>
  BY <1>1, <1>2
<1>3. ASSUME NEW s \in Socket, LoopReads(s) \/ LoopEnds(s)
      PROVE  UpTo(v)'
  BY <1>1, <1>3 DEF LoopReads, LoopEnds, connVars, Socket, Nil
<1>4. ASSUME NEW s \in Socket, NEW c \in Conns, LoopAccepts(s, c)
      PROVE  UpTo(v)'
  BY <1>1, <1>4 DEF LoopAccepts, Nil
<1>5. ASSUME NEW c \in Conns, TunnelQueues(c)
      PROVE  UpTo(v)'
  BY <1>1, <1>5 DEF TunnelQueues, loopVars, Nets
<1> QED
  BY <1>2, <1>3, <1>4, <1>5 DEF Takes

\* All steps but four: nothing new is opened, and `target` stays.
LEMMA QuietStep ==
  ASSUME TypeOK, [Next]_vars
  PROVE  \/ NextVersion \/ SetAuthSecret \/ ListenTCP \/ ListenUDP
         \/ /\ UNCHANGED <<target, authSecret>>
            /\ \A n \in Nets : listener'[n] \in {listener[n], Nil}
            /\ Takes
<1> USE DEF fields, loopVars, connVars, Takes
<1>1. CASE Refuse \/ SwapConfig \/ DropLegacy \/ DropLists \/ StartLegacy \/ LoadLists \/ Started
  BY <1>1 DEF Refuse, SwapConfig, DropLegacy, DropLists, StartLegacy, LoadLists, Started
<1>2. CASE Close
  <2>1. UNCHANGED <<target, authSecret, accepting, from>>
    BY <1>2 DEF Close, BeginClose, CloseListener, CloseSocket, Forget, CloseHangs, Closed
  <2>2. \/ UNCHANGED listener
        \/ \E n \in Nets : listener' = [listener EXCEPT ![n] = Nil]
    BY <1>2 DEF Close, BeginClose, CloseListener, CloseSocket, Forget, CloseHangs, Closed, Nets
  <2> QED
    BY <2>1, <2>2 DEF TypeOK
<1>3. CASE \E s \in Socket : LoopReads(s) \/ LoopEnds(s) \/ \E c \in Conns : LoopAccepts(s, c)
  <2>1. UNCHANGED <<target, authSecret, listener>>
    BY <1>3 DEF LoopReads, LoopEnds, LoopAccepts
  <2> QED
    BY <1>3, <2>1
<1>4. CASE \E c \in Conns : TunnelQueues(c) \/ TunnelForgets(c) \/ Handles(c)
  BY <1>4 DEF TunnelQueues, TunnelForgets, Handles, Authenticate, FindLists, CheckAccess, Handle
<1>5. CASE UNCHANGED vars
  BY <1>5 DEF vars
<1> QED
  BY <1>1, <1>2, <1>3, <1>4, <1>5, StepCases

\* How upc and config go on in a quiet step.
LEMMA QuietLabels ==
  ASSUME Next, ~NextVersion, ~SetAuthSecret, ~ListenTCP, ~ListenUDP
  PROVE  \/ UNCHANGED <<upc, config>>
         \/ upc = "config" /\ upc' = "no legacy" /\ config' = target
         \/ /\ UNCHANGED config
            /\ \/ upc' \in {"idle", "stop tcp", "stop udp", "stopped", "down", "stuck"}
                  /\ upc # "secret"
               \/ upc \in BeforePorts /\ upc # "secret"
                  /\ upc' \in {"close tcp", "close udp", "closed", "config"}
               \/ upc \in {"no legacy", "no lists", "legacy", "lists"}
                  /\ upc' \in {"no lists", "legacy", "lists", "tcp"}
<1> USE DEF fields, loopVars, connVars, BeforePorts
<1>1. CASE Refuse \/ SwapConfig \/ DropLegacy \/ DropLists
  BY <1>1 DEF Refuse, SwapConfig, DropLegacy, DropLists
<1>2. CASE StartLegacy \/ LoadLists \/ Started
  BY <1>2 DEF StartLegacy, LoadLists, Started
<1>3. CASE Close
  <2>1. UNCHANGED config
    BY <1>3 DEF Close, BeginClose, CloseListener, Closed
  <2>2. \/ UNCHANGED upc
        \/ upc # "secret" /\ upc' \in {"idle", "stop tcp", "stop udp", "stopped", "down", "stuck"}
        \/ upc \in BeforePorts /\ upc # "secret"
           /\ upc' \in {"close tcp", "close udp", "closed", "config"}
    <3>1. CASE BeginClose("reload") \/ BeginClose("idle") \/ Closed
      BY <3>1 DEF BeginClose, Closed
    <3>2. CASE CloseListener("tcp", "close tcp", "close udp")
      BY <3>2 DEF CloseListener, CloseSocket, Forget, CloseHangs
    <3>3. CASE CloseListener("udp", "close udp", "closed")
      BY <3>3 DEF CloseListener, CloseSocket, Forget, CloseHangs
    <3>4. CASE CloseListener("tcp", "stop tcp", "stop udp")
      BY <3>4 DEF CloseListener, CloseSocket, Forget, CloseHangs
    <3>5. CASE CloseListener("udp", "stop udp", "stopped")
      BY <3>5 DEF CloseListener, CloseSocket, Forget, CloseHangs
    <3> QED
      BY <1>3, <3>1, <3>2, <3>3, <3>4, <3>5 DEF Close
  <2> QED
    BY <2>1, <2>2
<1>4. CASE \E s \in Socket : LoopReads(s) \/ LoopEnds(s) \/ \E c \in Conns : LoopAccepts(s, c)
  BY <1>4 DEF LoopReads, LoopEnds, LoopAccepts
<1>5. CASE \E c \in Conns : TunnelQueues(c) \/ TunnelForgets(c) \/ Handles(c)
  BY <1>5 DEF TunnelQueues, TunnelForgets, Handles, Authenticate, FindLists, CheckAccess, Handle
<1> QED
  BY <1>1, <1>2, <1>3, <1>4, <1>5, StepCases

LEMMA VersionsKept ==
  ASSUME TypeOK, VersionsInOrder, [Next]_vars
  PROVE  VersionsInOrder'
<1>1. target \in Nat /\ target - 1 \in Nat /\ config \in Nat /\ target >= 1 /\ config >= 1
  BY NumberFacts
<1>0. config <= target /\ UpTo(target) /\ (upc \in BeforePorts => UpTo(target - 1))
  BY DEF VersionsInOrder
<1>2. CASE NextVersion
  <2>1. /\ upc = "idle" /\ upc' = "secret" /\ target' = target + 1
        /\ UNCHANGED <<authSecret, config, listener, accepting, from>>
    BY <1>2 DEF NextVersion, fields, loopVars, connVars
  <2>2. target' - 1 = target /\ target <= target + 1 /\ authSecret = target
    BY <1>1, <2>1 DEF VersionsInOrder
  <2>3. UpTo(target) /\ UpTo(target + 1)
    BY <1>0, <1>1, NewerBound
  <2>4. UpTo(target - 1)'
    BY <2>1, <2>2, <2>3 DEF UpTo
  <2>5. UpTo(target)'
    BY <2>1, <2>3 DEF UpTo
  <2> QED
    BY <1>1, <2>1, <2>2, <2>4, <2>5 DEF VersionsInOrder, UpTo
<1>3. CASE SetAuthSecret
  <2>1. upc = "secret" /\ upc' \in {"legacy", "reload"} /\ (target = 1 => upc' = "legacy")
        /\ (target # 1 => upc' = "reload") /\ authSecret' = target
        /\ UNCHANGED <<target, config, listener, accepting, from>>
    BY <1>3 DEF SetAuthSecret, fields, loopVars, connVars
  <2>2. UpTo(target - 1)' /\ UpTo(target)'
    BY <2>1 DEF VersionsInOrder, BeforePorts, UpTo
  <2>3. target = 1 => config = 1
    BY <1>0, <1>1
  <2> QED
    BY <1>1, <2>1, <2>2, <2>3 DEF VersionsInOrder
<1>4. ASSUME NEW net \in Nets, NEW then \in {"udp", "started"}, upc \in {"tcp", "udp"},
             UNCHANGED <<target, authSecret, config, accepting, from>>,
             Opened(net, then)
      PROVE  VersionsInOrder'
  <2>1. upc' = then /\ listener' = [listener EXCEPT ![net] = target]
    BY <1>4 DEF Opened, VersionsInOrder
  <2>2. UpTo(target)'
    BY <1>1, <1>4, <2>1 DEF VersionsInOrder, UpTo, TypeOK
  <2> QED
    BY <1>4, <2>1, <2>2 DEF VersionsInOrder, BeforePorts
<1>5. ASSUME upc \in {"tcp", "udp"}, upc' \in {"idle", "udp", "started"},
             UNCHANGED <<target, authSecret, config, accepting, from>>,
             UNCHANGED <<open, listener>> \/ ListenFails
      PROVE  VersionsInOrder'
  <2>1. \A n \in Nets : listener'[n] \in {listener[n], Nil}
    BY <1>5 DEF ListenFails, TypeOK
  <2>2. UpTo(target)'
    <3>1. \A v \in Int : v = target => UpTo(v)'
      BY <1>0, <1>1, <1>5, <2>1, BoundKept DEF Takes
    <3> QED
      BY <1>1, <1>5, <3>1 DEF UpTo
  <2> QED
    BY <1>5, <2>2 DEF VersionsInOrder, BeforePorts
<1>6. CASE ListenTCP
  BY <1>4, <1>5, <1>6 DEF ListenTCP, connVars, Nets
<1>7. CASE ListenUDP
  BY <1>4, <1>5, <1>7 DEF ListenUDP, connVars, Nets
<1>8. CASE Next /\ ~NextVersion /\ ~SetAuthSecret /\ ~ListenTCP /\ ~ListenUDP
  <2>1. UNCHANGED <<target, authSecret>>
    BY <1>8, QuietStep
  <2>2. UpTo(target)' /\ (upc \in BeforePorts => UpTo(target - 1)')
    <3>1. \A v \in Int : v >= 0 /\ UpTo(v) => UpTo(v)'
      BY <1>8, QuietStep, BoundKept
    <3>2. UpTo(target)' /\ (UpTo(target - 1) => UpTo(target - 1)')
      BY <1>0, <1>1, <2>1, <3>1 DEF UpTo
    <3> QED
      BY <1>0, <3>2
  <2>3. CASE UNCHANGED <<upc, config>>
    BY <2>1, <2>2, <2>3 DEF VersionsInOrder
  <2>4. CASE upc = "config" /\ upc' = "no legacy" /\ config' = target
    <3>1. authSecret = target
      BY <2>4 DEF VersionsInOrder
    <3>2. target <= target
      BY <1>1
    <3> QED
      BY <2>1, <2>2, <2>4, <3>1, <3>2 DEF VersionsInOrder, BeforePorts
  <2>5. CASE UNCHANGED config /\ ~UNCHANGED upc
    BY <1>8, <2>1, <2>2, <2>5, QuietLabels DEF VersionsInOrder, BeforePorts
  <2> QED
    BY <1>8, <2>3, <2>4, <2>5, QuietLabels
<1>9. CASE UNCHANGED vars
  BY <1>9 DEF vars, fields, loopVars, connVars, VersionsInOrder, UpTo
<1> QED
  BY <1>2, <1>3, <1>6, <1>7, <1>8, <1>9

-----------------------------------------------------------------------------
\* The label at which ports are opened has not opened one before.
LEMMA NoListenerKept ==
  ASSUME TypeOK, NoListener, [Next]_vars
  PROVE  NoListener'
<1> USE DEF NoListener, Nil
<1>0. started \in BOOLEAN /\ started' \in BOOLEAN
  BY TypeKept DEF TypeOK
<1>9. UNCHANGED fields => started' = started /\ UNCHANGED listener
  BY DEF fields
<1>1. CASE NextVersion \/ SetAuthSecret \/ Refuse
  <2>1. CASE NextVersion
    BY <1>0, <1>9, <2>1, NumberFacts DEF NextVersion
  <2> QED
    BY <1>0, <1>1, <1>9, <2>1 DEF SetAuthSecret, Refuse
<1>2. CASE SwapConfig \/ DropLegacy \/ DropLists \/ StartLegacy \/ LoadLists \/ Started
  BY <1>0, <1>2 DEF SwapConfig, DropLegacy, DropLists, StartLegacy, LoadLists, Started
<1>3. CASE Close
  <2>1. CASE BeginClose("reload") \/ BeginClose("idle") \/ Closed
    BY <2>1 DEF BeginClose, Closed, fields
  <2>2. CASE CloseListener("tcp", "close tcp", "close udp")
    BY <2>2 DEF CloseListener, CloseSocket, Forget, CloseHangs, TypeOK, Nets
  <2>3. CASE CloseListener("udp", "close udp", "closed")
    BY <2>3 DEF CloseListener, CloseSocket, Forget, CloseHangs, TypeOK, Nets
  <2>4. CASE CloseListener("tcp", "stop tcp", "stop udp")
    BY <2>4 DEF CloseListener, CloseSocket, Forget, CloseHangs, TypeOK, Nets
  <2>5. CASE CloseListener("udp", "stop udp", "stopped")
    BY <2>5 DEF CloseListener, CloseSocket, Forget, CloseHangs, TypeOK, Nets
  <2> QED
    BY <1>3, <2>1, <2>2, <2>3, <2>4, <2>5 DEF Close
<1>4. CASE ListenTCP
  BY <1>4 DEF ListenTCP, Opened, TypeOK, Nets
<1>5. CASE ListenUDP
  BY <1>5 DEF ListenUDP, ListenFails, Opened, TypeOK, Nets
<1>6. CASE \E s \in Socket : LoopReads(s) \/ LoopEnds(s) \/ \E c \in Conns : LoopAccepts(s, c)
  BY <1>0, <1>6, <1>9 DEF LoopReads, LoopEnds, LoopAccepts
<1>7. CASE \E c \in Conns : TunnelQueues(c) \/ TunnelForgets(c) \/ Handles(c)
  BY <1>0, <1>7, <1>9 DEF TunnelQueues, TunnelForgets, Handles, Authenticate, FindLists, CheckAccess, Handle
<1>8. CASE UNCHANGED vars
  BY <1>8 DEF vars, fields
<1> QED
  BY <1>1, <1>2, <1>3, <1>4, <1>5, <1>6, <1>7, <1>8, StepCases

\* Close forgets a listener only when its socket is closed, and Start opens a port
\* only where there is none.
LEMMA ListeningKept ==
  ASSUME TypeOK, NoListener, NothingLeftListening, [Next]_vars
  PROVE  NothingLeftListening'
<1> USE DEF NothingLeftListening
<1>1. NoListener' /\ TypeOK'
  BY NoListenerKept, TypeKept
<1>2. SUFFICES ASSUME NEW s \in open'
               PROVE  listener'[s[1]] = s[2]
  <2>1. ASSUME upc' \in {"idle", "down"}, ~started', NEW s \in open'
        PROVE  FALSE
    <3>1. s \in Socket /\ listener'[s[1]] = s[2]
      BY <1>1, <1>2, <2>1 DEF TypeOK
    <3>2. s[1] \in Nets /\ s[2] # Nil
      BY <3>1, VersionFacts DEF Socket
    <3>3. listener'["tcp"] = Nil /\ listener'["udp"] = Nil
      BY <1>1, <2>1 DEF NoListener
    <3> QED
      BY <3>1, <3>2, <3>3 DEF Nets
  <2> QED
    BY <1>2, <2>1
<1>3. s \in Socket /\ s[1] \in Nets /\ s[2] # Nil
  <2>1. s \in Socket
    BY <1>1 DEF TypeOK
  <2> QED
    BY <2>1, VersionFacts DEF Socket
<1>4. CASE UNCHANGED <<open, listener>>
  BY <1>4
<1>5. CASE Close
  <2>1. ASSUME NEW net \in Nets, NEW label, NEW then, CloseListener(net, label, then)
        PROVE  listener'[s[1]] = s[2]
    <3>1. s \in open
      BY <2>1 DEF CloseListener, CloseSocket, Forget, CloseHangs
    <3>2. CASE UNCHANGED listener
      BY <3>1, <3>2
    <3>3. CASE <<net, listener[net]>> \notin open /\ listener' = [listener EXCEPT ![net] = Nil]
      <4>1. s = <<s[1], listener[s[1]]>>
        BY <1>3, <3>1 DEF Socket
      <4>2. s[1] # net
        BY <3>1, <3>3, <4>1
      <4> QED
        BY <3>1, <3>3, <4>2
    <3> QED
      BY <2>1, <3>2, <3>3 DEF CloseListener, CloseSocket, Forget, CloseHangs
  <2>2. CASE BeginClose("reload") \/ BeginClose("idle") \/ Closed
    BY <1>4, <2>2 DEF BeginClose, Closed, fields
  <2> QED
    BY <1>5, <2>1, <2>2 DEF Close, Nets
<1>6. ASSUME NEW net \in Nets, NEW then, listener[net] = Nil, Opened(net, then)
      PROVE  listener'[s[1]] = s[2]
  <2>1. CASE s = <<net, config>>
    BY <1>6, <2>1 DEF Opened, TypeOK
  <2>2. CASE s \in open
    <3>1. listener[s[1]] = s[2] /\ s[1] # net
      BY <1>3, <1>6, <2>2
    <3> QED
      BY <1>3, <1>6, <3>1 DEF Opened, TypeOK
  <2> QED
    BY <1>6, <2>1, <2>2 DEF Opened
<1>7. ASSUME ListenFails
      PROVE  listener'[s[1]] = s[2]
  <2>1. s \in open /\ listener[s[1]] = s[2] /\ s # <<"tcp", listener["tcp"]>>
    BY <1>7 DEF ListenFails
  <2>2. s = <<s[1], listener[s[1]]>>
    BY <1>3, <2>1 DEF Socket
  <2> QED
    BY <1>3, <1>7, <2>1, <2>2 DEF ListenFails, TypeOK
<1>8. CASE ListenTCP
  <2>1. listener["tcp"] = Nil
    BY <1>8 DEF ListenTCP, NoListener
  <2> QED
    BY <1>4, <1>6, <1>8, <2>1 DEF ListenTCP, Nets
<1>9. CASE ListenUDP
  <2>1. listener["udp"] = Nil
    BY <1>9 DEF ListenUDP, NoListener
  <2> QED
    BY <1>4, <1>6, <1>7, <1>9, <2>1 DEF ListenUDP, Nets
<1>10. CASE NextVersion \/ SetAuthSecret \/ Refuse \/ SwapConfig \/ DropLegacy \/ DropLists
              \/ StartLegacy \/ LoadLists \/ Started
  BY <1>4, <1>10 DEF NextVersion, SetAuthSecret, Refuse, SwapConfig, DropLegacy, DropLists,
     StartLegacy, LoadLists, Started, fields
<1>11. CASE \E t \in Socket : LoopReads(t) \/ LoopEnds(t) \/ \E c \in Conns : LoopAccepts(t, c)
  BY <1>4, <1>11 DEF LoopReads, LoopEnds, LoopAccepts, fields
<1>12. CASE \E c \in Conns : TunnelQueues(c) \/ TunnelForgets(c) \/ Handles(c)
  BY <1>4, <1>12 DEF TunnelQueues, TunnelForgets, Handles, Authenticate, FindLists, CheckAccess, Handle, fields
<1>13. CASE UNCHANGED vars
  BY <1>4, <1>13 DEF vars, fields
<1> QED
  BY <1>5, <1>8, <1>9, <1>10, <1>11, <1>12, <1>13, StepCases

-----------------------------------------------------------------------------
\* The legacy outbound and the lists are replaced only before a port is opened.
LEMMA PreparedKept ==
  ASSUME TypeOK, VersionsInOrder, PreparedFirst, [Next]_vars
  PROVE  PreparedFirst'
<1> USE DEF PreparedFirst
<1>1. target \in Nat /\ target - 1 \in Nat
  BY NumberFacts
<1>2. upc' \in BeforePorts => UpTo(target - 1)'
  BY VersionsKept DEF VersionsInOrder
<1>3. upc \in BeforePorts => UpTo(target - 1)
  BY DEF VersionsInOrder
<1>4. UNCHANGED <<target, listener, accepting, from>> => (UpTo(target - 1) => UpTo(target - 1)')
  BY DEF UpTo
<1>5. CASE upc' \in BeforePorts \ {"lists", "tcp"}
  BY <1>2, <1>5 DEF BeforePorts
<1>6. CASE StartLegacy
  <2>1. config = target /\ UNCHANGED <<target, listener, accepting, from>>
    BY <1>6 DEF StartLegacy, VersionsInOrder, loopVars, connVars
  <2>2. UpTo(target - 1)' /\ upc' \in {"lists", "idle"} /\ (upc' = "lists" => LegacyReady')
    <3>1. UpTo(target - 1)'
      BY <1>3, <1>4, <1>6, <2>1 DEF StartLegacy, BeforePorts
    <3>2. upc' \in {"lists", "idle"} /\ (upc' = "lists" => LegacyReady')
      BY <1>6, <2>1 DEF StartLegacy, LegacyReady
    <3> QED
      BY <3>1, <3>2
  <2> QED
    BY <2>2
<1>7. CASE LoadLists
  <2>1. config = target /\ UNCHANGED <<target, legacyOutbound, listener, accepting, from>>
    BY <1>7 DEF LoadLists, VersionsInOrder, loopVars, connVars
  <2>2. UpTo(target - 1)' /\ upc = "lists" /\ upc' \in {"tcp", "idle"}
    BY <1>3, <1>4, <1>7, <2>1 DEF LoadLists, BeforePorts
  <2>3. LegacyReady'
    BY <2>1, <2>2 DEF LegacyReady
  <2>4. upc' = "tcp" => ListsReady'
    BY <1>7, <2>1 DEF LoadLists, ListsReady
  <2> QED
    BY <2>2, <2>3, <2>4
<1>8. CASE ListenTCP \/ ListenUDP \/ Started
  <2>1. upc \in {"tcp", "udp", "started"} /\ UNCHANGED <<target, legacyOutbound, ipAccessLists>>
    BY <1>8 DEF ListenTCP, ListenUDP, Started
  <2> QED
    BY <2>1 DEF LegacyReady, ListsReady
<1>9. ASSUME UNCHANGED <<target, legacyOutbound, ipAccessLists>>, UpTo(target - 1) => UpTo(target - 1)',
             UNCHANGED upc \/ upc' \notin {"lists", "tcp", "udp", "started"}
      PROVE  PreparedFirst'
  BY <1>9 DEF LegacyReady, ListsReady
<1>10. CASE NextVersion \/ SetAuthSecret \/ SwapConfig \/ DropLegacy \/ DropLists
  BY <1>5, <1>10 DEF NextVersion, SetAuthSecret, SwapConfig, DropLegacy, DropLists, BeforePorts
<1>11. CASE Refuse
  BY <1>4, <1>9, <1>11 DEF Refuse, fields, loopVars, connVars
<1>12. ASSUME UNCHANGED target,
              Takes, \A n \in Nets : listener'[n] \in {listener[n], Nil}
       PROVE  UpTo(target - 1) => UpTo(target - 1)'
  <2> DEFINE Below(v) == /\ \A n \in Nets : listener'[n] <= v
                         /\ \A s \in Socket : accepting'[s] <= v
                         /\ \A c \in Conns : from'[c] <= v
  <2>1. ASSUME NEW v \in Int, v >= 0, UpTo(v) PROVE Below(v)
    <3>1. UpTo(v)'
      BY <1>12, <2>1, BoundKept
    <3> QED
      BY <3>1 DEF UpTo
  <2>2. target - 1 \in Int /\ target - 1 >= 0
    BY <1>1
  <2> HIDE DEF Below
  <2>3. UpTo(target - 1) => Below(target - 1)
    BY <2>1, <2>2
  <2>4. target' - 1 = target - 1
    BY <1>12
  <2> QED
    BY <2>3, <2>4 DEF Below, UpTo
<1>13. CASE Close
  <2>1. UNCHANGED <<target, legacyOutbound, ipAccessLists, accepting, from>>
    BY <1>13 DEF Close, BeginClose, CloseListener, CloseSocket, Forget, CloseHangs, Closed, fields, loopVars, connVars
  <2>2. UNCHANGED listener \/ \E n \in Nets : listener' = [listener EXCEPT ![n] = Nil]
    BY <1>13 DEF Close, BeginClose, CloseListener, CloseSocket, Forget, CloseHangs, Closed, fields, Nets
  <2>3. \A n \in Nets : listener'[n] \in {listener[n], Nil}
    BY <2>2 DEF TypeOK
  <2>4. UNCHANGED upc \/ upc' \notin {"lists", "tcp", "udp", "started"}
    BY <1>13 DEF Close, BeginClose, CloseListener, CloseSocket, Forget, CloseHangs, Closed
  <2> QED
    BY <1>9, <1>12, <2>1, <2>3, <2>4 DEF Takes
<1>14. CASE \E s \in Socket : LoopReads(s) \/ LoopEnds(s) \/ \E c \in Conns : LoopAccepts(s, c)
  <2>1. UNCHANGED <<target, upc, legacyOutbound, ipAccessLists, listener>>
    BY <1>14 DEF LoopReads, LoopEnds, LoopAccepts, fields
  <2> QED
    BY <1>9, <1>12, <1>14, <2>1 DEF Takes
<1>15. CASE \E c \in Conns : TunnelForgets(c) \/ Handles(c)
  BY <1>4, <1>9, <1>15 DEF TunnelForgets, Handles, Authenticate, FindLists, CheckAccess, Handle,
     fields, loopVars
<1>17. CASE \E c \in Conns : TunnelQueues(c)
  <2>1. UNCHANGED <<target, upc, legacyOutbound, ipAccessLists, listener>>
    BY <1>17 DEF TunnelQueues, fields
  <2> QED
    BY <1>9, <1>12, <1>17, <2>1 DEF Takes
<1>16. CASE UNCHANGED vars
  BY <1>4, <1>9, <1>16 DEF vars, fields, loopVars, connVars
<1> QED
  BY <1>6, <1>7, <1>8, <1>10, <1>11, <1>13, <1>14, <1>15, <1>16, <1>17, StepCases

-----------------------------------------------------------------------------
\* Steps of the updating goroutine and of loops that accept nothing.
LEMMA NoConnStep ==
  ASSUME [Next]_vars
  PROVE  \/ UNCHANGED <<cpc, from, saw>>
         \/ \E s \in Socket, c \in Conns : LoopAccepts(s, c)
         \/ \E c \in Conns : TunnelQueues(c) \/ Handles(c)
<1> USE DEF connVars
<1>1. CASE NextVersion \/ SetAuthSecret \/ Refuse \/ SwapConfig \/ DropLegacy \/ DropLists
  BY <1>1 DEF NextVersion, SetAuthSecret, Refuse, SwapConfig, DropLegacy, DropLists
<1>2. CASE StartLegacy \/ LoadLists \/ ListenTCP \/ ListenUDP \/ Started
  BY <1>2 DEF StartLegacy, LoadLists, ListenTCP, ListenUDP, Started
<1>3. CASE Close
  BY <1>3 DEF Close, BeginClose, CloseListener, CloseSocket, Forget, CloseHangs, Closed
<1>4. CASE \E s \in Socket : LoopReads(s) \/ LoopEnds(s)
  BY <1>4 DEF LoopReads, LoopEnds
<1>5. CASE UNCHANGED vars
  BY <1>5 DEF vars
<1>6. CASE \E c \in Conns : TunnelForgets(c)
  BY <1>6 DEF TunnelForgets
<1> QED
  BY <1>1, <1>2, <1>3, <1>4, <1>5, <1>6, StepCases

LEMMA TargetGrows ==
  ASSUME TypeOK, [Next]_vars
  PROVE  target' = target \/ target' = target + 1
<1>1. CASE NextVersion \/ SetAuthSecret \/ ListenTCP \/ ListenUDP
  BY <1>1 DEF NextVersion, SetAuthSecret, ListenTCP, ListenUDP
<1> QED
  BY <1>1, QuietStep

\* The lists of version `target` are there when a connection that came from that
\* version's listener gets to CheckAccess.
LEMMA CheckedKept ==
  ASSUME TypeOK, VersionsInOrder, PreparedFirst, Checked, [Next]_vars
  PROVE  Checked'
<1>1. target \in Nat /\ \A c \in Conns : from[c] \in Nat /\ from[c] <= target
  BY NumberFacts DEF VersionsInOrder, UpTo
<1>2. SUFFICES ASSUME NEW c \in Conns
               PROVE  /\ cpc'[c] \in {"none", "queued"} => saw'[c] = Nothing
                      /\ cpc'[c] = "route" /\ from'[c] = target' /\ Configs[from'[c]].access =>
                           saw'[c].lists = from'[c]
  BY DEF Checked
<1>3. CASE cpc'[c] = cpc[c] /\ from'[c] = from[c] /\ saw'[c] = saw[c]
  <2>1. from'[c] = target' => from[c] = target
    <3>1. from[c] # target + 1
      BY <1>1
    <3> QED
      BY <1>3, <3>1, TargetGrows
  <2> QED
    BY <1>3, <2>1 DEF Checked
<1>4. CASE UNCHANGED <<cpc, from, saw>>
  BY <1>3, <1>4
<1>9. ASSUME NEW d \in Conns, TunnelQueues(d)
      PROVE  \/ cpc[c] = "none" /\ cpc'[c] = "queued" /\ saw'[c] = saw[c]
             \/ cpc'[c] = cpc[c] /\ from'[c] = from[c] /\ saw'[c] = saw[c]
  BY <1>9 DEF TunnelQueues, TypeOK
<1>10. ASSUME NEW d \in Conns, FindLists(d), cpc'[c] = "route", cpc[c] # "route",
              from'[c] = target', Configs[from'[c]].access
       PROVE  FALSE
  <2>1. d = c /\ from[c] = target /\ ipAccessLists = Nil
    BY <1>10 DEF FindLists, TypeOK
  <2>2. ~UpTo(target - 1)
    BY <1>1, <2>1 DEF UpTo
  <2>3. ipAccessLists = target
    BY <1>10, <2>1, <2>2 DEF PreparedFirst, ListsReady, FindLists
  <2> QED
    BY <1>1, <2>1, <2>3, NumberFacts DEF Nil
<1>11. ASSUME NEW d \in Conns, FindLists(d)
       PROVE  /\ from'[c] = from[c] /\ saw'[c] = saw[c] /\ UNCHANGED target
              /\ cpc'[c] = cpc[c] \/ cpc'[c] \in {"route", "check"}
  BY <1>11 DEF FindLists, TypeOK
<1>5. ASSUME NEW s \in Socket, NEW d \in Conns, LoopAccepts(s, d)
      PROVE  cpc'[c] = "auth" \/ (cpc'[c] = cpc[c] /\ from'[c] = from[c] /\ saw'[c] = saw[c])
  BY <1>5 DEF LoopAccepts, TypeOK
<1>6. ASSUME NEW d \in Conns, Authenticate(d) \/ Handle(d)
      PROVE  \/ cpc'[c] \in {"access", "closed", "served"}
             \/ cpc'[c] = cpc[c] /\ from'[c] = from[c] /\ saw'[c] = saw[c]
  BY <1>6 DEF Authenticate, Handle, TypeOK
<1>7. ASSUME CheckAccess(c), cpc'[c] = "route", from'[c] = target', Configs[from'[c]].access
      PROVE  saw'[c].lists = from'[c]
  <2>1. from[c] = target /\ UNCHANGED target
    BY <1>7 DEF CheckAccess
  <2>2. ~UpTo(target - 1)
    BY <1>1, <2>1 DEF UpTo
  <2>3. ipAccessLists = target
    BY <1>7, <2>1, <2>2 DEF PreparedFirst, ListsReady
  <2>4. saw'[c].lists = ipAccessLists
    BY <1>7 DEF CheckAccess, TypeOK
  <2> QED
    BY <1>7, <2>1, <2>3, <2>4
<1>8. ASSUME NEW d \in Conns, CheckAccess(d)
      PROVE  \/ cpc'[c] = cpc[c] /\ from'[c] = from[c] /\ saw'[c] = saw[c]
             \/ d = c /\ cpc'[c] \notin {"none", "queued"}
  BY <1>8 DEF CheckAccess, TypeOK
<1>12. CASE \E d \in Conns : TunnelQueues(d)
  BY <1>3, <1>9, <1>12 DEF Checked
<1>13. CASE \E d \in Conns : FindLists(d)
  BY <1>3, <1>10, <1>11, <1>13
<1>14. CASE \E d \in Conns : CheckAccess(d)
  BY <1>3, <1>7, <1>8, <1>14
<1> QED
  BY <1>3, <1>4, <1>5, <1>6, <1>12, <1>13, <1>14, NoConnStep DEF Handles

\* A connection is verified with the secret of now, which is no older than anything
\* that was ever accepted from.
LEMMA KeyKept ==
  ASSUME TypeOK, VersionsInOrder, Checked, KeyBeforeListener, [Next]_vars
  PROVE  KeyBeforeListener'
<1>1. SUFFICES ASSUME NEW c \in Conns, saw'[c].secret # Nil
               PROVE  saw'[c].secret >= from'[c]
  BY DEF KeyBeforeListener
<1>2. CASE saw'[c].secret = saw[c].secret /\ from'[c] = from[c]
  BY <1>1, <1>2 DEF KeyBeforeListener
<1>3. CASE UNCHANGED <<cpc, from, saw>>
  BY <1>2, <1>3
<1>7. ASSUME NEW d \in Conns, TunnelQueues(d)
      PROVE  saw'[c].secret = saw[c].secret /\ from'[c] = from[c]
  <2>1. d # c
    BY <1>1, <1>7 DEF TunnelQueues, Checked, Nothing
  <2> QED
    BY <1>7, <2>1 DEF TunnelQueues, TypeOK
<1>4. ASSUME NEW s \in Socket, NEW d \in Conns, LoopAccepts(s, d)
      PROVE  saw'[c].secret = saw[c].secret /\ from'[c] = from[c]
  <2>1. d # c
    BY <1>1, <1>4 DEF LoopAccepts, Acceptable, Checked, Nothing
  <2> QED
    BY <1>4, <2>1 DEF LoopAccepts, TypeOK
<1>5. ASSUME NEW d \in Conns,
             FindLists(d) \/ CheckAccess(d) \/ Handle(d) \/ (Authenticate(d) /\ d # c)
      PROVE  saw'[c].secret = saw[c].secret /\ from'[c] = from[c]
  <2>1. saw \in [Conns -> Sight] /\ saw[c] \in Sight
    BY DEF TypeOK, Sight
  <2>2. CASE FindLists(d) \/ CheckAccess(d)
    BY <2>1, <2>2 DEF FindLists, CheckAccess, Sight
  <2>3. CASE Handle(d)
    BY <2>1, <2>3 DEF Handle, Sight
  <2>4. CASE Authenticate(d) /\ d # c
    BY <2>1, <2>4 DEF Authenticate
  <2> QED
    BY <1>5, <2>2, <2>3, <2>4
<1>6. CASE Authenticate(c)
  <2>1. from'[c] = from[c]
    BY <1>6 DEF Authenticate
  <2>2. authSecret >= from[c]
    <3>1. target \in Nat /\ target - 1 \in Nat /\ from[c] \in Nat
      BY NumberFacts
    <3>2. from[c] <= target /\ (upc = "secret" => from[c] <= target - 1)
      BY DEF VersionsInOrder, UpTo, BeforePorts
    <3>3. authSecret = IF upc = "secret" THEN target - 1 ELSE target
      BY DEF VersionsInOrder
    <3> QED
      BY <3>1, <3>2, <3>3
  <2>3. saw'[c].secret = authSecret \/ saw'[c].secret = saw[c].secret
    <3>1. saw \in [Conns -> Sight] /\ saw[c] \in Sight
      BY DEF TypeOK, Sight
    <3> QED
      BY <1>6, <3>1 DEF Authenticate, Sight
  <2> QED
    BY <1>2, <2>1, <2>2, <2>3
<1> QED
  BY <1>2, <1>3, <1>4, <1>5, <1>6, <1>7, NoConnStep DEF Handles

\* When a connection of the version in force is handled, its lists were of that version
\* already, and the legacy outbound is.
LEMMA ReadyKept ==
  ASSUME TypeOK, VersionsInOrder, PreparedFirst, Checked, ReadyBeforeListener, [Next]_vars
  PROVE  ReadyBeforeListener'
<1> DEFINE Ready(c) == cpc[c] = "served" /\ saw[c].at = from[c] =>
                         /\ Configs[from[c]].access => saw[c].lists = from[c]
                         /\ Configs[from[c]].minecraft => saw[c].legacy = from[c]
<1>1. SUFFICES ASSUME NEW c \in Conns
               PROVE  Ready(c)'
  BY DEF ReadyBeforeListener
<1>2. CASE cpc'[c] = cpc[c] /\ from'[c] = from[c] /\ saw'[c] = saw[c]
  BY <1>2 DEF ReadyBeforeListener
<1>3. CASE cpc'[c] # "served"
  BY <1>3
<1>4. CASE UNCHANGED <<cpc, from, saw>>
  BY <1>2, <1>4
<1>5. ASSUME NEW s \in Socket, NEW d \in Conns, LoopAccepts(s, d)
      PROVE  cpc'[c] # "served" \/ (cpc'[c] = cpc[c] /\ from'[c] = from[c] /\ saw'[c] = saw[c])
  BY <1>5 DEF LoopAccepts, TypeOK
<1>6. ASSUME NEW d \in Conns,
             \/ TunnelQueues(d) \/ FindLists(d) \/ CheckAccess(d) \/ Authenticate(d)
             \/ Handle(d) /\ d # c
      PROVE  cpc'[c] # "served" \/ (cpc'[c] = cpc[c] /\ from'[c] = from[c] /\ saw'[c] = saw[c])
  BY <1>6 DEF TunnelQueues, FindLists, CheckAccess, Authenticate, Handle, TypeOK
<1>7. CASE Handle(c)
  <2>1. cpc[c] = "route" /\ from'[c] = from[c]
    BY <1>7 DEF Handle
  <2>2. /\ saw'[c].at = target /\ saw'[c].legacy = legacyOutbound
        /\ saw'[c].lists = saw[c].lists
    BY <1>7 DEF Handle, TypeOK
  <2>3. SUFFICES ASSUME from[c] = target
                 PROVE  Ready(c)'
    BY <2>1, <2>2
  <2>4. ~UpTo(target - 1)
    BY <2>3, NumberFacts DEF UpTo
  <2>5. LegacyReady
    BY <2>4 DEF PreparedFirst
  <2>6. Configs[from[c]].access => saw[c].lists = from[c]
    BY <2>1, <2>3 DEF Checked
  <2> QED
    BY <2>1, <2>2, <2>3, <2>5, <2>6 DEF LegacyReady
<1> QED
  BY <1>2, <1>3, <1>4, <1>5, <1>6, <1>7, NoConnStep DEF Handles

-----------------------------------------------------------------------------
LEMMA Initially == Init => IInv
<1> SUFFICES ASSUME Init PROVE IInv
  OBVIOUS
<1>1. TypeOK
  BY TypeCorrectInit
<1>2. VersionsInOrder /\ PreparedFirst /\ NoListener
  BY DEF Init, VersionsInOrder, PreparedFirst, NoListener, UpTo, BeforePorts, LegacyReady,
     ListsReady, Nil, Nets, Socket
<1>3. Checked /\ KeyBeforeListener /\ ReadyBeforeListener /\ NothingLeftListening
  BY DEF Init, Checked, KeyBeforeListener, ReadyBeforeListener, NothingLeftListening, Nothing
<1> QED
  BY <1>1, <1>2, <1>3 DEF IInv

LEMMA Inductive == IInv /\ [Next]_vars => IInv'
BY TypeKept, VersionsKept, PreparedKept, CheckedKept, NoListenerKept, KeyKept, ReadyKept,
   ListeningKept DEF IInv

\* The fields of Service, the sockets and the states of the goroutines keep their types,
\* whatever fails in Start and however reloads and accept loops interleave.
THEOREM ServiceTypeCorrect == Spec => []TypeOK
<1>1. IInv => TypeOK
  BY DEF IInv
<1> QED
  BY <1>1, Initially, Inductive, PTL DEF Spec

\* SetAuthSecret before Reload (service.go): for any sequence of versions, no connection
\* is verified with a secret older than the listener that accepted it.
THEOREM SecretIsCurrent == Spec => []KeyBeforeListener
<1>1. IInv => KeyBeforeListener
  BY DEF IInv
<1> QED
  BY <1>1, Initially, Inductive, PTL DEF Spec

\* Start prepares before it listens: a connection of the version in force was checked
\* against that version's lists and went to its legacy outbound.
THEOREM ListensWhenReady == Spec => []ReadyBeforeListener
<1>1. IInv => ReadyBeforeListener
  BY DEF IInv
<1> QED
  BY <1>1, Initially, Inductive, PTL DEF Spec

\* Whichever step of Start, Reload or Close fails or is refused, every open socket is the
\* one its field holds, and a service that is not running has none.
THEOREM SocketsAreHeld == Spec => []NothingLeftListening
<1>1. IInv => NothingLeftListening
  BY DEF IInv
<1> QED
  BY <1>1, Initially, Inductive, PTL DEF Spec

-----------------------------------------------------------------------------
(***************************************************************************)
(* What an open port says of the config in force, and what becomes of the  *)
(* accept loops once Close has returned.                                   *)
(***************************************************************************)
OfItsConfig == \A s \in open : s[2] = config /\ s[1] \in Configs[config].nets

\* When the config is swapped no socket is open.
LEMMA OfItsConfigKept ==
  ASSUME IInv, OfItsConfig, [Next]_vars
  PROVE  OfItsConfig'
<1> USE DEF OfItsConfig
<1>1. CASE UNCHANGED config /\ open' \subseteq open
  BY <1>1
<1>2. CASE SwapConfig
  <2>1. listener["tcp"] = Nil /\ listener["udp"] = Nil /\ open' = open
    BY <1>2 DEF IInv, NoListener, SwapConfig
  <2>2. ASSUME NEW s \in open
        PROVE  FALSE
    <3>1. s \in Socket /\ listener[s[1]] = s[2]
      BY <2>2 DEF IInv, TypeOK, NothingLeftListening
    <3>2. s[1] \in Nets /\ s[2] # Nil
      BY <3>1, VersionFacts DEF Socket
    <3> QED
      BY <2>1, <3>1, <3>2 DEF Nets
  <2> QED
    BY <2>1, <2>2
<1>3. CASE ListenTCP
  BY <1>3 DEF ListenTCP, Opened
<1>4. CASE ListenUDP
  BY <1>4 DEF ListenUDP, Opened, ListenFails
<1>5. CASE NextVersion \/ SetAuthSecret \/ Refuse \/ DropLegacy \/ DropLists \/ StartLegacy
             \/ LoadLists \/ Started
  BY <1>1, <1>5 DEF NextVersion, SetAuthSecret, Refuse, DropLegacy, DropLists, StartLegacy,
     LoadLists, Started, fields
<1>6. CASE Close
  BY <1>1, <1>6 DEF Close, BeginClose, CloseListener, CloseSocket, Forget, CloseHangs, Closed, fields
<1>7. CASE \E t \in Socket : LoopReads(t) \/ LoopEnds(t) \/ \E c \in Conns : LoopAccepts(t, c)
  BY <1>1, <1>7 DEF LoopReads, LoopEnds, LoopAccepts, fields
<1>8. CASE \E c \in Conns : TunnelQueues(c) \/ TunnelForgets(c) \/ Handles(c)
  BY <1>1, <1>8 DEF TunnelQueues, TunnelForgets, Handles, Authenticate, FindLists, CheckAccess, Handle, fields
<1>9. CASE UNCHANGED vars
  BY <1>1, <1>9 DEF vars, fields
<1> QED
  BY <1>2, <1>3, <1>4, <1>5, <1>6, <1>7, <1>8, <1>9, StepCases

LEMMA OfItsConfigAlways == Spec => [](IInv /\ OfItsConfig)
<1>1. Init => OfItsConfig
  BY DEF Init, OfItsConfig
<1>2. IInv /\ OfItsConfig /\ [Next]_vars => (IInv /\ OfItsConfig)'
  BY Inductive, OfItsConfigKept
<1> QED
  BY <1>1, <1>2, Initially, PTL DEF Spec

\* Reload swaps the config between Close and Start (service.go): at every moment, a
\* socket that is open is of the config in force and on a network it asks for.
THEOREM PortsAreConfigured == Spec => []OfItsConfig
BY OfItsConfigAlways, PTL

\* The listeners the service holds are those of its config, and a session in the
\* tunnel's map came to the listener it holds.
HeldTogether ==
  /\ \A n \in Nets : listener[n] \in {Nil, config}
  /\ \A c \in mapped : cpc[c] # "none" /\ from[c] = listener["udp"] /\ from[c] # Nil

\* A listener is forgotten when it maps nothing, and the config is swapped when none
\* is held.
LEMMA HeldKept ==
  ASSUME TypeOK, NoListener, HeldTogether, [Next]_vars
  PROVE  HeldTogether'
<1> USE DEF HeldTogether, TypeOK
<1>1. CASE UNCHANGED <<config, listener, mapped, cpc, from>>
  BY <1>1
<1>2. CASE SwapConfig
  <2>1. listener["tcp"] = Nil /\ listener["udp"] = Nil /\ UNCHANGED <<listener, mapped>>
    BY <1>2 DEF SwapConfig, NoListener, connVars
  <2>2. mapped = {}
    BY <2>1
  <2> QED
    BY <2>1, <2>2 DEF Nets
<1>3. CASE Close
  <2>1. ASSUME NEW net \in Nets, NEW label, NEW then, CloseListener(net, label, then)
        PROVE  HeldTogether'
    <3>1. UNCHANGED <<config, mapped, cpc, from>>
      BY <2>1 DEF CloseListener, connVars
    <3>2. CASE Forget(net, then)
      <4>1. listener' = [listener EXCEPT ![net] = Nil] /\ (net = "udp" => mapped = {})
        BY <3>2 DEF Forget
      <4> QED
        BY <3>1, <4>1 DEF Nets
    <3> QED
      BY <1>1, <2>1, <3>1, <3>2 DEF CloseListener, CloseSocket, CloseHangs
  <2>2. CASE BeginClose("reload") \/ BeginClose("idle") \/ Closed
    BY <1>1, <2>2 DEF BeginClose, Closed, fields, connVars
  <2> QED
    BY <1>3, <2>1, <2>2 DEF Close, Nets
<1>4. CASE ListenTCP
  BY <1>4 DEF ListenTCP, Opened, Nets, connVars
<1>5. CASE ListenUDP
  <2>1. listener["udp"] = Nil /\ mapped = {}
    BY <1>5 DEF ListenUDP, NoListener
  <2> QED
    BY <1>5, <2>1 DEF ListenUDP, ListenFails, Opened, Nets, connVars
<1>6. CASE NextVersion \/ SetAuthSecret \/ Refuse \/ DropLegacy \/ DropLists \/ StartLegacy
             \/ LoadLists \/ Started
  BY <1>1, <1>6 DEF NextVersion, SetAuthSecret, Refuse, DropLegacy, DropLists, StartLegacy,
     LoadLists, Started, fields, connVars
<1>7. ASSUME NEW s \in Socket, LoopReads(s) \/ LoopEnds(s)
      PROVE  HeldTogether'
  BY <1>1, <1>7 DEF LoopReads, LoopEnds, fields, connVars
<1>8. ASSUME NEW s \in Socket, NEW c \in Conns, LoopAccepts(s, c)
      PROVE  HeldTogether'
  <2>1. UNCHANGED <<config, listener, mapped>> /\ cpc' = [cpc EXCEPT ![c] = "auth"]
    BY <1>8 DEF LoopAccepts, fields
  <2>2. c \in mapped => UNCHANGED from
    BY <1>8 DEF LoopAccepts, Acceptable
  <2>3. from' = [from EXCEPT ![c] = accepting[s]]
    BY <1>8 DEF LoopAccepts
  <2> QED
    BY <2>1, <2>2, <2>3
<1>9. ASSUME NEW c \in Conns, TunnelQueues(c)
      PROVE  HeldTogether'
  <2>1. /\ UNCHANGED <<config, listener>> /\ cpc' = [cpc EXCEPT ![c] = "queued"]
        /\ from' = [from EXCEPT ![c] = listener["udp"]] /\ mapped' = mapped \cup {c}
        /\ listener["udp"] # Nil
    BY <1>9 DEF TunnelQueues, fields
  <2> QED
    BY <2>1
<1>10. ASSUME NEW c \in Conns, TunnelForgets(c)
       PROVE  HeldTogether'
  BY <1>10 DEF TunnelForgets, fields
<1>11. ASSUME NEW c \in Conns, Handles(c)
       PROVE  HeldTogether'
  <2>1. UNCHANGED <<config, listener, mapped, from>> /\ cpc[c] # "none"
        /\ \A d \in Conns : cpc'[d] = cpc[d] \/ cpc'[d] # "none"
    BY <1>11 DEF Handles, Authenticate, FindLists, CheckAccess, Handle, fields
  <2> QED
    BY <2>1
<1>12. CASE UNCHANGED vars
  BY <1>1, <1>12 DEF vars, fields, connVars
<1> QED
  BY <1>2, <1>3, <1>4, <1>5, <1>6, <1>7, <1>8, <1>9, <1>10, <1>11, <1>12, StepCases

LEMMA HeldAlways == Spec => [](IInv /\ OfItsConfig /\ HeldTogether)
<1>1. Init => HeldTogether
  BY DEF Init, HeldTogether
<1>2. IInv /\ HeldTogether /\ [Next]_vars => HeldTogether'
  BY HeldKept DEF IInv
<1> QED
  BY <1>1, <1>2, OfItsConfigAlways, PTL DEF Spec

\* A connection a loop takes was opened by the config in force at that moment, or it
\* waited in a tunnel's queue and its session is gone already.
AcceptsUnderItsConfig == \A c \in Conns : cpc[c] # "auth" /\ cpc'[c] = "auth" =>
  \/ config = from'[c] /\ upc \notin {"closed", "config", "stopped", "down"}
  \/ cpc[c] = "queued" /\ c \notin mapped

LEMMA AcceptsCurrent ==
  ASSUME IInv, OfItsConfig, HeldTogether, [Next]_vars
  PROVE  AcceptsUnderItsConfig
<1> DEFINE Current(v) == config = v /\ upc \notin {"closed", "config", "stopped", "down"}
<1>1. SUFFICES ASSUME NEW c \in Conns, cpc[c] # "auth", cpc'[c] = "auth"
               PROVE  Current(from'[c]) \/ (cpc[c] = "queued" /\ c \notin mapped)
  BY DEF AcceptsUnderItsConfig
<1>0. ASSUME NEW n \in Nets, NEW v, listener[n] = v, v # Nil
      PROVE  Current(v)
  BY <1>0 DEF IInv, NoListener, Nets, HeldTogether
<1>2. CASE \E s \in Socket, d \in Conns : LoopAccepts(s, d)
  <2>1. PICK s \in Socket, d \in Conns : LoopAccepts(s, d)
    BY <1>2
  <2>2. from' = [from EXCEPT ![d] = accepting[s]] /\ d = c /\ Acceptable(s, c)
    BY <1>1, <2>1 DEF LoopAccepts, IInv, TypeOK
  <2>3. from'[c] = accepting[s]
    BY <2>2 DEF IInv, TypeOK
  <2>4. CASE s[1] = "tcp"
    <3>1. <<s[1], accepting[s]>> \in open
      BY <2>2, <2>4 DEF Acceptable
    <3>2. <<s[1], accepting[s]>> \in Socket /\ listener[s[1]] = accepting[s]
      BY <3>1 DEF IInv, TypeOK, NothingLeftListening
    <3>3. s[1] \in Nets /\ accepting[s] \in Version
      BY <3>2 DEF Socket
    <3> QED
      BY <1>0, <2>3, <3>2, <3>3, VersionFacts
  <2>5. CASE s[1] # "tcp" /\ c \in mapped
    <3>1. from[c] = accepting[s] /\ listener["udp"] = from[c] /\ from[c] # Nil
      BY <2>2, <2>5 DEF Acceptable, HeldTogether
    <3> QED
      BY <1>0, <2>3, <3>1 DEF Nets
  <2>6. CASE s[1] # "tcp" /\ c \notin mapped
    BY <2>2, <2>6 DEF Acceptable
  <2> QED
    BY <2>4, <2>5, <2>6
<1>3. CASE \E d \in Conns : TunnelQueues(d) \/ Handles(d)
  BY <1>1, <1>3 DEF TunnelQueues, Handles, Authenticate, FindLists, CheckAccess, Handle, IInv, TypeOK
<1>4. CASE UNCHANGED cpc
  BY <1>1, <1>4
<1> QED
  BY <1>2, <1>3, <1>4, NoConnStep

\* handleInbound reads s.config, which Reload overwrites without a lock.  An accept loop
\* takes a connection under the config that opened its port and not between the end of
\* Close and the next Start; the one exception is a connection left in the queue of a
\* tunnel (udptunnel Listener.Accept), and its session is no longer mapped.
THEOREM AcceptedUnderItsConfig == Spec => [][AcceptsUnderItsConfig]_vars
<1>1. IInv /\ OfItsConfig /\ HeldTogether /\ [Next]_vars => [AcceptsUnderItsConfig]_vars
  BY AcceptsCurrent
<1> QED
  BY <1>1, HeldAlways, PTL DEF Spec

\* After Close, no loop waits for a connection.
NoLoopWaits == upc = "down" =>
  \A s \in Socket : loops[s] \in {"read", "accept"} => RunsOn(s)

\* The turns a loop may still take when its listener is closed: a tunnel's may take a
\* queued connection and read the field again.
Turns(s) == CASE loops[s] = "accept" -> 2 [] loops[s] = "read" -> 1 [] OTHER -> 0

\* After Close nothing opens, nothing is queued, and every step of a loop brings it
\* nearer to its end.
TurnsRunOut == upc = "down" =>
  /\ upc' = "down" /\ UNCHANGED <<open, listener, from>>
  /\ \A s \in Socket : Turns(s)' <= Turns(s) /\ (Loop(s) => Turns(s)' < Turns(s))

LEMMA NoneOpen ==
  ASSUME IInv, upc = "down"
  PROVE  open = {} /\ \A n \in Nets : listener[n] = Nil
<1>1. \A n \in Nets : listener[n] = Nil
  BY DEF IInv, NoListener, Nets
<1>2. ASSUME NEW s \in open
      PROVE  FALSE
  <2>1. s \in Socket /\ listener[s[1]] = s[2]
    BY <1>2 DEF IInv, TypeOK, NothingLeftListening
  <2> QED
    BY <1>1, <2>1, VersionFacts DEF Socket
<1> QED
  BY <1>1, <1>2

LEMMA TurnsEnd ==
  ASSUME IInv, [Next]_vars
  PROVE  TurnsRunOut
<1> SUFFICES ASSUME upc = "down"
             PROVE  TurnsRunOut
  BY DEF TurnsRunOut
<1>1. open = {} /\ \A n \in Nets : listener[n] = Nil
  BY NoneOpen
<1>2. ~Update
  BY DEF Update, NextVersion, SetAuthSecret, Refuse, Close, BeginClose, CloseListener, Closed,
     SwapConfig, DropLegacy, DropLists, Start, StartLegacy, LoadLists, ListenTCP, ListenUDP,
     Started
<1>3. loops \in [Socket -> {"off", "read", "accept", "ended"}]
  BY DEF IInv, TypeOK
<1>4. ASSUME NEW s \in Socket, Loop(s)
      PROVE  /\ UNCHANGED <<upc, open, listener, from>>
             /\ Turns(s)' < Turns(s)
             /\ \A r \in Socket : r # s => loops'[r] = loops[r]
  <2>1. s[1] \in Nets
    BY DEF Socket
  <2>2. CASE LoopReads(s) \/ LoopEnds(s)
    BY <1>1, <1>3, <2>1, <2>2 DEF LoopReads, LoopEnds, fields, connVars, Turns
  <2>3. ASSUME NEW c \in Conns, LoopAccepts(s, c)
        PROVE  /\ UNCHANGED <<upc, open, listener, from>>
               /\ Turns(s)' < Turns(s)
               /\ \A r \in Socket : r # s => loops'[r] = loops[r]
    <3>1. from[c] = accepting[s]
      BY <1>1, <2>3 DEF LoopAccepts, Acceptable
    <3>2. UNCHANGED from
      BY <2>3, <3>1 DEF LoopAccepts, IInv, TypeOK
    <3> QED
      BY <1>3, <2>3, <3>2 DEF LoopAccepts, fields, Turns
  <2> QED
    BY <1>4, <2>2, <2>3 DEF Loop
<1>5. CASE \E s \in Socket : Loop(s)
  <2>1. PICK s \in Socket : Loop(s)
    BY <1>5
  <2>2. \A r \in Socket : r # s => Turns(r)' = Turns(r)
    BY <1>4, <2>1 DEF Turns
  <2>3. \A r \in Socket : Turns(r) \in Nat /\ Turns(r)' \in Nat
    BY DEF Turns
  <2> QED
    BY <1>4, <2>1, <2>2, <2>3 DEF TurnsRunOut
<1>6. CASE ~(\E s \in Socket : Loop(s))
  <2>1. UNCHANGED <<upc, open, listener, from, loops>>
    <3>1. ASSUME NEW c \in Conns, TunnelQueues(c)
          PROVE  FALSE
      BY <1>1, <3>1 DEF TunnelQueues, Nets
    <3>2. CASE \E c \in Conns : TunnelForgets(c) \/ HandleInbound(c)
      BY <3>2 DEF TunnelForgets, HandleInbound, Authenticate, FindLists, CheckAccess, Handle,
         fields, loopVars
    <3>3. CASE UNCHANGED vars
      BY <3>3 DEF vars, fields, loopVars, connVars
    <3> QED
      BY <1>2, <1>6, <3>1, <3>2, <3>3 DEF Next, Tunnel
  <2>2. \A r \in Socket : Turns(r)' = Turns(r) /\ Turns(r) \in Nat
    BY <2>1 DEF Turns
  <2> QED
    BY <1>6, <2>1, <2>2 DEF TurnsRunOut
<1> QED
  BY <1>5, <1>6

\* What LoopsEnd rests on beyond the scheduling of the loops: after Service.Close none of
\* the accept loops that any number of reloads has started waits for a connection, each
\* has at most two steps left, and nothing opens a socket or fills a queue for it again.
THEOREM LoopsRunOutOfTurns == Spec => []NoLoopWaits /\ [][TurnsRunOut]_vars
<1>1. IInv => NoLoopWaits
  BY NoneOpen DEF NoLoopWaits, RunsOn
<1>2. IInv /\ [Next]_vars => [TurnsRunOut]_vars
  BY TurnsEnd
<1> QED
  BY <1>1, <1>2, Initially, Inductive, PTL DEF Spec
=============================================================================
