--------------------------- MODULE HotReloadProofs ---------------------------
(***************************************************************************)
(* Proofs about HotReload, for any sequence of files, any outbounds,       *)
(* services and connections, and however often a Listen fails.  The        *)
(* argument is about who holds which lock: an outbound's config is written *)
(* by the one writer, when no connection reads it, and a map of names is   *)
(* published only when all it names has the version of its rules.          *)
(***************************************************************************)
EXTENDS HotReload, FiniteSetTheorems, TLAPS

\* A connection that has entered its outbound holds the read lock, and has read what
\* the config is now.
ReadersHold == \A c \in Conns :
  /\ cpc[c] \in {"wait", "held", "ping", "relay", "name"} => via[c] \in Object
  /\ cpc[c] \in {"held", "ping"} => /\ c \in olock[via[c]].readers
                                    /\ seen[c] = {outCfg[via[c]]}
  /\ seen[c] = {} \/ \E v \in Version : seen[c] = {v}

\* Only UpdateConfig writes, to one outbound at a time, whose secret is refreshed.
OneWriter ==
  /\ \A o \in Object : olock[o].writer => rpc = "lock" /\ outKey[o] = root
  /\ \A o, p \in Object : olock[o].writer /\ olock[p].writer => o = p

\* Nothing is of a later version than Root, nor Root than the file.
NotAhead ==
  /\ root <= disk /\ rules <= root
  /\ \A o \in Object : outCfg[o] <= root /\ outKey[o] <= root
  /\ \A s \in SvcObject : svc[s].cfg <= root /\ svc[s].key <= root
  /\ \A n \in Outbounds : outMap[n] <= root /\ routes[n] <= rules
  /\ rpc \notin {"select", "load"} => \A n \in Outbounds : newMap[n] <= root

\* An object is never older than the version that created it.
CreatedBefore == \A c \in Conns : via[c] \in Object => outCfg[via[c]] >= via[c][2]

\* The names UpdateConfig has done are those of the new map.
MapGrows ==
  /\ rpc \notin {"select", "load"} => applied = Absent
  /\ rpc \in {"outbounds", "lock"} =>
       /\ todo \subseteq Files[root].outs
       /\ \A n \in Outbounds : (newMap[n] # Absent) <=> (n \in Files[root].outs \ todo)
  /\ rpc \in {"router", "services"} =>
       \A n \in Outbounds : (newMap[n] # Absent) <=> (n \in Files[root].outs)

\* What the new map names is of the new version, but for the one being written.
MapIsNew ==
  rpc \notin {"select", "load"} =>
    \A n \in Outbounds : newMap[n] # Absent =>
      /\ outKey[<<n, newMap[n]>>] = root
      /\ outCfg[<<n, newMap[n]>>] = root \/ olock[<<n, newMap[n]>>].writer

\* A service that runs with the new version.
Renewed == [run |-> TRUE, cfg |-> root, key |-> root, lists |-> root]

\* Services come last, with the rules and lists that are in force.
ServicesLast ==
  rpc = "services" =>
    /\ rules = root /\ routes = newMap /\ todo \subseteq Files[root].svcs
    /\ \A n \in Files[root].svcs \ todo : svc[SvcOf(n)] = Renewed

\* SettledConsistent, at every label: it is established by Commit and lost to Load.
Settled ==
  applied = root =>
    /\ rules = root
    /\ \A n \in Outbounds : (outMap[n] # Absent) <=> (n \in Files[root].outs)
    /\ \A n \in Files[root].outs :
         /\ routes[n] = outMap[n]
         /\ outCfg[<<n, outMap[n]>>] = root /\ outKey[<<n, outMap[n]>>] = root
    /\ \A n \in Files[root].svcs :
         svcMap[n] # Absent /\ svc[<<n, svcMap[n]>>] = Renewed

IInv ==
  /\ TypeOK /\ ReadersHold /\ OneWriter /\ NotAhead /\ CreatedBefore
  /\ MapGrows /\ MapIsNew /\ ServicesLast /\ Settled
  /\ KeyNotOlder /\ RoutedConsistently

-----------------------------------------------------------------------------
LEMMA VersionFacts ==
  /\ Len(Files) \in Nat /\ 1 \in Version /\ Last \in Version /\ Absent = 0 /\ Absent \notin Version
  /\ \A v \in Version : v \in Nat /\ v >= 1 /\ Files[v] \in File
BY ReloadAssumption DEF Version, Last, Absent

LEMMA FileFacts ==
  ASSUME NEW v \in Version
  PROVE  /\ Files[v].outs \subseteq Outbounds /\ Files[v].svcs \subseteq Services
         /\ Files[v].loads \in BOOLEAN /\ Files[v].rules \in BOOLEAN
BY VersionFacts DEF File

LEMMA ObjectFacts ==
  /\ \A n \in Outbounds, v \in Version : <<n, v>> \in Object
  /\ \A n \in Services, v \in Version : <<n, v>> \in SvcObject
  /\ \A o \in Object : o[1] \in Outbounds /\ o[2] \in Version /\ o = <<o[1], o[2]>>
BY DEF Object, SvcObject

\* What a reader does to a lock, and a writer.
LEMMA LockFacts ==
  ASSUME NEW l \in Lock, NEW c \in Conns
  PROVE  /\ Reading(l, c) \in Lock /\ NotReading(l, c) \in Lock
         /\ Reading(l, c).writer = l.writer /\ NotReading(l, c).writer = l.writer
BY DEF Lock, Reading, NotReading

LEMMA WriterFacts ==
  /\ Unlocked \in Lock /\ Unlocked.writer = FALSE /\ Unlocked.readers = {}
  /\ \A l \in Lock : /\ Waiting(l) \in Lock /\ Waiting(l).writer = TRUE
                     /\ Waiting(l).readers = l.readers
BY DEF Lock, Waiting, Unlocked

LEMMA StepCases ==
  ASSUME Next
  PROVE  \/ WriteFile \/ ManualReload \/ TakeEvent \/ Load \/ BeginRouter \/ UpdateRouter \/ Commit
         \/ \E n \in Outbounds : BeginReload(n) \/ AddOutbound(n)
         \/ \E o \in Object : ReloadOutbound(o)
         \/ \E n \in Services : UpdateService(n)
         \/ \E c \in Conns : \/ Arrive(c) \/ Refuse(c) \/ Enter(c) \/ Leave(c) \/ AwaitPing(c)
                             \/ Ping(c) \/ EndRelay(c) \/ Named(c) \/ \E n \in Outbounds : Dispatch(c, n)
BY DEF Next, Loop, UpdateConfig, Handle

-----------------------------------------------------------------------------
(***************************************************************************)
(* Types.                                                                  *)
(***************************************************************************)
LEMMA TypeCorrectInit == Init => TypeOK
<1> SUFFICES ASSUME Init PROVE TypeOK
  OBVIOUS
<1>1. \A names, file : First(names, file) \in Map(names)
  BY VersionFacts DEF First, Map
<1>2. svc \in [SvcObject -> [run : BOOLEAN, cfg : Version, key : Version, lists : Version]]
  BY VersionFacts DEF Init
<1>3. /\ rlock \in Lock /\ olock \in [Object -> Lock]
      /\ outCfg \in [Object -> Version] /\ outKey \in [Object -> Version]
  BY VersionFacts, WriterFacts DEF Init
<1>4. failures \in 0 .. ListenFailures
  BY ReloadAssumption DEF Init
<1>5. /\ disk \in Version /\ root \in Version /\ applied \in Version \cup {Absent}
      /\ rules \in Version /\ event \in BOOLEAN
      /\ cpc \in [Conns -> {"new", "routing", "wait", "held", "ping", "relay", "name", "done"}]
      /\ via \in [Conns -> Object \cup {<<>>}] /\ seen \in [Conns -> SUBSET Version]
  BY VersionFacts DEF Init
<1> QED
  BY <1>1, <1>2, <1>3, <1>4, <1>5 DEF Init, TypeOK

LEMMA TypeKept ==
  ASSUME TypeOK, ReadersHold, [Next]_vars
  PROVE  TypeOK'
<1> USE DEF TypeOK
<1>0. root \in Version /\ disk \in Version
  OBVIOUS
<1>1. /\ Files[root].outs \subseteq Outbounds /\ Files[root].svcs \subseteq Services
      /\ Files[disk].outs \subseteq Outbounds
  BY <1>0, FileFacts
<1>2. \A names, file : First(names, file) \in Map(names)
  BY VersionFacts DEF First, Map
<1>3. CASE WriteFile
  <2>1. disk' \in Version
    BY <1>0, <1>3, VersionFacts DEF WriteFile, Last, Version
  <2> QED
    BY <1>3, <2>1 DEF WriteFile, mapVars, outVars, svcVars, connVars
<1>4. CASE ManualReload \/ TakeEvent
  BY <1>4 DEF ManualReload, TakeEvent, fileVars, mapVars, outVars, svcVars, connVars
<1>5. CASE Load
  BY <1>1, <1>2, <1>5 DEF Load, fileVars, mapVars, outVars, svcVars, connVars
<1>6. ASSUME NEW n \in Outbounds, BeginReload(n)
      PROVE  TypeOK'
  <2>1. outMap[n] \in Version /\ <<n, outMap[n]>> \in Object
    BY <1>6, ObjectFacts DEF BeginReload, Map
  <2>2. olock' \in [Object -> Lock] /\ outKey' \in [Object -> Version]
    BY <1>0, <1>6, <2>1, WriterFacts DEF BeginReload, RefreshKey
  <2>3. newMap' \in Map(Outbounds)
    BY <1>6, <2>1 DEF BeginReload, Map
  <2> QED
    BY <1>6, <2>2, <2>3 DEF BeginReload, fileVars, mapVars, svcVars, connVars
<1>7. ASSUME NEW n \in Outbounds, AddOutbound(n)
      PROVE  TypeOK'
  <2>1. outCfg' \in [Object -> Version] /\ outKey' \in [Object -> Version]
    BY <1>0, <1>7 DEF AddOutbound
  <2>2. newMap' \in Map(Outbounds)
    BY <1>0, <1>7 DEF AddOutbound, Map
  <2> QED
    BY <1>7, <2>1, <2>2 DEF AddOutbound, fileVars, mapVars, svcVars, connVars
<1>8. ASSUME NEW o \in Object, ReloadOutbound(o)
      PROVE  TypeOK'
  <2>1. outCfg' \in [Object -> Version] /\ olock' \in [Object -> Lock]
    BY <1>0, <1>8, WriterFacts DEF ReloadOutbound
  <2> QED
    BY <1>8, <2>1 DEF ReloadOutbound, fileVars, mapVars, svcVars, connVars
<1>9. CASE BeginRouter
  <2>1. rlock' \in Lock
    BY <1>9, WriterFacts DEF BeginRouter
  <2> QED
    BY <1>9, <2>1 DEF BeginRouter, fileVars, mapVars, outVars, svcVars, connVars
<1>10. CASE UpdateRouter
  BY <1>0, <1>1, <1>10, WriterFacts DEF UpdateRouter, fileVars, outVars, svcVars, connVars
<1>11. ASSUME NEW n \in Services, UpdateService(n)
       PROVE  TypeOK'
  <2> DEFINE s == SvcOf(n)
  <2>1. s \in SvcObject
    BY <1>0, ObjectFacts DEF Map, SvcOf, Known
  <2>2. NotRunning(n) \/ CloseHangs(n) \/ StartFails(n) \/ Started(n)
    BY <1>11 DEF UpdateService
  <2>3. svc' \in [SvcObject -> [run : BOOLEAN, cfg : Version, key : Version, lists : Version]]
    <3> DEFINE State == [run : BOOLEAN, cfg : Version, key : Version, lists : Version]
    <3>1. CASE StartFails(n) \/ Started(n)
      <4>1. \A b \in BOOLEAN : [run |-> b, cfg |-> root, key |-> root, lists |-> rules] \in State
        BY <1>0
      <4>2. \E b \in BOOLEAN :
              svc' = [svc EXCEPT ![s] = [run |-> b, cfg |-> root, key |-> root, lists |-> rules]]
        <5>1. (~Known(n) /\ svc[s].run) \in BOOLEAN
          BY <2>1
        <5>2. CASE StartFails(n)
          BY <5>1, <5>2 DEF StartFails
        <5>3. CASE Started(n)
          BY <5>3 DEF Started
        <5> QED
          BY <3>1, <5>2, <5>3
      <4> QED
        BY <4>1, <4>2
    <3>2. CASE NotRunning(n) \/ CloseHangs(n)
      <4>1. svc[s] \in State
        BY <2>1
      <4>2. [svc[s] EXCEPT !.key = root] \in State
        BY <1>0, <4>1
      <4>3. svc' = [svc EXCEPT ![s] = [svc[s] EXCEPT !.key = root]]
        BY <3>2 DEF NotRunning, CloseHangs
      <4> QED
        BY <4>2, <4>3
    <3> QED
      BY <2>2, <3>1, <3>2
  <2>4. failures' \in 0 .. ListenFailures
    BY <2>2, ReloadAssumption DEF NotRunning, CloseHangs, StartFails, Started
  <2>5. rpc' \in {"select", "hung", "services"} /\ todo' \subseteq todo
    BY <1>11, <2>2 DEF UpdateService, NotRunning, CloseHangs, StartFails, Started
  <2> QED
    BY <1>11, <2>3, <2>4, <2>5 DEF UpdateService, fileVars, mapVars, outVars, connVars
<1>12. CASE Commit
  BY <1>0, <1>12 DEF Commit, Map, fileVars, outVars, svcVars, connVars
<1>13. ASSUME NEW c \in Conns, Arrive(c) \/ Refuse(c) \/ EndRelay(c) \/ AwaitPing(c)
       PROVE  TypeOK'
  <2>1. rlock' \in {rlock, Reading(rlock, c), NotReading(rlock, c)}
    BY <1>13 DEF Arrive, Refuse, EndRelay, AwaitPing
  <2>2. cpc' \in [Conns -> {"new", "routing", "wait", "held", "ping", "relay", "name", "done"}]
    BY <1>13 DEF Arrive, Refuse, EndRelay, AwaitPing
  <2>3. UNCHANGED <<fileVars, root, applied, rpc, todo, newMap, mapVars, olock, outVars,
                    svcVars, via, seen>>
    BY <1>13 DEF Arrive, Refuse, EndRelay, AwaitPing
  <2>4. rlock' \in Lock
    <3>1. Reading(rlock, c) \in Lock /\ NotReading(rlock, c) \in Lock
      BY LockFacts
    <3> QED
      BY <2>1, <3>1
  <2> QED
    BY <2>2, <2>3, <2>4 DEF fileVars, mapVars, outVars, svcVars
<1>14. ASSUME NEW c \in Conns, NEW n \in Outbounds, Dispatch(c, n)
       PROVE  TypeOK'
  <2>1. <<n, routes[n]>> \in Object
    BY <1>14, ObjectFacts DEF Dispatch, Map
  <2> QED
    BY <1>14, <2>1, LockFacts DEF Dispatch, fileVars, mapVars, outVars, svcVars
<1>15. ASSUME NEW c \in Conns, Enter(c) \/ Leave(c) \/ Ping(c)
       PROVE  TypeOK'
  <2>1. via[c] \in Object
    BY <1>15 DEF Enter, Leave, Ping, ReadersHold
  <2>2. seen' \in [Conns -> SUBSET Version]
    BY <1>15, <2>1 DEF Enter, Leave, Ping
  <2>3. olock' \in [Object -> Lock] /\ rlock' \in Lock
    <3>1. olock[via[c]] \in Lock
      BY <2>1
    <3>2. CASE Enter(c)
      BY <3>1, <3>2, LockFacts DEF Enter
    <3>3. CASE Leave(c)
      <4>1. NotReading(rlock, c) \in Lock /\ NotReading(olock[via[c]], c) \in Lock
        BY <3>1, LockFacts
      <4> QED
        BY <3>3, <4>1 DEF Leave
    <3>4. CASE Ping(c)
      BY <3>1, <3>4, LockFacts DEF Ping
    <3> QED
      BY <1>15, <3>2, <3>3, <3>4
  <2>4. cpc' \in [Conns -> {"new", "routing", "wait", "held", "ping", "relay", "name", "done"}]
    BY <1>15 DEF Enter, Leave, Ping
  <2> QED
    BY <1>15, <2>2, <2>3, <2>4 DEF Enter, Leave, Ping, fileVars, mapVars, outVars, svcVars
<1>16. ASSUME NEW c \in Conns, Named(c)
       PROVE  TypeOK'
  <2>1. NotReading(rlock, c) \in Lock
    BY LockFacts
  <2> QED
    BY <1>16, <2>1 DEF Named, fileVars, mapVars, outVars, svcVars
<1>17. CASE UNCHANGED vars
  BY <1>17 DEF vars, fileVars, mapVars, outVars, svcVars, connVars
<1> QED
  BY <1>3, <1>4, <1>5, <1>6, <1>7, <1>8, <1>9, <1>10, <1>11, <1>12, <1>13, <1>14, <1>15, <1>16,
     <1>17, StepCases

-----------------------------------------------------------------------------
(***************************************************************************)
(* What the steps of the connections leave alone, and those of the loop.   *)
(***************************************************************************)
UpdateVars == <<fileVars, root, applied, rpc, todo, newMap, mapVars, outVars, svcVars>>

\* A connection locks, unlocks and looks; it never makes a writer or undoes one.
ConnStep ==
  /\ UNCHANGED UpdateVars
  /\ \A o \in Object : olock'[o].writer = olock[o].writer

\* The loop takes no reader's lock away, and writes a config only where nobody reads.
LoopStep ==
  /\ UNCHANGED connVars
  /\ rlock'.readers \subseteq rlock.readers
  /\ \A o \in Object : /\ olock'[o].readers = olock[o].readers
                       /\ outCfg'[o] = outCfg[o] \/ outCfg'[o] = root

LEMMA ConnSteps ==
  ASSUME TypeOK, ReadersHold, NEW c \in Conns,
         \/ Arrive(c) \/ Refuse(c) \/ Enter(c) \/ Leave(c) \/ AwaitPing(c)
         \/ Ping(c) \/ EndRelay(c) \/ Named(c)
         \/ \E n \in Outbounds : Dispatch(c, n)
  PROVE  ConnStep
<1> USE DEF ConnStep, UpdateVars
<1>1. CASE \/ Arrive(c) \/ Refuse(c) \/ AwaitPing(c) \/ EndRelay(c) \/ Named(c) \/ \E n \in Outbounds : Dispatch(c, n)
  BY <1>1 DEF Arrive, Refuse, AwaitPing, EndRelay, Named, Dispatch
<1>2. CASE Enter(c) \/ Leave(c) \/ Ping(c)
  <2>1. via[c] \in Object /\ olock[via[c]] \in Lock /\ olock \in [Object -> Lock]
    BY <1>2 DEF Enter, Leave, Ping, ReadersHold, TypeOK
  <2>2. \/ olock' = [olock EXCEPT ![via[c]] = Reading(olock[via[c]], c)]
        \/ olock' = [olock EXCEPT ![via[c]] = NotReading(olock[via[c]], c)]
    BY <1>2 DEF Enter, Leave, Ping
  <2>3. \A o \in Object : olock'[o].writer = olock[o].writer
    <3>1. /\ Reading(olock[via[c]], c).writer = olock[via[c]].writer
          /\ NotReading(olock[via[c]], c).writer = olock[via[c]].writer
      BY <2>1, LockFacts
    <3> QED
      BY <2>1, <2>2, <3>1
  <2> QED
    BY <1>2, <2>3 DEF Enter, Leave, Ping
<1> QED
  BY <1>1, <1>2

LEMMA LoopSteps ==
  ASSUME TypeOK, Next
  PROVE  \/ LoopStep
         \/ \E c \in Conns : \/ Arrive(c) \/ Refuse(c) \/ Enter(c) \/ Leave(c) \/ AwaitPing(c)
                             \/ Ping(c) \/ EndRelay(c) \/ Named(c) \/ \E n \in Outbounds : Dispatch(c, n)
<1> USE DEF LoopStep
<1>1. /\ olock \in [Object -> Lock] /\ outCfg \in [Object -> Version] /\ \A o \in Object : olock[o] \in Lock
      /\ rlock \in Lock
  BY DEF TypeOK
<1>2. CASE WriteFile \/ ManualReload \/ TakeEvent \/ Load \/ BeginRouter \/ UpdateRouter \/ Commit
  BY <1>1, <1>2, WriterFacts
  DEF WriteFile, ManualReload, TakeEvent, Load, BeginRouter, UpdateRouter, Commit, outVars
<1>3. ASSUME NEW n \in Outbounds, BeginReload(n)
      PROVE  LoopStep
  BY <1>1, <1>3, WriterFacts DEF BeginReload
<1>4. ASSUME NEW n \in Outbounds, AddOutbound(n)
      PROVE  LoopStep
  BY <1>1, <1>4 DEF AddOutbound
<1>5. ASSUME NEW o \in Object, ReloadOutbound(o)
      PROVE  LoopStep
  BY <1>1, <1>5, WriterFacts DEF ReloadOutbound, MayWrite
<1>6. ASSUME NEW n \in Services, UpdateService(n)
      PROVE  LoopStep
  BY <1>6 DEF UpdateService, outVars
<1> QED
  BY <1>2, <1>3, <1>4, <1>5, <1>6, StepCases

\* A service is given the key, and the rest of the version if it is started.
LEMMA ServiceStep ==
  ASSUME TypeOK, NEW n \in Services, UpdateService(n)
  PROVE  /\ rpc = "services" /\ n \in todo /\ SvcOf(n) \in SvcObject
         /\ UNCHANGED <<fileVars, root, applied, newMap, mapVars, rlock, olock, outVars, connVars>>
         /\ \A s \in SvcObject : s # SvcOf(n) => svc'[s] = svc[s]
         /\ svc'[SvcOf(n)].cfg \in {svc[SvcOf(n)].cfg, root} /\ svc'[SvcOf(n)].key = root
         /\ \/ rpc' \in {"select", "hung"}
            \/ /\ rpc' = "services" /\ todo' = todo \ {n}
               /\ svc'[SvcOf(n)] = [run |-> TRUE, cfg |-> root, key |-> root, lists |-> rules]
<1>1. SvcOf(n) \in SvcObject
  BY ObjectFacts DEF SvcOf, Known, TypeOK, Map
<1>2. rpc = "services" /\ n \in todo
      /\ UNCHANGED <<fileVars, root, applied, newMap, mapVars, rlock, olock, outVars, connVars>>
  BY DEF UpdateService
<1>3. NotRunning(n) \/ CloseHangs(n) \/ StartFails(n) \/ Started(n)
  BY DEF UpdateService
<1>4. svc[SvcOf(n)] \in [run : BOOLEAN, cfg : Version, key : Version, lists : Version]
      /\ SvcOf(n) \in DOMAIN svc
  BY <1>1 DEF TypeOK
<1>5. CASE NotRunning(n) \/ CloseHangs(n)
  BY <1>1, <1>2, <1>4, <1>5 DEF NotRunning, CloseHangs, TypeOK
<1>6. CASE StartFails(n)
  BY <1>1, <1>2, <1>4, <1>6 DEF StartFails, TypeOK
<1>7. CASE Started(n)
  BY <1>1, <1>2, <1>4, <1>7 DEF Started, TypeOK
<1> QED
  BY <1>3, <1>5, <1>6, <1>7

-----------------------------------------------------------------------------
(***************************************************************************)
(* Versions only grow.                                                     *)
(***************************************************************************)
LEMMA NumberFacts ==
  ASSUME TypeOK
  PROVE  /\ root \in Nat /\ root >= 1 /\ disk \in Nat /\ rules \in Nat
         /\ \A o \in Object : outCfg[o] \in Nat /\ outKey[o] \in Nat
         /\ \A s \in SvcObject : svc[s].cfg \in Nat /\ svc[s].key \in Nat
         /\ \A n \in Outbounds : outMap[n] \in Nat /\ routes[n] \in Nat
         /\ rpc \notin {"select", "load"} => \A n \in Outbounds : newMap[n] \in Nat
<1>1. \A v \in Version \cup {Absent} : v \in Nat
  BY VersionFacts
<1>2. /\ root \in Version /\ disk \in Version /\ rules \in Version
      /\ \A o \in Object : outCfg[o] \in Version /\ outKey[o] \in Version
      /\ \A s \in SvcObject : svc[s].cfg \in Version /\ svc[s].key \in Version
  BY DEF TypeOK
<1>3. /\ \A n \in Outbounds : outMap[n] \in Version \cup {Absent} /\ routes[n] \in Version \cup {Absent}
      /\ rpc \notin {"select", "load"} => \A n \in Outbounds : newMap[n] \in Version \cup {Absent}
  BY DEF TypeOK, Map
<1> QED
  BY <1>1, <1>2, <1>3, VersionFacts

LEMMA NotAheadKept ==
  ASSUME TypeOK, ReadersHold, NotAhead, [Next]_vars
  PROVE  NotAhead'
<1> USE DEF NotAhead
<1>0. TypeOK'
  BY TypeKept
<1>1. CASE WriteFile
  BY <1>1, NumberFacts DEF WriteFile, mapVars, outVars, svcVars
<1>2. CASE ManualReload \/ TakeEvent \/ BeginRouter
  BY <1>2 DEF ManualReload, TakeEvent, BeginRouter, fileVars, mapVars, outVars, svcVars
<1>3. CASE Load
  <2>1. CASE ~Files[disk].loads
    BY <1>3, <2>1 DEF Load, fileVars, mapVars, outVars, svcVars
  <2>2. CASE Files[disk].loads
    <3>1. root' = disk /\ root <= root' /\ UNCHANGED <<disk, mapVars, outVars, svcVars>>
      BY <1>3, <2>2 DEF Load, fileVars
    <3>2. \A n \in Outbounds : newMap'[n] = 0
      BY <1>3, <2>2, VersionFacts DEF Load, First
    <3>3. root' \in Nat /\ disk' <= disk /\ \A v \in Nat : v <= root => v <= root'
      BY <3>1, NumberFacts
    <3>4. /\ \A o \in Object : outCfg'[o] <= root' /\ outKey'[o] <= root'
          /\ \A s \in SvcObject : svc'[s].cfg <= root' /\ svc'[s].key <= root'
      BY <3>1, <3>3, NumberFacts DEF outVars, svcVars
    <3>5. \A n \in Outbounds : outMap'[n] <= root' /\ routes'[n] <= rules'
      BY <3>1, <3>3, NumberFacts DEF mapVars
    <3>6. root' <= disk' /\ rules' <= root'
      BY <3>1, <3>3, NumberFacts DEF mapVars
    <3>7. \A n \in Outbounds : newMap'[n] <= root'
      BY <3>2, <3>3
    <3> QED
      BY <3>4, <3>5, <3>6, <3>7
  <2> QED
    BY <2>1, <2>2
<1>4. ASSUME NEW n \in Outbounds, BeginReload(n)
      PROVE  NotAhead'
  <2>1. \A o \in Object : outKey'[o] \in {outKey[o], root}
    BY <1>4 DEF BeginReload, RefreshKey, TypeOK
  <2>2. \A m \in Outbounds : newMap'[m] \in {newMap[m], outMap[m]}
    BY <1>4 DEF BeginReload, TypeOK, Map
  <2> QED
    BY <1>4, <2>1, <2>2, NumberFacts DEF BeginReload, fileVars, mapVars, svcVars
<1>5. ASSUME NEW n \in Outbounds, AddOutbound(n)
      PROVE  NotAhead'
  <2>1. \A o \in Object : outKey'[o] \in {outKey[o], root} /\ outCfg'[o] \in {outCfg[o], root}
    BY <1>5 DEF AddOutbound, TypeOK
  <2>2. \A m \in Outbounds : newMap'[m] \in {newMap[m], root}
    BY <1>5 DEF AddOutbound, TypeOK, Map
  <2> QED
    BY <1>5, <2>1, <2>2, NumberFacts DEF AddOutbound, fileVars, mapVars, svcVars
<1>6. ASSUME NEW o \in Object, ReloadOutbound(o)
      PROVE  NotAhead'
  <2>1. \A p \in Object : outCfg'[p] \in {outCfg[p], root}
    BY <1>6 DEF ReloadOutbound, TypeOK
  <2> QED
    BY <1>6, <2>1, NumberFacts DEF ReloadOutbound, fileVars, mapVars, svcVars
<1>7. CASE UpdateRouter
  BY <1>7, NumberFacts DEF UpdateRouter, fileVars, outVars, svcVars
<1>8. ASSUME NEW n \in Services, UpdateService(n)
      PROVE  NotAhead'
  <2>1. \A s \in SvcObject : /\ svc'[s].cfg = svc[s].cfg \/ svc'[s].cfg = root
                             /\ svc'[s].key = svc[s].key \/ svc'[s].key = root
    BY <1>8, ServiceStep
  <2>2. /\ rpc \notin {"select", "load"}
        /\ UNCHANGED <<fileVars, root, newMap, mapVars, outVars>>
    BY <1>8, ServiceStep
  <2>3. \A s \in SvcObject : svc'[s].cfg <= root' /\ svc'[s].key <= root'
    <3>1. root <= root /\ root' = root
      BY <2>2, NumberFacts
    <3>2. \A s \in SvcObject : svc[s].cfg <= root /\ svc[s].key <= root
      OBVIOUS
    <3> QED
      <4> TAKE s \in SvcObject
      <4>1. svc'[s].cfg = svc[s].cfg \/ svc'[s].cfg = root
        BY <2>1
      <4>2. svc'[s].key = svc[s].key \/ svc'[s].key = root
        BY <2>1
      <4> QED
        BY <3>1, <3>2, <4>1, <4>2
  <2> QED
    BY <2>2, <2>3 DEF fileVars, mapVars, outVars
<1>9. CASE Commit
  <2>1. \A n \in Outbounds : outMap'[n] <= root
    BY <1>9 DEF Commit
  <2> QED
    BY <1>9, <2>1 DEF Commit, fileVars, outVars, svcVars
<1>10. CASE ConnStep
  BY <1>10 DEF ConnStep, UpdateVars, fileVars, mapVars, outVars, svcVars
<1>11. CASE UNCHANGED vars
  BY <1>11 DEF vars, fileVars, mapVars, outVars, svcVars
<1> QED
  BY <1>1, <1>2, <1>3, <1>4, <1>5, <1>6, <1>7, <1>8, <1>9, <1>10, <1>11, StepCases, ConnSteps

LEMMA OneWriterKept ==
  ASSUME TypeOK, ReadersHold, OneWriter, [Next]_vars
  PROVE  OneWriter'
<1> USE DEF OneWriter
<1>1. olock \in [Object -> Lock] /\ outKey \in [Object -> Version] /\ \A o \in Object : olock[o] \in Lock
  BY DEF TypeOK
<1>2. CASE ConnStep
  BY <1>2 DEF ConnStep, UpdateVars, outVars
<1>3. CASE WriteFile \/ ManualReload \/ TakeEvent \/ Load \/ BeginRouter \/ UpdateRouter \/ Commit
  BY <1>3 DEF WriteFile, ManualReload, TakeEvent, Load, BeginRouter, UpdateRouter, Commit, outVars
<1>4. ASSUME NEW n \in Outbounds, AddOutbound(n) \/ \E m \in Services : UpdateService(m)
      PROVE  OneWriter'
  BY <1>4 DEF AddOutbound, UpdateService
<1>5. ASSUME NEW n \in Outbounds, BeginReload(n)
      PROVE  OneWriter'
  <2>1. \A o \in Object : ~olock[o].writer
    BY <1>5 DEF BeginReload
  <2>2. \A o \in Object : o # <<n, outMap[n]>> => olock'[o] = olock[o]
    BY <1>1, <1>5 DEF BeginReload
  <2>3. <<n, outMap[n]>> \in Object => outKey'[<<n, outMap[n]>>] = root
    BY <1>1, <1>5 DEF BeginReload, RefreshKey
  <2>4. rpc' = "lock" /\ UNCHANGED root
    BY <1>5 DEF BeginReload
  <2> QED
    BY <2>1, <2>2, <2>3, <2>4
<1>6. ASSUME NEW o \in Object, ReloadOutbound(o)
      PROVE  OneWriter'
  <2>1. olock[o].writer /\ ~olock'[o].writer
    BY <1>1, <1>6, WriterFacts DEF ReloadOutbound, MayWrite
  <2>2. \A p \in Object : p # o => ~olock'[p].writer
    BY <1>1, <1>6, <2>1 DEF ReloadOutbound
  <2> QED
    BY <2>1, <2>2
<1>7. CASE UNCHANGED vars
  BY <1>7 DEF vars, outVars
<1>8. CASE \E m \in Services : UpdateService(m)
  BY <1>8 DEF UpdateService, outVars
<1> QED
  BY <1>2, <1>3, <1>4, <1>5, <1>6, <1>7, <1>8, StepCases, ConnSteps

-----------------------------------------------------------------------------
\* UpdateConfig refreshes a secret before the config it goes with.
LEMMA KeyKept ==
  ASSUME TypeOK, ReadersHold, OneWriter, NotAhead, KeyNotOlder, [Next]_vars
  PROVE  KeyNotOlder'
<1> USE DEF KeyNotOlder
<1>1. /\ outCfg \in [Object -> Version] /\ outKey \in [Object -> Version]
      /\ root <= root /\ root \in Nat
      /\ \A o \in Object : outCfg[o] \in Nat /\ outKey[o] \in Nat /\ outCfg[o] <= root
      /\ \A s \in SvcObject : svc[s].cfg \in Nat /\ svc[s].cfg <= root
  BY NumberFacts DEF TypeOK, NotAhead
<1>2. CASE UNCHANGED <<outCfg, outKey, svc>>
  BY <1>2
<1>3. ASSUME NEW n \in Outbounds, BeginReload(n)
      PROVE  KeyNotOlder'
  <2>1. \A o \in Object : outKey'[o] \in {outKey[o], root} /\ outCfg'[o] = outCfg[o]
    BY <1>1, <1>3 DEF BeginReload, RefreshKey
  <2> QED
    BY <1>1, <1>3, <2>1 DEF BeginReload, svcVars
<1>4. ASSUME NEW n \in Outbounds, AddOutbound(n)
      PROVE  KeyNotOlder'
  <2>1. \A o \in Object : \/ outKey'[o] = outKey[o] /\ outCfg'[o] = outCfg[o]
                          \/ outKey'[o] = root /\ outCfg'[o] = root
    <3> TAKE o \in Object
    <3>1. CASE o = <<n, root>>
      BY <1>1, <1>4, <3>1 DEF AddOutbound
    <3>2. CASE o # <<n, root>>
      BY <1>1, <1>4, <3>2 DEF AddOutbound
    <3> QED
      BY <3>1, <3>2
  <2> QED
    BY <1>1, <1>4, <2>1 DEF AddOutbound, svcVars
<1>5. ASSUME NEW o \in Object, ReloadOutbound(o)
      PROVE  KeyNotOlder'
  <2>1. outKey[o] = root /\ UNCHANGED <<outKey, svc>>
    BY <1>5 DEF ReloadOutbound, MayWrite, OneWriter, svcVars
  <2>2. \A p \in Object : outCfg'[p] = outCfg[p] \/ (p = o /\ outCfg'[p] = root)
    BY <1>1, <1>5 DEF ReloadOutbound
  <2> QED
    BY <1>1, <2>1, <2>2
<1>6. ASSUME NEW n \in Services, UpdateService(n)
      PROVE  KeyNotOlder'
  <2>1. UNCHANGED <<outCfg, outKey>>
    BY <1>6 DEF UpdateService, outVars
  <2>2. \A s \in SvcObject : \/ svc'[s] = svc[s]
                             \/ svc'[s].key = root /\ svc'[s].cfg \in {svc[s].cfg, root}
    BY <1>6, ServiceStep
  <2>3. \A s \in SvcObject : svc'[s].key >= svc'[s].cfg
    BY <1>1, <2>2
  <2> QED
    BY <2>1, <2>3
<1>7. CASE WriteFile \/ ManualReload \/ TakeEvent \/ Load \/ BeginRouter \/ UpdateRouter \/ Commit
  BY <1>2, <1>7 DEF WriteFile, ManualReload, TakeEvent, Load, BeginRouter, UpdateRouter, Commit,
     outVars, svcVars
<1>8. CASE ConnStep
  BY <1>2, <1>8 DEF ConnStep, UpdateVars, outVars, svcVars
<1>9. CASE UNCHANGED vars
  BY <1>2, <1>9 DEF vars, outVars, svcVars
<1> QED
  BY <1>3, <1>4, <1>5, <1>6, <1>7, <1>8, <1>9, StepCases, ConnSteps

-----------------------------------------------------------------------------
LEMMA MapGrowsKept ==
  ASSUME TypeOK, ReadersHold, MapGrows, [Next]_vars
  PROVE  MapGrows'
<1> USE DEF MapGrows
<1>1. CASE WriteFile \/ ManualReload \/ TakeEvent
  BY <1>1 DEF WriteFile, ManualReload, TakeEvent
<1>2. CASE Load
  BY <1>2 DEF Load, First
<1>3. ASSUME NEW n \in Outbounds, BeginReload(n)
      PROVE  MapGrows'
  <2>1. \A m \in Outbounds : newMap'[m] = IF m = n THEN outMap[n] ELSE newMap[m]
    BY <1>3 DEF BeginReload, TypeOK, Map
  <2> QED
    BY <1>3, <2>1 DEF BeginReload
<1>4. ASSUME NEW n \in Outbounds, AddOutbound(n)
      PROVE  MapGrows'
  <2>1. \A m \in Outbounds : newMap'[m] = IF m = n THEN root ELSE newMap[m]
    BY <1>4 DEF AddOutbound, TypeOK, Map
  <2>2. root # Absent
    BY VersionFacts DEF TypeOK
  <2> QED
    BY <1>4, <2>1, <2>2 DEF AddOutbound
<1>5. ASSUME NEW o \in Object, ReloadOutbound(o)
      PROVE  MapGrows'
  BY <1>5 DEF ReloadOutbound
<1>6. CASE BeginRouter
  BY <1>6 DEF BeginRouter
<1>7. CASE UpdateRouter
  BY <1>7 DEF UpdateRouter
<1>8. ASSUME NEW n \in Services, UpdateService(n)
      PROVE  MapGrows'
  BY <1>8, ServiceStep
<1>9. CASE Commit
  BY <1>9 DEF Commit
<1>10. CASE ConnStep
  BY <1>10 DEF ConnStep, UpdateVars
<1>11. CASE UNCHANGED vars
  BY <1>11 DEF vars
<1> QED
  BY <1>1, <1>2, <1>3, <1>4, <1>5, <1>6, <1>7, <1>8, <1>9, <1>10, <1>11, StepCases, ConnSteps

LEMMA MapIsNewKept ==
  ASSUME TypeOK, ReadersHold, OneWriter, MapIsNew, [Next]_vars
  PROVE  MapIsNew'
<1> USE DEF MapIsNew
<1>1. /\ outCfg \in [Object -> Version] /\ outKey \in [Object -> Version] /\ root \in Version
      /\ olock \in [Object -> Lock]
      /\ rpc \notin {"select", "load"} =>
           /\ newMap \in Map(Outbounds)
           /\ \A n \in Outbounds : newMap[n] # Absent => <<n, newMap[n]>> \in Object
  BY ObjectFacts DEF TypeOK, Map
<1>2. CASE WriteFile \/ ManualReload \/ TakeEvent
  BY <1>2 DEF WriteFile, ManualReload, TakeEvent, outVars
<1>3. CASE Load
  BY <1>3 DEF Load, First
<1>4. ASSUME NEW n \in Outbounds, BeginReload(n), NEW m \in Outbounds, newMap'[m] # Absent
      PROVE  /\ outKey'[<<m, newMap'[m]>>] = root'
             /\ outCfg'[<<m, newMap'[m]>>] = root' \/ olock'[<<m, newMap'[m]>>].writer
  <2>1. newMap'[m] = (IF m = n THEN outMap[n] ELSE newMap[m]) /\ UNCHANGED <<root, outCfg>>
    BY <1>4 DEF BeginReload, TypeOK, Map
  <2>2. <<n, outMap[n]>> \in Object
    BY <1>4, ObjectFacts DEF BeginReload, TypeOK, Map
  <2>3. CASE m = n
    BY <1>1, <1>4, <2>1, <2>2, <2>3, WriterFacts DEF BeginReload, RefreshKey
  <2>4. CASE m # n
    <3>1. /\ <<m, newMap[m]>> \in Object /\ <<m, newMap[m]>> # <<n, outMap[n]>>
          /\ outKey[<<m, newMap[m]>>] = root
          /\ outCfg[<<m, newMap[m]>>] = root \/ olock[<<m, newMap[m]>>].writer
      BY <1>1, <1>4, <2>1, <2>4 DEF BeginReload
    <3> QED
      BY <1>1, <1>4, <2>1, <2>4, <3>1 DEF BeginReload, RefreshKey
  <2> QED
    BY <2>3, <2>4
<1>5. ASSUME NEW n \in Outbounds, AddOutbound(n), NEW m \in Outbounds, newMap'[m] # Absent
      PROVE  /\ outKey'[<<m, newMap'[m]>>] = root'
             /\ outCfg'[<<m, newMap'[m]>>] = root' \/ olock'[<<m, newMap'[m]>>].writer
  <2>1. newMap'[m] = (IF m = n THEN root ELSE newMap[m]) /\ UNCHANGED <<root, olock>>
    BY <1>5 DEF AddOutbound, TypeOK, Map
  <2>2. <<n, root>> \in Object
    BY <1>1, ObjectFacts
  <2>3. CASE m = n
    BY <1>1, <1>5, <2>1, <2>2, <2>3 DEF AddOutbound
  <2>4. CASE m # n
    <3>1. /\ <<m, newMap[m]>> \in Object /\ <<m, newMap[m]>> # <<n, root>>
          /\ outKey[<<m, newMap[m]>>] = root
          /\ outCfg[<<m, newMap[m]>>] = root \/ olock[<<m, newMap[m]>>].writer
      BY <1>1, <1>5, <2>1, <2>4 DEF AddOutbound
    <3> QED
      BY <1>1, <1>5, <2>1, <2>4, <3>1 DEF AddOutbound
  <2> QED
    BY <2>3, <2>4
<1>6. ASSUME NEW o \in Object, ReloadOutbound(o), NEW m \in Outbounds, newMap'[m] # Absent
      PROVE  /\ outKey'[<<m, newMap'[m]>>] = root'
             /\ outCfg'[<<m, newMap'[m]>>] = root' \/ olock'[<<m, newMap'[m]>>].writer
  <2>1. UNCHANGED <<newMap, outKey, root>> /\ rpc = "lock" /\ olock[o].writer
    BY <1>6 DEF ReloadOutbound, MayWrite
  <2>2. <<m, newMap[m]>> \in Object /\ outKey[<<m, newMap[m]>>] = root
    BY <1>1, <1>6, <2>1
  <2>3. CASE <<m, newMap[m]>> = o
    BY <1>1, <1>6, <2>1, <2>2, <2>3 DEF ReloadOutbound
  <2>4. CASE <<m, newMap[m]>> # o
    <3>1. outCfg[<<m, newMap[m]>>] = root
      BY <1>6, <2>1, <2>2, <2>4 DEF OneWriter
    <3> QED
      BY <1>1, <1>6, <2>1, <2>2, <2>4, <3>1 DEF ReloadOutbound
  <2> QED
    BY <2>3, <2>4
<1>7. CASE BeginRouter
  BY <1>7 DEF BeginRouter, outVars
<1>8. CASE UpdateRouter
  BY <1>8 DEF UpdateRouter, outVars
<1>9. ASSUME NEW n \in Services, UpdateService(n)
      PROVE  MapIsNew'
  BY <1>9, ServiceStep DEF outVars
<1>10. CASE Commit
  BY <1>10 DEF Commit
<1>11. CASE ConnStep
  BY <1>1, <1>11 DEF ConnStep, UpdateVars, outVars
<1>12. CASE UNCHANGED vars
  BY <1>12 DEF vars, outVars
<1> QED
  BY <1>2, <1>3, <1>4, <1>5, <1>6, <1>7, <1>8, <1>9, <1>10, <1>11, <1>12, StepCases, ConnSteps

-----------------------------------------------------------------------------
(***************************************************************************)
(* What connections see.                                                   *)
(***************************************************************************)
LEMMA ConfigsGrow ==
  ASSUME TypeOK, ReadersHold, NotAhead, [Next]_vars, NEW o \in Object
  PROVE  outCfg'[o] >= outCfg[o]
<1>1. outCfg[o] \in Nat /\ root \in Nat /\ outCfg[o] <= root /\ outCfg[o] <= outCfg[o]
  BY NumberFacts DEF NotAhead
<1>2. outCfg'[o] = outCfg[o] \/ outCfg'[o] = root
  BY LoopSteps, ConnSteps DEF LoopStep, ConnStep, UpdateVars, outVars, vars
<1> QED
  BY <1>1, <1>2

\* Router.UpdateConfig publishes a map whose objects are all of the new version.
LEMMA RoutedKept ==
  ASSUME TypeOK, ReadersHold, OneWriter, NotAhead, MapIsNew, RoutedConsistently, [Next]_vars
  PROVE  RoutedConsistently'
<1> USE DEF RoutedConsistently
<1>1. \A n \in Outbounds : /\ routes[n] # Absent => <<n, routes[n]>> \in Object
                           /\ rpc = "router" /\ newMap[n] # Absent => <<n, newMap[n]>> \in Object
  BY ObjectFacts DEF TypeOK, Map
<1>2. CASE UNCHANGED <<routes, rules>>
  <2> SUFFICES ASSUME NEW n \in Outbounds, routes[n] # Absent
               PROVE  outCfg'[<<n, routes[n]>>] >= rules
    BY <1>2
  <2>1. /\ outCfg[<<n, routes[n]>>] >= rules
        /\ outCfg'[<<n, routes[n]>>] >= outCfg[<<n, routes[n]>>]
    BY <1>1, ConfigsGrow
  <2>2. /\ outCfg[<<n, routes[n]>>] \in Nat /\ outCfg'[<<n, routes[n]>>] \in Nat /\ rules \in Nat
    <3>1. TypeOK'
      BY TypeKept
    <3>2. \A v \in Version : v \in Nat
      BY VersionFacts
    <3> QED
      BY <1>1, <3>1, <3>2 DEF TypeOK
  <2> QED
    BY <2>1, <2>2
<1>3. CASE UpdateRouter /\ Files[root].rules
  <2>1. routes' = newMap /\ rules' = root /\ rpc = "router" /\ UNCHANGED <<outCfg, olock>>
    BY <1>3 DEF UpdateRouter, outVars
  <2>2. \A n \in Outbounds : newMap[n] # Absent => outCfg[<<n, newMap[n]>>] = root
    BY <1>1, <2>1 DEF MapIsNew, OneWriter
  <2>3. root >= root
    BY NumberFacts
  <2> QED
    BY <2>1, <2>2, <2>3
<1>4. CASE UpdateRouter /\ ~Files[root].rules
  BY <1>2, <1>4 DEF UpdateRouter
<1>5. CASE WriteFile \/ ManualReload \/ TakeEvent \/ Load \/ BeginRouter \/ Commit
  BY <1>2, <1>5 DEF WriteFile, ManualReload, TakeEvent, Load, BeginRouter, Commit, mapVars
<1>6. ASSUME NEW n \in Outbounds, BeginReload(n) \/ AddOutbound(n)
      PROVE  RoutedConsistently'
  BY <1>2, <1>6 DEF BeginReload, AddOutbound, mapVars
<1>7. ASSUME NEW o \in Object, ReloadOutbound(o)
      PROVE  RoutedConsistently'
  BY <1>2, <1>7 DEF ReloadOutbound, mapVars
<1>8. ASSUME NEW n \in Services, UpdateService(n)
      PROVE  RoutedConsistently'
  BY <1>2, <1>8 DEF UpdateService, mapVars
<1>9. CASE ConnStep
  BY <1>2, <1>9 DEF ConnStep, UpdateVars, mapVars
<1>10. CASE UNCHANGED vars
  BY <1>2, <1>10 DEF vars, mapVars
<1> QED
  BY <1>3, <1>4, <1>5, <1>6, <1>7, <1>8, <1>9, <1>10, StepCases, ConnSteps

LEMMA CreatedKept ==
  ASSUME TypeOK, ReadersHold, NotAhead, RoutedConsistently, CreatedBefore, [Next]_vars
  PROVE  CreatedBefore'
<1>1. SUFFICES ASSUME NEW c \in Conns, via'[c] \in Object
               PROVE  outCfg'[via'[c]] >= via'[c][2]
  BY DEF CreatedBefore
<1>2. via'[c][2] \in Nat /\ outCfg[via'[c]] \in Nat /\ outCfg'[via'[c]] \in Nat
  <2>1. via'[c][2] \in Version /\ outCfg[via'[c]] \in Version /\ outCfg'[via'[c]] \in Version
    BY <1>1, TypeKept, ObjectFacts DEF TypeOK
  <2> QED
    BY <2>1, VersionFacts
<1>3. outCfg[via'[c]] >= via'[c][2]
  <2>1. CASE via'[c] = via[c]
    BY <1>1, <2>1 DEF CreatedBefore
  <2>2. ASSUME NEW n \in Outbounds, Dispatch(c, n)
        PROVE  outCfg[via'[c]] >= via'[c][2]
    <3>1. via'[c] = <<n, routes[n]>> /\ routes[n] # Absent
      BY <2>2 DEF Dispatch, TypeOK
    <3>2. outCfg[<<n, routes[n]>>] >= rules /\ routes[n] <= rules
      BY <3>1 DEF RoutedConsistently, NotAhead
    <3>3. routes[n] \in Nat /\ rules \in Nat
      BY NumberFacts
    <3> QED
      BY <1>2, <3>1, <3>2, <3>3
  <2>3. via'[c] = via[c] \/ \E n \in Outbounds : Dispatch(c, n)
    <3>0. \A d \in Conns : Named(d) => d # c
      BY <1>1 DEF Named, TypeOK, Object
    <3>1. CASE UNCHANGED connVars
      BY <3>1 DEF connVars
    <3>2. ASSUME NEW d \in Conns, NEW n \in Outbounds, Dispatch(d, n), d # c
          PROVE  via'[c] = via[c]
      BY <3>2 DEF Dispatch, TypeOK
    <3>3. ASSUME NEW d \in Conns,
                 \/ Arrive(d) \/ Refuse(d) \/ Enter(d) \/ Leave(d) \/ AwaitPing(d)
                 \/ Ping(d) \/ EndRelay(d) \/ Named(d)
          PROVE  via'[c] = via[c]
      BY <3>0, <3>3 DEF TypeOK, Arrive, Refuse, Enter, Leave, AwaitPing, Ping, EndRelay, Named
    <3> QED
      BY <3>1, <3>2, <3>3, LoopSteps DEF LoopStep, vars
  <2> QED
    BY <2>1, <2>2, <2>3
<1>4. outCfg'[via'[c]] >= outCfg[via'[c]]
  BY <1>1, ConfigsGrow
<1> QED
  BY <1>2, <1>3, <1>4

\* A config that is read under the lock is not written: the writer waits, and the
\* object a repeated load adds again has that config already.
LEMMA ReadIsStable ==
  ASSUME TypeOK, NotAhead, [Next]_vars, NEW o \in Object, olock[o].readers # {},
         outCfg[o] >= o[2]
  PROVE  outCfg'[o] = outCfg[o]
<1>1. outCfg \in [Object -> Version]
  BY DEF TypeOK
<1>2. CASE UNCHANGED outCfg
  BY <1>2
<1>3. ASSUME NEW p \in Object, ReloadOutbound(p)
      PROVE  outCfg'[o] = outCfg[o]
  BY <1>1, <1>3 DEF ReloadOutbound, MayWrite
<1>4. ASSUME NEW n \in Outbounds, AddOutbound(n)
      PROVE  outCfg'[o] = outCfg[o]
  <2>1. CASE o = <<n, root>>
    <3>1. outCfg[o] \in Nat /\ root \in Nat /\ outCfg[o] <= root /\ outCfg[o] >= root
      BY <2>1, NumberFacts DEF NotAhead
    <3>2. outCfg[o] = root
      BY <3>1
    <3> QED
      BY <1>1, <1>4, <2>1, <3>2 DEF AddOutbound
  <2> QED
    BY <1>1, <1>4, <2>1 DEF AddOutbound
<1>5. ASSUME NEW n \in Outbounds, BeginReload(n) \/ \E m \in Services : UpdateService(m)
      PROVE  outCfg'[o] = outCfg[o]
  BY <1>5 DEF BeginReload, UpdateService, outVars
<1>6. CASE \E m \in Services : UpdateService(m)
  BY <1>6 DEF UpdateService, outVars
<1>7. CASE WriteFile \/ ManualReload \/ TakeEvent \/ Load \/ BeginRouter \/ UpdateRouter \/ Commit
  BY <1>7 DEF WriteFile, ManualReload, TakeEvent, Load, BeginRouter, UpdateRouter, Commit, outVars
<1>8. ASSUME NEW c \in Conns,
             \/ Arrive(c) \/ Refuse(c) \/ Enter(c) \/ Leave(c) \/ AwaitPing(c)
             \/ Ping(c) \/ EndRelay(c) \/ Named(c)
             \/ \E n \in Outbounds : Dispatch(c, n)
      PROVE  outCfg'[o] = outCfg[o]
  BY <1>8 DEF Arrive, Refuse, Enter, Leave, AwaitPing, Ping, EndRelay, Named, Dispatch, outVars
<1>9. CASE UNCHANGED vars
  BY <1>9 DEF vars, outVars
<1> QED
  BY <1>3, <1>4, <1>5, <1>6, <1>7, <1>8, <1>9, StepCases

LEMMA ReadersKept ==
  ASSUME TypeOK, ReadersHold, NotAhead, CreatedBefore, [Next]_vars
  PROVE  ReadersHold'
<1> DEFINE Holds(c) ==
      /\ cpc[c] \in {"wait", "held", "ping", "relay", "name"} => via[c] \in Object
      /\ cpc[c] \in {"held", "ping"} => c \in olock[via[c]].readers /\ seen[c] = {outCfg[via[c]]}
      /\ seen[c] = {} \/ \E v \in Version : seen[c] = {v}
<1>1. SUFFICES ASSUME NEW c \in Conns
               PROVE  Holds(c)'
  BY DEF ReadersHold
<1>2. Holds(c)
  BY DEF ReadersHold
<1>3. /\ cpc \in [Conns -> {"new", "routing", "wait", "held", "ping", "relay", "name", "done"}]
      /\ via \in [Conns -> Object \cup {<<>>}] /\ seen \in [Conns -> SUBSET Version]
      /\ olock \in [Object -> Lock] /\ outCfg \in [Object -> Version]
  BY DEF TypeOK
<1>4. CASE LoopStep
  <2>1. cpc'[c] = cpc[c] /\ via'[c] = via[c] /\ seen'[c] = seen[c]
    BY <1>4 DEF LoopStep, connVars
  <2>2. ASSUME cpc[c] \in {"held", "ping"}
        PROVE  c \in olock'[via[c]].readers /\ outCfg'[via[c]] = outCfg[via[c]]
    <3>1. via[c] \in Object /\ c \in olock[via[c]].readers /\ outCfg[via[c]] >= via[c][2]
      BY <1>2, <2>2 DEF CreatedBefore
    <3>2. olock'[via[c]].readers = olock[via[c]].readers
      BY <1>4, <3>1 DEF LoopStep
    <3>3. outCfg'[via[c]] = outCfg[via[c]]
      BY <3>1, ReadIsStable
    <3> QED
      BY <3>1, <3>2, <3>3
  <2> QED
    BY <1>2, <2>1, <2>2
<1>5. ASSUME NEW d \in Conns, d # c,
             \/ Arrive(d) \/ Refuse(d) \/ Enter(d) \/ Leave(d) \/ AwaitPing(d)
             \/ Ping(d) \/ EndRelay(d) \/ Named(d)
             \/ \E n \in Outbounds : Dispatch(d, n)
      PROVE  Holds(c)'
  <2>1. cpc'[c] = cpc[c] /\ via'[c] = via[c] /\ seen'[c] = seen[c] /\ UNCHANGED outCfg
    BY <1>3, <1>5 DEF Arrive, Refuse, Enter, Leave, AwaitPing, Ping, EndRelay, Named, Dispatch, outVars
  <2>2. ASSUME NEW o \in Object, c \in olock[o].readers
        PROVE  c \in olock'[o].readers
    <3>1. olock[o] \in Lock
      BY <1>3
    <3>2. olock'[o] \in {olock[o], Reading(olock[o], d), NotReading(olock[o], d)}
      <4>1. CASE Enter(d) \/ Leave(d) \/ Ping(d)
        <5>1. \/ olock' = [olock EXCEPT ![via[d]] = Reading(olock[via[d]], d)]
              \/ olock' = [olock EXCEPT ![via[d]] = NotReading(olock[via[d]], d)]
          BY <4>1 DEF Enter, Leave, Ping
        <5> QED
          BY <1>3, <5>1
      <4>2. CASE UNCHANGED olock
        BY <4>2
      <4> QED
        BY <1>5, <4>1, <4>2 DEF Arrive, Refuse, AwaitPing, EndRelay, Named, Dispatch
    <3>3. /\ Reading(olock[o], d).readers = olock[o].readers \cup {d}
          /\ NotReading(olock[o], d).readers = olock[o].readers \ {d}
      BY <3>1 DEF Reading, NotReading, Lock
    <3> QED
      BY <1>5, <2>2, <3>2, <3>3
  <2> QED
    BY <1>2, <2>1, <2>2
<1>6. CASE Arrive(c) \/ Refuse(c) \/ EndRelay(c) \/ Named(c)
  BY <1>2, <1>3, <1>6 DEF Arrive, Refuse, EndRelay, Named
<1>7. ASSUME NEW n \in Outbounds, Dispatch(c, n)
      PROVE  Holds(c)'
  <2>1. <<n, routes[n]>> \in Object
    BY <1>7, ObjectFacts DEF Dispatch, TypeOK, Map
  <2>2. cpc'[c] = "wait" /\ via'[c] = <<n, routes[n]>> /\ seen'[c] = seen[c]
    BY <1>3, <1>7 DEF Dispatch
  <2> QED
    BY <1>2, <2>1, <2>2
<1>8. CASE AwaitPing(c)
  BY <1>2, <1>3, <1>8 DEF AwaitPing, outVars
<1>9. CASE Enter(c)
  <2>1. via[c] \in Object /\ olock[via[c]] \in Lock /\ outCfg[via[c]] \in Version
    BY <1>2, <1>3, <1>9 DEF Enter
  <2>2. /\ cpc'[c] = "held" /\ via'[c] = via[c] /\ seen'[c] = {outCfg[via[c]]}
        /\ olock'[via[c]] = Reading(olock[via[c]], c) /\ UNCHANGED outCfg
    BY <1>3, <1>9, <2>1 DEF Enter, outVars
  <2>3. c \in olock'[via[c]].readers
    <3>1. Reading(olock[via[c]], c).readers = olock[via[c]].readers \cup {c}
      BY <2>1 DEF Reading, Lock
    <3> QED
      BY <2>2, <3>1
  <2> QED
    BY <2>1, <2>2, <2>3
<1>10. CASE Leave(c)
  <2>1. via[c] \in Object /\ seen[c] = {outCfg[via[c]]}
    BY <1>2, <1>10 DEF Leave
  <2>2. cpc'[c] \in {"relay", "name"} /\ via'[c] = via[c] /\ seen'[c] = seen[c] \cup {outCfg[via[c]]}
    BY <1>3, <1>10 DEF Leave
  <2>3. seen'[c] = seen[c]
    BY <2>1, <2>2
  <2> QED
    BY <1>2, <2>1, <2>2, <2>3
<1>11. CASE Ping(c)
  BY <1>2, <1>3, <1>11 DEF Ping
<1>12. CASE UNCHANGED vars
  BY <1>2, <1>12 DEF vars, connVars, outVars
<1> QED
  BY <1>4, <1>5, <1>6, <1>7, <1>8, <1>9, <1>10, <1>11, <1>12, LoopSteps

-----------------------------------------------------------------------------
(***************************************************************************)
(* What an update that ran to its end leaves.                              *)
(***************************************************************************)
LEMMA ServicesKept ==
  ASSUME TypeOK, ReadersHold, ServicesLast, [Next]_vars
  PROVE  ServicesLast'
<1> USE DEF ServicesLast
<1>1. CASE WriteFile \/ ManualReload \/ TakeEvent
  BY <1>1 DEF WriteFile, ManualReload, TakeEvent, mapVars, svcVars, SvcOf, Known, Renewed
<1>2. CASE Load \/ BeginRouter \/ Commit
  BY <1>2 DEF Load, BeginRouter, Commit
<1>3. ASSUME NEW n \in Outbounds, BeginReload(n) \/ AddOutbound(n)
      PROVE  ServicesLast'
  BY <1>3 DEF BeginReload, AddOutbound
<1>4. ASSUME NEW o \in Object, ReloadOutbound(o)
      PROVE  ServicesLast'
  BY <1>4 DEF ReloadOutbound
<1>5. CASE UpdateRouter
  BY <1>5 DEF UpdateRouter
<1>6. ASSUME NEW n \in Services, UpdateService(n)
      PROVE  ServicesLast'
  <2>1. CASE rpc' \in {"select", "hung"}
    BY <2>1
  <2>2. CASE rpc' \notin {"select", "hung"}
    <3>1. /\ UNCHANGED <<root, rules, routes, newMap, svcMap>> /\ todo' = todo \ {n}
          /\ svc'[SvcOf(n)] = Renewed /\ rpc = "services"
      BY <1>6, <2>2, ServiceStep DEF mapVars, Renewed
    <3>2. \A m : SvcOf(m)' = SvcOf(m) /\ (m # n => SvcOf(m) # SvcOf(n))
      BY <3>1 DEF SvcOf, Known
    <3>3. ASSUME NEW m \in Files[root].svcs \ todo'
          PROVE  svc'[SvcOf(m)] = Renewed
      <4>1. CASE m = n
        BY <3>1, <4>1
      <4>2. CASE m # n
        <5>1. SvcOf(m) \in SvcObject
          <6>1. m \in Services /\ root \in Version
            BY FileFacts DEF TypeOK
          <6> QED
            BY <6>1, ObjectFacts DEF SvcOf, Known, TypeOK, Map
        <5>2. svc[SvcOf(m)] = Renewed
          BY <3>1, <3>3, <4>2
        <5> QED
          BY <1>6, <3>2, <4>2, <5>1, <5>2, ServiceStep
      <4> QED
        BY <4>1, <4>2
    <3>4. Renewed' = Renewed
      BY <3>1 DEF Renewed
    <3> QED
      BY <3>1, <3>2, <3>3, <3>4
  <2> QED
    BY <2>1, <2>2
<1>7. CASE ConnStep
  BY <1>7 DEF ConnStep, UpdateVars, mapVars, svcVars, SvcOf, Known, Renewed
<1>8. CASE UNCHANGED vars
  BY <1>8 DEF vars, mapVars, svcVars, SvcOf, Known, Renewed
<1> QED
  BY <1>1, <1>2, <1>3, <1>4, <1>5, <1>6, <1>7, <1>8, StepCases, ConnSteps

\* Commit settles; nothing but the next Load that succeeds unsettles.
LEMMA SettledKept ==
  ASSUME TypeOK, ReadersHold, OneWriter, MapGrows, MapIsNew, ServicesLast, Settled, [Next]_vars
  PROVE  Settled'
<1>1. root \in Version /\ root # Absent
  BY VersionFacts DEF TypeOK
<1>2. CASE UNCHANGED <<root, applied, mapVars, outVars, svcVars>>
  BY <1>2 DEF mapVars, outVars, svcVars, Settled, Renewed
<1>3. CASE rpc \notin {"select", "load"} /\ UNCHANGED <<root, applied>>
  BY <1>1, <1>3 DEF MapGrows, Settled
<1>4. CASE WriteFile \/ ManualReload \/ TakeEvent
  BY <1>2, <1>4 DEF WriteFile, ManualReload, TakeEvent
<1>5. CASE Load
  <2>1. CASE Files[disk].loads
    <3>1. applied' = Absent /\ root' \in Version
      BY <1>5, <2>1 DEF Load, TypeOK
    <3> QED
      BY <3>1, VersionFacts DEF Settled
  <2>2. CASE ~Files[disk].loads
    BY <1>2, <1>5, <2>2 DEF Load
  <2> QED
    BY <2>1, <2>2
<1>6. ASSUME NEW n \in Outbounds, BeginReload(n) \/ AddOutbound(n)
      PROVE  Settled'
  BY <1>3, <1>6 DEF BeginReload, AddOutbound
<1>7. ASSUME NEW o \in Object, ReloadOutbound(o)
      PROVE  Settled'
  BY <1>3, <1>7 DEF ReloadOutbound
<1>8. CASE BeginRouter \/ UpdateRouter
  BY <1>3, <1>8 DEF BeginRouter, UpdateRouter
<1>9. ASSUME NEW n \in Services, UpdateService(n)
      PROVE  Settled'
  BY <1>3, <1>9 DEF UpdateService
<1>10. CASE Commit
  <2>1. /\ rpc = "services" /\ todo = {} /\ outMap' = newMap
        /\ UNCHANGED <<root, routes, rules, outCfg, outKey, svc, olock>>
    BY <1>10 DEF Commit, outVars, svcVars
  <2>2. rules' = root' /\ routes' = outMap'
    BY <2>1 DEF ServicesLast
  <2>3. \A n \in Outbounds : (outMap'[n] # Absent) <=> (n \in Files[root'].outs)
    BY <2>1 DEF MapGrows
  <2>4. ASSUME NEW n \in Files[root'].outs
        PROVE  outCfg'[<<n, outMap'[n]>>] = root' /\ outKey'[<<n, outMap'[n]>>] = root'
    <3>1. n \in Outbounds
      BY <1>1, <2>1, FileFacts
    <3>2. newMap[n] # Absent /\ newMap \in Map(Outbounds)
      BY <2>1, <2>3, <3>1 DEF TypeOK
    <3>3. <<n, newMap[n]>> \in Object
      BY <3>1, <3>2, ObjectFacts DEF Map
    <3> QED
      BY <2>1, <3>1, <3>2, <3>3 DEF MapIsNew, OneWriter
  <2>5. ASSUME NEW n \in Files[root'].svcs
        PROVE  svcMap'[n] # Absent /\ svc'[<<n, svcMap'[n]>>] = Renewed'
    <3>1. n \in Services
      BY <1>1, <2>1, FileFacts
    <3>2. svcMap'[n] = (IF svcMap[n] # Absent THEN svcMap[n] ELSE root)
      BY <1>10, <2>1, <3>1 DEF Commit
    <3>3. <<n, svcMap'[n]>> = SvcOf(n) /\ svcMap'[n] # Absent
      BY <1>1, <3>2 DEF SvcOf, Known
    <3>4. svc[SvcOf(n)] = Renewed
      BY <2>1 DEF ServicesLast
    <3> QED
      BY <2>1, <3>3, <3>4 DEF Renewed
  <2> QED
    BY <2>2, <2>3, <2>4, <2>5 DEF Settled
<1>11. CASE ConnStep
  BY <1>2, <1>11 DEF ConnStep, UpdateVars
<1>12. CASE UNCHANGED vars
  BY <1>2, <1>12 DEF vars
<1> QED
  BY <1>4, <1>5, <1>6, <1>7, <1>8, <1>9, <1>10, <1>11, <1>12, StepCases, ConnSteps

-----------------------------------------------------------------------------
(***************************************************************************)
(* The theorems.                                                           *)
(***************************************************************************)
LEMMA Initially == Init => IInv
<1> SUFFICES ASSUME Init PROVE IInv
  OBVIOUS
<1>1. TypeOK
  BY TypeCorrectInit
<1>2. ReadersHold /\ CreatedBefore
  <2>1. <<>> \notin Object
    BY DEF Object
  <2> QED
    BY <2>1 DEF Init, ReadersHold, CreatedBefore
<1>3. OneWriter /\ MapGrows /\ MapIsNew /\ ServicesLast
  BY WriterFacts DEF Init, OneWriter, MapGrows, MapIsNew, ServicesLast
<1>4. NotAhead
  BY <1>1 DEF Init, First, NotAhead, Absent
<1>5. KeyNotOlder
  BY DEF Init, KeyNotOlder
<1>6. RoutedConsistently
  BY ObjectFacts, VersionFacts DEF Init, RoutedConsistently, First
<1>7. Settled
  <2>1. Files[1].outs \subseteq Outbounds /\ Files[1].svcs \subseteq Services /\ 1 # Absent
    BY VersionFacts, FileFacts
  <2>2. \A n \in Outbounds : outMap[n] = IF n \in Files[1].outs THEN 1 ELSE Absent
    BY DEF Init, First
  <2>3. \A n \in Files[1].outs : /\ outMap[n] = 1 /\ routes[n] = 1
                                 /\ outCfg[<<n, 1>>] = 1 /\ outKey[<<n, 1>>] = 1
    BY <2>1, <2>2, ObjectFacts, VersionFacts DEF Init
  <2>4. \A n \in Files[1].svcs : svcMap[n] = 1 /\ svc[<<n, 1>>] = Renewed
    BY <2>1, ObjectFacts, VersionFacts DEF Init, First, Renewed
  <2> QED
    BY <2>1, <2>2, <2>3, <2>4 DEF Init, Settled
<1> QED
  BY <1>1, <1>2, <1>3, <1>4, <1>5, <1>6, <1>7 DEF IInv

LEMMA Inductive == IInv /\ [Next]_vars => IInv'
BY TypeKept, ReadersKept, OneWriterKept, NotAheadKept, CreatedKept, MapGrowsKept, MapIsNewKept,
   ServicesKept, SettledKept, KeyKept, RoutedKept DEF IInv

LEMMA Invariant == Spec => []IInv
BY Initially, Inductive, PTL DEF Spec

\* The fields of the instance, the locks and the states of the connections keep their
\* types, wherever an update fails and whatever connections do meanwhile.
THEOREM ReloadTypeCorrect == Spec => []TypeOK
<1>1. IInv => TypeOK
  BY DEF IInv
<1> QED
  BY <1>1, Invariant, PTL

\* "Refresh secret before reload so dials after reload see the new key" (zbproxy.go): no
\* outbound or service ever has a config newer than its secret.
THEOREM SecretsFirst == Spec => []KeyNotOlder
<1>1. IInv => KeyNotOlder
  BY DEF IInv
<1> QED
  BY <1>1, Invariant, PTL

\* Router.UpdateConfig: whatever the router's map names is as new as the rules that use
\* the name, while updates fail half way and are repeated.
THEOREM RoutesAreConsistent == Spec => []RoutedConsistently
<1>1. IInv => RoutedConsistently
  BY DEF IInv
<1> QED
  BY <1>1, Invariant, PTL

\* UpdateConfig (zbproxy.go): an update that ran to its end leaves router, outbounds,
\* secrets and services at one version, and connections do not change that.
THEOREM UpdateSettles == Spec => []SettledConsistent
<1>1. IInv => SettledConsistent
  BY DEF IInv, Settled, Renewed, SettledConsistent
<1> QED
  BY <1>1, Invariant, PTL

\* The read lock of an outbound, from InjectConnection or the dial to its end: a
\* connection reads one version of the config, however long a reload waits.
THEOREM OneConfigSeen == Spec => []OneConfigPerConnection
<1>1. IInv => OneConfigPerConnection
  <2> SUFFICES ASSUME IInv, NEW c \in Conns
               PROVE  Cardinality(seen[c]) <= 1
    BY DEF OneConfigPerConnection
  <2>1. CASE seen[c] = {}
    BY <2>1, FS_EmptySet
  <2>2. ASSUME NEW v \in Version, seen[c] = {v}
        PROVE  Cardinality(seen[c]) <= 1
    BY <2>2, FS_Singleton
  <2> QED
    BY <2>1, <2>2 DEF IInv, ReadersHold
<1> QED
  BY <1>1, Invariant, PTL

\* No step replaces the config of an outbound while a connection is between taking and
\* releasing its lock.
WritesExcludeReaders ==
  \A c \in Conns : cpc[c] \in {"held", "ping"} => outCfg'[via[c]] = outCfg[via[c]]

\* Outbound.Reload against HandleConnection: neither a reload nor an object that is added
\* a second time writes what a connection is reading.
THEOREM WritersWait == Spec => [][WritesExcludeReaders]_vars
<1>1. IInv /\ [Next]_vars => [WritesExcludeReaders]_vars
  <2> SUFFICES ASSUME IInv, [Next]_vars, NEW c \in Conns, cpc[c] \in {"held", "ping"}
               PROVE  outCfg'[via[c]] = outCfg[via[c]]
    BY DEF WritesExcludeReaders
  <2>1. via[c] \in Object /\ olock[via[c]].readers # {} /\ outCfg[via[c]] >= via[c][2]
    BY DEF IInv, ReadersHold, CreatedBefore
  <2> QED
    BY <2>1, ReadIsStable DEF IInv
<1> QED
  BY <1>1, Invariant, PTL DEF Spec

-----------------------------------------------------------------------------
(***************************************************************************)
(* Deadlock: who waits for whom.                                           *)
(***************************************************************************)
\* A connection holds its outbound's lock, and the router's until then or, for a dial,
\* until the end of it and, if it failed, until the outbound has told its name.
LocksHeld == \A c \in Conns :
  /\ \A o \in Object : c \in olock[o].readers => cpc[c] \in {"held", "ping"} /\ via[c] = o
  /\ c \in rlock.readers =>
       \/ cpc[c] = "routing"
       \/ cpc[c] \in {"wait", "held", "name"} /\ via[c][1] \notin Injects

\* The loop waits for the readers of the lock it wants; a connection waits for the loop
\* to take, and release, the lock it wants itself.
LoopWaitsFor(c) ==
  \/ rpc = "lock" /\ \E o \in Object : olock[o].writer /\ c \in olock[o].readers
  \/ rpc = "router" /\ c \in rlock.readers

WaitsForLoop(c) ==
  \/ cpc[c] = "new" /\ ~CanRead(rlock)
  \/ cpc[c] \in {"wait", "name"} /\ ~CanRead(olock[via[c]])

NoCircularWait == \A c \in Conns : LoopWaitsFor(c) => ~WaitsForLoop(c)

LEMMA LocksHeldInit == Init => LocksHeld
BY DEF Init, LocksHeld, Unlocked

LEMMA LocksHeldKept ==
  ASSUME TypeOK, ReadersHold, LocksHeld, [Next]_vars
  PROVE  LocksHeld'
<1> DEFINE Held(c) ==
      /\ \A o \in Object : c \in olock[o].readers => cpc[c] \in {"held", "ping"} /\ via[c] = o
      /\ c \in rlock.readers =>
           cpc[c] = "routing" \/ (cpc[c] \in {"wait", "held", "name"} /\ via[c][1] \notin Injects)
<1>1. SUFFICES ASSUME NEW c \in Conns
               PROVE  Held(c)'
  BY DEF LocksHeld
<1>2. Held(c)
  BY DEF LocksHeld
<1>3. /\ cpc \in [Conns -> {"new", "routing", "wait", "held", "ping", "relay", "name", "done"}]
      /\ via \in [Conns -> Object \cup {<<>>}] /\ olock \in [Object -> Lock] /\ rlock \in Lock
      /\ cpc[c] \in {"wait", "held", "ping", "relay", "name"} => via[c] \in Object
  BY DEF TypeOK, ReadersHold
<1>4. CASE LoopStep
  <2>1. cpc'[c] = cpc[c] /\ via'[c] = via[c]
    BY <1>4 DEF LoopStep, connVars
  <2>2. \A o \in Object : olock'[o].readers = olock[o].readers
    BY <1>4 DEF LoopStep
  <2>3. rlock'.readers \subseteq rlock.readers
    BY <1>3, <1>4 DEF LoopStep
  <2> QED
    BY <1>2, <2>1, <2>2, <2>3
<1>5. ASSUME NEW d \in Conns, d # c,
             \/ Arrive(d) \/ Refuse(d) \/ Enter(d) \/ Leave(d) \/ AwaitPing(d)
             \/ Ping(d) \/ EndRelay(d) \/ Named(d)
             \/ \E n \in Outbounds : Dispatch(d, n)
      PROVE  Held(c)'
  <2>1. cpc'[c] = cpc[c] /\ via'[c] = via[c]
    BY <1>3, <1>5 DEF Arrive, Refuse, Enter, Leave, AwaitPing, Ping, EndRelay, Named, Dispatch
  <2>2. ASSUME NEW o \in Object, c \in olock'[o].readers
        PROVE  c \in olock[o].readers
    <3>1. olock'[o] \in {olock[o], Reading(olock[o], d), NotReading(olock[o], d)}
      <4>1. CASE Enter(d) \/ Leave(d) \/ Ping(d)
        <5>1. \/ olock' = [olock EXCEPT ![via[d]] = Reading(olock[via[d]], d)]
              \/ olock' = [olock EXCEPT ![via[d]] = NotReading(olock[via[d]], d)]
          BY <4>1 DEF Enter, Leave, Ping
        <5> QED
          BY <1>3, <5>1
      <4>2. CASE UNCHANGED olock
        BY <4>2
      <4> QED
        BY <1>5, <4>1, <4>2 DEF Arrive, Refuse, AwaitPing, EndRelay, Named, Dispatch
    <3>2. /\ Reading(olock[o], d).readers = olock[o].readers \cup {d}
          /\ NotReading(olock[o], d).readers = olock[o].readers \ {d}
      BY <1>3 DEF Reading, NotReading, Lock
    <3> QED
      BY <1>5, <2>2, <3>1, <3>2
  <2>3. rlock'.readers \subseteq rlock.readers \cup {d}
    BY <1>3, <1>5
    DEF Arrive, Refuse, Enter, Leave, AwaitPing, Ping, EndRelay, Named, Dispatch, Reading, NotReading, Lock
  <2> QED
    BY <1>2, <1>5, <2>1, <2>2, <2>3
<1>6. CASE Arrive(c) \/ Refuse(c)
  <2>1. \A o \in Object : c \notin olock'[o].readers
    BY <1>2, <1>6 DEF Arrive, Refuse
  <2>2. cpc'[c] = "routing" \/ c \notin rlock'.readers
    BY <1>3, <1>6 DEF Arrive, Refuse, NotReading, Lock
  <2> QED
    BY <2>1, <2>2
<1>7. ASSUME NEW n \in Outbounds, Dispatch(c, n)
      PROVE  Held(c)'
  <2>1. \A o \in Object : c \notin olock'[o].readers
    BY <1>2, <1>7 DEF Dispatch
  <2>2. cpc'[c] = "wait" /\ via'[c] = <<n, routes[n]>>
    BY <1>3, <1>7 DEF Dispatch
  <2>3. n \in Injects => c \notin rlock'.readers
    BY <1>3, <1>7 DEF Dispatch, NotReading, Lock
  <2> QED
    BY <2>1, <2>2, <2>3
<1>8. CASE Enter(c)
  <2>1. /\ cpc[c] = "wait" /\ cpc'[c] = "held" /\ via'[c] = via[c] /\ via[c] \in Object
        /\ olock' = [olock EXCEPT ![via[c]] = Reading(@, c)] /\ UNCHANGED rlock
    BY <1>3, <1>8 DEF Enter
  <2>2. \A o \in Object : o # via[c] => c \notin olock'[o].readers
    BY <1>2, <1>3, <2>1
  <2> QED
    BY <1>2, <2>1, <2>2
<1>9. CASE AwaitPing(c)
  <2>1. /\ cpc[c] = "held" /\ cpc'[c] = "ping" /\ via'[c] = via[c] /\ via[c][1] \in Injects
        /\ UNCHANGED <<olock, rlock>>
    BY <1>3, <1>9 DEF AwaitPing
  <2> QED
    BY <1>2, <2>1
<1>10. CASE Leave(c) \/ Ping(c)
  <2>1. /\ cpc[c] \in {"held", "ping"} /\ via[c] \in Object
        /\ olock' = [olock EXCEPT ![via[c]] = NotReading(@, c)]
    BY <1>3, <1>10 DEF Leave, Ping
  <2>2. \A o \in Object : c \notin olock'[o].readers
    <3>1. NotReading(olock[via[c]], c).readers = olock[via[c]].readers \ {c}
      BY <1>3, <2>1 DEF NotReading, Lock
    <3> QED
      BY <1>2, <1>3, <2>1, <3>1
  <2>3. c \in rlock'.readers => cpc'[c] = "name" /\ c \in rlock.readers /\ via'[c] = via[c]
    BY <1>2, <1>3, <1>10 DEF Leave, Ping, NotReading, Lock
  <2>4. c \in rlock.readers => via[c][1] \notin Injects
    BY <1>2, <2>1
  <2> QED
    BY <2>2, <2>3, <2>4
<1>11. CASE EndRelay(c)
  BY <1>2, <1>3, <1>11 DEF EndRelay
<1>12. CASE Named(c)
  <2>1. c \notin rlock'.readers /\ UNCHANGED olock /\ cpc[c] = "name"
    BY <1>3, <1>12 DEF Named, NotReading, Lock
  <2> QED
    BY <1>2, <2>1
<1>13. CASE UNCHANGED vars
  BY <1>2, <1>13 DEF vars, connVars
<1> QED
  BY <1>4, <1>5, <1>6, <1>7, <1>8, <1>9, <1>10, <1>11, <1>12, <1>13, LoopSteps

\* UpdateConfig takes the locks of outbounds and router while connections hold them, and
\* a writer that waits keeps new readers out; still the loop never waits for a connection
\* that waits for the loop: it wants one lock at a time, and holds none.
THEOREM LoopNeverDeadlocks == Spec => []NoCircularWait
<1>1. IInv /\ LocksHeld /\ [Next]_vars => LocksHeld'
  BY LocksHeldKept DEF IInv
<1>2. IInv /\ LocksHeld => NoCircularWait
  <2> SUFFICES ASSUME IInv, LocksHeld, NEW c \in Conns, LoopWaitsFor(c), WaitsForLoop(c)
               PROVE  FALSE
    BY DEF NoCircularWait
  <2>1. CASE rpc = "lock"
    <3>1. cpc[c] \in {"held", "ping"}
      BY <2>1 DEF LoopWaitsFor, LocksHeld
    <3> QED
      BY <3>1 DEF WaitsForLoop
  <2>2. CASE rpc = "router" /\ c \in rlock.readers
    <3>1. cpc[c] \in {"routing", "wait", "held", "name"}
      BY <2>2 DEF LocksHeld
    <3>2. cpc[c] \in {"wait", "name"} /\ olock[via[c]].writer /\ via[c] \in Object
      BY <3>1 DEF WaitsForLoop, CanRead, IInv, ReadersHold
    <3> QED
      BY <2>2, <3>2 DEF IInv, OneWriter
  <2> QED
    BY <2>1, <2>2 DEF LoopWaitsFor
<1> QED
  BY <1>1, <1>2, LocksHeldInit, Invariant, PTL DEF Spec

-----------------------------------------------------------------------------
(***************************************************************************)
(* What FileTakesEffect and ConnectionsProceed rest on.                    *)
(***************************************************************************)
\* The lock of the router, and one of an outbound, are wanted at one label each.
WritersInside ==
  /\ rlock.writer <=> rpc = "router"
  /\ rpc = "lock" <=> \E o \in Object : olock[o].writer

\* The guards of the loop, label by label; a loop over names has something to visit or
\* nothing left.
LoopMoves ==
  \/ rpc = "load"
  \/ rpc = "outbounds" /\ (todo = {} \/ \E n \in Outbounds : n \in todo)
  \/ rpc = "lock" /\ \E o \in Object : MayWrite(olock[o])
  \/ rpc = "router" /\ MayWrite(rlock)
  \/ rpc = "services" /\ (todo = {} \/ \E n \in Services : n \in todo)

\* Between two selects the loop can step, or waits for a connection inside the lock that
\* it wants, one that does not wait for the loop; unless a service hangs in its Close.
OnlyReadersDelay ==
  rpc \notin {"select", "hung"} => LoopMoves \/ \E c \in Conns : LoopWaitsFor(c) /\ ~WaitsForLoop(c)

\* What the file says and no event announces is in Root, unless it does not parse.
NoEditIsMissed == ~event /\ rpc # "load" => root = disk \/ ~Files[disk].loads

\* Versions never go back, whatever is interrupted and repeated.
NothingGoesBack ==
  /\ root <= root' /\ rules <= rules'
  /\ \A o \in Object : outCfg[o] <= outCfg'[o] /\ outKey[o] <= outKey'[o]
  /\ \A s \in SvcObject : svc[s].cfg <= svc'[s].cfg /\ svc[s].key <= svc'[s].key

LEMMA WritersInsideKept ==
  ASSUME TypeOK, ReadersHold, OneWriter, WritersInside, [Next]_vars
  PROVE  WritersInside'
<1> USE DEF WritersInside
<1>1. /\ rlock \in Lock /\ olock \in [Object -> Lock] /\ \A o \in Object : olock[o] \in Lock
  BY DEF TypeOK
<1>2. CASE WriteFile \/ ManualReload \/ TakeEvent \/ Load \/ Commit
  BY <1>2 DEF WriteFile, ManualReload, TakeEvent, Load, Commit
<1>3. CASE BeginRouter \/ UpdateRouter
  BY <1>1, <1>3, WriterFacts DEF BeginRouter, UpdateRouter
<1>4. ASSUME NEW n \in Outbounds, BeginReload(n)
      PROVE  WritersInside'
  <2>1. <<n, outMap[n]>> \in Object
    BY <1>4, ObjectFacts DEF BeginReload, TypeOK, Map
  <2>2. olock'[<<n, outMap[n]>>].writer
    BY <1>1, <1>4, <2>1, WriterFacts DEF BeginReload
  <2> QED
    BY <1>4, <2>1, <2>2 DEF BeginReload
<1>5. ASSUME NEW n \in Outbounds, AddOutbound(n)
      PROVE  WritersInside'
  BY <1>5 DEF AddOutbound
<1>6. ASSUME NEW o \in Object, ReloadOutbound(o)
      PROVE  WritersInside'
  <2>1. olock[o].writer /\ rpc = "lock" /\ rpc' \in {"select", "outbounds"} /\ rlock' = rlock
    BY <1>6 DEF ReloadOutbound, MayWrite
  <2>2. \A p \in Object : ~olock'[p].writer
    <3>1. \A p \in Object : p # o => ~olock[p].writer /\ olock'[p] = olock[p]
      BY <1>1, <1>6, <2>1 DEF ReloadOutbound, OneWriter
    <3>2. olock'[o] = Unlocked
      BY <1>1, <1>6 DEF ReloadOutbound
    <3> QED
      BY <3>1, <3>2, WriterFacts
  <2> QED
    BY <2>1, <2>2
<1>7. ASSUME NEW n \in Services, UpdateService(n)
      PROVE  WritersInside'
  <2>1. rpc = "services" /\ rpc' \in {"select", "hung", "services"} /\ UNCHANGED <<rlock, olock>>
    BY <1>7, ServiceStep
  <2> QED
    BY <2>1
<1>8. CASE ConnStep /\ rlock'.writer = rlock.writer
  BY <1>8 DEF ConnStep, UpdateVars
<1>9. ASSUME NEW c \in Conns,
             \/ Arrive(c) \/ Refuse(c) \/ Enter(c) \/ Leave(c) \/ AwaitPing(c)
             \/ Ping(c) \/ EndRelay(c) \/ Named(c)
             \/ \E n \in Outbounds : Dispatch(c, n)
      PROVE  rlock'.writer = rlock.writer
  BY <1>1, <1>9, LockFacts
  DEF Arrive, Refuse, Enter, Leave, AwaitPing, Ping, EndRelay, Named, Dispatch
<1>10. CASE UNCHANGED vars
  BY <1>10 DEF vars
<1> QED
  BY <1>2, <1>3, <1>4, <1>5, <1>6, <1>7, <1>8, <1>9, <1>10, StepCases, ConnSteps

\* Outbound.Reload and Router.UpdateConfig release what they lock on every way out, errors
\* included (their deferred Unlocks), so that no lock keeps connections out once the loop
\* is back at its select.
THEOREM LocksAreReleased == Spec => []WritersInside
<1>1. Init => WritersInside
  BY WriterFacts DEF Init, WritersInside
<1> QED
  BY <1>1, WritersInsideKept, Invariant, PTL DEF Spec, IInv

\* A reload is held up by connections that are inside the lock it wants, and by nothing
\* else: not by a connection that waits for the reload, nor by names it cannot visit.
THEOREM LoopIsNeverStuck == Spec => []OnlyReadersDelay
<1>1. IInv /\ LocksHeld /\ WritersInside /\ NoCircularWait => OnlyReadersDelay
  <2> SUFFICES ASSUME IInv, LocksHeld, WritersInside, NoCircularWait, rpc \notin {"select", "hung"}, ~LoopMoves
               PROVE  \E c \in Conns : LoopWaitsFor(c)
    BY DEF OnlyReadersDelay, NoCircularWait
  <2>1. rpc \in {"outbounds", "lock", "router", "services"} /\ root \in Version
    BY DEF IInv, TypeOK, LoopMoves
  <2>2. CASE rpc = "outbounds"
    <3>1. todo \subseteq Outbounds
      BY <2>1, <2>2, FileFacts DEF IInv, MapGrows
    <3> QED
      BY <2>2, <3>1 DEF LoopMoves
  <2>3. CASE rpc = "services"
    <3>1. todo \subseteq Services
      BY <2>1, <2>3, FileFacts DEF IInv, ServicesLast
    <3> QED
      BY <2>3, <3>1 DEF LoopMoves
  <2>4. CASE rpc = "lock"
    <3>1. PICK o \in Object : olock[o].writer
      BY <2>4 DEF WritersInside
    <3>2. olock[o].readers # {} /\ olock[o].readers \subseteq Conns
      BY <2>4, <3>1 DEF LoopMoves, MayWrite, IInv, TypeOK, Lock
    <3> QED
      BY <2>4, <3>1, <3>2 DEF LoopWaitsFor
  <2>5. CASE rpc = "router"
    <3>1. rlock.readers # {} /\ rlock.readers \subseteq Conns
      BY <2>5 DEF LoopMoves, MayWrite, WritersInside, IInv, TypeOK, Lock
    <3> QED
      BY <2>5, <3>1 DEF LoopWaitsFor
  <2> QED
    BY <2>1, <2>2, <2>3, <2>4, <2>5
<1>2. IInv /\ LocksHeld /\ [Next]_vars => LocksHeld'
  BY LocksHeldKept DEF IInv
<1>3. Spec => []LocksHeld
  BY <1>2, LocksHeldInit, Invariant, PTL DEF Spec
<1> QED
  BY <1>1, <1>3, LocksAreReleased, LoopNeverDeadlocks, Invariant, PTL

LEMMA NoEditIsMissedKept ==
  ASSUME TypeOK, ReadersHold, NoEditIsMissed, [Next]_vars
  PROVE  NoEditIsMissed'
<1> USE DEF NoEditIsMissed
<1>1. CASE WriteFile \/ TakeEvent \/ ManualReload
  BY <1>1 DEF WriteFile, TakeEvent, ManualReload
<1>2. CASE Load
  BY <1>2 DEF Load, fileVars
<1>3. CASE BeginRouter \/ UpdateRouter \/ Commit
  BY <1>3 DEF BeginRouter, UpdateRouter, Commit, fileVars
<1>4. CASE \E n \in Outbounds : BeginReload(n) \/ AddOutbound(n)
  BY <1>4 DEF BeginReload, AddOutbound, fileVars
<1>5. CASE \E o \in Object : ReloadOutbound(o)
  BY <1>5 DEF ReloadOutbound, fileVars
<1>6. ASSUME NEW n \in Services, UpdateService(n)
      PROVE  NoEditIsMissed'
  <2>1. rpc = "services" /\ UNCHANGED <<fileVars, root>>
    BY <1>6, ServiceStep
  <2> QED
    BY <2>1 DEF fileVars
<1>7. CASE ConnStep
  BY <1>7 DEF ConnStep, UpdateVars, fileVars
<1>8. CASE UNCHANGED vars
  BY <1>8 DEF vars, fileVars
<1> QED
  BY <1>1, <1>2, <1>3, <1>4, <1>5, <1>6, <1>7, <1>8, StepCases, ConnSteps

\* The watcher merges events, the loop is deaf while it updates, updates fail half way:
\* still a version that parses is in Root, or an event or a load that will bring it there
\* is on its way (root.go, reloadEventLoop).
THEOREM NoEditGoesMissing == Spec => []NoEditIsMissed
<1>1. Init => NoEditIsMissed
  BY DEF Init, NoEditIsMissed
<1> QED
  BY <1>1, NoEditIsMissedKept, Invariant, PTL DEF Spec, IInv

\* An event that comes late, a manual reload and a repeated update never bring an older
\* version back: not to Root, the rules, an outbound, a secret or a service.
THEOREM VersionsOnlyGrow == Spec => [][NothingGoesBack]_vars
<1>1. IInv /\ IInv' /\ [Next]_vars => [NothingGoesBack]_vars
  <2> SUFFICES ASSUME IInv, IInv', [Next]_vars PROVE NothingGoesBack
    OBVIOUS
  <2> USE DEF IInv
  <2>0. \A i, j \in Nat : i <= i /\ (i <= j \/ i > j)
    OBVIOUS
  <2>1. /\ root \in Nat /\ rules \in Nat /\ disk \in Nat /\ root <= disk /\ rules <= root
        /\ \A o \in Object : outCfg[o] \in Nat /\ outKey[o] \in Nat
        /\ \A o \in Object : outCfg[o] <= root /\ outKey[o] <= root
        /\ \A s \in SvcObject : svc[s].cfg \in Nat /\ svc[s].key \in Nat
        /\ \A s \in SvcObject : svc[s].cfg <= root /\ svc[s].key <= root
    BY NumberFacts DEF NotAhead
  <2>2. root' \in {root, disk} /\ rules' \in {rules, root}
    <3>1. CASE \E n \in Services : UpdateService(n)
      BY <3>1, ServiceStep DEF mapVars
    <3>2. CASE ConnStep \/ UNCHANGED vars
      BY <3>2 DEF ConnStep, UpdateVars, vars, mapVars
    <3> QED
      BY <3>1, <3>2, StepCases, ConnSteps
      DEF WriteFile, ManualReload, TakeEvent, Load, BeginRouter, UpdateRouter, Commit, BeginReload,
          AddOutbound, ReloadOutbound, mapVars
  <2>3. ASSUME NEW o \in Object
        PROVE  outCfg'[o] \in {outCfg[o], root} /\ outKey'[o] \in {outKey[o], root}
    <3>1. CASE \E n \in Outbounds : BeginReload(n) \/ AddOutbound(n)
      BY <3>1 DEF BeginReload, RefreshKey, AddOutbound, TypeOK
    <3>2. CASE \E p \in Object : ReloadOutbound(p)
      BY <3>2 DEF ReloadOutbound, TypeOK
    <3>3. CASE UNCHANGED outVars
      BY <3>3 DEF outVars
    <3> QED
      BY <3>1, <3>2, <3>3, StepCases, ConnSteps, ServiceStep
      DEF WriteFile, ManualReload, TakeEvent, Load, BeginRouter, UpdateRouter, Commit, ConnStep,
          UpdateVars, vars
  <2>4. ASSUME NEW s \in SvcObject
        PROVE  svc'[s].cfg \in {svc[s].cfg, root} /\ svc'[s].key \in {svc[s].key, root}
    <3>1. CASE \E n \in Services : UpdateService(n)
      BY <3>1, ServiceStep
    <3>2. CASE ConnStep \/ UNCHANGED vars
      BY <3>2 DEF ConnStep, UpdateVars, vars, svcVars
    <3> QED
      BY <3>1, <3>2, StepCases, ConnSteps
      DEF WriteFile, ManualReload, TakeEvent, Load, BeginRouter, UpdateRouter, Commit, BeginReload,
          AddOutbound, ReloadOutbound, svcVars
  <2>5. root <= root' /\ rules <= rules'
    BY <2>1, <2>2
  <2>6. \A o \in Object : outCfg[o] <= outCfg'[o] /\ outKey[o] <= outKey'[o]
    BY <2>0, <2>1, <2>3
  <2>7. \A s \in SvcObject : svc[s].cfg <= svc'[s].cfg /\ svc[s].key <= svc'[s].key
    BY <2>0, <2>1, <2>4
  <2> QED
    BY <2>5, <2>6, <2>7 DEF NothingGoesBack
<1> QED
  BY <1>1, Invariant, PTL DEF Spec

\* How far an update has come; "lock" belongs to the outbounds.
Phase == CASE rpc \in {"outbounds", "lock"} -> 3 [] rpc = "router" -> 2 [] rpc = "services" -> 1
           [] OTHER -> 0

\* A step of UpdateConfig goes on to a later phase, takes a name off the list it visits,
\* or finishes the reload of the outbound it has taken off; nobody else touches either,
\* except to begin a load.
VisitsOnce ==
  \/ Phase' < Phase
  \/ rpc' \in {rpc, "lock"} /\ todo' \subseteq todo /\ todo' # todo /\ Phase' = Phase
  \/ rpc = "lock" /\ rpc' = "outbounds" /\ todo' = todo
UpdateAdvances ==
  /\ UpdateConfig => VisitsOnce
  /\ ~Loop /\ ~ManualReload => UNCHANGED <<rpc, todo>>

\* UpdateConfig visits each name of a version once in each of its loops, however long it
\* waits for locks in between and whatever connections do: with LoopIsNeverStuck, why a
\* version of finitely many names is applied, or refused, in finitely many steps.
THEOREM UpdateVisitsOnce == Spec => [][UpdateAdvances]_vars
<1>1. IInv /\ [Next]_vars => [UpdateAdvances]_vars
  <2> SUFFICES ASSUME IInv, [Next]_vars PROVE UpdateAdvances
    OBVIOUS
  <2>1. ASSUME UpdateConfig PROVE VisitsOnce
    <3>1. CASE \E n \in Outbounds : BeginReload(n) \/ AddOutbound(n)
      <4>1. PICK n \in Outbounds : BeginReload(n) \/ AddOutbound(n)
        BY <3>1
      <4>2. /\ rpc = "outbounds" /\ rpc' \in {rpc, "lock"} /\ n \in todo /\ todo' = todo \ {n}
        BY <4>1 DEF BeginReload, AddOutbound
      <4>3. todo' \subseteq todo /\ todo' # todo
        BY <4>2
      <4>4. Phase' = Phase
        BY <4>2 DEF Phase
      <4> QED
        BY <4>2, <4>3, <4>4 DEF VisitsOnce
    <3>2. CASE \E o \in Object : ReloadOutbound(o)
      BY <3>2 DEF ReloadOutbound, VisitsOnce, Phase
    <3>3. CASE BeginRouter
      BY <3>3 DEF BeginRouter, VisitsOnce, Phase
    <3>4. CASE UpdateRouter
      BY <3>4 DEF UpdateRouter, VisitsOnce, Phase
    <3>5. CASE Commit
      BY <3>5 DEF Commit, VisitsOnce, Phase
    <3>6. ASSUME NEW n \in Services, UpdateService(n)
          PROVE  VisitsOnce
      <4>1. /\ rpc = "services" /\ n \in todo
            /\ rpc' \in {"select", "hung"} \/ (rpc' = "services" /\ todo' = todo \ {n})
        BY <3>6, ServiceStep DEF IInv
      <4>2. CASE rpc' \in {"select", "hung"}
        BY <4>1, <4>2 DEF VisitsOnce, Phase
      <4>3. CASE rpc' = "services" /\ todo' = todo \ {n}
        <5>1. todo' \subseteq todo /\ todo' # todo
          BY <4>1, <4>3
        <5> QED
          BY <4>1, <4>3, <5>1 DEF VisitsOnce, Phase
      <4> QED
        BY <4>1, <4>2, <4>3
    <3> QED
      BY <2>1, <3>1, <3>2, <3>3, <3>4, <3>5, <3>6 DEF UpdateConfig
  <2>2. ASSUME ~Loop, ~ManualReload PROVE UNCHANGED <<rpc, todo>>
    <3>1. CASE WriteFile \/ UNCHANGED vars
      BY <3>1 DEF WriteFile, vars
    <3>2. CASE ConnStep
      BY <3>2 DEF ConnStep, UpdateVars
    <3> QED
      BY <2>2, <3>1, <3>2, ConnSteps DEF Next, Handle, IInv
  <2> QED
    BY <2>1, <2>2 DEF UpdateAdvances
<1> QED
  BY <1>1, Invariant, PTL DEF Spec
=============================================================================
