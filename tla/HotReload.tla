------------------------------ MODULE HotReload ------------------------------
(***************************************************************************)
(* Hot reload while connections are being handled: the reload loop of      *)
(* config/root.go, Instance.UpdateConfig of zbproxy.go, the Reload of      *)
(* outbounds and services, Router.UpdateConfig, and the connections that   *)
(* hold the router's and the outbounds' read locks meanwhile               *)
(* (route/router.go, protocol/outbound.go, protocol/minecraft/outbound.go).*)
(*                                                                         *)
(* The content of the configuration file goes through the versions Files.  *)
(* An outbound or service object is named by its name and by the version   *)
(* that created it; a map from names to objects gives the creating version *)
(* of each name, or Absent; a name added again by a repeated load of one   *)
(* version counts as one object.  The model starts when Instance.Start has *)
(* returned with version 1 in force.                                       *)
(***************************************************************************)
EXTENDS Integers, Sequences, FiniteSets

CONSTANTS
  Outbounds, Services,  \* names
  Injects,              \* the outbounds that are Minecraft outbounds
  Conns,                \* connections handed to Router.HandleConnection
  Silent,               \* those whose client asks for the status and never pings
  Files,                \* the versions of the file, in the order they are written
  ListenFailures        \* bound: how often opening a port fails

\* What a version says: whether it parses; its outbounds, and those that
\* PostInitialize refuses; whether its rules are in order; its services, those
\* whose Start refuses the configuration, and those with a tunnel port.
File == [loads : BOOLEAN, outs : SUBSET Outbounds, refused : SUBSET Outbounds,
         rules : BOOLEAN, svcs : SUBSET Services, bad : SUBSET Services,
         tunnels : SUBSET Services]

ASSUME ReloadAssumption ==
  /\ Injects \subseteq Outbounds /\ Silent \subseteq Conns
  /\ Files \in Seq(File) /\ Files # <<>>
  /\ Files[1].loads /\ Files[1].rules /\ Files[1].refused = {} /\ Files[1].bad = {}
  /\ ListenFailures \in Nat

Version == 1 .. Len(Files)
Last == Len(Files)
Absent == 0
Map(names) == [names -> Version \cup {Absent}]

VARIABLES
  disk,       \* version in the file
  event,      \* the watcher has an event for the loop
  root,       \* version in Root
  applied,    \* history: the version in Root, once UpdateConfig has run to its end
  rpc,        \* the reload loop: "select", "load", "outbounds", "lock", "router",
              \* "services", or "hung" in the Close of a service
  todo,       \* names the current loop of UpdateConfig has still to visit
  newMap,     \* newOutboundMap or newServiceMap
  outMap, svcMap,   \* Instance.outboundMap, Instance.serviceMap
  routes,     \* Router.outboundMap
  rules,      \* version of the router's rules and lists
  rlock,      \* the router's RWMutex, and
  olock,      \* each outbound's: readers, and whether a writer is waiting
  outCfg, outKey,       \* version of each outbound object's config and secret
  svc,        \* each service object: run, cfg, key and lists
  failures,   \* ports that could not be opened so far
  cpc,        \* each connection: "new", "routing", "wait" for the outbound's
              \* lock, "held", "ping", "relay", "name" or "done"
  via,        \* the outbound object that serves it
  seen        \* history: the versions of the outbound's config it has read

fileVars == <<disk, event>>
mapVars == <<outMap, svcMap, routes, rules>>
outVars == <<outCfg, outKey>>
svcVars == <<svc, failures>>
connVars == <<cpc, via, seen>>
vars == <<fileVars, root, applied, rpc, todo, newMap, mapVars, rlock, olock, outVars,
          svcVars, connVars>>

Object == Outbounds \X Version
SvcObject == Services \X Version
Unlocked == [readers |-> {}, writer |-> FALSE]
First(names, file) == [n \in names |-> IF n \in file THEN 1 ELSE Absent]

Init ==
  /\ disk = 1 /\ event = FALSE /\ root = 1 /\ applied = 1
  /\ rpc = "select" /\ todo = {} /\ newMap = <<>>
  /\ outMap = First(Outbounds, Files[1].outs)
  /\ svcMap = First(Services, Files[1].svcs)
  /\ routes = outMap /\ rules = 1
  /\ rlock = Unlocked /\ olock = [o \in Object |-> Unlocked]
  /\ outCfg = [o \in Object |-> 1] /\ outKey = [o \in Object |-> 1]
  /\ svc = [s \in SvcObject |->
              [run |-> s[2] = svcMap[s[1]], cfg |-> 1, key |-> 1, lists |-> 1]]
  /\ failures = 0
  /\ cpc = [c \in Conns |-> "new"]
  /\ via = [c \in Conns |-> <<>>]
  /\ seen = [c \in Conns |-> {}]

-----------------------------------------------------------------------------
(***************************************************************************)
(* sync.RWMutex: a writer that waits keeps new readers out.                *)
(***************************************************************************)
CanRead(lock) == ~lock.writer
Reading(lock, c) == [lock EXCEPT !.readers = @ \cup {c}]
NotReading(lock, c) == [lock EXCEPT !.readers = @ \ {c}]
Waiting(lock) == [lock EXCEPT !.writer = TRUE]
MayWrite(lock) == lock.writer /\ lock.readers = {}

-----------------------------------------------------------------------------
(***************************************************************************)
(* reloadEventLoop.                                                        *)
(***************************************************************************)
\* Someone saves the file; the watcher merges events nobody has taken yet.
WriteFile ==
  /\ disk < Last
  /\ disk' = disk + 1 /\ event' = TRUE
  /\ UNCHANGED <<root, applied, rpc, todo, newMap, mapVars, rlock, olock, outVars, svcVars,
                 connVars>>

TakeEvent ==
  /\ rpc = "select" /\ event
  /\ event' = FALSE /\ rpc' = "load"
  /\ UNCHANGED <<disk, root, applied, todo, newMap, mapVars, rlock, olock, outVars, svcVars,
                 connVars>>

\* Root.Reload hands over its request only when the loop is at its select.
ManualReload ==
  /\ rpc = "select"
  /\ rpc' = "load"
  /\ UNCHANGED <<fileVars, root, applied, todo, newMap, mapVars, rlock, olock, outVars,
                 svcVars, connVars>>

\* loadContent and the assignment to Root; UpdateConfig follows.
Load ==
  /\ rpc = "load"
  /\ IF Files[disk].loads
     THEN /\ root' = disk /\ applied' = Absent /\ rpc' = "outbounds"
          /\ todo' = Files[disk].outs /\ newMap' = First(Outbounds, {})
     ELSE rpc' = "select" /\ UNCHANGED <<root, applied, todo, newMap>>
  /\ UNCHANGED <<fileVars, mapVars, rlock, olock, outVars, svcVars, connVars>>

-----------------------------------------------------------------------------
(***************************************************************************)
(* UpdateConfig.  Every error returns to the select at once and leaves     *)
(* what was done before it.                                                *)
(***************************************************************************)
\* Mutant: the secret of a known outbound is not refreshed.
RefreshKey_Never(o) == UNCHANGED outKey

RefreshKey(o) == outKey' = [outKey EXCEPT ![o] = root]

\* A known outbound: its secret first, then Reload, which wants its lock.
BeginReload(n) ==
  /\ rpc = "outbounds" /\ n \in todo /\ outMap[n] # Absent
  /\ RefreshKey(<<n, outMap[n]>>)
  /\ olock' = [olock EXCEPT ![<<n, outMap[n]>>] = Waiting(@)]
  /\ rpc' = "lock" /\ todo' = todo \ {n}
  /\ newMap' = [newMap EXCEPT ![n] = outMap[n]]
  /\ UNCHANGED <<fileVars, root, applied, mapVars, rlock, outCfg, svcVars, connVars>>

\* Mutants: an error leaves the old config and is not noticed; an error returns
\* with the lock held.
ReloadOutbound_Ignored(o) ==
  /\ rpc = "lock" /\ MayWrite(olock[o])
  /\ outCfg' = [outCfg EXCEPT ![o] = IF o[1] \in Files[root].refused THEN @ ELSE root]
  /\ olock' = [olock EXCEPT ![o] = Unlocked]
  /\ rpc' = "outbounds"
  /\ UNCHANGED <<fileVars, root, applied, todo, newMap, mapVars, rlock, outKey, svcVars,
                 connVars>>

ReloadOutbound_KeepsLock(o) ==
  /\ rpc = "lock" /\ MayWrite(olock[o])
  /\ outCfg' = [outCfg EXCEPT ![o] = root]
  /\ olock' = [olock EXCEPT ![o] = IF o[1] \in Files[root].refused THEN @ ELSE Unlocked]
  /\ rpc' = IF o[1] \in Files[root].refused THEN "select" ELSE "outbounds"
  /\ UNCHANGED <<fileVars, root, applied, todo, newMap, mapVars, rlock, outKey, svcVars,
                 connVars>>

\* Reload and PostInitialize under the lock; the selector is another module's.
ReloadOutbound(o) ==
  /\ rpc = "lock" /\ MayWrite(olock[o])
  /\ outCfg' = [outCfg EXCEPT ![o] = root]
  /\ olock' = [olock EXCEPT ![o] = Unlocked]
  /\ rpc' = IF o[1] \in Files[root].refused THEN "select" ELSE "outbounds"
  /\ UNCHANGED <<fileVars, root, applied, todo, newMap, mapVars, rlock, outKey, svcVars,
                 connVars>>

\* A name the instance does not know: a new object, without PostInitialize.
AddOutbound(n) ==
  /\ rpc = "outbounds" /\ n \in todo /\ outMap[n] = Absent
  /\ outCfg' = [outCfg EXCEPT ![<<n, root>>] = root]
  /\ outKey' = [outKey EXCEPT ![<<n, root>>] = root]
  /\ newMap' = [newMap EXCEPT ![n] = root]
  /\ todo' = todo \ {n}
  /\ UNCHANGED <<fileVars, root, applied, rpc, mapVars, rlock, olock, svcVars, connVars>>

\* Router.UpdateConfig waits for the router's lock, then replaces all or nothing.
BeginRouter ==
  /\ rpc = "outbounds" /\ todo = {}
  /\ rlock' = Waiting(rlock) /\ rpc' = "router"
  /\ UNCHANGED <<fileVars, root, applied, todo, newMap, mapVars, olock, outVars, svcVars,
                 connVars>>

UpdateRouter ==
  /\ rpc = "router" /\ MayWrite(rlock)
  /\ rlock' = Unlocked
  /\ IF Files[root].rules
     THEN /\ routes' = newMap /\ rules' = root
          /\ rpc' = "services" /\ todo' = Files[root].svcs
     ELSE rpc' = "select" /\ UNCHANGED <<routes, rules, todo>>
  /\ UNCHANGED <<fileVars, root, applied, newMap, outMap, svcMap, olock, outVars, svcVars,
                 connVars>>

\* The service a version names: the object the instance knows, or a new one.
Known(n) == svcMap[n] # Absent
SvcOf(n) == <<n, IF Known(n) THEN svcMap[n] ELSE root>>

\* Its port is held by an object that was removed, which nothing closes, or that an
\* update which failed later had started.
PortTaken(n) == \E t \in SvcObject :
  t[1] = n /\ (Known(n) => t # SvcOf(n)) /\ svc[t].run

\* Start fails on what the version says, or opening the port fails: the port is taken,
\* or for a reason outside the program.  An object the same version started before
\* runs on.
StartFails(n) ==
  /\ n \in Files[root].bad \/ PortTaken(n) \/ failures < ListenFailures
  /\ failures' = IF n \in Files[root].bad \/ PortTaken(n) THEN failures ELSE failures + 1
  /\ svc' = [svc EXCEPT ![SvcOf(n)] = [run |-> ~Known(n) /\ svc[SvcOf(n)].run,
                                      cfg |-> root, key |-> root, lists |-> rules]]
  /\ rpc' = "select" /\ UNCHANGED todo

Started(n) ==
  /\ n \notin Files[root].bad /\ ~PortTaken(n)
  /\ svc' = [svc EXCEPT ![SvcOf(n)] = [run |-> TRUE, cfg |-> root, key |-> root,
                                      lists |-> rules]]
  /\ todo' = todo \ {n}
  /\ UNCHANGED <<failures, rpc>>

\* A service object that is not running refuses to reload.
NotRunning(n) ==
  /\ Known(n) /\ ~svc[SvcOf(n)].run
  /\ svc' = [svc EXCEPT ![SvcOf(n)].key = root]
  /\ rpc' = "select" /\ UNCHANGED <<failures, todo>>

\* Reload closes the service first; a tunnel listener with a live session never
\* finishes closing (TunnelListener).
CloseHangs(n) ==
  /\ Known(n) /\ svc[SvcOf(n)].run /\ n \in Files[svc[SvcOf(n)].cfg].tunnels
  /\ svc' = [svc EXCEPT ![SvcOf(n)].key = root]
  /\ rpc' = "hung" /\ UNCHANGED <<failures, todo>>

\* A known service gets the secret and restarts; a new one is made and started.
UpdateService(n) ==
  /\ rpc = "services" /\ n \in todo
  /\ \/ NotRunning(n) \/ CloseHangs(n)
     \/ (Known(n) => svc[SvcOf(n)].run) /\ (StartFails(n) \/ Started(n))
  /\ UNCHANGED <<fileVars, root, applied, newMap, mapVars, rlock, olock, outVars, connVars>>

\* Mutant: the instance keeps the outbounds it had.
Commit_OldMap ==
  /\ rpc = "services" /\ todo = {}
  /\ svcMap' = [n \in Services |->
                  IF n \notin Files[root].svcs THEN Absent
                  ELSE IF svcMap[n] # Absent THEN svcMap[n] ELSE root]
  /\ applied' = root /\ rpc' = "select"
  /\ UNCHANGED <<fileVars, root, todo, newMap, outMap, routes, rules, rlock, olock, outVars,
                 svcVars, connVars>>

\* Mutant: an event that came during the update is dropped.
Commit_Deaf ==
  /\ rpc = "services" /\ todo = {}
  /\ outMap' = newMap /\ event' = FALSE
  /\ svcMap' = [n \in Services |->
                  IF n \notin Files[root].svcs THEN Absent
                  ELSE IF svcMap[n] # Absent THEN svcMap[n] ELSE root]
  /\ applied' = root /\ rpc' = "select"
  /\ UNCHANGED <<disk, root, todo, newMap, routes, rules, rlock, olock, outVars, svcVars,
                 connVars>>

Commit ==
  /\ rpc = "services" /\ todo = {}
  /\ outMap' = newMap
  /\ svcMap' = [n \in Services |->
                  IF n \notin Files[root].svcs THEN Absent
                  ELSE IF svcMap[n] # Absent THEN svcMap[n] ELSE root]
  /\ applied' = root /\ rpc' = "select"
  /\ UNCHANGED <<fileVars, root, todo, newMap, routes, rules, rlock, olock, outVars, svcVars,
                 connVars>>

-----------------------------------------------------------------------------
(***************************************************************************)
(* HandleConnection, and what the outbounds do for it.                     *)
(***************************************************************************)
Arrive(c) ==
  /\ cpc[c] = "new" /\ CanRead(rlock)
  /\ rlock' = Reading(rlock, c)
  /\ cpc' = [cpc EXCEPT ![c] = "routing"]
  /\ UNCHANGED <<fileVars, root, applied, rpc, todo, newMap, mapVars, olock, outVars, svcVars,
                 via, seen>>

\* The rules name an outbound the router does not have, or REJECT or RESET.
Refuse(c) ==
  /\ cpc[c] = "routing"
  /\ rlock' = NotReading(rlock, c)
  /\ cpc' = [cpc EXCEPT ![c] = "done"]
  /\ UNCHANGED <<fileVars, root, applied, rpc, todo, newMap, mapVars, olock, outVars, svcVars,
                 via, seen>>

\* The rules (after sniffing, up to some seconds) name outbound n.  The router's
\* lock is released before an injection and kept for a dial.
Dispatch(c, n) ==
  /\ cpc[c] = "routing" /\ routes[n] # Absent
  /\ c \in Silent => n \in Injects
  /\ via' = [via EXCEPT ![c] = <<n, routes[n]>>]
  /\ rlock' = IF n \in Injects THEN NotReading(rlock, c) ELSE rlock
  /\ cpc' = [cpc EXCEPT ![c] = "wait"]
  /\ UNCHANGED <<fileVars, root, applied, rpc, todo, newMap, mapVars, olock, outVars, svcVars,
                 seen>>

\* Mutant: the outbound's fields are read without its lock.
Enter_Unlocked(c) ==
  /\ cpc[c] = "wait"
  /\ seen' = [seen EXCEPT ![c] = {outCfg[via[c]]}]
  /\ cpc' = [cpc EXCEPT ![c] = "held"]
  /\ UNCHANGED <<fileVars, root, applied, rpc, todo, newMap, mapVars, rlock, olock, outVars,
                 svcVars, via>>

\* InjectConnection or DialContextWithMetadata takes the outbound's read lock.
Enter(c) ==
  /\ cpc[c] = "wait" /\ CanRead(olock[via[c]])
  /\ olock' = [olock EXCEPT ![via[c]] = Reading(@, c)]
  /\ seen' = [seen EXCEPT ![c] = {outCfg[via[c]]}]
  /\ cpc' = [cpc EXCEPT ![c] = "held"]
  /\ UNCHANGED <<fileVars, root, applied, rpc, todo, newMap, mapVars, rlock, outVars, svcVars,
                 via>>

\* The server is dialled with the config as it is now; the locks are released and
\* the relay begins, or the connection is given up: a failed dial with the router's
\* lock held, which is released after Name.
Leave(c) ==
  /\ cpc[c] = "held" /\ c \notin Silent
  /\ seen' = [seen EXCEPT ![c] = @ \cup {outCfg[via[c]]}]
  /\ olock' = [olock EXCEPT ![via[c]] = NotReading(@, c)]
  /\ \/ cpc' = [cpc EXCEPT ![c] = "relay"] /\ rlock' = NotReading(rlock, c)
     \/ cpc' = [cpc EXCEPT ![c] = "name"] /\ UNCHANGED rlock
  /\ UNCHANGED <<fileVars, root, applied, rpc, todo, newMap, mapVars, outVars, svcVars, via>>

\* A Minecraft status request answered by the outbound: with its lock held the
\* handler reads the client's ping, for which there is no deadline.
AwaitPing(c) ==
  /\ cpc[c] = "held" /\ via[c][1] \in Injects
  /\ cpc' = [cpc EXCEPT ![c] = "ping"]
  /\ UNCHANGED <<fileVars, root, applied, rpc, todo, newMap, mapVars, rlock, olock, outVars,
                 svcVars, via, seen>>

Ping(c) ==
  /\ cpc[c] = "ping"
  /\ olock' = [olock EXCEPT ![via[c]] = NotReading(@, c)]
  /\ cpc' = [cpc EXCEPT ![c] = "name"]
  /\ UNCHANGED <<fileVars, root, applied, rpc, todo, newMap, mapVars, rlock, outVars, svcVars,
                 via, seen>>

EndRelay(c) ==
  /\ cpc[c] = "relay"
  /\ cpc' = [cpc EXCEPT ![c] = "name"]
  /\ UNCHANGED <<fileVars, root, applied, rpc, todo, newMap, mapVars, rlock, olock, outVars,
                 svcVars, via, seen>>

\* The log asks the outbound for its name, for which the read lock is taken again;
\* the connection is closed after that.
Named(c) ==
  /\ cpc[c] = "name" /\ CanRead(olock[via[c]])
  /\ rlock' = NotReading(rlock, c)
  /\ cpc' = [cpc EXCEPT ![c] = "done"]
  /\ via' = [via EXCEPT ![c] = <<>>] /\ seen' = [seen EXCEPT ![c] = {}]
  /\ UNCHANGED <<fileVars, root, applied, rpc, todo, newMap, mapVars, olock, outVars, svcVars>>

-----------------------------------------------------------------------------
UpdateConfig ==
  \/ \E n \in Outbounds : BeginReload(n) \/ AddOutbound(n)
  \/ \E o \in Object : ReloadOutbound(o)
  \/ BeginRouter \/ UpdateRouter
  \/ \E n \in Services : UpdateService(n)
  \/ Commit

Loop == TakeEvent \/ Load \/ UpdateConfig

Handle(c) ==
  \/ Arrive(c) \/ Refuse(c) \/ Enter(c) \/ Leave(c) \/ AwaitPing(c)
  \/ \E n \in Outbounds : Dispatch(c, n)

Next ==
  \/ WriteFile \/ ManualReload \/ Loop
  \/ \E c \in Conns : Handle(c) \/ Ping(c) \/ EndRelay(c) \/ Named(c)

Spec == Init /\ [][Next]_vars

-----------------------------------------------------------------------------
(***************************************************************************)
(* Safety.                                                                 *)
(***************************************************************************)
Lock == [readers : SUBSET Conns, writer : BOOLEAN]

\* The values of the instance's fields, the locks and the connections.
TypeOK ==
  /\ disk \in Version /\ root \in Version /\ applied \in Version \cup {Absent} /\ rules \in Version
  /\ event \in BOOLEAN
  /\ rpc \in {"select", "load", "outbounds", "lock", "router", "services", "hung"}
  /\ todo \subseteq Outbounds \cup Services
  /\ outMap \in Map(Outbounds) /\ routes \in Map(Outbounds) /\ svcMap \in Map(Services)
  /\ rpc = "select" \/ rpc = "load" \/ newMap \in Map(Outbounds)
  /\ rlock \in Lock /\ olock \in [Object -> Lock]
  /\ outCfg \in [Object -> Version] /\ outKey \in [Object -> Version]
  /\ svc \in [SvcObject ->
                [run : BOOLEAN, cfg : Version, key : Version, lists : Version]]
  /\ failures \in 0 .. ListenFailures
  /\ cpc \in [Conns -> {"new", "routing", "wait", "held", "ping", "relay", "name", "done"}]
  /\ via \in [Conns -> Object \cup {<<>>}]
  /\ seen \in [Conns -> SUBSET Version]

\* After an update that ran to its end everything is of its version: the router
\* and the instance have the same outbounds, each with that config and secret, the
\* rules and lists are that version's, and each service runs with it.
SettledConsistent ==
  rpc = "select" /\ applied = root =>
    /\ rules = root
    /\ \A n \in Outbounds : (outMap[n] # Absent) <=> (n \in Files[root].outs)
    /\ \A n \in Files[root].outs :
         /\ routes[n] = outMap[n]
         /\ outCfg[<<n, outMap[n]>>] = root /\ outKey[<<n, outMap[n]>>] = root
    /\ \A n \in Files[root].svcs :
         svcMap[n] # Absent /\ svc[<<n, svcMap[n]>>] =
           [run |-> TRUE, cfg |-> root, key |-> root, lists |-> root]

\* "Refresh secret before reload so dials after reload see the new key": no object
\* ever has a config newer than its secret, wherever a reload was interrupted.
KeyNotOlder ==
  /\ \A o \in Object : outKey[o] >= outCfg[o]
  /\ \A s \in SvcObject : svc[s].key >= svc[s].cfg

\* A connection reads its outbound's configuration several times on its way
\* through InjectConnection, and always the same one.
OneConfigPerConnection == \A c \in Conns : Cardinality(seen[c]) <= 1

\* The rules never send a connection to an object other than the one the router's
\* map of the same version names, and that object is as new as its rules or newer.
RoutedConsistently ==
  \A n \in Outbounds : routes[n] # Absent => outCfg[<<n, routes[n]>>] >= rules

(***************************************************************************)
(* Liveness.  The loop runs; dials end, clients that are not silent ping   *)
(* or leave in the end.  A writer that unlocks lets the waiting readers    *)
(* in, so that a connection which may step again and again does so.        *)
(***************************************************************************)
FairSpec ==
  /\ Spec
  /\ WF_vars(Loop)
  /\ \A c \in Conns \ Silent : SF_vars(Handle(c) \/ Ping(c) \/ EndRelay(c) \/ Named(c))
  /\ \A c \in Silent : SF_vars(Handle(c) \/ Named(c))

\* A reload waits for the lock of o, which the handler of a silent client holds.
KeptWaiting(o) == olock[o].writer /\ olock[o].readers \cap Silent # {}

\* What keeps the last version out, as the code is: a client is silent; Close hangs; or
\* the loop has read it and a service that stopped running refuses every Reload, a new
\* one finds its port held by an object the instance does not know, or its own port
\* could not be opened.
Obstructed ==
  \/ rpc = "hung" \/ \E o \in Object : KeptWaiting(o)
  \/ rpc = "select" /\ root = Last /\ \E n \in Files[Last].svcs :
       \/ Known(n) /\ ~svc[<<n, svcMap[n]>>].run
       \/ ~Known(n) /\ \E t \in SvcObject : t[1] = n /\ svc[t].run
       \/ ~Known(n) /\ failures > 0 /\ svc[<<n, Last>>].cfg = Last

\* "Configuration hot reload for lists and Minecraft MOTD": what the file says in the
\* end takes effect, whatever the versions before it were refused for, unless one of
\* the things named in Obstructed keeps it out.
FileTakesEffect == (disk = Last) ~> (applied = Last \/ Obstructed)

\* No connection is held up for ever by a reload that no silent client holds up.
ConnectionsProceed == \A c \in Conns :
  (cpc[c] \in {"wait", "name"}) ~>
    (cpc[c] \in {"ping", "relay", "done"} \/ \E o \in Object : via[c] = o /\ KeptWaiting(o))
=============================================================================
