-------------------------- MODULE TransportSelector --------------------------
(***************************************************************************)
(* common/transportselect/selector.go: which of the two paths to the next  *)
(* hop, TCP or the UDP tunnel, the dials of an outbound take.  A goroutine *)
(* probes both in turn and stores its choice; dials read it at any time.   *)
(* The outbound's PostInitialize makes and starts the selector and Reload  *)
(* stops it (protocol/outbound.go), so that every behaviour here is the    *)
(* life of one selector.                                                   *)
(***************************************************************************)
EXTENDS Integers

CONSTANTS
  MaxRTT,         \* bound: round trips are measured as 0 .. MaxRTT
  Sticky,         \* StickyMs, in the unit of MaxRTT
  FailThreshold   \* PathFailThreshold

ASSUME SelectorAssumption ==
  MaxRTT \in Nat /\ Sticky \in Nat \ {0} /\ FailThreshold \in Nat \ {0}

Paths == {"tcp", "udp"}
Other(p) == IF p = "tcp" THEN "udp" ELSE "tcp"
RTT == 0 .. MaxRTT
NoAnswer == -1

VARIABLES
  mode,       \* cfg.Mode
  ports,      \* the paths whose port is configured
  loop,       \* the probing goroutine: "off", at the "tcp" or the "udp" probe,
              \* at the "update", in the "select" or "ended"
  found,      \* result of the probe of each path
  up, rtt,    \* what the selector believes of each path
  fails,      \* consecutive failures; nothing tells those past the threshold apart
  preferred,
  stopped,    \* stop is closed
  answering   \* the network: the paths on which a probe is answered now

beliefs == <<up, rtt, fails, preferred>>
vars == <<mode, ports, loop, found, beliefs, stopped, answering>>

\* Mutant: the UDP path is the fallback whether or not it is configured.
Fallback_Blind == "udp"

Fallback == IF "tcp" \in ports THEN "tcp" ELSE "udp"

\* PostInitialize makes a selector for these configurations, New chooses the
\* first preference, and Start runs the loop.
Init ==
  /\ mode \in {"tcp", "udp", "auto"} /\ ports \in SUBSET Paths
  /\ mode = "udp" => "udp" \in ports
  /\ mode = "tcp" => "udp" \in ports
  /\ preferred = IF mode = "auto" THEN Fallback ELSE mode
  /\ loop = IF mode = "auto" /\ ports # {} THEN "tcp" ELSE "off"
  /\ found = [p \in Paths |-> NoAnswer]
  /\ up = [p \in Paths |-> FALSE]
  /\ rtt = [p \in Paths |-> 0]
  /\ fails = [p \in Paths |-> 0]
  /\ stopped = FALSE
  /\ answering \in SUBSET Paths

-----------------------------------------------------------------------------
(***************************************************************************)
(* probeOnce: both probes without s.mu, then the update with it.           *)
(***************************************************************************)
\* A dial and close for TCP; ProbeRTT, a PING and its PONG, for the tunnel.
Probe(p) ==
  /\ loop = p
  /\ \E r \in (IF p \in ports \cap answering THEN RTT ELSE {NoAnswer}) :
       found' = [found EXCEPT ![p] = r]
  /\ loop' = IF p = "tcp" THEN "udp" ELSE "update"
  /\ UNCHANGED <<mode, ports, beliefs, stopped, answering>>

Answered(p) == found[p] # NoAnswer
Counted(n) == IF n < FailThreshold THEN n + 1 ELSE n

FailsAfter(p) == IF Answered(p) THEN 0 ELSE Counted(fails[p])

\* Mutant: a path that was once up stays up.
UpAfter_Forever(p) == p \in ports /\ (Answered(p) \/ up[p])

UpAfter(p) ==
  p \in ports /\ (Answered(p) \/ (up[p] /\ FailsAfter(p) < FailThreshold))

RttAfter(p) == IF Answered(p) THEN found[p] ELSE rtt[p]

Usable == {p \in ports : up[p]}

\* Mutants of chooseLocked: no stickiness; stickiness before usability.
Choice_Restless(usable, times) ==
  IF usable = {} THEN Fallback
  ELSE IF usable = Paths THEN IF times["udp"] < times["tcp"] THEN "udp" ELSE "tcp"
  ELSE CHOOSE p \in usable : TRUE

Choice_Stubborn(usable, times) ==
  IF usable = {} THEN preferred
  ELSE IF times["tcp"] - times["udp"] \in -Sticky + 1 .. Sticky - 1 THEN preferred
  ELSE IF times["udp"] < times["tcp"] THEN "udp" ELSE "tcp"

\* chooseLocked.
Choice(usable, times) ==
  IF usable = {} THEN Fallback
  ELSE IF usable = Paths
    THEN IF times["tcp"] - times["udp"] \in -Sticky + 1 .. Sticky - 1 THEN preferred
         ELSE IF times["udp"] < times["tcp"] THEN "udp" ELSE "tcp"
  ELSE CHOOSE p \in usable : TRUE

Update ==
  /\ loop = "update"
  /\ fails' = [p \in Paths |-> IF p \in ports THEN FailsAfter(p) ELSE fails[p]]
  /\ up' = [p \in Paths |-> UpAfter(p)]
  /\ rtt' = [p \in Paths |-> RttAfter(p)]
  /\ preferred' = Choice({p \in ports : UpAfter(p)}, rtt')
  /\ loop' = "select"
  /\ UNCHANGED <<mode, ports, found, stopped, answering>>

\* The select of loop(): the ticker, and s.stop.  When both are ready either
\* may be taken.
Tick ==
  /\ loop = "select"
  /\ loop' = "tcp"
  /\ UNCHANGED <<mode, ports, found, beliefs, stopped, answering>>

SeeStop ==
  /\ loop = "select" /\ stopped
  /\ loop' = "ended"
  /\ UNCHANGED <<mode, ports, found, beliefs, stopped, answering>>

Stop ==
  /\ ~stopped
  /\ stopped' = TRUE
  /\ UNCHANGED <<mode, ports, loop, found, beliefs, answering>>

\* A path begins or ceases to answer.
NetworkChanges ==
  /\ answering' \in SUBSET Paths \ {answering}
  /\ UNCHANGED <<mode, ports, loop, found, beliefs, stopped>>

Next == (\E p \in Paths : Probe(p)) \/ Update \/ Tick \/ SeeStop \/ Stop \/ NetworkChanges

Spec == Init /\ [][Next]_vars

-----------------------------------------------------------------------------
\* What a dial gets: Preferred honours a fixed mode.
Preferred == IF mode = "auto" THEN preferred ELSE mode

\* The values the selector's fields take.
TypeOK ==
  /\ mode \in {"tcp", "udp", "auto"} /\ ports \subseteq Paths
  /\ loop \in {"off", "tcp", "udp", "update", "select", "ended"}
  /\ found \in [Paths -> RTT \cup {NoAnswer}]
  /\ up \in [Paths -> BOOLEAN]
  /\ rtt \in [Paths -> RTT]
  /\ fails \in [Paths -> 0 .. FailThreshold]
  /\ preferred \in Paths
  /\ stopped \in BOOLEAN
  /\ answering \subseteq Paths

\* A dial in auto mode takes a path that is up when there is one, and never the
\* one known to be slower by StickyMs or more (chooseLocked, Preferred).
PreferredIsBest ==
  mode = "auto" /\ Usable # {} =>
    /\ Preferred \in Usable
    /\ Other(Preferred) \in Usable => rtt[Preferred] - rtt[Other(Preferred)] < Sticky

\* A dial is never sent to a path without a port when the other path has one:
\* dialTunnel's "UDP path selected but UDPTargetPort is 0" is not reached.
PreferredIsConfigured == mode = "auto" /\ ports # {} => Preferred \in ports

\* "do not flip preferred if RTT delta is below this": the preference leaves a
\* path only because it is down or because the other is faster by StickyMs.
NoFlapping ==
  [][preferred' # preferred =>
       preferred \notin Usable' \/ rtt'[preferred] - rtt'[preferred'] >= Sticky]_vars

(***************************************************************************)
(* Liveness.  The goroutine runs: each probe returns at its timeout.       *)
(***************************************************************************)
FairSpec == Spec /\ WF_vars((\E p \in Paths : Probe(p)) \/ Update \/ Tick)

\* When from some time on one configured path answers and the other does not, the
\* dials end up on the one that does.
Converges ==
  \A p \in Paths :
    mode = "auto" /\ p \in ports /\ <>[](answering = {p}) /\ []~stopped
      => <>[](Preferred = p)
=============================================================================
