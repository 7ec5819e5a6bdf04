----------------------- MODULE TransportSelectorProofs -----------------------
(***************************************************************************)
(* Proofs about TransportSelector, for every bound on the round trips,     *)
(* stickiness and threshold.  An Update decides from what it has just      *)
(* computed, so the properties of the choice are facts about Choice; every *)
(* other step leaves what they speak of alone.                             *)
(***************************************************************************)
EXTENDS TransportSelector, TLAPS

\* The choice is a usable path if there is one, not slower than the other by
\* Sticky; otherwise the fallback.
LEMMA ChoiceIsBest ==
  ASSUME NEW usable \in SUBSET Paths, NEW times \in [Paths -> RTT],
         preferred \in Paths
  PROVE  LET c == Choice(usable, times) IN
         /\ c \in Paths
         /\ usable = {} => c = Fallback
         /\ usable # {} => c \in usable
         /\ usable = Paths => times[c] - times[Other(c)] < Sticky
<1>1. CASE usable = {}
  BY <1>1 DEF Choice, Fallback, Paths
<1>2. CASE usable = Paths
  <2>1. times["tcp"] \in Int /\ times["udp"] \in Int /\ Sticky \in Nat \ {0}
    BY SelectorAssumption DEF RTT, Paths
  <2> DEFINE d == times["tcp"] - times["udp"]
  <2>2. CASE d \in -Sticky + 1 .. Sticky - 1
    <3>1. Choice(usable, times) = preferred
      BY <1>2, <2>2 DEF Choice, Paths
    <3> QED
      BY <1>2, <2>1, <2>2, <3>1 DEF Other, Paths
  <2>3. CASE d \notin -Sticky + 1 .. Sticky - 1
    <3>1. Choice(usable, times) = IF times["udp"] < times["tcp"] THEN "udp" ELSE "tcp"
      BY <1>2, <2>3 DEF Choice, Paths
    <3> QED
      BY <1>2, <2>1, <2>3, <3>1 DEF Other, Paths
  <2> QED
    BY <2>2, <2>3
<1>3. CASE usable # {} /\ usable # Paths
  <2>1. Choice(usable, times) = CHOOSE p \in usable : TRUE
    BY <1>3 DEF Choice
  <2> QED
    BY <1>3, <2>1
<1> QED
  BY <1>1, <1>2, <1>3

\* The choice leaves a usable path only for one faster by Sticky.
LEMMA ChoiceIsSticky ==
  ASSUME NEW usable \in SUBSET Paths, NEW times \in [Paths -> RTT],
         preferred \in usable, Choice(usable, times) # preferred
  PROVE  times[preferred] - times[Choice(usable, times)] >= Sticky
<1> DEFINE d == times["tcp"] - times["udp"]
<1>1. times["tcp"] \in Int /\ times["udp"] \in Int /\ Sticky \in Nat \ {0}
  BY SelectorAssumption DEF RTT, Paths
<1>2. preferred \in Paths /\ Choice(usable, times) \in usable
  BY ChoiceIsBest
<1>3. usable = Paths
  BY <1>2 DEF Paths
<1>4. d \notin -Sticky + 1 .. Sticky - 1
  BY <1>3 DEF Choice, Paths
<1>5. Choice(usable, times) = IF times["udp"] < times["tcp"] THEN "udp" ELSE "tcp"
  BY <1>3, <1>4 DEF Choice, Paths
<1> QED
  BY <1>1, <1>2, <1>4, <1>5 DEF Paths

-----------------------------------------------------------------------------
IInv == TypeOK /\ PreferredIsBest /\ PreferredIsConfigured

\* A selector that has just been started is consistent (New, Start).
LEMMA Initially == Init => IInv
<1> SUFFICES ASSUME Init PROVE IInv
  OBVIOUS
<1>1. preferred \in Paths /\ (mode = "auto" /\ ports # {} => preferred \in ports)
  BY DEF Init, Fallback, Paths
<1>2. TypeOK
  <2>1. 0 \in RTT /\ 0 \in 0 .. FailThreshold
    BY SelectorAssumption DEF RTT
  <2>2. up \in [Paths -> BOOLEAN] /\ rtt \in [Paths -> RTT]
    BY <2>1 DEF Init
  <2>3. found \in [Paths -> RTT \cup {NoAnswer}]
    BY DEF Init
  <2>4. fails \in [Paths -> 0 .. FailThreshold]
    BY <2>1 DEF Init
  <2> QED
    BY <1>1, <2>2, <2>3, <2>4 DEF Init, TypeOK
<1>3. Usable = {}
  BY DEF Init, Usable, Paths
<1> QED
  BY <1>1, <1>2, <1>3 DEF IInv, PreferredIsBest, PreferredIsConfigured, Preferred

\* What an Update computes has the right type.
LEMMA UpdateTypes ==
  ASSUME TypeOK, Update
  PROVE  /\ fails' \in [Paths -> 0 .. FailThreshold]
         /\ up' \in [Paths -> BOOLEAN]
         /\ rtt' \in [Paths -> RTT]
         /\ Usable' = {p \in ports : UpAfter(p)}
<1>1. \A n \in 0 .. FailThreshold : Counted(n) \in 0 .. FailThreshold
  BY SelectorAssumption DEF Counted
<1>2. \A p \in Paths : FailsAfter(p) \in 0 .. FailThreshold
  BY <1>1, SelectorAssumption DEF FailsAfter, TypeOK
<1>3. fails' \in [Paths -> 0 .. FailThreshold]
  BY <1>2 DEF Update, TypeOK
<1>4. \A p \in Paths : UpAfter(p) \in BOOLEAN
  BY DEF UpAfter, Answered, TypeOK
<1>5. up' \in [Paths -> BOOLEAN]
  BY <1>4 DEF Update
<1>6. \A p \in Paths : RttAfter(p) \in RTT
  BY DEF RttAfter, Answered, TypeOK
<1>7. rtt' \in [Paths -> RTT]
  BY <1>6 DEF Update
<1>8. Usable' = {p \in ports : UpAfter(p)}
  BY DEF Usable, Update, TypeOK
<1> QED
  BY <1>3, <1>5, <1>7, <1>8

\* The step that decides.
LEMMA UpdateKeeps ==
  ASSUME IInv, Update
  PROVE  IInv'
<1>1. TypeOK
  BY DEF IInv
<1>2. Usable' \in SUBSET Paths /\ Usable' \subseteq ports /\ rtt' \in [Paths -> RTT]
  BY <1>1, UpdateTypes DEF TypeOK
<1>3. preferred' = Choice(Usable', rtt') /\ mode' = mode /\ ports' = ports
  BY <1>1, UpdateTypes DEF Update
<1>4. /\ preferred' \in Paths
      /\ Usable' = {} => preferred' = Fallback
      /\ Usable' # {} => preferred' \in Usable'
      /\ Usable' = Paths => rtt'[preferred'] - rtt'[Other(preferred')] < Sticky
  BY <1>1, <1>2, <1>3, ChoiceIsBest DEF TypeOK
<1>5. TypeOK'
  BY <1>1, <1>4, UpdateTypes DEF TypeOK, Update
<1>6. mode' = "auto" => Preferred' = preferred'
  BY DEF Preferred
<1>7. Usable' # {} /\ Other(preferred') \in Usable' => Usable' = Paths
  BY <1>2, <1>4 DEF Other, Paths
<1>8. PreferredIsBest'
  BY <1>4, <1>6, <1>7 DEF PreferredIsBest
<1>9. PreferredIsConfigured'
  BY <1>1, <1>2, <1>3, <1>4, <1>6 DEF PreferredIsConfigured, Fallback, TypeOK, Paths
<1> QED
  BY <1>5, <1>8, <1>9 DEF IInv

\* Every step keeps the invariant; only the update after a round of probes touches
\* what it speaks of.
LEMMA Inductive == IInv /\ [Next]_vars => IInv'
<1> SUFFICES ASSUME IInv, [Next]_vars PROVE IInv'
  OBVIOUS
<1>1. ASSUME NEW p \in Paths, Probe(p) PROVE IInv'
  <2>1. \E r \in RTT \cup {NoAnswer} : found' = [found EXCEPT ![p] = r]
    BY <1>1 DEF Probe
  <2>2. found' \in [Paths -> RTT \cup {NoAnswer}]
    BY <2>1 DEF IInv, TypeOK
  <2>3. UNCHANGED <<mode, ports, beliefs, stopped, answering>>
    BY <1>1 DEF Probe
  <2>4. loop' \in {"udp", "update"}
    BY <1>1 DEF Probe
  <2> QED
    BY <2>2, <2>3, <2>4
    DEF IInv, TypeOK, beliefs, PreferredIsBest, PreferredIsConfigured, Preferred, Usable
<1>2. CASE Update
  BY <1>2, UpdateKeeps
<1>3. CASE Tick \/ SeeStop \/ Stop \/ NetworkChanges \/ UNCHANGED vars
  BY <1>3
  DEF IInv, TypeOK, Tick, SeeStop, Stop, NetworkChanges, vars, beliefs, PreferredIsBest,
      PreferredIsConfigured, Preferred, Usable
<1> QED
  BY <1>1, <1>2, <1>3 DEF Next

\* The strengthened invariant holds for ever.
LEMMA Invariance == Spec => []IInv
<1> QED
  BY Initially, Inductive, PTL DEF Spec

-----------------------------------------------------------------------------
\* The fields keep their types, whatever the probes find.
THEOREM SelectorTypeCorrect == Spec => []TypeOK
<1>1. IInv => TypeOK
  BY DEF IInv
<1> QED
  BY <1>1, Invariance, PTL

\* A dial in auto mode takes a path that is up, and never one known to be slower
\* than the other by StickyMs or more (chooseLocked).
THEOREM BestPathPreferred == Spec => []PreferredIsBest
<1>1. IInv => PreferredIsBest
  BY DEF IInv
<1> QED
  BY <1>1, Invariance, PTL

\* A dial in auto mode takes a path whose port is configured (dialTunnel).
THEOREM ConfiguredPathPreferred == Spec => []PreferredIsConfigured
<1>1. IInv => PreferredIsConfigured
  BY DEF IInv
<1> QED
  BY <1>1, Invariance, PTL

\* "do not flip preferred if RTT delta is below this" (StickyMs).
THEOREM PreferenceIsSticky == Spec => NoFlapping
<1> DEFINE Kept == preferred' # preferred =>
             preferred \notin Usable' \/ rtt'[preferred] - rtt'[preferred'] >= Sticky
<1>1. ASSUME IInv, [Next]_vars PROVE [Kept]_vars
  <2>1. CASE Update
    <3>1. TypeOK
      BY <1>1 DEF IInv
    <3>2. Usable' \in SUBSET Paths /\ rtt' \in [Paths -> RTT]
      BY <2>1, <3>1, UpdateTypes DEF TypeOK
    <3>3. preferred' = Choice(Usable', rtt')
      BY <2>1, <3>1, UpdateTypes DEF Update
    <3> QED
      BY <3>2, <3>3, ChoiceIsSticky
  <2>2. CASE preferred' = preferred
    BY <2>2
  <2>3. Update \/ preferred' = preferred
    BY <1>1 DEF Next, Probe, Tick, SeeStop, Stop, NetworkChanges, vars, beliefs
  <2> QED
    BY <2>1, <2>2, <2>3
<1> QED
  BY <1>1, Invariance, PTL DEF Spec, NoFlapping

-----------------------------------------------------------------------------
(***************************************************************************)
(* What Converges rests on beyond the running of the loop: how the count   *)
(* of failures and the belief in a path go together.                       *)
(***************************************************************************)
\* A path believed to be up is configured, and short of the threshold.
UpIsRecent == \A p \in Paths : up[p] => p \in ports /\ fails[p] < FailThreshold

\* A path goes down at the threshold and not before: failures are counted one by one,
\* and any answer begins the count anew.
DownAtThreshold == \A p \in Paths :
  /\ fails'[p] \in {0, fails[p], fails[p] + 1}
  /\ fails'[p] > fails[p] \/ (up[p] /\ ~up'[p]) => Update /\ ~Answered(p)
  /\ up[p] /\ ~up'[p] => fails[p] = FailThreshold - 1

\* How many rounds without an answer a path is still believed in.
Credit(p) == IF up[p] THEN FailThreshold - fails[p] ELSE 0

\* A round in which one path answers and the other does not uses up credit of the other,
\* and with the last of it the preference is the path that answers.
RoundCounts == \A p \in ports :
  Update /\ Answered(p) /\ ~Answered(Other(p)) =>
    /\ up'[p] /\ Credit(Other(p))' \in Nat
    /\ Credit(Other(p))' < Credit(Other(p)) \/ (Credit(Other(p))' = 0 /\ preferred' = p)
    /\ Credit(Other(p))' = 0 => preferred' = p

\* Only an update changes what is believed and preferred.
OnlyUpdateDecides == ~Update => UNCHANGED beliefs

\* What a round does to the beliefs in a path, case by case.
LEMMA UpdateCases ==
  ASSUME IInv, UpIsRecent, Update, NEW p \in Paths
  PROVE  /\ fails[p] \in Nat /\ fails[p] <= FailThreshold /\ FailThreshold \in Nat \ {0}
         /\ up[p] => p \in ports /\ fails[p] < FailThreshold
         /\ p \in ports /\ Answered(p) => fails'[p] = 0 /\ up'[p]
         /\ p \in ports /\ ~Answered(p) /\ fails[p] < FailThreshold => fails'[p] = fails[p] + 1
         /\ p \in ports /\ ~Answered(p) /\ fails[p] = FailThreshold => fails'[p] = fails[p]
         /\ p \in ports /\ ~Answered(p) => (up'[p] <=> up[p] /\ fails'[p] < FailThreshold)
         /\ p \notin ports => fails'[p] = fails[p] /\ ~up'[p]
<1>1. /\ fails'[p] = IF p \in ports THEN FailsAfter(p) ELSE fails[p]
      /\ up'[p] = UpAfter(p)
  BY DEF Update
<1>2. fails[p] \in Nat /\ fails[p] <= FailThreshold /\ FailThreshold \in Nat \ {0}
  <2>1. fails[p] \in 0 .. FailThreshold
    BY DEF IInv, TypeOK
  <2> QED
    BY <2>1, SelectorAssumption
<1>3. Answered(p) => FailsAfter(p) = 0
  BY DEF FailsAfter
<1>4. ~Answered(p) => FailsAfter(p) = Counted(fails[p])
  BY DEF FailsAfter
<1>5. Counted(fails[p]) = IF fails[p] < FailThreshold THEN fails[p] + 1 ELSE fails[p]
  BY DEF Counted
<1>6. up[p] => p \in ports /\ fails[p] < FailThreshold
  BY DEF UpIsRecent
<1>7. UpAfter(p) <=> p \in ports /\ (Answered(p) \/ (up[p] /\ FailsAfter(p) < FailThreshold))
  BY DEF UpAfter
<1> QED
  BY <1>1, <1>2, <1>3, <1>4, <1>5, <1>6, <1>7

LEMMA UpIsRecentKept ==
  ASSUME IInv, UpIsRecent, [Next]_vars
  PROVE  UpIsRecent'
<1>1. CASE Update
  <2>1. UNCHANGED ports
    BY <1>1 DEF Update
  <2>2. ASSUME NEW p \in Paths, up'[p]
        PROVE  p \in ports /\ fails'[p] < FailThreshold
    <3>1. p \in ports /\ FailThreshold \in Nat \ {0}
      BY <1>1, <2>2, UpdateCases
    <3>2. CASE Answered(p)
      BY <1>1, <3>1, <3>2, UpdateCases
    <3>3. CASE ~Answered(p)
      BY <1>1, <2>2, <3>1, <3>3, UpdateCases
    <3> QED
      BY <3>1, <3>2, <3>3
  <2> QED
    BY <2>1, <2>2 DEF UpIsRecent
<1>2. CASE ~Update
  BY <1>2 DEF Next, Probe, Tick, SeeStop, Stop, NetworkChanges, vars, beliefs, UpIsRecent
<1> QED
  BY <1>1, <1>2

LEMMA RecentAlways == Spec => [](IInv /\ UpIsRecent)
<1>1. Init => UpIsRecent
  BY DEF Init, UpIsRecent
<1> QED
  BY <1>1, UpIsRecentKept, Invariance, PTL DEF Spec

LEMMA OthersLeaveBeliefs == [Next]_vars => OnlyUpdateDecides
BY DEF Next, Probe, Tick, SeeStop, Stop, NetworkChanges, vars, beliefs, OnlyUpdateDecides

\* "PathFailThreshold" (selector.go): a path that is up is given up only by the failure
\* that makes FailThreshold in a row, and never by one that was answered in between.
THEOREM GivenUpAtThreshold == Spec => []UpIsRecent /\ [][DownAtThreshold]_vars
<1>1. ASSUME IInv, UpIsRecent, [Next]_vars PROVE [DownAtThreshold]_vars
  <2>1. CASE Update
    <3>1. ASSUME NEW p \in Paths
          PROVE  /\ fails'[p] \in {0, fails[p], fails[p] + 1}
                 /\ fails'[p] > fails[p] \/ (up[p] /\ ~up'[p]) => ~Answered(p)
                 /\ up[p] /\ ~up'[p] => fails[p] = FailThreshold - 1
      <4>1. /\ fails[p] \in Nat /\ fails[p] <= FailThreshold /\ FailThreshold \in Nat \ {0}
            /\ up[p] => p \in ports /\ fails[p] < FailThreshold
        BY <1>1, <2>1, UpdateCases
      <4>2. CASE p \notin ports
        BY <1>1, <2>1, <4>1, <4>2, UpdateCases
      <4>3. CASE p \in ports /\ Answered(p)
        BY <1>1, <2>1, <4>1, <4>3, UpdateCases
      <4>4. CASE p \in ports /\ ~Answered(p)
        BY <1>1, <2>1, <4>1, <4>4, UpdateCases
      <4> QED
        BY <4>2, <4>3, <4>4
    <3> QED
      BY <2>1, <3>1 DEF DownAtThreshold
  <2>2. CASE UNCHANGED beliefs
    <3>1. \A p \in Paths : fails[p] \in Nat
      BY <1>1, SelectorAssumption DEF IInv, TypeOK
    <3> QED
      BY <2>2, <3>1 DEF DownAtThreshold, beliefs
  <2> QED
    BY <1>1, <2>1, <2>2, OthersLeaveBeliefs DEF OnlyUpdateDecides
<1> QED
  BY <1>1, RecentAlways, PTL DEF Spec

\* What Converges rests on (probeOnce, chooseLocked): every round in which one configured
\* path answers and the other does not brings the preference nearer to the one that does,
\* it is there after at most FailThreshold of them, and nothing but a round changes it.
THEOREM RoundsConverge == Spec => [][RoundCounts /\ OnlyUpdateDecides]_vars
<1>1. ASSUME IInv, UpIsRecent, [Next]_vars PROVE RoundCounts
  <2> SUFFICES ASSUME NEW p \in ports, Update, Answered(p), ~Answered(Other(p))
               PROVE  /\ up'[p] /\ Credit(Other(p))' \in Nat
                      /\ \/ Credit(Other(p))' < Credit(Other(p))
                         \/ Credit(Other(p))' = 0 /\ preferred' = p
                      /\ Credit(Other(p))' = 0 => preferred' = p
    BY DEF RoundCounts
  <2> DEFINE q == Other(p)
  <2>1. /\ p \in Paths /\ q \in Paths /\ q # p /\ \A r \in Paths : r = p \/ r = q
        /\ TypeOK
    BY <1>1 DEF IInv, TypeOK, Paths, Other
  <2>2. up'[p]
    BY <1>1, <2>1, UpdateCases
  <2>3. CASE up'[q]
    <3>1. up[q] /\ q \in ports /\ fails[q] + 1 < FailThreshold /\ fails'[q] = fails[q] + 1
      BY <1>1, <2>1, <2>3, UpdateCases
    <3>2. fails[q] \in Nat /\ FailThreshold \in Nat
      BY <1>1, <2>1, UpdateCases
    <3> QED
      BY <2>2, <2>3, <3>1, <3>2 DEF Credit
  <2>4. CASE ~up'[q]
    <3>1. Credit(q)' = 0
      BY <2>4 DEF Credit
    <3>2. Usable' = {p}
      <4>1. ports' = ports
        BY DEF Update
      <4>2. p \in Usable' /\ q \notin Usable' /\ Usable' \subseteq Paths
        BY <2>1, <2>2, <2>4, <4>1 DEF Usable, TypeOK
      <4> QED
        BY <2>1, <4>2
    <3>3. preferred' = Choice({p}, rtt')
      BY <2>1, <3>2, UpdateTypes DEF Update
    <3>4. preferred' = p
      BY <2>1, <3>3 DEF Choice
    <3> QED
      BY <2>2, <3>1, <3>4
  <2> QED
    BY <2>3, <2>4
<1>2. IInv /\ UpIsRecent /\ [Next]_vars => [RoundCounts /\ OnlyUpdateDecides]_vars
  BY <1>1, OthersLeaveBeliefs
<1> QED
  BY <1>2, RecentAlways, PTL DEF Spec
=============================================================================
