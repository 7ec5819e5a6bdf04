------------------------- MODULE TunnelListenerProofs -------------------------
(***************************************************************************)
(* Proofs about TunnelListener, for any number of dialers and sessions and *)
(* any limits, with and without idle sweeps.  The heart is what each step  *)
(* does to Mapped: only SynAccepted adds to it, and who leaves it is       *)
(* closed, or recorded as orphaned by the removeSession of another.        *)
(***************************************************************************)
EXTENDS TunnelListener, FiniteSetTheorems, TLAPS

\* A callback is pending only on a closed session, and as long as nobody sweeps, a
\* session whose callback has not run is in the map (removeSession).
CallbackRemoves ==
  /\ \A o \in Value : app[o] = "cb" => o \in closed
  /\ ~IdleSweeps => /\ orphaned = {}
                    /\ lclose # "returned" =>
                         \A o \in Made : onClosed[o] # "done" => o \in Mapped
  /\ lclose = "returned" => Mapped = {}

IInv == TypeOK /\ Bounded /\ LiveIsRoutable /\ CallbackRemoves

-----------------------------------------------------------------------------
LEMMA MadeFacts ==
  ASSUME TypeOK
  PROVE  /\ Made = 1 .. Len(made) /\ Made \subseteq Value /\ Len(made) \in Nat
         /\ \A o \in Made : made[o] \in Dialers /\ sessions[made[o]] \in Value \cup {NoSession}
         /\ NoSession \notin Made /\ IsFiniteSet(Made)
<1>1. Made = 1 .. Len(made) /\ Len(made) \in Nat /\ \A o \in Made : made[o] \in Dialers
  BY DEF TypeOK, Made
<1>2. Made \subseteq Value /\ NoSession \notin Made
  BY <1>1, ListenerAssumption DEF TypeOK, Value, NoSession
<1>3. IsFiniteSet(Made)
  BY <1>1, FS_Interval
<1> QED
  BY <1>1, <1>2, <1>3 DEF TypeOK

\* Two values are never mapped to one id.
LEMMA OneValuePerId ==
  ASSUME NEW o \in Mapped, NEW p \in Mapped, made[o] = made[p]
  PROVE  o = p
BY DEF Mapped

\* A step that maps nobody keeps the limit.
LEMMA LimitKept ==
  ASSUME TypeOK, Cardinality(Mapped) <= MaxSessions, Mapped' \subseteq Mapped
  PROVE  Cardinality(Mapped') <= MaxSessions
<1>1. IsFiniteSet(Mapped)
  BY MadeFacts, FS_Subset DEF Mapped
<1>2. Cardinality(Mapped') <= Cardinality(Mapped) /\ IsFiniteSet(Mapped')
  BY <1>1, FS_Subset
<1>3. Cardinality(Mapped) \in Nat /\ Cardinality(Mapped') \in Nat
  BY <1>1, <1>2, FS_CardinalityType
<1> QED
  BY <1>2, <1>3, ListenerAssumption

\* A new session is the one value more (dispatch).
LEMMA NewIsMapped ==
  ASSUME TypeOK, NEW c \in Dialers, SynAccepted(c)
  PROVE  /\ Mapped' = Mapped \cup {Len(made) + 1}
         /\ Made' = Made \cup {Len(made) + 1}
         /\ Len(made) + 1 \in Value /\ Len(made) + 1 \notin Made
         /\ \A o \in Made : made'[o] = made[o]
<1> DEFINE n == Len(made) + 1
<1>1. made \in Seq(Dialers) /\ made' = Append(made, c) /\ Len(made) < MaxMade
  BY DEF TypeOK, SynAccepted
<1>2. Len(made) \in Nat /\ n \in Value
  BY <1>1, ListenerAssumption DEF Value
<1>3. Len(made') = n /\ made' \in Seq(Dialers) /\ made'[n] = c
      /\ \A o \in 1 .. Len(made) : made'[o] = made[o]
  BY <1>1, <1>2
<1>4. Made = 1 .. Len(made) /\ Made' = 1 .. n
  BY <1>1, <1>3 DEF Made
<1>5. sessions \in [Dialers -> Value \cup {NoSession}] /\ sessions[c] = NoSession
      /\ sessions' = [sessions EXCEPT ![c] = n]
  BY DEF TypeOK, SynAccepted
<1>6. ASSUME NEW o \in Made
      PROVE  sessions'[made'[o]] = o <=> sessions[made[o]] = o
  <2>1. made[o] \in Dialers /\ made'[o] = made[o] /\ o # n /\ o # NoSession
    BY <1>1, <1>2, <1>3, <1>4 DEF NoSession
  <2> QED
    BY <2>1, <1>5
<1>7. sessions'[made'[n]] = n
  BY <1>3, <1>5
<1>8. Mapped' = Mapped \cup {n}
  <2>1. \A o \in Made' : o \in Made \/ o = n
    BY <1>2, <1>4
  <2>2. n \in Made' /\ Made \subseteq Made'
    BY <1>2, <1>4
  <2> QED
    BY <2>1, <2>2, <1>6, <1>7 DEF Mapped
<1> QED
  BY <1>2, <1>3, <1>4, <1>8

\* Taking an id out of the map takes out whoever it was mapped to, and nobody else.
LEMMA UnmapsOne ==
  ASSUME TypeOK, NEW o \in Made, made' = made,
         sessions' = [sessions EXCEPT ![made[o]] = NoSession]
  PROVE  Made' = Made /\ Mapped' = {p \in Mapped : made[p] # made[o]}
<1>1. Made' = Made
  BY DEF Made
<1>2. \A p \in Made : sessions'[made[p]] = (IF made[p] = made[o] THEN NoSession ELSE sessions[made[p]])
  BY MadeFacts DEF TypeOK
<1>3. \A p \in Made : p # NoSession
  BY MadeFacts
<1> QED
  BY <1>1, <1>2, <1>3 DEF Mapped

LEMMA Initially == Init => IInv
<1> SUFFICES ASSUME Init PROVE IInv
  OBVIOUS
<1> USE DEF Init
<1>1. Made = {} /\ Mapped = {} /\ Len(made) = 0 /\ Len(acceptCh) = 0
  BY DEF Made, Mapped
<1>2. TypeOK
  BY <1>1, ListenerAssumption DEF TypeOK
<1>3. Bounded
  BY <1>1, FS_EmptySet, ListenerAssumption DEF Bounded
<1> QED
  BY <1>1, <1>2, <1>3 DEF IInv, LiveIsRoutable, CallbackRemoves

-----------------------------------------------------------------------------
(***************************************************************************)
(* One step at a time.                                                     *)
(***************************************************************************)
\* What Mapped is computed from is untouched.
LEMMA SameMap ==
  ASSUME UNCHANGED <<made, sessions>>
  PROVE  Made' = Made /\ Mapped' = Mapped
BY DEF Made, Mapped

\* The dialers and the answers to them touch nothing of the listener.
LEMMA FramesKeep ==
  ASSUME IInv, UNCHANGED listenerVars,
         dial' \in [Dialers -> {"idle", "dialing", "open", "failed", "closed"}],
         handshake' \in [Dialers -> {"no", "synack", "rst", "error", "stop"}],
         sent' \subseteq {"SYN", "SYNACK", "RST"} \X Dialers
  PROVE  IInv'
<1> USE DEF listenerVars
<1>1. Made' = Made /\ Mapped' = Mapped
  BY SameMap
<1>2. TypeOK'
  BY DEF TypeOK, IInv
<1> QED
  BY <1>1, <1>2 DEF IInv, Bounded, LiveIsRoutable, CallbackRemoves

LEMMA DialerKeeps ==
  ASSUME IInv, NEW c \in Dialers, Dialer(c)
  PROVE  IInv'
<1>1. /\ dial \in [Dialers -> {"idle", "dialing", "open", "failed", "closed"}]
      /\ handshake \in [Dialers -> {"no", "synack", "rst", "error", "stop"}]
      /\ sent \subseteq {"SYN", "SYNACK", "RST"} \X Dialers
  BY DEF IInv, TypeOK
<1>2. CASE SendSyn(c)
  BY <1>1, <1>2, FramesKeep DEF SendSyn
<1>3. CASE DialerReceives(c)
  BY <1>1, <1>3, FramesKeep DEF DialerReceives
<1>4. CASE DialReturns(c)
  BY <1>1, <1>4, FramesKeep DEF DialReturns
<1>5. CASE DialFails(c)
  BY <1>1, <1>5, FramesKeep DEF DialFails
<1>6. CASE DialerCloses(c)
  BY <1>1, <1>6, FramesKeep DEF DialerCloses
<1>7. CASE DialerReadFails(c)
  BY <1>1, <1>7, FramesKeep DEF DialerReadFails
<1> QED
  BY <1>2, <1>3, <1>4, <1>5, <1>6, <1>7 DEF Dialer

LEMMA DispatchKeeps ==
  ASSUME IInv, NEW c \in Dialers, Dispatch(c)
  PROVE  IInv'
<1>1. /\ dial \in [Dialers -> {"idle", "dialing", "open", "failed", "closed"}]
      /\ handshake \in [Dialers -> {"no", "synack", "rst", "error", "stop"}]
      /\ sent \subseteq {"SYN", "SYNACK", "RST"} \X Dialers
  BY DEF IInv, TypeOK
<1>2. CASE SynKnown(c)
  BY <1>1, <1>2, FramesKeep DEF SynKnown, Reply, dialerVars
<1>3. CASE SynRefused(c)
  BY <1>1, <1>3, FramesKeep DEF SynRefused, Reply, dialerVars
<1>4. CASE SynAccepted(c)
  <2> DEFINE n == Len(made) + 1
  <2>1. /\ Mapped' = Mapped \cup {n} /\ Made' = Made \cup {n}
        /\ n \in Value /\ n \notin Made
    BY <1>4, NewIsMapped DEF IInv
  <2>2. /\ made' = Append(made, c) /\ sessions' = [sessions EXCEPT ![c] = n]
        /\ acceptCh' = Append(acceptCh, n) /\ Len(made) < MaxMade
        /\ Cardinality(Mapped) < MaxSessions /\ Len(acceptCh) < Backlog
        /\ lclose \in {"no", "lock"}
        /\ UNCHANGED <<closed, app, onClosed, lmu, lclose, dial, handshake, orphaned>>
        /\ sent' \subseteq {"SYN", "SYNACK", "RST"} \X Dialers
    <3>1. Cardinality(Mapped) \in Int
      BY MadeFacts, FS_Subset, FS_CardinalityType DEF IInv, Mapped
    <3>2. Len(acceptCh) \in Int
      BY DEF IInv, TypeOK
    <3> QED
      BY <1>1, <1>4, <3>1, <3>2, ListenerAssumption
      DEF SynAccepted, TooMany, QueueFull, MuFree, Reply, dialerVars
  <2>3. TypeOK'
    <3>1. made' \in Seq(Dialers) /\ Len(made') <= MaxMade
      BY <2>2, ListenerAssumption DEF IInv, TypeOK
    <3>2. acceptCh' \in Seq(Value)
      BY <2>1, <2>2 DEF IInv, TypeOK
    <3>3. sessions' \in [Dialers -> Value \cup {NoSession}]
      BY <2>1, <2>2 DEF IInv, TypeOK
    <3> QED
      BY <2>2, <3>1, <3>2, <3>3 DEF IInv, TypeOK
  <2>4. Bounded'
    <3>1. IsFiniteSet(Mapped) /\ n \notin Mapped
      BY <2>1, MadeFacts, FS_Subset DEF IInv, Mapped
    <3>2. Cardinality(Mapped') = Cardinality(Mapped) + 1 /\ Cardinality(Mapped) \in Nat
      BY <2>1, <3>1, FS_AddElement, FS_CardinalityType
    <3>3. Len(acceptCh') = Len(acceptCh) + 1 /\ Len(acceptCh) \in Nat
      BY <2>1, <2>2 DEF IInv, TypeOK
    <3> QED
      BY <2>2, <3>2, <3>3, ListenerAssumption DEF Bounded
  <2>5. LiveIsRoutable'
    BY <2>1, <2>2 DEF IInv, LiveIsRoutable
  <2>6. CallbackRemoves'
    BY <2>1, <2>2 DEF IInv, CallbackRemoves
  <2> QED
    BY <2>3, <2>4, <2>5, <2>6 DEF IInv
<1> QED
  BY <1>2, <1>3, <1>4 DEF Dispatch
\* Accept and the two first steps of Close leave map, queue limits and sessions alone.
LEMMA ApplicationKeeps ==
  ASSUME IInv,
         \/ Accept
         \/ \E o \in Made : AppCloseLate(o) \/ AppClose(o) \/ AppForceClose(o)
  PROVE  IInv'
<1> USE DEF IInv
<1>1. Made \subseteq Value
  BY MadeFacts
<1>2. /\ UNCHANGED <<made, sessions, onClosed, lmu, lclose, dial, handshake, sent, orphaned>>
      /\ closed \subseteq closed'
  BY DEF Accept, AppCloseLate, AppClose, AppForceClose, dialerVars
<1>3. Made' = Made /\ Mapped' = Mapped
  BY <1>2, SameMap
<1>4. CASE Accept
  <2>1. /\ acceptCh \in Seq(Value) /\ acceptCh # <<>> /\ acceptCh' = Tail(acceptCh)
        /\ app' = [app EXCEPT ![Head(acceptCh)] = "uses"] /\ closed' = closed
    BY <1>4 DEF Accept, TypeOK
  <2>2. acceptCh' \in Seq(Value) /\ Len(acceptCh') <= Backlog
    <3>1. Len(acceptCh) <= Backlog /\ Len(acceptCh') = Len(acceptCh) - 1
          /\ Len(acceptCh) \in Nat /\ acceptCh' \in Seq(Value)
      BY <2>1 DEF Bounded
    <3> QED
      BY <3>1, ListenerAssumption
  <2>3. TypeOK'
    BY <1>2, <2>1, <2>2 DEF TypeOK
  <2>4. \A o \in Value : app'[o] = "cb" => o \in closed'
    BY <2>1 DEF TypeOK, CallbackRemoves
  <2> QED
    BY <1>2, <1>3, <2>1, <2>2, <2>3, <2>4
    DEF Bounded, LiveIsRoutable, CallbackRemoves
<1>5. ASSUME NEW o \in Made, AppCloseLate(o) \/ AppClose(o) \/ AppForceClose(o)
      PROVE  IInv'
  <2>1. o \in Value /\ acceptCh' = acceptCh /\ closed' \in {closed, closed \cup {o}}
    BY <1>1, <1>5 DEF AppCloseLate, AppClose, AppForceClose
  <2>2. /\ app' \in [Value -> {"none", "uses", "fin", "cb", "gone"}]
        /\ \A p \in Value : app'[p] = "cb" => p \in closed'
    BY <1>5, <2>1 DEF AppCloseLate, AppClose, AppForceClose, TypeOK, CallbackRemoves
  <2>3. TypeOK'
    BY <1>2, <2>1, <2>2 DEF TypeOK
  <2> QED
    BY <1>2, <1>3, <2>1, <2>2, <2>3
    DEF Bounded, LiveIsRoutable, CallbackRemoves
<1> QED
  BY <1>4, <1>5

\* The callback that takes its session out of the map.
LEMMA CallbackKeeps ==
  ASSUME IInv, NEW o \in Made, AppCallback(o)
  PROVE  IInv'
<1> USE DEF IInv
<1>1. o \in Value /\ Made \subseteq Value
  BY MadeFacts
<1>2. /\ UNCHANGED <<made, acceptCh, closed, lmu, lclose, dial, handshake, sent>>
      /\ app' \in [Value -> {"none", "uses", "fin", "cb", "gone"}]
      /\ \A p \in Value : app'[p] = "cb" => p \in closed'
      /\ o \in closed
  BY <1>1 DEF AppCallback, dialerVars, TypeOK, CallbackRemoves
<1>3. CASE UNCHANGED <<sessions, onClosed, orphaned>>
  <2>1. Made' = Made /\ Mapped' = Mapped
    BY <1>2, <1>3, SameMap
  <2>2. TypeOK'
    BY <1>2, <1>3 DEF TypeOK
  <2> QED
    BY <1>2, <1>3, <2>1, <2>2 DEF Bounded, LiveIsRoutable, CallbackRemoves
<1>4. CASE onClosed[o] # "done"
  <2>1. /\ sessions' = Removed(o) /\ onClosed' = [onClosed EXCEPT ![o] = "done"]
        /\ orphaned' = orphaned \cup {p \in Mapped : p \notin closed /\ sessions'[made[p]] # p}
    BY <1>4 DEF AppCallback
  <2>2. Made' = Made
    BY <1>2 DEF Made
  <2>3. /\ Mapped' = {p \in Mapped : sessions'[made[p]] = p}
        /\ lclose = "returned" => Mapped' = Mapped
        /\ lclose # "returned" => Mapped' = {p \in Mapped : made[p] # made[o]}
    <3>1. CASE lclose = "returned"
      BY <1>2, <2>1, <2>2, <3>1 DEF Removed, Mapped
    <3>2. CASE lclose # "returned"
      <4>1. sessions' = [sessions EXCEPT ![made[o]] = NoSession]
        BY <2>1, <3>2 DEF Removed
      <4>2. Mapped' = {p \in Mapped : made[p] # made[o]}
        BY <1>2, <4>1, UnmapsOne
      <4>3. \A p \in Mapped' : sessions'[made[p]] = p
        BY <1>2 DEF Mapped
      <4>4. \A p \in Made : sessions'[made[p]] = p => p \in Mapped'
        BY <1>2, <2>2 DEF Mapped
      <4> QED
        BY <3>2, <4>2, <4>3, <4>4 DEF Mapped
    <3> QED
      BY <3>1, <3>2
  <2>4. TypeOK'
    <3>1. sessions' \in [Dialers -> Value \cup {NoSession}]
      BY <2>1, MadeFacts DEF Removed, TypeOK
    <3>2. orphaned' \subseteq Value
      BY <1>1, <2>1 DEF TypeOK, Mapped
    <3>3. onClosed' \in [Value -> {"no", "runs", "done"}]
      BY <2>1, <1>1 DEF TypeOK
    <3> QED
      BY <1>2, <3>1, <3>2, <3>3 DEF TypeOK
  <2>5. Bounded'
    BY <1>2, <2>3, LimitKept DEF Bounded
  <2>6. \A p \in Mapped : p \in Mapped' \/ p \in closed \/ p \in orphaned'
    BY <2>1, <2>3
  <2>7. ~IdleSweeps => orphaned' = {}
    <3>1. CASE lclose = "returned"
      BY <2>1, <3>1 DEF CallbackRemoves
    <3>2. CASE ~IdleSweeps /\ lclose # "returned"
      <4>1. o \in Mapped
        BY <1>4, <3>2 DEF CallbackRemoves
      <4>2. \A p \in Mapped : p \notin Mapped' => p = o
        BY <2>3, <3>2, <4>1, OneValuePerId
      <4> QED
        BY <1>2, <2>1, <2>3, <3>2, <4>2 DEF CallbackRemoves
    <3> QED
      BY <3>1, <3>2
  <2>8. LiveIsRoutable'
    <3> SUFFICES ASSUME NEW p \in Made, p \notin closed
                 PROVE  p \in Mapped' \/ (IdleSweeps /\ p \in orphaned')
      BY <1>2, <2>2 DEF LiveIsRoutable
    <3>1. p \in Mapped \/ (IdleSweeps /\ p \in orphaned)
      BY DEF LiveIsRoutable
    <3>2. orphaned \subseteq orphaned'
      BY <2>1
    <3> QED
      BY <2>6, <2>7, <3>1, <3>2
  <2>9. ~IdleSweeps /\ lclose # "returned" =>
           \A p \in Made : onClosed'[p] # "done" => p \in Mapped'
    <3> SUFFICES ASSUME ~IdleSweeps, lclose # "returned", NEW p \in Made, onClosed'[p] # "done"
                 PROVE  p \in Mapped'
      OBVIOUS
    <3>1. p # o /\ onClosed[p] # "done"
      BY <1>1, <2>1 DEF TypeOK
    <3>2. p \in Mapped /\ o \in Mapped
      BY <1>4, <3>1 DEF CallbackRemoves
    <3> QED
      BY <2>3, <3>1, <3>2, OneValuePerId
  <2>10. lclose = "returned" => Mapped' = {}
    BY <2>3 DEF CallbackRemoves
  <2> QED
    BY <1>2, <2>2, <2>4, <2>5, <2>7, <2>8, <2>9, <2>10 DEF CallbackRemoves
<1> QED
  BY <1>3, <1>4 DEF AppCallback

\* A sweep closes what it unmaps.
LEMMA SweepKeeps ==
  ASSUME IInv, NEW o \in Made, IdleSweep(o)
  PROVE  IInv'
<1> USE DEF IInv
<1>1. /\ IdleSweeps /\ lclose \in {"no", "lock"} /\ o \in Mapped /\ o \in Value
      /\ closed' = closed \cup {o} /\ sessions' = [sessions EXCEPT ![made[o]] = NoSession]
      /\ UNCHANGED <<made, acceptCh, app, onClosed, lmu, lclose, dial, handshake, sent, orphaned>>
  BY MadeFacts DEF IdleSweep, MuFree, dialerVars
<1>2. Made' = Made /\ Mapped' = {p \in Mapped : made[p] # made[o]}
  BY <1>1, UnmapsOne
<1>3. \A p \in Mapped : p \in Mapped' \/ p = o
  BY <1>1, <1>2, OneValuePerId
<1>4. TypeOK'
  <2>1. sessions' \in [Dialers -> Value \cup {NoSession}]
    BY <1>1 DEF TypeOK
  <2> QED
    BY <1>1, <2>1 DEF TypeOK
<1>5. Bounded'
  BY <1>1, <1>2, LimitKept DEF Bounded
<1>6. LiveIsRoutable'
  BY <1>1, <1>2, <1>3 DEF LiveIsRoutable
<1> QED
  BY <1>1, <1>2, <1>4, <1>5, <1>6 DEF CallbackRemoves

LEMMA CloseKeeps ==
  ASSUME IInv, ListenerClose
  PROVE  IInv'
<1> USE DEF IInv
<1>1. CASE CloseSocket \/ CloseLocks
  <2>1. /\ lclose # "returned" /\ lclose' \in {"lock", "loop"} /\ lmu' \in {"free", "closer"}
        /\ UNCHANGED <<made, sessions, acceptCh, closed, app, onClosed, dial, handshake, sent, orphaned>>
    BY <1>1 DEF CloseSocket, CloseLocks, dialerVars, TypeOK
  <2>2. Made' = Made /\ Mapped' = Mapped
    BY <2>1, SameMap
  <2>3. TypeOK'
    BY <2>1 DEF TypeOK
  <2> QED
    BY <2>1, <2>2, <2>3 DEF Bounded, LiveIsRoutable, CallbackRemoves
<1>2. ASSUME NEW o \in Value, CloseSession(o)
      PROVE  IInv'
  <2>1. /\ lclose = "loop" /\ lclose' \in {"loop", "stuck"} /\ closed' = closed \cup {o}
        /\ onClosed' \in [Value -> {"no", "runs", "done"}]
        /\ \A p \in Value : onClosed'[p] # "done" => onClosed[p] # "done"
        /\ UNCHANGED <<made, sessions, acceptCh, app, lmu, dial, handshake, sent, orphaned>>
    BY <1>2 DEF CloseSession, dialerVars, TypeOK
  <2>2. Made' = Made /\ Mapped' = Mapped /\ Made \subseteq Value
    BY <2>1, SameMap, MadeFacts
  <2>3. TypeOK'
    BY <2>1 DEF TypeOK
  <2> QED
    BY <2>1, <2>2, <2>3 DEF Bounded, LiveIsRoutable, CallbackRemoves
<1>3. CASE CloseUnlocks
  <2>1. /\ \A o \in Mapped : o \in closed
        /\ sessions' = [c \in Dialers |-> NoSession] /\ lmu' = "free" /\ lclose' = "returned"
        /\ UNCHANGED <<made, acceptCh, closed, app, onClosed, dial, handshake, sent, orphaned>>
    BY <1>3 DEF CloseUnlocks, dialerVars
  <2>2. Made' = Made /\ Mapped' = {}
    BY <2>1, MadeFacts DEF Made, Mapped
  <2>3. TypeOK'
    BY <2>1 DEF TypeOK
  <2>4. Bounded'
    BY <2>1, <2>2, LimitKept DEF Bounded
  <2>5. LiveIsRoutable'
    BY <2>1, <2>2 DEF LiveIsRoutable
  <2> QED
    BY <2>1, <2>2, <2>3, <2>4, <2>5 DEF CallbackRemoves
<1> QED
  BY <1>1, <1>2, <1>3 DEF ListenerClose

\* Every step of dialers, path, application, timers and Close keeps the invariant.
LEMMA StepKeeps == IInv /\ [Next]_vars => IInv'
<1> SUFFICES ASSUME IInv, [Next]_vars PROVE IInv'
  OBVIOUS
<1>1. ASSUME NEW c \in Dialers, Dialer(c) \/ Dispatch(c) PROVE IInv'
  BY <1>1, DialerKeeps, DispatchKeeps
<1>2. CASE Accept
  BY <1>2, ApplicationKeeps
<1>3. ASSUME NEW o \in Made, Application(o) \/ IdleSweep(o) PROVE IInv'
  BY <1>3, ApplicationKeeps, CallbackKeeps, SweepKeeps DEF Application
<1>4. CASE ListenerClose
  BY <1>4, CloseKeeps
<1>5. CASE UNCHANGED vars
  BY <1>5, FramesKeep DEF vars, listenerVars, IInv, TypeOK
<1> QED
  BY <1>1, <1>2, <1>3, <1>4, <1>5 DEF Next

LEMMA AlwaysIInv == Spec => []IInv
BY Initially, StepKeeps, PTL DEF Spec

-----------------------------------------------------------------------------
\* The fields of the listener and the states of its goroutines keep their types.
THEOREM ListenerTypeCorrect == Spec => []TypeOK
<1>1. IInv => TypeOK
  BY DEF IInv
<1> QED
  BY <1>1, AlwaysIInv, PTL

\* The two limits of limits.go hold for every number of dialers: what counts a
\* session against the limit is its place in the map (dispatch, removeSession).
THEOREM LimitsHold == Spec => []Bounded
<1>1. IInv => Bounded
  BY DEF IInv
<1> QED
  BY <1>1, AlwaysIInv, PTL

\* A session that is not closed is found under its id (dispatch), but for those an
\* idle sweep had removeSession take out; without sweeps there are none.
THEOREM SessionsAreRoutable == Spec => []LiveIsRoutable
<1>1. IInv => LiveIsRoutable
  BY DEF IInv
<1> QED
  BY <1>1, AlwaysIInv, PTL

-----------------------------------------------------------------------------
(***************************************************************************)
(* What PlacesReturn rests on, and what CloseReturns is refuted by.        *)
(***************************************************************************)
Queued == {acceptCh[i] : i \in 1 .. Len(acceptCh)}

\* A value waits in the queue once, before the application has it.
QueueOfNew ==
  /\ \A i, j \in 1 .. Len(acceptCh) : acceptCh[i] = acceptCh[j] => i = j
  /\ \A o \in Queued : o \in Made /\ app[o] = "none"
  /\ \A o \in Value \ Made : app[o] = "none" /\ onClosed[o] = "no" /\ o \notin closed

\* Who is in the map when it is closed is about to be taken out by its own callback, or
\* has been closed by a Close that now waits for itself.
LeavesByCallback ==
  /\ \A o \in Mapped : onClosed[o] # "done"
  /\ \A o \in Mapped : o \in closed => app[o] = "cb" \/ lclose = "stuck"

\* Each place in the map has somebody who will give it back: the queue's reader, or the
\* application on its way through close() and the callback.
NoPlaceIsLost ==
  \A o \in Mapped : o \in Queued \/ app[o] \in {"uses", "fin", "cb"} \/ lclose = "stuck"

PlacesHeld == QueueOfNew /\ LeavesByCallback /\ NoPlaceIsLost

\* Close gets to its end only when it has found nobody in the map; otherwise it waits
\* for l.mu, which it holds, and nothing can change the map or release the lock again.
ClosesWhenEmpty ==
  /\ lclose' = "returned" /\ lclose # "returned" => Mapped = {}
  /\ lclose = "stuck" => lmu = "closer" /\ UNCHANGED <<lclose, lmu, made, sessions>>

CloserHoldsMu == lclose \in {"loop", "stuck"} <=> lmu = "closer"

\* The two ends agree on whom there is a session for.
Agreement ==
  /\ \A c \in Dialers : sessions[c] # NoSession => sessions[c] \in Made /\ made[sessions[c]] = c
  /\ \A c \in Dialers : <<"SYNACK", c>> \in sent => \E o \in Made : made[o] = c
  /\ \A c \in Dialers : <<"SYN", c>> \in sent => dial[c] # "idle"
  /\ \A o \in Made : <<"SYN", made[o]>> \in sent
  /\ \A c \in Dialers : handshake[c] = "synack" => <<"SYNACK", c>> \in sent
  /\ \A c \in Dialers : handshake[c] = "rst" => <<"RST", c>> \in sent
  /\ \A c \in Dialers : handshake[c] = "stop" => dial[c] = "failed"
  /\ \A c \in Dialers : dial[c] = "open" => handshake[c] \in {"synack", "rst", "error"}

-----------------------------------------------------------------------------
\* What is appended to the queue is behind what was there; what leaves it was first.
LEMMA QueueAppended ==
  ASSUME acceptCh \in Seq(Value), NEW n \in Value, acceptCh' = Append(acceptCh, n)
  PROVE  /\ Queued' = Queued \cup {n}
         /\ Len(acceptCh') = Len(acceptCh) + 1 /\ Len(acceptCh) \in Nat
         /\ acceptCh'[Len(acceptCh) + 1] = n
         /\ \A i \in 1 .. Len(acceptCh) : acceptCh'[i] = acceptCh[i]
<1>1. /\ Len(acceptCh') = Len(acceptCh) + 1 /\ Len(acceptCh) \in Nat
      /\ acceptCh'[Len(acceptCh) + 1] = n
      /\ \A i \in 1 .. Len(acceptCh) : acceptCh'[i] = acceptCh[i]
  OBVIOUS
<1>2. \A i \in 1 .. Len(acceptCh') : i \in 1 .. Len(acceptCh) \/ i = Len(acceptCh) + 1
  BY <1>1
<1>3. /\ \A i \in 1 .. Len(acceptCh) : i \in 1 .. Len(acceptCh')
      /\ Len(acceptCh) + 1 \in 1 .. Len(acceptCh')
  BY <1>1
<1> QED
  BY <1>1, <1>2, <1>3 DEF Queued

LEMMA QueueTaken ==
  ASSUME acceptCh \in Seq(Value), acceptCh # <<>>, acceptCh' = Tail(acceptCh)
  PROVE  /\ Len(acceptCh') = Len(acceptCh) - 1 /\ Len(acceptCh) \in Nat \ {0}
         /\ Head(acceptCh) = acceptCh[1] /\ Head(acceptCh) \in Queued /\ Head(acceptCh) \in Value
         /\ \A i \in 1 .. Len(acceptCh') :
              i + 1 \in 1 .. Len(acceptCh) /\ acceptCh'[i] = acceptCh[i + 1]
         /\ Queued' \subseteq Queued /\ Queued \subseteq Queued' \cup {Head(acceptCh)}
<1>1. /\ Len(acceptCh') = Len(acceptCh) - 1 /\ Len(acceptCh) \in Nat \ {0}
      /\ Head(acceptCh) = acceptCh[1] /\ acceptCh[1] \in Value
  OBVIOUS
<1>2. \A i \in 1 .. Len(acceptCh') :
        i + 1 \in 1 .. Len(acceptCh) /\ acceptCh'[i] = acceptCh[i + 1]
  BY <1>1
<1>3. \A i \in 1 .. Len(acceptCh) :
        i = 1 \/ (i - 1 \in 1 .. Len(acceptCh') /\ acceptCh'[i - 1] = acceptCh[i])
  BY <1>1
<1>4. 1 \in 1 .. Len(acceptCh)
  BY <1>1
<1>5. Queued' \subseteq Queued
  BY <1>2 DEF Queued
<1>6. ASSUME NEW o \in Queued
      PROVE  o \in Queued' \/ o = acceptCh[1]
  <2>1. PICK i \in 1 .. Len(acceptCh) : o = acceptCh[i]
    BY DEF Queued
  <2>2. i = 1 \/ (i - 1 \in 1 .. Len(acceptCh') /\ acceptCh'[i - 1] = acceptCh[i])
    BY <1>3
  <2> QED
    BY <2>1, <2>2 DEF Queued
<1>7. acceptCh[1] \in Queued
  BY <1>4 DEF Queued
<1> QED
  BY <1>1, <1>2, <1>5, <1>6, <1>7

LEMMA PlacesInit == Init => PlacesHeld /\ CloserHoldsMu
<1> SUFFICES ASSUME Init PROVE PlacesHeld /\ CloserHoldsMu
  OBVIOUS
<1>1. Made = {} /\ Mapped = {} /\ Len(acceptCh) = 0
  BY DEF Init, Made, Mapped
<1> QED
  BY <1>1
  DEF Init, PlacesHeld, QueueOfNew, LeavesByCallback, NoPlaceIsLost, CloserHoldsMu, Queued

\* A step that touches neither map, nor queue, nor what the goroutines are at.
LEMMA PlacesUntouched ==
  ASSUME PlacesHeld, UNCHANGED <<made, sessions, acceptCh, closed, app, onClosed, lclose>>
  PROVE  PlacesHeld'
<1>1. Made' = Made /\ Mapped' = Mapped /\ Queued' = Queued
  BY SameMap DEF Queued
<1> QED
  BY <1>1 DEF PlacesHeld, QueueOfNew, LeavesByCallback, NoPlaceIsLost

LEMMA PlacesAccepted ==
  ASSUME TypeOK, PlacesHeld, NEW c \in Dialers, SynAccepted(c)
  PROVE  PlacesHeld'
<1> DEFINE n == Len(made) + 1
<1>1. /\ Mapped' = Mapped \cup {n} /\ Made' = Made \cup {n} /\ n \in Value /\ n \notin Made
  BY NewIsMapped
<1>2. /\ acceptCh \in Seq(Value) /\ acceptCh' = Append(acceptCh, n)
      /\ UNCHANGED <<closed, app, onClosed, lclose>>
  BY DEF TypeOK, SynAccepted
<1>3. /\ Queued' = Queued \cup {n}
      /\ Len(acceptCh') = Len(acceptCh) + 1 /\ Len(acceptCh) \in Nat
      /\ acceptCh'[Len(acceptCh) + 1] = n
      /\ \A i \in 1 .. Len(acceptCh) : acceptCh'[i] = acceptCh[i]
  BY <1>1, <1>2, QueueAppended
<1>4. n \notin Queued /\ n \notin closed /\ app[n] = "none" /\ onClosed[n] = "no"
  BY <1>1 DEF PlacesHeld, QueueOfNew
<1> HIDE DEF n
<1>5. \A i, j \in 1 .. Len(acceptCh') : acceptCh'[i] = acceptCh'[j] => i = j
  <2> SUFFICES ASSUME NEW i \in 1 .. Len(acceptCh'), NEW j \in 1 .. Len(acceptCh'),
                      acceptCh'[i] = acceptCh'[j]
               PROVE  i = j
    OBVIOUS
  <2>1. \A k \in 1 .. Len(acceptCh') : k \in 1 .. Len(acceptCh) \/ k = Len(acceptCh) + 1
    BY <1>3
  <2>2. \A k \in 1 .. Len(acceptCh) : acceptCh[k] # n
    BY <1>4 DEF Queued
  <2> QED
    BY <1>3, <2>1, <2>2 DEF PlacesHeld, QueueOfNew
<1>6. QueueOfNew'
  BY <1>1, <1>2, <1>3, <1>4, <1>5 DEF PlacesHeld, QueueOfNew
<1>7. LeavesByCallback'
  BY <1>1, <1>2, <1>4 DEF PlacesHeld, LeavesByCallback
<1>8. NoPlaceIsLost'
  BY <1>1, <1>2, <1>3 DEF PlacesHeld, NoPlaceIsLost
<1> QED
  BY <1>6, <1>7, <1>8 DEF PlacesHeld

LEMMA PlacesTaken ==
  ASSUME TypeOK, PlacesHeld, Accept
  PROVE  PlacesHeld'
<1>1. /\ acceptCh \in Seq(Value) /\ acceptCh # <<>> /\ acceptCh' = Tail(acceptCh)
      /\ UNCHANGED <<made, sessions, closed, onClosed, lclose>>
      /\ app' = [app EXCEPT ![Head(acceptCh)] = "uses"]
      /\ app \in [Value -> {"none", "uses", "fin", "cb", "gone"}]
  BY DEF TypeOK, Accept
<1>2. Made' = Made /\ Mapped' = Mapped /\ Made \subseteq Value /\ Mapped \subseteq Made
  BY <1>1, SameMap, MadeFacts DEF Mapped
<1>3. /\ Len(acceptCh') = Len(acceptCh) - 1 /\ Len(acceptCh) \in Nat \ {0}
      /\ Head(acceptCh) = acceptCh[1] /\ Head(acceptCh) \in Queued /\ Head(acceptCh) \in Value
      /\ \A i \in 1 .. Len(acceptCh') :
           i + 1 \in 1 .. Len(acceptCh) /\ acceptCh'[i] = acceptCh[i + 1]
      /\ Queued' \subseteq Queued /\ Queued \subseteq Queued' \cup {Head(acceptCh)}
  BY <1>1, QueueTaken
<1>4. Head(acceptCh) \notin Queued'
  <2> SUFFICES ASSUME NEW i \in 1 .. Len(acceptCh'), acceptCh'[i] = acceptCh[1]
               PROVE  FALSE
    BY <1>3 DEF Queued
  <2>1. i + 1 \in 1 .. Len(acceptCh) /\ acceptCh[i + 1] = acceptCh[1] /\ 1 \in 1 .. Len(acceptCh)
    BY <1>3
  <2>2. i + 1 = 1
    BY <2>1 DEF PlacesHeld, QueueOfNew
  <2> QED
    BY <1>3, <2>2
<1>5. \A i, j \in 1 .. Len(acceptCh') : acceptCh'[i] = acceptCh'[j] => i = j
  <2> SUFFICES ASSUME NEW i \in 1 .. Len(acceptCh'), NEW j \in 1 .. Len(acceptCh'),
                      acceptCh'[i] = acceptCh'[j]
               PROVE  i = j
    OBVIOUS
  <2>1. i + 1 \in 1 .. Len(acceptCh) /\ j + 1 \in 1 .. Len(acceptCh)
        /\ acceptCh[i + 1] = acceptCh[j + 1]
    BY <1>3
  <2>2. i + 1 = j + 1
    BY <2>1 DEF PlacesHeld, QueueOfNew
  <2> QED
    BY <1>3, <2>2
<1>6. app[Head(acceptCh)] = "none" /\ Head(acceptCh) \in Made
  BY <1>3 DEF PlacesHeld, QueueOfNew
<1>7. QueueOfNew'
  BY <1>1, <1>2, <1>3, <1>4, <1>5, <1>6 DEF PlacesHeld, QueueOfNew
<1>8. LeavesByCallback'
  BY <1>1, <1>2, <1>6 DEF PlacesHeld, LeavesByCallback
<1>9. NoPlaceIsLost'
  BY <1>1, <1>2, <1>3 DEF PlacesHeld, NoPlaceIsLost
<1> QED
  BY <1>7, <1>8, <1>9 DEF PlacesHeld

LEMMA PlacesUsed ==
  ASSUME TypeOK, PlacesHeld, NEW o \in Made, AppCloseLate(o) \/ AppClose(o) \/ AppForceClose(o)
  PROVE  PlacesHeld'
<1>1. /\ UNCHANGED <<made, sessions, acceptCh, onClosed, lclose>>
      /\ app \in [Value -> {"none", "uses", "fin", "cb", "gone"}] /\ o \in Value
      /\ app[o] \in {"uses", "fin"}
  BY MadeFacts DEF TypeOK, AppCloseLate, AppClose, AppForceClose
<1>2. Made' = Made /\ Mapped' = Mapped /\ Queued' = Queued /\ Mapped \subseteq Value
  BY <1>1, SameMap, MadeFacts DEF Queued, Mapped
<1>3. \A p \in Value : p # o => app'[p] = app[p] /\ (p \in closed' <=> p \in closed)
  BY <1>1 DEF AppCloseLate, AppClose, AppForceClose
<1>4. o \notin Queued
  BY <1>1 DEF PlacesHeld, QueueOfNew
<1>5. QueueOfNew'
  <2>1. \A p \in Queued : p \in Value
    BY MadeFacts DEF PlacesHeld, QueueOfNew
  <2> QED
    BY <1>1, <1>2, <1>3, <1>4, <2>1 DEF PlacesHeld, QueueOfNew
<1>6. CASE AppCloseLate(o)
  <2>1. o \in closed /\ app[o] = "uses" /\ closed' = closed
    BY <1>6 DEF AppCloseLate
  <2>2. o \in Mapped => lclose = "stuck"
    BY <2>1 DEF PlacesHeld, LeavesByCallback
  <2>3. LeavesByCallback' /\ NoPlaceIsLost'
    BY <1>1, <1>2, <1>3, <2>1, <2>2 DEF PlacesHeld, LeavesByCallback, NoPlaceIsLost
  <2> QED
    BY <1>5, <2>3 DEF PlacesHeld
<1>7. CASE AppClose(o)
  <2>1. o \notin closed /\ app'[o] = "fin" /\ closed' = closed
    BY <1>1, <1>7 DEF AppClose
  <2>2. LeavesByCallback' /\ NoPlaceIsLost'
    BY <1>1, <1>2, <1>3, <2>1 DEF PlacesHeld, LeavesByCallback, NoPlaceIsLost
  <2> QED
    BY <1>5, <2>2 DEF PlacesHeld
<1>8. CASE AppForceClose(o)
  <2>1. app'[o] = "cb"
    BY <1>1, <1>8 DEF AppForceClose
  <2>2. LeavesByCallback' /\ NoPlaceIsLost'
    BY <1>1, <1>2, <1>3, <2>1 DEF PlacesHeld, LeavesByCallback, NoPlaceIsLost
  <2> QED
    BY <1>5, <2>2 DEF PlacesHeld
<1> QED
  BY <1>6, <1>7, <1>8

LEMMA PlacesReturned ==
  ASSUME TypeOK, CallbackRemoves, PlacesHeld, NEW o \in Made, AppCallback(o)
  PROVE  PlacesHeld'
<1>1. /\ UNCHANGED <<made, acceptCh, closed, lclose>> /\ o \in Value /\ app[o] = "cb"
      /\ app \in [Value -> {"none", "uses", "fin", "cb", "gone"}]
      /\ app' = [app EXCEPT ![o] = "gone"]
      /\ onClosed \in [Value -> {"no", "runs", "done"}]
      /\ onClosed' = [onClosed EXCEPT ![o] = "done"]
  BY MadeFacts DEF TypeOK, AppCallback
<1>2. Made' = Made /\ Queued' = Queued /\ Mapped \subseteq Value /\ Made \subseteq Value
  BY <1>1, MadeFacts DEF Made, Queued, Mapped
<1>3. Mapped' \subseteq Mapped /\ o \notin Mapped'
  <2>1. CASE UNCHANGED sessions /\ (onClosed[o] = "done" \/ lclose = "returned")
    <3>1. Mapped' = Mapped
      BY <1>1, <2>1, SameMap
    <3> QED
      BY <2>1, <3>1 DEF PlacesHeld, LeavesByCallback, CallbackRemoves
  <2>2. CASE sessions' = [sessions EXCEPT ![made[o]] = NoSession]
    BY <1>1, <2>2, UnmapsOne
  <2> QED
    BY <2>1, <2>2 DEF AppCallback, Removed
<1>4. o \notin Queued
  BY <1>1 DEF PlacesHeld, QueueOfNew
<1>5. \A p \in Value : p # o => app'[p] = app[p] /\ onClosed'[p] = onClosed[p]
  BY <1>1
<1>6. QueueOfNew'
  <2>1. \A p \in Queued : p \in Value
    BY MadeFacts DEF PlacesHeld, QueueOfNew
  <2> QED
    BY <1>1, <1>2, <1>4, <1>5, <2>1 DEF PlacesHeld, QueueOfNew
<1>7. LeavesByCallback' /\ NoPlaceIsLost'
  BY <1>1, <1>2, <1>3, <1>5 DEF PlacesHeld, LeavesByCallback, NoPlaceIsLost
<1> QED
  BY <1>6, <1>7 DEF PlacesHeld

LEMMA PlacesSwept ==
  ASSUME TypeOK, PlacesHeld, NEW o \in Made, IdleSweep(o)
  PROVE  PlacesHeld'
<1>1. /\ UNCHANGED <<made, acceptCh, app, onClosed, lclose>> /\ o \in Mapped
      /\ closed' = closed \cup {o} /\ sessions' = [sessions EXCEPT ![made[o]] = NoSession]
  BY DEF IdleSweep
<1>2. /\ Made' = Made /\ Mapped' = {p \in Mapped : made[p] # made[o]} /\ Queued' = Queued
  BY <1>1, UnmapsOne DEF Queued
<1> QED
  BY <1>1, <1>2 DEF PlacesHeld, QueueOfNew, LeavesByCallback, NoPlaceIsLost

LEMMA PlacesClosed ==
  ASSUME TypeOK, PlacesHeld, ListenerClose
  PROVE  PlacesHeld'
<1>1. CASE CloseSocket \/ CloseLocks
  <2>1. /\ UNCHANGED <<made, sessions, acceptCh, closed, app, onClosed>> /\ lclose # "stuck"
    BY <1>1 DEF CloseSocket, CloseLocks
  <2>2. Made' = Made /\ Mapped' = Mapped /\ Queued' = Queued
    BY <2>1, SameMap DEF Queued
  <2> QED
    BY <2>1, <2>2 DEF PlacesHeld, QueueOfNew, LeavesByCallback, NoPlaceIsLost
<1>2. ASSUME NEW o \in Value, CloseSession(o)
      PROVE  PlacesHeld'
  <2>1. /\ UNCHANGED <<made, sessions, acceptCh, app>> /\ o \in Mapped
        /\ closed' = closed \cup {o} /\ onClosed[o] # "done"
        /\ onClosed' = [onClosed EXCEPT ![o] = "runs"] /\ lclose' = "stuck"
    BY <1>2 DEF CloseSession, PlacesHeld, LeavesByCallback
  <2>2. Made' = Made /\ Mapped' = Mapped /\ Queued' = Queued /\ Mapped \subseteq Made
        /\ Made \subseteq Value
    BY <2>1, SameMap, MadeFacts DEF Queued, Mapped
  <2>3. \A p \in Value : onClosed'[p] \in {onClosed[p], "runs"} /\ (p # o => onClosed'[p] = onClosed[p])
    BY <2>1 DEF TypeOK
  <2>4. QueueOfNew'
    BY <2>1, <2>2, <2>3 DEF PlacesHeld, QueueOfNew
  <2> QED
    BY <2>1, <2>2, <2>3, <2>4 DEF PlacesHeld, LeavesByCallback, NoPlaceIsLost
<1>3. CASE CloseUnlocks
  <2>1. /\ UNCHANGED <<made, acceptCh, closed, app, onClosed>>
        /\ sessions' = [c \in Dialers |-> NoSession]
    BY <1>3 DEF CloseUnlocks
  <2>2. Made' = Made /\ Mapped' = {} /\ Queued' = Queued
    BY <2>1, MadeFacts DEF Made, Mapped, Queued
  <2> QED
    BY <2>1, <2>2 DEF PlacesHeld, QueueOfNew, LeavesByCallback, NoPlaceIsLost
<1> QED
  BY <1>1, <1>2, <1>3 DEF ListenerClose

LEMMA PlacesKept ==
  ASSUME IInv, PlacesHeld, [Next]_vars
  PROVE  PlacesHeld'
<1> USE DEF IInv
<1>1. ASSUME NEW c \in Dialers, Dialer(c) \/ SynKnown(c) \/ SynRefused(c)
      PROVE  PlacesHeld'
  BY <1>1, PlacesUntouched
  DEF Dialer, SendSyn, DialerReceives, DialerReadFails, DialReturns, DialFails, DialerCloses, SynKnown,
      SynRefused, listenerVars
<1>2. CASE UNCHANGED vars
  BY <1>2, PlacesUntouched DEF vars
<1> QED
  BY <1>1, <1>2, PlacesAccepted, PlacesTaken, PlacesUsed, PlacesReturned, PlacesSwept, PlacesClosed
  DEF Next, Dispatch, Application

LEMMA MuKept ==
  ASSUME CloserHoldsMu, [Next]_vars
  PROVE  CloserHoldsMu'
<1> USE DEF CloserHoldsMu
<1>1. CASE UNCHANGED <<lmu, lclose>>
  BY <1>1
<1>2. CASE ListenerClose
  BY <1>2 DEF ListenerClose, CloseSocket, CloseLocks, CloseSession, CloseUnlocks
<1> QED
  BY <1>1, <1>2
  DEF Next, Dialer, Dispatch, Application, Accept, SendSyn, DialerReceives, DialerReadFails, DialReturns,
      DialFails, DialerCloses, SynKnown, SynRefused, SynAccepted, AppCloseLate, AppClose,
      AppForceClose, AppCallback, IdleSweep, listenerVars, vars

LEMMA AlwaysHeld == Spec => [](PlacesHeld /\ CloserHoldsMu)
<1>1. IInv /\ PlacesHeld /\ CloserHoldsMu /\ [Next]_vars => PlacesHeld' /\ CloserHoldsMu'
  BY PlacesKept, MuKept
<1> QED
  BY <1>1, PlacesInit, AlwaysIInv, PTL DEF Spec

\* A place in the map is held by a value that the application will find in the queue, uses,
\* or is closing (Accept, close(), onClosed): none is lost to a sweep, a late SYN or a
\* refusal, unless Close waits for itself.  It is what PlacesReturn needs of the code,
\* besides goroutines that run.
THEOREM PlacesAreHeld == Spec => []NoPlaceIsLost
<1>1. PlacesHeld => NoPlaceIsLost
  BY DEF PlacesHeld
<1> QED
  BY <1>1, AlwaysHeld, PTL

\* Listener.Close returns only if no session is left in the map when it has l.mu: with one
\* it calls removeSession, which waits for the lock Close holds, and from then on l.mu and
\* the map are what they are for good.  CloseReturns fails for every number of sessions.
THEOREM CloseNeedsEmptyMap == Spec => [][ClosesWhenEmpty]_vars
<1>1. PlacesHeld /\ CloserHoldsMu /\ [Next]_vars => [ClosesWhenEmpty]_vars
  <2> SUFFICES ASSUME PlacesHeld, CloserHoldsMu, [Next]_vars
               PROVE  ClosesWhenEmpty
    OBVIOUS
  <2>1. ASSUME lclose' = "returned", lclose # "returned"
        PROVE  Mapped = {}
    <3>1. CloseUnlocks
      BY <2>1
      DEF Next, Dialer, Dispatch, Application, Accept, SendSyn, DialerReceives, DialerReadFails, DialReturns,
          DialFails, DialerCloses, SynKnown, SynRefused, SynAccepted, AppCloseLate, AppClose,
          AppForceClose, AppCallback, IdleSweep, ListenerClose, CloseSocket, CloseLocks,
          CloseSession, listenerVars, vars
    <3> QED
      BY <3>1 DEF CloseUnlocks, PlacesHeld, LeavesByCallback
  <2>2. ASSUME lclose = "stuck"
        PROVE  lmu = "closer" /\ UNCHANGED <<lclose, lmu, made, sessions>>
    <3>1. lmu = "closer"
      BY <2>2 DEF CloserHoldsMu
    <3>2. ASSUME NEW o \in Made, AppCallback(o)
          PROVE  UNCHANGED <<lclose, lmu, made, sessions>>
      BY <3>1, <3>2 DEF AppCallback
    <3> QED
      BY <2>2, <3>1, <3>2
      DEF Next, Dialer, Dispatch, Application, Accept, SendSyn, DialerReceives, DialerReadFails, DialReturns,
          DialFails, DialerCloses, SynKnown, SynRefused, SynAccepted, AppCloseLate, AppClose,
          AppForceClose, IdleSweep, ListenerClose, CloseSocket, CloseLocks, MuFree,
          CloseSession, CloseUnlocks, listenerVars, vars
  <2> QED
    BY <2>1, <2>2 DEF ClosesWhenEmpty
<1> QED
  BY <1>1, AlwaysHeld, PTL DEF Spec

-----------------------------------------------------------------------------
(***************************************************************************)
(* The handshake: what a dialer is told, and what the listener has.        *)
(***************************************************************************)
LEMMA AgreementInit == Init => Agreement
<1> SUFFICES ASSUME Init PROVE Agreement
  OBVIOUS
<1>1. Made = {}
  BY DEF Init, Made
<1> QED
  BY <1>1 DEF Init, Agreement

\* A frame of the listener, if it can still be sent, and what was sent stays sent.
LEMMA ReplyFacts ==
  ASSUME NEW t, NEW c, Reply(t, c)
  PROVE  sent \subseteq sent' /\ \A f \in sent' : f \in sent \/ f = <<t, c>>
BY DEF Reply

LEMMA AgreementOfDialer ==
  ASSUME TypeOK, Agreement, NEW c \in Dialers, Dialer(c)
  PROVE  Agreement'
<1>1. /\ dial \in [Dialers -> {"idle", "dialing", "open", "failed", "closed"}]
      /\ handshake \in [Dialers -> {"no", "synack", "rst", "error", "stop"}]
  BY DEF TypeOK
<1>2. UNCHANGED <<made, sessions>> /\ Made' = Made
  BY DEF Dialer, SendSyn, DialerReceives, DialerReadFails, DialReturns, DialFails,
         DialerCloses, listenerVars, Made
<1>3. \A d \in Dialers : d # c => dial'[d] = dial[d] /\ handshake'[d] = handshake[d]
  BY <1>1 DEF Dialer, SendSyn, DialerReceives, DialerReadFails, DialReturns, DialFails, DialerCloses
<1>4. CASE SendSyn(c)
  <2>1. /\ sent' = sent \cup {<<"SYN", c>>} /\ dial'[c] = "dialing" /\ handshake'[c] = handshake[c]
        /\ dial[c] \in {"idle", "dialing"}
    BY <1>1, <1>4 DEF SendSyn
  <2> QED
    BY <1>2, <1>3, <2>1 DEF Agreement
<1>5. CASE DialerReceives(c)
  <2>1. sent' = sent /\ dial' = dial
    BY <1>5 DEF DialerReceives
  <2>2. \/ <<"SYNACK", c>> \in sent /\ handshake'[c] = IF handshake[c] = "no" THEN "synack" ELSE handshake[c]
        \/ <<"RST", c>> \in sent /\ handshake'[c] = IF handshake[c] = "no" THEN "rst" ELSE handshake[c]
    BY <1>1, <1>5 DEF DialerReceives
  <2> QED
    BY <1>2, <1>3, <2>1, <2>2 DEF Agreement
<1>6. CASE DialReturns(c)
  <2>1. /\ sent' = sent /\ dial'[c] = "open" /\ dial[c] = "dialing" /\ handshake' = handshake
        /\ handshake[c] # "no"
    BY <1>1, <1>6 DEF DialReturns
  <2>2. handshake[c] \in {"synack", "rst", "error"}
    BY <1>1, <2>1 DEF Agreement
  <2> QED
    BY <1>2, <1>3, <2>1, <2>2 DEF Agreement
<1>7. CASE DialFails(c)
  <2>1. /\ sent' = sent /\ dial'[c] = "failed"
        /\ handshake'[c] = IF handshake[c] = "no" THEN "stop" ELSE handshake[c]
    BY <1>1, <1>7 DEF DialFails
  <2> QED
    BY <1>2, <1>3, <2>1 DEF Agreement
<1>8. CASE DialerCloses(c)
  <2>1. sent' = sent /\ dial[c] = "open" /\ dial'[c] = "closed" /\ handshake' = handshake
    BY <1>1, <1>8 DEF DialerCloses
  <2> QED
    BY <1>2, <1>3, <2>1 DEF Agreement
<1>9. CASE DialerReadFails(c)
  <2>1. /\ sent' = sent /\ dial' = dial
        /\ handshake'[c] = IF handshake[c] = "no" THEN "error" ELSE handshake[c]
    BY <1>1, <1>9 DEF DialerReadFails
  <2> QED
    BY <1>2, <1>3, <2>1 DEF Agreement
<1> QED
  BY <1>4, <1>5, <1>6, <1>7, <1>8, <1>9 DEF Dialer

LEMMA AgreementOfDispatch ==
  ASSUME TypeOK, Agreement, NEW c \in Dialers, Dispatch(c)
  PROVE  Agreement'
<1>1. CASE SynKnown(c)
  <2>1. /\ UNCHANGED <<made, sessions, dial, handshake>> /\ sessions[c] # NoSession
        /\ sent \subseteq sent' /\ \A f \in sent' : f \in sent \/ f = <<"SYNACK", c>>
    BY <1>1, ReplyFacts DEF SynKnown, listenerVars, dialerVars
  <2>2. Made' = Made /\ \E o \in Made : made[o] = c
    BY <2>1 DEF Made, Agreement
  <2> QED
    BY <2>1, <2>2 DEF Agreement
<1>2. CASE SynRefused(c)
  <2>1. /\ UNCHANGED <<made, sessions, dial, handshake>>
        /\ sent \subseteq sent' /\ \A f \in sent' : f \in sent \/ f = <<"RST", c>>
    BY <1>2, ReplyFacts DEF SynRefused, listenerVars, dialerVars
  <2>2. Made' = Made
    BY <2>1 DEF Made
  <2> QED
    BY <2>1, <2>2 DEF Agreement
<1>3. CASE SynAccepted(c)
  <2> DEFINE n == Len(made) + 1
  <2>1. /\ Made' = Made \cup {n} /\ n \in Value /\ \A o \in Made : made'[o] = made[o]
    BY <1>3, NewIsMapped
  <2>2. /\ UNCHANGED <<dial, handshake>> /\ <<"SYN", c>> \in sent
        /\ sessions' = [sessions EXCEPT ![c] = n] /\ sessions \in [Dialers -> Value \cup {NoSession}]
        /\ sent \subseteq sent' /\ \A f \in sent' : f \in sent \/ f = <<"SYNACK", c>>
    BY <1>3, ReplyFacts DEF SynAccepted, dialerVars, TypeOK
  <2>3. made'[n] = c
    BY <1>3 DEF SynAccepted, TypeOK
  <2> HIDE DEF n
  <2>4. \A d \in Dialers : sessions'[d] # NoSession => sessions'[d] \in Made' /\ made'[sessions'[d]] = d
    <3> TAKE d \in Dialers
    <3>1. CASE d = c
      BY <2>1, <2>2, <2>3, <3>1
    <3>2. CASE d # c
      BY <2>1, <2>2, <3>2 DEF Agreement
    <3> QED
      BY <3>1, <3>2
  <2>5. \A d \in Dialers : <<"SYNACK", d>> \in sent' => \E o \in Made' : made'[o] = d
    BY <2>1, <2>2, <2>3 DEF Agreement
  <2>6. \A o \in Made' : <<"SYN", made'[o]>> \in sent'
    BY <2>1, <2>2, <2>3 DEF Agreement
  <2>7. \A d \in Dialers : <<"SYN", d>> \in sent' => dial'[d] # "idle"
    BY <2>2 DEF Agreement
  <2> QED
    BY <2>2, <2>4, <2>5, <2>6, <2>7 DEF Agreement
<1> QED
  BY <1>1, <1>2, <1>3 DEF Dispatch

\* The others send nothing and map nobody; what they take out of the map is gone.
LEMMA AgreementOfOthers ==
  ASSUME Agreement, UNCHANGED <<made, dialerVars, sent>>,
         \A c \in Dialers : sessions'[c] \in {sessions[c], NoSession}
  PROVE  Agreement'
<1>1. Made' = Made
  BY DEF Made
<1> QED
  BY <1>1 DEF Agreement, dialerVars

LEMMA AgreementKept ==
  ASSUME IInv, Agreement, [Next]_vars
  PROVE  Agreement'
<1> USE DEF IInv
<1>1. sessions \in [Dialers -> Value \cup {NoSession}] /\ \A o \in Made : made[o] \in Dialers
  BY MadeFacts DEF TypeOK
<1>2. CASE UNCHANGED vars \/ Accept
  BY <1>2, AgreementOfOthers DEF vars, dialerVars, Accept
<1>3. ASSUME NEW o \in Made, Application(o) \/ IdleSweep(o)
      PROVE  Agreement'
  <2>1. UNCHANGED <<made, dialerVars, sent>>
    BY <1>3 DEF Application, AppCloseLate, AppClose, AppForceClose, AppCallback, IdleSweep
  <2>2. sessions' = sessions \/ sessions' = [sessions EXCEPT ![made[o]] = NoSession]
    BY <1>3 DEF Application, AppCloseLate, AppClose, AppForceClose, AppCallback, IdleSweep, Removed
  <2>3. \A c \in Dialers : sessions'[c] \in {sessions[c], NoSession}
    BY <1>1, <2>2
  <2> QED
    BY <2>1, <2>3, AgreementOfOthers
<1>4. CASE ListenerClose
  <2>1. UNCHANGED <<made, dialerVars, sent>>
    BY <1>4 DEF ListenerClose, CloseSocket, CloseLocks, CloseSession, CloseUnlocks
  <2>2. sessions' = sessions \/ sessions' = [c \in Dialers |-> NoSession]
    BY <1>4 DEF ListenerClose, CloseSocket, CloseLocks, CloseSession, CloseUnlocks
  <2> QED
    BY <2>1, <2>2, AgreementOfOthers
<1> QED
  BY <1>2, <1>3, <1>4, AgreementOfDialer, AgreementOfDispatch DEF Next

\* Dial and dispatch, with frames lost, delayed and repeated, reading that fails and Close
\* at any point: what a dialer was told when it got its connection was so, and no session
\* is made for an id nobody dialled.
THEOREM HandshakeAgrees == Spec => []DialersAreServed
<1>1. TypeOK /\ Agreement => DialersAreServed
  BY MadeFacts DEF Agreement, DialersAreServed
<1>2. Spec => []Agreement
  BY AgreementInit, AgreementKept, AlwaysIInv, PTL DEF Spec
<1> QED
  BY <1>1, <1>2, ListenerTypeCorrect, PTL
=============================================================================
