---------------------------- MODULE TunnelListener ----------------------------
(***************************************************************************)
(* Setting up and taking down tunnel sessions: the acceptor's Listener     *)
(* (common/udptunnel/listener.go) with its sessions map, accept queue,     *)
(* l.mu, idle sweep and Close, and the dialers of dial.go.  What a session *)
(* does once it is established is TunnelSession.                           *)
(*                                                                         *)
(* A dialer's session id is random, so a dialer stands for its id.  The    *)
(* listener makes a session value when it sees a SYN for an id it does not *)
(* know; the values are numbered in the order they are made.  A frame that *)
(* was sent can arrive any number of times, or never.                      *)
(***************************************************************************)
EXTENDS Integers, Sequences, FiniteSets

CONSTANTS
  Dialers,       \* the processes that call Dial, each with its session id
  MaxSessions,   \* most sessions in the map (256 in the code)
  Backlog,       \* capacity of acceptCh (32 in the code)
  MaxMade,       \* bound: session values made in a behaviour
  IdleSweeps,    \* whether the idle timeout can expire
  ListenerCloses \* whether the application closes the listener

ASSUME ListenerAssumption ==
  /\ IsFiniteSet(Dialers)
  /\ MaxSessions \in Nat \ {0} /\ Backlog \in Nat \ {0} /\ MaxMade \in Nat
  /\ IdleSweeps \in BOOLEAN /\ ListenerCloses \in BOOLEAN

Value == 1 .. MaxMade
NoSession == 0

VARIABLES
  made,      \* the ids of the session values put in the map so far, in order
  sessions,  \* l.sessions: the value mapped to each id, or NoSession
  acceptCh,  \* the queue of connections nobody has accepted yet
  closed,    \* session values that are closed
  app,       \* goroutine using the value: "none", "uses", "fin" (in close()),
             \* "cb" (about to call onClosed), "gone"
  onClosed,  \* closeCb of each value: "no", "runs" or "done"
  lmu,       \* holder of l.mu across steps: "free" or "closer"
  lclose,    \* Listener.Close: "no", "lock", "loop", "stuck" or "returned"
  dial,      \* each dialer: "idle", "dialing", "open", "failed" or "closed"
  handshake, \* what closed s.handshake: "no", "synack", "rst", "error" or "stop"
  sent,      \* every frame ever sent, as <<type, id>>
  orphaned   \* history: values unmapped while open, by removeSession of another

vars == <<made, sessions, acceptCh, closed, app, onClosed, lmu, lclose, dial,
          handshake, sent, orphaned>>

Made == DOMAIN made
Mapped == {o \in Made : sessions[made[o]] = o}

Init ==
  /\ made = <<>>
  /\ sessions = [c \in Dialers |-> NoSession]
  /\ acceptCh = <<>>
  /\ closed = {}
  /\ app = [o \in Value |-> "none"]
  /\ onClosed = [o \in Value |-> "no"]
  /\ lmu = "free" /\ lclose = "no"
  /\ dial = [c \in Dialers |-> "idle"]
  /\ handshake = [c \in Dialers |-> "no"]
  /\ sent = {}
  /\ orphaned = {}

listenerVars == <<made, sessions, acceptCh, closed, app, onClosed, lmu, lclose, orphaned>>
dialerVars == <<dial, handshake>>

-----------------------------------------------------------------------------
(***************************************************************************)
(* DialTimeout.                                                            *)
(***************************************************************************)
SendSyn(c) ==
  /\ dial[c] \in {"idle", "dialing"} /\ handshake[c] \notin {"rst", "error"}
  /\ dial' = [dial EXCEPT ![c] = "dialing"]
  /\ sent' = sent \cup {<<"SYN", c>>}
  /\ UNCHANGED <<listenerVars, handshake>>

\* onPacket on the dialer's session: a SYNACK, or a RST, which also ends the
\* reading goroutine.  Either releases Dial.
DialerReceives(c) ==
  /\ dial[c] \in {"dialing", "open"} /\ handshake[c] \notin {"rst", "error"}
  /\ \/ /\ <<"SYNACK", c>> \in sent
        /\ handshake' = [handshake EXCEPT ![c] = IF @ = "no" THEN "synack" ELSE @]
     \/ /\ <<"RST", c>> \in sent
        /\ handshake' = [handshake EXCEPT ![c] = IF @ = "no" THEN "rst" ELSE @]
  /\ UNCHANGED <<listenerVars, dial, sent>>

\* The reading goroutine stops at an error that is no timeout, before the first SYN or
\* later; its shutdown closes the session, and with that s.handshake.
DialerReadFails(c) ==
  /\ dial[c] \in {"idle", "dialing", "open"} /\ handshake[c] \notin {"rst", "error"}
  /\ handshake' = [handshake EXCEPT ![c] = IF @ = "no" THEN "error" ELSE @]
  /\ UNCHANGED <<listenerVars, dial, sent>>

\* The select sees s.handshake closed and returns a connection.
DialReturns(c) ==
  /\ dial[c] = "dialing" /\ handshake[c] # "no"
  /\ dial' = [dial EXCEPT ![c] = "open"]
  /\ UNCHANGED <<listenerVars, handshake, sent>>

\* The deadline or the context ends the dial, even if an answer is there too; or the
\* first SYN could not be written.
DialFails(c) ==
  /\ dial[c] \in {"idle", "dialing"}
  /\ dial' = [dial EXCEPT ![c] = "failed"]
  /\ handshake' = [handshake EXCEPT ![c] = IF @ = "no" THEN "stop" ELSE @]
  /\ UNCHANGED <<listenerVars, sent>>

DialerCloses(c) ==
  /\ dial[c] = "open"
  /\ dial' = [dial EXCEPT ![c] = "closed"]
  /\ UNCHANGED <<listenerVars, handshake, sent>>

-----------------------------------------------------------------------------
(***************************************************************************)
(* dispatch of a SYN, with l.mu held.  A frame read just before Close may  *)
(* still be dispatched after it, but nothing can be sent by then.          *)
(***************************************************************************)
MuFree == lmu = "free" /\ lclose \in {"no", "lock"}

Reply(t, c) == sent' = IF lclose = "no" THEN sent \cup {<<t, c>>} ELSE sent

\* Mutant: the limit is checked one session late.
TooMany_Late == Cardinality(Mapped) > MaxSessions

TooMany == Cardinality(Mapped) >= MaxSessions
QueueFull == Len(acceptCh) >= Backlog

SynKnown(c) ==
  /\ MuFree /\ <<"SYN", c>> \in sent /\ sessions[c] # NoSession
  /\ Reply("SYNACK", c)
  /\ UNCHANGED <<listenerVars, dialerVars>>

\* Mutant: a SYN that is turned away is answered like one that is known.
SynRefused_Synack(c) ==
  /\ MuFree /\ <<"SYN", c>> \in sent /\ sessions[c] = NoSession
  /\ TooMany \/ QueueFull
  /\ Reply("SYNACK", c)
  /\ UNCHANGED <<listenerVars, dialerVars>>

\* The map is full, or the queue is: in the second case the new value was put
\* in the map, and is taken out and closed before l.mu is released.
SynRefused(c) ==
  /\ MuFree /\ <<"SYN", c>> \in sent /\ sessions[c] = NoSession
  /\ TooMany \/ QueueFull
  /\ Reply("RST", c)
  /\ UNCHANGED <<listenerVars, dialerVars>>

SynAccepted(c) ==
  /\ MuFree /\ <<"SYN", c>> \in sent /\ sessions[c] = NoSession
  /\ ~TooMany /\ ~QueueFull /\ Len(made) < MaxMade
  /\ made' = Append(made, c)
  /\ sessions' = [sessions EXCEPT ![c] = Len(made) + 1]
  /\ acceptCh' = Append(acceptCh, Len(made) + 1)
  /\ Reply("SYNACK", c)
  /\ UNCHANGED <<closed, app, onClosed, lmu, lclose, dialerVars, orphaned>>

-----------------------------------------------------------------------------
(***************************************************************************)
(* The application: Accept, and Close of an accepted connection.           *)
(***************************************************************************)
\* The select in Accept may still hand out a queued connection after Close.
Accept ==
  /\ acceptCh # <<>>
  /\ app' = [app EXCEPT ![Head(acceptCh)] = "uses"]
  /\ acceptCh' = Tail(acceptCh)
  /\ UNCHANGED <<made, sessions, closed, onClosed, lmu, lclose, dialerVars, sent, orphaned>>

\* close() finds the session closed already and returns; onClosed is not called.
AppCloseLate(o) ==
  /\ app[o] = "uses" /\ o \in closed
  /\ app' = [app EXCEPT ![o] = "gone"]
  /\ UNCHANGED <<made, sessions, acceptCh, closed, onClosed, lmu, lclose, dialerVars, sent, orphaned>>

AppClose(o) ==
  /\ app[o] = "uses" /\ o \notin closed
  /\ app' = [app EXCEPT ![o] = "fin"]
  /\ UNCHANGED <<made, sessions, acceptCh, closed, onClosed, lmu, lclose, dialerVars, sent, orphaned>>

\* Mutant: onClosed is not called after close().
AppForceClose_Silent(o) ==
  /\ app[o] = "fin"
  /\ closed' = closed \cup {o}
  /\ app' = [app EXCEPT ![o] = "gone"]
  /\ UNCHANGED <<made, sessions, acceptCh, onClosed, lmu, lclose, dialerVars, sent, orphaned>>

AppForceClose(o) ==
  /\ app[o] = "fin"
  /\ closed' = closed \cup {o}
  /\ app' = [app EXCEPT ![o] = "cb"]
  /\ UNCHANGED <<made, sessions, acceptCh, onClosed, lmu, lclose, dialerVars, sent, orphaned>>

\* removeSession deletes whatever value the id is mapped to.
Removed(o) == IF lclose = "returned" THEN sessions ELSE [sessions EXCEPT ![made[o]] = NoSession]

\* invokeClosed; closeCb.Do returns at once when the callback has run.
AppCallback(o) ==
  /\ app[o] = "cb" /\ onClosed[o] \in {"no", "done"}
  /\ IF onClosed[o] = "done" THEN UNCHANGED <<sessions, onClosed, orphaned>>
     ELSE /\ lmu = "free"
          /\ sessions' = Removed(o)
          /\ onClosed' = [onClosed EXCEPT ![o] = "done"]
          /\ orphaned' = orphaned \cup {p \in Mapped : p \notin closed /\ sessions'[made[p]] # p}
  /\ app' = [app EXCEPT ![o] = "gone"]
  /\ UNCHANGED <<made, acceptCh, closed, lmu, lclose, dialerVars, sent>>

-----------------------------------------------------------------------------
\* Mutant: an idle session is taken out of the map and not closed.
IdleSweep_Unclosed(o) ==
  /\ IdleSweeps /\ MuFree /\ o \in Mapped
  /\ sessions' = [sessions EXCEPT ![made[o]] = NoSession]
  /\ UNCHANGED <<made, acceptCh, closed, app, onClosed, lmu, lclose, dialerVars, sent, orphaned>>

\* timerLoop: a session idle for too long is closed and unmapped; nobody calls
\* onClosed for it.
IdleSweep(o) ==
  /\ IdleSweeps /\ MuFree /\ o \in Mapped
  /\ closed' = closed \cup {o}
  /\ sessions' = [sessions EXCEPT ![made[o]] = NoSession]
  /\ UNCHANGED <<made, acceptCh, app, onClosed, lmu, lclose, dialerVars, sent, orphaned>>

(***************************************************************************)
(* Listener.Close: close the socket, then, holding l.mu, close every       *)
(* session and call its onClosed, which is removeSession and wants l.mu.   *)
(***************************************************************************)
CloseSocket ==
  /\ ListenerCloses /\ lclose = "no"
  /\ lclose' = "lock"
  /\ UNCHANGED <<made, sessions, acceptCh, closed, app, onClosed, lmu, dialerVars, sent, orphaned>>

CloseLocks ==
  /\ lclose = "lock" /\ lmu = "free"
  /\ lmu' = "closer" /\ lclose' = "loop"
  /\ UNCHANGED <<made, sessions, acceptCh, closed, app, onClosed, dialerVars, sent, orphaned>>

\* removeSession blocks on l.mu, which this goroutine holds.  The same wait
\* follows when another goroutine is inside the callback of the session.
CloseSession(o) ==
  /\ lclose = "loop" /\ o \in Mapped
  /\ closed' = closed \cup {o}
  /\ IF onClosed[o] = "done" THEN UNCHANGED <<onClosed, lclose>>
     ELSE onClosed' = [onClosed EXCEPT ![o] = "runs"] /\ lclose' = "stuck"
  /\ UNCHANGED <<made, sessions, acceptCh, app, lmu, dialerVars, sent, orphaned>>

CloseUnlocks ==
  /\ lclose = "loop" /\ \A o \in Mapped : o \in closed /\ onClosed[o] = "done"
  /\ sessions' = [c \in Dialers |-> NoSession]
  /\ lmu' = "free" /\ lclose' = "returned"
  /\ UNCHANGED <<made, acceptCh, closed, app, onClosed, dialerVars, sent, orphaned>>

-----------------------------------------------------------------------------
Dialer(c) ==
  \/ SendSyn(c) \/ DialerReceives(c) \/ DialerReadFails(c)
  \/ DialReturns(c) \/ DialFails(c) \/ DialerCloses(c)
Dispatch(c) == SynKnown(c) \/ SynRefused(c) \/ SynAccepted(c)
Application(o) == AppCloseLate(o) \/ AppClose(o) \/ AppForceClose(o) \/ AppCallback(o)
ListenerClose == CloseSocket \/ CloseLocks \/ CloseUnlocks \/ \E o \in Value : CloseSession(o)

Next ==
  \/ \E c \in Dialers : Dialer(c) \/ Dispatch(c)
  \/ Accept
  \/ \E o \in Made : Application(o) \/ IdleSweep(o)
  \/ ListenerClose

Spec == Init /\ [][Next]_vars

-----------------------------------------------------------------------------
(***************************************************************************)
(* Safety.                                                                 *)
(***************************************************************************)
\* The values the listener's fields and the goroutines' states take.
TypeOK ==
  /\ made \in Seq(Dialers) /\ Len(made) <= MaxMade
  /\ sessions \in [Dialers -> Value \cup {NoSession}]
  /\ acceptCh \in Seq(Value)
  /\ closed \subseteq Value
  /\ app \in [Value -> {"none", "uses", "fin", "cb", "gone"}]
  /\ onClosed \in [Value -> {"no", "runs", "done"}]
  /\ lmu \in {"free", "closer"}
  /\ lclose \in {"no", "lock", "loop", "stuck", "returned"}
  /\ dial \in [Dialers -> {"idle", "dialing", "open", "failed", "closed"}]
  /\ handshake \in [Dialers -> {"no", "synack", "rst", "error", "stop"}]
  /\ sent \subseteq {"SYN", "SYNACK", "RST"} \X Dialers
  /\ orphaned \subseteq Value

\* The limits of limits.go hold whatever the SYNs, retries and closes in flight:
\* "MaxSessions caps concurrent tunnels per listener".
Bounded == Cardinality(Mapped) <= MaxSessions /\ Len(acceptCh) <= Backlog

\* A session the application holds or will accept, and that is not closed, is the
\* one dispatch finds under its id: its frames and retransmissions reach it.  The
\* exception is the code's: an idle sweep between forceClose and removeSession
\* lets a late SYN map a new value, which removeSession then deletes.  Without a
\* sweep there is none.
LiveIsRoutable == \A o \in Made :
  o \notin closed => o \in Mapped \/ (IdleSweeps /\ o \in orphaned)

\* What a connection that Dial returned stands for: a session the listener made for its
\* id, which may be gone by now, unless it was told RST or its own reading had failed;
\* and a listener makes no session for an id nobody dialled.
DialersAreServed ==
  /\ \A c \in Dialers : dial[c] = "open" =>
       \/ handshake[c] = "synack" /\ \E o \in Made : made[o] = c
       \/ handshake[c] = "rst" /\ <<"RST", c>> \in sent
       \/ handshake[c] = "error"
  /\ \A o \in Made : dial[made[o]] # "idle"

(***************************************************************************)
(* Liveness.  Goroutines that can run do run, and an application closes    *)
(* what it has accepted.                                                   *)
(***************************************************************************)
Fairness ==
  /\ WF_vars(Accept)
  /\ \A o \in Value : WF_vars(o \in Made /\ Application(o))
  /\ WF_vars(CloseLocks) /\ WF_vars(CloseUnlocks)
  /\ WF_vars(\E o \in Value : CloseSession(o))

FairSpec == Spec /\ Fairness

\* Every session gives its place back in the end, unless Close holds l.mu for ever.
PlacesReturn == \A o \in Value : (o \in Mapped) ~> (o \notin Mapped \/ lclose = "stuck")

\* The tests' `defer ln.Close()`: a Close that was called returns.
CloseReturns == (lclose = "lock") ~> (lclose = "returned")
=============================================================================
