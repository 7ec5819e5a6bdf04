---------------------------- MODULE TunnelSession ----------------------------
(***************************************************************************)
(* One UDP tunnel session, common/udptunnel/session.go: the two `session`  *)
(* values of an established tunnel, the dialer's and the acceptor's, and   *)
(* the UDP path between them.  Both ends run the same code: a selective    *)
(* repeat protocol with a window of MaxInFlight frames, cumulative         *)
(* acknowledgements, and one-token channels to wake a blocked Read/Write.  *)
(*                                                                         *)
(* A payload is the ordinal of the Write that produced it: the d-th chunk  *)
(* an end writes is the number d, and carries sequence number d-1 modulo   *)
(* SeqMod (2^32 in the code).  `stream` is everything ever appended to     *)
(* readBuf and `taken` how much of it the application has read, so the     *)
(* code's readBuf is the part of stream beyond taken.                      *)
(***************************************************************************)
EXTENDS Integers, Sequences, FiniteSets

CONSTANTS
  Dialer, Acceptor,               \* the two ends
  DialerChunks, AcceptorChunks,   \* how many chunks each application writes
  MaxInFlight,                    \* the window, in frames (32 in the code)
  SeqMod,                         \* sequence numbers are modulo SeqMod (2^32)
  NetCap,                         \* frames the path holds in each direction
  Closable,                       \* ends whose application may call Close
  Breakable                       \* ends the session may be torn down at

Ends == {Dialer, Acceptor}
Peer(e) == IF e = Dialer THEN Acceptor ELSE Dialer
Chunks(e) == IF e = Dialer THEN DialerChunks ELSE AcceptorChunks

ASSUME EndsAssumption == Dialer # Acceptor
ASSUME ParametersAssumption ==
  /\ DialerChunks \in Nat /\ AcceptorChunks \in Nat
  /\ MaxInFlight \in Nat \ {0}
  /\ SeqMod \in Nat \ {0}
  /\ NetCap \in Nat
  /\ Closable \subseteq Ends /\ Breakable \subseteq Ends

None == 0                         \* no payload; chunks are numbered from 1
Offsets == 0 .. MaxInFlight - 1   \* indices of recvBuf and recvValid

\* The frames an established session exchanges (RST is part of TearDown).
Frame == [type : {"DATA", "ACK", "FIN", "SYNACK"}, seq : Nat, ack : Nat, data : Nat]
DataFrame(s, a, d) == [type |-> "DATA", seq |-> s, ack |-> a, data |-> d]
Control(t, a) == [type |-> t, seq |-> 0, ack |-> a, data |-> None]

VARIABLES
  written,    \* number of chunks the application's Writes have queued
  sendNext,   \* next sequence number to send
  sendSlots,  \* frames sent and not acknowledged, as [seq, data]
  pending,    \* the frame a Write has queued and not yet handed to the socket
  wpc,        \* the writing goroutine: "run", "wait", "send", "done" (the session
              \* was closed) or "failed" (the socket refused a frame)
  writeWait,  \* writeWait holds its token
  recvNext,   \* next sequence number expected
  recvBuf,    \* chunk held at each offset from recvNext, or None
  stream,     \* every chunk ever appended to readBuf
  taken,      \* number of chunks of stream the application has read
  rpc,        \* the reading goroutine: "run", "wait" or "done" (saw EOF)
  readWait,   \* readWait holds its token
  readEOF, writeFin, closed,
  cpc,        \* the goroutine in close(): "idle" or "fin" (FIN sent)
  net         \* net[e] is the set of frames on their way to e

sendVars == <<written, sendNext, sendSlots, pending>>
recvVars == <<recvNext, recvBuf, stream>>
flags == <<readEOF, writeFin, closed, cpc>>
vars == <<sendVars, wpc, writeWait, recvVars, taken, rpc, readWait, flags, net>>

Init ==
  /\ written = [e \in Ends |-> 0]
  /\ sendNext = [e \in Ends |-> 0]
  /\ sendSlots = [e \in Ends |-> {}]
  /\ pending = [e \in Ends |-> {}]
  /\ wpc = [e \in Ends |-> "run"]
  /\ writeWait = [e \in Ends |-> FALSE]
  /\ recvNext = [e \in Ends |-> 0]
  /\ recvBuf = [e \in Ends |-> [o \in Offsets |-> None]]
  /\ stream = [e \in Ends |-> <<>>]
  /\ taken = [e \in Ends |-> 0]
  /\ rpc = [e \in Ends |-> "run"]
  /\ readWait = [e \in Ends |-> FALSE]
  /\ readEOF = [e \in Ends |-> FALSE]
  /\ writeFin = [e \in Ends |-> FALSE]
  /\ closed = [e \in Ends |-> FALSE]
  /\ cpc = [e \in Ends |-> "idle"]
  \* the answer to a repeated SYN may still be on its way to the dialer
  /\ net \in [Ends -> {{}, {Control("SYNACK", 0)}}] /\ net[Acceptor] = {}

-----------------------------------------------------------------------------
(***************************************************************************)
(* The UDP path.  It loses, duplicates and reorders frames: net[e] is a    *)
(* set, a frame may stay in it after it was delivered, and Lose removes    *)
(* one.  A frame sent when the path is full is lost.                       *)
(***************************************************************************)
Transmit(n, f) == IF Cardinality(n) < NetCap THEN n \cup {f} ELSE n

Send(e, f) == net' = [net EXCEPT ![Peer(e)] = Transmit(@, f)]

\* Delivery of f to e, which the path may repeat later if `again`.
Taken(n, f, again) == IF again THEN n ELSE n \ {f}

\* The network drops f, or onPacket returns at once because e is closed.
Lose(e) ==
  /\ \E f \in net[e] : net' = [net EXCEPT ![e] = @ \ {f}]
  /\ UNCHANGED <<sendVars, wpc, writeWait, recvVars, taken, rpc, readWait, flags>>

-----------------------------------------------------------------------------
(***************************************************************************)
(* write(): wait for room, queue a slot under s.mu, then, with s.mu        *)
(* released, hand the frame to the socket.                                 *)
(***************************************************************************)
\* Mutant: one frame too many in flight.
WindowFull_Late(e) == Cardinality(sendSlots[e]) > MaxInFlight

WindowFull(e) == Cardinality(sendSlots[e]) >= MaxInFlight
Stopped(e) == closed[e] \/ writeFin[e]

WriteBlock(e) ==
  /\ wpc[e] = "run" /\ written[e] < Chunks(e)
  /\ ~Stopped(e) /\ WindowFull(e)
  /\ wpc' = [wpc EXCEPT ![e] = "wait"]
  /\ UNCHANGED <<sendVars, writeWait, recvVars, taken, rpc, readWait, flags, net>>

WriteWake(e) ==
  /\ wpc[e] = "wait" /\ writeWait[e]
  /\ wpc' = [wpc EXCEPT ![e] = "run"]
  /\ writeWait' = [writeWait EXCEPT ![e] = FALSE]
  /\ UNCHANGED <<sendVars, recvVars, taken, rpc, readWait, flags, net>>

WriteQueue(e) ==
  /\ wpc[e] = "run" /\ written[e] < Chunks(e)
  /\ ~Stopped(e) /\ ~WindowFull(e)
  /\ LET d == written[e] + 1
         s == sendNext[e]
     IN /\ written' = [written EXCEPT ![e] = d]
        /\ sendNext' = [sendNext EXCEPT ![e] = (s + 1) % SeqMod]
        /\ sendSlots' = [sendSlots EXCEPT ![e] = @ \cup {[seq |-> s, data |-> d]}]
        /\ pending' = [pending EXCEPT ![e] = {DataFrame(s, recvNext[e], d)}]
  /\ wpc' = [wpc EXCEPT ![e] = "send"]
  /\ UNCHANGED <<writeWait, recvVars, taken, rpc, readWait, flags, net>>

\* writePacket sends the frame, or refuses it because the session was closed
\* since the slot was queued: Write then returns an error.
WriteSend(e) ==
  /\ wpc[e] = "send"
  /\ \E f \in pending[e] : IF closed[e] THEN UNCHANGED net ELSE Send(e, f)
  /\ pending' = [pending EXCEPT ![e] = {}]
  /\ wpc' = [wpc EXCEPT ![e] = IF closed[e] THEN "done" ELSE "run"]
  /\ UNCHANGED <<written, sendNext, sendSlots, writeWait, recvVars, taken, rpc,
                 readWait, flags>>

\* The socket refuses the frame and Write returns an error although the slot is
\* queued, to be retransmitted; a copy loop then writes no more.
WriteFails(e) ==
  /\ wpc[e] = "send" /\ ~closed[e]
  /\ pending' = [pending EXCEPT ![e] = {}]
  /\ wpc' = [wpc EXCEPT ![e] = "failed"]
  /\ UNCHANGED <<written, sendNext, sendSlots, writeWait, recvVars, taken, rpc,
                 readWait, flags, net>>

WriteRefused(e) ==
  /\ wpc[e] = "run" /\ written[e] < Chunks(e) /\ Stopped(e)
  /\ wpc' = [wpc EXCEPT ![e] = "done"]
  /\ UNCHANGED <<sendVars, writeWait, recvVars, taken, rpc, readWait, flags, net>>

\* retransmitTick: a slot whose timeout has expired is sent again.
Retransmit(e, d) ==
  /\ ~closed[e]
  /\ \E s \in sendSlots[e] : /\ s.data = d
                             /\ Send(e, DataFrame(s.seq, recvNext[e], s.data))
  /\ UNCHANGED <<sendVars, wpc, writeWait, recvVars, taken, rpc, readWait, flags>>

-----------------------------------------------------------------------------
(***************************************************************************)
(* read(), and Conn.Read with a deadline.                                  *)
(***************************************************************************)
Unread(e) == Len(stream[e]) - taken[e]      \* length of readBuf
Ended(e) == readEOF[e] \/ closed[e]

ReadBlock(e) ==
  /\ rpc[e] = "run" /\ Unread(e) = 0 /\ ~Ended(e)
  /\ rpc' = [rpc EXCEPT ![e] = "wait"]
  /\ UNCHANGED <<sendVars, wpc, writeWait, recvVars, taken, readWait, flags, net>>

ReadWake(e) ==
  /\ rpc[e] = "wait" /\ readWait[e]
  /\ rpc' = [rpc EXCEPT ![e] = "run"]
  /\ readWait' = [readWait EXCEPT ![e] = FALSE]
  /\ UNCHANGED <<sendVars, wpc, writeWait, recvVars, taken, flags, net>>

\* The deadline fires first; the application reads again.
ReadTimeout(e) ==
  /\ rpc[e] = "wait"
  /\ rpc' = [rpc EXCEPT ![e] = "run"]
  /\ UNCHANGED <<sendVars, wpc, writeWait, recvVars, taken, readWait, flags, net>>

ReadData(e) ==
  /\ rpc[e] = "run"
  /\ \E n \in 1 .. Unread(e) : taken' = [taken EXCEPT ![e] = @ + n]
  /\ UNCHANGED <<sendVars, wpc, writeWait, recvVars, rpc, readWait, flags, net>>

ReadEnd(e) ==
  /\ rpc[e] = "run" /\ Unread(e) = 0 /\ Ended(e)
  /\ rpc' = [rpc EXCEPT ![e] = "done"]
  /\ UNCHANGED <<sendVars, wpc, writeWait, recvVars, taken, readWait, flags, net>>

-----------------------------------------------------------------------------
(***************************************************************************)
(* onPacket, with s.mu held.  An acknowledgement is sent after the unlock; *)
(* the delay is one the network could have caused.                         *)
(***************************************************************************)
\* Mutant: an acknowledgement of `next expected` taken for `last received`.
Unacked_Inclusive(e, a) == {s \in sendSlots[e] : s.seq > a}

Unacked(e, a) == {s \in sendSlots[e] : s.seq >= a}

\* consumeAckLocked; `always` is set for the frames that wake the writer even
\* when the acknowledgement releases nothing.
ConsumeAck(e, a, always) ==
  /\ sendSlots' = [sendSlots EXCEPT ![e] = Unacked(e, a)]
  /\ writeWait' = [writeWait EXCEPT ![e] = @ \/ always \/ Unacked(e, a) # sendSlots[e]]
  /\ UNCHANGED <<written, sendNext, pending>>

\* The frame falls outside the receive window and storeDataLocked drops it.
OutOfWindow(e, f) == f.seq < recvNext[e] \/ f.seq - recvNext[e] >= MaxInFlight

\* The offsets once f's payload is in its place, if the place was free.
Stored(e, f) ==
  IF OutOfWindow(e, f) THEN recvBuf[e]
  ELSE [recvBuf[e] EXCEPT ![f.seq - recvNext[e]] = IF @ = None THEN f.data ELSE @]

\* Mutant: everything below the highest filled offset counts as received.
LeadingRun_Highest(buf, k) ==
  /\ k > 0 => buf[k - 1] # None
  /\ \A o \in k .. MaxInFlight - 1 : buf[o] = None

\* The first k offsets are filled, and the one after them is not.
LeadingRun(buf, k) ==
  /\ \A o \in 0 .. k - 1 : buf[o] # None
  /\ k < MaxInFlight => buf[k] = None

\* Mutant: the last offset is not cleared after the window has moved.
Slide_Stale(buf, k) ==
  [o \in Offsets |-> IF o + k < MaxInFlight THEN buf[o + k] ELSE buf[MaxInFlight - 1]]

Slide(buf, k) ==
  [o \in Offsets |-> IF o + k < MaxInFlight THEN buf[o + k] ELSE None]

\* storeDataLocked: keep the payload, then move the filled head of the window
\* to readBuf, one wake-up token for any number of chunks.
StoreData(e, f) ==
  \E k \in 0 .. MaxInFlight :
    LET buf == Stored(e, f) IN
    /\ LeadingRun(buf, k)
    /\ stream' = [stream EXCEPT ![e] = @ \o [i \in 1 .. k |-> buf[i - 1]]]
    /\ recvBuf' = [recvBuf EXCEPT ![e] = Slide(buf, k)]
    /\ recvNext' = [recvNext EXCEPT ![e] = (@ + k) % SeqMod]
    /\ readWait' = [readWait EXCEPT ![e] = @ \/ k > 0]

\* Mutant: a frame that is not new is not acknowledged.
Acknowledge_NewOnly(e, f, again) ==
  net' = [net EXCEPT ![e] = Taken(@, f, again),
                     ![Peer(e)] = IF recvNext' = recvNext THEN @
                                  ELSE Transmit(@, Control("ACK", recvNext'[e]))]

\* f, just delivered to e, is answered with an acknowledgement of e's recvNext.
Acknowledge(e, f, again) ==
  net' = [net EXCEPT ![e] = Taken(@, f, again),
                     ![Peer(e)] = Transmit(@, Control("ACK", recvNext'[e]))]

ReceiveData(e, f, again) ==
  /\ ~closed[e] /\ f \in net[e] /\ f.type = "DATA"
  /\ ConsumeAck(e, f.ack, FALSE)
  /\ StoreData(e, f)
  /\ Acknowledge(e, f, again)
  /\ UNCHANGED <<wpc, taken, rpc, flags>>

ReceiveAck(e, f, again) ==
  /\ ~closed[e] /\ f \in net[e] /\ f.type \in {"ACK", "SYNACK"}
  /\ ConsumeAck(e, f.ack, TRUE)
  /\ net' = [net EXCEPT ![e] = Taken(@, f, again)]
  /\ UNCHANGED <<wpc, recvVars, taken, rpc, readWait, flags>>

ReceiveFin(e, f, again) ==
  /\ ~closed[e] /\ f \in net[e] /\ f.type = "FIN"
  /\ ConsumeAck(e, f.ack, FALSE)
  /\ readEOF' = [readEOF EXCEPT ![e] = TRUE]
  /\ readWait' = [readWait EXCEPT ![e] = TRUE]
  /\ UNCHANGED recvNext
  /\ Acknowledge(e, f, again)
  /\ UNCHANGED <<wpc, recvBuf, stream, taken, rpc, writeFin, closed, cpc>>

-----------------------------------------------------------------------------
(***************************************************************************)
(* close() in two steps, for s.mu is released to send the FIN, and the     *)
(* forced closes: a RST, the acceptor's idle sweep, the dialer's shutdown. *)
(***************************************************************************)
\* Mutants: a forced close that wakes only the reader, or only the writer.
ForceClose_Reader(e) ==
  /\ closed' = [closed EXCEPT ![e] = TRUE]
  /\ readEOF' = [readEOF EXCEPT ![e] = TRUE]
  /\ writeFin' = [writeFin EXCEPT ![e] = TRUE]
  /\ readWait' = [readWait EXCEPT ![e] = TRUE]
  /\ UNCHANGED writeWait

ForceClose_Writer(e) ==
  /\ closed' = [closed EXCEPT ![e] = TRUE]
  /\ readEOF' = [readEOF EXCEPT ![e] = TRUE]
  /\ writeFin' = [writeFin EXCEPT ![e] = TRUE]
  /\ writeWait' = [writeWait EXCEPT ![e] = TRUE]
  /\ UNCHANGED readWait

ForceClose(e) ==
  /\ closed' = [closed EXCEPT ![e] = TRUE]
  /\ readEOF' = [readEOF EXCEPT ![e] = TRUE]
  /\ writeFin' = [writeFin EXCEPT ![e] = TRUE]
  /\ readWait' = [readWait EXCEPT ![e] = @ \/ ~closed[e]]
  /\ writeWait' = [writeWait EXCEPT ![e] = @ \/ ~closed[e]]

CloseBegin(e) ==
  /\ e \in Closable /\ cpc[e] = "idle" /\ ~closed[e]
  /\ writeFin' = [writeFin EXCEPT ![e] = TRUE]
  /\ Send(e, Control("FIN", recvNext[e]))
  /\ cpc' = [cpc EXCEPT ![e] = "fin"]
  /\ UNCHANGED <<sendVars, wpc, writeWait, recvVars, taken, rpc, readWait,
                 readEOF, closed>>

CloseEnd(e) ==
  /\ cpc[e] = "fin"
  /\ ForceClose(e)
  /\ cpc' = [cpc EXCEPT ![e] = "idle"]
  /\ UNCHANGED <<sendVars, wpc, recvVars, taken, rpc, net>>

TearDown(e) ==
  /\ e \in Breakable /\ ~closed[e]
  /\ ForceClose(e)
  /\ UNCHANGED <<sendVars, wpc, recvVars, taken, rpc, cpc, net>>

-----------------------------------------------------------------------------
Writer(e) ==
  \/ WriteBlock(e) \/ WriteWake(e) \/ WriteQueue(e)
  \/ WriteSend(e) \/ WriteFails(e) \/ WriteRefused(e)
Reader(e) == ReadBlock(e) \/ ReadWake(e) \/ ReadTimeout(e) \/ ReadData(e) \/ ReadEnd(e)

Resend(e) == \E s \in sendSlots[e] : Retransmit(e, s.data)

Receive(e) ==
  \E f \in net[e], again \in BOOLEAN :
    ReceiveData(e, f, again) \/ ReceiveAck(e, f, again) \/ ReceiveFin(e, f, again)

Next == \E e \in Ends :
  \/ Writer(e) \/ Reader(e) \/ Resend(e) \/ Receive(e) \/ Lose(e)
  \/ CloseBegin(e) \/ CloseEnd(e) \/ TearDown(e)

Spec == Init /\ [][Next]_vars

-----------------------------------------------------------------------------
\* No end sends so many frames that its sequence numbers wrap.
NoWrap == DialerChunks < SeqMod /\ AcceptorChunks < SeqMod

(***************************************************************************)
(* Safety.                                                                 *)
(***************************************************************************)
Slot == [seq : 0 .. SeqMod - 1, data : Nat \ {None}]

\* The values the fields of the two sessions, the goroutines and the path take.
TypeOK ==
  /\ written \in [Ends -> Nat]
  /\ sendNext \in [Ends -> 0 .. SeqMod - 1]
  /\ sendSlots \in [Ends -> SUBSET Slot]
  /\ pending \in [Ends -> SUBSET Frame]
  /\ wpc \in [Ends -> {"run", "wait", "send", "done", "failed"}]
  /\ writeWait \in [Ends -> BOOLEAN]
  /\ recvNext \in [Ends -> 0 .. SeqMod - 1]
  /\ recvBuf \in [Ends -> [Offsets -> Nat]]
  /\ stream \in [Ends -> Seq(Nat)]
  /\ taken \in [Ends -> Nat]
  /\ rpc \in [Ends -> {"run", "wait", "done"}]
  /\ readWait \in [Ends -> BOOLEAN]
  /\ readEOF \in [Ends -> BOOLEAN]
  /\ writeFin \in [Ends -> BOOLEAN]
  /\ closed \in [Ends -> BOOLEAN]
  /\ cpc \in [Ends -> {"idle", "fin"}]
  /\ net \in [Ends -> SUBSET Frame]

\* What Read hands out is what the peer's Writes queued: nothing reordered,
\* repeated, skipped or invented, whatever the path did to the frames
\* (storeDataLocked).
InOrder == \A e \in Ends :
  /\ Len(stream[e]) <= written[Peer(e)]
  /\ \A i \in 1 .. Len(stream[e]) : stream[e][i] = i

\* consumeAckLocked never releases a frame the peer has not put in its stream:
\* a chunk lost on the way can always be sent again.
NothingReleasedEarly == \A e \in Ends :
  \A d \in Len(stream[Peer(e)]) + 1 .. written[e] :
    \E s \in sendSlots[e] : s.data = d

\* The two windows agree: an end is never more than MaxInFlight chunks ahead of
\* what its peer has received, so storeDataLocked never drops a frame for
\* being too far ahead, and recvBuf bounds what a peer must hold.
WindowsAgree == \A e \in Ends :
  /\ written[e] <= Len(stream[Peer(e)]) + MaxInFlight
  /\ \A f \in net[e] : f.type = "DATA" => f.seq < recvNext[e] + MaxInFlight

\* One token per channel is enough: a Write or Read blocked on a condition that
\* no longer holds has its token waiting (notify).
NoLostWakeup == \A e \in Ends :
  /\ wpc[e] = "wait" /\ (~WindowFull(e) \/ closed[e]) => writeWait[e]
  /\ rpc[e] = "wait" /\ (Unread(e) > 0 \/ Ended(e)) => readWait[e]

(***************************************************************************)
(* Liveness.  The application goes on reading and writing, and a frame     *)
(* that is sent again and again arrives at last.  The acceptor resends     *)
(* from a ticker of its own; the dialer's one goroutine (dial.go) resends  *)
(* only when no frame has come for 500 ms, and so not at all while frames  *)
(* keep coming for ever.                                                   *)
(***************************************************************************)
Delivery(e, d, again) ==
  \E f \in net[e] : f.type = "DATA" /\ f.data = d /\ ReceiveData(e, f, again)
AckDelivery(e, a) ==
  \E f \in net[e] : f.ack = a /\ ReceiveAck(e, f, FALSE)

\* The path delivers a frame that it keeps, to deliver it again.
Repeats(e) == \E f \in net[e] :
  ReceiveData(e, f, TRUE) \/ ReceiveAck(e, f, TRUE) \/ ReceiveFin(e, f, TRUE)

\* A session's retransmitTick is called again and again.
AcceptorTimer == \A d \in 1 .. AcceptorChunks : WF_vars(Retransmit(Acceptor, d))
DialerTimer ==
  \/ []<><<Receive(Dialer)>>_vars
  \/ \A d \in 1 .. DialerChunks : WF_vars(Retransmit(Dialer, d))

Fairness ==
  /\ \A e \in Ends :
       /\ WF_vars(Writer(e))
       /\ WF_vars(ReadBlock(e) \/ ReadWake(e) \/ ReadData(e) \/ ReadEnd(e))
       /\ WF_vars(CloseEnd(e))
       /\ \A d \in 1 .. Chunks(e) : SF_vars(Delivery(Peer(e), d, FALSE))
       /\ \A d \in 0 .. Chunks(e) : SF_vars(AckDelivery(e, d % SeqMod))
  /\ AcceptorTimer /\ DialerTimer
  /\ <>[][\A e \in Ends : ~Repeats(e)]_vars

FairSpec == Spec /\ Fairness

\* The application has nothing more to write, or gave up at a socket error.
Wrote(e) == written[e] = Chunks(e) \/ wpc[e] = "failed"

\* "reliable": while no end closes, everything written is read at the other end,
\* the chunk of a Write that returned a socket error included (write).
AllDelivered ==
  [](\A e \in Ends : ~Stopped(e)) =>
    \A e \in Ends : <>(Wrote(e) /\ taken[Peer(e)] = written[e])

\* Close releases whoever is blocked on the session.
CloseUnblocks == \A e \in Ends :
  closed[e] ~> wpc[e] \notin {"wait", "send"} /\ rpc[e] # "wait"

(***************************************************************************)
(* Refinement: each direction of a session is a reliable stream.           *)
(***************************************************************************)
Abstract == INSTANCE ReliableStream WITH Window <- MaxInFlight

\* Every step of the protocol is a step of the pipe or invisible to it.
ImplementsStream == Abstract!Spec
=============================================================================
