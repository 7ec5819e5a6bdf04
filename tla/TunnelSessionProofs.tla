-------------------------- MODULE TunnelSessionProofs --------------------------
(***************************************************************************)
(* TLAPS proofs about TunnelSession, for every window, every number of     *)
(* chunks and every capacity of the path.                                  *)
(***************************************************************************)
EXTENDS TunnelSession, FiniteSetTheorems, FunctionTheorems, SequenceTheorems, TLAPS

-----------------------------------------------------------------------------
(***************************************************************************)
(* Facts about the operators.                                              *)
(***************************************************************************)
\* The other end of an end is an end, and the peer of the peer is the end.
LEMMA PeerFacts ==
  ASSUME NEW e \in Ends
  PROVE  Peer(e) \in Ends /\ Peer(e) # e /\ Peer(Peer(e)) = e
  BY EndsAssumption DEF Ends, Peer

\* Each end writes a number of chunks.
LEMMA ChunksType == ASSUME NEW e \in Ends PROVE Chunks(e) \in Nat
  BY ParametersAssumption DEF Chunks

\* uint32 arithmetic stays in range, and does not wrap below the modulus.
LEMMA SeqArithmetic ==
  ASSUME NEW n \in Nat
  PROVE  n % SeqMod \in 0 .. SeqMod - 1 /\ (n < SeqMod => n % SeqMod = n)
  BY ParametersAssumption

\* What is on a path after a send is what was on it, and perhaps the new frame.
LEMMA TransmitFacts ==
  ASSUME NEW n, NEW f
  PROVE  Transmit(n, f) \subseteq n \cup {f}
  BY DEF Transmit

\* A window that holds each of the chunks a+1 .. b holds at least b - a frames.
LEMMA WindowCount ==
  ASSUME NEW a \in Nat, NEW b \in Nat, NEW S, IsFiniteSet(S),
         \A d \in a + 1 .. b : \E s \in S : s.data = d
  PROVE  b <= a + Cardinality(S)
<1> DEFINE f == [d \in a + 1 .. b |-> CHOOSE s \in S : s.data = d]
<1>1. \A d \in a + 1 .. b : f[d] \in S /\ f[d].data = d
  OBVIOUS
<1>2. f \in Injection(a + 1 .. b, S)
  BY <1>1 DEF Injection, IsInjective
<1>3. Cardinality(a + 1 .. b) <= Cardinality(S)
  BY <1>2, FS_Injection
<1>4. Cardinality(a + 1 .. b) = IF a + 1 > b THEN 0 ELSE b - a
  BY FS_Interval, a + 1 \in Int, b \in Int
<1>5. Cardinality(S) \in Nat
  BY FS_CardinalityType
<1> QED
  BY <1>3, <1>4, <1>5

\* One more frame makes a window larger by one at most.
LEMMA AddOne ==
  ASSUME NEW S, NEW x, IsFiniteSet(S)
  PROVE  /\ IsFiniteSet(S \cup {x})
         /\ Cardinality(S) \in Nat /\ Cardinality(S \cup {x}) \in Nat
         /\ Cardinality(S \cup {x}) <= Cardinality(S) + 1
<1>1. Cardinality(S) \in Nat
  BY FS_CardinalityType
<1>2. /\ IsFiniteSet(S \cup {x})
      /\ Cardinality(S \cup {x}) = IF x \in S THEN Cardinality(S) ELSE Cardinality(S) + 1
  BY FS_AddElement
<1> QED
  BY <1>1, <1>2

-----------------------------------------------------------------------------
(***************************************************************************)
(* Type correctness.                                                       *)
(***************************************************************************)
LEMMA FrameTypes ==
  ASSUME NEW s \in Nat, NEW a \in Nat, NEW d \in Nat, NEW t \in {"ACK", "FIN", "SYNACK"}
  PROVE  DataFrame(s, a, d) \in Frame /\ Control(t, a) \in Frame
  BY DEF DataFrame, Control, Frame, None

\* A session that has just been made is well-typed (newSession).
LEMMA InitType == Init => TypeOK
<1> SUFFICES ASSUME Init PROVE TypeOK
  OBVIOUS
<1>1. 0 \in 0 .. SeqMod - 1
  BY ParametersAssumption
<1>2. net \in [Ends -> SUBSET Frame]
  BY FrameTypes DEF Init
<1> QED
  BY <1>1, <1>2 DEF Init, TypeOK, None

\* The sending half of onPacket keeps its types.
LEMMA ConsumeAckType ==
  ASSUME TypeOK, NEW e \in Ends, NEW a, NEW w \in BOOLEAN, ConsumeAck(e, a, w)
  PROVE  /\ sendSlots' \in [Ends -> SUBSET Slot]
         /\ writeWait' \in [Ends -> BOOLEAN]
         /\ UNCHANGED <<written, sendNext, pending>>
  BY DEF ConsumeAck, Unacked, TypeOK

\* The receiving half of onPacket keeps its types.
LEMMA StoreDataType ==
  ASSUME TypeOK, NEW e \in Ends, NEW f \in Frame, StoreData(e, f)
  PROVE  /\ stream' \in [Ends -> Seq(Nat)]
         /\ recvBuf' \in [Ends -> [Offsets -> Nat]]
         /\ recvNext' \in [Ends -> 0 .. SeqMod - 1]
         /\ readWait' \in [Ends -> BOOLEAN]
<1> DEFINE buf == Stored(e, f)
<1>1. buf \in [Offsets -> Nat]
  <2>1. recvBuf[e] \in [Offsets -> Nat] /\ f.data \in Nat
    BY DEF TypeOK, Frame
  <2> QED
    BY <2>1 DEF Stored
<1>2. PICK k \in 0 .. MaxInFlight :
        /\ stream' = [stream EXCEPT ![e] = @ \o [i \in 1 .. k |-> buf[i - 1]]]
        /\ recvBuf' = [recvBuf EXCEPT ![e] = Slide(buf, k)]
        /\ recvNext' = [recvNext EXCEPT ![e] = (@ + k) % SeqMod]
        /\ readWait' = [readWait EXCEPT ![e] = @ \/ k > 0]
  BY DEF StoreData
<1>3. stream' \in [Ends -> Seq(Nat)]
  <2>1. [i \in 1 .. k |-> buf[i - 1]] \in Seq(Nat)
    BY <1>1, ParametersAssumption DEF Offsets
  <2> QED
    BY <1>2, <2>1 DEF TypeOK
<1>4. Slide(buf, k) \in [Offsets -> Nat]
  BY <1>1, ParametersAssumption DEF Slide, Offsets, None
<1>5. (recvNext[e] + k) % SeqMod \in 0 .. SeqMod - 1
  <2>1. recvNext[e] + k \in Nat
    BY ParametersAssumption DEF TypeOK
  <2> QED
    BY <2>1, SeqArithmetic
<1>6. readWait' \in [Ends -> BOOLEAN]
  <2>1. (readWait[e] \/ k > 0) \in BOOLEAN
    OBVIOUS
  <2> QED
    BY <1>2, <2>1 DEF TypeOK
<1>7. recvBuf' \in [Ends -> [Offsets -> Nat]]
  BY <1>2, <1>4 DEF TypeOK
<1>8. recvNext' \in [Ends -> 0 .. SeqMod - 1]
  BY <1>2, <1>5 DEF TypeOK
<1> QED
  BY <1>3, <1>6, <1>7, <1>8

\* A frame put on a path is the only new frame there.
LEMMA SendType ==
  ASSUME TypeOK, NEW e \in Ends, NEW f \in Frame, Send(e, f)
  PROVE  net' \in [Ends -> SUBSET Frame]
  BY TransmitFacts, PeerFacts DEF Send, TypeOK

\* Answering a frame with an ACK leaves only frames on the path (onPacket).
LEMMA AcknowledgeType ==
  ASSUME TypeOK, NEW e \in Ends, NEW f, NEW again, Acknowledge(e, f, again),
         recvNext' \in [Ends -> 0 .. SeqMod - 1]
  PROVE  net' \in [Ends -> SUBSET Frame]
<1>1. Control("ACK", recvNext'[e]) \in Frame
  BY FrameTypes, ParametersAssumption
<1>2. Taken(net[e], f, again) \subseteq net[e]
  BY DEF Taken
<1>3. Transmit(net[Peer(e)], Control("ACK", recvNext'[e])) \in SUBSET Frame
  BY <1>1, TransmitFacts, PeerFacts DEF TypeOK
<1> QED
  BY <1>2, <1>3, PeerFacts DEF Acknowledge, TypeOK

\* One step per action: each leaves every variable in its type.
LEMMA NextType == TypeOK /\ [Next]_vars => TypeOK'
<1> SUFFICES ASSUME TypeOK, [Next]_vars PROVE TypeOK'
  OBVIOUS
<1> USE DEF sendVars, recvVars, flags
<1>1. ASSUME NEW e \in Ends, WriteBlock(e) PROVE TypeOK'
  BY <1>1 DEF WriteBlock, TypeOK
<1>2. ASSUME NEW e \in Ends, WriteWake(e) PROVE TypeOK'
  BY <1>2 DEF WriteWake, TypeOK
<1>3. ASSUME NEW e \in Ends, WriteQueue(e) PROVE TypeOK'
  <2>1. written[e] + 1 \in Nat \ {None}
    BY DEF TypeOK, None
  <2>2. sendNext[e] \in 0 .. SeqMod - 1 /\ sendNext[e] \in Nat /\ recvNext[e] \in Nat
    BY ParametersAssumption DEF TypeOK
  <2>3. (sendNext[e] + 1) % SeqMod \in 0 .. SeqMod - 1
    BY <2>2, SeqArithmetic
  <2>4. [seq |-> sendNext[e], data |-> written[e] + 1] \in Slot
    BY <2>1, <2>2 DEF Slot
  <2>5. DataFrame(sendNext[e], recvNext[e], written[e] + 1) \in Frame
    BY <2>1, <2>2, FrameTypes
  <2> QED
    BY <1>3, <2>1, <2>3, <2>4, <2>5 DEF WriteQueue, TypeOK
<1>4. ASSUME NEW e \in Ends, WriteSend(e) PROVE TypeOK'
  <2>1. net' \in [Ends -> SUBSET Frame]
    <3>1. PICK f \in pending[e] : IF closed[e] THEN UNCHANGED net ELSE Send(e, f)
      BY <1>4 DEF WriteSend
    <3> QED
      BY <3>1, SendType DEF TypeOK
  <2> QED
    BY <1>4, <2>1 DEF WriteSend, TypeOK
<1>5. ASSUME NEW e \in Ends, WriteFails(e) \/ WriteRefused(e) PROVE TypeOK'
  BY <1>5 DEF WriteFails, WriteRefused, TypeOK
<1>6. ASSUME NEW e \in Ends, NEW d, Retransmit(e, d) PROVE TypeOK'
  <2>1. PICK s \in sendSlots[e] : Send(e, DataFrame(s.seq, recvNext[e], s.data))
    BY <1>6 DEF Retransmit
  <2>2. s.seq \in Nat /\ s.data \in Nat /\ recvNext[e] \in Nat
    BY ParametersAssumption DEF TypeOK, Slot
  <2>3. net' \in [Ends -> SUBSET Frame]
    BY <2>1, <2>2, FrameTypes, SendType
  <2> QED
    BY <1>6, <2>3 DEF Retransmit, TypeOK
<1>7. ASSUME NEW e \in Ends, Lose(e) PROVE TypeOK'
  BY <1>7 DEF Lose, TypeOK
<1>8. ASSUME NEW e \in Ends, ReadBlock(e) PROVE TypeOK'
  BY <1>8 DEF ReadBlock, TypeOK
<1>9. ASSUME NEW e \in Ends, ReadWake(e) PROVE TypeOK'
  BY <1>9 DEF ReadWake, TypeOK
<1>10. ASSUME NEW e \in Ends, ReadTimeout(e) PROVE TypeOK'
  BY <1>10 DEF ReadTimeout, TypeOK
<1>11. ASSUME NEW e \in Ends, ReadData(e) PROVE TypeOK'
  <2>1. PICK n \in 1 .. Unread(e) : taken' = [taken EXCEPT ![e] = @ + n]
    BY <1>11 DEF ReadData
  <2>2. n \in Nat
    BY LenProperties DEF Unread, TypeOK
  <2> QED
    BY <1>11, <2>1, <2>2 DEF ReadData, TypeOK
<1>12. ASSUME NEW e \in Ends, ReadEnd(e) PROVE TypeOK'
  BY <1>12 DEF ReadEnd, TypeOK
<1>13. ASSUME NEW e \in Ends, NEW f \in net[e], NEW again \in BOOLEAN,
              ReceiveData(e, f, again)
       PROVE  TypeOK'
  <2>1. f \in Frame
    BY DEF TypeOK
  <2>2. ConsumeAck(e, f.ack, FALSE) /\ StoreData(e, f) /\ Acknowledge(e, f, again)
    BY <1>13 DEF ReceiveData
  <2>3. net' \in [Ends -> SUBSET Frame]
    BY <2>1, <2>2, StoreDataType, AcknowledgeType
  <2> QED
    BY <1>13, <2>1, <2>2, <2>3, ConsumeAckType, StoreDataType DEF ReceiveData, TypeOK
<1>14. ASSUME NEW e \in Ends, NEW f \in net[e], NEW again \in BOOLEAN,
              ReceiveAck(e, f, again)
       PROVE  TypeOK'
  <2>1. ConsumeAck(e, f.ack, TRUE) /\ net' \in [Ends -> SUBSET Frame]
    BY <1>14 DEF ReceiveAck, Taken, TypeOK
  <2> QED
    BY <1>14, <2>1, ConsumeAckType DEF ReceiveAck, TypeOK
<1>15. ASSUME NEW e \in Ends, NEW f \in net[e], NEW again \in BOOLEAN,
              ReceiveFin(e, f, again)
       PROVE  TypeOK'
  <2>1. ConsumeAck(e, f.ack, FALSE) /\ UNCHANGED recvNext /\ Acknowledge(e, f, again)
    BY <1>15 DEF ReceiveFin
  <2>2. net' \in [Ends -> SUBSET Frame]
    BY <2>1, AcknowledgeType DEF TypeOK
  <2> QED
    BY <1>15, <2>1, <2>2, ConsumeAckType DEF ReceiveFin, TypeOK
<1>16. ASSUME NEW e \in Ends, CloseBegin(e) PROVE TypeOK'
  <2>1. net' \in [Ends -> SUBSET Frame]
    BY <1>16, FrameTypes, SendType, ParametersAssumption DEF CloseBegin, TypeOK
  <2> QED
    BY <1>16, <2>1 DEF CloseBegin, TypeOK
<1>17. ASSUME NEW e \in Ends, ForceClose(e)
       PROVE  /\ closed' \in [Ends -> BOOLEAN] /\ readEOF' \in [Ends -> BOOLEAN]
              /\ writeFin' \in [Ends -> BOOLEAN] /\ readWait' \in [Ends -> BOOLEAN]
              /\ writeWait' \in [Ends -> BOOLEAN]
  BY <1>17 DEF ForceClose, TypeOK
<1>18. ASSUME NEW e \in Ends, CloseEnd(e) PROVE TypeOK'
  BY <1>17, <1>18 DEF CloseEnd, TypeOK
<1>19. ASSUME NEW e \in Ends, TearDown(e) PROVE TypeOK'
  BY <1>17, <1>19 DEF TearDown, TypeOK
<1>20. CASE UNCHANGED vars
  BY <1>20 DEF vars, TypeOK
<1> QED
  BY <1>1, <1>2, <1>3, <1>4, <1>5, <1>6, <1>7, <1>8, <1>9, <1>10, <1>11, <1>12,
     <1>13, <1>14, <1>15, <1>16, <1>18, <1>19, <1>20
     DEF Next, Writer, Reader, Resend, Receive

\* The fields of the sessions, the goroutines' states and the frames on the path
\* keep their types in every reachable state (session.go, whole file).
THEOREM TypeCorrect == Spec => []TypeOK
  BY InitType, NextType, PTL DEF Spec

-----------------------------------------------------------------------------
(***************************************************************************)
(* No lost wake-up.  The property is inductive given the types: a blocked  *)
(* goroutine saw its condition false under s.mu, and every step that makes *)
(* it true leaves a token.                                                 *)
(***************************************************************************)
\* Consuming an acknowledgement either leaves the window as it is or leaves a
\* token for the writer; it never takes a token.
LEMMA ConsumeAckWakes ==
  ASSUME TypeOK, NEW e \in Ends, NEW a, NEW w \in BOOLEAN, ConsumeAck(e, a, w),
         NEW g \in Ends
  PROVE  /\ sendSlots'[g] = sendSlots[g] \/ writeWait'[g]
         /\ writeWait[g] => writeWait'[g]
<1>1. writeWait' = [writeWait EXCEPT ![e] = @ \/ w \/ Unacked(e, a) # sendSlots[e]]
  BY DEF ConsumeAck
<1>2. sendSlots' = [sendSlots EXCEPT ![e] = Unacked(e, a)]
  BY DEF ConsumeAck
<1>3. CASE g = e
  BY <1>1, <1>2, <1>3 DEF TypeOK
<1>4. CASE g # e
  BY <1>1, <1>2, <1>4 DEF TypeOK
<1> QED
  BY <1>3, <1>4

\* Storing a frame either leaves the stream's length as it is or leaves a token
\* for the reader; it never takes a token.
LEMMA StoreDataWakes ==
  ASSUME TypeOK, NEW e \in Ends, NEW f \in Frame, StoreData(e, f), NEW g \in Ends
  PROVE  /\ Len(stream'[g]) = Len(stream[g]) \/ readWait'[g]
         /\ readWait[g] => readWait'[g]
<1> DEFINE buf == Stored(e, f)
<1>1. PICK k \in 0 .. MaxInFlight :
        /\ stream' = [stream EXCEPT ![e] = @ \o [i \in 1 .. k |-> buf[i - 1]]]
        /\ readWait' = [readWait EXCEPT ![e] = @ \/ k > 0]
  BY DEF StoreData
<1>2. CASE g = e /\ k > 0
  <2>1. readWait'[g] = (readWait[g] \/ k > 0)
    BY <1>1, <1>2 DEF TypeOK
  <2> QED
    BY <2>1, <1>2
<1>3. CASE g = e /\ k = 0
  <2>1. [i \in 1 .. k |-> buf[i - 1]] = <<>>
    BY <1>3
  <2>2. stream'[g] = stream[g]
    BY <1>1, <1>3, <2>1, ConcatEmptySeq DEF TypeOK
  <2>3. readWait'[g] = (readWait[g] \/ k > 0)
    BY <1>1, <1>3 DEF TypeOK
  <2> QED
    BY <2>2, <2>3
<1>4. CASE g # e
  BY <1>1, <1>4 DEF TypeOK
<1> QED
  BY <1>2, <1>3, <1>4

\* A forced close leaves a token for both goroutines, unless it had no effect.
LEMMA ForceCloseWakes ==
  ASSUME TypeOK, NEW e \in Ends, ForceClose(e), NEW g \in Ends
  PROVE  /\ closed'[g] = closed[g] \/ (writeWait'[g] /\ readWait'[g])
         /\ readEOF'[g] = readEOF[g] \/ closed[g] \/ (writeWait'[g] /\ readWait'[g])
         /\ writeWait[g] => writeWait'[g]
         /\ readWait[g] => readWait'[g]
<1>1. CASE g = e /\ ~closed[e]
  <2>1. writeWait'[g] = (writeWait[g] \/ ~closed[e]) /\ readWait'[g] = (readWait[g] \/ ~closed[e])
    BY <1>1 DEF ForceClose, TypeOK
  <2> QED
    BY <1>1, <2>1
<1>2. CASE g = e /\ closed[e]
  <2>1. writeWait'[g] = (writeWait[g] \/ ~closed[e]) /\ readWait'[g] = (readWait[g] \/ ~closed[e])
    BY <1>2 DEF ForceClose, TypeOK
  <2>2. closed'[g] = TRUE
    BY <1>2 DEF ForceClose, TypeOK
  <2> QED
    BY <1>2, <2>1, <2>2 DEF TypeOK
<1>3. CASE g # e
  BY <1>3 DEF ForceClose, TypeOK
<1> QED
  BY <1>1, <1>2, <1>3

WriterWakes(e) == wpc[e] = "wait" /\ (~WindowFull(e) \/ closed[e]) => writeWait[e]
ReaderWakes(e) == rpc[e] = "wait" /\ (Unread(e) > 0 \/ Ended(e)) => readWait[e]

\* A step that neither blocks a goroutine nor takes its token keeps the promise if
\* what the goroutine waits for is unchanged or the token is there.
LEMMA WriterKept ==
  ASSUME NEW g \in Ends, WriterWakes(g),
         wpc'[g] = "wait" => wpc[g] = "wait",
         writeWait[g] => writeWait'[g],
         (sendSlots'[g] = sendSlots[g] /\ closed'[g] = closed[g]) \/ writeWait'[g]
  PROVE  WriterWakes(g)'
  BY DEF WriterWakes, WindowFull

\* A step that leaves a Read alone, or its token waiting, loses no wake-up of it.
LEMMA ReaderKept ==
  ASSUME NEW g \in Ends, ReaderWakes(g),
         rpc'[g] = "wait" => rpc[g] = "wait",
         readWait[g] => readWait'[g],
         (/\ Len(stream'[g]) = Len(stream[g]) /\ taken'[g] = taken[g]
          /\ Ended(g)' = Ended(g)) \/ readWait'[g]
  PROVE  ReaderWakes(g)'
  BY DEF ReaderWakes, Unread

\* The invariant says of each end what the two lemmas keep.
LEMMA WakeupParts == NoLostWakeup <=> \A e \in Ends : WriterWakes(e) /\ ReaderWakes(e)
  BY DEF NoLostWakeup, WriterWakes, ReaderWakes

\* No step loses a wake-up: whoever changes a condition signals it.
LEMMA WakeupStep == TypeOK /\ NoLostWakeup /\ [Next]_vars => NoLostWakeup'
<1> SUFFICES ASSUME TypeOK, \A e \in Ends : WriterWakes(e) /\ ReaderWakes(e), [Next]_vars,
                    NEW g \in Ends
             PROVE  WriterWakes(g)' /\ ReaderWakes(g)'
  BY DEF NoLostWakeup, WriterWakes, ReaderWakes
<1> USE DEF sendVars, recvVars, flags
<1>1. ASSUME NEW e \in Ends, WriteBlock(e) PROVE WriterWakes(g)' /\ ReaderWakes(g)'
  <2>1. ReaderWakes(g)'
    BY <1>1, ReaderKept DEF WriteBlock, Ended
  <2>2. CASE g = e
    BY <1>1, <2>1, <2>2 DEF WriteBlock, WriterWakes, WindowFull, Stopped, TypeOK
  <2>3. CASE g # e
    BY <1>1, <2>1, <2>3, WriterKept DEF WriteBlock, TypeOK
  <2> QED
    BY <2>1, <2>2, <2>3
<1>2. ASSUME NEW e \in Ends, WriteWake(e) PROVE WriterWakes(g)' /\ ReaderWakes(g)'
  <2>1. ReaderWakes(g)'
    BY <1>2, ReaderKept DEF WriteWake, Ended
  <2>2. CASE g = e
    BY <1>2, <2>1, <2>2 DEF WriteWake, WriterWakes, TypeOK
  <2>3. CASE g # e
    BY <1>2, <2>1, <2>3, WriterKept DEF WriteWake, TypeOK
  <2> QED
    BY <2>1, <2>2, <2>3
<1>3. ASSUME NEW e \in Ends, WriteQueue(e) PROVE WriterWakes(g)' /\ ReaderWakes(g)'
  <2>1. ReaderWakes(g)'
    BY <1>3, ReaderKept DEF WriteQueue, Ended
  <2>2. CASE g = e
    BY <1>3, <2>1, <2>2 DEF WriteQueue, WriterWakes, TypeOK
  <2>3. CASE g # e
    BY <1>3, <2>1, <2>3, WriterKept DEF WriteQueue, TypeOK
  <2> QED
    BY <2>1, <2>2, <2>3
<1>4. ASSUME NEW e \in Ends, WriteSend(e) PROVE WriterWakes(g)' /\ ReaderWakes(g)'
  BY <1>4, WriterKept, ReaderKept DEF WriteSend, Ended, TypeOK
<1>5. ASSUME NEW e \in Ends, WriteFails(e) \/ WriteRefused(e)
      PROVE  WriterWakes(g)' /\ ReaderWakes(g)'
  BY <1>5, WriterKept, ReaderKept DEF WriteFails, WriteRefused, Ended, TypeOK
<1>6. ASSUME NEW e \in Ends, NEW d, Retransmit(e, d) PROVE WriterWakes(g)' /\ ReaderWakes(g)'
  BY <1>6, WriterKept, ReaderKept DEF Retransmit, Ended
<1>7. ASSUME NEW e \in Ends, Lose(e) PROVE WriterWakes(g)' /\ ReaderWakes(g)'
  BY <1>7, WriterKept, ReaderKept DEF Lose, Ended
<1>8. ASSUME NEW e \in Ends, ReadBlock(e) PROVE WriterWakes(g)' /\ ReaderWakes(g)'
  <2>1. WriterWakes(g)'
    BY <1>8, WriterKept DEF ReadBlock
  <2>2. CASE g = e
    BY <1>8, <2>1, <2>2 DEF ReadBlock, ReaderWakes, Unread, Ended, TypeOK
  <2>3. CASE g # e
    BY <1>8, <2>1, <2>3, ReaderKept DEF ReadBlock, Ended, TypeOK
  <2> QED
    BY <2>1, <2>2, <2>3
<1>9. ASSUME NEW e \in Ends, ReadWake(e) PROVE WriterWakes(g)' /\ ReaderWakes(g)'
  <2>1. WriterWakes(g)'
    BY <1>9, WriterKept DEF ReadWake
  <2>2. CASE g = e
    BY <1>9, <2>1, <2>2 DEF ReadWake, ReaderWakes, TypeOK
  <2>3. CASE g # e
    BY <1>9, <2>1, <2>3, ReaderKept DEF ReadWake, Ended, TypeOK
  <2> QED
    BY <2>1, <2>2, <2>3
<1>10. ASSUME NEW e \in Ends, ReadTimeout(e) PROVE WriterWakes(g)' /\ ReaderWakes(g)'
  BY <1>10, WriterKept, ReaderKept DEF ReadTimeout, Ended, TypeOK
<1>11. ASSUME NEW e \in Ends, ReadData(e) PROVE WriterWakes(g)' /\ ReaderWakes(g)'
  <2>1. WriterWakes(g)'
    BY <1>11, WriterKept DEF ReadData
  <2>2. CASE g = e
    BY <1>11, <2>1, <2>2 DEF ReadData, ReaderWakes
  <2>3. CASE g # e
    BY <1>11, <2>1, <2>3, ReaderKept DEF ReadData, Ended, TypeOK
  <2> QED
    BY <2>1, <2>2, <2>3
<1>12. ASSUME NEW e \in Ends, ReadEnd(e) PROVE WriterWakes(g)' /\ ReaderWakes(g)'
  BY <1>12, WriterKept, ReaderKept DEF ReadEnd, Ended, TypeOK
<1>13. ASSUME NEW e \in Ends, NEW f \in net[e], NEW again \in BOOLEAN,
              ReceiveData(e, f, again)
       PROVE  WriterWakes(g)' /\ ReaderWakes(g)'
  <2>1. f \in Frame /\ ConsumeAck(e, f.ack, FALSE) /\ StoreData(e, f)
    BY <1>13 DEF ReceiveData, TypeOK
  <2>2. WriterWakes(g)'
    BY <1>13, <2>1, ConsumeAckWakes, WriterKept DEF ReceiveData
  <2>3. ReaderWakes(g)'
    BY <1>13, <2>1, StoreDataWakes, ReaderKept DEF ReceiveData, Ended
  <2> QED
    BY <2>2, <2>3
<1>14. ASSUME NEW e \in Ends, NEW f \in net[e], NEW again \in BOOLEAN,
              ReceiveAck(e, f, again)
       PROVE  WriterWakes(g)' /\ ReaderWakes(g)'
  <2>1. ConsumeAck(e, f.ack, TRUE)
    BY <1>14 DEF ReceiveAck
  <2>2. WriterWakes(g)'
    BY <1>14, <2>1, ConsumeAckWakes, WriterKept DEF ReceiveAck
  <2> QED
    BY <1>14, <2>2, ReaderKept DEF ReceiveAck, Ended
<1>15. ASSUME NEW e \in Ends, NEW f \in net[e], NEW again \in BOOLEAN,
              ReceiveFin(e, f, again)
       PROVE  WriterWakes(g)' /\ ReaderWakes(g)'
  <2>1. ConsumeAck(e, f.ack, FALSE)
    BY <1>15 DEF ReceiveFin
  <2>2. WriterWakes(g)'
    BY <1>15, <2>1, ConsumeAckWakes, WriterKept DEF ReceiveFin
  <2>3. ReaderWakes(g)'
    BY <1>15, ReaderKept DEF ReceiveFin, Ended, TypeOK
  <2> QED
    BY <2>2, <2>3
<1>16. ASSUME NEW e \in Ends, CloseBegin(e) PROVE WriterWakes(g)' /\ ReaderWakes(g)'
  BY <1>16, WriterKept, ReaderKept DEF CloseBegin, Ended
<1>17. ASSUME NEW e \in Ends, ForceClose(e),
              UNCHANGED <<sendVars, wpc, recvVars, taken, rpc>>
       PROVE  WriterWakes(g)' /\ ReaderWakes(g)'
  <2>1. WriterWakes(g)'
    BY <1>17, ForceCloseWakes, WriterKept
  <2>2. Ended(g)' = Ended(g) \/ readWait'[g]
    BY <1>17, ForceCloseWakes DEF Ended, TypeOK
  <2>3. ReaderWakes(g)'
    BY <1>17, <2>2, ForceCloseWakes, ReaderKept
  <2> QED
    BY <2>1, <2>3
<1>18. ASSUME NEW e \in Ends, CloseEnd(e) PROVE WriterWakes(g)' /\ ReaderWakes(g)'
  BY <1>17, <1>18 DEF CloseEnd
<1>19. ASSUME NEW e \in Ends, TearDown(e) PROVE WriterWakes(g)' /\ ReaderWakes(g)'
  BY <1>17, <1>19 DEF TearDown
<1>20. CASE UNCHANGED vars
  BY <1>20, WriterKept, ReaderKept DEF vars, Ended
<1> QED
  BY <1>1, <1>2, <1>3, <1>4, <1>5, <1>6, <1>7, <1>8, <1>9, <1>10, <1>11, <1>12,
     <1>13, <1>14, <1>15, <1>16, <1>18, <1>19, <1>20
     DEF Next, Writer, Reader, Resend, Receive

\* A Read or Write blocked on a condition that no longer holds always has its
\* token: one token per channel loses no wake-up (notify, read, write, close).
THEOREM NoWakeupIsLost == Spec => []NoLostWakeup
<1>1. Init => NoLostWakeup
  BY DEF Init, NoLostWakeup
<1> QED
  BY <1>1, WakeupStep, TypeCorrect, PTL DEF Spec

-----------------------------------------------------------------------------
(***************************************************************************)
(* The order of the stream.  InOrder alone is not inductive: what a frame  *)
(* adds to the stream depends on what it carries, what recvBuf holds, and  *)
(* on acknowledgements not running ahead of the receiver.  The invariant   *)
(* says all of that, for sequence numbers that do not wrap.                *)
(***************************************************************************)
\* Sequence numbers count the chunks: those written, and those received.
Counted(e) ==
  /\ written[e] <= Chunks(e) /\ sendNext[e] = written[e]
  /\ recvNext[e] = Len(stream[e])

Ordered(e) ==
  /\ Len(stream[e]) <= written[Peer(e)]
  /\ \A i \in 1 .. Len(stream[e]) : stream[e][i] = i

\* The window holds at most MaxInFlight frames, each numbered as its chunk.
SlotsRight(e) ==
  /\ IsFiniteSet(sendSlots[e]) /\ Cardinality(sendSlots[e]) <= MaxInFlight
  /\ \A s \in sendSlots[e] : s.data = s.seq + 1 /\ s.data <= written[e]

Released(e) ==
  \A d \in Len(stream[Peer(e)]) + 1 .. written[e] : \E s \in sendSlots[e] : s.data = d

\* A frame sent by e: it acknowledges no more than e has received, and its
\* sequence number tells the chunk it carries.
FrameRight(f, e) ==
  /\ f.ack <= Len(stream[e])
  /\ f.type = "DATA" => f.data = f.seq + 1 /\ f.data <= written[e]

BufferRight(e) ==
  \A o \in Offsets :
    recvBuf[e][o] # None => /\ recvBuf[e][o] = Len(stream[e]) + o + 1
                            /\ recvBuf[e][o] <= written[Peer(e)]

FramesRight(e) ==
  /\ \A f \in net[e] : FrameRight(f, Peer(e))
  /\ \A f \in pending[e] : FrameRight(f, e)

SessionInv(e) ==
  Counted(e) /\ Ordered(e) /\ SlotsRight(e) /\ Released(e) /\ BufferRight(e) /\ FramesRight(e)

IInv == TypeOK /\ \A e \in Ends : SessionInv(e)

\* Nothing has been written or sent yet: every part of the invariant holds.
LEMMA InitIInv == Init => IInv
<1> SUFFICES ASSUME Init, NEW e \in Ends PROVE SessionInv(e)
  BY InitType DEF IInv
<1>1. Peer(e) \in Ends /\ Chunks(e) \in Nat
  BY PeerFacts, ChunksType
<1>2. Counted(e) /\ Ordered(e) /\ Released(e)
  BY <1>1 DEF Init, Counted, Ordered, Released
<1>3. SlotsRight(e)
  BY FS_EmptySet, ParametersAssumption DEF Init, SlotsRight
<1>4. BufferRight(e)
  BY DEF Init, BufferRight
<1>5. FramesRight(e)
  <2>1. pending[e] = {} /\ \A f \in net[e] : f = Control("SYNACK", 0)
    BY DEF Init
  <2>2. FrameRight(Control("SYNACK", 0), Peer(e))
    BY <1>1 DEF Init, FrameRight, Control
  <2> QED
    BY <2>1, <2>2 DEF FramesRight
<1> QED
  BY <1>2, <1>3, <1>4, <1>5 DEF SessionInv

\* A frame that was right stays right: the counts only grow.
LEMMA FrameKept ==
  ASSUME IInv, TypeOK', NEW e \in Ends, NEW f \in Frame, FrameRight(f, e),
         written[e] <= written'[e], Len(stream[e]) <= Len(stream'[e])
  PROVE  FrameRight(f, e)'
  BY LenProperties DEF FrameRight, IInv, TypeOK, Frame

\* A step that leaves both windows alone and sends only right frames.
LEMMA QuietStep ==
  ASSUME IInv, TypeOK', UNCHANGED <<written, sendNext, sendSlots, recvNext, recvBuf, stream>>,
         \A g \in Ends : /\ \A f \in net'[g] : FrameRight(f, Peer(g))
                         /\ pending'[g] \subseteq pending[g]
  PROVE  IInv'
  BY DEF IInv, SessionInv, Counted, Ordered, SlotsRight, Released, BufferRight, FramesRight,
         FrameRight

\* What a send adds to a path is right if the frame is.
LEMMA SendRight ==
  ASSUME IInv, NEW e \in Ends, NEW f \in Frame, FrameRight(f, e), Send(e, f), NEW g \in Ends
  PROVE  \A h \in net'[g] : FrameRight(h, Peer(g))
<1>1. \A h \in net'[g] : h \in net[g] \/ (g = Peer(e) /\ h = f)
  <2>1. TypeOK /\ Transmit(net[Peer(e)], f) \subseteq net[Peer(e)] \cup {f}
    BY TransmitFacts DEF IInv
  <2> QED
    BY <2>1, PeerFacts DEF Send, TypeOK
<1>2. FramesRight(g)
  BY DEF IInv, SessionInv
<1>3. g = Peer(e) => Peer(g) = e
  BY PeerFacts
<1> QED
  BY <1>1, <1>2, <1>3 DEF FramesRight

\* consumeAckLocked keeps every frame the peer has not received.
LEMMA ConsumeAckRight ==
  ASSUME IInv, NEW e \in Ends, NEW a \in Nat, a <= Len(stream[Peer(e)]), NEW w \in BOOLEAN,
         ConsumeAck(e, a, w), NEW g \in Ends
  PROVE  /\ IsFiniteSet(sendSlots'[g]) /\ Cardinality(sendSlots'[g]) <= MaxInFlight
         /\ \A s \in sendSlots'[g] : s.data = s.seq + 1 /\ s.data <= written[g]
         /\ \A d \in Len(stream[Peer(g)]) + 1 .. written[g] :
              \E s \in sendSlots'[g] : s.data = d
<1>1. sendSlots' = [sendSlots EXCEPT ![e] = Unacked(e, a)]
  BY DEF ConsumeAck
<1>2. SlotsRight(g) /\ Released(g)
  BY DEF IInv, SessionInv
<1>3. CASE g # e
  BY <1>1, <1>2, <1>3 DEF IInv, TypeOK, SlotsRight, Released
<1>4. CASE g = e
  <2>1. sendSlots'[g] = Unacked(g, a) /\ Unacked(g, a) \in SUBSET sendSlots[g]
    BY <1>1, <1>4 DEF IInv, TypeOK, Unacked
  <2>2. /\ IsFiniteSet(Unacked(g, a)) /\ Cardinality(Unacked(g, a)) <= Cardinality(sendSlots[g])
        /\ Cardinality(Unacked(g, a)) \in Nat /\ Cardinality(sendSlots[g]) \in Nat
    BY <1>2, <2>1, FS_Subset, FS_CardinalityType DEF SlotsRight
  <2>3. Cardinality(Unacked(g, a)) <= MaxInFlight
    BY <1>2, <2>2, ParametersAssumption DEF SlotsRight
  <2>4. ASSUME NEW d \in Len(stream[Peer(g)]) + 1 .. written[g]
        PROVE  \E s \in Unacked(g, a) : s.data = d
    <3>1. PICK s \in sendSlots[g] : s.data = d
      BY <1>2 DEF Released
    <3>2. s.seq + 1 = d /\ s.seq \in Nat /\ Len(stream[Peer(g)]) \in Nat
      BY <1>2, <3>1, PeerFacts, LenProperties, ParametersAssumption
         DEF SlotsRight, IInv, TypeOK, Slot
    <3>3. s.seq >= a
      BY <3>2, <1>4
    <3> QED
      BY <3>1, <3>3 DEF Unacked
  <2> QED
    BY <1>2, <2>1, <2>2, <2>3, <2>4 DEF SlotsRight
<1> QED
  BY <1>3, <1>4

\* The room left in the window bounds how far the writer is ahead of the reader.
LEMMA WindowRoom ==
  ASSUME IInv, NEW e \in Ends
  PROVE  /\ written[e] <= Len(stream[Peer(e)]) + Cardinality(sendSlots[e])
         /\ Cardinality(sendSlots[e]) \in Nat /\ Cardinality(sendSlots[e]) <= MaxInFlight
<1>1. SlotsRight(e) /\ Released(e)
  BY DEF IInv, SessionInv
<1>2. written[e] \in Nat /\ Len(stream[Peer(e)]) \in Nat
  BY PeerFacts, LenProperties DEF IInv, TypeOK
<1> QED
  BY <1>1, <1>2, WindowCount, FS_CardinalityType DEF SlotsRight, Released

\* write() queues the next chunk under the next sequence number.
LEMMA WriteQueueStep ==
  ASSUME IInv, TypeOK', NoWrap, NEW e \in Ends, WriteQueue(e)
  PROVE  IInv'
<1> DEFINE d == written[e] + 1
           s == sendNext[e]
<1> USE DEF recvVars
<1>1. TypeOK /\ SessionInv(e)
  BY DEF IInv
<1>2. /\ written' = [written EXCEPT ![e] = d]
      /\ sendNext' = [sendNext EXCEPT ![e] = (s + 1) % SeqMod]
      /\ sendSlots' = [sendSlots EXCEPT ![e] = @ \cup {[seq |-> s, data |-> d]}]
      /\ pending' = [pending EXCEPT ![e] = {DataFrame(s, recvNext[e], d)}]
      /\ UNCHANGED <<recvNext, recvBuf, stream, net>>
      /\ d <= Chunks(e) /\ ~WindowFull(e)
  <2>1. d <= Chunks(e)
    BY ChunksType DEF WriteQueue, IInv, TypeOK
  <2> QED
    BY <2>1 DEF WriteQueue
<1>3. s = written[e] /\ d \in Nat /\ d = s + 1
  BY <1>1 DEF SessionInv, Counted, IInv, TypeOK
<1>4. (s + 1) % SeqMod = d
  BY <1>2, <1>3, SeqArithmetic, ChunksType, ParametersAssumption DEF NoWrap, Chunks
<1>5. \A g \in Ends : written[g] \in Nat /\ written[g] <= written'[g] /\ written'[g] \in Nat
  BY <1>2 DEF IInv, TypeOK
<1> SUFFICES ASSUME NEW g \in Ends PROVE SessionInv(g)'
  BY DEF IInv
<1>6. /\ Counted(g) /\ Ordered(g) /\ SlotsRight(g) /\ Released(g) /\ BufferRight(g)
      /\ FramesRight(g) /\ Peer(g) \in Ends
      /\ Len(stream[g]) \in Nat /\ Len(stream[Peer(g)]) \in Nat
  BY <1>1, PeerFacts, LenProperties DEF IInv, SessionInv, TypeOK
<1>7. Counted(g)'
  BY <1>1, <1>2, <1>3, <1>4, <1>6 DEF Counted, TypeOK
<1>8. Ordered(g)'
  BY <1>1, <1>2, <1>5, <1>6 DEF Ordered
<1>9. SlotsRight(g)' /\ Released(g)'
  <2>1. CASE g # e
    BY <1>1, <1>2, <1>6, <2>1 DEF SlotsRight, Released, TypeOK
  <2>2. CASE g = e
    <3> DEFINE new == [seq |-> s, data |-> d]
    <3>1. sendSlots'[g] = sendSlots[g] \cup {new} /\ written'[g] = d
      BY <1>1, <1>2, <2>2 DEF TypeOK
    <3>2. IsFiniteSet(sendSlots[g]) /\ Cardinality(sendSlots[g]) < MaxInFlight
          /\ Cardinality(sendSlots[g]) \in Nat
      BY <1>1, <1>2, <1>6, <2>2, FS_CardinalityType, ParametersAssumption
         DEF SlotsRight, WindowFull
    <3>3. IsFiniteSet(sendSlots[g] \cup {new}) /\ Cardinality(sendSlots[g] \cup {new}) <= MaxInFlight
      <4> HIDE DEF new
      <4>1. /\ IsFiniteSet(sendSlots[g] \cup {new})
            /\ Cardinality(sendSlots[g] \cup {new}) \in Nat
            /\ Cardinality(sendSlots[g] \cup {new}) <= Cardinality(sendSlots[g]) + 1
        BY <3>2, AddOne
      <4> QED
        BY <3>2, <4>1, ParametersAssumption
    <3>4. \A t \in sendSlots'[g] : t.data = t.seq + 1 /\ t.data <= written'[g]
      <4> SUFFICES ASSUME NEW t \in sendSlots[g] \cup {new}
                   PROVE  t.data = t.seq + 1 /\ t.data <= d
        BY <3>1
      <4>1. CASE t = new
        BY <1>3, <4>1
      <4>2. CASE t \in sendSlots[g]
        <5>1. t \in Slot
          BY <1>1, <4>2 DEF TypeOK
        <5>2. t.data = t.seq + 1 /\ t.data <= written[g] /\ t.data \in Nat
          BY <1>6, <4>2, <5>1 DEF SlotsRight, Slot
        <5> QED
          BY <1>3, <1>5, <2>2, <5>2
      <4> QED
        BY <4>1, <4>2
    <3>5. Released(g)'
      <4> SUFFICES ASSUME NEW c \in Len(stream[Peer(g)]) + 1 .. d
                   PROVE  \E t \in sendSlots'[g] : t.data = c
        BY <1>1, <1>2, <3>1 DEF Released
      <4>1. c = d \/ c \in Len(stream[Peer(g)]) + 1 .. written[g]
        BY <1>5, <1>6, <2>2
      <4>2. new.data = d
        OBVIOUS
      <4> QED
        BY <1>6, <3>1, <4>1, <4>2 DEF Released
    <3> QED
      BY <3>1, <3>3, <3>4, <3>5 DEF SlotsRight
  <2> QED
    BY <2>1, <2>2
<1>10. BufferRight(g)'
  <2> SUFFICES ASSUME NEW o \in Offsets, recvBuf[g][o] # None
               PROVE  /\ recvBuf[g][o] = Len(stream[g]) + o + 1
                      /\ recvBuf[g][o] <= written'[Peer(g)]
    BY <1>2 DEF BufferRight
  <2>1. recvBuf[g][o] \in Nat
    BY <1>1 DEF TypeOK
  <2> QED
    BY <1>5, <1>6, <2>1 DEF BufferRight
<1>11. FramesRight(g)'
  <2>0. ASSUME NEW h \in Ends, NEW f \in Frame, FrameRight(f, h) PROVE FrameRight(f, h)'
    BY <1>2, <1>5, <2>0 DEF FrameRight, Frame
  <2>1. \A f \in net[g] : FrameRight(f, Peer(g))'
    BY <1>1, <1>6, <2>0 DEF FramesRight, TypeOK
  <2>2. CASE g # e
    <3>1. pending'[g] = pending[g] /\ pending[g] \subseteq Frame
      BY <1>1, <1>2, <2>2 DEF TypeOK
    <3> QED
      BY <1>2, <1>6, <2>0, <2>1, <3>1 DEF FramesRight
  <2>3. CASE g = e
    <3>1. pending'[g] = {DataFrame(s, recvNext[e], d)} /\ recvNext[e] = Len(stream[e])
      BY <1>1, <1>2, <2>3 DEF SessionInv, Counted, TypeOK
    <3>2. ASSUME NEW f \in pending'[g] PROVE FrameRight(f, g)'
      <4>1. f.ack = Len(stream'[g]) /\ f.data = d /\ f.seq = s /\ written'[g] = d
        BY <1>1, <1>2, <2>3, <3>1, <3>2 DEF DataFrame, TypeOK
      <4> QED
        BY <1>2, <1>3, <1>6, <4>1 DEF FrameRight
    <3> QED
      BY <1>2, <2>1, <3>2 DEF FramesRight
  <2> QED
    BY <2>2, <2>3
<1> QED
  BY <1>7, <1>8, <1>9, <1>10, <1>11 DEF SessionInv

\* onPacket for an ACK or a FIN: slots are released, nothing is received.
LEMMA ControlStep ==
  ASSUME IInv, TypeOK', NEW e \in Ends, NEW f \in net[e], NEW w \in BOOLEAN,
         ConsumeAck(e, f.ack, w), UNCHANGED recvVars,
         \A g \in Ends : \A h \in net'[g] : FrameRight(h, Peer(g))
  PROVE  IInv'
<1> SUFFICES ASSUME NEW g \in Ends PROVE SessionInv(g)'
  BY DEF IInv
<1>1. /\ Counted(g) /\ Ordered(g) /\ BufferRight(g) /\ FramesRight(g) /\ SessionInv(e)
  BY DEF IInv, SessionInv
<1>2. f \in Frame /\ FrameRight(f, Peer(e))
  BY <1>1 DEF IInv, TypeOK, SessionInv, FramesRight
<1>3. f.ack \in Nat /\ f.ack <= Len(stream[Peer(e)])
  BY <1>2 DEF Frame, FrameRight
<1>4. UNCHANGED <<written, sendNext, pending, recvNext, recvBuf, stream>>
  BY DEF ConsumeAck, recvVars
<1>5. SlotsRight(g)' /\ Released(g)'
  BY <1>3, <1>4, ConsumeAckRight DEF SlotsRight, Released
<1>6. FramesRight(g)'
  BY <1>1, <1>4 DEF FramesRight, FrameRight
<1> QED
  BY <1>1, <1>4, <1>5, <1>6 DEF SessionInv, Counted, Ordered, BufferRight

\* The payload stored for a frame is the chunk its offset stands for.
LEMMA StoredRight ==
  ASSUME IInv, NEW e \in Ends, NEW f \in Frame, FrameRight(f, Peer(e)), f.type = "DATA"
  PROVE  /\ Stored(e, f) \in [Offsets -> Nat]
         /\ \A o \in Offsets : Stored(e, f)[o] # None =>
              /\ Stored(e, f)[o] = Len(stream[e]) + o + 1
              /\ Stored(e, f)[o] <= written[Peer(e)]
<1>1. /\ recvBuf[e] \in [Offsets -> Nat] /\ BufferRight(e) /\ recvNext[e] = Len(stream[e])
      /\ Len(stream[e]) \in Nat
  BY LenProperties DEF IInv, TypeOK, SessionInv, Counted
<1>2. /\ f.seq \in Nat /\ f.data \in Nat /\ f.data = f.seq + 1
      /\ f.data <= written[Peer(e)]
  BY DEF Frame, FrameRight
<1>3. CASE OutOfWindow(e, f)
  BY <1>1, <1>3 DEF Stored, BufferRight
<1>4. CASE ~OutOfWindow(e, f)
  <2> DEFINE off == f.seq - recvNext[e]
  <2>1. off \in Offsets /\ f.data = Len(stream[e]) + off + 1
    BY <1>1, <1>2, <1>4, ParametersAssumption DEF OutOfWindow, Offsets
  <2>2. Stored(e, f) = [recvBuf[e] EXCEPT ![off] = IF @ = None THEN f.data ELSE @]
    BY <1>4 DEF Stored
  <2> QED
    BY <1>1, <1>2, <2>1, <2>2 DEF BufferRight
<1> QED
  BY <1>3, <1>4

\* storeDataLocked extends the stream with the chunks that follow it, and what
\* stays in the window still stands at its offset.
LEMMA StoreDataRight ==
  ASSUME IInv, NoWrap, NEW e \in Ends, NEW f \in Frame, FrameRight(f, Peer(e)),
         f.type = "DATA", StoreData(e, f)
  PROVE  \E k \in 0 .. MaxInFlight :
           /\ Len(stream'[e]) = Len(stream[e]) + k
           /\ Len(stream'[e]) <= written[Peer(e)]
           /\ \A i \in 1 .. Len(stream'[e]) : stream'[e][i] = i
           /\ recvNext'[e] = Len(stream[e]) + k
           /\ \A o \in Offsets : recvBuf'[e][o] # None =>
                /\ recvBuf'[e][o] = Len(stream[e]) + k + o + 1
                /\ recvBuf'[e][o] <= written[Peer(e)]
           /\ stream' = [stream EXCEPT ![e] = @ \o [i \in 1 .. k |-> Len(@) + i]]
           /\ recvNext' = [recvNext EXCEPT ![e] = Len(stream[e]) + k]
           /\ \A g \in Ends \ {e} : recvBuf'[g] = recvBuf[g]
<1> DEFINE buf == Stored(e, f)
           n == Len(stream[e])
<1>1. /\ TypeOK /\ Ordered(e) /\ recvNext[e] = n /\ n \in Nat
      /\ Peer(e) \in Ends /\ Counted(Peer(e))
  BY PeerFacts, LenProperties DEF IInv, TypeOK, SessionInv, Counted
<1>2. PICK k \in 0 .. MaxInFlight :
        /\ LeadingRun(buf, k)
        /\ stream' = [stream EXCEPT ![e] = @ \o [i \in 1 .. k |-> buf[i - 1]]]
        /\ recvBuf' = [recvBuf EXCEPT ![e] = Slide(buf, k)]
        /\ recvNext' = [recvNext EXCEPT ![e] = (@ + k) % SeqMod]
  BY DEF StoreData
<1>3. buf \in [Offsets -> Nat]
      /\ \A o \in Offsets : buf[o] # None => buf[o] = n + o + 1 /\ buf[o] <= written[Peer(e)]
  BY StoredRight
<1>4. \A i \in 1 .. k : buf[i - 1] = n + i /\ n + i <= written[Peer(e)]
  <2> SUFFICES ASSUME NEW i \in 1 .. k PROVE buf[i - 1] = n + i /\ n + i <= written[Peer(e)]
    OBVIOUS
  <2>1. i - 1 \in Offsets /\ i - 1 \in 0 .. k - 1
    BY ParametersAssumption DEF Offsets
  <2>2. buf[i - 1] # None
    BY <1>2, <2>1 DEF LeadingRun
  <2>3. buf[i - 1] = n + (i - 1) + 1 /\ buf[i - 1] <= written[Peer(e)]
    BY <1>3, <2>1, <2>2
  <2> QED
    BY <1>1, <2>3
<1> HIDE DEF buf, n
<1>5. n + k <= written[Peer(e)] /\ k \in Nat
  <2>1. CASE k = 0
    BY <1>1, <2>1 DEF Ordered, n
  <2>2. CASE k > 0
    BY <1>4, <2>2, ParametersAssumption
  <2> QED
    BY <2>1, <2>2, ParametersAssumption
<1>6. [i \in 1 .. k |-> buf[i - 1]] = [i \in 1 .. k |-> n + i]
  BY <1>4
<1>7. stream' = [stream EXCEPT ![e] = @ \o [i \in 1 .. k |-> n + i]]
  BY <1>2, <1>6
<1>8. /\ stream'[e] = stream[e] \o [i \in 1 .. k |-> n + i]
      /\ [i \in 1 .. k |-> n + i] \in Seq(Nat) /\ Len([i \in 1 .. k |-> n + i]) = k
  BY <1>1, <1>5, <1>7 DEF TypeOK
<1>9. /\ Len(stream'[e]) = n + k
      /\ \A i \in 1 .. n + k : stream'[e][i] = i
  <2>1. stream[e] \in Seq(Nat)
    BY <1>1 DEF TypeOK
  <2>2. Len(stream'[e]) = n + k
    BY <1>8, <2>1, ConcatProperties DEF n
  <2>3. ASSUME NEW i \in 1 .. n + k PROVE stream'[e][i] = i
    <3>1. stream'[e][i] = IF i <= n THEN stream[e][i] ELSE [j \in 1 .. k |-> n + j][i - n]
      BY <1>8, <2>1, ConcatProperties DEF n
    <3>2. CASE i <= n
      BY <1>1, <3>1, <3>2 DEF Ordered, n
    <3>3. CASE i > n
      BY <1>1, <1>5, <3>1, <3>3
    <3> QED
      BY <1>1, <1>5, <3>2, <3>3
  <2> QED
    BY <2>2, <2>3
<1>10. (n + k) % SeqMod = n + k
  <2>1. written[Peer(e)] < SeqMod /\ written[Peer(e)] \in Nat
    BY <1>1, ParametersAssumption DEF Counted, NoWrap, Chunks, TypeOK
  <2> QED
    BY <1>1, <1>5, <2>1, SeqArithmetic, ParametersAssumption
<1>11. recvNext' = [recvNext EXCEPT ![e] = n + k] /\ recvNext'[e] = n + k
  BY <1>1, <1>2, <1>10 DEF TypeOK
<1>12. \A o \in Offsets : recvBuf'[e][o] # None =>
         recvBuf'[e][o] = n + k + o + 1 /\ recvBuf'[e][o] <= written[Peer(e)]
  <2> SUFFICES ASSUME NEW o \in Offsets, recvBuf'[e][o] # None
               PROVE  recvBuf'[e][o] = n + k + o + 1 /\ recvBuf'[e][o] <= written[Peer(e)]
    OBVIOUS
  <2>1. recvBuf'[e][o] = IF o + k < MaxInFlight THEN buf[o + k] ELSE None
    BY <1>1, <1>2 DEF Slide, TypeOK
  <2>2. o + k \in Offsets /\ recvBuf'[e][o] = buf[o + k] /\ buf[o + k] # None
    BY <1>5, <2>1, ParametersAssumption DEF Offsets
  <2>3. buf[o + k] = n + (o + k) + 1 /\ buf[o + k] <= written[Peer(e)]
    BY <1>3, <2>2
  <2> QED
    BY <1>1, <1>5, <2>2, <2>3, ParametersAssumption DEF Offsets
<1>13. \A g \in Ends \ {e} : recvBuf'[g] = recvBuf[g]
  BY <1>1, <1>2 DEF TypeOK
<1> QED
  BY <1>5, <1>7, <1>9, <1>11, <1>12, <1>13 DEF n

\* Delivering a frame and answering it leaves only right frames on the paths, as
\* long as the answer acknowledges what e has received by then.
LEMMA AcknowledgeRight ==
  ASSUME IInv, NEW e \in Ends, NEW f, NEW again, Acknowledge(e, f, again),
         written' = written, \A g \in Ends : Len(stream[g]) <= Len(stream'[g]) /\ Len(stream'[g]) \in Nat,
         recvNext'[e] = Len(stream'[e]),
         NEW g \in Ends
  PROVE  \A h \in net'[g] : FrameRight(h, Peer(g))'
<1> DEFINE ackf == Control("ACK", recvNext'[e])
<1>1. /\ TypeOK /\ FramesRight(g) /\ Peer(g) \in Ends /\ (g = Peer(e) => Peer(g) = e)
      /\ Len(stream[Peer(g)]) \in Nat
  BY PeerFacts, LenProperties DEF IInv, SessionInv, TypeOK
<1>2. \A h \in net'[g] : h \in net[g] \/ (g = Peer(e) /\ h = ackf)
  <2> HIDE DEF ackf
  <2>1. Taken(net[e], f, again) \subseteq net[e]
    BY DEF Taken
  <2>2. Transmit(net[Peer(e)], ackf) \subseteq net[Peer(e)] \cup {ackf}
    BY TransmitFacts
  <2>3. net' = [net EXCEPT ![e] = Taken(@, f, again), ![Peer(e)] = Transmit(@, ackf)]
    BY DEF Acknowledge, ackf
  <2> QED
    BY <1>1, <2>1, <2>2, <2>3, PeerFacts DEF TypeOK
<1>3. ASSUME NEW h \in net[g] PROVE FrameRight(h, Peer(g))'
  <2>1. h \in Frame /\ FrameRight(h, Peer(g))
    BY <1>1 DEF TypeOK, FramesRight
  <2> QED
    BY <1>1, <2>1 DEF FrameRight, Frame
<1>4. ASSUME NEW h \in net'[g], g = Peer(e), h = ackf PROVE FrameRight(h, Peer(g))'
  <2>1. h.ack = recvNext'[e] /\ h.type = "ACK" /\ Peer(g) = e
    BY <1>1, <1>4 DEF Control
  <2> QED
    BY <2>1 DEF FrameRight
<1> QED
  BY <1>2, <1>3, <1>4

\* onPacket for a DATA frame.
LEMMA ReceiveDataStep ==
  ASSUME IInv, TypeOK', NoWrap, NEW e \in Ends, NEW f \in net[e], NEW again \in BOOLEAN,
         ReceiveData(e, f, again)
  PROVE  IInv'
<1>1. /\ ConsumeAck(e, f.ack, FALSE) /\ StoreData(e, f) /\ Acknowledge(e, f, again)
      /\ f.type = "DATA" /\ UNCHANGED <<written, sendNext, pending>>
  BY DEF ReceiveData, ConsumeAck
<1>2. /\ TypeOK /\ f \in Frame /\ FrameRight(f, Peer(e))
      /\ f.ack \in Nat /\ f.ack <= Len(stream[Peer(e)])
  <2>1. TypeOK /\ FramesRight(e)
    BY DEF IInv, SessionInv
  <2>2. f \in Frame /\ FrameRight(f, Peer(e))
    BY <2>1 DEF TypeOK, FramesRight
  <2> QED
    BY <2>1, <2>2 DEF FrameRight, Frame
<1>3. PICK k \in 0 .. MaxInFlight :
        /\ Len(stream'[e]) = Len(stream[e]) + k
        /\ Len(stream'[e]) <= written[Peer(e)]
        /\ \A i \in 1 .. Len(stream'[e]) : stream'[e][i] = i
        /\ recvNext'[e] = Len(stream[e]) + k
        /\ \A o \in Offsets : recvBuf'[e][o] # None =>
             /\ recvBuf'[e][o] = Len(stream[e]) + k + o + 1
             /\ recvBuf'[e][o] <= written[Peer(e)]
        /\ stream' = [stream EXCEPT ![e] = @ \o [i \in 1 .. k |-> Len(@) + i]]
        /\ recvNext' = [recvNext EXCEPT ![e] = Len(stream[e]) + k]
        /\ \A g \in Ends \ {e} : recvBuf'[g] = recvBuf[g]
  BY <1>1, <1>2, StoreDataRight
<1>4. \A g \in Ends \ {e} : stream'[g] = stream[g] /\ recvNext'[g] = recvNext[g]
  BY <1>2, <1>3 DEF TypeOK
<1>5. \A g \in Ends : /\ Len(stream[g]) <= Len(stream'[g])
                      /\ Len(stream[g]) \in Nat /\ Len(stream'[g]) \in Nat
  BY <1>2, <1>3, <1>4, LenProperties, ParametersAssumption DEF TypeOK
<1> SUFFICES ASSUME NEW g \in Ends PROVE SessionInv(g)'
  BY DEF IInv
<1>6. /\ Counted(g) /\ Ordered(g) /\ BufferRight(g) /\ FramesRight(g) /\ Peer(g) \in Ends
  BY PeerFacts DEF IInv, SessionInv
<1>7. Counted(g)' /\ Ordered(g)' /\ BufferRight(g)'
  <2>1. CASE g = e
    BY <1>1, <1>3, <1>6, <2>1 DEF Counted, Ordered, BufferRight
  <2>2. CASE g # e
    BY <1>1, <1>3, <1>4, <1>6, <2>2 DEF Counted, Ordered, BufferRight
  <2> QED
    BY <2>1, <2>2
<1>8. SlotsRight(g)' /\ Released(g)'
  <2>1. /\ IsFiniteSet(sendSlots'[g]) /\ Cardinality(sendSlots'[g]) <= MaxInFlight
        /\ \A s \in sendSlots'[g] : s.data = s.seq + 1 /\ s.data <= written[g]
        /\ \A d \in Len(stream[Peer(g)]) + 1 .. written[g] :
             \E s \in sendSlots'[g] : s.data = d
    BY <1>1, <1>2, ConsumeAckRight
  <2>2. /\ written[g] \in Nat /\ Len(stream[Peer(g)]) \in Nat
        /\ Len(stream'[Peer(g)]) \in Nat /\ Len(stream[Peer(g)]) <= Len(stream'[Peer(g)])
    BY <1>2, <1>5, <1>6 DEF TypeOK
  <2> QED
    BY <1>1, <2>1, <2>2 DEF SlotsRight, Released
<1>9. FramesRight(g)'
  <2>1. \A h \in net'[g] : FrameRight(h, Peer(g))'
    BY <1>1, <1>3, <1>5, AcknowledgeRight
  <2>2. ASSUME NEW h \in pending'[g] PROVE FrameRight(h, g)'
    <3>1. h \in Frame /\ FrameRight(h, g)
      BY <1>1, <1>2, <1>6 DEF TypeOK, FramesRight
    <3> QED
      BY <1>1, <1>5, <3>1 DEF FrameRight, Frame
  <2> QED
    BY <2>1, <2>2 DEF FramesRight
<1> QED
  BY <1>7, <1>8, <1>9 DEF SessionInv

\* The frames on the paths stay right when nothing is sent.
LEMMA NothingSent ==
  ASSUME IInv, NEW g \in Ends, net'[g] \subseteq net[g]
  PROVE  \A h \in net'[g] : FrameRight(h, Peer(g))
  BY DEF IInv, SessionInv, FramesRight

\* Every step keeps the invariant.
LEMMA IInvStep == NoWrap /\ IInv /\ [Next]_vars => IInv'
<1> SUFFICES ASSUME NoWrap, IInv, [Next]_vars PROVE IInv'
  OBVIOUS
<1>0. TypeOK /\ TypeOK'
  BY NextType DEF IInv
<1> USE DEF sendVars, recvVars, flags
<1> DEFINE still == UNCHANGED <<sendVars, recvVars, net>>
<1>1. ASSUME still PROVE IInv'
  BY <1>0, <1>1, NothingSent, QuietStep
<1>2. ASSUME NEW e \in Ends,
             WriteBlock(e) \/ WriteWake(e) \/ WriteRefused(e) \/ Reader(e)
             \/ CloseEnd(e) \/ TearDown(e)
      PROVE  IInv'
  BY <1>1, <1>2 DEF WriteBlock, WriteWake, WriteRefused, Reader, ReadBlock, ReadWake,
                    ReadTimeout, ReadData, ReadEnd, CloseEnd, TearDown
<1>3. ASSUME NEW e \in Ends, WriteQueue(e) PROVE IInv'
  BY <1>0, <1>3, WriteQueueStep
<1>4. ASSUME NEW e \in Ends, WriteSend(e) PROVE IInv'
  <2>1. PICK f \in pending[e] : IF closed[e] THEN UNCHANGED net ELSE Send(e, f)
    BY <1>4 DEF WriteSend
  <2>2. f \in Frame /\ FrameRight(f, e)
    BY <1>0 DEF IInv, SessionInv, FramesRight, TypeOK
  <2>3. \A g \in Ends : \A h \in net'[g] : FrameRight(h, Peer(g))
    BY <2>1, <2>2, SendRight, NothingSent
  <2>4. \A g \in Ends : pending'[g] \subseteq pending[g]
    BY <1>0, <1>4 DEF WriteSend, TypeOK
  <2> QED
    BY <1>0, <1>4, <2>3, <2>4, QuietStep DEF WriteSend
<1>5. ASSUME NEW e \in Ends, NEW d, Retransmit(e, d) PROVE IInv'
  <2>1. PICK s \in sendSlots[e] : Send(e, DataFrame(s.seq, recvNext[e], s.data))
    BY <1>5 DEF Retransmit
  <2>2. SlotsRight(e) /\ recvNext[e] = Len(stream[e]) /\ s \in Slot /\ Len(stream[e]) \in Nat
    BY <1>0, LenProperties DEF IInv, SessionInv, Counted, TypeOK
  <2>3. s.seq \in Nat /\ s.data \in Nat /\ s.data = s.seq + 1 /\ s.data <= written[e]
    BY <2>2, ParametersAssumption DEF SlotsRight, Slot
  <2>4. /\ DataFrame(s.seq, recvNext[e], s.data) \in Frame
        /\ FrameRight(DataFrame(s.seq, recvNext[e], s.data), e)
    BY <2>2, <2>3, FrameTypes DEF FrameRight, DataFrame
  <2>5. \A g \in Ends : \A h \in net'[g] : FrameRight(h, Peer(g))
    BY <2>1, <2>4, SendRight
  <2> QED
    BY <1>0, <1>5, <2>5, QuietStep DEF Retransmit
<1>6. ASSUME NEW e \in Ends, Lose(e) PROVE IInv'
  <2>1. \A g \in Ends : net'[g] \subseteq net[g]
    BY <1>0, <1>6 DEF Lose, TypeOK
  <2> QED
    BY <1>0, <1>6, <2>1, NothingSent, QuietStep DEF Lose
<1>7. ASSUME NEW e \in Ends, NEW f \in net[e], NEW again \in BOOLEAN, ReceiveData(e, f, again)
      PROVE  IInv'
  BY <1>0, <1>7, ReceiveDataStep
<1>8. ASSUME NEW e \in Ends, NEW f \in net[e], NEW again \in BOOLEAN, ReceiveAck(e, f, again)
      PROVE  IInv'
  <2>1. \A g \in Ends : net'[g] \subseteq net[g]
    BY <1>0, <1>8 DEF ReceiveAck, Taken, TypeOK
  <2> QED
    BY <1>0, <1>8, <2>1, NothingSent, ControlStep DEF ReceiveAck
<1>9. ASSUME NEW e \in Ends, NEW f \in net[e], NEW again \in BOOLEAN, ReceiveFin(e, f, again)
      PROVE  IInv'
  <2>1. /\ ConsumeAck(e, f.ack, FALSE) /\ Acknowledge(e, f, again) /\ UNCHANGED recvVars
        /\ written' = written
    BY <1>9 DEF ReceiveFin, ConsumeAck
  <2>2. /\ recvNext'[e] = Len(stream'[e])
        /\ \A g \in Ends : Len(stream[g]) <= Len(stream'[g]) /\ Len(stream'[g]) \in Nat
    BY <1>0, <2>1, LenProperties DEF IInv, SessionInv, Counted, TypeOK
  <2>3. ASSUME NEW g \in Ends, NEW h \in net'[g] PROVE FrameRight(h, Peer(g))
    <3>1. FrameRight(h, Peer(g))'
      BY <2>1, <2>2, AcknowledgeRight
    <3> QED
      BY <2>1, <3>1 DEF FrameRight
  <2> QED
    BY <1>0, <2>1, <2>3, ControlStep
<1>10. ASSUME NEW e \in Ends, CloseBegin(e) PROVE IInv'
  <2>1. recvNext[e] = Len(stream[e]) /\ recvNext[e] \in Nat
    BY <1>0, LenProperties DEF IInv, SessionInv, Counted, TypeOK
  <2>2. Control("FIN", recvNext[e]) \in Frame /\ FrameRight(Control("FIN", recvNext[e]), e)
    <3>1. Control("FIN", recvNext[e]) \in Frame
      BY <2>1, FrameTypes
    <3>2. FrameRight(Control("FIN", recvNext[e]), e)
      BY <2>1 DEF FrameRight, Control
    <3> QED
      BY <3>1, <3>2
  <2>3. \A g \in Ends : \A h \in net'[g] : FrameRight(h, Peer(g))
    BY <1>10, <2>2, SendRight DEF CloseBegin
  <2> QED
    BY <1>0, <1>10, <2>3, QuietStep DEF CloseBegin
<1>11. CASE UNCHANGED vars
  BY <1>1, <1>11 DEF vars
<1>12. ASSUME NEW e \in Ends, WriteFails(e) PROVE IInv'
  <2>1. \A g \in Ends : pending'[g] \subseteq pending[g]
    BY <1>0, <1>12 DEF WriteFails, TypeOK
  <2> QED
    BY <1>0, <1>12, <2>1, NothingSent, QuietStep DEF WriteFails
<1> QED
  BY <1>2, <1>3, <1>4, <1>5, <1>6, <1>7, <1>8, <1>9, <1>10, <1>11, <1>12
     DEF Next, Writer, Resend, Receive

\* The strengthened invariant holds for ever, while sequence numbers do not wrap.
LEMMA Invariant == ASSUME NoWrap PROVE Spec => []IInv
  BY InitIInv, IInvStep, PTL DEF Spec

\* While sequence numbers do not wrap, Read hands out exactly a prefix of what the
\* peer wrote, whatever is lost, repeated or reordered (storeDataLocked).
THEOREM StreamInOrder == ASSUME NoWrap PROVE Spec => []InOrder
<1>1. IInv => InOrder
  BY DEF IInv, SessionInv, Ordered, InOrder
<1> QED
  BY <1>1, Invariant, PTL

\* No acknowledgement releases a frame the peer does not have (consumeAckLocked).
THEOREM ReleasedOnlyWhenReceived == ASSUME NoWrap PROVE Spec => []NothingReleasedEarly
<1>1. IInv => NothingReleasedEarly
  BY DEF IInv, SessionInv, Released, NothingReleasedEarly
<1> QED
  BY <1>1, Invariant, PTL

\* A writer is at most a window ahead of its reader, so that storeDataLocked never
\* drops a frame for being too far ahead.
THEOREM WindowsStayTogether == ASSUME NoWrap PROVE Spec => []WindowsAgree
<1>1. IInv => WindowsAgree
  <2> SUFFICES ASSUME IInv, NEW e \in Ends
               PROVE  /\ written[e] <= Len(stream[Peer(e)]) + MaxInFlight
                      /\ \A f \in net[e] : f.type = "DATA" => f.seq < recvNext[e] + MaxInFlight
    BY DEF WindowsAgree
  <2>1. \A g \in Ends : /\ written[g] <= Len(stream[Peer(g)]) + MaxInFlight
                        /\ written[g] \in Nat /\ Len(stream[Peer(g)]) \in Nat
    <3> TAKE g \in Ends
    <3>1. written[g] \in Nat /\ Len(stream[Peer(g)]) \in Nat
      BY PeerFacts, LenProperties DEF IInv, TypeOK
    <3> QED
      BY <3>1, WindowRoom, ParametersAssumption
  <2>2. ASSUME NEW f \in net[e], f.type = "DATA" PROVE f.seq < recvNext[e] + MaxInFlight
    <3>1. f.seq \in Nat /\ f.data = f.seq + 1 /\ f.data <= written[Peer(e)]
      BY <2>2 DEF IInv, TypeOK, SessionInv, FramesRight, FrameRight, Frame
    <3>2. written[Peer(e)] <= Len(stream[e]) + MaxInFlight /\ recvNext[e] = Len(stream[e])
      BY <2>1, PeerFacts DEF IInv, SessionInv, Counted
    <3> QED
      BY <2>1, <3>1, <3>2, PeerFacts, ParametersAssumption
  <2> QED
    BY <2>1, <2>2
<1> QED
  BY <1>1, Invariant, PTL

-----------------------------------------------------------------------------
(***************************************************************************)
(* Refinement: a session implements a reliable stream in each direction.   *)
(* Only WriteQueue, ReceiveData and ReadData change what the stream shows. *)
(***************************************************************************)
LEMMA RefinesInit == Init => Abstract!Init
  BY DEF Init, Abstract!Init

\* Queueing a chunk puts it into the abstract pipe, which has room (write).
LEMMA WriteRefines ==
  ASSUME IInv, NEW e \in Ends, WriteQueue(e) PROVE Abstract!Put(e)
<1>1. ~WindowFull(e) /\ written' = [written EXCEPT ![e] = @ + 1] /\ UNCHANGED <<stream, taken>>
  BY DEF WriteQueue, recvVars
<1>2. written[e] \in Nat /\ Len(stream[Peer(e)]) \in Nat
  BY PeerFacts, LenProperties DEF IInv, TypeOK
<1>3. written[e] < Len(stream[Peer(e)]) + MaxInFlight
  BY <1>1, <1>2, WindowRoom, ParametersAssumption DEF WindowFull
<1> QED
  BY <1>1, <1>3 DEF Abstract!Put

\* A DATA frame moves the abstract pipe by one arrival of chunks, or not at all
\* (storeDataLocked).
LEMMA ReceiveRefines ==
  ASSUME IInv, NoWrap, NEW e \in Ends, NEW f \in net[e], NEW again, ReceiveData(e, f, again)
  PROVE  Abstract!Arrive(e) \/ UNCHANGED <<written, stream, taken>>
<1>1. f.type = "DATA" /\ StoreData(e, f) /\ UNCHANGED <<written, taken>>
  BY DEF ReceiveData, ConsumeAck
<1>2. TypeOK /\ FramesRight(e) /\ Peer(e) \in Ends
  BY PeerFacts DEF IInv, SessionInv
<1>3. f \in Frame /\ FrameRight(f, Peer(e))
  BY <1>2 DEF FramesRight, TypeOK
<1>4. PICK k \in 0 .. MaxInFlight :
        /\ Len(stream'[e]) = Len(stream[e]) + k
        /\ Len(stream'[e]) <= written[Peer(e)]
        /\ stream' = [stream EXCEPT ![e] = @ \o [i \in 1 .. k |-> Len(@) + i]]
  BY <1>1, <1>3, StoreDataRight
<1>5. CASE k = 0
  <2>1. [i \in 1 .. k |-> Len(stream[e]) + i] = <<>>
    BY <1>5
  <2>2. stream[e] \o [i \in 1 .. k |-> Len(stream[e]) + i] = stream[e]
    BY <1>2, <2>1, ConcatEmptySeq DEF TypeOK
  <2>3. stream' = [stream EXCEPT ![e] = stream[e]]
    BY <1>4, <2>2
  <2>4. stream' = stream
    BY <1>2, <2>3 DEF TypeOK
  <2> QED
    BY <1>1, <2>4
<1>6. CASE k # 0
  <2>1. Len(stream[e]) \in Nat /\ written[Peer(e)] \in Nat /\ k \in Nat
    BY <1>2, LenProperties, ParametersAssumption DEF TypeOK
  <2>2. k \in 1 .. written[Peer(e)] - Len(stream[e])
    BY <1>4, <1>6, <2>1
  <2> QED
    BY <1>1, <1>4, <2>2 DEF Abstract!Arrive
<1> QED
  BY <1>5, <1>6

\* Each step of a session maps to a step of the stream or to a stutter.
LEMMA RefinesNext ==
  NoWrap /\ IInv /\ [Next]_vars => [Abstract!Next]_(Abstract!vars)
<1> SUFFICES ASSUME NoWrap, IInv, [Next]_vars PROVE [Abstract!Next]_(Abstract!vars)
  OBVIOUS
<1> USE DEF sendVars, recvVars, flags
<1>1. ASSUME UNCHANGED <<written, stream, taken>> PROVE [Abstract!Next]_(Abstract!vars)
  BY <1>1 DEF Abstract!vars
<1>2. ASSUME NEW e \in Ends,
             \/ WriteBlock(e) \/ WriteWake(e) \/ WriteSend(e) \/ WriteFails(e) \/ WriteRefused(e)
             \/ Resend(e) \/ ReadBlock(e) \/ ReadWake(e) \/ ReadTimeout(e) \/ ReadEnd(e)
             \/ Lose(e) \/ CloseBegin(e) \/ CloseEnd(e) \/ TearDown(e)
      PROVE  [Abstract!Next]_(Abstract!vars)
  BY <1>1, <1>2 DEF WriteBlock, WriteWake, WriteSend, WriteFails, WriteRefused, Resend, Retransmit,
                    ReadBlock, ReadWake, ReadTimeout, ReadEnd, Lose, CloseBegin, CloseEnd,
                    TearDown
<1>3. ASSUME NEW e \in Ends, NEW f, NEW again, ReceiveAck(e, f, again) \/ ReceiveFin(e, f, again)
      PROVE  [Abstract!Next]_(Abstract!vars)
  BY <1>1, <1>3 DEF ReceiveAck, ReceiveFin, ConsumeAck
<1>4. ASSUME NEW e \in Ends, WriteQueue(e) PROVE [Abstract!Next]_(Abstract!vars)
  BY <1>4, WriteRefines DEF Abstract!Next
<1>5. ASSUME NEW e \in Ends, NEW f \in net[e], NEW again, ReceiveData(e, f, again)
      PROVE  [Abstract!Next]_(Abstract!vars)
  BY <1>1, <1>5, ReceiveRefines DEF Abstract!Next
<1>6. ASSUME NEW e \in Ends, ReadData(e) PROVE [Abstract!Next]_(Abstract!vars)
  <2>1. Abstract!Get(e)
    BY <1>6 DEF ReadData, Unread, Abstract!Get
  <2> QED
    BY <2>1 DEF Abstract!Next
<1>7. CASE UNCHANGED vars
  BY <1>1, <1>7 DEF vars
<1> QED
  BY <1>2, <1>3, <1>4, <1>5, <1>6, <1>7 DEF Next, Writer, Reader, Receive

\* While sequence numbers do not wrap, the protocol of session.go implements the
\* bounded, ordered, exactly-once stream of ReliableStream.
THEOREM SessionImplementsStream == ASSUME NoWrap PROVE Spec => ImplementsStream
  BY RefinesInit, RefinesNext, Invariant, PTL DEF Spec, ImplementsStream, Abstract!Spec

-----------------------------------------------------------------------------
(***************************************************************************)
(* What AllDelivered and CloseUnblocks rest on beyond fairness: a transfer *)
(* that is not over always has somebody who can go on with it, and what    *)
(* arrives is never in vain; and a session that is closed stays still.     *)
(***************************************************************************)
\* The chunk of a DATA frame that was delivered is in the stream or held for it, and
\* the chunk that the reader is missing makes the stream longer; an acknowledgement
\* leaves only frames it does not cover in the window.
NothingIsInVain == \A e \in Ends : \A f \in net[e] : \A again \in BOOLEAN :
  /\ ReceiveData(e, f, again) =>
       /\ f.data <= Len(stream'[e]) \/ \E o \in Offsets : recvBuf'[e][o] = f.data
       /\ f.data = Len(stream[e]) + 1 => Len(stream'[e]) > Len(stream[e])
  /\ ReceiveAck(e, f, again) => \A s \in sendSlots'[e] : s.data > f.ack

\* The guards of the actions that take a transfer further.
WriterMoves(e) ==
  \/ wpc[e] = "run" /\ written[e] < Chunks(e)
  \/ wpc[e] = "wait" /\ writeWait[e]
  \/ wpc[e] = "send" /\ pending[e] # {}
TimerMoves(e) == ~closed[e] /\ sendSlots[e] # {}
ReaderMoves(e) == Unread(e) > 0 /\ (rpc[e] = "run" \/ (rpc[e] = "wait" /\ readWait[e]))

\* While no end stops, a direction that has not delivered everything is not stuck: its
\* writer, its retransmission or its reader can take a step.
TransferMoves == (\A e \in Ends : ~Stopped(e)) => \A e \in Ends :
  \/ Wrote(e) /\ taken[Peer(e)] = written[e]
  \/ WriterMoves(e) \/ TimerMoves(e) \/ ReaderMoves(Peer(e))

\* What a closed end still does: its goroutines leave, nothing is queued, kept or sent.
ClosedIsStill == \A e \in Ends : closed[e] =>
  /\ closed'[e]
  /\ UNCHANGED <<written[e], sendSlots[e], stream[e], recvBuf[e]>>
  /\ net'[Peer(e)] \subseteq net[Peer(e)]
  /\ wpc'[e] \in {"wait", "send"} => wpc'[e] = wpc[e]
  /\ rpc'[e] = "wait" => rpc[e] = "wait"

\* Nobody sees the end of a stream whose writer has not stopped, and a goroutine is only
\* done with an end that has.
EndsAreSeen == \A e \in Ends :
  /\ taken[e] <= Len(stream[e])
  /\ wpc[e] = "send" => pending[e] # {}
  /\ \A f \in pending[e] : f.type = "DATA"
  /\ wpc[e] = "done" => Stopped(e)
  /\ closed[e] \/ cpc[e] = "fin" => writeFin[e]
  /\ readEOF[e] => closed[e] \/ writeFin[Peer(e)]
  /\ rpc[e] = "done" => Ended(e)
  /\ \A f \in net[e] : f.type = "FIN" => writeFin[Peer(e)]
\* Flags of a session are only ever set, and the stream only grows.
LEMMA OnlySet ==
  ASSUME TypeOK, [Next]_vars, NEW g \in Ends
  PROVE  /\ writeFin[g] => writeFin'[g]
         /\ closed[g] => closed'[g]
         /\ readEOF[g] => readEOF'[g]
<1> USE DEF sendVars, recvVars, flags, TypeOK
<1>1. ASSUME NEW e \in Ends, Writer(e) \/ Reader(e) \/ Resend(e) \/ Lose(e)
      PROVE  UNCHANGED <<writeFin, closed, readEOF>>
  BY <1>1 DEF Writer, WriteBlock, WriteWake, WriteQueue, WriteSend, WriteFails, WriteRefused, Reader,
     ReadBlock, ReadWake, ReadTimeout, ReadData, ReadEnd, Resend, Retransmit, Lose
<1>2. ASSUME NEW e \in Ends, NEW f, NEW again,
             ReceiveData(e, f, again) \/ ReceiveAck(e, f, again) \/ ReceiveFin(e, f, again)
      PROVE  UNCHANGED <<writeFin, closed>> /\ (readEOF[g] => readEOF'[g])
  BY <1>2 DEF ReceiveData, ReceiveAck, ReceiveFin
<1>3. ASSUME NEW e \in Ends, CloseBegin(e) \/ CloseEnd(e) \/ TearDown(e)
      PROVE  (writeFin[g] => writeFin'[g]) /\ (closed[g] => closed'[g]) /\ (readEOF[g] => readEOF'[g])
  BY <1>3 DEF CloseBegin, CloseEnd, TearDown, ForceClose
<1>4. CASE UNCHANGED vars
  BY <1>4 DEF vars
<1> QED
  BY <1>1, <1>2, <1>3, <1>4 DEF Next, Receive

\* Only close() sends a FIN.
LEMMA FinOnlyFromClose ==
  ASSUME TypeOK, EndsAreSeen, [Next]_vars, NEW g \in Ends, NEW h \in net'[g], h.type = "FIN"
  PROVE  h \in net[g] \/ writeFin'[Peer(g)]
<1> USE DEF sendVars, recvVars, flags
<1>1. ASSUME NEW e \in Ends, NEW f, Send(e, f)
      PROVE  h \in net[g] \/ (g = Peer(e) /\ h = f)
  <2>1. Transmit(net[Peer(e)], f) \subseteq net[Peer(e)] \cup {f}
    BY TransmitFacts
  <2> QED
    BY <1>1, <2>1, PeerFacts DEF Send, TypeOK
<1>2. ASSUME NEW e \in Ends, NEW f, NEW again, Acknowledge(e, f, again)
      PROVE  h \in net[g]
  <2> DEFINE ackf == Control("ACK", recvNext'[e])
  <2>1. ackf.type # "FIN"
    BY DEF Control
  <2> HIDE DEF ackf
  <2>2. Taken(net[e], f, again) \subseteq net[e]
    BY DEF Taken
  <2>3. Transmit(net[Peer(e)], ackf) \subseteq net[Peer(e)] \cup {ackf}
    BY TransmitFacts
  <2>4. net' = [net EXCEPT ![e] = Taken(@, f, again), ![Peer(e)] = Transmit(@, ackf)]
    BY <1>2 DEF Acknowledge, ackf
  <2> QED
    BY <2>1, <2>2, <2>3, <2>4, PeerFacts DEF TypeOK
<1>3. ASSUME NEW e \in Ends, WriteSend(e)
      PROVE  h \in net[g]
  <2>1. PICK f \in pending[e] : IF closed[e] THEN UNCHANGED net ELSE Send(e, f)
    BY <1>3 DEF WriteSend
  <2>2. f.type = "DATA"
    BY DEF EndsAreSeen
  <2> QED
    BY <1>1, <2>1, <2>2
<1>4. ASSUME NEW e \in Ends, NEW d, Retransmit(e, d)
      PROVE  h \in net[g]
  <2>1. PICK s \in sendSlots[e] : Send(e, DataFrame(s.seq, recvNext[e], s.data))
    BY <1>4 DEF Retransmit
  <2>2. DataFrame(s.seq, recvNext[e], s.data).type = "DATA"
    BY DEF DataFrame
  <2> QED
    BY <1>1, <2>1, <2>2
<1>5. ASSUME NEW e \in Ends, CloseBegin(e)
      PROVE  h \in net[g] \/ writeFin'[Peer(g)]
  <2>1. Send(e, Control("FIN", recvNext[e])) /\ writeFin'[e]
    BY <1>5 DEF CloseBegin, TypeOK
  <2> QED
    BY <1>1, <2>1, PeerFacts
<1>6. ASSUME NEW e \in Ends, NEW f \in net[e], NEW again,
             ReceiveData(e, f, again) \/ ReceiveFin(e, f, again)
      PROVE  h \in net[g]
  BY <1>2, <1>6 DEF ReceiveData, ReceiveFin
<1>7. ASSUME NEW e \in Ends, NEW f \in net[e], NEW again, ReceiveAck(e, f, again)
      PROVE  h \in net[g]
  BY <1>7 DEF ReceiveAck, Taken, TypeOK
<1>8. ASSUME NEW e \in Ends,
             \/ WriteBlock(e) \/ WriteWake(e) \/ WriteQueue(e) \/ WriteFails(e) \/ WriteRefused(e)
             \/ Reader(e) \/ CloseEnd(e) \/ TearDown(e)
      PROVE  h \in net[g]
  BY <1>8 DEF WriteBlock, WriteWake, WriteQueue, WriteFails, WriteRefused, Reader, ReadBlock,
              ReadWake, ReadTimeout, ReadData, ReadEnd, CloseEnd, TearDown
<1>9. CASE UNCHANGED vars
  BY <1>9 DEF vars
<1>10. ASSUME NEW e \in Ends, Lose(e)
       PROVE  h \in net[g]
  BY <1>10 DEF Lose, TypeOK
<1> QED
  BY <1>3, <1>4, <1>5, <1>6, <1>7, <1>8, <1>9, <1>10 DEF Next, Writer, Resend, Receive

\* A stream is never shorter than what was read of it.
LEMMA StreamGrows ==
  ASSUME TypeOK, NEW e \in Ends, NEW f \in Frame, StoreData(e, f), NEW g \in Ends
  PROVE  Len(stream[g]) <= Len(stream'[g])
<1> DEFINE buf == Stored(e, f)
<1>1. PICK k \in 0 .. MaxInFlight :
        stream' = [stream EXCEPT ![e] = @ \o [i \in 1 .. k |-> buf[i - 1]]]
  BY DEF StoreData
<1>2. buf \in [Offsets -> Nat]
  <2>1. recvBuf[e] \in [Offsets -> Nat] /\ f.data \in Nat
    BY DEF TypeOK, Frame
  <2> QED
    BY <2>1 DEF Stored
<1>3. [i \in 1 .. k |-> buf[i - 1]] \in Seq(Nat) /\ stream[e] \in Seq(Nat) /\ stream[g] \in Seq(Nat)
  BY <1>2, ParametersAssumption DEF Offsets, TypeOK
<1> HIDE DEF buf
<1>4. CASE g = e
  <2>1. stream'[g] = stream[e] \o [i \in 1 .. k |-> buf[i - 1]]
    BY <1>1, <1>4 DEF TypeOK
  <2>2. Len(stream'[g]) = Len(stream[e]) + Len([i \in 1 .. k |-> buf[i - 1]])
    BY <1>3, <2>1, ConcatProperties
  <2> QED
    BY <1>3, <1>4, <2>2, LenProperties
<1>5. CASE g # e
  BY <1>1, <1>3, <1>5, LenProperties DEF TypeOK
<1> QED
  BY <1>4, <1>5

\* The parts of EndsAreSeen: of the reader's place, the writer, and the ends of streams.
InStream(e) == taken[e] <= Len(stream[e])

WriterKnows(e) ==
  /\ wpc[e] = "send" => pending[e] # {}
  /\ \A f \in pending[e] : f.type = "DATA"
  /\ wpc[e] = "done" => Stopped(e)

EndKnown(e) ==
  /\ closed[e] \/ cpc[e] = "fin" => writeFin[e]
  /\ readEOF[e] => closed[e] \/ writeFin[Peer(e)]
  /\ rpc[e] = "done" => Ended(e)
  /\ \A f \in net[e] : f.type = "FIN" => writeFin[Peer(e)]

LEMMA SeenParts == EndsAreSeen <=> \A e \in Ends : InStream(e) /\ WriterKnows(e) /\ EndKnown(e)
BY DEF EndsAreSeen, InStream, WriterKnows, EndKnown

LEMMA InStreamKept ==
  ASSUME TypeOK, EndsAreSeen, [Next]_vars, NEW g \in Ends
  PROVE  InStream(g)'
<1> USE DEF sendVars, recvVars, InStream
<1>1. taken[g] <= Len(stream[g])
  BY DEF EndsAreSeen
<1>2. CASE UNCHANGED <<stream, taken>>
  BY <1>1, <1>2
<1>3. ASSUME NEW e \in Ends, ReadData(e)
      PROVE  InStream(g)'
  <2>1. PICK n \in 1 .. Unread(e) : taken' = [taken EXCEPT ![e] = @ + n]
    BY <1>3 DEF ReadData
  <2>2. UNCHANGED stream
    BY <1>3 DEF ReadData
  <2>3. Len(stream[e]) \in Nat /\ taken[e] \in Nat
    BY LenProperties DEF TypeOK
  <2> QED
    BY <1>1, <2>1, <2>2, <2>3 DEF Unread, TypeOK
<1>4. ASSUME NEW e \in Ends, NEW f \in net[e], NEW again, ReceiveData(e, f, again)
      PROVE  InStream(g)'
  <2>1. f \in Frame /\ StoreData(e, f) /\ UNCHANGED taken
    BY <1>4 DEF ReceiveData, TypeOK
  <2>2. Len(stream[g]) <= Len(stream'[g])
    BY <2>1, StreamGrows
  <2>3. stream'[g] \in Seq(Nat) /\ stream[g] \in Seq(Nat)
    BY <2>1, StoreDataType DEF TypeOK
  <2>4. Len(stream'[g]) \in Nat /\ Len(stream[g]) \in Nat /\ taken[g] \in Nat
    BY <2>3, LenProperties DEF TypeOK
  <2> QED
    BY <1>1, <2>1, <2>2, <2>4
<1>5. ASSUME NEW e \in Ends,
             \/ Writer(e) \/ ReadBlock(e) \/ ReadWake(e) \/ ReadTimeout(e) \/ ReadEnd(e)
             \/ Resend(e) \/ Lose(e) \/ CloseBegin(e) \/ CloseEnd(e) \/ TearDown(e)
      PROVE  UNCHANGED <<stream, taken>>
  BY <1>5 DEF Writer, WriteBlock, WriteWake, WriteQueue, WriteSend, WriteFails, WriteRefused,
     ReadBlock, ReadWake, ReadTimeout, ReadEnd, Resend, Retransmit, Lose, CloseBegin, CloseEnd, TearDown
<1>6. ASSUME NEW e \in Ends, NEW f, NEW again, ReceiveAck(e, f, again) \/ ReceiveFin(e, f, again)
      PROVE  UNCHANGED <<stream, taken>>
  BY <1>6 DEF ReceiveAck, ReceiveFin
<1>7. CASE UNCHANGED vars
  BY <1>2, <1>7 DEF vars
<1> QED
  BY <1>2, <1>3, <1>4, <1>5, <1>6, <1>7 DEF Next, Reader, Receive

LEMMA WriterKnowsKept ==
  ASSUME TypeOK, EndsAreSeen, [Next]_vars, NEW g \in Ends
  PROVE  WriterKnows(g)'
<1> USE DEF sendVars, recvVars, flags
<1>1. WriterKnows(g) /\ (Stopped(g) => Stopped(g)')
  BY OnlySet DEF EndsAreSeen, WriterKnows, Stopped
<1>2. ASSUME wpc'[g] = wpc[g], pending'[g] = pending[g]
      PROVE  WriterKnows(g)'
  BY <1>1, <1>2 DEF WriterKnows
<1>3. CASE UNCHANGED <<wpc, pending>>
  BY <1>2, <1>3
<1>4. ASSUME NEW e \in Ends, Writer(e)
      PROVE  WriterKnows(g)'
  <2>1. CASE WriteBlock(e) \/ WriteWake(e)
    BY <1>1, <2>1 DEF WriteBlock, WriteWake, WriterKnows, TypeOK
  <2>2. CASE WriteQueue(e)
    <3>1. CASE g = e
      <4>1. /\ wpc'[g] = "send"
            /\ pending'[g] = {DataFrame(sendNext[e], recvNext[e], written[e] + 1)}
        BY <2>2, <3>1 DEF WriteQueue, TypeOK
      <4> QED
        BY <4>1 DEF WriterKnows, DataFrame
    <3>2. CASE g # e
      BY <1>2, <2>2, <3>2 DEF WriteQueue, TypeOK
    <3> QED
      BY <3>1, <3>2
  <2>3. CASE WriteSend(e)
    BY <1>1, <2>3 DEF WriteSend, WriterKnows, Stopped, TypeOK
  <2>4. CASE WriteFails(e) \/ WriteRefused(e)
    BY <1>1, <2>4 DEF WriteFails, WriteRefused, WriterKnows, Stopped, TypeOK
  <2> QED
    BY <1>4, <2>1, <2>2, <2>3, <2>4 DEF Writer
<1>5. ASSUME NEW e \in Ends,
             Reader(e) \/ Resend(e) \/ Lose(e) \/ CloseBegin(e) \/ CloseEnd(e) \/ TearDown(e)
      PROVE  UNCHANGED <<wpc, pending>>
  BY <1>5 DEF Reader, ReadBlock, ReadWake, ReadTimeout, ReadData, ReadEnd, Resend, Retransmit,
     Lose, CloseBegin, CloseEnd, TearDown
<1>6. ASSUME NEW e \in Ends, NEW f, NEW again,
             ReceiveData(e, f, again) \/ ReceiveAck(e, f, again) \/ ReceiveFin(e, f, again)
      PROVE  UNCHANGED <<wpc, pending>>
  BY <1>6 DEF ReceiveData, ReceiveAck, ReceiveFin, ConsumeAck
<1>7. CASE UNCHANGED vars
  BY <1>3, <1>7 DEF vars
<1> QED
  BY <1>3, <1>4, <1>5, <1>6, <1>7 DEF Next, Receive

LEMMA EndKnownKept ==
  ASSUME TypeOK, EndsAreSeen, [Next]_vars, NEW g \in Ends
  PROVE  EndKnown(g)'
<1> USE DEF sendVars, recvVars, flags
<1>1. /\ EndKnown(g) /\ Peer(g) \in Ends
      /\ (writeFin[g] => writeFin'[g]) /\ (writeFin[Peer(g)] => writeFin'[Peer(g)])
      /\ (closed[g] => closed'[g]) /\ (readEOF[g] => readEOF'[g])
  BY OnlySet, PeerFacts DEF EndsAreSeen, EndKnown
<1>2. \A f \in net'[g] : f.type = "FIN" => writeFin'[Peer(g)]
  BY <1>1, FinOnlyFromClose DEF EndKnown
<1>3. ASSUME UNCHANGED <<closed[g], cpc[g], readEOF[g], rpc[g]>>
      PROVE  EndKnown(g)'
  BY <1>1, <1>2, <1>3 DEF EndKnown, Ended
<1>4. ASSUME NEW e \in Ends, Reader(e)
      PROVE  EndKnown(g)'
  <2>1. rpc'[g] = "done" => rpc[g] = "done" \/ Ended(g)
    BY <1>4 DEF Reader, ReadBlock, ReadWake, ReadTimeout, ReadData, ReadEnd, TypeOK
  <2>2. UNCHANGED <<closed, cpc, readEOF>>
    BY <1>4 DEF Reader, ReadBlock, ReadWake, ReadTimeout, ReadData, ReadEnd
  <2> QED
    BY <1>1, <1>2, <2>1, <2>2 DEF EndKnown, Ended
<1>5. ASSUME NEW e \in Ends, NEW f \in net[e], NEW again, ReceiveFin(e, f, again)
      PROVE  EndKnown(g)'
  <2>1. /\ UNCHANGED <<rpc, closed, cpc>>
        /\ readEOF' = [readEOF EXCEPT ![e] = TRUE]
    BY <1>5 DEF ReceiveFin
  <2>2. g = e => writeFin[Peer(g)]
    BY <1>1, <1>5 DEF EndKnown, ReceiveFin
  <2>3. g # e => readEOF'[g] = readEOF[g]
    BY <2>1 DEF TypeOK
  <2> QED
    BY <1>1, <1>2, <2>1, <2>2, <2>3 DEF EndKnown, Ended
<1>6. ASSUME NEW e \in Ends, CloseBegin(e)
      PROVE  EndKnown(g)'
  <2>1. UNCHANGED <<closed, rpc, readEOF>> /\ (cpc'[g] = "fin" => cpc[g] = "fin" \/ writeFin'[g])
    BY <1>6 DEF CloseBegin, TypeOK
  <2> QED
    BY <1>1, <1>2, <2>1 DEF EndKnown, Ended
<1>7. ASSUME NEW e \in Ends, CloseEnd(e) \/ TearDown(e)
      PROVE  EndKnown(g)'
  <2>1. CASE g = e
    <3>1. closed'[g] /\ writeFin'[g] /\ UNCHANGED rpc
      BY <1>7, <2>1 DEF CloseEnd, TearDown, ForceClose, TypeOK
    <3> QED
      BY <1>2, <3>1 DEF EndKnown, Ended
  <2>2. CASE g # e
    BY <1>3, <1>7, <2>2 DEF CloseEnd, TearDown, ForceClose, TypeOK
  <2> QED
    BY <2>1, <2>2
<1>8. ASSUME NEW e \in Ends, Writer(e) \/ Resend(e) \/ Lose(e)
      PROVE  EndKnown(g)'
  BY <1>3, <1>8 DEF Writer, WriteBlock, WriteWake, WriteQueue, WriteSend, WriteFails, WriteRefused,
     Resend, Retransmit, Lose
<1>9. ASSUME NEW e \in Ends, NEW f, NEW again, ReceiveData(e, f, again) \/ ReceiveAck(e, f, again)
      PROVE  EndKnown(g)'
  BY <1>3, <1>9 DEF ReceiveData, ReceiveAck
<1>10. CASE UNCHANGED vars
  BY <1>3, <1>10 DEF vars
<1> QED
  BY <1>4, <1>5, <1>6, <1>7, <1>8, <1>9, <1>10 DEF Next, Receive

LEMMA SeenAlways == Spec => [](TypeOK /\ EndsAreSeen)
<1>1. Init => EndsAreSeen
  <2> SUFFICES ASSUME Init, NEW e \in Ends
               PROVE  InStream(e) /\ WriterKnows(e) /\ EndKnown(e)
    BY SeenParts
  <2>1. \A f \in net[e] : f = Control("SYNACK", 0)
    BY DEF Init
  <2>2. Control("SYNACK", 0).type # "FIN"
    BY DEF Control
  <2> QED
    BY <2>1, <2>2 DEF Init, InStream, WriterKnows, EndKnown
<1>2. TypeOK /\ EndsAreSeen /\ [Next]_vars => EndsAreSeen'
  BY InStreamKept, WriterKnowsKept, EndKnownKept DEF EndsAreSeen, InStream, WriterKnows, EndKnown
<1> QED
  BY <1>1, <1>2, TypeCorrect, PTL DEF Spec

\* With nothing in the window everything has arrived, and whoever waits has been woken.
LEMMA MovesOrOver ==
  ASSUME IInv, EndsAreSeen, NoLostWakeup
  PROVE  TransferMoves
<1> SUFFICES ASSUME \A g \in Ends : ~Stopped(g), NEW e \in Ends,
                    ~(Wrote(e) /\ taken[Peer(e)] = written[e]),
                    ~WriterMoves(e), ~TimerMoves(e)
             PROVE  ReaderMoves(Peer(e))
  BY DEF TransferMoves
<1> DEFINE p == Peer(e)
<1>1. /\ TypeOK /\ p \in Ends /\ Peer(p) = e /\ ~closed[e] /\ ~closed[p] /\ ~writeFin[e]
      /\ Counted(e) /\ Released(e) /\ Ordered(p) /\ WriterWakes(e) /\ ReaderWakes(p)
  BY PeerFacts DEF IInv, SessionInv, Stopped, NoLostWakeup, WriterWakes, ReaderWakes
<1>2. /\ InStream(p) /\ WriterKnows(e) /\ EndKnown(p)
  BY <1>1 DEF EndsAreSeen, InStream, WriterKnows, EndKnown
<1>3. sendSlots[e] = {}
  BY <1>1 DEF TimerMoves
<1>4. wpc[e] = "run" \/ wpc[e] = "failed"
  <2>1. wpc[e] # "wait"
    <3>1. Cardinality(sendSlots[e]) = 0
      BY <1>3, FS_EmptySet
    <3> QED
      BY <1>1, <3>1, ParametersAssumption DEF WriterMoves, WriterWakes, WindowFull
  <2>2. wpc[e] # "send" /\ wpc[e] # "done"
    BY <1>2 DEF WriterMoves, WriterKnows, Stopped
  <2> QED
    BY <1>1, <2>1, <2>2 DEF TypeOK
<1>5. /\ written[e] \in Nat /\ Chunks(e) \in Nat /\ Len(stream[p]) \in Nat /\ taken[p] \in Nat
  BY <1>1, ChunksType, LenProperties DEF TypeOK
<1>6. Wrote(e)
  BY <1>1, <1>4, <1>5 DEF WriterMoves, Counted, Wrote
<1>7. Len(stream[p]) = written[e]
  <2>1. ~(Len(stream[p]) < written[e])
    <3> SUFFICES ASSUME Len(stream[p]) < written[e] PROVE FALSE
      OBVIOUS
    <3>1. written[e] \in Len(stream[p]) + 1 .. written[e]
      BY <1>5
    <3> QED
      BY <1>1, <1>3, <3>1 DEF Released
  <2> QED
    BY <1>1, <1>5, <2>1 DEF Ordered
<1>8. Unread(p) > 0
  BY <1>2, <1>5, <1>6, <1>7 DEF Unread, InStream
<1>9. rpc[p] = "run" \/ (rpc[p] = "wait" /\ readWait[p])
  <2>1. rpc[p] # "done"
    BY <1>1, <1>2 DEF EndKnown, Ended
  <2> QED
    BY <1>1, <1>8, <2>1 DEF TypeOK, ReaderWakes
<1> QED
  BY <1>8, <1>9 DEF ReaderMoves

\* The chunk of a delivered frame finds its place: WindowsAgree keeps it from being too
\* far ahead, and what holds its place already is the same chunk.
LEMMA DeliveredIsKept ==
  ASSUME IInv, NoWrap, NEW e \in Ends, NEW f \in net[e], NEW again, ReceiveData(e, f, again)
  PROVE  /\ f.data <= Len(stream'[e]) \/ \E o \in Offsets : recvBuf'[e][o] = f.data
         /\ f.data = Len(stream[e]) + 1 => Len(stream'[e]) > Len(stream[e])
<1> DEFINE n == Len(stream[e])
           buf == Stored(e, f)
<1>1. /\ TypeOK /\ Peer(e) \in Ends /\ Peer(Peer(e)) = e /\ f.type = "DATA" /\ StoreData(e, f)
      /\ f \in Frame /\ FrameRight(f, Peer(e)) /\ recvNext[e] = n /\ n \in Nat
      /\ BufferRight(e)
  BY PeerFacts, LenProperties DEF IInv, SessionInv, Counted, FramesRight, ReceiveData, TypeOK
<1>2. /\ f.seq \in Nat /\ f.data \in Nat /\ f.data = f.seq + 1 /\ f.data <= written[Peer(e)]
      /\ written[Peer(e)] \in Nat
  BY <1>1 DEF Frame, FrameRight, TypeOK
<1>3. written[Peer(e)] <= n + MaxInFlight
  <2>1. /\ written[Peer(e)] <= n + Cardinality(sendSlots[Peer(e)])
        /\ Cardinality(sendSlots[Peer(e)]) \in Nat
        /\ Cardinality(sendSlots[Peer(e)]) <= MaxInFlight
    BY <1>1, WindowRoom
  <2> QED
    BY <1>1, <1>2, <2>1, ParametersAssumption
<1>4. PICK k \in 0 .. MaxInFlight :
        /\ LeadingRun(buf, k)
        /\ stream' = [stream EXCEPT ![e] = @ \o [i \in 1 .. k |-> buf[i - 1]]]
        /\ recvBuf' = [recvBuf EXCEPT ![e] = Slide(buf, k)]
  BY <1>1 DEF StoreData
<1>5. buf \in [Offsets -> Nat] /\ k \in Nat
  BY <1>1, StoredRight, ParametersAssumption
<1>6. Len(stream'[e]) = n + k
  <2>1. [i \in 1 .. k |-> buf[i - 1]] \in Seq(Nat) /\ Len([i \in 1 .. k |-> buf[i - 1]]) = k
        /\ stream[e] \in Seq(Nat)
    BY <1>1, <1>5, ParametersAssumption DEF Offsets, TypeOK
  <2>2. stream'[e] = stream[e] \o [i \in 1 .. k |-> buf[i - 1]]
    BY <1>1, <1>4 DEF TypeOK
  <2> HIDE DEF buf
  <2> QED
    BY <2>1, <2>2, ConcatProperties
<1>7. CASE f.data <= n
  BY <1>1, <1>2, <1>5, <1>6, <1>7
<1>8. CASE n < f.data
  <2> DEFINE off == f.seq - n
  <2>1. off \in Offsets /\ f.data = n + off + 1 /\ ~OutOfWindow(e, f)
    BY <1>1, <1>2, <1>3, <1>8, ParametersAssumption DEF OutOfWindow, Offsets
  <2>2. buf[off] = f.data
    <3>1. buf = [recvBuf[e] EXCEPT ![off] = IF @ = None THEN f.data ELSE @]
      BY <1>1, <2>1 DEF Stored
    <3>2. recvBuf[e] \in [Offsets -> Nat]
      BY <1>1 DEF TypeOK
    <3> QED
      BY <1>1, <2>1, <3>1, <3>2 DEF BufferRight
  <2> HIDE DEF buf
  <2>3. f.data # None
    BY <1>2 DEF None
  <2>4. CASE off < k
    <3>1. f.data <= n + k
      BY <1>1, <1>5, <2>1, <2>4 DEF Offsets
    <3> QED
      BY <1>1, <1>2, <1>5, <1>6, <2>1, <2>4, <3>1 DEF Offsets
  <2>5. CASE k <= off
    <3>1. off - k \in Offsets /\ (off - k) + k = off /\ off < MaxInFlight
      BY <1>5, <2>1, <2>5, ParametersAssumption DEF Offsets
    <3>2. recvBuf'[e] = Slide(buf, k)
      BY <1>1, <1>4 DEF TypeOK
    <3>3. recvBuf'[e][off - k] = f.data
      BY <2>2, <3>1, <3>2 DEF Slide
    <3>4. f.data = n + 1 => off = 0 /\ k = 0
      BY <1>1, <1>5, <2>1, <2>5 DEF Offsets
    <3>5. k < MaxInFlight
      <4>1. off \in Int /\ off < MaxInFlight /\ MaxInFlight \in Nat
        BY <2>1, ParametersAssumption DEF Offsets
      <4> QED
        BY <1>5, <2>5, <4>1
    <3>6. buf[k] = None
      BY <1>4, <3>5 DEF LeadingRun
    <3>7. f.data # n + 1
      BY <2>2, <2>3, <3>4, <3>6
    <3> QED
      BY <3>1, <3>3, <3>7
  <2> QED
    BY <1>5, <2>1, <2>4, <2>5 DEF Offsets
<1> QED
  BY <1>1, <1>2, <1>7, <1>8

\* Both deliveries, as the action property names them.
LEMMA InVainStep == NoWrap /\ IInv => NothingIsInVain
<1> SUFFICES ASSUME NoWrap, IInv, NEW e \in Ends, NEW f \in net[e], NEW again \in BOOLEAN
             PROVE  /\ ReceiveData(e, f, again) =>
                         /\ f.data <= Len(stream'[e]) \/ \E o \in Offsets : recvBuf'[e][o] = f.data
                         /\ f.data = Len(stream[e]) + 1 => Len(stream'[e]) > Len(stream[e])
                    /\ ReceiveAck(e, f, again) => \A s \in sendSlots'[e] : s.data > f.ack
  BY DEF NothingIsInVain
<1>1. ASSUME ReceiveAck(e, f, again), NEW s \in sendSlots'[e]
      PROVE  s.data > f.ack
  <2>1. sendSlots' = [sendSlots EXCEPT ![e] = Unacked(e, f.ack)]
    BY <1>1 DEF ReceiveAck, ConsumeAck
  <2>2. s \in sendSlots[e] /\ s.seq >= f.ack
    BY <1>1, <2>1 DEF Unacked, IInv, TypeOK
  <2>3. s.seq \in Nat /\ s.data = s.seq + 1 /\ f.ack \in Nat
    BY <2>2, ParametersAssumption DEF IInv, SessionInv, SlotsRight, TypeOK, Slot, Frame
  <2> QED
    BY <2>2, <2>3
<1> QED
  BY <1>1, DeliveredIsKept

\* onPacket and the ticker return at once for a closed session, write() and read() leave.
LEMMA StillStep ==
  ASSUME TypeOK, [Next]_vars
  PROVE  ClosedIsStill
<1> SUFFICES ASSUME NEW g \in Ends, closed[g]
             PROVE  /\ UNCHANGED <<written[g], sendSlots[g], stream[g], recvBuf[g]>>
                    /\ net'[Peer(g)] \subseteq net[Peer(g)]
                    /\ wpc'[g] \in {"wait", "send"} => wpc'[g] = wpc[g]
                    /\ rpc'[g] = "wait" => rpc[g] = "wait"
  BY OnlySet DEF ClosedIsStill
<1> USE DEF sendVars, recvVars, flags
<1>1. Peer(g) \in Ends /\ Peer(g) # g
  BY PeerFacts
<1>2. ASSUME NEW e \in Ends, NEW f, Send(e, f), e # g
      PROVE  net'[Peer(g)] = net[Peer(g)]
  <2>1. Peer(e) # Peer(g)
    BY <1>2, PeerFacts
  <2> QED
    BY <1>1, <1>2, <2>1 DEF Send, TypeOK
<1>3. ASSUME NEW e \in Ends, NEW f, NEW again, Acknowledge(e, f, again), e # g
      PROVE  net'[Peer(g)] \subseteq net[Peer(g)]
  <2>1. e = Peer(g) /\ Peer(e) # e
    BY <1>3, PeerFacts DEF Ends
  <2> QED
    BY <1>1, <1>3, <2>1 DEF Acknowledge, Taken, TypeOK
<1>4. ASSUME NEW e \in Ends,
             \/ WriteBlock(e) \/ WriteWake(e) \/ WriteQueue(e)
             \/ WriteFails(e) \/ WriteRefused(e)
      PROVE  /\ UNCHANGED <<written[g], sendSlots[g], stream[g], recvBuf[g], rpc[g], net>>
             /\ wpc'[g] \in {"wait", "send"} => wpc'[g] = wpc[g]
  BY <1>4 DEF WriteBlock, WriteWake, WriteQueue, WriteFails, WriteRefused, Stopped, TypeOK
<1>5. ASSUME NEW e \in Ends, WriteSend(e)
      PROVE  /\ UNCHANGED <<written[g], sendSlots[g], stream[g], recvBuf[g], rpc[g]>>
             /\ net'[Peer(g)] \subseteq net[Peer(g)]
             /\ wpc'[g] \in {"wait", "send"} => wpc'[g] = wpc[g]
  <2>1. net'[Peer(g)] = net[Peer(g)]
    BY <1>2, <1>5 DEF WriteSend
  <2> QED
    BY <1>5, <2>1 DEF WriteSend, TypeOK
<1>6. ASSUME NEW e \in Ends, Reader(e)
      PROVE  /\ UNCHANGED <<written[g], sendSlots[g], stream[g], recvBuf[g], wpc[g], net>>
             /\ rpc'[g] = "wait" => rpc[g] = "wait"
  BY <1>6 DEF Reader, ReadBlock, ReadWake, ReadTimeout, ReadData, ReadEnd, Ended, TypeOK
<1>7. ASSUME NEW e \in Ends, NEW d, Retransmit(e, d) \/ CloseBegin(e)
      PROVE  /\ UNCHANGED <<written[g], sendSlots[g], stream[g], recvBuf[g], wpc[g], rpc[g]>>
             /\ net'[Peer(g)] = net[Peer(g)]
  BY <1>2, <1>7 DEF Retransmit, CloseBegin
<1>8. ASSUME NEW e \in Ends, Lose(e) \/ CloseEnd(e) \/ TearDown(e)
      PROVE  /\ UNCHANGED <<written[g], sendSlots[g], stream[g], recvBuf[g], wpc[g], rpc[g]>>
             /\ net'[Peer(g)] \subseteq net[Peer(g)]
  BY <1>1, <1>8 DEF Lose, CloseEnd, TearDown, TypeOK
<1>9. ASSUME NEW e \in Ends, NEW f \in net[e], NEW again,
             ReceiveData(e, f, again) \/ ReceiveAck(e, f, again) \/ ReceiveFin(e, f, again)
      PROVE  /\ UNCHANGED <<written[g], sendSlots[g], stream[g], recvBuf[g], wpc[g], rpc[g]>>
             /\ net'[Peer(g)] \subseteq net[Peer(g)]
  <2>1. e # g /\ UNCHANGED <<written, wpc, rpc>>
    BY <1>9 DEF ReceiveData, ReceiveAck, ReceiveFin, ConsumeAck
  <2>2. sendSlots'[g] = sendSlots[g]
    BY <1>9, <2>1 DEF ReceiveData, ReceiveAck, ReceiveFin, ConsumeAck, TypeOK
  <2>3. stream'[g] = stream[g] /\ recvBuf'[g] = recvBuf[g]
    BY <1>9, <2>1 DEF ReceiveData, ReceiveAck, ReceiveFin, StoreData, TypeOK
  <2>4. net'[Peer(g)] \subseteq net[Peer(g)]
    <3>1. CASE ReceiveData(e, f, again) \/ ReceiveFin(e, f, again)
      BY <1>3, <2>1, <3>1 DEF ReceiveData, ReceiveFin
    <3>2. CASE ReceiveAck(e, f, again)
      BY <1>1, <3>2 DEF ReceiveAck, Taken, TypeOK
    <3> QED
      BY <1>9, <3>1, <3>2
  <2> QED
    BY <2>1, <2>2, <2>3, <2>4
<1>10. CASE UNCHANGED vars
  BY <1>10 DEF vars
<1> QED
  BY <1>4, <1>5, <1>6, <1>7, <1>8, <1>9, <1>10 DEF Next, Writer, Resend, Receive

\* What AllDelivered rests on beyond fairness, first half (read, write, retransmitTick):
\* whatever the path has done, while no end stops, a direction that has not delivered
\* everything has a writer or a reader that can go on, or a frame its timer can send again.
THEOREM TransferIsNeverStuck == ASSUME NoWrap PROVE Spec => []TransferMoves
<1>1. IInv /\ EndsAreSeen /\ NoLostWakeup => TransferMoves
  BY MovesOrOver
<1> QED
  BY <1>1, Invariant, SeenAlways, NoWakeupIsLost, PTL

\* Second half (storeDataLocked, consumeAckLocked): no delivered chunk is dropped that the
\* reader does not have, the one it is missing takes it further, and an acknowledgement
\* stops the retransmission of all that it covers.
THEOREM DeliveryIsNeverInVain == ASSUME NoWrap PROVE Spec => [][NothingIsInVain]_vars
<1>1. NoWrap /\ IInv => NothingIsInVain
  BY InVainStep
<1> QED
  BY <1>1, Invariant, PTL

\* What CloseUnblocks rests on (close, write, read, onPacket), also when sequence numbers
\* wrap: closed is for good, nobody begins to wait on a closed session, and it queues,
\* keeps and sends nothing any more, however many frames still arrive.
THEOREM ClosedStaysStill == Spec => [][ClosedIsStill]_vars
<1>1. TypeOK /\ [Next]_vars => [ClosedIsStill]_vars
  BY StillStep
<1> QED
  BY <1>1, TypeCorrect, PTL DEF Spec
=============================================================================
