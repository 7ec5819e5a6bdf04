--------------------------- MODULE SocksClientProofs ---------------------------
(***************************************************************************)
(* Proofs about SocksClient, for names and streams of any length: what the *)
(* client has read says how far the server has got.  The lemmas on lengths *)
(* turn a position in the socket into a number of answers.                 *)
(***************************************************************************)
EXTENDS SocksClient, SequenceTheorems, TLAPS

\* The reply of version 5 is two bytes of the method, four of the head, the address
\* and the port.
AddressLen == Len(BoundAddress)

LEMMA FillerIsBytes ==
  ASSUME NEW n \in Nat
  PROVE  Filler(n) \in Seq(Byte) /\ Len(Filler(n)) = n
<1>1. Filler(n) \in [1 .. n -> Byte]
  BY DEF Filler, Byte, Other
<1> QED
  BY <1>1

LEMMA Joined ==
  ASSUME NEW s \in Seq(Byte), NEW t \in Seq(Byte)
  PROVE  /\ s \o t \in Seq(Byte) /\ Len(s \o t) = Len(s) + Len(t)
         /\ Len(s) \in Nat /\ Len(t) \in Nat
BY ConcatProperties, LenProperties

LEMMA InFirst ==
  ASSUME NEW s \in Seq(Byte), NEW t \in Seq(Byte), NEW i \in 1 .. Len(s)
  PROVE  (s \o t)[i] = s[i]
<1>1. i \in 1 .. Len(s) + Len(t) /\ i <= Len(s)
  BY LenProperties
<1> QED
  BY <1>1, ConcatProperties, Zenon

LEMMA InSecond ==
  ASSUME NEW s \in Seq(Byte), NEW t \in Seq(Byte), NEW i \in 1 .. Len(t),
         NEW k, k = Len(s) + i
  PROVE  (s \o t)[k] = t[i]
OBVIOUS

LEMMA NothingJoined ==
  /\ <<>> \in Seq(Byte) /\ Len(<<>>) = 0 /\ <<>> \o <<>> = <<>>
  /\ \A s \in Seq(Byte) : s \o <<>> = s
BY ConcatEmptySeq, EmptySeq

LEMMA BytesOfReplies ==
  ASSUME setup \in Setup
  PROVE  /\ MethodReply \in Seq(Byte) /\ Len(MethodReply) = 2
         /\ BoundAddress \in Seq(Byte) /\ AddressLen \in Nat
         /\ setup.bound = TypeIPv4 => AddressLen = 4
         /\ setup.bound = TypeIPv6 => AddressLen = 16
         /\ setup.bound = TypeDomain => AddressLen = NameLen + 1 /\ BoundAddress[1] = NameLen
         /\ Code \in Byte
         /\ Code = Granted(setup.version) <=> setup.granted
<1>1. /\ setup.method \in Byte /\ setup.granted \in BOOLEAN
      /\ setup.bound \in {TypeIPv4, TypeDomain, TypeIPv6} /\ NameLen \in Byte
  BY SocksAssumption DEF Setup, Byte, NotRequired, NoAcceptable
<1>2. MethodReply \in Seq(Byte) /\ Len(MethodReply) = 2
  BY <1>1 DEF MethodReply, Byte
<1>3. setup.bound = TypeDomain =>
        /\ BoundAddress \in Seq(Byte) /\ AddressLen = NameLen + 1 /\ BoundAddress[1] = NameLen
  <2> SUFFICES ASSUME setup.bound = TypeDomain
               PROVE  /\ BoundAddress \in Seq(Byte) /\ AddressLen = NameLen + 1
                      /\ BoundAddress[1] = NameLen
    OBVIOUS
  <2>1. BoundAddress = <<NameLen>> \o Filler(NameLen)
    BY DEF BoundAddress, TypeDomain, TypeIPv4, TypeIPv6
  <2>2. <<NameLen>> \in Seq(Byte) /\ Len(<<NameLen>>) = 1 /\ 1 \in 1 .. Len(<<NameLen>>)
    BY <1>1
  <2>3. Filler(NameLen) \in Seq(Byte) /\ Len(Filler(NameLen)) = NameLen /\ NameLen \in Nat
    BY <1>1, FillerIsBytes DEF Byte
  <2>4. BoundAddress \in Seq(Byte) /\ AddressLen = NameLen + 1
    BY <2>1, <2>2, <2>3, Joined DEF AddressLen
  <2>5. BoundAddress[1] = <<NameLen>>[1]
    BY <2>1, <2>2, <2>3, InFirst, Zenon
  <2> QED
    BY <2>4, <2>5
<1>4. setup.bound = TypeIPv4 => BoundAddress \in Seq(Byte) /\ AddressLen = 4
  <2>1. setup.bound = TypeIPv4 => BoundAddress = Filler(4)
    BY DEF BoundAddress, TypeDomain, TypeIPv4, TypeIPv6
  <2>2. Filler(4) \in Seq(Byte) /\ Len(Filler(4)) = 4
    BY FillerIsBytes
  <2> QED
    BY <2>1, <2>2 DEF AddressLen
<1>5. setup.bound = TypeIPv6 => BoundAddress \in Seq(Byte) /\ AddressLen = 16
  <2>1. setup.bound = TypeIPv6 => BoundAddress = Filler(16)
    BY DEF BoundAddress, TypeDomain, TypeIPv4, TypeIPv6
  <2>2. Filler(16) \in Seq(Byte) /\ Len(Filler(16)) = 16
    BY FillerIsBytes
  <2> QED
    BY <2>1, <2>2 DEF AddressLen
<1>6. Code \in Byte /\ (Code = Granted(setup.version) <=> setup.granted)
  BY <1>1 DEF Code, Granted, Rejected, Byte
<1>7. BoundAddress \in Seq(Byte) /\ AddressLen \in Nat
  BY <1>1, <1>3, <1>4, <1>5, LenProperties DEF AddressLen
<1> QED
  BY <1>2, <1>3, <1>4, <1>5, <1>6, <1>7

LEMMA BytesOfConnectReply ==
  ASSUME setup \in Setup
  PROVE  /\ ConnectReply \in Seq(Byte)
         /\ V5 => /\ Len(ConnectReply) = 6 + AddressLen
                  /\ ConnectReply[2] = Code /\ ConnectReply[4] = setup.bound
                  /\ setup.bound = TypeDomain => ConnectReply[5] = NameLen
         /\ ~V5 => Len(ConnectReply) = 8 /\ ConnectReply[2] = Code
<1>1. /\ BoundAddress \in Seq(Byte) /\ AddressLen = Len(BoundAddress) /\ AddressLen \in Nat
      /\ Code \in Byte /\ setup.bound \in Byte
      /\ setup.bound = TypeDomain => AddressLen >= 1 /\ BoundAddress[1] = NameLen
  <2>1. setup.bound \in Byte
    BY DEF Setup, Byte, TypeIPv4, TypeDomain, TypeIPv6
  <2>2. NameLen + 1 >= 1
    BY SocksAssumption
  <2> QED
    BY <2>1, <2>2, BytesOfReplies DEF AddressLen
<1>2. /\ Filler(2) \in Seq(Byte) /\ Len(Filler(2)) = 2
      /\ Filler(6) \in Seq(Byte) /\ Len(Filler(6)) = 6
  BY FillerIsBytes
<1>3. CASE V5
  <2> DEFINE head == <<5, Code, 0, setup.bound>>
             front == head \o BoundAddress
  <2>1. ConnectReply = front \o Filler(2)
    BY <1>3 DEF ConnectReply
  <2>2. /\ head \in Seq(Byte) /\ Len(head) = 4 /\ head[2] = Code /\ head[4] = setup.bound
    BY <1>1 DEF Byte
  <2> HIDE DEF head
  <2>3. front \in Seq(Byte) /\ Len(front) = 4 + AddressLen
    BY <1>1, <2>2, Joined
  <2>4. front[2] = head[2] /\ front[4] = head[4]
    <3>1. 2 \in 1 .. Len(head) /\ 4 \in 1 .. Len(head)
      BY <2>2
    <3> QED
      BY <1>1, <2>2, <3>1, InFirst, Zenon
  <2>5. setup.bound = TypeDomain => front[5] = BoundAddress[1]
    <3> SUFFICES ASSUME setup.bound = TypeDomain PROVE front[5] = BoundAddress[1]
      OBVIOUS
    <3>1. 5 = Len(head) + 1 /\ 1 \in 1 .. Len(BoundAddress)
      BY <1>1, <2>2
    <3>2. head \in Seq(Byte) /\ BoundAddress \in Seq(Byte)
      BY <1>1, <2>2
    <3>3. (head \o BoundAddress)[5] = BoundAddress[1]
      BY <3>1, <3>2, InSecond, Zenon
    <3> QED
      BY <3>3
  <2> HIDE DEF front
  <2>6. ConnectReply \in Seq(Byte) /\ Len(ConnectReply) = 6 + AddressLen
    <3>1. /\ front \o Filler(2) \in Seq(Byte)
          /\ Len(front \o Filler(2)) = Len(front) + Len(Filler(2))
      BY <1>2, <2>3, Joined, Zenon
    <3>2. Len(front) + Len(Filler(2)) = 6 + AddressLen
      <4>1. Len(front) + Len(Filler(2)) = (4 + AddressLen) + 2
        BY <1>2, <2>3, Zenon
      <4> QED
        BY <1>1, <4>1
    <3> QED
      BY <2>1, <3>1, <3>2, Zenon
  <2>7. ConnectReply[2] = front[2] /\ ConnectReply[4] = front[4]
    <3>1. 2 \in 1 .. Len(front) /\ 4 \in 1 .. Len(front)
      BY <1>1, <2>3
    <3> QED
      BY <1>2, <2>1, <2>3, <3>1, InFirst, Zenon
  <2>8. setup.bound = TypeDomain => ConnectReply[5] = front[5]
    <3>1. setup.bound = TypeDomain => 5 \in 1 .. Len(front)
      BY <1>1, <2>3
    <3> QED
      BY <1>2, <2>1, <2>3, <3>1, InFirst, Zenon
  <2> QED
    BY <1>1, <1>3, <2>2, <2>4, <2>5, <2>6, <2>7, <2>8
<1>4. CASE ~V5
  <2>1. <<0, Code>> \in Seq(Byte) /\ Len(<<0, Code>>) = 2 /\ <<0, Code>>[2] = Code
    BY <1>1 DEF Byte
  <2>2. ConnectReply = <<0, Code>> \o Filler(6)
    BY <1>4 DEF ConnectReply
  <2>3. 2 \in 1 .. Len(<<0, Code>>)
    BY <2>1
  <2>4. ConnectReply[2] = <<0, Code>>[2]
    BY <1>2, <2>1, <2>2, <2>3, InFirst, Zenon
  <2>5. ConnectReply \in Seq(Byte) /\ Len(ConnectReply) = 8
    <3>1. /\ <<0, Code>> \o Filler(6) \in Seq(Byte)
          /\ Len(<<0, Code>> \o Filler(6)) = Len(<<0, Code>>) + Len(Filler(6))
      BY <1>2, <2>1, Joined, Zenon
    <3>2. Len(<<0, Code>>) + Len(Filler(6)) = 8
      <4>1. Len(<<0, Code>>) + Len(Filler(6)) = 2 + 6
        BY <1>2, <2>1, Zenon
      <4> QED
        BY <4>1
    <3> QED
      BY <2>2, <3>1, <3>2, Zenon
  <2> QED
    BY <1>4, <2>1, <2>4, <2>5
<1> QED
  BY <1>3, <1>4

\* How many bytes the answers given so far are, and what stands where.
LEMMA BytesOfWire ==
  ASSUME setup \in Setup, answered \in 0 .. Requests
  PROVE  /\ Wire \in Seq(Byte)
         /\ answered = 0 => Len(Wire) = 0
         /\ V5 /\ answered = 1 => Len(Wire) = 2
         /\ V5 /\ answered = 2 =>
              /\ Len(Wire) >= 8 + AddressLen
              /\ Wire[4] = Code /\ Wire[6] = setup.bound
              /\ setup.bound = TypeDomain => Wire[7] = NameLen
         /\ ~V5 /\ answered = 1 => Len(Wire) >= 8 /\ Wire[2] = Code
         /\ V5 => Len(Answers(2)) = 8 + AddressLen
         /\ ~V5 => Len(Answers(1)) = 8
<1> DEFINE rest == IF Connected THEN Filler(StreamLen) ELSE <<>>
<1>1. rest \in Seq(Byte) /\ Len(rest) \in Nat /\ Wire = Answers(answered) \o rest
  BY FillerIsBytes, SocksAssumption, EmptySeq DEF Wire
<1>2. Requests \in Nat /\ (answered # Requests => rest = <<>>)
  BY DEF Requests, Connected
<1> HIDE DEF rest
<1>3. /\ MethodReply \in Seq(Byte) /\ Len(MethodReply) = 2 /\ AddressLen \in Nat
      /\ setup.bound = TypeDomain => AddressLen >= 1
  BY BytesOfReplies, SocksAssumption
<1>4. CASE V5
  <2>1. /\ Answers(0) = <<>> \o <<>> /\ Answers(1) = MethodReply \o <<>>
        /\ Answers(2) = MethodReply \o ConnectReply
    BY <1>4 DEF Answers
  <2>2. Answers(0) = <<>> /\ Answers(1) = MethodReply
    BY <1>3, <2>1, NothingJoined
  <2>3. /\ ConnectReply \in Seq(Byte) /\ Len(ConnectReply) = 6 + AddressLen
        /\ ConnectReply[2] = Code /\ ConnectReply[4] = setup.bound
        /\ setup.bound = TypeDomain => ConnectReply[5] = NameLen
    BY <1>4, BytesOfConnectReply
  <2>4. Answers(2) \in Seq(Byte) /\ Len(Answers(2)) = 8 + AddressLen
    <3>1. /\ MethodReply \o ConnectReply \in Seq(Byte)
          /\ Len(MethodReply \o ConnectReply) = Len(MethodReply) + Len(ConnectReply)
      BY <1>3, <2>3, Joined, Zenon
    <3>2. Len(MethodReply) + Len(ConnectReply) = 8 + AddressLen
      BY <1>3, <2>3
    <3> QED
      BY <2>1, <3>1, <3>2, Zenon
  <2>5. CASE answered = 0
    <3>1. Wire = <<>>
      BY <1>1, <1>2, <1>4, <2>2, <2>5, NothingJoined DEF Requests
    <3> QED
      BY <1>4, <2>4, <2>5, <3>1, EmptySeq
  <2>6. CASE answered = 1
    <3>1. Wire = MethodReply
      <4>1. rest = <<>>
        BY <1>2, <1>4, <2>6 DEF Requests
      <4>2. Wire = MethodReply \o <<>>
        BY <1>1, <2>2, <2>6, <4>1, Zenon
      <4> QED
        BY <1>3, <4>2, NothingJoined, Zenon
    <3> QED
      BY <1>3, <1>4, <2>4, <2>6, <3>1
  <2>7. CASE answered = 2
    <3>1. Wire = Answers(2) \o rest
      BY <1>1, <2>7
    <3>2. Wire \in Seq(Byte) /\ Len(Wire) = 8 + AddressLen + Len(rest)
      BY <1>1, <1>3, <2>4, <3>1, Joined
    <3>3. \A i \in 1 .. Len(ConnectReply) : Wire[2 + i] = ConnectReply[i]
      <4> SUFFICES ASSUME NEW i \in 1 .. Len(ConnectReply)
                   PROVE  Wire[2 + i] = ConnectReply[i]
        OBVIOUS
      <4>1. 2 + i = Len(MethodReply) + i /\ 2 + i \in 1 .. Len(Answers(2))
        BY <1>3, <2>3, <2>4
      <4>2. Answers(2)[2 + i] = ConnectReply[i]
        <5>1. (MethodReply \o ConnectReply)[2 + i] = ConnectReply[i]
          BY <1>3, <2>3, <4>1, InSecond, Zenon
        <5> QED
          BY <2>1, <5>1, Zenon
      <4>3. Wire[2 + i] = Answers(2)[2 + i]
        BY <1>1, <2>4, <3>1, <4>1, InFirst, Zenon
      <4> QED
        BY <4>2, <4>3
    <3>4. /\ Wire[2 + 2] = Code /\ Wire[2 + 4] = setup.bound
          /\ setup.bound = TypeDomain => Wire[2 + 5] = NameLen
      BY <1>3, <2>3, <3>3
    <3> QED
      BY <1>1, <1>3, <1>4, <2>4, <2>7, <3>2, <3>4
  <2> QED
    BY <1>4, <2>5, <2>6, <2>7 DEF Requests
<1>5. CASE ~V5
  <2>1. Answers(0) = <<>> /\ Answers(1) = ConnectReply
    BY <1>5 DEF Answers
  <2>2. ConnectReply \in Seq(Byte) /\ Len(ConnectReply) = 8 /\ ConnectReply[2] = Code
    BY <1>5, BytesOfConnectReply
  <2>3. CASE answered = 0
    <3>1. Wire = <<>>
      BY <1>1, <1>2, <1>5, <2>1, <2>3, NothingJoined DEF Requests
    <3> QED
      BY <1>5, <2>1, <2>2, <2>3, <3>1, EmptySeq
  <2>4. CASE answered = 1
    <3>1. Wire = ConnectReply \o rest
      BY <1>1, <2>1, <2>4
    <3>2. Wire \in Seq(Byte) /\ Len(Wire) = 8 + Len(rest)
      BY <1>1, <2>2, <3>1, Joined
    <3>3. 2 \in 1 .. Len(ConnectReply)
      BY <2>2
    <3>4. Wire[2] = ConnectReply[2]
      <4>1. (ConnectReply \o rest)[2] = ConnectReply[2]
        BY <1>1, <2>2, <3>3, InFirst, Zenon
      <4> QED
        BY <3>1, <4>1, Zenon
    <3> QED
      BY <1>1, <1>5, <2>1, <2>2, <2>4, <3>2, <3>4
  <2> QED
    BY <1>5, <2>3, <2>4 DEF Requests
<1> QED
  BY <1>4, <1>5
-----------------------------------------------------------------------------
(***************************************************************************)
(* The invariant: how many requests the client has written, and, while no  *)
(* Read has come back short, how many bytes of the answers it has read and *)
(* what it knows of them.                                                  *)
(***************************************************************************)
Asked ==
  /\ asked <= Requests
  /\ pc \in {"dial", "start"} => asked = 0
  /\ pc \in {"method", "connect"} => V5 /\ asked = 1
  /\ pc \in {"head", "length", "address", "port"} => V5 /\ asked = 2
  /\ pc \in {"code4", "rest4"} => ~V5 /\ asked = 1
  /\ pc # "done" => result = "none"

Position ==
  ~torn =>
    /\ pc \in {"dial", "start", "method", "code4"} => got = 0
    /\ pc \in {"connect", "head"} => got = 2
    /\ pc \in {"length", "address", "port"} => answered = 2 /\ setup.granted
    /\ pc = "length" => setup.bound = TypeDomain /\ got = 6
    /\ pc = "address" => got + size = 6 + AddressLen
    /\ pc = "port" => got = 6 + AddressLen
    /\ pc = "rest4" => answered = 1 /\ setup.granted /\ got = 2
    /\ result = "ok" => Connected /\ got = IF V5 THEN 8 + AddressLen ELSE 8

IInv == TypeOK /\ Asked /\ Position

WireFacts ==
  /\ Wire \in Seq(Byte) /\ Len(Wire) \in Nat
  /\ answered = 0 => Len(Wire) = 0
  /\ V5 /\ answered = 1 => Len(Wire) = 2
  /\ V5 /\ answered = 2 => Len(Wire) >= 8
  /\ ~V5 /\ answered = 1 => Len(Wire) >= 8

LEMMA WireKnown == setup \in Setup /\ answered \in 0 .. Requests => WireFacts
<1> SUFFICES ASSUME setup \in Setup, answered \in 0 .. Requests PROVE WireFacts
  OBVIOUS
<1>1. AddressLen \in Nat
  BY BytesOfReplies
<1> QED
  BY <1>1, BytesOfWire, LenProperties DEF WireFacts

LEMMA Initially == Init => IInv
<1> SUFFICES ASSUME Init PROVE IInv
  OBVIOUS
<1>1. setup \in Setup /\ answered \in 0 .. Requests
  BY DEF Init, Requests
<1>2. Len(Wire) = 0
  BY <1>1, BytesOfWire DEF Init
<1>3. TypeOK
  <2>1. 0 \in Byte /\ 0 \in 0 .. 2 /\ 0 \in 0 .. 0
    BY DEF Byte
  <2> QED
    BY <1>1, <1>2, <2>1 DEF Init, TypeOK
<1>4. Asked /\ Position
  BY <1>1 DEF Init, Asked, Position, Requests
<1> QED
  BY <1>3, <1>4 DEF IInv

\* What the client does changes neither the answers nor what has arrived.
LEMMA SameWire ==
  ASSUME UNCHANGED <<setup, answered>>
  PROVE  Wire' = Wire /\ AddressLen' = AddressLen /\ V5' = V5 /\ Requests' = Requests
         /\ Connected' = Connected
<1>1. V5' = V5 /\ Requests' = Requests /\ Connected' = Connected
  BY DEF V5, Requests, Connected
<1>2. BoundAddress' = BoundAddress /\ Code' = Code /\ MethodReply' = MethodReply
  BY DEF BoundAddress, Code, MethodReply
<1>3. ConnectReply' = ConnectReply
  BY <1>1, <1>2 DEF ConnectReply
<1>4. \A n : Answers(n)' = Answers(n)
  BY <1>1, <1>2, <1>3 DEF Answers
<1> QED
  BY <1>1, <1>2, <1>4 DEF Wire, AddressLen
-----------------------------------------------------------------------------
(***************************************************************************)
(* The server and the path.                                                *)
(***************************************************************************)
LEMMA ServerKeeps ==
  ASSUME IInv, ServerAnswers \/ ServerCloses \/ Arrives
  PROVE  IInv'
<1> USE DEF IInv
<1>1. /\ UNCHANGED <<setup, pc, size, asked, got, conn, result, torn>>
      /\ setup \in Setup /\ asked \in 0 .. 2 /\ asked <= Requests /\ Requests \in Nat
      /\ answered \in 0 .. asked /\ arrived \in 0 .. Len(Wire) /\ got \in 0 .. arrived
  BY DEF ServerAnswers, ServerCloses, Arrives, TypeOK, Asked, Requests
<1>2. answered \in 0 .. Requests /\ WireFacts
  BY <1>1, WireKnown
<1>3. V5' = V5 /\ Requests' = Requests /\ AddressLen' = AddressLen
  BY <1>1 DEF V5, Requests, AddressLen, BoundAddress
<1>4. CASE ServerAnswers
  <2>1. answered' = answered + 1 /\ answered < asked /\ UNCHANGED <<server, arrived>>
    BY <1>4 DEF ServerAnswers
  <2>2. answered' \in 0 .. asked /\ answered' \in 0 .. Requests
    BY <1>1, <2>1
  <2>3. (setup \in Setup /\ answered \in 0 .. Requests)' => WireFacts'
    BY WireKnown, PTL
  <2>4. WireFacts'
    BY <1>1, <1>3, <2>2, <2>3
  <2>5. Len(Wire) <= Len(Wire')
    BY <1>1, <1>2, <1>3, <2>1, <2>4 DEF WireFacts, Requests
  <2>6. arrived \in 0 .. Len(Wire')
    BY <1>1, <1>2, <2>4, <2>5 DEF WireFacts
  <2>7. TypeOK'
    BY <1>1, <2>1, <2>2, <2>6 DEF TypeOK
  <2>8. Asked'
    BY <1>1, <1>3 DEF Asked
  <2>9. Position'
    BY <1>1, <1>3, <2>1 DEF Position, Asked, Connected, Requests
  <2> QED
    BY <2>7, <2>8, <2>9
<1>5. CASE ServerCloses \/ Arrives
  <2>1. answered' = answered /\ server' \in {"open", "closed"}
        /\ (arrived' = arrived \/ arrived' \in arrived + 1 .. Len(Wire))
    BY <1>5 DEF ServerCloses, Arrives, TypeOK
  <2>2. Wire' = Wire /\ Connected' = Connected
    BY <1>1, <2>1, SameWire
  <2>3. arrived' \in 0 .. Len(Wire) /\ got \in 0 .. arrived'
    BY <1>1, <1>2, <2>1 DEF WireFacts
  <2>4. TypeOK'
    BY <1>1, <2>1, <2>2, <2>3 DEF TypeOK
  <2>5. Asked' /\ Position'
    BY <1>1, <1>3, <2>1, <2>2 DEF Asked, Position
  <2> QED
    BY <2>4, <2>5
<1> QED
  BY <1>4, <1>5

-----------------------------------------------------------------------------
(***************************************************************************)
(* The client.                                                             *)
(***************************************************************************)
\* Whatever ends with an error is over.
LEMMA FailKeeps ==
  ASSUME IInv, Fail, UNCHANGED clientRest,
         asked' = asked, torn' \in BOOLEAN, got' \in got .. arrived
  PROVE  IInv'
<1> USE DEF IInv, clientRest
<1>1. pc' = "done" /\ result' = "error" /\ conn' = "closed" /\ UNCHANGED size
  BY DEF Fail
<1>2. Wire' = Wire /\ Requests' = Requests
  BY SameWire
<1>3. got' \in 0 .. arrived
  BY DEF TypeOK
<1>4. TypeOK'
  BY <1>1, <1>2, <1>3 DEF TypeOK
<1> QED
  BY <1>1, <1>2, <1>4 DEF Asked, Position

LEMMA WriteKeeps ==
  ASSUME IInv, DialServer \/ RefuseTarget \/ OfferMethods \/ Connect5 \/ Request4
  PROVE  IInv'
<1> USE DEF IInv, clientRest
<1>1. UNCHANGED clientRest /\ UNCHANGED <<got, torn>>
  BY DEF DialServer, RefuseTarget, OfferMethods, Connect5, Request4, WriteRequest
<1>2. Wire' = Wire /\ AddressLen' = AddressLen /\ V5' = V5 /\ Requests' = Requests
      /\ Connected' = Connected
  BY <1>1, SameWire
<1>3. got \in got .. arrived /\ torn \in BOOLEAN
  BY DEF TypeOK
<1>4. CASE Fail /\ asked' = asked
  BY <1>1, <1>3, <1>4, FailKeeps
<1>5. CASE DialServer
  <2>1. TypeOK'
    BY <1>1, <1>2, <1>5 DEF DialServer, TypeOK
  <2> QED
    BY <1>1, <1>2, <1>5, <2>1 DEF DialServer, Asked, Position
<1>6. ASSUME NEW from, NEW next, pc = from, asked' = asked + 1, Proceed(next),
             \/ from = "start" /\ next = "method" /\ V5
             \/ from = "connect" /\ next = "head"
             \/ from = "start" /\ next = "code4" /\ ~V5
      PROVE  IInv'
  <2>1. pc' = next /\ UNCHANGED <<size, conn, result>>
    BY <1>6 DEF Proceed
  <2>2. asked' \in 0 .. 2 /\ asked' <= Requests /\ answered \in 0 .. asked'
    BY <1>6 DEF TypeOK, Asked, Requests
  <2>3. TypeOK'
    BY <1>1, <1>2, <1>6, <2>1, <2>2 DEF TypeOK
  <2>4. Asked'
    BY <1>1, <1>2, <1>6, <2>1, <2>2 DEF Asked
  <2>5. Position'
    BY <1>1, <1>2, <1>6, <2>1 DEF Position, Asked
  <2> QED
    BY <2>3, <2>4, <2>5
<1>7. CASE RefuseTarget
  BY <1>4, <1>7 DEF RefuseTarget
<1>8. CASE OfferMethods
  BY <1>4, <1>6, <1>8 DEF OfferMethods, WriteRequest
<1>9. CASE Connect5
  BY <1>4, <1>6, <1>9 DEF Connect5, WriteRequest
<1>10. CASE Request4
  BY <1>4, <1>6, <1>10 DEF Request4, WriteRequest
<1> QED
  BY <1>5, <1>7, <1>8, <1>9, <1>10
Places == {"dial", "start", "method", "connect", "head", "length", "address", "port",
           "code4", "rest4", "done"}

LEMMA ReadTypes ==
  ASSUME IInv, UNCHANGED clientRest, asked' = asked, pc' \in Places, size' \in Byte,
         got' \in got .. arrived, torn' \in BOOLEAN, conn' \in {"none", "open", "closed"},
         result' \in {"none", "ok", "error"}
  PROVE  TypeOK'
<1>1. Wire' = Wire
  BY SameWire DEF clientRest
<1>2. got' \in 0 .. arrived
  BY DEF IInv, TypeOK
<1> QED
  BY <1>1, <1>2 DEF IInv, TypeOK, clientRest, Places

\* What a Read does to the position, and what is known when it was not short.
LEMMA ReadMoves ==
  ASSUME IInv, NEW n \in Nat, NEW k, Read(n, k)
  PROVE  /\ got' = got + k /\ got' \in got .. arrived /\ torn' \in BOOLEAN
         /\ ~torn' => ~torn /\ k = n /\ arrived >= got + n
<1>1. arrived \in Nat /\ got \in Nat /\ got <= arrived /\ torn \in BOOLEAN
  <2>1. Len(Wire) \in Nat
    BY WireKnown DEF IInv, TypeOK, Asked, WireFacts, Requests
  <2> QED
    BY <2>1 DEF IInv, TypeOK
<1>2. k \in Nat /\ k <= n /\ k <= arrived - got /\ got' = got + k
  BY <1>1 DEF Read
<1>3. torn' = (torn \/ k < n)
  BY DEF Read
<1>4. torn' \in BOOLEAN /\ (~torn' => ~torn /\ ~(k < n))
  BY <1>1, <1>3, Zenon
<1> QED
  BY <1>1, <1>2, <1>4

LEMMA ReadFullMoves ==
  ASSUME IInv, NEW n \in Nat, ReadFull(n)
  PROVE  /\ got' = got + n /\ got' \in got .. arrived /\ torn' = torn /\ torn \in BOOLEAN
         /\ arrived >= got + n /\ got \in Nat /\ arrived \in Nat
<1>1. Len(Wire) \in Nat
  BY WireKnown DEF IInv, TypeOK, Asked, WireFacts, Requests
<1> QED
  BY <1>1 DEF IInv, TypeOK, ReadFull

\* Bytes beyond an answer are there only when the server has given the next one.
LEMMA WhatHasCome ==
  ASSUME IInv
  PROVE  /\ V5 /\ arrived >= 6 =>
              /\ answered = 2 /\ Wire[4] = Code /\ Wire[6] = setup.bound
              /\ setup.bound = TypeDomain => Wire[7] = NameLen
         /\ ~V5 /\ arrived >= 2 => answered = 1 /\ Wire[2] = Code
         /\ \A i \in 1 .. arrived : Wire[i] \in Byte
<1>1. /\ setup \in Setup /\ answered \in 0 .. Requests /\ arrived \in 0 .. Len(Wire)
  BY DEF IInv, TypeOK, Asked, Requests
<1>2. WireFacts
  BY <1>1, WireKnown
<1>3. arrived <= Len(Wire) /\ arrived \in Nat
  BY <1>1, <1>2 DEF WireFacts
<1>4. V5 /\ arrived >= 6 => answered = 2
  <2> SUFFICES ASSUME V5, arrived >= 6 PROVE answered = 2
    OBVIOUS
  <2>1. answered \in 0 .. 2 /\ Len(Wire) >= 6 /\ Len(Wire) \in Nat
    BY <1>1, <1>2, <1>3 DEF WireFacts, Requests
  <2>2. answered # 0 /\ answered # 1
    BY <1>2, <2>1 DEF WireFacts
  <2> QED
    BY <2>1, <2>2
<1>5. ~V5 /\ arrived >= 2 => answered = 1
  BY <1>1, <1>2, <1>3 DEF WireFacts, Requests
<1>6. \A i \in 1 .. arrived : Wire[i] \in Byte
  BY <1>2, <1>3, ElementOfSeq DEF WireFacts
<1> QED
  BY <1>1, <1>4, <1>5, <1>6, BytesOfWire

LEMMA ReadMethodKeeps ==
  ASSUME IInv, ReadMethod
  PROVE  IInv'
<1>1. UNCHANGED clientRest /\ asked' = asked /\ pc = "method"
  BY DEF ReadMethod
<1>2. PICK k \in 1 .. 2 : Read(2, k) /\ (Proceed("connect") \/ Fail)
  BY DEF ReadMethod
<1>3. /\ got' = got + k /\ got' \in got .. arrived /\ torn' \in BOOLEAN
      /\ ~torn' => ~torn /\ k = 2
  BY <1>2, ReadMoves
<1>4. CASE Proceed("connect")
  <2>1. TypeOK'
    BY <1>1, <1>3, <1>4, ReadTypes DEF Proceed, IInv, TypeOK, Places
  <2>2. V5' = V5 /\ Requests' = Requests
    BY <1>1, SameWire DEF clientRest
  <2>3. Asked' /\ Position'
    BY <1>1, <1>3, <1>4, <2>2 DEF Proceed, IInv, Asked, Position
  <2> QED
    BY <2>1, <2>3 DEF IInv
<1> QED
  BY <1>1, <1>2, <1>3, <1>4, FailKeeps

LEMMA ReadHeadKeeps ==
  ASSUME IInv, ReadHead
  PROVE  IInv'
<1>1. UNCHANGED clientRest /\ asked' = asked /\ pc = "head"
  BY DEF ReadHead
<1>2. PICK k \in 1 .. 4 :
        Read(4, k) /\ ((Accepted(k) /\ AddressFollows(Holds(k, 4))) \/ Fail)
  BY DEF ReadHead
<1>3. /\ got' = got + k /\ got' \in got .. arrived /\ torn' \in BOOLEAN
      /\ ~torn' => ~torn /\ k = 4 /\ arrived >= got + 4
  BY <1>2, ReadMoves
<1>4. CASE Accepted(k) /\ AddressFollows(Holds(k, 4))
  <2>1. /\ UNCHANGED <<conn, result>> /\ size' \in {size, 4, 16}
        /\ pc' \in {"address", "length", "port"}
    BY <1>4 DEF AddressFollows, TypeIPv4, TypeIPv6, TypeDomain
  <2>2. size' \in Byte
    BY <2>1 DEF IInv, TypeOK, Byte
  <2>3. TypeOK'
    BY <1>1, <1>3, <2>1, <2>2, ReadTypes DEF IInv, TypeOK, Places
  <2>4. V5' = V5 /\ Requests' = Requests /\ AddressLen' = AddressLen
    BY <1>1, SameWire DEF clientRest
  <2>5. Asked'
    BY <1>1, <2>1, <2>4 DEF IInv, Asked
  <2>6. ASSUME ~torn' PROVE Position'
    <3>1. ~torn /\ k = 4 /\ got = 2 /\ arrived >= 6 /\ V5 /\ got' = 6
      BY <1>1, <1>3, <2>6 DEF IInv, Position, Asked
    <3>2. answered = 2 /\ Holds(k, 2) = Code /\ Holds(k, 4) = setup.bound
      BY <3>1, WhatHasCome DEF Holds
    <3>3. setup.granted /\ setup.bound \in {TypeIPv4, TypeIPv6, TypeDomain}
      <4>1. Code = Granted(setup.version)
        BY <1>4, <3>1, <3>2 DEF Accepted, V5
      <4> QED
        BY <4>1, BytesOfReplies DEF IInv, TypeOK, Setup
    <3>4. /\ setup.bound = TypeIPv4 => AddressLen = 4 /\ pc' = "address" /\ size' = 4
          /\ setup.bound = TypeIPv6 => AddressLen = 16 /\ pc' = "address" /\ size' = 16
          /\ setup.bound = TypeDomain => pc' = "length"
      <4>1. AddressFollows(setup.bound)
        BY <1>4, <3>2
      <4>2. /\ setup.bound = TypeIPv4 => AddressLen = 4
            /\ setup.bound = TypeIPv6 => AddressLen = 16
        BY BytesOfReplies DEF IInv, TypeOK
      <4> QED
        BY <4>1, <4>2 DEF AddressFollows, TypeIPv4, TypeIPv6, TypeDomain
    <3>5. result' # "ok"
      BY <1>1, <2>1 DEF IInv, Asked
    <3>6. UNCHANGED <<setup, answered>>
      BY <1>1 DEF clientRest
    <3> QED
      BY <2>4, <3>1, <3>2, <3>3, <3>4, <3>5, <3>6 DEF Position
  <2> QED
    BY <2>3, <2>5, <2>6 DEF IInv, Position
<1> QED
  BY <1>1, <1>2, <1>3, <1>4, FailKeeps

LEMMA ReadLengthKeeps ==
  ASSUME IInv, ReadLength
  PROVE  IInv'
<1>1. /\ UNCHANGED clientRest /\ UNCHANGED <<setup, answered, asked, conn, result>>
      /\ pc = "length" /\ pc' = "address" /\ size' = Wire[got + 1] /\ ReadFull(1)
  BY DEF ReadLength, clientRest
<1>2. /\ got' = got + 1 /\ got' \in got .. arrived /\ torn' = torn /\ torn \in BOOLEAN
      /\ arrived >= got + 1 /\ got \in Nat /\ arrived \in Nat
  BY <1>1, ReadFullMoves
<1>3. size' \in Byte
  BY <1>1, <1>2, WhatHasCome
<1>4. TypeOK'
  BY <1>1, <1>2, <1>3, ReadTypes DEF IInv, TypeOK, Places
<1>5. V5' = V5 /\ Requests' = Requests /\ AddressLen' = AddressLen
  BY <1>1, SameWire
<1>6. Asked'
  BY <1>1, <1>5 DEF IInv, Asked
<1>7. ASSUME ~torn PROVE got' + size' = 6 + AddressLen /\ answered = 2 /\ setup.granted
  <2>1. got = 6 /\ setup.bound = TypeDomain /\ V5 /\ answered = 2 /\ setup.granted
    BY <1>1, <1>7 DEF IInv, Position, Asked
  <2>2. Wire[7] = NameLen /\ AddressLen = NameLen + 1 /\ NameLen \in Nat
    BY <1>2, <2>1, WhatHasCome, BytesOfReplies, SocksAssumption DEF IInv, TypeOK
  <2>3. size' = NameLen /\ got' = 7
    BY <1>1, <1>2, <2>1, <2>2
  <2> QED
    BY <2>1, <2>2, <2>3
<1>8. Position'
  BY <1>1, <1>2, <1>5, <1>7 DEF IInv, Asked, Position
<1> QED
  BY <1>4, <1>6, <1>8 DEF IInv

LEMMA ReadAddressKeeps ==
  ASSUME IInv, ReadAddress
  PROVE  IInv'
<1>1. /\ UNCHANGED clientRest /\ UNCHANGED <<setup, answered, asked, size, conn, result>>
      /\ pc = "address" /\ pc' = "port" /\ \E k \in 0 .. size : Read(size, k)
  BY DEF ReadAddress, clientRest, Proceed
<1>2. size \in Nat
  BY DEF IInv, TypeOK, Byte
<1>3. PICK k \in 0 .. size : Read(size, k)
  BY <1>1
<1>4. /\ got' = got + k /\ got' \in got .. arrived /\ torn' \in BOOLEAN
      /\ ~torn' => ~torn /\ k = size
  BY <1>2, <1>3, ReadMoves
<1>5. TypeOK'
  BY <1>1, <1>4, ReadTypes DEF IInv, TypeOK, Places
<1>6. V5' = V5 /\ Requests' = Requests /\ AddressLen' = AddressLen
  BY <1>1, SameWire
<1>7. Asked' /\ Position'
  BY <1>1, <1>4, <1>6 DEF IInv, Asked, Position
<1> QED
  BY <1>5, <1>7 DEF IInv

LEMMA ReadPortKeeps ==
  ASSUME IInv, ReadPort
  PROVE  IInv'
<1>1. /\ UNCHANGED clientRest /\ UNCHANGED <<setup, answered, asked, size, conn>>
      /\ pc = "port" /\ pc' = "done" /\ result' = "ok" /\ ReadFull(2)
  BY DEF ReadPort, clientRest, Return
<1>2. /\ got' = got + 2 /\ got' \in got .. arrived /\ torn' = torn /\ torn \in BOOLEAN
  BY <1>1, ReadFullMoves
<1>3. TypeOK'
  BY <1>1, <1>2, ReadTypes DEF IInv, TypeOK, Places
<1>4. V5' = V5 /\ Requests' = Requests /\ AddressLen' = AddressLen /\ Connected' = Connected
  BY <1>1, SameWire
<1>5. ~torn => Connected /\ V5 /\ got' = 8 + AddressLen
  <2>1. AddressLen \in Nat
    BY BytesOfReplies DEF IInv, TypeOK
  <2> QED
    BY <1>1, <1>2, <2>1 DEF IInv, Asked, Position, Connected, Requests
<1>6. Asked' /\ Position'
  BY <1>1, <1>2, <1>4, <1>5 DEF IInv, Asked, Position
<1> QED
  BY <1>3, <1>6 DEF IInv

LEMMA Read4Keeps ==
  ASSUME IInv, ReadCode4 \/ ReadRest4
  PROVE  IInv'
<1>1. UNCHANGED clientRest /\ UNCHANGED <<setup, answered, asked>>
  BY DEF ReadCode4, ReadRest4, clientRest
<1>2. V5' = V5 /\ Requests' = Requests /\ AddressLen' = AddressLen /\ Connected' = Connected
  BY <1>1, SameWire
<1>3. CASE ReadCode4
  <2>1. pc = "code4" /\ ReadFull(2) /\ ~V5
    BY <1>3 DEF ReadCode4, IInv, Asked
  <2>2. /\ got' = got + 2 /\ got' \in got .. arrived /\ torn' = torn /\ torn \in BOOLEAN
        /\ arrived >= got + 2 /\ got \in Nat /\ arrived \in Nat
    BY <2>1, ReadFullMoves
  <2>3. CASE Fail
    BY <1>1, <2>2, <2>3, FailKeeps
  <2>4. CASE Proceed("rest4") /\ Holds(2, 2) = Granted("4")
    <3>1. TypeOK'
      BY <1>1, <2>2, <2>4, ReadTypes DEF Proceed, IInv, TypeOK, Places
    <3>2. Asked'
      BY <1>1, <1>2, <2>1, <2>4 DEF Proceed, IInv, Asked
    <3>3. ~torn => answered = 1 /\ setup.granted /\ got' = 2
      <4> SUFFICES ASSUME ~torn PROVE answered = 1 /\ setup.granted /\ got' = 2
        OBVIOUS
      <4>1. got = 0 /\ got' = 2 /\ arrived >= 2
        BY <2>1, <2>2 DEF IInv, Position
      <4>2. answered = 1 /\ Wire[2] = Code
        BY <2>1, <4>1, WhatHasCome
      <4>3. Code = Granted(setup.version)
        BY <2>1, <2>4, <4>1, <4>2 DEF Holds, Granted, V5
      <4> QED
        BY <4>1, <4>2, <4>3, BytesOfReplies DEF IInv, TypeOK
    <3>4. Position'
      BY <1>1, <2>1, <2>2, <2>4, <3>3 DEF Proceed, IInv, Asked, Position
    <3> QED
      BY <3>1, <3>2, <3>4 DEF IInv
  <2> QED
    BY <1>3, <2>3, <2>4 DEF ReadCode4
<1>4. CASE ReadRest4
  <2>1. /\ pc = "rest4" /\ ReadFull(6) /\ ~V5 /\ pc' = "done" /\ result' = "ok"
        /\ UNCHANGED <<size, conn>>
    BY <1>4 DEF ReadRest4, Return, IInv, Asked
  <2>2. got' = got + 6 /\ got' \in got .. arrived /\ torn' = torn /\ torn \in BOOLEAN
    BY <2>1, ReadFullMoves
  <2>3. TypeOK'
    BY <1>1, <2>1, <2>2, ReadTypes DEF IInv, TypeOK, Places
  <2>4. Asked' /\ Position'
    BY <1>1, <1>2, <2>1, <2>2 DEF IInv, Asked, Position, Connected, Requests
  <2> QED
    BY <2>3, <2>4 DEF IInv
<1> QED
  BY <1>3, <1>4

LEMMA ReadEndsKeeps ==
  ASSUME IInv, ReadEnds
  PROVE  IInv'
<1>1. Fail /\ UNCHANGED clientRest /\ UNCHANGED <<asked, got, torn>>
  BY DEF ReadEnds, EndOfStream
<1>2. got \in got .. arrived /\ torn \in BOOLEAN
  <2>1. Len(Wire) \in Nat
    BY WireKnown DEF IInv, TypeOK, Asked, WireFacts, Requests
  <2> QED
    BY <2>1 DEF IInv, TypeOK
<1> QED
  BY <1>1, <1>2, FailKeeps

-----------------------------------------------------------------------------
LEMMA StepKeeps == IInv /\ [Next]_vars => IInv'
<1> SUFFICES ASSUME IInv, [Next]_vars PROVE IInv'
  OBVIOUS
<1>1. CASE Client
  BY <1>1, WriteKeeps, ReadMethodKeeps, ReadHeadKeeps, ReadLengthKeeps, ReadAddressKeeps,
     ReadPortKeeps, Read4Keeps, ReadEndsKeeps DEF Client
<1>2. CASE ServerAnswers \/ ServerCloses \/ Arrives
  BY <1>2, ServerKeeps
<1>3. CASE UNCHANGED vars
  <2>1. Wire' = Wire /\ AddressLen' = AddressLen /\ V5' = V5 /\ Requests' = Requests
        /\ Connected' = Connected
    BY <1>3, SameWire DEF vars
  <2> QED
    BY <1>3, <2>1 DEF vars, IInv, TypeOK, Asked, Position
<1> QED
  BY <1>1, <1>2, <1>3 DEF Next

LEMMA AlwaysIInv == Spec => []IInv
BY Initially, StepKeeps, PTL DEF Spec

\* The variables of a handshake keep their types; in particular what is left of an
\* address stays a byte, torn answers or not.
THEOREM HandshakeTypeCorrect == Spec => []TypeOK
<1>1. IInv => TypeOK
  BY DEF IInv
<1> QED
  BY <1>1, AlwaysIInv, PTL

\* A dial that succeeds was granted, for every version and form of reply, unless a
\* Read of version 5 came back short (Handshake).
THEOREM OnlyGrantedSucceeds == Spec => []GrantedUnlessTorn
<1>1. IInv => GrantedUnlessTorn
  BY DEF IInv, Position, GrantedUnlessTorn
<1> QED
  BY <1>1, AlwaysIInv, PTL

\* A dial that succeeds has read the answers to the last byte and no further,
\* whatever the length of the name in them.
THEOREM StreamUntouched == Spec => []RelayStartsAtStream
<1>1. IInv => RelayStartsAtStream
  <2> SUFFICES ASSUME IInv, result = "ok", ~torn
               PROVE  got = Len(Answers(Requests))
    BY DEF RelayStartsAtStream
  <2>1. got = IF V5 THEN 8 + AddressLen ELSE 8
    BY DEF IInv, Position
  <2>2. setup \in Setup /\ answered \in 0 .. Requests
    BY DEF IInv, TypeOK, Asked, Requests
  <2> QED
    BY <2>1, <2>2, BytesOfWire DEF Requests
<1> QED
  BY <1>1, AlwaysIInv, PTL

-----------------------------------------------------------------------------
(***************************************************************************)
(* Why a dial does not wait for ever.  That a handshake ends is liveness   *)
(* and stays with TLC; the safety behind it is that the bytes a read waits *)
(* for are among those the server sends.  Torn reads are included: they    *)
(* only leave the client behind, and one of the method reply ends with an  *)
(* error, since the head then begins with the method and not with the      *)
(* version.                                                                *)
(***************************************************************************)
Reading == {"method", "head", "length", "address", "port", "code4", "rest4"}

\* The fewest bytes with which the read of a state returns: Read is content with one.
Needs ==
  CASE pc \in {"method", "head", "length"} -> 1
    [] pc = "address" -> IF size = 0 THEN 0 ELSE 1
    [] pc \in {"port", "code4"} -> 2
    [] pc = "rest4" -> 6
    [] OTHER -> 0

\* A read either waits for a server that owes an answer, or its bytes are sent.
OwedOrComing == pc \in Reading => answered < asked \/ Len(Wire) - got >= Needs

\* Where the client is in the answers, torn reads included.
Behind ==
  /\ pc \in {"dial", "start", "method", "code4"} => got = 0
  /\ pc \in {"connect", "head"} => got \in 1 .. 2
  /\ pc \in {"length", "address", "port"} => answered = 2
  /\ pc = "length" => setup.bound = TypeDomain /\ got = 6
  /\ pc = "address" => got + size <= 6 + AddressLen
  /\ pc = "port" => got <= 6 + AddressLen
  /\ pc = "rest4" => answered = 1 /\ got = 2

\* The second byte of the answers of version 5 is the method.
LEMMA MethodInWire ==
  ASSUME IInv, V5, arrived >= 2
  PROVE  Wire[2] = setup.method /\ (arrived >= 3 => answered = 2)
<1> DEFINE rest == IF Connected THEN Filler(StreamLen) ELSE <<>>
<1>1. /\ setup \in Setup /\ answered \in 0 .. 2 /\ arrived \in 0 .. Len(Wire)
      /\ answered \in 0 .. Requests
  BY DEF IInv, TypeOK, Asked, Requests
<1>2. WireFacts
  BY <1>1, WireKnown
<1>3. answered \in {1, 2} /\ (arrived >= 3 => answered = 2)
  <2>1. arrived \in Nat /\ arrived <= Len(Wire) /\ Len(Wire) \in Nat
    BY <1>1, <1>2 DEF WireFacts
  <2>2. (answered = 0 => Len(Wire) = 0) /\ (answered = 1 => Len(Wire) = 2)
    BY <1>2, Zenon DEF WireFacts
  <2>3. answered # 0
    BY <2>1, <2>2
  <2>4. ASSUME arrived >= 3 PROVE answered # 1
    <3>1. \A a, b \in Nat : a <= b /\ a >= 3 => b # 2
      OBVIOUS
    <3>2. Len(Wire) # 2
      BY <2>1, <2>4, <3>1, Zenon
    <3> QED
      BY <2>2, <3>2
  <2>5. answered \in {0, 1, 2}
    BY <1>1
  <2> QED
    BY <2>3, <2>4, <2>5
<1>4. /\ MethodReply \in Seq(Byte) /\ Len(MethodReply) = 2 /\ ConnectReply \in Seq(Byte)
      /\ rest \in Seq(Byte) /\ MethodReply[2] = setup.method
  BY <1>1, BytesOfReplies, BytesOfConnectReply, FillerIsBytes, SocksAssumption, EmptySeq
     DEF MethodReply
<1>5. PICK second \in Seq(Byte) : Answers(answered) = MethodReply \o second
  BY <1>3, <1>4, EmptySeq DEF Answers
<1>6. Wire = (MethodReply \o second) \o rest
  BY <1>5 DEF Wire
<1> HIDE DEF rest
<1>7. 2 \in 1 .. Len(MethodReply) /\ 2 \in 1 .. Len(MethodReply \o second)
      /\ MethodReply \o second \in Seq(Byte)
  <2>1. /\ MethodReply \o second \in Seq(Byte) /\ Len(second) \in Nat
        /\ Len(MethodReply \o second) = Len(MethodReply) + Len(second)
    BY <1>4, <1>5, Joined, Zenon
  <2> QED
    BY <1>4, <2>1
<1>8. (MethodReply \o second)[2] = MethodReply[2]
  BY <1>4, <1>5, <1>7, InFirst, Zenon
<1>9. ((MethodReply \o second) \o rest)[2] = (MethodReply \o second)[2]
  BY <1>4, <1>7, InFirst, Zenon
<1> QED
  BY <1>3, <1>4, <1>6, <1>8, <1>9

\* What a Read does to the position, short or not.
LEMMA ReadStays ==
  ASSUME IInv, NEW n \in Nat, NEW k, Read(n, k)
  PROVE  /\ got \in Nat /\ arrived \in Nat /\ k \in 0 .. n /\ got' = got + k
         /\ got' <= arrived /\ (n # 0 => k >= 1)
<1>1. Len(Wire) \in Nat
  BY WireKnown DEF IInv, TypeOK, Asked, WireFacts, Requests
<1> QED
  BY <1>1 DEF IInv, TypeOK, Read

\* A method reply of which only the first byte came does not get past the head.
LEMMA HeadInPlace ==
  ASSUME IInv, Behind, pc = "head", NEW k \in 1 .. 4, Read(4, k), Accepted(k)
  PROVE  /\ got = 2 /\ got' = 2 + k /\ answered = 2 /\ AddressLen \in Nat
         /\ k < 4 => Holds(k, 4) = 0
         /\ k = 4 => Holds(k, 4) = setup.bound
<1>1. V5 /\ got \in 1 .. 2 /\ got' = got + k /\ got' <= arrived /\ arrived \in Nat
  BY ReadStays DEF Behind, IInv, Asked
<1>2. Wire[2] = setup.method /\ setup.method # 5
  BY <1>1, MethodInWire DEF IInv, TypeOK, Setup, NotRequired, NoAcceptable
<1>3. got = 2
  <2>1. Wire[got + 1] = 5
    BY DEF Accepted, Holds
  <2> QED
    BY <1>1, <1>2, <2>1
<1>4. answered = 2
  BY <1>1, <1>3, MethodInWire
<1>5. k = 4 => Wire[6] = setup.bound
  BY <1>1, <1>3, WhatHasCome
<1>6. AddressLen \in Nat
  BY BytesOfReplies DEF IInv, TypeOK
<1> QED
  BY <1>1, <1>3, <1>4, <1>5, <1>6 DEF Holds

LEMMA BehindAtFirst == Init => Behind
BY DEF Init, Behind

LEMMA ReadKeepsBehind ==
  ASSUME IInv, Behind,
         ReadMethod \/ ReadHead \/ ReadLength \/ ReadAddress \/ ReadPort \/ ReadCode4 \/ ReadRest4
  PROVE  Behind'
<1>1. UNCHANGED <<setup, answered>>
  BY DEF ReadMethod, ReadHead, ReadLength, ReadAddress, ReadPort, ReadCode4, ReadRest4, clientRest
<1>2. AddressLen' = AddressLen
  BY <1>1, SameWire
<1>3. CASE pc' = "done"
  BY <1>3 DEF Behind
<1>4. CASE ReadMethod /\ pc' # "done"
  <2>1. pc = "method" /\ pc' = "connect" /\ \E k \in 1 .. 2 : Read(2, k)
    BY <1>4 DEF ReadMethod, Proceed, Fail
  <2>2. got = 0 /\ got' \in 1 .. 2
    BY <2>1, ReadStays DEF Behind
  <2> QED
    BY <2>1, <2>2 DEF Behind
<1>5. CASE ReadHead /\ pc' # "done"
  <2>1. PICK k \in 1 .. 4 : Read(4, k) /\ Accepted(k) /\ AddressFollows(Holds(k, 4))
    BY <1>5 DEF ReadHead, Fail
  <2>2. /\ got' = 2 + k /\ answered = 2 /\ AddressLen \in Nat
        /\ k < 4 => Holds(k, 4) = 0
        /\ k = 4 => Holds(k, 4) = setup.bound
    BY <1>5, <2>1, HeadInPlace DEF ReadHead
  <2>3. CASE k < 4
    <3>1. pc' = "port"
      BY <2>1, <2>2, <2>3 DEF AddressFollows, TypeIPv4, TypeIPv6, TypeDomain
    <3> QED
      BY <1>1, <1>2, <2>2, <2>3, <3>1 DEF Behind
  <2>4. CASE k = 4
    <3>1. AddressFollows(setup.bound)
      BY <2>1, <2>2, <2>4
    <3>2. /\ setup.bound = TypeIPv4 => AddressLen = 4 /\ pc' = "address" /\ size' = 4
          /\ setup.bound = TypeIPv6 => AddressLen = 16 /\ pc' = "address" /\ size' = 16
          /\ setup.bound = TypeDomain => pc' = "length"
      BY <3>1, BytesOfReplies DEF AddressFollows, TypeIPv4, TypeIPv6, TypeDomain, IInv, TypeOK
    <3>3. setup.bound \in {TypeIPv4, TypeIPv6, TypeDomain}
      BY DEF IInv, TypeOK, Setup
    <3> QED
      BY <1>1, <1>2, <2>2, <2>4, <3>2, <3>3 DEF Behind
  <2> QED
    BY <2>3, <2>4
<1>6. CASE ReadLength
  <2>1. /\ pc = "length" /\ pc' = "address" /\ size' = Wire[got + 1] /\ ReadFull(1)
        /\ got = 6 /\ answered = 2 /\ setup.bound = TypeDomain /\ V5
    BY <1>6 DEF ReadLength, Behind, IInv, Asked
  <2>2. got' = 7 /\ arrived >= 7 /\ arrived \in Nat
    BY <2>1, ReadFullMoves
  <2>3. Wire[7] = NameLen /\ AddressLen = NameLen + 1 /\ NameLen \in Nat
    BY <2>1, <2>2, WhatHasCome, BytesOfReplies, SocksAssumption DEF IInv, TypeOK
  <2>4. got' + size' <= 6 + AddressLen
    BY <2>1, <2>2, <2>3
  <2> QED
    BY <1>1, <1>2, <2>1, <2>4 DEF Behind
<1>7. CASE ReadAddress
  <2>1. /\ pc = "address" /\ pc' = "port" /\ size \in Nat /\ answered = 2
        /\ got + size <= 6 + AddressLen /\ \E k \in 0 .. size : Read(size, k)
    BY <1>7 DEF ReadAddress, Proceed, Behind, IInv, TypeOK, Byte
  <2>2. got' <= 6 + AddressLen
    <3>1. PICK k \in 0 .. size : Read(size, k)
      BY <2>1
    <3>2. got \in Nat /\ k \in 0 .. size /\ got' = got + k
      BY <2>1, <3>1, ReadStays
    <3>3. AddressLen \in Nat
      BY BytesOfReplies DEF IInv, TypeOK
    <3> QED
      BY <2>1, <3>2, <3>3
  <2> QED
    BY <1>1, <1>2, <2>1, <2>2 DEF Behind
<1>8. CASE ReadCode4 /\ pc' # "done"
  <2>1. /\ pc = "code4" /\ pc' = "rest4" /\ ReadFull(2) /\ got = 0 /\ ~V5
    BY <1>8 DEF ReadCode4, Proceed, Fail, Behind, IInv, Asked
  <2>2. got' = 2 /\ arrived >= 2
    BY <2>1, ReadFullMoves
  <2>3. answered = 1
    BY <2>1, <2>2, WhatHasCome
  <2> QED
    BY <1>1, <2>1, <2>2, <2>3 DEF Behind
<1>9. CASE ReadPort \/ ReadRest4
  BY <1>3, <1>9 DEF ReadPort, ReadRest4, Return
<1> QED
  BY <1>3, <1>4, <1>5, <1>6, <1>7, <1>8, <1>9

LEMMA StepKeepsBehind == IInv /\ Behind /\ [Next]_vars => Behind'
<1> SUFFICES ASSUME IInv, Behind, [Next]_vars PROVE Behind'
  OBVIOUS
<1>1. CASE ReadMethod \/ ReadHead \/ ReadLength \/ ReadAddress \/ ReadPort \/ ReadCode4
             \/ ReadRest4
  BY <1>1, ReadKeepsBehind
<1>2. CASE Fail \/ pc' = "done"
  BY <1>2 DEF Fail, Behind
<1>3. CASE DialServer
  BY <1>3 DEF DialServer, Behind
<1>4. CASE RefuseTarget \/ OfferMethods \/ Connect5 \/ Request4
  <2>1. UNCHANGED <<setup, answered, got>> /\ AddressLen' = AddressLen
    BY <1>4, SameWire
       DEF RefuseTarget, OfferMethods, Connect5, Request4, WriteRequest, clientRest
  <2>2. \/ Fail
        \/ pc = "start" /\ pc' \in {"method", "code4"}
        \/ pc = "connect" /\ pc' = "head"
    BY <1>4 DEF RefuseTarget, OfferMethods, Connect5, Request4, WriteRequest, Proceed
  <2> QED
    BY <1>2, <2>1, <2>2 DEF Behind
<1>5. CASE ReadEnds
  BY <1>2, <1>5 DEF ReadEnds, EndOfStream
<1>6. CASE ServerAnswers
  <2>1. /\ UNCHANGED <<setup, pc, size, got>> /\ answered' = answered + 1 /\ answered < asked
        /\ asked <= Requests /\ Requests \in 1 .. 2 /\ (Requests = 2 => V5)
    BY <1>6 DEF ServerAnswers, IInv, Asked, Requests
  <2>2. AddressLen' = AddressLen
    BY <2>1 DEF AddressLen, BoundAddress
  <2>3. /\ pc \notin {"length", "address", "port", "rest4"}
    BY <2>1 DEF Behind, IInv, Asked, TypeOK
  <2> QED
    BY <2>1, <2>2, <2>3 DEF Behind
<1>7. CASE ServerCloses \/ Arrives \/ UNCHANGED vars
  <2>1. UNCHANGED <<setup, pc, size, got, answered>> /\ AddressLen' = AddressLen
    BY <1>7, SameWire DEF ServerCloses, Arrives, vars
  <2> QED
    BY <2>1 DEF Behind
<1> QED
  BY <1>1, <1>3, <1>4, <1>5, <1>6, <1>7 DEF Next, Client

\* The client never waits for a byte that the protocol does not send: a read that
\* blocks waits for an answer the server owes, or for bytes that are sent already,
\* for replies of every form and length and however they are torn (Handshake).
THEOREM NeverWaitsInVain == Spec => []OwedOrComing
<1>1. IInv /\ Behind => OwedOrComing
  <2> SUFFICES ASSUME IInv, Behind, pc \in Reading, ~(answered < asked)
               PROVE  Len(Wire) - got >= Needs
    BY DEF OwedOrComing
  <2>1. /\ setup \in Setup /\ answered \in 0 .. Requests /\ answered = asked
        /\ AddressLen \in Nat /\ Len(Wire) \in Nat
    <3>1. setup \in Setup /\ answered \in 0 .. Requests /\ answered = asked
      BY DEF IInv, TypeOK, Asked, Requests
    <3> QED
      BY <3>1, BytesOfReplies, WireKnown DEF WireFacts
  <2>2. /\ V5 /\ answered = 1 => Len(Wire) = 2
        /\ V5 /\ answered = 2 => Len(Wire) >= 8 + AddressLen
        /\ ~V5 /\ answered = 1 => Len(Wire) >= 8
    BY <2>1, BytesOfWire
  <2>3. CASE pc \in {"method", "code4"}
    BY <2>1, <2>2, <2>3 DEF IInv, Asked, Behind, Needs
  <2>4. CASE pc \in {"head", "length", "port"}
    <3>1. Len(Wire) >= 8 + AddressLen
      BY <2>1, <2>2, <2>4 DEF IInv, Asked
    <3>2. pc = "length" => AddressLen >= 1
      BY <2>1, BytesOfReplies, SocksAssumption DEF Behind
    <3>3. /\ pc = "head" => got \in 1 .. 2 /\ Needs = 1
          /\ pc = "length" => got = 6 /\ Needs = 1
          /\ pc = "port" => got <= 6 + AddressLen /\ Needs = 2
      BY DEF Behind, Needs
    <3>4. got \in Nat
      BY <2>1 DEF IInv, TypeOK
    <3> QED
      BY <2>1, <2>4, <3>1, <3>2, <3>3, <3>4
  <2>5. CASE pc = "address"
    <3>1. got + size <= 6 + AddressLen /\ size \in Nat /\ Len(Wire) >= 8 + AddressLen
          /\ got \in Nat
      BY <2>1, <2>2, <2>5 DEF IInv, TypeOK, Byte, Asked, Behind
    <3> QED
      BY <2>1, <2>5, <3>1 DEF Needs
  <2>6. CASE pc = "rest4"
    BY <2>1, <2>2, <2>6 DEF IInv, Asked, Behind, Needs
  <2> QED
    BY <2>3, <2>4, <2>5, <2>6 DEF Reading
<1>2. Spec => []Behind
  BY BehindAtFirst, StepKeepsBehind, AlwaysIInv, PTL DEF Spec
<1> QED
  BY <1>1, <1>2, AlwaysIInv, PTL

-----------------------------------------------------------------------------
(***************************************************************************)
(* The other half: the client cannot go round in circles, and what it had  *)
(* open is closed when it fails.                                           *)
(***************************************************************************)
\* How far the client still has to go.
Ahead(label) ==
  CASE label = "dial" -> 9 [] label = "start" -> 8 [] label = "method" -> 7
    [] label = "connect" -> 6 [] label \in {"head", "code4"} -> 5
    [] label \in {"length", "rest4"} -> 4 [] label = "address" -> 3 [] label = "port" -> 2
    [] OTHER -> 1

\* A step of the client takes it forward; one of the server or of the path brings
\* the answers, or their end, nearer and leaves the client where it is.
Marches ==
  \/ Ahead(pc') < Ahead(pc) /\ got' >= got /\ UNCHANGED clientRest
  \/ /\ UNCHANGED <<setup, pc, got, conn, result>>
     /\ \/ answered' > answered /\ UNCHANGED <<server, arrived>>
        \/ server = "open" /\ server' = "closed" /\ UNCHANGED <<answered, arrived>>
        \/ arrived' > arrived /\ UNCHANGED <<answered, server>>

\* A connection is given to the caller or closed, and the caller gets one or an error.
Closed ==
  /\ pc = "dial" => conn = "none"
  /\ pc \notin {"dial", "done"} => conn = "open"
  /\ pc = "done" => \/ result = "ok" /\ conn = "open"
                    \/ result = "error" /\ conn \in {"none", "closed"}

\* One step of the client.
LEMMA ClientMarches ==
  ASSUME IInv, Client
  PROVE  /\ Ahead(pc') < Ahead(pc) /\ got' >= got /\ UNCHANGED clientRest
<1>1. got \in Nat /\ arrived \in Nat /\ got <= arrived /\ size \in Nat
  <2>1. Len(Wire) \in Nat
    BY WireKnown DEF IInv, TypeOK, Asked, WireFacts, Requests
  <2> QED
    BY <2>1 DEF IInv, TypeOK, Byte
<1>2. UNCHANGED clientRest
  BY DEF Client, DialServer, RefuseTarget, OfferMethods, Connect5, Request4, WriteRequest,
     ReadMethod, ReadHead, ReadLength, ReadAddress, ReadPort, ReadCode4, ReadRest4, ReadEnds,
     EndOfStream
<1>3. CASE DialServer \/ RefuseTarget \/ OfferMethods \/ Connect5 \/ Request4
  <2>1. got' = got
    BY <1>3 DEF DialServer, RefuseTarget, OfferMethods, Connect5, Request4, WriteRequest
  <2>2. \/ pc = "dial" /\ pc' \in {"start", "done"}
        \/ pc = "start" /\ pc' \in {"method", "code4", "done"}
        \/ pc = "connect" /\ pc' \in {"head", "done"}
    BY <1>3 DEF DialServer, RefuseTarget, OfferMethods, Connect5, Request4, WriteRequest,
       Proceed, Fail
  <2>3. Ahead(pc') < Ahead(pc)
    BY <2>2 DEF Ahead
  <2> QED
    BY <1>1, <1>2, <2>1, <2>3
<1>4. CASE ReadMethod \/ ReadHead \/ ReadAddress
  <2>1. \E n \in Nat, k \in Nat : Read(n, k)
    <3>1. CASE ReadMethod
      BY <3>1 DEF ReadMethod
    <3>2. CASE ReadHead
      BY <3>2 DEF ReadHead
    <3>3. CASE ReadAddress
      BY <1>1, <3>3 DEF ReadAddress
    <3> QED
      BY <1>4, <3>1, <3>2, <3>3
  <2>2. got' >= got
    BY <1>1, <2>1 DEF Read
  <2>3. \/ pc = "method" /\ pc' \in {"connect", "done"}
        \/ pc = "head" /\ pc' \in {"length", "address", "port", "done"}
        \/ pc = "address" /\ pc' = "port"
    BY <1>4 DEF ReadMethod, ReadHead, ReadAddress, AddressFollows, Proceed, Fail
  <2>4. Ahead(pc') < Ahead(pc)
    BY <2>3 DEF Ahead
  <2> QED
    BY <1>2, <2>2, <2>4
<1>5. CASE ReadLength \/ ReadPort \/ ReadCode4 \/ ReadRest4
  <2>1. got' >= got
    BY <1>1, <1>5 DEF ReadLength, ReadPort, ReadCode4, ReadRest4, ReadFull
  <2>2. \/ pc = "length" /\ pc' = "address"
        \/ pc = "code4" /\ pc' \in {"rest4", "done"}
        \/ pc \in {"port", "rest4"} /\ pc' = "done"
    BY <1>5 DEF ReadLength, ReadPort, ReadCode4, ReadRest4, Return, Proceed, Fail
  <2>3. Ahead(pc') < Ahead(pc)
    BY <2>2 DEF Ahead
  <2> QED
    BY <1>2, <2>1, <2>3
<1>6. CASE ReadEnds
  <2>1. got' = got /\ pc \in Reading /\ pc' = "done"
    BY <1>6 DEF ReadEnds, EndOfStream, Fail, Reading
  <2>2. Ahead(pc') < Ahead(pc)
    BY <2>1 DEF Ahead, Reading
  <2> QED
    BY <1>1, <1>2, <2>1, <2>2
<1> QED
  BY <1>3, <1>4, <1>5, <1>6 DEF Client

\* Handshake has no loop: the client takes at most eight steps and never one back, never
\* gives back a byte it has read, and what the server and the path do only brings the
\* answers nearer.  With NeverWaitsInVain, a dial that does not end waits for the server.
THEOREM HandshakeMarches == Spec => [][Marches]_vars
<1>1. IInv /\ [Next]_vars => [Marches]_vars
  <2> SUFFICES ASSUME IInv, Next PROVE Marches
    OBVIOUS
  <2>1. CASE Client
    BY <2>1, ClientMarches DEF Marches
  <2>2. CASE ServerAnswers \/ ServerCloses \/ Arrives
    <3>1. answered \in Int /\ arrived \in Int /\ Len(Wire) \in Nat
      <4>1. Len(Wire) \in Nat
        BY WireKnown DEF IInv, TypeOK, Asked, WireFacts, Requests
      <4> QED
        BY <4>1 DEF IInv, TypeOK
    <3> QED
      BY <2>2, <3>1 DEF Marches, ServerAnswers, ServerCloses, Arrives
  <2> QED
    BY <2>1, <2>2 DEF Next
<1> QED
  BY <1>1, AlwaysIInv, PTL DEF Spec

\* DialContext returns either an open connection or an error, and never an error with
\* a connection left open (DialContext closes it when Handshake fails).
THEOREM FailedDialsCloseTheirs == Spec => []Closed
<1>1. Init => Closed
  BY DEF Init, Closed
<1>2. IInv /\ Closed /\ [Next]_vars => Closed'
  <2> SUFFICES ASSUME IInv, Closed, [Next]_vars PROVE Closed'
    OBVIOUS
  <2>1. CASE Fail
    BY <2>1 DEF Fail, Closed
  <2>2. CASE UNCHANGED <<conn, result, pc>>
    BY <2>2 DEF Closed
  <2>3. CASE DialServer
    BY <2>3 DEF DialServer, Closed
  <2>4. CASE RefuseTarget \/ OfferMethods \/ Connect5 \/ Request4
    BY <2>1, <2>4 DEF RefuseTarget, OfferMethods, Connect5, Request4, WriteRequest, Proceed,
       Closed
  <2>5. CASE ReadMethod \/ ReadAddress \/ ReadCode4
    BY <2>1, <2>5 DEF ReadMethod, ReadAddress, ReadCode4, Proceed, Closed
  <2>6. CASE ReadHead \/ ReadLength
    <3>1. Fail \/ (UNCHANGED <<conn, result>> /\ pc \in {"head", "length"}
                   /\ pc' \in {"length", "address", "port"})
      BY <2>6 DEF ReadHead, ReadLength, AddressFollows
    <3> QED
      BY <2>1, <3>1 DEF Closed
  <2>7. CASE ReadPort \/ ReadRest4
    BY <2>7 DEF ReadPort, ReadRest4, Return, Closed
  <2>8. CASE ReadEnds
    BY <2>1, <2>8 DEF ReadEnds, EndOfStream
  <2>9. CASE ServerAnswers \/ ServerCloses \/ Arrives \/ UNCHANGED vars
    BY <2>2, <2>9 DEF ServerAnswers, ServerCloses, Arrives, vars
  <2> QED
    BY <2>3, <2>4, <2>5, <2>6, <2>7, <2>8, <2>9 DEF Next, Client
<1> QED
  BY <1>1, <1>2, AlwaysIInv, PTL DEF Spec
=============================================================================
