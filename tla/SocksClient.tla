------------------------------ MODULE SocksClient ------------------------------
(***************************************************************************)
(* Dialling through a SOCKS server, common/network/socks: DialContext and  *)
(* the handshakes of versions 5, 4a and 4 against a server that answers    *)
(* each request once it has it, or closes.                                 *)
(*                                                                         *)
(* The server's bytes are a sequence of which the client's socket holds a  *)
(* growing prefix: TCP may cut an answer anywhere, and may deliver it      *)
(* together with the first bytes of the destination.  Version 4 reads with *)
(* io.ReadFull.  Version 5 calls Read for all but the domain length and    *)
(* the port, and takes whatever has come; the rest of its array is zero.   *)
(***************************************************************************)
EXTENDS Integers, Sequences

CONSTANTS
  Versions,     \* "5", "4a", "4": what Client.GetVersion returns
  NameLen,      \* bytes of the domain name in a reply of version 5
  StreamLen     \* bytes the destination sends when it is connected

ASSUME SocksAssumption ==
  /\ Versions \subseteq {"5", "4a", "4"} /\ NameLen \in 0 .. 255 /\ StreamLen \in Nat

\* The bytes the client looks at.
NotRequired == 0
NoAcceptable == 255
Granted(v) == IF v = "5" THEN 0 ELSE 90
Rejected(v) == IF v = "5" THEN 1 ELSE 91
TypeIPv4 == 1
TypeDomain == 3
TypeIPv6 == 4
Byte == 0 .. 255
Other == 9      \* a byte of an address, a port or the stream

\* What is dialled, and what the server answers.
Setup == [version : Versions, target : {"ipv4", "ipv6", "domain"},
          method : {NotRequired, NoAcceptable}, granted : BOOLEAN,
          bound : {TypeIPv4, TypeDomain, TypeIPv6}]

VARIABLES
  setup,
  pc,         \* where Handshake is, "done" when DialContext has returned
  size,       \* length of the address the reply still has to give
  asked,      \* requests written: the method offer and the connect of version 5
  answered,   \* how many of them the server has answered
  server,     \* "open", or "closed" by the server
  arrived,    \* bytes that have reached the client's socket
  got,        \* bytes the client has read
  conn,       \* "none", "open" or "closed" by the client
  result,     \* "none", "ok" or "error"
  torn        \* history: a Read returned less than was asked for

vars == <<setup, pc, size, asked, answered, server, arrived, got, conn, result, torn>>

V5 == setup.version = "5"
Requests == IF V5 THEN 2 ELSE 1
Filler(n) == [i \in 1 .. n |-> Other]

\* The answers, as the server writes them.
MethodReply == <<5, setup.method>>
BoundAddress ==
  CASE setup.bound = TypeIPv4 -> Filler(4)
    [] setup.bound = TypeIPv6 -> Filler(16)
    [] setup.bound = TypeDomain -> <<NameLen>> \o Filler(NameLen)
Code == IF setup.granted THEN Granted(setup.version) ELSE Rejected(setup.version)
ConnectReply == IF V5 THEN <<5, Code, 0, setup.bound>> \o BoundAddress \o Filler(2)
                ELSE <<0, Code>> \o Filler(6)
Answers(n) == IF ~V5 THEN (IF n = 0 THEN <<>> ELSE ConnectReply)
              ELSE (IF n = 0 THEN <<>> ELSE MethodReply)
                     \o (IF n < 2 THEN <<>> ELSE ConnectReply)

\* Everything written to the client so far: answers, then the destination's stream.
Connected == answered = Requests /\ setup.granted
Wire == Answers(answered) \o (IF Connected THEN Filler(StreamLen) ELSE <<>>)

Init ==
  /\ setup \in Setup /\ (setup.version # "5" => setup.method = NotRequired
                                                  /\ setup.bound = TypeIPv4)
  /\ pc = "dial" /\ size = 0
  /\ asked = 0 /\ answered = 0 /\ server = "open"
  /\ arrived = 0 /\ got = 0
  /\ conn = "none" /\ result = "none" /\ torn = FALSE

-----------------------------------------------------------------------------
(***************************************************************************)
(* The server and the path.  A server without an acceptable method answers *)
(* nothing more.                                                           *)
(***************************************************************************)
ServerAnswers ==
  /\ server = "open" /\ answered < asked
  /\ answered = 1 => setup.method = NotRequired
  /\ answered' = answered + 1
  /\ UNCHANGED <<setup, pc, size, asked, server, arrived, got, conn, result, torn>>

ServerCloses ==
  /\ conn # "none" /\ server = "open"
  /\ server' = "closed"
  /\ UNCHANGED <<setup, pc, size, asked, answered, arrived, got, conn, result, torn>>

Arrives ==
  /\ \E n \in arrived + 1 .. Len(Wire) : arrived' = n
  /\ UNCHANGED <<setup, pc, size, asked, answered, server, got, conn, result, torn>>

-----------------------------------------------------------------------------
(***************************************************************************)
(* The client.  An error makes DialContext close the connection.           *)
(***************************************************************************)
Fail == pc' = "done" /\ result' = "error" /\ conn' = "closed" /\ UNCHANGED size
Proceed(next) == pc' = next /\ UNCHANGED <<size, conn, result>>

clientRest == <<setup, answered, server, arrived>>

DialServer ==
  /\ pc = "dial"
  /\ \/ pc' = "start" /\ conn' = "open" /\ UNCHANGED result
     \/ pc' = "done" /\ result' = "error" /\ UNCHANGED conn
  /\ UNCHANGED <<clientRest, size, asked, got, torn>>

\* A Write, which may fail.  Methods is written here too: a dial that races with
\* the first one may see its length without its bytes, and then its Write fails.
WriteRequest(from, next) ==
  /\ pc = from
  /\ \/ asked' = asked + 1 /\ Proceed(next)
     \/ asked' = asked /\ Fail
  /\ UNCHANGED <<clientRest, got, torn>>

\* Version 4 resolves a domain itself; neither 4 nor 4a has IPv6.
RefuseTarget ==
  /\ pc = "start" /\ ~V5
  /\ setup.target = "ipv6" \/ (setup.version = "4" /\ setup.target = "domain")
  /\ Fail
  /\ UNCHANGED <<clientRest, asked, got, torn>>

OfferMethods == V5 /\ WriteRequest("start", "method")
Connect5 == WriteRequest("connect", "head")
Request4 == ~V5 /\ setup.target # "ipv6" /\ WriteRequest("start", "code4")

\* The first n bytes of an array after a Read of k bytes into it.
Holds(k, i) == IF i <= k THEN Wire[got + i] ELSE 0

EndOfStream(from, n) ==
  /\ pc = from /\ server = "closed" /\ arrived - got < n
  /\ Fail
  /\ UNCHANGED <<clientRest, asked, got, torn>>

\* Read: blocks while nothing has come, then returns what has, n bytes at most.
Read(n, k) ==
  /\ arrived > got \/ n = 0
  /\ k = (IF arrived - got < n THEN arrived - got ELSE n)
  /\ got' = got + k /\ torn' = (torn \/ k < n)

\* io.ReadFull.
ReadFull(n) == arrived - got >= n /\ got' = got + n /\ UNCHANGED torn

ReadMethod ==
  /\ pc = "method"
  /\ \E k \in 1 .. 2 :
       /\ Read(2, k)
       /\ IF Holds(k, 1) = 5 /\ Holds(k, 2) = NotRequired THEN Proceed("connect") ELSE Fail
  /\ UNCHANGED <<clientRest, asked>>

\* Mutant: only the version of the reply is looked at.
Accepted_Version(k) == Holds(k, 1) = 5

Accepted(k) == Holds(k, 1) = 5 /\ Holds(k, 2) = Granted("5")

AddressFollows(t) ==
  /\ UNCHANGED <<conn, result>>
  /\ CASE t = TypeIPv4 -> pc' = "address" /\ size' = 4
       [] t = TypeIPv6 -> pc' = "address" /\ size' = 16
       [] t = TypeDomain -> pc' = "length" /\ UNCHANGED size
       [] OTHER -> pc' = "port" /\ UNCHANGED size

ReadHead ==
  /\ pc = "head"
  /\ \E k \in 1 .. 4 :
       /\ Read(4, k)
       /\ IF Accepted(k) THEN AddressFollows(Holds(k, 4)) ELSE Fail
  /\ UNCHANGED <<clientRest, asked>>

\* Mutant: the length is taken for the whole of the field.
ReadLength_Inclusive ==
  /\ pc = "length" /\ ReadFull(1)
  /\ pc' = "address" /\ size' = Wire[got + 1] - 1
  /\ UNCHANGED <<clientRest, asked, conn, result>>

ReadLength ==
  /\ pc = "length" /\ ReadFull(1)
  /\ pc' = "address" /\ size' = Wire[got + 1]
  /\ UNCHANGED <<clientRest, asked, conn, result>>

ReadAddress ==
  /\ pc = "address"
  /\ \E k \in 0 .. size : Read(size, k)
  /\ Proceed("port")
  /\ UNCHANGED <<clientRest, asked>>

Return ==
  /\ pc' = "done" /\ result' = "ok" /\ UNCHANGED <<size, conn>>

ReadPort ==
  /\ pc = "port" /\ ReadFull(2) /\ Return
  /\ UNCHANGED <<clientRest, asked>>

ReadCode4 ==
  /\ pc = "code4" /\ ReadFull(2)
  /\ IF Holds(2, 1) \in {0, 4} /\ Holds(2, 2) = Granted("4") THEN Proceed("rest4") ELSE Fail
  /\ UNCHANGED <<clientRest, asked>>

\* Mutant: the length of the whole reply, of which two bytes are read already.
ReadRest4_Long ==
  /\ pc = "rest4" /\ ReadFull(8) /\ Return
  /\ UNCHANGED <<clientRest, asked>>

ReadRest4 ==
  /\ pc = "rest4" /\ ReadFull(6) /\ Return
  /\ UNCHANGED <<clientRest, asked>>

\* The server or the path ends the connection before a read has its bytes; what has
\* not arrived by then may be lost.
ReadEnds ==
  \/ EndOfStream("method", 1) \/ EndOfStream("head", 1)
  \/ EndOfStream("address", IF size = 0 THEN 0 ELSE 1) \/ EndOfStream("length", 1) \/ EndOfStream("port", 2)
  \/ EndOfStream("code4", 2) \/ EndOfStream("rest4", 6)

-----------------------------------------------------------------------------
Client ==
  \/ DialServer \/ RefuseTarget \/ OfferMethods \/ Connect5 \/ Request4
  \/ ReadMethod \/ ReadHead \/ ReadLength \/ ReadAddress \/ ReadPort
  \/ ReadCode4 \/ ReadRest4 \/ ReadEnds

Next == Client \/ ServerAnswers \/ ServerCloses \/ Arrives

Spec == Init /\ [][Next]_vars

-----------------------------------------------------------------------------
\* The values of the handshake's variables.
TypeOK ==
  /\ setup \in Setup
  /\ pc \in {"dial", "start", "method", "connect", "head", "length", "address", "port",
             "code4", "rest4", "done"}
  /\ size \in Byte
  /\ asked \in 0 .. 2 /\ answered \in 0 .. asked /\ server \in {"open", "closed"}
  /\ arrived \in 0 .. Len(Wire) /\ got \in 0 .. arrived
  /\ conn \in {"none", "open", "closed"} /\ result \in {"none", "ok", "error"}
  /\ torn \in BOOLEAN

\* A dial succeeds only when the server has granted the request: a refusal, an end
\* or the answer to another request is not taken for success (Handshake).  The
\* exception is the code's: a Read of version 5 that came back short leaves zeros,
\* which read as success.
GrantedUnlessTorn == result = "ok" /\ ~torn => Connected

\* The relay that follows starts at the first byte of the destination: no byte of
\* an answer is left in the socket and none of the stream is swallowed, for every
\* form of reply and however much of it came at once.
RelayStartsAtStream == result = "ok" /\ ~torn => got = Len(Answers(Requests))

(***************************************************************************)
(* Liveness.  The client's goroutine runs and what was sent arrives.  No   *)
(* deadline is set: nothing is promised of a server that is silent.        *)
(***************************************************************************)
FairSpec == Spec /\ WF_vars(Client) /\ WF_vars(Arrives)

\* A dial that never ends waits for a server that owes an answer: the client never
\* waits for a byte that the protocol does not send, torn answers or not.
HandshakeEnds == <>(pc = "done") \/ <>[](server = "open" /\ answered < asked)
=============================================================================
