------------------------------ MODULE RelayProofs ------------------------------
(***************************************************************************)
(* Proofs about Relay, for any length of the two streams and any way of    *)
(* setting the service up.  Up to the relay, the cursor of the cache is    *)
(* known at each label; what the server has received is then a prefix of   *)
(* Due whose length the label, and the number of units read, determine.    *)
(***************************************************************************)
EXTENDS Relay, SequenceTheorems, TLAPS

Before == {"header", "route", "handshake", "login", "sniffed", "outbound", "dial"}
Preamble == {"secret", "proxy", "inject", "start"}

\* The connection to the server is there from the dial on, and dropped by whoever
\* returns or fails.
ServerHeld ==
  /\ pc \in Before => server = "none"
  /\ pc \in Preamble /\ ~crashed => server \in {"open", "closed"}
  /\ pc = "relay" => server # "none" /\ (server = "dropped" <=> up = "wait")
  /\ pc = "done" => server \in {"none", "dropped"}

\* The two loops run during the relay and at no other time.
LoopsOfRelay ==
  /\ pc \notin {"relay", "done"} => up = "off" /\ down = "off"
  /\ pc = "relay" => up # "off" /\ down # "off"
  /\ pc = "done" => (up = "off" /\ down = "off") \/ (up = "wait" /\ down = "done")
  /\ dropped <=> pc = "done" \/ down = "done"

\* Until the relay the cache ends where the next read of the socket begins.
CacheEnd ==
  pc \notin {"relay", "done"} => cache.end = got /\ (~cached => cache.end = 0)

\* Where the cursor stands before the outbound is entered, and where it may go.
CursorBefore ==
  /\ pc = "header" => setup.header /\ cache.start = 0
  /\ pc \in {"route", "handshake"} => cache.start = HeaderLen
  /\ pc \in {"handshake", "login", "sniffed"} => from = HeaderLen
  /\ pc = "outbound" /\ setup.sniff # "all" => cache.start = HeaderLen
  /\ from <= cache.end
  /\ valid => position = HeaderLen + 1 /\ position <= cache.end

\* Where it stands from there to the relay.
CursorAfter ==
  /\ pc \in {"dial", "secret", "proxy", "inject"} =>
       IF Injects THEN cache.start = HeaderLen + 1
                  ELSE setup.sniff # "all" => cache.start = HeaderLen
  /\ pc = "inject" => Injects
  /\ pc = "start" =>
       IF Injects THEN cache.start = cache.end /\ HeaderLen + 1 <= cache.end
                  ELSE setup.sniff # "all" => cache.start = HeaderLen

\* A relay that is clean does not touch the cache.
Clean ==
  /\ pc \notin {"relay", "done"} => clean
  /\ pc = "relay" /\ clean => (cached => cache.start = cache.end) /\ up # "drain"

-----------------------------------------------------------------------------
\* The lengths of what precedes the client's units, and the units left out.
SecretLen == IF setup.secret THEN 1 ELSE 0
ProxyLen == IF setup.proxy THEN 1 ELSE 0
HeadLen == SecretLen + ProxyLen + (IF Injects THEN 1 ELSE 0)
First == IF Injects THEN HeaderLen + 1 ELSE HeaderLen

\* Due, element by element.
DueAt(i) ==
  IF i <= SecretLen THEN Secret
  ELSE IF i <= SecretLen + ProxyLen THEN ProxyHeader
  ELSE IF i <= HeadLen THEN NewHandshake
  ELSE First + (i - HeadLen)

\* The connections whose upload is promised to be exact.
Exact == clean /\ (setup.sniff = "all" => Injects)

\* What has been written so far, at each label.
Progress ==
  /\ pc \in Before \cup {"secret"} => Len(toServer) = 0
  /\ pc = "proxy" => Len(toServer) = SecretLen
  /\ pc = "inject" => Len(toServer) = SecretLen + ProxyLen
  /\ pc = "start" => Len(toServer) = IF Injects THEN HeadLen + got - First ELSE HeadLen
  /\ up # "off" /\ Exact => First <= got /\ Len(toServer) = HeadLen + got - First
  /\ up = "off" =>
       Len(toServer) <= HeadLen \/ (First <= got /\ Len(toServer) <= HeadLen + got - First)

AsDue == Exact => \A i \in 1 .. Len(toServer) : toServer[i] = DueAt(i)

\* What the client has received.
InOrder == \A i \in 1 .. Len(toClient) : toClient[i] = i

\* The loop that ends first, of a client that stays, leaves nothing of the server's,
\* or something of the client's behind.
LastWords ==
  (/\ clean /\ client = "open" /\ down # "off"
   /\ up \in {"end", "wait"} \/ down \in {"end", "done"})
  => got < sent \/ (Len(toClient) = answered /\ server # "open")

\* The download does not end before the server does, or the client.
Endings ==
  down \in {"end", "done"} /\ client = "open" => server # "open"

IInv ==
  /\ TypeOK /\ ServerHeld /\ LoopsOfRelay /\ CacheEnd /\ CursorBefore /\ CursorAfter
  /\ Clean /\ Progress /\ AsDue /\ InOrder /\ LastWords /\ Endings

-----------------------------------------------------------------------------
\* The bounds and the fields of the setup.
LEMMA SetupFacts ==
  ASSUME setup \in Setups
  PROVE  /\ ClientLen \in Nat /\ AnswerLen \in Nat /\ MaxWritten \in Nat
         /\ setup.header \in BOOLEAN /\ setup.speaks \in BOOLEAN
         /\ setup.secret \in BOOLEAN /\ setup.proxy \in BOOLEAN
         /\ setup.sniff \in {"no", "minecraft", "all"}
         /\ setup.outbound \in {"plain", "minecraft"}
         /\ HeaderLen \in 0 .. 1 /\ StreamLen = HeaderLen + ClientLen
         /\ StreamLen \in Nat /\ HeaderLen <= StreamLen
BY RelayAssumption DEF Setup, HeaderLen, StreamLen

\* Setup is never changed, nor what it says of the lengths.
LEMMA LengthsKept ==
  ASSUME setup' = setup
  PROVE  /\ HeaderLen' = HeaderLen /\ StreamLen' = StreamLen /\ (Injects <=> Injects')
         /\ SecretLen' = SecretLen /\ ProxyLen' = ProxyLen /\ HeadLen' = HeadLen
         /\ First' = First
BY DEF HeaderLen, StreamLen, Injects, SecretLen, ProxyLen, HeadLen, First

LEMMA SetupKept ==
  ASSUME Next
  PROVE  setup' = setup
BY DEF Next, Handler, Downloader, ReadHeader, Route, SniffHandshake, SniffLogin, SniffReturns,
       EnterOutbound, Dial, WriteSecret, WriteProxyHeader, Inject, StartRelay, LookForCache,
       UseCache, DrainCache, CopyUp, CloseRemote, Return, CopyDown, CloseLocal, ClientSends,
       ClientCloses, ServerAnswers, ServerCloses, inVars

\* What the server may receive.
Item == 1 .. StreamLen \cup {Secret, ProxyHeader, NewHandshake}

\* What is in the cache are units of the client.
LEMMA CacheIsOfClient ==
  ASSUME TypeOK
  PROVE  /\ InCache \in Seq(Item) /\ Len(InCache) = cache.end - cache.start
         /\ \A i \in 1 .. Len(InCache) : InCache[i] = cache.start + i
<1>1. /\ cache.start \in Nat /\ cache.end \in Nat /\ cache.start <= cache.end
      /\ cache.end <= StreamLen /\ StreamLen \in Nat
  BY SetupFacts DEF TypeOK
<1> DEFINE n == cache.end - cache.start
<1>2. n \in Nat
  BY <1>1
<1>3. \A i \in 1 .. n : cache.start + i \in Item
  BY <1>1 DEF Item
<1>4. InCache \in [1 .. n -> Item]
  BY <1>3 DEF InCache
<1> HIDE DEF n
<1>5. InCache \in Seq(Item) /\ Len(InCache) = n
  BY <1>2, <1>4, SeqDef
<1>6. \A i \in 1 .. n : InCache[i] = cache.start + i
  BY DEF InCache, n
<1> QED
  BY <1>5, <1>6 DEF n

LEMMA TypeCorrectInit == Init => TypeOK
<1> SUFFICES ASSUME Init PROVE TypeOK
  OBVIOUS
<1>1. <<>> \in Seq(1 .. StreamLen \cup {Secret, ProxyHeader, NewHandshake})
      /\ <<>> \in Seq(1 .. AnswerLen)
  BY EmptySeq
<1>2. /\ setup \in Setups /\ cached \in BOOLEAN /\ valid \in BOOLEAN
      /\ dropped \in BOOLEAN /\ clean \in BOOLEAN /\ crashed \in BOOLEAN
  BY SetupFacts DEF Init
<1>3. /\ sent = 0 /\ client = "open" /\ got = 0 /\ from = 0 /\ position = 0 /\ answered = 0
      /\ cache.start = 0 /\ cache.end = 0 /\ up = "off" /\ down = "off"
      /\ toServer = <<>> /\ toClient = <<>> /\ server = "none"
      /\ pc \in {"header", "route"}
  BY DEF Init
<1> QED
  BY <1>1, <1>2, <1>3, SetupFacts DEF TypeOK

LEMMA AppendsKept ==
  ASSUME NEW S, NEW s \in Seq(S), NEW e \in S
  PROVE  Append(s, e) \in Seq(S) /\ Len(Append(s, e)) = Len(s) + 1
BY AppendProperties

\* Reads of the cache and of the socket keep the cursor within the cache.
LEMMA PeekType ==
  ASSUME TypeOK, PeekUnit
  PROVE  /\ cached' = TRUE /\ got' = cache'.end /\ cache'.start = cache.start + 1
         /\ cache'.end \in cache.start + 1 .. sent /\ cache'.end >= cache.end
         /\ cache'.start \in 0 .. cache'.end
         /\ cache.start + 1 \in 0 .. StreamLen
BY SetupFacts DEF TypeOK, PeekUnit

LEMMA PeekBounds ==
  ASSUME TypeOK, PeekUnit \/ PeekFails
  PROVE  /\ cached' \in BOOLEAN /\ got' \in 0 .. sent
         /\ cache'.start \in 0 .. cache'.end /\ cache'.end \in 0 .. got'
<1>1. CASE PeekUnit
  <2>1. /\ cached' = TRUE /\ got' = cache'.end /\ cache'.end \in cache.start + 1 .. sent
        /\ cache'.start \in 0 .. cache'.end
    BY <1>1, PeekType
  <2>2. cache.start \in Nat /\ sent \in Nat
    BY SetupFacts DEF TypeOK
  <2> QED
    BY <2>1, <2>2
<1>2. CASE PeekFails
  BY <1>2 DEF TypeOK, PeekFails
<1> QED
  BY <1>1, <1>2

LEMMA GiveUpBounds ==
  ASSUME TypeOK, GiveUp
  PROVE  /\ cached' \in BOOLEAN /\ dropped' \in BOOLEAN /\ pc' = "done"
         /\ got' \in 0 .. sent /\ cache'.start \in 0 .. cache'.end /\ cache'.end \in 0 .. got'
         /\ UNCHANGED <<cache, got>>
BY DEF TypeOK, GiveUp, CloseClient

LEMMA RewindType ==
  ASSUME TypeOK, NEW to \in 0 .. cache.end, Rewound(to)
  PROVE  cache'.start = to /\ cache'.end = cache.end
BY DEF Rewound, TypeOK

\* What each step leaves alone, field by field.
LEMMA TypeKept ==
  ASSUME TypeOK, CursorBefore, CursorAfter, Next
  PROVE  TypeOK'
<1>0. setup' = setup /\ StreamLen' = StreamLen /\ HeaderLen' = HeaderLen
  BY SetupKept, LengthsKept
<1> USE SetupFacts, <1>0
<1>1. CASE ClientSends
  BY <1>1 DEF ClientSends, TypeOK, inVars
<1>2. CASE ClientCloses
  BY <1>2 DEF ClientCloses, TypeOK, inVars
<1>3. CASE ServerAnswers
  BY <1>3 DEF ServerAnswers, TypeOK, inVars
<1>4. CASE ServerCloses
  BY <1>4 DEF ServerCloses, TypeOK, inVars
<1>5. CASE ReadHeader
  <2>1. /\ cached' \in BOOLEAN /\ dropped' \in BOOLEAN /\ pc' \in {"route", "done"}
        /\ got' \in 0 .. sent /\ cache'.start \in 0 .. cache'.end /\ cache'.end \in 0 .. got'
    BY <1>5, PeekBounds, GiveUpBounds DEF ReadHeader, TypeOK
  <2> QED
    BY <1>5, <2>1 DEF ReadHeader, TypeOK, inVars, peers
<1>6. CASE Route
  BY <1>6 DEF Route, TypeOK, peers
<1>7. CASE SniffHandshake
  <2>1. /\ cached' \in BOOLEAN /\ got' \in 0 .. sent
        /\ cache'.start \in 0 .. cache'.end /\ cache'.end \in 0 .. got'
    BY <1>7, PeekBounds DEF SniffHandshake
  <2>2. pc' \in {"login", "sniffed"} /\ valid' \in BOOLEAN /\ position' \in 0 .. StreamLen
    BY <1>7, PeekType DEF SniffHandshake, TypeOK
  <2> QED
    BY <1>7, <2>1, <2>2 DEF SniffHandshake, TypeOK, peers
<1>8. CASE SniffLogin
  <2>1. /\ cached' \in BOOLEAN /\ got' \in 0 .. sent
        /\ cache'.start \in 0 .. cache'.end /\ cache'.end \in 0 .. got'
    BY <1>8, PeekBounds DEF SniffLogin
  <2> QED
    BY <1>8, <2>1 DEF SniffLogin, TypeOK, peers, inVars
<1>9. CASE SniffReturns
  <2>1. CASE UNCHANGED cache
    BY <1>9, <2>1 DEF SniffReturns, TypeOK, peers, inVars
  <2>2. CASE Rewound(from)
    <3>1. from \in 0 .. cache.end
      BY DEF TypeOK, CursorBefore
    <3> QED
      BY <1>9, <2>2, <3>1, RewindType DEF SniffReturns, TypeOK, peers, inVars
  <2> QED
    BY <1>9, <2>1, <2>2 DEF SniffReturns
<1>10. CASE EnterOutbound
  <2>1. CASE GiveUp
    <3>1. /\ cached' \in BOOLEAN /\ dropped' \in BOOLEAN /\ pc' = "done"
          /\ got' \in 0 .. sent /\ cache'.start \in 0 .. cache'.end /\ cache'.end \in 0 .. got'
      BY <2>1, GiveUpBounds
    <3> QED
      BY <1>10, <3>1 DEF EnterOutbound, TypeOK, inVars, peers
  <2>2. CASE valid /\ Rewound(position) /\ pc' = "dial" /\ UNCHANGED <<got, cached, dropped>>
    <3>1. position \in 0 .. cache.end
      BY <2>2 DEF TypeOK, CursorBefore
    <3> QED
      BY <1>10, <2>2, <3>1, RewindType DEF EnterOutbound, TypeOK, inVars, peers
  <2>3. CASE UNCHANGED <<cache, got, cached, dropped>> /\ pc' = "dial"
    BY <1>10, <2>3 DEF EnterOutbound, TypeOK, inVars, peers
  <2> QED
    BY <1>10, <2>1, <2>2, <2>3 DEF EnterOutbound

<1>11. ASSUME Fails, \/ Dial \/ WriteSecret \/ WriteProxyHeader \/ Inject
       PROVE  TypeOK'
  <2>1. /\ UNCHANGED <<sent, client, answered, up, down, toClient, clean, inVars>>
        /\ UNCHANGED <<toServer, cache, got>>
        /\ pc' \in {pc, "done"} /\ server' \in {"none", "dropped"}
        /\ cached' \in {cached, FALSE} /\ dropped' \in {dropped, TRUE}
        /\ crashed' \in {crashed, TRUE}
    BY <1>11 DEF Fails, GiveUp, CloseClient, Dial, WriteSecret, WriteProxyHeader, Inject
  <2>2. cached' \in BOOLEAN /\ dropped' \in BOOLEAN /\ crashed' \in BOOLEAN
    BY <2>1 DEF TypeOK
  <2> QED
    BY <2>1, <2>2 DEF TypeOK, inVars
<1>12. ASSUME NEW item \in {Secret, ProxyHeader},
              NEW label \in {"proxy", "inject", "start"},
              Writes(item, label) \/ Skips(label),
              UNCHANGED <<inVars, sent, client, answered, up, down, toClient, clean>>
       PROVE  TypeOK'
  <2>1. toServer' \in Seq(1 .. StreamLen \cup {Secret, ProxyHeader, NewHandshake})
    <3>1. item \in 1 .. StreamLen \cup {Secret, ProxyHeader, NewHandshake}
      OBVIOUS
    <3>2. Append(toServer, item) \in Seq(1 .. StreamLen \cup {Secret, ProxyHeader, NewHandshake})
      BY <3>1, AppendProperties DEF TypeOK
    <3> QED
      BY <1>12, <3>2 DEF TypeOK, Writes, Skips
  <2>2. /\ pc' = label
        /\ UNCHANGED <<setup, from, position, valid, sent, client, answered, up, down>>
        /\ UNCHANGED <<toClient, clean, server, dropped, cached, cache, got, crashed>>
    BY <1>12 DEF Writes, Skips, inVars
  <2> QED
    BY <2>1, <2>2 DEF TypeOK
<1>13. CASE Dial
  BY <1>11, <1>13 DEF Dial, TypeOK, inVars
<1>14. CASE WriteSecret
  BY <1>11, <1>12, <1>14 DEF WriteSecret
<1>15. CASE WriteProxyHeader
  BY <1>11, <1>12, <1>15 DEF WriteProxyHeader, AfterPreamble
<1>16. CASE Inject
  <2>1. CASE Rewound(cache.end) /\ toServer' = toServer \o <<NewHandshake>> \o InCache
             /\ pc' = "start" /\ UNCHANGED <<server, dropped, cached, got, crashed>>
    <3>1. <<NewHandshake>> \in Seq(Item) /\ InCache \in Seq(Item) /\ toServer \in Seq(Item)
      BY CacheIsOfClient DEF TypeOK, Item
    <3>2. toServer \o <<NewHandshake>> \in Seq(Item)
      BY <3>1, ConcatProperties
    <3>3. toServer' \in Seq(Item)
      BY <2>1, <3>1, <3>2, ConcatProperties
    <3>4. cache'.start = cache.end /\ cache'.end = cache.end
      BY <2>1, RewindType DEF TypeOK
    <3> QED
      BY <1>16, <2>1, <3>3, <3>4 DEF Inject, TypeOK, inVars, Item
  <2> QED
    BY <1>11, <1>16, <2>1 DEF Inject
<1>17. CASE StartRelay
  <2>1. clean' \in BOOLEAN
    BY <1>17 DEF StartRelay
  <2> QED
    BY <1>17, <2>1 DEF StartRelay, TypeOK, inVars, peers
<1>18. CASE LookForCache
  BY <1>18 DEF LookForCache, TypeOK, inVars, peers
<1>19. CASE UseCache
  <2>1. up' \in {up, "copy", "drain"} /\ crashed' \in BOOLEAN
    BY <1>19 DEF UseCache, TypeOK
  <2> QED
    BY <1>19, <2>1 DEF UseCache, TypeOK, inVars, peers
<1>20. CASE DrainCache
  <2>1. toServer' \in Seq(Item)
    <3>1. toServer \in Seq(Item) /\ InCache \in Seq(Item)
      BY CacheIsOfClient DEF TypeOK, Item
    <3>2. toServer \o InCache \in Seq(Item)
      BY <3>1, ConcatProperties
    <3> QED
      BY <1>20, <3>1, <3>2 DEF DrainCache
  <2>2. up' \in {up, "look", "end", "copy"} /\ crashed' \in BOOLEAN
    BY <1>20 DEF DrainCache, TypeOK
  <2> QED
    BY <1>20, <2>1, <2>2 DEF DrainCache, TypeOK, inVars, peers, Item
<1>21. CASE CopyUp
  <2>1. CASE got < sent /\ got' = got + 1 /\ toServer' = Append(toServer, got + 1)
             /\ UNCHANGED up
    <3>1. toServer \in Seq(Item) /\ got + 1 \in Item
      BY <2>1 DEF TypeOK, Item
    <3>2. toServer' \in Seq(Item)
      BY <2>1, <3>1, AppendProperties
    <3> QED
      BY <1>21, <2>1, <3>2 DEF CopyUp, TypeOK, inVars, peers, Item
  <2>2. CASE up' = "end" /\ UNCHANGED <<got, toServer>>
    BY <1>21, <2>2 DEF CopyUp, TypeOK, inVars, peers
  <2> QED
    BY <1>21, <2>1, <2>2 DEF CopyUp
<1>22. CASE CloseRemote
  BY <1>22 DEF CloseRemote, TypeOK, inVars
<1>23. CASE CopyDown
  <2>1. toClient' \in Seq(1 .. AnswerLen)
    <3>1. CASE Len(toClient) < answered /\ toClient' = Append(toClient, Len(toClient) + 1)
      <4>1. toClient \in Seq(1 .. AnswerLen) /\ Len(toClient) + 1 \in 1 .. AnswerLen
        BY <3>1, LenProperties DEF TypeOK
      <4> QED
        BY <3>1, <4>1, AppendProperties
    <3> QED
      BY <1>23, <3>1 DEF CopyDown, TypeOK
  <2> QED
    BY <1>23, <2>1 DEF CopyDown, TypeOK, inVars, peers
<1>24. CASE CloseLocal
  <2>1. cached' \in BOOLEAN /\ dropped' \in BOOLEAN
    BY <1>24 DEF CloseLocal, CloseClient
  <2> QED
    BY <1>24, <2>1 DEF CloseLocal, TypeOK, inVars, peers
<1>25. CASE Return
  BY <1>25 DEF Return, CloseClient, TypeOK, inVars, peers
<1> QED
  BY <1>1, <1>2, <1>3, <1>4, <1>5, <1>6, <1>7, <1>8, <1>9, <1>10, <1>13, <1>14, <1>15, <1>16,
     <1>17, <1>18, <1>19, <1>20, <1>21, <1>22, <1>23, <1>24, <1>25
  DEF Next, Handler, Downloader

-----------------------------------------------------------------------------
\* What Fails leaves behind: a handler that has returned, or a crash.
LEMMA FailsFacts ==
  ASSUME Fails
  PROVE  /\ UNCHANGED <<toServer, cache, got>>
         /\ server' = IF server = "none" THEN "none" ELSE "dropped"
         /\ \/ pc' = "done" /\ dropped' = TRUE /\ crashed' = crashed
            \/ pc' = pc /\ dropped' = dropped /\ crashed' = TRUE /\ cached' = cached
BY DEF Fails, GiveUp, CloseClient

LEMMA ServerHeldKept ==
  ASSUME TypeOK, ServerHeld, LoopsOfRelay, Next
  PROVE  ServerHeld'
<1> USE DEF ServerHeld, LoopsOfRelay, TypeOK, Before, Preamble
<1>1. CASE ClientSends \/ ClientCloses \/ ServerAnswers \/ ServerCloses
  BY <1>1 DEF ClientSends, ClientCloses, ServerAnswers, ServerCloses
<1>2. CASE ReadHeader \/ EnterOutbound
  BY <1>2 DEF ReadHeader, EnterOutbound, GiveUp, CloseClient, peers
<1>3. CASE Route \/ SniffHandshake \/ SniffLogin \/ SniffReturns
  BY <1>3 DEF Route, SniffHandshake, SniffLogin, SniffReturns, peers
<1>4. CASE ~crashed /\ (Dial \/ WriteSecret \/ WriteProxyHeader \/ Inject)
  <2>1. CASE Fails
    BY <1>4, <2>1, FailsFacts DEF Dial, WriteSecret, WriteProxyHeader, Inject
  <2>2. CASE server' = "open" /\ pc' = "secret"
    BY <2>2
  <2>3. ASSUME NEW item, NEW label \in Preamble, pc \in Preamble,
               Writes(item, label) \/ Skips(label)
        PROVE  ServerHeld'
    BY <1>4, <2>3 DEF Writes, Skips
  <2>4. CASE pc = "inject" /\ pc' = "start" /\ UNCHANGED <<server, crashed>>
    BY <1>4, <2>4
  <2> QED
    BY <1>4, <2>1, <2>2, <2>3, <2>4
    DEF Dial, WriteSecret, WriteProxyHeader, Inject, AfterPreamble
<1>5. CASE ~crashed /\ StartRelay
  BY <1>5 DEF StartRelay, peers
<1>6. CASE LookForCache \/ UseCache \/ DrainCache \/ CopyUp
  BY <1>6 DEF LookForCache, UseCache, DrainCache, CopyUp, peers
<1>7. CASE CloseRemote
  BY <1>7 DEF CloseRemote
<1>8. CASE CopyDown \/ CloseLocal \/ Return
  BY <1>8 DEF CopyDown, CloseLocal, Return, peers
<1> QED
  BY <1>1, <1>2, <1>3, <1>4, <1>5, <1>6, <1>7, <1>8 DEF Next, Handler, Downloader

LEMMA LoopsOfRelayKept ==
  ASSUME TypeOK, LoopsOfRelay, Next
  PROVE  LoopsOfRelay'
<1> USE DEF LoopsOfRelay
<1>1. CASE ClientSends \/ ClientCloses \/ ServerAnswers \/ ServerCloses
  BY <1>1 DEF ClientSends, ClientCloses, ServerAnswers, ServerCloses
<1>2. CASE ReadHeader \/ EnterOutbound
  BY <1>2 DEF ReadHeader, EnterOutbound, GiveUp, CloseClient
<1>3. CASE Route \/ SniffHandshake \/ SniffLogin \/ SniffReturns
  BY <1>3 DEF Route, SniffHandshake, SniffLogin, SniffReturns
<1>4. CASE Dial \/ WriteSecret \/ WriteProxyHeader \/ Inject
  <2>1. /\ pc \notin {"relay", "done"} /\ UNCHANGED <<up, down>>
        /\ \/ pc' \notin {"relay", "done"} /\ dropped' = dropped
           \/ pc' = "done" /\ dropped' = TRUE
    <3>1. CASE Fails
      BY <1>4, <3>1, FailsFacts DEF Dial, WriteSecret, WriteProxyHeader, Inject
    <3> QED
      BY <1>4, <3>1
      DEF Dial, WriteSecret, WriteProxyHeader, Inject, Writes, Skips, AfterPreamble
  <2> QED
    BY <2>1
<1>5. CASE StartRelay
  BY <1>5 DEF StartRelay
<1>6. CASE LookForCache \/ UseCache \/ DrainCache \/ CopyUp
  BY <1>6 DEF LookForCache, UseCache, DrainCache, CopyUp
<1>7. CASE CloseRemote
  BY <1>7 DEF CloseRemote
<1>8. CASE CopyDown \/ CloseLocal \/ Return
  BY <1>8 DEF CopyDown, CloseLocal, Return, CloseClient
<1> QED
  BY <1>1, <1>2, <1>3, <1>4, <1>5, <1>6, <1>7, <1>8 DEF Next, Handler, Downloader

LEMMA CacheEndKept ==
  ASSUME TypeOK, LoopsOfRelay, CacheEnd, CursorBefore, Next
  PROVE  CacheEnd'
<1> USE DEF CacheEnd
<1>1. CASE ClientSends \/ ClientCloses \/ ServerAnswers \/ ServerCloses \/ Route
  BY <1>1 DEF ClientSends, ClientCloses, ServerAnswers, ServerCloses, Route
<1>2. CASE ReadHeader \/ SniffHandshake \/ SniffLogin
  <2>1. CASE PeekUnit
    BY <1>2, <2>1, PeekType DEF ReadHeader, SniffHandshake, SniffLogin
  <2>2. CASE PeekFails
    BY <1>2, <2>2 DEF PeekFails, ReadHeader, SniffHandshake, SniffLogin
  <2>3. CASE GiveUp
    BY <2>3 DEF GiveUp
  <2> QED
    BY <1>2, <2>1, <2>2, <2>3 DEF ReadHeader, SniffHandshake, SniffLogin
<1>3. CASE SniffReturns
  <2>1. cache'.end = cache.end
    <3>1. from \in 0 .. cache.end
      BY DEF CursorBefore, TypeOK
    <3> QED
      BY <1>3, <3>1, RewindType DEF SniffReturns
  <2> QED
    BY <1>3, <2>1 DEF SniffReturns
<1>4. CASE EnterOutbound
  <2>1. CASE GiveUp
    BY <2>1 DEF GiveUp
  <2>2. CASE ~GiveUp
    <3>1. cache'.end = cache.end
      <4>1. valid => position \in 0 .. cache.end
        BY DEF CursorBefore, TypeOK
      <4> QED
        BY <1>4, <2>2, <4>1, RewindType DEF EnterOutbound
    <3> QED
      BY <1>4, <2>2, <3>1 DEF EnterOutbound
  <2> QED
    BY <2>1, <2>2
<1>5. CASE Dial \/ WriteSecret \/ WriteProxyHeader \/ Inject
  <2>1. CASE Fails
    BY <1>5, <2>1, FailsFacts DEF Dial, WriteSecret, WriteProxyHeader, Inject
  <2>2. CASE ~Fails
    <3>1. cache'.end = cache.end
      <4>1. cache.end \in 0 .. cache.end
        BY SetupFacts DEF TypeOK
      <4> QED
        BY <1>5, <2>2, <4>1, RewindType
        DEF Dial, WriteSecret, WriteProxyHeader, Inject, Writes, Skips
    <3> QED
      BY <1>5, <2>2, <3>1 DEF Dial, WriteSecret, WriteProxyHeader, Inject, Writes, Skips
  <2> QED
    BY <2>1, <2>2
<1>6. CASE StartRelay \/ Return
  BY <1>6 DEF StartRelay, Return
<1>7. CASE LookForCache \/ UseCache \/ DrainCache \/ CopyUp \/ CloseRemote
  <2>1. pc = "relay" \/ pc = "done"
    BY <1>7 DEF LookForCache, UseCache, DrainCache, CopyUp, CloseRemote, LoopsOfRelay
  <2> QED
    BY <1>7, <2>1 DEF LookForCache, UseCache, DrainCache, CopyUp, CloseRemote
<1>8. CASE CopyDown \/ CloseLocal
  <2>1. pc = "relay" \/ pc = "done"
    BY <1>8 DEF CopyDown, CloseLocal, LoopsOfRelay
  <2> QED
    BY <1>8, <2>1 DEF CopyDown, CloseLocal
<1> QED
  BY <1>1, <1>2, <1>3, <1>4, <1>5, <1>6, <1>7, <1>8 DEF Next, Handler, Downloader

LEMMA CursorBeforeKept ==
  ASSUME TypeOK, LoopsOfRelay, CacheEnd, CursorBefore, Next
  PROVE  CursorBefore'
<1>0. HeaderLen' = HeaderLen /\ HeaderLen \in 0 .. 1 /\ setup' = setup
  BY SetupKept, LengthsKept, SetupFacts DEF TypeOK
<1>a. /\ cache.start \in Nat /\ cache.end \in Nat /\ cache.start <= cache.end
      /\ from \in Nat /\ position \in Nat
  BY SetupFacts DEF TypeOK
<1> USE <1>0 DEF CursorBefore
<1>1. CASE ClientSends \/ ClientCloses \/ ServerAnswers \/ ServerCloses
  BY <1>1 DEF ClientSends, ClientCloses, ServerAnswers, ServerCloses, inVars
<1>2. CASE ReadHeader
  <2>1. CASE PeekUnit /\ pc' = "route"
    <3>1. HeaderLen = 1
      BY <1>2 DEF ReadHeader, HeaderLen
    <3> QED
      BY <1>2, <1>a, <2>1, <3>1, PeekType DEF ReadHeader, inVars
  <2>2. CASE GiveUp
    BY <1>2, <2>2 DEF ReadHeader, GiveUp, inVars
  <2> QED
    BY <1>2, <2>1, <2>2 DEF ReadHeader
<1>3. CASE Route
  BY <1>3, <1>a DEF Route
<1>4. CASE SniffHandshake
  <2>1. CASE /\ PeekUnit /\ valid' = setup.speaks
             /\ position' = (IF setup.speaks THEN cache.start + 1 ELSE position)
             /\ pc' = (IF setup.speaks THEN "login" ELSE "sniffed")
    BY <1>4, <1>a, <2>1, PeekType DEF SniffHandshake
  <2>2. CASE PeekFails /\ pc' = "sniffed" /\ UNCHANGED <<position, valid>>
    BY <1>4, <2>2 DEF SniffHandshake, PeekFails
  <2> QED
    BY <1>4, <2>1, <2>2 DEF SniffHandshake
<1>5. CASE SniffLogin
  <2>1. CASE PeekUnit
    BY <1>5, <1>a, <2>1, PeekType DEF SniffLogin, inVars
  <2>2. CASE PeekFails
    BY <1>5, <2>2 DEF SniffLogin, PeekFails, inVars
  <2> QED
    BY <1>5, <2>1, <2>2 DEF SniffLogin
<1>6. CASE SniffReturns
  <2>1. from \in 0 .. cache.end
    BY <1>a
  <2> QED
    BY <1>6, <2>1, RewindType DEF SniffReturns, inVars
<1>7. CASE EnterOutbound
  <2>1. CASE GiveUp
    BY <1>7, <2>1 DEF EnterOutbound, GiveUp, inVars
  <2>2. CASE ~GiveUp
    <3>1. valid => position \in 0 .. cache.end
      BY <1>a
    <3>2. cache'.end = cache.end
      BY <1>7, <2>2, <3>1, RewindType DEF EnterOutbound
    <3> QED
      BY <1>7, <2>2, <3>2 DEF EnterOutbound, inVars
  <2> QED
    BY <2>1, <2>2
<1>8. CASE Dial \/ WriteSecret \/ WriteProxyHeader \/ Inject
  <2>1. CASE Fails
    <3>1. pc' \in {"dial", "secret", "proxy", "inject", "done"} /\ UNCHANGED cache
      BY <1>8, <2>1, FailsFacts DEF Dial, WriteSecret, WriteProxyHeader, Inject
    <3> QED
      BY <1>8, <3>1 DEF Dial, WriteSecret, WriteProxyHeader, Inject, inVars
  <2>2. CASE ~Fails
    <3>1. cache.end \in 0 .. cache.end
      BY <1>a
    <3>2. cache'.end = cache.end
      BY <1>8, <2>2, <3>1, RewindType
      DEF Dial, WriteSecret, WriteProxyHeader, Inject, Writes, Skips
    <3>3. pc' \in {"secret", "proxy", "inject", "start"}
      BY <1>8, <2>2
      DEF Dial, WriteSecret, WriteProxyHeader, Inject, Writes, Skips, AfterPreamble
    <3> QED
      BY <1>8, <3>2, <3>3 DEF Dial, WriteSecret, WriteProxyHeader, Inject, inVars
  <2> QED
    BY <2>1, <2>2
<1>9. CASE StartRelay \/ Return
  BY <1>9 DEF StartRelay, Return, inVars
<1>10. CASE LookForCache \/ UseCache \/ DrainCache \/ CopyUp \/ CloseRemote
  BY <1>10 DEF LookForCache, UseCache, DrainCache, CopyUp, CloseRemote, inVars
<1>11. CASE CopyDown \/ CloseLocal
  BY <1>11 DEF CopyDown, CloseLocal, inVars
<1> QED
  BY <1>1, <1>2, <1>3, <1>4, <1>5, <1>6, <1>7, <1>8, <1>9, <1>10, <1>11
  DEF Next, Handler, Downloader

LEMMA CursorAfterKept ==
  ASSUME TypeOK, LoopsOfRelay, CursorBefore, CursorAfter, Next
  PROVE  CursorAfter'
<1>0. /\ HeaderLen' = HeaderLen /\ HeaderLen \in 0 .. 1 /\ setup' = setup
      /\ (Injects <=> Injects')
  BY SetupKept, LengthsKept, SetupFacts DEF TypeOK
<1>a. /\ cache.start \in Nat /\ cache.end \in Nat /\ cache.start <= cache.end
      /\ position \in Nat
  BY SetupFacts DEF TypeOK
<1> USE <1>0 DEF CursorAfter
<1>1. CASE ClientSends \/ ClientCloses \/ ServerAnswers \/ ServerCloses
  BY <1>1 DEF ClientSends, ClientCloses, ServerAnswers, ServerCloses
<1>2. CASE ReadHeader \/ Route \/ SniffHandshake \/ SniffLogin \/ SniffReturns
  <2>1. pc' \in {"route", "done", "handshake", "login", "sniffed", "outbound"}
    BY <1>2 DEF ReadHeader, GiveUp, Route, SniffHandshake, SniffLogin, SniffReturns
  <2> QED
    BY <2>1
<1>3. CASE EnterOutbound
  <2>1. CASE GiveUp
    BY <2>1 DEF GiveUp
  <2>2. CASE ~GiveUp /\ Injects
    <3>1. valid /\ Rewound(position) /\ position \in 0 .. cache.end /\ pc' = "dial"
      BY <1>3, <1>a, <2>2 DEF EnterOutbound, CursorBefore
    <3> QED
      BY <2>2, <3>1, RewindType DEF CursorBefore
  <2>3. CASE ~GiveUp /\ ~Injects
    BY <1>3, <2>3 DEF EnterOutbound, CursorBefore
  <2> QED
    BY <2>1, <2>2, <2>3
<1>4. CASE Dial \/ WriteSecret \/ WriteProxyHeader
  <2>1. CASE Fails
    BY <1>4, <2>1, FailsFacts DEF Dial, WriteSecret, WriteProxyHeader
  <2>2. CASE ~Fails
    BY <1>4, <2>2
    DEF Dial, WriteSecret, WriteProxyHeader, Writes, Skips, AfterPreamble
  <2> QED
    BY <2>1, <2>2
<1>5. CASE Inject
  <2>1. CASE Fails
    BY <1>5, <2>1, FailsFacts DEF Inject
  <2>2. CASE ~Fails
    <3>1. Rewound(cache.end) /\ cache.end \in 0 .. cache.end /\ pc' = "start"
      BY <1>5, <1>a, <2>2 DEF Inject
    <3> QED
      BY <1>5, <1>a, <3>1, RewindType DEF Inject
  <2> QED
    BY <2>1, <2>2
<1>6. CASE StartRelay \/ Return
  BY <1>6 DEF StartRelay, Return
<1>7. CASE LookForCache \/ UseCache \/ DrainCache \/ CopyUp \/ CloseRemote
  BY <1>7 DEF LookForCache, UseCache, DrainCache, CopyUp, CloseRemote
<1>8. CASE CopyDown \/ CloseLocal
  BY <1>8 DEF CopyDown, CloseLocal
<1> QED
  BY <1>1, <1>2, <1>3, <1>4, <1>5, <1>6, <1>7, <1>8 DEF Next, Handler, Downloader

LEMMA CleanKept ==
  ASSUME TypeOK, LoopsOfRelay, Clean, Next
  PROVE  Clean'
<1> USE DEF Clean
<1>1. CASE ClientSends \/ ClientCloses \/ ServerAnswers \/ ServerCloses
  BY <1>1 DEF ClientSends, ClientCloses, ServerAnswers, ServerCloses
<1>2. CASE ReadHeader \/ EnterOutbound
  BY <1>2 DEF ReadHeader, EnterOutbound, GiveUp
<1>3. CASE Route \/ SniffHandshake \/ SniffLogin \/ SniffReturns
  BY <1>3 DEF Route, SniffHandshake, SniffLogin, SniffReturns
<1>4. CASE Dial \/ WriteSecret \/ WriteProxyHeader \/ Inject
  <2>1. clean /\ clean' /\ pc' # "relay"
    BY <1>4, FailsFacts
    DEF Dial, WriteSecret, WriteProxyHeader, Inject, Writes, Skips, AfterPreamble
  <2> QED
    BY <2>1
<1>5. CASE StartRelay
  BY <1>5 DEF StartRelay
<1>6. CASE LookForCache
  BY <1>6 DEF LookForCache
<1>7. CASE UseCache
  BY <1>7 DEF UseCache, LoopsOfRelay
<1>8. CASE DrainCache
  BY <1>8 DEF DrainCache
<1>9. CASE CopyUp \/ CloseRemote \/ CopyDown
  BY <1>9 DEF CopyUp, CloseRemote, CopyDown
<1>10. CASE CloseLocal \/ Return
  BY <1>10 DEF CloseLocal, CloseClient, Return
<1> QED
  BY <1>1, <1>2, <1>3, <1>4, <1>5, <1>6, <1>7, <1>8, <1>9, <1>10 DEF Next, Handler, Downloader

LEMMA InOrderKept ==
  ASSUME TypeOK, InOrder, Next
  PROVE  InOrder'
<1>1. CASE UNCHANGED toClient
  BY <1>1 DEF InOrder
<1>2. CASE toClient' = Append(toClient, Len(toClient) + 1) /\ Len(toClient) < answered
  <2>1. toClient \in Seq(1 .. AnswerLen) /\ Len(toClient) \in Nat
        /\ Len(toClient) + 1 \in 1 .. AnswerLen
    BY <1>2, SetupFacts, LenProperties DEF TypeOK
  <2>2. /\ Len(toClient') = Len(toClient) + 1
        /\ \A i \in 1 .. Len(toClient) : toClient'[i] = toClient[i]
        /\ toClient'[Len(toClient) + 1] = Len(toClient) + 1
    BY <1>2, <2>1, AppendProperties
  <2> QED
    BY <2>1, <2>2 DEF InOrder
<1> QED
  BY <1>1, <1>2
  DEF Next, Handler, Downloader, ReadHeader, Route, SniffHandshake, SniffLogin, SniffReturns,
      EnterOutbound, Dial, WriteSecret, WriteProxyHeader, Inject, StartRelay, LookForCache,
      UseCache, DrainCache, CopyUp, CloseRemote, Return, CopyDown, CloseLocal, ClientSends,
      ClientCloses, ServerAnswers, ServerCloses

LEMMA EndingsKept ==
  ASSUME TypeOK, ServerHeld, LoopsOfRelay, Endings, Next
  PROVE  Endings'
<1> USE DEF Endings
<1>1. CASE ClientSends \/ ClientCloses \/ ServerAnswers \/ ServerCloses
  BY <1>1 DEF ClientSends, ClientCloses, ServerAnswers, ServerCloses
<1>2. CASE UNCHANGED <<down, client, server>>
  BY <1>2
<1>3. CASE (Dial \/ WriteSecret \/ WriteProxyHeader \/ Inject) /\ down' = down
  BY <1>3 DEF Dial, WriteSecret, WriteProxyHeader, Inject, LoopsOfRelay
<1>4. CASE StartRelay \/ CloseRemote
  BY <1>4 DEF StartRelay, CloseRemote
<1>5. CASE CopyDown \/ CloseLocal
  BY <1>5 DEF CopyDown, CloseLocal, peers
<1> QED
  BY <1>1, <1>2, <1>3, <1>4, <1>5
  DEF Next, Handler, Downloader, ReadHeader, Route, SniffHandshake, SniffLogin, SniffReturns,
      EnterOutbound, Dial, WriteSecret, WriteProxyHeader, Inject, LookForCache, UseCache,
      DrainCache, CopyUp, Return, peers

LEMMA LastWordsKept ==
  ASSUME TypeOK, ServerHeld, LoopsOfRelay, Clean, LastWords, Endings, Next
  PROVE  LastWords'
<1>a. got \in Nat /\ sent \in Nat /\ got <= sent
  BY SetupFacts DEF TypeOK
<1> USE <1>a DEF LastWords
<1>1. CASE ClientSends \/ ClientCloses \/ ServerAnswers \/ ServerCloses
  <2>1. CASE ClientSends
    <3>1. sent' = sent + 1 /\ got' = got
      BY <2>1 DEF ClientSends
    <3>2. got < sent => got' < sent'
      BY <3>1
    <3> QED
      BY <2>1, <3>2 DEF ClientSends
  <2>2. CASE ClientCloses \/ ServerAnswers
    BY <2>2 DEF ClientCloses, ServerAnswers
  <2>3. CASE ServerCloses
    BY <2>3 DEF ServerCloses
  <2> QED
    BY <1>1, <2>1, <2>2, <2>3
<1>2. CASE pc \notin {"relay", "done", "start"} /\ down' = down
  BY <1>2 DEF LoopsOfRelay
<1>3. CASE StartRelay
  BY <1>3 DEF StartRelay
<1>4. CASE LookForCache \/ UseCache
  BY <1>4 DEF LookForCache, UseCache, peers
<1>5. CASE DrainCache
  <2>1. ~clean \/ pc # "relay"
    BY <1>5 DEF DrainCache, Clean
  <2> QED
    BY <1>5, <2>1 DEF DrainCache, LoopsOfRelay
<1>6. CASE CopyUp
  <2>1. pc = "relay"
    BY <1>6 DEF CopyUp, LoopsOfRelay
  <2>2. CASE server = "open" /\ UNCHANGED <<up, peers, down, toClient, clean>>
    BY <1>6, <2>1, <2>2 DEF CopyUp, Endings, LoopsOfRelay, peers
  <2>3. CASE UNCHANGED <<got, peers, down, toClient, clean>>
             /\ (dropped \/ (client = "closed" /\ got = sent) \/ (got < sent /\ server # "open"))
    BY <1>6, <2>1, <2>3 DEF CopyUp, LoopsOfRelay, peers
  <2> QED
    BY <1>6, <2>2, <2>3 DEF CopyUp
<1>7. CASE CloseRemote
  BY <1>7 DEF CloseRemote
<1>8. CASE CopyDown
  <2>1. CASE Len(toClient) < answered /\ server # "dropped" /\ down' = down
    BY <1>8, <2>1 DEF CopyDown, peers
  <2>2. CASE toClient' = toClient
             /\ \/ server = "dropped" \/ (server = "closed" /\ Len(toClient) = answered)
                \/ client = "closed"
    BY <1>8, <2>2 DEF CopyDown, ServerHeld, LoopsOfRelay, peers
  <2> QED
    BY <1>8, <2>1, <2>2 DEF CopyDown
<1>9. CASE CloseLocal \/ Return
  BY <1>9 DEF CloseLocal, Return, peers
<1> QED
  BY <1>1, <1>2, <1>3, <1>4, <1>5, <1>6, <1>7, <1>8, <1>9
  DEF Next, Handler, Downloader, ReadHeader, Route, SniffHandshake, SniffLogin, SniffReturns,
      EnterOutbound, Dial, WriteSecret, WriteProxyHeader, Inject

-----------------------------------------------------------------------------
\* The lengths as numbers.
LEMMA HeadFacts ==
  ASSUME TypeOK
  PROVE  /\ SecretLen \in 0 .. 1 /\ ProxyLen \in 0 .. 1 /\ HeadLen \in Nat
         /\ SecretLen + ProxyLen <= HeadLen
         /\ HeadLen = SecretLen + ProxyLen + (IF Injects THEN 1 ELSE 0)
         /\ First = HeaderLen + (IF Injects THEN 1 ELSE 0)
         /\ HeaderLen \in 0 .. 1 /\ First \in Nat /\ StreamLen \in Nat
         /\ got \in Nat /\ sent \in Nat /\ got <= sent /\ sent <= StreamLen
         /\ cache.start \in Nat /\ cache.end \in Nat
         /\ cache.start <= cache.end /\ cache.end <= got
         /\ Len(toServer) \in Nat
<1>1. Len(toServer) \in Nat
  BY LenProperties DEF TypeOK
<1>2. /\ HeaderLen \in 0 .. 1 /\ StreamLen \in Nat
      /\ got \in Nat /\ sent \in Nat /\ got <= sent /\ sent <= StreamLen
      /\ cache.start \in Nat /\ cache.end \in Nat
      /\ cache.start <= cache.end /\ cache.end <= got
  BY SetupFacts DEF TypeOK
<1>3. SecretLen \in 0 .. 1 /\ ProxyLen \in 0 .. 1
  BY DEF SecretLen, ProxyLen
<1>4. First = HeaderLen + (IF Injects THEN 1 ELSE 0) /\ First \in Nat
  BY <1>2 DEF First
<1> QED
  BY <1>1, <1>2, <1>3, <1>4 DEF HeadLen

\* What CopyUp and the preamble add.
LEMMA OneMore ==
  ASSUME TypeOK, NEW e \in Item, toServer' = Append(toServer, e)
  PROVE  /\ Len(toServer') = Len(toServer) + 1
         /\ \A i \in 1 .. Len(toServer) : toServer'[i] = toServer[i]
         /\ toServer'[Len(toServer) + 1] = e
<1>1. toServer \in Seq(Item)
  BY DEF TypeOK, Item
<1> QED
  BY <1>1, AppendProperties

\* What Inject adds.
LEMMA Injected ==
  ASSUME TypeOK, toServer' = toServer \o <<NewHandshake>> \o InCache
  PROVE  /\ Len(toServer') = Len(toServer) + 1 + (cache.end - cache.start)
         /\ \A i \in 1 .. Len(toServer) : toServer'[i] = toServer[i]
         /\ toServer'[Len(toServer) + 1] = NewHandshake
         /\ \A i \in 1 .. cache.end - cache.start :
              toServer'[Len(toServer) + 1 + i] = cache.start + i
<1> DEFINE more == Append(toServer, NewHandshake)
<1>1. toServer \in Seq(Item) /\ NewHandshake \in Item
  BY DEF TypeOK, Item
<1>2. /\ more \in Seq(Item) /\ Len(more) = Len(toServer) + 1
      /\ \A i \in 1 .. Len(toServer) : more[i] = toServer[i]
      /\ more[Len(toServer) + 1] = NewHandshake
  BY <1>1, AppendProperties
<1>3. toServer \o <<NewHandshake>> = more
  BY <1>1, AppendIsConcat
<1> HIDE DEF more
<1>4. toServer' = more \o InCache
  BY <1>3
<1>5. /\ InCache \in Seq(Item) /\ Len(InCache) = cache.end - cache.start
      /\ \A i \in 1 .. Len(InCache) : InCache[i] = cache.start + i
  BY CacheIsOfClient
<1>6. /\ Len(toServer') = Len(more) + Len(InCache)
      /\ \A i \in 1 .. Len(more) + Len(InCache) :
           toServer'[i] = IF i <= Len(more) THEN more[i] ELSE InCache[i - Len(more)]
  BY <1>2, <1>4, <1>5, ConcatProperties
<1>7. /\ Len(toServer) \in Nat /\ Len(InCache) \in Nat
  BY <1>1, <1>5, LenProperties
<1>8. ASSUME NEW i \in 1 .. Len(toServer)
      PROVE  toServer'[i] = toServer[i]
  <2>1. i \in 1 .. Len(more) + Len(InCache) /\ i <= Len(more)
    BY <1>2, <1>7
  <2> QED
    BY <1>2, <1>6, <2>1
<1>9. toServer'[Len(toServer) + 1] = NewHandshake
  <2>1. Len(toServer) + 1 \in 1 .. Len(more) + Len(InCache) /\ Len(toServer) + 1 <= Len(more)
    BY <1>2, <1>7
  <2> QED
    BY <1>2, <1>6, <2>1
<1>10. ASSUME NEW i \in 1 .. Len(InCache)
       PROVE  toServer'[Len(toServer) + 1 + i] = cache.start + i
  <2>1. /\ Len(toServer) + 1 + i \in 1 .. Len(more) + Len(InCache)
        /\ ~(Len(toServer) + 1 + i <= Len(more)) /\ Len(toServer) + 1 + i - Len(more) = i
    BY <1>2, <1>7
  <2> QED
    BY <1>5, <1>6, <2>1
<1> QED
  BY <1>2, <1>5, <1>6, <1>8, <1>9, <1>10

LEMMA DueKept ==
  ASSUME setup' = setup
  PROVE  /\ \A i \in Int : DueAt(i)' = DueAt(i)
         /\ clean' = clean => (Exact' <=> Exact)
BY LengthsKept DEF DueAt, Exact

\* After the preamble come the client's units.
LEMMA DueAtUnit ==
  ASSUME TypeOK, NEW i \in Int, HeadLen < i
  PROVE  DueAt(i) = First + (i - HeadLen)
<1>1. ~(i <= SecretLen) /\ ~(i <= SecretLen + ProxyLen) /\ ~(i <= HeadLen)
  <2>1. /\ SecretLen \in 0 .. 1 /\ ProxyLen \in 0 .. 1 /\ HeadLen \in Nat
        /\ SecretLen + ProxyLen <= HeadLen
    BY HeadFacts
  <2> QED
    BY <2>1
<1> QED
  BY <1>1, Zenon DEF DueAt

LEMMA ProgressKept ==
  ASSUME TypeOK, LoopsOfRelay, CacheEnd, CursorAfter, Clean, Progress, Next
  PROVE  Progress'
<1>0. /\ HeaderLen' = HeaderLen /\ (Injects <=> Injects') /\ setup' = setup
      /\ SecretLen' = SecretLen /\ ProxyLen' = ProxyLen /\ HeadLen' = HeadLen /\ First' = First
  BY SetupKept, LengthsKept
<1>e. clean' = clean => (Exact' <=> Exact)
  BY <1>0, DueKept
<1> USE <1>0, HeadFacts DEF Progress
<1>1. CASE ClientSends \/ ClientCloses \/ ServerAnswers \/ ServerCloses
  BY <1>e, <1>1 DEF ClientSends, ClientCloses, ServerAnswers, ServerCloses
<1>2. CASE ReadHeader \/ Route \/ SniffHandshake \/ SniffLogin \/ SniffReturns \/ EnterOutbound
  <2>1. Len(toServer) = 0 /\ toServer' = toServer /\ up' = up /\ up = "off"
    BY <1>2
    DEF ReadHeader, Route, SniffHandshake, SniffLogin, SniffReturns, EnterOutbound, Before,
        LoopsOfRelay
  <2>2. pc' \in Before \cup {"done"}
    BY <1>2
    DEF ReadHeader, Route, SniffHandshake, SniffLogin, SniffReturns, EnterOutbound, GiveUp,
        Before
  <2> QED
    BY <2>1, <2>2 DEF Before
<1>3. CASE Dial \/ WriteSecret \/ WriteProxyHeader \/ Inject
  <2>0. up = "off" /\ up' = "off"
    BY <1>3 DEF Dial, WriteSecret, WriteProxyHeader, Inject, LoopsOfRelay
  <2>1. CASE Fails
    <3>1. UNCHANGED <<toServer, got>> /\ pc' \in {pc, "done"}
      BY <2>1, FailsFacts
    <3> QED
      BY <2>0, <1>3, <3>1 DEF Before, Dial, WriteSecret, WriteProxyHeader, Inject
  <2>2. CASE Dial /\ ~Fails
    BY <2>0, <2>2 DEF Dial, Before
  <2>3. CASE WriteSecret /\ ~Fails
    <3>1. Len(toServer) = 0 /\ pc' = "proxy"
      BY <2>3 DEF WriteSecret, Writes, Skips
    <3>2. Len(toServer') = SecretLen
      <4>1. CASE setup.secret
        <5>1. toServer' = Append(toServer, Secret) /\ Secret \in Item
          BY <2>3, <4>1 DEF WriteSecret, Writes, Item
        <5> QED
          BY <3>1, <4>1, <5>1, OneMore DEF SecretLen
      <4>2. CASE ~setup.secret
        BY <2>3, <3>1, <4>2 DEF WriteSecret, Skips, SecretLen
      <4> QED
        BY <4>1, <4>2
    <3> QED
      BY <2>0, <3>1, <3>2 DEF Before
  <2>4. CASE WriteProxyHeader /\ ~Fails
    <3>1. Len(toServer) = SecretLen /\ pc' = IF Injects THEN "inject" ELSE "start"
      BY <2>4 DEF WriteProxyHeader, Writes, Skips, AfterPreamble
    <3>2. Len(toServer') = SecretLen + ProxyLen
      <4>1. CASE setup.proxy
        <5>1. toServer' = Append(toServer, ProxyHeader) /\ ProxyHeader \in Item
          BY <2>4, <4>1 DEF WriteProxyHeader, Writes, Item
        <5> QED
          BY <3>1, <4>1, <5>1, OneMore DEF ProxyLen
      <4>2. CASE ~setup.proxy
        BY <2>4, <3>1, <4>2 DEF WriteProxyHeader, Skips, ProxyLen
      <4> QED
        BY <4>1, <4>2
    <3> QED
      BY <2>0, <3>1, <3>2 DEF Before
  <2>5. CASE Inject /\ ~Fails
    <3>1. /\ Len(toServer) = SecretLen + ProxyLen /\ pc' = "start" /\ Injects
          /\ cache.start = First /\ cache.end = got /\ got' = got
          /\ toServer' = toServer \o <<NewHandshake>> \o InCache
      BY <2>5 DEF Inject, CacheEnd, CursorAfter
    <3>2. Len(toServer') = HeadLen + got - First
      BY <3>1, Injected
    <3> QED
      BY <2>0, <3>1, <3>2 DEF Before
  <2> QED
    BY <1>3, <2>1, <2>2, <2>3, <2>4, <2>5
<1>4. CASE StartRelay
  <2>1. /\ UNCHANGED <<toServer, got>> /\ pc' = "relay" /\ up' = "look"
        /\ cache.end = got /\ (~cached => cache.end = 0)
        /\ clean' => ~cached \/ cache.start = cache.end
    BY <1>4 DEF StartRelay, CacheEnd
  <2>2. CASE Injects
    <3>1. First <= got /\ Len(toServer) = HeadLen + got - First
      BY <1>4, <2>1, <2>2 DEF StartRelay, CursorAfter
    <3> QED
      BY <2>1, <3>1 DEF Before
  <2>3. CASE ~Injects /\ Exact'
    <3>1. cache.start = First /\ Len(toServer) = HeadLen /\ clean'
      BY <1>4, <2>3 DEF StartRelay, CursorAfter, Exact
    <3>2. got = First
      BY <2>1, <3>1
    <3> QED
      BY <2>1, <3>1, <3>2 DEF Before
  <2>4. CASE ~Exact'
    BY <2>1, <2>4 DEF Before
  <2> QED
    BY <2>2, <2>3, <2>4
<1>5. CASE CopyUp /\ got' = got + 1 /\ toServer' = Append(toServer, got + 1) /\ got < sent
  <2>1. got + 1 \in Item /\ up = "copy" /\ up' # "off" /\ pc' = "relay" /\ clean' = clean
    BY <1>5 DEF CopyUp, Item, LoopsOfRelay
  <2>2. Len(toServer') = Len(toServer) + 1
    BY <1>5, <2>1, OneMore
  <2> QED
    BY <1>5, <1>e, <2>1, <2>2 DEF Before
<1>6. CASE DrainCache
  <2>1. up = "drain" /\ up' # "off" /\ pc' = "relay" /\ ~clean /\ clean' = clean
    BY <1>6 DEF DrainCache, LoopsOfRelay, Clean
  <2>2. ~Exact'
    BY <2>1 DEF Exact
  <2> QED
    BY <2>1, <2>2 DEF Before
<1>7. CASE UNCHANGED <<toServer, got, clean>> /\ pc' \in {"relay", "done"} /\ up # "off" /\ up' # "off"
  BY <1>e, <1>7 DEF Before
<1>8. CASE CopyUp \/ CloseRemote \/ CopyDown \/ CloseLocal \/ Return \/ LookForCache \/ UseCache
  BY <1>5, <1>7, <1>8
  DEF CopyUp, CloseRemote, CopyDown, CloseLocal, Return, LookForCache, UseCache, LoopsOfRelay
<1> QED
  BY <1>1, <1>2, <1>3, <1>4, <1>6, <1>8 DEF Next, Handler, Downloader

\* One element more, the one that is due.
LEMMA AppendIsDue ==
  ASSUME TypeOK, AsDue, setup' = setup, NEW e \in Item, toServer' = Append(toServer, e),
         Exact' => Exact /\ DueAt(Len(toServer) + 1) = e
  PROVE  AsDue'
<1>1. SUFFICES ASSUME Exact', NEW i \in 1 .. Len(toServer')
               PROVE  toServer'[i] = DueAt(i)'
  BY DEF AsDue
<1>2. i \in Int /\ Len(toServer) \in Nat /\ Len(toServer') = Len(toServer) + 1
  BY OneMore, HeadFacts
<1>3. DueAt(i)' = DueAt(i)
  BY <1>2, DueKept
<1>4. CASE i \in 1 .. Len(toServer)
  BY <1>1, <1>3, <1>4, OneMore DEF AsDue
<1>5. CASE i = Len(toServer) + 1
  BY <1>1, <1>3, <1>5, OneMore
<1> QED
  BY <1>2, <1>4, <1>5

LEMMA AsDueKept ==
  ASSUME TypeOK, LoopsOfRelay, CacheEnd, CursorAfter, Clean, Progress, AsDue, Next
  PROVE  AsDue'
<1>0. setup' = setup
  BY SetupKept
<1>1. CASE UNCHANGED <<toServer, clean>>
  BY <1>0, <1>1, DueKept, HeadFacts DEF AsDue
<1>2. CASE StartRelay
  <2>1. Exact' => Exact
    BY <1>0, <1>2, LengthsKept DEF StartRelay, Clean, Exact
  <2> QED
    BY <1>0, <1>2, <2>1, DueKept, HeadFacts DEF StartRelay, AsDue
<1>3. CASE WriteSecret
  <2>1. CASE toServer' = Append(toServer, Secret) /\ setup.secret /\ clean' = clean
    <3>1. Len(toServer) = 0 /\ Secret \in Item
      BY <1>3 DEF WriteSecret, Progress, Item
    <3>2. DueAt(Len(toServer) + 1) = Secret
      BY <2>1, <3>1 DEF DueAt, SecretLen
    <3> QED
      BY <1>0, <2>1, <3>1, <3>2, AppendIsDue, DueKept
  <2> QED
    BY <1>1, <1>3, <2>1, FailsFacts DEF WriteSecret, Writes, Skips
<1>4. CASE WriteProxyHeader
  <2>1. CASE toServer' = Append(toServer, ProxyHeader) /\ setup.proxy /\ clean' = clean
    <3>1. Len(toServer) = SecretLen /\ ProxyHeader \in Item
      BY <1>4 DEF WriteProxyHeader, Progress, Item
    <3>2. DueAt(Len(toServer) + 1) = ProxyHeader
      BY <2>1, <3>1, HeadFacts DEF DueAt, ProxyLen
    <3> QED
      BY <1>0, <2>1, <3>1, <3>2, AppendIsDue, DueKept
  <2> QED
    BY <1>1, <1>4, <2>1, FailsFacts DEF WriteProxyHeader, Writes, Skips
<1>5. CASE Inject
  <2>1. CASE toServer' = toServer \o <<NewHandshake>> \o InCache /\ clean' = clean
    <3>1. /\ Len(toServer) = SecretLen + ProxyLen /\ Injects /\ cache.start = First
          /\ HeadLen = SecretLen + ProxyLen + 1
      BY <1>5, HeadFacts DEF Inject, Progress, CursorAfter
    <3>2. SUFFICES ASSUME Exact', NEW i \in 1 .. Len(toServer')
                   PROVE  toServer'[i] = DueAt(i)'
      BY DEF AsDue
    <3>3. /\ i \in Int /\ DueAt(i)' = DueAt(i) /\ Exact
          /\ Len(toServer') = Len(toServer) + 1 + (cache.end - cache.start)
      BY <1>0, <2>1, <3>2, DueKept, Injected, HeadFacts
    <3>4. CASE i \in 1 .. Len(toServer)
      BY <2>1, <3>3, <3>4, Injected DEF AsDue
    <3>5. CASE i = Len(toServer) + 1
      <4>1. DueAt(i) = NewHandshake
        BY <3>1, <3>5, HeadFacts DEF DueAt
      <4> QED
        BY <2>1, <3>3, <3>5, <4>1, Injected
    <3>6. CASE i > Len(toServer) + 1
      <4>1. PICK j \in 1 .. cache.end - cache.start : i = Len(toServer) + 1 + j
        <5>1. i - (Len(toServer) + 1) \in 1 .. cache.end - cache.start
          BY <3>2, <3>3, <3>6, HeadFacts
        <5>2. i = Len(toServer) + 1 + (i - (Len(toServer) + 1))
          BY <3>3, HeadFacts
        <5> QED
          BY <5>1, <5>2
      <4>2. DueAt(i) = First + j
        BY <3>1, <4>1, HeadFacts DEF DueAt
      <4> QED
        BY <2>1, <3>1, <3>3, <4>1, <4>2, Injected
    <3> QED
      BY <3>3, <3>4, <3>5, <3>6, HeadFacts
  <2> QED
    BY <1>1, <1>5, <2>1, FailsFacts DEF Inject
<1>6. CASE DrainCache
  <2>1. ~clean /\ clean' = clean
    BY <1>6 DEF DrainCache, LoopsOfRelay, Clean
  <2> QED
    BY <2>1 DEF AsDue, Exact
<1>7. CASE CopyUp
  <2>1. CASE got < sent /\ toServer' = Append(toServer, got + 1) /\ clean' = clean
    <3>1. got + 1 \in Item /\ up # "off"
      BY <1>7, <2>1, HeadFacts DEF CopyUp, Item
    <3>2. ASSUME Exact'
          PROVE  Exact /\ DueAt(Len(toServer) + 1) = got + 1
      <4>1. Exact
        BY <1>0, <2>1, <3>2, DueKept
      <4>2. First <= got /\ Len(toServer) = HeadLen + got - First
        BY <3>1, <4>1 DEF Progress
      <4>3. HeadLen \in Nat /\ First \in Nat /\ got \in Nat /\ Len(toServer) \in Nat
        BY HeadFacts
      <4>4. /\ Len(toServer) + 1 \in Int /\ HeadLen < Len(toServer) + 1
            /\ First + (Len(toServer) + 1 - HeadLen) = got + 1
        BY <4>2, <4>3
      <4>5. DueAt(Len(toServer) + 1) = First + (Len(toServer) + 1 - HeadLen)
        BY <4>3, <4>4, DueAtUnit
      <4> QED
        BY <4>1, <4>4, <4>5
    <3> QED
      BY <1>0, <2>1, <3>1, <3>2, AppendIsDue
  <2> QED
    BY <1>1, <1>7, <2>1 DEF CopyUp
<1> QED
  BY <1>1, <1>2, <1>3, <1>4, <1>5, <1>6, <1>7, FailsFacts
  DEF Next, Handler, Downloader, ReadHeader, Route, SniffHandshake, SniffLogin, SniffReturns,
      EnterOutbound, Dial, LookForCache, UseCache, CloseRemote, Return, CopyDown, CloseLocal,
      ClientSends, ClientCloses, ServerAnswers, ServerCloses

-----------------------------------------------------------------------------
\* The client's units, as Due counts them.
Units == [i \in 1 .. StreamLen - First |-> First + i]
UnitsLen == IF First <= StreamLen THEN StreamLen - First ELSE 0

LEMMA UnitsFacts ==
  ASSUME TypeOK
  PROVE  /\ Units \in Seq(Item) /\ Len(Units) = UnitsLen /\ UnitsLen \in Nat
         /\ \A i \in 1 .. UnitsLen : Units[i] = First + i
<1>1. First \in Nat /\ StreamLen \in Nat
  BY HeadFacts
<1>2. UnitsLen \in Nat /\ 1 .. StreamLen - First = 1 .. UnitsLen
  BY <1>1 DEF UnitsLen
<1>3. \A i \in 1 .. UnitsLen : First + i \in Item
  BY <1>1 DEF UnitsLen, Item
<1>4. Units = [i \in 1 .. UnitsLen |-> First + i]
  BY <1>2 DEF Units
<1>5. Units \in [1 .. UnitsLen -> Item]
  BY <1>3, <1>4
<1>6. Units \in Seq(Item) /\ Len(Units) = UnitsLen
  BY <1>2, <1>5, SeqDef
<1> QED
  BY <1>2, <1>4, <1>6

\* The three optional parts of the preamble.
SecretPart == IF setup.secret THEN <<Secret>> ELSE <<>>
ProxyPart == IF setup.proxy THEN <<ProxyHeader>> ELSE <<>>
HandshakePart == IF Injects THEN <<NewHandshake>> ELSE <<>>

LEMMA PartFacts ==
  ASSUME TypeOK
  PROVE  /\ SecretPart \in Seq(Item) /\ ProxyPart \in Seq(Item) /\ HandshakePart \in Seq(Item)
         /\ Len(SecretPart) = SecretLen /\ Len(ProxyPart) = ProxyLen
         /\ Len(HandshakePart) = IF Injects THEN 1 ELSE 0
         /\ \A i \in 1 .. Len(SecretPart) : SecretPart[i] = Secret
         /\ \A i \in 1 .. Len(ProxyPart) : ProxyPart[i] = ProxyHeader
         /\ \A i \in 1 .. Len(HandshakePart) : HandshakePart[i] = NewHandshake
<1>1. ASSUME NEW e \in Item
      PROVE  <<e>> \in Seq(Item) /\ Len(<<e>>) = 1 /\ \A i \in 1 .. 1 : <<e>>[i] = e
  OBVIOUS
<1>2. <<>> \in Seq(Item) /\ Len(<<>>) = 0
  BY EmptySeq
<1>3. Secret \in Item /\ ProxyHeader \in Item /\ NewHandshake \in Item
  BY DEF Item
<1>4. /\ SecretPart \in Seq(Item) /\ Len(SecretPart) = SecretLen
      /\ \A i \in 1 .. Len(SecretPart) : SecretPart[i] = Secret
  BY <1>1, <1>2, <1>3 DEF SecretPart, SecretLen
<1>5. /\ ProxyPart \in Seq(Item) /\ Len(ProxyPart) = ProxyLen
      /\ \A i \in 1 .. Len(ProxyPart) : ProxyPart[i] = ProxyHeader
  BY <1>1, <1>2, <1>3 DEF ProxyPart, ProxyLen
<1>6. /\ HandshakePart \in Seq(Item) /\ Len(HandshakePart) = IF Injects THEN 1 ELSE 0
      /\ \A i \in 1 .. Len(HandshakePart) : HandshakePart[i] = NewHandshake
  BY <1>1, <1>2, <1>3 DEF HandshakePart
<1> QED
  BY <1>4, <1>5, <1>6

\* Concatenations, element by element.
LEMMA ConcatAt ==
  ASSUME NEW s \in Seq(Item), NEW t \in Seq(Item)
  PROVE  /\ s \o t \in Seq(Item) /\ Len(s) \in Nat /\ Len(t) \in Nat
         /\ Len(s \o t) = Len(s) + Len(t)
         /\ \A i \in 1 .. Len(s) : (s \o t)[i] = s[i]
         /\ \A i \in Len(s) + 1 .. Len(s) + Len(t) : (s \o t)[i] = t[i - Len(s)]
<1>1. /\ s \o t \in Seq(Item) /\ Len(s \o t) = Len(s) + Len(t)
      /\ \A i \in 1 .. Len(s) + Len(t) : (s \o t)[i] = IF i <= Len(s) THEN s[i]
                                                       ELSE t[i - Len(s)]
  BY ConcatProperties
<1>2. Len(s) \in Nat /\ Len(t) \in Nat
  BY LenProperties
<1>3. \A i \in 1 .. Len(s) : (s \o t)[i] = s[i]
  BY <1>1, <1>2
<1>4. \A i \in Len(s) + 1 .. Len(s) + Len(t) : (s \o t)[i] = t[i - Len(s)]
  BY <1>1, <1>2
<1> QED
  BY <1>1, <1>2, <1>3, <1>4

\* Due is what DueAt says, and no shorter than the preamble.
LEMMA DueFacts ==
  ASSUME TypeOK
  PROVE  /\ Due \in Seq(Item) /\ Len(Due) = HeadLen + UnitsLen
         /\ \A i \in 1 .. Len(Due) : Due[i] = DueAt(i)
<1> DEFINE two == SecretPart \o ProxyPart
           three == two \o HandshakePart
<1>1. Due = three \o Units
  BY DEF Due, Units, SecretPart, ProxyPart, HandshakePart, First
<1>2. /\ two \in Seq(Item) /\ Len(two) = SecretLen + ProxyLen
      /\ \A i \in 1 .. SecretLen : two[i] = Secret
      /\ \A i \in SecretLen + 1 .. SecretLen + ProxyLen : two[i] = ProxyHeader
  <2>1. \A i \in 1 .. SecretLen : two[i] = Secret
    BY PartFacts, ConcatAt
  <2>2. ASSUME NEW i \in SecretLen + 1 .. SecretLen + ProxyLen
        PROVE  two[i] = ProxyHeader
    <3>1. two[i] = ProxyPart[i - SecretLen]
      BY PartFacts, ConcatAt
    <3>2. i - SecretLen \in 1 .. ProxyLen
      <4>1. SecretLen \in 0 .. 1 /\ ProxyLen \in 0 .. 1
        BY HeadFacts
      <4> QED
        BY <4>1
    <3> QED
      BY <3>1, <3>2, PartFacts
  <2> QED
    BY <2>1, <2>2, PartFacts, ConcatAt
<1> HIDE DEF two
<1>t. /\ SecretLen \in 0 .. 1 /\ ProxyLen \in 0 .. 1 /\ HeadLen \in Nat
      /\ HeadLen = SecretLen + ProxyLen + Len(HandshakePart) /\ Len(HandshakePart) \in Nat
      /\ UnitsLen \in Nat
  <2>1. Len(HandshakePart) \in Nat
    BY PartFacts, LenProperties
  <2> QED
    BY <2>1, PartFacts, HeadFacts, UnitsFacts
<1>3. /\ three \in Seq(Item) /\ Len(three) = HeadLen
      /\ \A i \in 1 .. HeadLen : three[i] = DueAt(i)
  <2>1. /\ three \in Seq(Item) /\ Len(three) = HeadLen
        /\ \A i \in 1 .. SecretLen + ProxyLen : three[i] = two[i]
        /\ \A i \in SecretLen + ProxyLen + 1 .. HeadLen :
             three[i] = HandshakePart[i - (SecretLen + ProxyLen)]
    BY <1>2, <1>t, PartFacts, ConcatAt
  <2>2. ASSUME NEW i \in 1 .. HeadLen
        PROVE  three[i] = DueAt(i)
    <3>1. CASE i <= SecretLen
      <4>1. i \in 1 .. SecretLen /\ i \in 1 .. SecretLen + ProxyLen
        BY <1>t, <3>1
      <4>2. three[i] = Secret
        BY <1>2, <2>1, <4>1
      <4> QED
        BY <3>1, <4>2 DEF DueAt
    <3>2. CASE ~(i <= SecretLen) /\ i <= SecretLen + ProxyLen
      <4>1. /\ i \in SecretLen + 1 .. SecretLen + ProxyLen
            /\ i \in 1 .. SecretLen + ProxyLen
        BY <1>t, <3>2
      <4>2. three[i] = ProxyHeader
        BY <1>2, <2>1, <4>1
      <4> QED
        BY <3>2, <4>2 DEF DueAt
    <3>3. CASE ~(i <= SecretLen) /\ ~(i <= SecretLen + ProxyLen)
      <4>1. /\ i \in SecretLen + ProxyLen + 1 .. HeadLen
            /\ i - (SecretLen + ProxyLen) \in 1 .. Len(HandshakePart)
            /\ i <= HeadLen
        BY <1>t, <3>3
      <4>2. three[i] = NewHandshake
        BY <2>1, <4>1, PartFacts
      <4> QED
        BY <3>3, <4>1, <4>2 DEF DueAt
    <3> QED
      BY <3>1, <3>2, <3>3
  <2> QED
    BY <2>1, <2>2
<1> HIDE DEF three
<1>4. /\ Due \in Seq(Item) /\ Len(Due) = HeadLen + UnitsLen
      /\ \A i \in 1 .. HeadLen : Due[i] = three[i]
      /\ \A i \in HeadLen + 1 .. HeadLen + UnitsLen : Due[i] = Units[i - HeadLen]
  <2>1. Units \in Seq(Item) /\ Len(Units) = UnitsLen
    BY UnitsFacts
  <2>2. three \in Seq(Item) /\ Len(three) = HeadLen
    BY <1>3
  <2>3. /\ three \o Units \in Seq(Item)
        /\ Len(three \o Units) = Len(three) + Len(Units)
        /\ \A i \in 1 .. Len(three) : (three \o Units)[i] = three[i]
        /\ \A i \in Len(three) + 1 .. Len(three) + Len(Units) :
             (three \o Units)[i] = Units[i - Len(three)]
    BY <2>1, <2>2, ConcatAt
  <2> QED
    BY <1>1, <2>1, <2>2, <2>3
<1>5. ASSUME NEW i \in 1 .. Len(Due)
      PROVE  Due[i] = DueAt(i)
  <2>1. CASE i \in 1 .. HeadLen
    BY <1>3, <1>4, <2>1
  <2>2. CASE i \in HeadLen + 1 .. HeadLen + UnitsLen
    <3>1. i \in Int /\ HeadLen < i /\ i - HeadLen \in 1 .. UnitsLen
      BY <1>t, <2>2
    <3>2. Due[i] = First + (i - HeadLen)
      BY <1>4, <2>2, <3>1, UnitsFacts
    <3> QED
      BY <3>1, <3>2, DueAtUnit
  <2> QED
    BY <1>4, <1>t, <2>1, <2>2
<1> QED
  BY <1>4, <1>5

\* Elements that are due, no more than there are, make a prefix of Due.
LEMMA PrefixOfDue ==
  ASSUME TypeOK, Len(toServer) <= Len(Due),
         \A i \in 1 .. Len(toServer) : toServer[i] = DueAt(i)
  PROVE  IsPrefixOf(toServer, Due)
<1> DEFINE n == Len(toServer)
           s == SubSeq(Due, 1, n)
<1>1. toServer \in Seq(Item) /\ n \in Nat
  BY HeadFacts DEF TypeOK, Item
<1>2. Due \in Seq(Item) /\ Len(Due) \in Nat /\ \A i \in 1 .. Len(Due) : Due[i] = DueAt(i)
  BY DueFacts, LenProperties
<1>3. \A i \in 1 .. n : i \in 1 .. Len(Due)
  BY <1>1, <1>2
<1>4. \A i \in 1 .. n : Due[i] \in Item
  BY <1>2, <1>3, ElementOfSeq
<1>5. /\ s \in Seq(Item) /\ Len(s) = n /\ \A i \in 1 .. n : s[i] = Due[i]
  <2>1. /\ s \in Seq(Item) /\ Len(s) = IF 1 <= n THEN n - 1 + 1 ELSE 0
        /\ \A i \in 1 .. n - 1 + 1 : s[i] = Due[1 + i - 1]
    BY <1>1, <1>4, SubSeqProperties
  <2> QED
    BY <1>1, <2>1
<1> HIDE DEF s
<1>6. \A i \in 1 .. n : toServer[i] = s[i]
  BY <1>2, <1>3, <1>5
<1>7. toServer = s
  BY <1>1, <1>5, <1>6, SeqEqual
<1> QED
  BY <1>7 DEF IsPrefixOf, s

-----------------------------------------------------------------------------
LEMMA InvariantInit == Init => IInv
<1> SUFFICES ASSUME Init PROVE IInv
  OBVIOUS
<1>1. TypeOK
  BY TypeCorrectInit
<1>2. /\ ServerHeld /\ LoopsOfRelay /\ CacheEnd /\ Clean /\ LastWords /\ Endings
  BY DEF Init, ServerHeld, LoopsOfRelay, CacheEnd, Clean, LastWords, Endings, Before, Preamble
<1>3. CursorBefore /\ CursorAfter
  BY <1>1, HeadFacts DEF Init, CursorBefore, CursorAfter, HeaderLen
<1>4. Len(toServer) = 0 /\ Len(toClient) = 0
  BY EmptySeq DEF Init
<1>5. AsDue /\ InOrder
  BY <1>4 DEF AsDue, InOrder
<1>6. Progress
  BY <1>1, <1>4, HeadFacts DEF Init, Progress, Before
<1> QED
  BY <1>1, <1>2, <1>3, <1>5, <1>6 DEF IInv

LEMMA InvariantKept == IInv /\ [Next]_vars => IInv'
<1>1. ASSUME IInv, Next PROVE IInv'
  <2> USE <1>1 DEF IInv
  <2>1. TypeOK'
    BY TypeKept
  <2>2. ServerHeld' /\ LoopsOfRelay'
    BY ServerHeldKept, LoopsOfRelayKept
  <2>3. CacheEnd' /\ CursorBefore' /\ CursorAfter'
    BY CacheEndKept, CursorBeforeKept, CursorAfterKept
  <2>4. Clean' /\ InOrder' /\ LastWords' /\ Endings'
    BY CleanKept, InOrderKept, LastWordsKept, EndingsKept
  <2>5. Progress' /\ AsDue'
    BY ProgressKept, AsDueKept
  <2> QED
    BY <2>1, <2>2, <2>3, <2>4, <2>5
<1>2. ASSUME IInv, UNCHANGED vars PROVE IInv'
  <2> USE <1>2 DEF IInv, vars, inVars, peers
  <2>1. setup' = setup /\ HeaderLen' = HeaderLen /\ (Injects <=> Injects')
        /\ SecretLen' = SecretLen /\ ProxyLen' = ProxyLen /\ HeadLen' = HeadLen
        /\ First' = First /\ StreamLen' = StreamLen
    BY LengthsKept
  <2>2. TypeOK'
    BY <2>1 DEF TypeOK
  <2>3. ServerHeld' /\ LoopsOfRelay' /\ CacheEnd' /\ Clean'
    BY DEF ServerHeld, LoopsOfRelay, CacheEnd, Clean
  <2>4. CursorBefore' /\ CursorAfter'
    BY <2>1 DEF CursorBefore, CursorAfter
  <2>5. InOrder' /\ LastWords' /\ Endings'
    BY DEF InOrder, LastWords, Endings
  <2>6. Progress' /\ AsDue'
    BY <2>1, DueKept, HeadFacts DEF Progress, AsDue
  <2> QED
    BY <2>2, <2>3, <2>4, <2>5, <2>6
<1> QED
  BY <1>1, <1>2

LEMMA Invariant == Spec => []IInv
BY InvariantInit, InvariantKept, PTL DEF Spec

-----------------------------------------------------------------------------
\* The connection's cursors stay in their bounds: a rewind goes where a read has been.
THEOREM RelayTypeCorrect == Spec => []TypeOK
<1>1. IInv => TypeOK
  BY DEF IInv
<1> QED
  BY <1>1, Invariant, PTL

\* However the reads of the header and of the sniffer cut the stream up, and whatever
\* the preamble, the server receives a prefix of what it is due: each unit once, in
\* order, and nothing that was meant for the proxy (Sniff, InjectConnection, CopyConn).
THEOREM UploadIsExact == Spec => []UploadExact
<1>1. IInv => UploadExact
  <2> SUFFICES ASSUME IInv, Exact PROVE IsPrefixOf(toServer, Due)
    BY DEF UploadExact, Exact
  <2>1. TypeOK /\ \A i \in 1 .. Len(toServer) : toServer[i] = DueAt(i)
    BY DEF IInv, AsDue
  <2>2. /\ HeadLen \in Nat /\ First \in Nat /\ got \in Nat /\ StreamLen \in Nat
        /\ got <= StreamLen /\ Len(toServer) \in Nat
    BY <2>1, HeadFacts
  <2>3. \/ Len(toServer) <= HeadLen
        \/ First <= got /\ Len(toServer) <= HeadLen + (got - First)
    <3>1. CASE up = "off"
      <4>1. \/ Len(toServer) <= HeadLen
            \/ First <= got /\ Len(toServer) <= HeadLen + got - First
        BY <3>1 DEF IInv, Progress
      <4> QED
        BY <2>2, <4>1
    <3>2. CASE up # "off"
      <4>1. First <= got /\ Len(toServer) = HeadLen + got - First
        BY <3>2 DEF IInv, Progress
      <4> QED
        BY <2>2, <4>1
    <3> QED
      BY <3>1, <3>2
  <2>4. Len(Due) = HeadLen + UnitsLen
    BY <2>1, DueFacts
  <2>5. Len(toServer) <= Len(Due)
    BY <2>2, <2>3, <2>4 DEF UnitsLen
  <2> QED
    BY <2>1, <2>5, PrefixOfDue
<1> QED
  BY <1>1, Invariant, PTL

\* The sniffer leaves the cursor where the PROXY header ended, and the cache as long as
\* what has been read of the socket (Sniff, the Rewind on each of its ways out but one).
THEOREM SnifferRewinds == Spec => []SniffLeavesNoTrace
<1>1. IInv => SniffLeavesNoTrace
  BY DEF IInv, SniffLeavesNoTrace, CursorBefore, CacheEnd
<1> QED
  BY <1>1, Invariant, PTL

\* The client receives the server's units in order, and both connections are closed
\* when the handler has returned, whatever failed on the way (HandleConnection).
THEOREM HandlerLeavesNothing == Spec => []NothingOutlivesHandler
<1>1. IInv => NothingOutlivesHandler
  BY DEF IInv, NothingOutlivesHandler, InOrder, ServerHeld, LoopsOfRelay
<1> QED
  BY <1>1, Invariant, PTL

\* A client that stays, and whose bytes could all be written, gets the last words of a
\* server that closes (CopyConn's download).
THEOREM DownloadIsComplete == Spec => []DownloadComplete
<1>1. IInv => DownloadComplete
  <2> SUFFICES ASSUME IInv, down = "done", client = "open", got = sent, clean
               PROVE  Len(toClient) = answered
    BY DEF DownloadComplete
  <2>1. ~(got < sent)
    BY HeadFacts DEF IInv
  <2> QED
    BY <2>1 DEF IInv, LastWords
<1> QED
  BY <1>1, Invariant, PTL

-----------------------------------------------------------------------------
\* The two ways for a connection to end the process.
FailedDial == pc \in {"dial", "secret", "proxy"} /\ setup.outbound = "plain"
CacheReleasedInUse == pc = "relay" /\ up \in {"use", "drain"} /\ down = "done" /\ ~cached

CrashIsExplained == crashed => FailedDial \/ CacheReleasedInUse

\* The upload finds no cache where it has just seen one only if the download has ended.
CacheGone == pc = "relay" /\ up \in {"use", "drain"} /\ ~cached => down = "done"

LEMMA CacheGoneKept ==
  ASSUME TypeOK, LoopsOfRelay, CacheGone, Next
  PROVE  CacheGone'
<1> USE DEF CacheGone
<1>1. CASE pc' # "relay"
  BY <1>1
<1>2. CASE StartRelay \/ LookForCache
  BY <1>2 DEF StartRelay, LookForCache
<1>3. CASE UseCache \/ DrainCache
  BY <1>3 DEF UseCache, DrainCache
<1>4. CASE CopyUp \/ CloseRemote
  BY <1>4 DEF CopyUp, CloseRemote
<1>5. CASE CopyDown \/ CloseLocal
  BY <1>5 DEF CopyDown, CloseLocal
<1>6. CASE UNCHANGED <<pc, up, down, cached>>
  BY <1>6
<1> QED
  BY <1>1, <1>2, <1>3, <1>4, <1>5, <1>6, FailsFacts
  DEF Next, Handler, Downloader, ReadHeader, Route, SniffHandshake, SniffLogin, SniffReturns,
      EnterOutbound, Dial, WriteSecret, WriteProxyHeader, Inject, Writes, Skips, AfterPreamble,
      GiveUp, Return, ClientSends, ClientCloses, ServerAnswers, ServerCloses

LEMMA CrashKept ==
  ASSUME TypeOK, LoopsOfRelay, CacheGone, CursorAfter, CrashIsExplained, Next
  PROVE  CrashIsExplained'
<1>0. setup' = setup
  BY SetupKept
<1>p. ~Injects => setup.outbound = "plain"
  BY SetupFacts DEF TypeOK, Injects
<1> USE <1>0, <1>p DEF CrashIsExplained, FailedDial, CacheReleasedInUse
<1>1. CASE crashed
  BY <1>1 DEF Next, Handler, Downloader, ClientSends, ClientCloses, ServerAnswers, ServerCloses
<1>2. CASE ~crashed'
  BY <1>2
<1>3. CASE ~crashed /\ (Dial \/ WriteSecret \/ WriteProxyHeader \/ Inject)
  <2>1. CASE Fails
    <3>1. Injects => crashed' = crashed
      BY <2>1 DEF Fails
    <3>2. crashed' = crashed \/ (pc' = pc /\ ~Injects)
      BY <2>1, <3>1, FailsFacts
    <3>3. pc \in {"dial", "secret", "proxy"} \/ Injects
      BY <1>3 DEF Dial, WriteSecret, WriteProxyHeader, Inject, CursorAfter
    <3> QED
      BY <1>3, <3>2, <3>3
  <2>2. CASE ~Fails
    BY <1>3, <2>2 DEF Dial, WriteSecret, WriteProxyHeader, Inject, Writes, Skips
  <2> QED
    BY <2>1, <2>2
<1>4. CASE ~crashed /\ (UseCache \/ DrainCache)
  <2>1. pc = "relay" /\ pc' = pc /\ down' = down /\ cached' = cached
    BY <1>4 DEF UseCache, DrainCache, LoopsOfRelay
  <2>2. crashed' = crashed \/ (up' = up /\ ~cached /\ up \in {"use", "drain"})
    BY <1>4 DEF UseCache, DrainCache
  <2> QED
    BY <1>4, <2>1, <2>2 DEF CacheGone
<1> QED
  BY <1>1, <1>2, <1>3, <1>4
  DEF Next, Handler, Downloader, ReadHeader, Route, SniffHandshake, SniffLogin, SniffReturns,
      EnterOutbound, StartRelay, LookForCache, CopyUp, CloseRemote, Return, CopyDown, CloseLocal,
      ClientSends, ClientCloses, ServerAnswers, ServerCloses

\* A nil pointer is used after a failed dial of a plain outbound (router.go), or because the
\* download's Close released the cache between the upload's test and its use of it
\* (CachedConn.UpstreamReader, CopyBuffer): no other connection ends the process.
THEOREM CrashesAreExplained == Spec => []CrashIsExplained
<1>1. Init => CacheGone /\ CrashIsExplained
  BY DEF Init, CacheGone, CrashIsExplained
<1>2. IInv /\ CacheGone /\ CrashIsExplained /\ [Next]_vars => CacheGone' /\ CrashIsExplained'
  <2>1. CASE UNCHANGED vars
    BY <2>1
    DEF vars, inVars, CacheGone, CrashIsExplained, FailedDial, CacheReleasedInUse
  <2> QED
    BY <2>1, CacheGoneKept, CrashKept DEF IInv
<1> QED
  BY <1>1, <1>2, Invariant, PTL DEF Spec

-----------------------------------------------------------------------------
(***************************************************************************)
(* What RelayEnds rests on: somebody can always move unless a peer that is *)
(* there is waited for, and a clean relay has only finitely many moves.    *)
(***************************************************************************)
\* The guards of the two goroutines, label by label.  A read of the client's socket
\* waits for bytes or for the end, a write for a server that reads.
HandlerMoves ==
  \/ pc \notin {"relay", "done"} \/ up \in {"look", "use", "end"}
  \/ up = "drain" /\ (~cached \/ server # "open" \/ Len(toServer) < MaxWritten)
  \/ /\ up = "copy"
     /\ \/ dropped
        \/ client = "closed" /\ got = sent
        \/ got < sent /\ (server # "open" \/ Len(toServer) < MaxWritten)
  \/ pc = "relay" /\ up = "wait" /\ down = "done"

DownloaderMoves ==
  \/ down = "end"
  \/ down = "copy" /\ (server \in {"closed", "dropped"} \/ Len(toClient) < answered)

\* The upload waits for bytes of a client that stays, or for a server that has stopped
\* reading, while the download waits for an answer of the same server.
WaitsForPeers ==
  /\ pc = "relay" /\ server = "open" /\ down = "copy" /\ Len(toClient) = answered
  /\ \/ up = "copy" /\ got = sent /\ client = "open"
     \/ up \in {"copy", "drain"} /\ Len(toServer) >= MaxWritten

NeverStuck == pc = "done" \/ crashed \/ HandlerMoves \/ DownloaderMoves \/ WaitsForPeers

\* The client is not sent what the server has not sent.
NothingInvented == Len(toClient) <= answered

\* The steps the two goroutines have left: labels, units to read and answers to pass on.
LabelsLeft ==
  CASE pc = "header" -> 12 [] pc = "route" -> 11 [] pc = "handshake" -> 10 [] pc = "login" -> 9
    [] pc = "sniffed" -> 8 [] pc = "outbound" -> 7 [] pc = "dial" -> 6 [] pc = "secret" -> 5
    [] pc = "proxy" -> 4 [] pc = "inject" -> 3 [] pc = "start" -> 2 [] pc = "relay" -> 1
    [] OTHER -> 0
UploadLeft ==
  CASE up = "off" -> 6 [] up = "look" -> 5 [] up = "use" -> 4 [] up = "drain" -> 3
    [] up = "copy" -> 2 [] up = "end" -> 1 [] OTHER -> 0
DownloadLeft ==
  CASE down = "off" -> 3 [] down = "copy" -> 2 [] down = "end" -> 1 [] OTHER -> 0
CrashLeft == IF crashed THEN 0 ELSE 1

StepsLeft ==
  LabelsLeft + UploadLeft + DownloadLeft + CrashLeft
    + (StreamLen - got) + (AnswerLen - Len(toClient))

MaxSteps == 22 + StreamLen + AnswerLen

Shrinks ==
  clean' => /\ StepsLeft' <= StepsLeft
            /\ Handler \/ Downloader => StepsLeft' < StepsLeft

LEMMA NothingInventedKept ==
  ASSUME TypeOK, NothingInvented, Next
  PROVE  NothingInvented'
<1>a. answered \in Nat /\ Len(toClient) \in Nat
  BY SetupFacts, LenProperties DEF TypeOK
<1>b. toClient' = Append(toClient, Len(toClient) + 1) => Len(toClient') = Len(toClient) + 1
  <2>1. CASE Len(toClient) + 1 \in 1 .. AnswerLen
    BY <2>1, AppendProperties DEF TypeOK
  <2>2. CASE Len(toClient) + 1 \notin 1 .. AnswerLen
    <3>1. toClient \in Seq(Nat) /\ Len(toClient) + 1 \in Nat
      BY <1>a, SetupFacts, SeqDef, LenProperties DEF TypeOK
    <3> QED
      BY <3>1, AppendProperties
  <2> QED
    BY <2>1, <2>2
<1> USE <1>a DEF NothingInvented
<1>1. CASE ServerAnswers
  BY <1>1 DEF ServerAnswers
<1>2. CASE CopyDown
  BY <1>2, <1>b DEF CopyDown, peers
<1>3. CASE UNCHANGED <<answered, toClient>>
  BY <1>3
<1> QED
  BY <1>1, <1>2, <1>3
  DEF Next, Handler, Downloader, ReadHeader, Route, SniffHandshake, SniffLogin, SniffReturns,
      EnterOutbound, Dial, WriteSecret, WriteProxyHeader, Inject, StartRelay, LookForCache,
      UseCache, DrainCache, CopyUp, CloseRemote, Return, CloseLocal, ClientSends,
      ClientCloses, ServerCloses, peers

\* The download's Close releases the cache, and nothing of the relay makes another.
CacheReleased == pc = "relay" /\ down = "done" => ~cached

LEMMA CacheReleasedKept ==
  ASSUME TypeOK, LoopsOfRelay, CacheReleased, Next
  PROVE  CacheReleased'
<1> USE DEF CacheReleased
<1>1. CASE pc' # "relay"
  BY <1>1
<1>2. CASE StartRelay
  BY <1>2 DEF StartRelay
<1>3. CASE CopyDown \/ CloseLocal
  BY <1>3 DEF CopyDown, CloseLocal, CloseClient
<1>4. CASE UNCHANGED <<pc, down, cached>>
  BY <1>4
<1> QED
  BY <1>1, <1>2, <1>3, <1>4, FailsFacts
  DEF Next, Handler, Downloader, ReadHeader, Route, SniffHandshake, SniffLogin, SniffReturns,
      EnterOutbound, Dial, WriteSecret, WriteProxyHeader, Inject, Writes, Skips, AfterPreamble,
      GiveUp, LookForCache, UseCache, DrainCache, CopyUp, CloseRemote, Return, ClientSends,
      ClientCloses, ServerAnswers, ServerCloses

LEMMA CacheIsReleased == Spec => []CacheReleased
<1>1. Init => CacheReleased
  BY DEF Init, CacheReleased
<1>2. IInv /\ CacheReleased /\ [Next]_vars => CacheReleased'
  BY CacheReleasedKept DEF IInv, vars, CacheReleased
<1> QED
  BY <1>1, <1>2, Invariant, PTL DEF Spec

LEMMA NothingIsInvented == Spec => []NothingInvented
<1>1. Init => NothingInvented
  <2>1. ASSUME Init PROVE answered = 0 /\ Len(toClient) = 0
    BY <2>1, EmptySeq DEF Init
  <2> QED
    BY <2>1 DEF NothingInvented
<1>2. IInv /\ NothingInvented /\ [Next]_vars => NothingInvented'
  BY NothingInventedKept DEF IInv, vars, peers, NothingInvented
<1> QED
  BY <1>1, <1>2, Invariant, PTL DEF Spec

\* A connection that stands still, and has neither ended nor taken the process with it,
\* waits for bytes, an answer or room of a peer that is there: once one side has closed,
\* CopyConn's two goroutines bring each other to an end (io.go, CopyConn).
THEOREM NobodyIsStuck == Spec => []NeverStuck
<1>1. IInv /\ NothingInvented /\ CacheReleased => NeverStuck
  <2> SUFFICES ASSUME IInv, NothingInvented, CacheReleased, pc # "done", ~crashed, ~HandlerMoves,
                      ~DownloaderMoves
               PROVE  WaitsForPeers
    BY DEF NeverStuck
  <2>1. /\ pc = "relay" /\ up \in {"drain", "copy", "wait"}
    <3>1. pc = "relay"
      BY DEF HandlerMoves, IInv, TypeOK
    <3>2. up \in {"look", "use", "drain", "copy", "end", "wait"}
      BY <3>1 DEF IInv, TypeOK, LoopsOfRelay
    <3> QED
      BY <3>1, <3>2 DEF HandlerMoves
  <2>2. /\ got \in Nat /\ sent \in Nat /\ got <= sent /\ answered \in Nat /\ MaxWritten \in Nat
        /\ Len(toClient) \in Nat /\ Len(toServer) \in Nat /\ Len(toClient) <= answered
    BY SetupFacts, LenProperties DEF IInv, TypeOK, NothingInvented
  <2>3. down \in {"copy", "done"} /\ server \in {"open", "closed", "dropped"}
    BY <2>1 DEF IInv, TypeOK, LoopsOfRelay, DownloaderMoves, ServerHeld
  <2>4. server = "dropped" <=> up = "wait"
    BY <2>1 DEF IInv, ServerHeld
  <2>5. down = "copy"
    <3>1. CASE down = "done"
      <4>1. dropped /\ ~cached
        BY <2>1, <3>1 DEF IInv, LoopsOfRelay, CacheReleased
      <4> QED
        BY <2>1, <3>1, <4>1 DEF HandlerMoves
    <3> QED
      BY <2>3, <3>1
  <2>6. server = "open" /\ Len(toClient) = answered
    <3>1. server \notin {"closed", "dropped"} /\ ~(Len(toClient) < answered)
      BY <2>5 DEF DownloaderMoves
    <3> QED
      BY <2>2, <2>3, <3>1
  <2>7. CASE up = "copy"
    <3>1. ~(client = "closed" /\ got = sent) /\ ~(got < sent /\ Len(toServer) < MaxWritten)
      BY <2>7 DEF HandlerMoves
    <3>2. client \in {"open", "closed"}
      BY DEF IInv, TypeOK
    <3> QED
      BY <2>1, <2>2, <2>5, <2>6, <2>7, <3>1, <3>2 DEF WaitsForPeers
  <2>8. CASE up = "drain"
    <3>1. ~(Len(toServer) < MaxWritten)
      BY <2>8 DEF HandlerMoves
    <3> QED
      BY <2>1, <2>2, <2>5, <2>6, <2>8, <3>1 DEF WaitsForPeers
  <2> QED
    BY <2>1, <2>4, <2>6, <2>7, <2>8
<1> QED
  BY <1>1, Invariant, NothingIsInvented, CacheIsReleased, PTL

\* The parts of the measure are natural numbers.
LEMMA PartsAreNat ==
  ASSUME TypeOK, NothingInvented
  PROVE  /\ LabelsLeft \in 0 .. 12 /\ UploadLeft \in 0 .. 6 /\ DownloadLeft \in 0 .. 3
         /\ CrashLeft \in 0 .. 1
         /\ StreamLen - got \in 0 .. StreamLen /\ AnswerLen - Len(toClient) \in 0 .. AnswerLen
<1>1. LabelsLeft \in 0 .. 12
  BY DEF TypeOK, LabelsLeft
<1>2. UploadLeft \in 0 .. 6 /\ DownloadLeft \in 0 .. 3 /\ CrashLeft \in 0 .. 1
  BY DEF TypeOK, UploadLeft, DownloadLeft, CrashLeft
<1>3. StreamLen - got \in 0 .. StreamLen
  BY SetupFacts DEF TypeOK
<1>4. /\ AnswerLen \in Nat /\ answered \in 0 .. AnswerLen /\ Len(toClient) \in Nat
      /\ Len(toClient) <= answered
  BY SetupFacts, LenProperties DEF TypeOK, NothingInvented
<1>5. AnswerLen - Len(toClient) \in 0 .. AnswerLen
  BY <1>4
<1> QED
  BY <1>1, <1>2, <1>3, <1>5

\* No part of the measure grows, and what each goroutine does takes one of them down.
NoneGrows ==
  /\ LabelsLeft' <= LabelsLeft /\ UploadLeft' <= UploadLeft /\ DownloadLeft' <= DownloadLeft
  /\ CrashLeft' <= CrashLeft /\ got <= got' /\ Len(toClient) <= Len(toClient')
OneShrinks ==
  \/ LabelsLeft' < LabelsLeft \/ UploadLeft' < UploadLeft \/ DownloadLeft' < DownloadLeft
  \/ CrashLeft' < CrashLeft \/ got < got' \/ Len(toClient) < Len(toClient')

LEMMA PeekReads ==
  ASSUME TypeOK, CacheEnd, pc \notin {"relay", "done"}, PeekUnit \/ PeekFails
  PROVE  got <= got'
BY SetupFacts DEF TypeOK, CacheEnd, PeekUnit, PeekFails

LEMMA HandlerShrinks ==
  ASSUME IInv, Handler, clean'
  PROVE  NoneGrows /\ OneShrinks
<1>a. /\ got \in Nat /\ Len(toClient) \in Nat /\ TypeOK
      /\ LabelsLeft \in Int /\ UploadLeft \in Int /\ DownloadLeft \in Int /\ CrashLeft \in Int
  BY SetupFacts, LenProperties
  DEF IInv, TypeOK, LabelsLeft, UploadLeft, DownloadLeft, CrashLeft
<1>b. pc = "relay" <=> up \notin {"off", "wait"} \/ (up = "wait" /\ pc # "done")
  BY DEF IInv, TypeOK, LoopsOfRelay
<1> USE <1>a DEF NoneGrows, OneShrinks
<1>1. ASSUME UNCHANGED <<up, down, toClient, crashed>>, LabelsLeft' < LabelsLeft,
             LabelsLeft' \in Int, got <= got'
      PROVE  NoneGrows /\ OneShrinks
  BY <1>1 DEF UploadLeft, DownloadLeft, CrashLeft
<1>2. ASSUME UNCHANGED <<pc, down, toClient, crashed>>, UploadLeft' < UploadLeft,
             UploadLeft' \in Int, got' = got
      PROVE  NoneGrows /\ OneShrinks
  BY <1>2 DEF LabelsLeft, DownloadLeft, CrashLeft
<1>3. CASE ReadHeader
  <2>1. got <= got' /\ pc' \in {"route", "done"}
    BY <1>3, PeekReads DEF IInv, ReadHeader, GiveUp
  <2> QED
    BY <1>1, <1>3, <2>1 DEF ReadHeader, LabelsLeft
<1>4. CASE Route \/ SniffReturns
  <2>1. /\ UNCHANGED <<up, down, toClient, crashed, got>>
        /\ \/ pc = "route" /\ pc' \in {"outbound", "handshake"}
           \/ pc = "sniffed" /\ pc' = "outbound"
    BY <1>4 DEF Route, SniffReturns
  <2>2. LabelsLeft' < LabelsLeft /\ LabelsLeft' \in Int
    BY <2>1 DEF LabelsLeft
  <2> QED
    BY <1>1, <2>1, <2>2
<1>5. CASE SniffHandshake \/ SniffLogin
  <2>1. got <= got'
    BY <1>5, PeekReads DEF IInv, SniffHandshake, SniffLogin
  <2>2. LabelsLeft' < LabelsLeft /\ LabelsLeft' \in Int
    <3>1. \/ pc = "handshake" /\ pc' \in {"login", "sniffed"}
          \/ pc = "login" /\ pc' = "sniffed"
      BY <1>5 DEF SniffHandshake, SniffLogin
    <3> QED
      BY <3>1 DEF LabelsLeft
  <2> QED
    BY <1>1, <1>5, <2>1, <2>2 DEF SniffHandshake, SniffLogin
<1>6. CASE EnterOutbound
  <2>1. got' = got /\ pc' \in {"dial", "done"}
    BY <1>6 DEF EnterOutbound, GiveUp
  <2> QED
    BY <1>1, <1>6, <2>1 DEF EnterOutbound, LabelsLeft
<1>7. CASE (Dial \/ WriteSecret \/ WriteProxyHeader \/ Inject) /\ Fails
  <2>1. /\ UNCHANGED <<up, down, toClient, got>> /\ ~crashed
        /\ pc \in {"dial", "secret", "proxy", "inject"}
    BY <1>7 DEF Handler, Dial, WriteSecret, WriteProxyHeader, Inject, Fails, GiveUp
  <2>2. CASE pc' = "done" /\ crashed' = crashed
    BY <1>1, <2>1, <2>2 DEF LabelsLeft
  <2>3. CASE pc' = pc /\ crashed' = TRUE
    BY <2>1, <2>3 DEF LabelsLeft, UploadLeft, DownloadLeft, CrashLeft
  <2> QED
    BY <1>7, <2>2, <2>3 DEF Fails, GiveUp
<1>8. CASE (Dial \/ WriteSecret \/ WriteProxyHeader \/ Inject) /\ ~Fails
  <2>1. UNCHANGED <<up, down, toClient, crashed, got>>
    BY <1>8 DEF Dial, WriteSecret, WriteProxyHeader, Inject, Writes, Skips
  <2>2. LabelsLeft' < LabelsLeft /\ LabelsLeft' \in Int
    <3>1. \/ pc = "dial" /\ pc' = "secret"
          \/ pc = "secret" /\ pc' = "proxy"
          \/ pc = "proxy" /\ pc' \in {"inject", "start"}
          \/ pc = "inject" /\ pc' = "start"
      BY <1>8 DEF Dial, WriteSecret, WriteProxyHeader, Inject, Writes, Skips, AfterPreamble
    <3> QED
      BY <3>1 DEF LabelsLeft
  <2> QED
    BY <1>1, <2>1, <2>2
<1>9. CASE StartRelay
  <2>1. /\ pc = "start" /\ up = "off" /\ down = "off"
        /\ pc' = "relay" /\ up' = "look" /\ down' = "copy"
        /\ UNCHANGED <<toClient, crashed, got>>
    BY <1>9 DEF StartRelay, IInv, LoopsOfRelay
  <2> QED
    BY <2>1 DEF LabelsLeft, UploadLeft, DownloadLeft, CrashLeft
<1>10. CASE LookForCache \/ CloseRemote
  <2>1. \/ up = "look" /\ up' \in {"use", "copy"}
        \/ up = "end" /\ up' = "wait"
    BY <1>10 DEF LookForCache, CloseRemote
  <2>2. UploadLeft' < UploadLeft /\ UploadLeft' \in Int
    BY <2>1 DEF UploadLeft
  <2> QED
    BY <1>2, <1>10, <2>2 DEF LookForCache, CloseRemote, peers
<1>11. CASE UseCache
  <2>1. UNCHANGED <<pc, down, toClient, got>> /\ up = "use" /\ ~crashed
    BY <1>11 DEF UseCache, Handler
  <2>2. CASE up' \in {"copy", "drain"} /\ crashed' = crashed
    BY <1>2, <2>1, <2>2 DEF UploadLeft
  <2>3. CASE up' = up /\ crashed' = TRUE
    BY <2>1, <2>3 DEF LabelsLeft, UploadLeft, DownloadLeft, CrashLeft
  <2> QED
    BY <1>11, <2>2, <2>3 DEF UseCache
<1>12. CASE DrainCache
  <2>1. up = "drain" /\ clean /\ pc = "relay"
    BY <1>12, <1>b DEF DrainCache
  <2> QED
    BY <2>1 DEF IInv, Clean
<1>13. CASE CopyUp
  <2>1. CASE up' = up /\ got' = got + 1
    BY <1>13, <2>1 DEF CopyUp, LabelsLeft, UploadLeft, DownloadLeft, CrashLeft
  <2>2. CASE up' = "end" /\ got' = got
    BY <1>2, <1>13, <2>2 DEF CopyUp, UploadLeft
  <2> QED
    BY <1>13, <2>1, <2>2 DEF CopyUp
<1>14. CASE Return
  <2>1. pc' = "done" /\ pc = "relay" /\ got' = got
    BY <1>14 DEF Return
  <2> QED
    BY <1>1, <1>14, <2>1 DEF Return, LabelsLeft
<1> QED
  BY <1>3, <1>4, <1>5, <1>6, <1>7, <1>8, <1>9, <1>10, <1>11, <1>12, <1>13, <1>14 DEF Handler

LEMMA DownloaderShrinks ==
  ASSUME IInv, Downloader
  PROVE  NoneGrows /\ OneShrinks
<1>a. got \in Nat /\ Len(toClient) \in Nat
  BY SetupFacts, LenProperties DEF IInv, TypeOK
<1>b. UNCHANGED <<pc, up, crashed, got>>
  BY DEF Downloader, CopyDown, CloseLocal
<1>1. CASE CopyDown /\ down' = down
  <2>1. toClient' = Append(toClient, Len(toClient) + 1) /\ Len(toClient) < answered
    BY <1>1 DEF CopyDown
  <2>2. toClient \in Seq(1 .. AnswerLen) /\ Len(toClient) + 1 \in 1 .. AnswerLen
    BY <1>a, <2>1, SetupFacts DEF IInv, TypeOK
  <2>3. Len(toClient') = Len(toClient) + 1
    BY <2>1, <2>2, AppendProperties
  <2> QED
    BY <1>a, <1>b, <1>1, <2>3
    DEF NoneGrows, OneShrinks, LabelsLeft, UploadLeft, DownloadLeft, CrashLeft
<1>2. CASE UNCHANGED toClient /\ DownloadLeft' < DownloadLeft
  BY <1>a, <1>b, <1>2
  DEF NoneGrows, OneShrinks, LabelsLeft, UploadLeft, DownloadLeft, CrashLeft
<1> QED
  BY <1>1, <1>2 DEF Downloader, CopyDown, CloseLocal, DownloadLeft

\* What the peers do leaves the measure alone.
LEMMA PeersAddNothing ==
  ASSUME ClientSends \/ ClientCloses \/ ServerAnswers \/ ServerCloses
  PROVE  UNCHANGED <<setup, pc, up, down, crashed, got, toClient>>
BY DEF ClientSends, ClientCloses, ServerAnswers, ServerCloses, inVars

LEMMA MeasureShrinks ==
  ASSUME IInv, NothingInvented, IInv', NothingInvented', [Next]_vars
  PROVE  Shrinks
<1> SUFFICES ASSUME clean'
             PROVE  /\ StepsLeft' <= StepsLeft
                    /\ Handler \/ Downloader => StepsLeft' < StepsLeft
  BY DEF Shrinks
<1>a. /\ LabelsLeft \in Int /\ UploadLeft \in Int /\ DownloadLeft \in Int /\ CrashLeft \in Int
      /\ LabelsLeft' \in Int /\ UploadLeft' \in Int /\ DownloadLeft' \in Int
      /\ CrashLeft' \in Int
  BY PartsAreNat DEF IInv, TypeOK, LabelsLeft, UploadLeft, DownloadLeft, CrashLeft
<1>b. /\ StreamLen \in Nat /\ AnswerLen \in Nat /\ got \in Int /\ got' \in Int
      /\ Len(toClient) \in Int /\ Len(toClient') \in Int
  BY SetupFacts, LenProperties DEF IInv, TypeOK
<1>1. CASE Handler \/ Downloader
  <2>1. NoneGrows /\ OneShrinks
    BY <1>1, HandlerShrinks, DownloaderShrinks
  <2>2. StreamLen' = StreamLen
    BY <1>1, SetupKept, LengthsKept DEF Next
  <2> QED
    BY <1>a, <1>b, <2>1, <2>2 DEF NoneGrows, OneShrinks, StepsLeft
<1>2. CASE UNCHANGED <<setup, pc, up, down, crashed, got, toClient>> /\ ~Handler /\ ~Downloader
  <2>1. StreamLen' = StreamLen
    BY <1>2, LengthsKept
  <2>2. /\ LabelsLeft' = LabelsLeft /\ UploadLeft' = UploadLeft /\ CrashLeft' = CrashLeft
        /\ DownloadLeft' = DownloadLeft
    BY <1>2 DEF LabelsLeft, UploadLeft, DownloadLeft, CrashLeft
  <2> QED
    BY <1>a, <1>b, <1>2, <2>1, <2>2 DEF StepsLeft
<1> QED
  BY <1>1, <1>2, PeersAddNothing DEF Next, vars, inVars

\* A relay that began with nothing cached takes a bounded number of steps: every step of
\* its two goroutines brings the measure down, and nothing the peers do brings it up
\* again.  Together with NobodyIsStuck it is why such a relay ends under fairness; the
\* one loop it leaves out is the upload that drains the same cache again and again.
THEOREM RelayRunsDown == Spec => /\ [](clean => StepsLeft \in 0 .. MaxSteps)
                                 /\ [][Shrinks]_vars
<1>1. IInv /\ NothingInvented => (clean => StepsLeft \in 0 .. MaxSteps)
  <2> SUFFICES ASSUME IInv, NothingInvented PROVE StepsLeft \in 0 .. MaxSteps
    OBVIOUS
  <2>1. StreamLen \in Nat /\ AnswerLen \in Nat
    BY SetupFacts DEF IInv, TypeOK
  <2> QED
    <3> DEFINE unread == StreamLen - got
               unsent == AnswerLen - Len(toClient)
    <3>1. /\ LabelsLeft \in 0 .. 12 /\ UploadLeft \in 0 .. 6 /\ DownloadLeft \in 0 .. 3
          /\ CrashLeft \in 0 .. 1 /\ unread \in 0 .. StreamLen /\ unsent \in 0 .. AnswerLen
      BY PartsAreNat DEF IInv
    <3>2. StepsLeft = LabelsLeft + UploadLeft + DownloadLeft + CrashLeft + unread + unsent
      BY DEF StepsLeft
    <3> HIDE DEF unread, unsent
    <3> QED
      BY <2>1, <3>1, <3>2 DEF MaxSteps
<1>2. IInv /\ NothingInvented /\ IInv' /\ NothingInvented' /\ [Next]_vars => [Shrinks]_vars
  BY MeasureShrinks
<1> QED
  BY <1>1, <1>2, Invariant, NothingIsInvented, PTL DEF Spec
=============================================================================
