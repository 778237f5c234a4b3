-------------------------- MODULE MiniQuicWinProofs --------------------------
(***************************************************************************)
(* Theorems about MiniQuicWin: what it shares with MiniQuic, and that an   *)
(* error of a publisher's socket does what a timeout could have done.      *)
(***************************************************************************)
EXTENDS MiniQuicWin, MiniQuicProofs

USE ProcessesAssumption, LimitsAssumption DEF Clients, FirstEvent, LastEvent

------------------------------------------------------------------------------
(* Every step is one of MiniQuic, or the end of a wait                     *)

\* An error that ends the wait of publisher p.
WaitEnds(p) ==
    /\ ppc[p] = "wait" /\ TryAgain(p)
    /\ UNCHANGED <<cid, subVars, brokerVars, toBroker, inbox, losses>>

LEMMA WinStep ==
    ASSUME [WinNext]_winVars
    PROVE  [Next]_vars \/ \E p \in Pubs : WaitEnds(p)
<1>1. ASSUME NEW p \in Pubs, WinPublisher(p)
      PROVE  PubSend(p) \/ PubRecv(p) \/ PubTimeout(p) \/ WaitEnds(p)
  BY <1>1 DEF WinPublisher, WinPubSend, WinPubRecv, WinPubTimeout, WinPubError,
              EndTheWait, WaitEnds
<1>2. ASSUME NEW s \in Subs, WinSubscribe(s) \/ WinSubRecv(s) \/ WinSubQuit(s)
      PROVE  Subscribe(s) \/ SubRecv(s) \/ SubQuit(s)
  BY <1>2 DEF WinSubscribe, WinSubRecv, WinSubQuit
<1>3. ASSUME NEW c \in Clients, WinUnreachable(c)
      PROVE  Unreachable(c)
  BY <1>3 DEF WinUnreachable
<1>4. WinBroker => BrokerNext
  BY DEF WinBroker, BrokerNext, WinHandshake, WinData, WinAck, WinRetransmit,
         WinGiveUp, WinBrokerStop, WinBrokerStart
<1>5. UNCHANGED winVars => UNCHANGED vars
  BY DEF winVars
<1> QED
  BY <1>1, <1>2, <1>3, <1>4, <1>5 DEF WinNext, Next

LEMMA WinStepInv ==
    ASSUME Inv, BootInv, [WinNext]_winVars
    PROVE  Inv' /\ BootInv'
<1>1. ASSUME NEW p \in Pubs, WaitEnds(p)
      PROVE  Inv' /\ BootInv'
  BY <1>1, WaitEndsInv DEF WaitEnds, BootInv, brokerVars, runVars
<1>2. Inv => TypeOK
  BY DEF Inv
<1> QED
  BY <1>1, <1>2, WinStep, NextInv, NextBootInv

LEMMA WinInvHolds == WinSpec => [](Inv /\ BootInv)
<1>1. WinInit => Inv /\ BootInv
  BY InitInv DEF WinInit
<1>2. Inv /\ BootInv /\ [WinNext]_winVars => Inv' /\ BootInv'
  BY WinStepInv
<1> QED
  BY <1>1, <1>2, PTL DEF WinSpec

------------------------------------------------------------------------------
(* How many datagrams the path of a publisher can hold                     *)

OnPath(p) == Len(toBroker[p]) + Len(inbox[p])

\* The packets a publisher has sent: all attempts for each one before this,
\* which is generous, and the attempts made for this one.
SentUpTo(n, a, pc) == (n - 1) * (PubRetries + 1) + a + (IF pc = "send" THEN 0 ELSE 1)

PathBounded(p) == OnPath(p) <= SentUpTo(num[p], attempt[p], ppc[p])

PathInv == \A p \in Pubs : PathBounded(p)

\* Every attempt for one more packet fits into the count.
LEMMA OnePacketMore ==
    ASSUME NEW n \in Nat \ {0}, NEW a \in 0..PubRetries
    PROVE  /\ (n - 1) * (PubRetries + 1) \in Nat
           /\ n * (PubRetries + 1) \in Nat
           /\ (n - 1) * (PubRetries + 1) + a + 1 <= n * (PubRetries + 1)
<1> DEFINE K == PubRetries + 1
           m == n - 1
<1>1. m \in Nat /\ K \in Nat /\ n = m + 1 /\ a + 1 <= K
  OBVIOUS
<1> HIDE DEF K, m
<1>2. m * K \in Nat
  BY <1>1
<1>3. (m + 1) * K = m * K + K
  BY <1>1
<1>4. n * K = m * K + K
  BY <1>1, <1>3
<1>5. m * K + a + 1 <= n * K /\ n * K \in Nat
  BY <1>1, <1>2, <1>4
<1> QED
  BY <1>2, <1>5 DEF K, m

LEMMA AttemptsCounted ==
    ASSUME TypeOK, NEW p \in Pubs, ppc[p] = "wait"
    PROVE  /\ TryAgain(p) =>
                  SentUpTo(num'[p], attempt'[p], ppc'[p])
                      = SentUpTo(num[p], attempt[p], ppc[p])
           /\ NextPacket(p) =>
                  SentUpTo(num'[p], attempt'[p], ppc'[p])
                      >= SentUpTo(num[p], attempt[p], ppc[p])
           /\ SentUpTo(num[p], attempt[p], ppc[p]) \in Nat
           /\ \A q \in Pubs \ {p} : (TryAgain(p) \/ NextPacket(p)) =>
                  num'[q] = num[q] /\ attempt'[q] = attempt[q] /\ ppc'[q] = ppc[q]
<1> DEFINE base == (num[p] - 1) * (PubRetries + 1)
           next == num[p] * (PubRetries + 1)
<1>1. /\ num \in [Pubs -> 1..(LastEvent + 1)] /\ attempt \in [Pubs -> 0..PubRetries]
      /\ ppc \in [Pubs -> {"send", "wait", "done", "aborted"}]
  BY DEF TypeOK
<1>2. num[p] \in Nat \ {0} /\ attempt[p] \in 0..PubRetries
  BY <1>1
<1>3. base \in Nat /\ next \in Nat /\ base + attempt[p] + 1 <= next
  BY <1>2, OnePacketMore
<1>4. SentUpTo(num[p], attempt[p], ppc[p]) = base + attempt[p] + 1
  BY DEF SentUpTo
<1>5. ASSUME TryAgain(p)
      PROVE  SentUpTo(num'[p], attempt'[p], ppc'[p]) = base + attempt[p] + 1
  <2>1. CASE attempt[p] < PubRetries
    <3>1. num'[p] = num[p] /\ attempt'[p] = attempt[p] + 1 /\ ppc'[p] = "send"
      BY <1>1, <1>5, <2>1 DEF TryAgain
    <3>2. SentUpTo(num'[p], attempt'[p], ppc'[p]) = base + (attempt[p] + 1) + 0
      BY <3>1 DEF SentUpTo
    <3> HIDE DEF base
    <3> QED
      BY <1>2, <1>3, <3>2
  <2>2. CASE ~(attempt[p] < PubRetries)
    <3>1. num'[p] = num[p] /\ attempt'[p] = attempt[p] /\ ppc'[p] = "aborted"
      BY <1>1, <1>5, <2>2 DEF TryAgain
    <3> QED
      BY <3>1 DEF SentUpTo
  <2> QED
    BY <2>1, <2>2
<1>6. ASSUME NextPacket(p)
      PROVE  SentUpTo(num'[p], attempt'[p], ppc'[p]) >= next
  <2>1. num'[p] = num[p] + 1 /\ attempt'[p] = 0
    BY <1>1, <1>6 DEF NextPacket
  <2>2. num'[p] - 1 = num[p]
    BY <1>2, <2>1
  <2>3. SentUpTo(num'[p], attempt'[p], ppc'[p])
            = next + 0 + (IF ppc'[p] = "send" THEN 0 ELSE 1)
    BY <2>1, <2>2 DEF SentUpTo
  <2> HIDE DEF next
  <2> QED
    BY <1>3, <2>3
<1>7. \A q \in Pubs \ {p} : (TryAgain(p) \/ NextPacket(p)) =>
          num'[q] = num[q] /\ attempt'[q] = attempt[q] /\ ppc'[q] = ppc[q]
  BY <1>1 DEF TryAgain, NextPacket
<1>8. ASSUME NextPacket(p)
      PROVE  SentUpTo(num'[p], attempt'[p], ppc'[p])
                 >= SentUpTo(num[p], attempt[p], ppc[p])
  <2>1. SentUpTo(num'[p], attempt'[p], ppc'[p]) >= next
    BY <1>6, <1>8
  <2>2. SentUpTo(num'[p], attempt'[p], ppc'[p]) \in Nat
    <3>1. num'[p] = num[p] + 1 /\ attempt'[p] = 0 /\ num'[p] - 1 = num[p]
      BY <1>1, <1>2, <1>8 DEF NextPacket
    <3>2. SentUpTo(num'[p], attempt'[p], ppc'[p])
              = next + 0 + (IF ppc'[p] = "send" THEN 0 ELSE 1)
      BY <3>1 DEF SentUpTo
    <3> HIDE DEF next
    <3> QED
      BY <1>3, <3>2
  <2> HIDE DEF base, next
  <2> QED
    BY <1>2, <1>3, <1>4, <2>1, <2>2
<1>9. SentUpTo(num[p], attempt[p], ppc[p]) \in Nat
  <2> HIDE DEF base
  <2> QED
    BY <1>2, <1>3, <1>4
<1> QED
  BY <1>4, <1>5, <1>7, <1>8, <1>9

LEMMA SentIsInt ==
    ASSUME NEW n \in Nat, NEW a \in Nat, NEW pc
    PROVE  SentUpTo(n, a, pc) \in Int
<1> DEFINE base == (n - 1) * (PubRetries + 1)
<1>1. n - 1 \in Int /\ PubRetries + 1 \in Int
  OBVIOUS
<1>2. base \in Int
  BY <1>1
<1>3. SentUpTo(n, a, pc) = base + a + (IF pc = "send" THEN 0 ELSE 1)
  BY DEF SentUpTo
<1> HIDE DEF base
<1> QED
  BY <1>2, <1>3

LEMMA SentLength ==
    ASSUME TypeOK, NEW c \in Clients, NEW pkt, SendToBroker(c, pkt)
    PROVE  /\ Len(toBroker'[c]) <= Len(toBroker[c]) + 1
           /\ \A d \in Clients \ {c} : toBroker'[d] = toBroker[d]
  BY DEF TypeOK, SendToBroker

LEMMA ReadLength ==
    ASSUME NEW queue \in [Clients -> Seq(Packet)], NEW c \in Clients,
           NEW k \in Receivable(queue[c])
    PROVE  /\ Len([queue EXCEPT ![c] = Without(@, k)][c]) = Len(queue[c]) - 1
           /\ \A d \in Clients \ {c} : [queue EXCEPT ![c] = Without(@, k)][d] = queue[d]
<1>1. k \in DOMAIN queue[c] /\ queue[c] \in Seq(Packet)
  BY DEF Receivable
<1>2. Len(Without(queue[c], k)) = Len(queue[c]) - 1
  BY <1>1, WithoutKeepsTheRest
<1> QED
  BY <1>2

LEMMA DeliveredLength ==
    ASSUME TypeOK, NEW pkts, SendToClients(pkts), NEW c \in Clients
    PROVE  /\ Len(inbox'[c]) <= Len(inbox[c]) + 1
           /\ c \notin DOMAIN pkts => inbox'[c] = inbox[c]
<1>1. inbox[c] \in Seq(Packet)
  BY DEF TypeOK
<1>2. inbox'[c] = inbox[c] \/ inbox'[c] = Append(inbox[c], pkts[c])
  BY DEF SendToClients
<1>3. c \notin DOMAIN pkts => inbox'[c] = inbox[c]
  BY DEF SendToClients
<1>4. Len(Append(inbox[c], pkts[c])) = Len(inbox[c]) + 1
  BY <1>1
<1> QED
  BY <1>1, <1>2, <1>3, <1>4

\* A path on which no datagram is added stays within the bound of its publisher.
LEMMA NoMoreOnPath ==
    ASSUME TypeOK, TypeOK', NEW p \in Pubs, PathBounded(p),
           num'[p] = num[p], attempt'[p] = attempt[p], ppc'[p] = ppc[p],
           Len(toBroker'[p]) + Len(inbox'[p]) <= Len(toBroker[p]) + Len(inbox[p])
    PROVE  PathBounded(p)'
<1> DEFINE bound == SentUpTo(num[p], attempt[p], ppc[p])
           a == Len(toBroker[p])
           b == Len(inbox[p])
           c == Len(toBroker'[p])
           d == Len(inbox'[p])
<1>1. SentUpTo(num'[p], attempt'[p], ppc'[p]) = bound
  BY DEF SentUpTo
<1>2. a \in Nat /\ b \in Nat
  BY SMTT(30) DEF TypeOK
<1>3. c \in Nat /\ d \in Nat
  BY SMTT(30) DEF TypeOK
<1>4. bound \in Int
  <2>1. num[p] \in Nat /\ attempt[p] \in Nat
    BY SMTT(30) DEF TypeOK
  <2> QED
    BY <2>1, SentIsInt
<1>5. a + b <= bound
  BY DEF PathBounded, OnPath
<1>6. c + d <= a + b
  OBVIOUS
<1>7. c + d <= bound
  <2> HIDE DEF bound, a, b, c, d
  <2> QED
    BY <1>2, <1>3, <1>4, <1>5, <1>6
<1> QED
  BY <1>1, <1>7 DEF PathBounded, OnPath

\* A datagram that arrives leaves room for its answer on the same path.
LEMMA OneForOne ==
    ASSUME NEW a \in Nat, NEW b \in Nat, NEW c \in Nat, NEW d \in Nat,
           c = a - 1, d <= b + 1
    PROVE  c + d <= a + b
  OBVIOUS

LEMMA QueueLengths ==
    ASSUME TypeOK, NEW c \in Clients
    PROVE  Len(toBroker[c]) \in Nat /\ Len(inbox[c]) \in Nat
  BY DEF TypeOK

LEMMA QueueLengthsNext ==
    ASSUME TypeOK', NEW c \in Clients
    PROVE  Len(toBroker'[c]) \in Nat /\ Len(inbox'[c]) \in Nat
  BY DEF TypeOK

LEMMA SendPath ==
    ASSUME TypeOK, TypeOK', NEW p \in Pubs, PathBounded(p), PubSend(p)
    PROVE  PathBounded(p)'
<1> DEFINE pkt == IF num[p] = 1 THEN Handshake(p) ELSE Data(p)
           base == (num[p] - 1) * (PubRetries + 1)
           a == Len(toBroker[p])
           b == Len(inbox[p])
           c == Len(toBroker'[p])
<1>1. SendToBroker(p, pkt)
  BY DEF PubSend
<1> HIDE DEF pkt
<1>2. c <= a + 1
  BY <1>1, SentLength
<1>3. num'[p] = num[p] /\ attempt'[p] = attempt[p] /\ inbox'[p] = inbox[p]
  BY DEF PubSend
<1>4. ppc[p] = "send" /\ ppc'[p] = "wait"
  BY DEF PubSend, TypeOK
<1>5. SentUpTo(num[p], attempt[p], ppc[p]) = base + attempt[p] + 0
  BY <1>4 DEF SentUpTo
<1>6. SentUpTo(num'[p], attempt'[p], ppc'[p]) = base + attempt[p] + 1
  BY <1>3, <1>4 DEF SentUpTo
<1>7. base \in Int /\ attempt[p] \in Int
  BY SMTT(30) DEF TypeOK
<1>8. a \in Nat /\ b \in Nat /\ c \in Nat
  BY SMTT(30) DEF TypeOK
<1>9. a + b <= base + attempt[p] + 0
  BY <1>5 DEF PathBounded, OnPath
<1>10. c + b <= base + attempt[p] + 1
  <2> HIDE DEF a, b, c, base
  <2> QED
    BY <1>2, <1>7, <1>8, <1>9
<1> QED
  BY <1>3, <1>6, <1>10 DEF PathBounded, OnPath

LEMMA WaitPath ==
    ASSUME TypeOK, TypeOK', NEW p \in Pubs, PathBounded(p), ppc[p] = "wait",
           TryAgain(p) \/ NextPacket(p),
           Len(toBroker'[p]) + Len(inbox'[p]) <= Len(toBroker[p]) + Len(inbox[p])
    PROVE  PathBounded(p)'
<1> DEFINE bound == SentUpTo(num[p], attempt[p], ppc[p])
           new == SentUpTo(num'[p], attempt'[p], ppc'[p])
           a == Len(toBroker[p])
           b == Len(inbox[p])
           c == Len(toBroker'[p])
           d == Len(inbox'[p])
<1>1. bound \in Int /\ new \in Int
  <2>1. num[p] \in Nat /\ attempt[p] \in Nat /\ num'[p] \in Nat /\ attempt'[p] \in Nat
    BY SMTT(30) DEF TypeOK
  <2> QED
    BY <2>1, SentIsInt
<1>2. new >= bound
  <2>1. TryAgain(p) => new = bound
    BY AttemptsCounted
  <2>2. NextPacket(p) => new >= bound
    BY AttemptsCounted
  <2> HIDE DEF bound, new
  <2> QED
    BY <1>1, <2>1, <2>2
<1>3. a \in Nat /\ b \in Nat
  BY SMTT(30) DEF TypeOK
<1>4. c \in Nat /\ d \in Nat
  BY SMTT(30) DEF TypeOK
<1>5. a + b <= bound
  BY DEF PathBounded, OnPath
<1>6. c + d <= a + b
  OBVIOUS
<1>7. c + d <= new
  <2> HIDE DEF bound, new, a, b, c, d
  <2> QED
    BY <1>1, <1>2, <1>3, <1>4, <1>5, <1>6
<1> QED
  BY <1>7 DEF PathBounded, OnPath

\* Fewer datagrams one way, and no more the other way.
LEMMA SamePath ==
    ASSUME TypeOK, TypeOK', NEW p \in Pubs,
           Len(toBroker'[p]) <= Len(toBroker[p]), Len(inbox'[p]) <= Len(inbox[p])
    PROVE  Len(toBroker'[p]) + Len(inbox'[p]) <= Len(toBroker[p]) + Len(inbox[p])
<1> DEFINE a == Len(toBroker[p])
           b == Len(inbox[p])
           c == Len(toBroker'[p])
           d == Len(inbox'[p])
<1>1. a \in Nat /\ b \in Nat
  BY SMTT(30) DEF TypeOK
<1>2. c \in Nat /\ d \in Nat
  BY SMTT(30) DEF TypeOK
<1>3. c <= a /\ d <= b
  OBVIOUS
<1>4. c + d <= a + b
  <2> HIDE DEF a, b, c, d
  <2> QED
    BY <1>1, <1>2, <1>3
<1> QED
  BY <1>4

\* The broker reads a datagram and answers it on the same path.
LEMMA AnswerPath ==
    ASSUME TypeOK, TypeOK', NEW p \in Pubs, PathBounded(p), UNCHANGED pubVars,
           NEW c \in Clients, NEW k \in Receivable(toBroker[c]),
           toBroker' = [toBroker EXCEPT ![c] = Without(@, k)],
           NEW pkts, SendToClients(pkts), p # c => p \notin DOMAIN pkts
    PROVE  PathBounded(p)'
<1>1. num'[p] = num[p] /\ attempt'[p] = attempt[p] /\ ppc'[p] = ppc[p]
  BY DEF pubVars
<1>2. toBroker \in [Clients -> Seq(Packet)]
  BY DEF TypeOK
<1>3. /\ Len(toBroker'[c]) = Len(toBroker[c]) - 1
      /\ \A d \in Clients \ {c} : toBroker'[d] = toBroker[d]
  BY <1>2, ReadLength
<1>4. /\ Len(inbox'[p]) <= Len(inbox[p]) + 1
      /\ p \notin DOMAIN pkts => inbox'[p] = inbox[p]
  BY DeliveredLength
<1>5. Len(toBroker'[p]) + Len(inbox'[p]) <= Len(toBroker[p]) + Len(inbox[p])
  <2>1. CASE p = c
    <3> DEFINE a0 == Len(toBroker[p])
               b0 == Len(inbox[p])
               c0 == Len(toBroker'[p])
               d0 == Len(inbox'[p])
    <3>1. a0 \in Nat /\ b0 \in Nat
      BY QueueLengths
    <3>2. c0 \in Nat /\ d0 \in Nat
      BY QueueLengthsNext
    <3>3. c0 = a0 - 1 /\ d0 <= b0 + 1
      BY <1>3, <1>4, <2>1
    <3>4. c0 + d0 <= a0 + b0
      <4> HIDE DEF a0, b0, c0, d0
      <4> QED
        BY <3>1, <3>2, <3>3, OneForOne
    <3> QED
      BY <3>4
  <2>2. CASE p # c
    <3>1. toBroker'[p] = toBroker[p] /\ inbox'[p] = inbox[p]
      BY <1>3, <1>4, <2>2
    <3>2. Len(toBroker'[p]) <= Len(toBroker[p]) /\ Len(inbox'[p]) <= Len(inbox[p])
      BY <3>1, QueueLengths
    <3> QED
      BY <3>2, SamePath
  <2> QED
    BY <2>1, <2>2
<1> QED
  BY <1>1, <1>5, NoMoreOnPath

\* A datagram is read, or lost at a closed port, and nothing is sent.
LEMMA ReadPath ==
    ASSUME TypeOK, TypeOK', NEW p \in Pubs, PathBounded(p), UNCHANGED pubVars,
           NEW c \in Clients, NEW k \in Receivable(toBroker[c]),
           toBroker' = [toBroker EXCEPT ![c] = Without(@, k)],
           inbox' = inbox
    PROVE  PathBounded(p)'
<1>1. toBroker \in [Clients -> Seq(Packet)]
  BY DEF TypeOK
<1>2. /\ Len(toBroker'[c]) = Len(toBroker[c]) - 1
      /\ \A d \in Clients \ {c} : toBroker'[d] = toBroker[d]
  BY <1>1, ReadLength
<1>3. Len(toBroker[p]) \in Nat /\ Len(inbox[p]) \in Nat
  BY QueueLengths
<1>4. Len(toBroker'[p]) <= Len(toBroker[p])
  BY <1>2, <1>3
<1>5. Len(inbox'[p]) <= Len(inbox[p])
  BY <1>3
<1>6. num'[p] = num[p] /\ attempt'[p] = attempt[p] /\ ppc'[p] = ppc[p]
  BY DEF pubVars
<1> QED
  BY <1>4, <1>5, <1>6, SamePath, NoMoreOnPath

LEMMA PublisherPath ==
    ASSUME TypeOK, TypeOK', NEW p \in Pubs, PathBounded(p), NEW q \in Pubs,
           PubSend(q) \/ PubRecv(q) \/ PubTimeout(q) \/ WaitEnds(q)
    PROVE  PathBounded(p)'
<1>1. CASE PubSend(q)
  <2>1. CASE p = q
    BY <1>1, <2>1, SendPath
  <2>2. CASE p # q
    <3> DEFINE pkt == IF num[q] = 1 THEN Handshake(q) ELSE Data(q)
    <3>1. SendToBroker(q, pkt)
      BY <1>1 DEF PubSend
    <3> HIDE DEF pkt
    <3>2. toBroker'[p] = toBroker[p]
      BY <2>2, <3>1, SentLength
    <3>3. /\ num' = num /\ attempt' = attempt /\ inbox' = inbox
          /\ ppc'[p] = ppc[p]
      BY <1>1, <2>2 DEF PubSend, TypeOK
    <3>4. Len(toBroker'[p]) <= Len(toBroker[p]) /\ Len(inbox'[p]) <= Len(inbox[p])
      BY <3>2, <3>3, QueueLengths
    <3> QED
      BY <3>3, <3>4, SamePath, NoMoreOnPath
  <2> QED
    BY <2>1, <2>2
<1>2. ASSUME ppc[q] = "wait", TryAgain(q) \/ NextPacket(q),
             Len(toBroker'[p]) <= Len(toBroker[p]), Len(inbox'[p]) <= Len(inbox[p])
      PROVE  PathBounded(p)'
  <2>1. Len(toBroker'[p]) + Len(inbox'[p]) <= Len(toBroker[p]) + Len(inbox[p])
    BY <1>2, SamePath
  <2>2. CASE p = q
    BY <1>2, <2>1, <2>2, WaitPath
  <2>3. CASE p # q
    <3>1. num'[p] = num[p] /\ attempt'[p] = attempt[p] /\ ppc'[p] = ppc[p]
      BY <1>2, <2>3, AttemptsCounted
    <3> QED
      BY <2>1, <3>1, NoMoreOnPath
  <2> QED
    BY <2>2, <2>3
<1>3. CASE PubRecv(q)
  <2>1. PICK k \in Receivable(inbox[q]) :
            /\ inbox' = [inbox EXCEPT ![q] = Without(@, k)]
            /\ IF Acknowledges(q, inbox[q][k]) THEN NextPacket(q) ELSE TryAgain(q)
    BY <1>3 DEF PubRecv
  <2>2. ppc[q] = "wait" /\ toBroker' = toBroker
    BY <1>3 DEF PubRecv
  <2>3. inbox \in [Clients -> Seq(Packet)]
    BY DEF TypeOK
  <2>4. /\ Len(inbox'[q]) = Len(inbox[q]) - 1
        /\ \A d \in Clients \ {q} : inbox'[d] = inbox[d]
    BY <2>1, <2>3, ReadLength
  <2>5. Len(inbox'[p]) <= Len(inbox[p])
    <3>1. Len(inbox[p]) \in Nat
      BY QueueLengths
    <3> QED
      BY <2>4, <3>1
  <2>6. Len(toBroker'[p]) <= Len(toBroker[p])
    BY <2>2, QueueLengths
  <2> QED
    BY <1>2, <2>1, <2>2, <2>5, <2>6
<1>4. CASE PubTimeout(q) \/ WaitEnds(q)
  <2>1. ppc[q] = "wait" /\ TryAgain(q) /\ toBroker' = toBroker /\ inbox' = inbox
    BY <1>4 DEF PubTimeout, WaitEnds
  <2>2. Len(toBroker'[p]) <= Len(toBroker[p]) /\ Len(inbox'[p]) <= Len(inbox[p])
    BY <2>1, QueueLengths
  <2> QED
    BY <1>2, <2>1, <2>2
<1> QED
  BY <1>1, <1>3, <1>4

LEMMA BrokerPath ==
    ASSUME TypeOK, TypeOK', TableInv, NEW p \in Pubs, PathBounded(p), BrokerNext
    PROVE  PathBounded(p)'
<1>1. ASSUME NEW c \in Clients, BrokerHandshake(c)
      PROVE  PathBounded(p)'
  <2>1. PICK k \in Receivable(toBroker[c]) :
            /\ toBroker' = [toBroker EXCEPT ![c] = Without(@, k)]
            /\ SendToClients([d \in {c} |-> Ack(toBroker[c][k])])
    BY <1>1 DEF BrokerHandshake
  <2>2. UNCHANGED pubVars
    BY <1>1 DEF BrokerHandshake
  <2> DEFINE pkts == [d \in {c} |-> Ack(toBroker[c][k])]
  <2>3. p # c => p \notin DOMAIN pkts
    OBVIOUS
  <2>4. SendToClients(pkts)
    BY <2>1
  <2> HIDE DEF pkts
  <2> QED
    BY <2>1, <2>2, <2>3, <2>4, AnswerPath
<1>2. ASSUME NEW q \in Pubs, BrokerData(q)
      PROVE  PathBounded(p)'
  <2> DEFINE to == {subs[i].addr : i \in DOMAIN subs}
             slotOf(s) == subs[CHOOSE i \in DOMAIN subs : subs[i].addr = s]
             made(pkt) == [c \in {q} \cup to |->
                              IF c = q THEN Ack(pkt) ELSE Forwarded(slotOf(c), pkt)]
  <2>1. PICK k \in Receivable(toBroker[q]) :
            /\ toBroker' = [toBroker EXCEPT ![q] = Without(@, k)]
            /\ SendToClients(made(toBroker[q][k]))
    BY <1>2 DEF BrokerData
  <2>2. UNCHANGED pubVars
    BY <1>2 DEF BrokerData
  <2>3. p \notin to
    BY DEF TableInv, Entry
  <2> DEFINE pkts == made(toBroker[q][k])
  <2>4. DOMAIN pkts = {q} \cup to
    OBVIOUS
  <2>5. SendToClients(pkts)
    BY <2>1
  <2> HIDE DEF pkts, to, made
  <2>6. p # q => p \notin DOMAIN pkts
    BY <2>3, <2>4
  <2> QED
    BY <2>1, <2>2, <2>5, <2>6, AnswerPath
<1>3. ASSUME UNCHANGED pubVars, NEW c \in Clients, NEW k \in Receivable(toBroker[c]),
             toBroker' = [toBroker EXCEPT ![c] = Without(@, k)],
             inbox' = inbox
      PROVE  PathBounded(p)'
  BY <1>3, ReadPath
<1>4. ASSUME UNCHANGED pubVars, toBroker' = toBroker, inbox'[p] = inbox[p]
      PROVE  PathBounded(p)'
  <2>1. Len(toBroker'[p]) <= Len(toBroker[p]) /\ Len(inbox'[p]) <= Len(inbox[p])
    BY <1>4, QueueLengths
  <2>2. num'[p] = num[p] /\ attempt'[p] = attempt[p] /\ ppc'[p] = ppc[p]
    BY <1>4 DEF pubVars
  <2> QED
    BY <2>1, <2>2, SamePath, NoMoreOnPath
<1>5. ASSUME NEW s \in Subs, BrokerAck(s)
      PROVE  PathBounded(p)'
  BY <1>3, <1>5 DEF BrokerAck
<1>6. ASSUME NEW i \in 1..MaxSubs, Retransmit(i)
      PROVE  PathBounded(p)'
  <2> DEFINE pkts == [c \in {subs[i].addr} |-> subs[i].out]
  <2>1. SendToClients(pkts) /\ i \in DOMAIN subs
    BY <1>6 DEF Retransmit, Due
  <2>2. p \notin DOMAIN pkts
    BY <2>1 DEF TableInv, Entry
  <2> HIDE DEF pkts
  <2>3. inbox'[p] = inbox[p]
    BY <2>1, <2>2, DeliveredLength
  <2> QED
    BY <1>4, <1>6, <2>3 DEF Retransmit
<1>7. ASSUME NEW i \in 1..MaxSubs, GiveUp(i)
      PROVE  PathBounded(p)'
  BY <1>4, <1>7 DEF GiveUp
<1>8. CASE BrokerStop \/ BrokerStart
  BY <1>4, <1>8 DEF BrokerStop, BrokerStart
<1> QED
  BY <1>1, <1>2, <1>5, <1>6, <1>7, <1>8 DEF BrokerNext

LEMMA SamePathBounded ==
    ASSUME TypeOK, TypeOK', NEW p \in Pubs, PathBounded(p), UNCHANGED pubVars,
           toBroker'[p] = toBroker[p], inbox'[p] = inbox[p]
    PROVE  PathBounded(p)'
<1>1. Len(toBroker'[p]) <= Len(toBroker[p]) /\ Len(inbox'[p]) <= Len(inbox[p])
  BY QueueLengths
<1>2. num'[p] = num[p] /\ attempt'[p] = attempt[p] /\ ppc'[p] = ppc[p]
  BY DEF pubVars
<1> QED
  BY <1>1, <1>2, SamePath, NoMoreOnPath

LEMMA SubscriberElsewhere ==
    ASSUME TypeOK, NEW s \in Subs, Subscribe(s) \/ SubRecv(s) \/ SubQuit(s),
           NEW p \in Pubs
    PROVE  toBroker'[p] = toBroker[p] /\ inbox'[p] = inbox[p] /\ UNCHANGED pubVars
<1>1. p # s
  OBVIOUS
<1>2. CASE Subscribe(s)
  <2>1. SendToBroker(s, Handshake(s)) /\ inbox' = inbox /\ UNCHANGED pubVars
    BY <1>2 DEF Subscribe
  <2> QED
    BY <1>1, <2>1, SentLength
<1>3. CASE SubRecv(s)
  <2>1. PICK k \in Receivable(inbox[s]) :
            /\ inbox' = [inbox EXCEPT ![s] = Without(@, k)]
            /\ \/ SendToBroker(s, Ack(inbox[s][k]))
               \/ toBroker' = toBroker
    BY <1>3 DEF SubRecv
  <2> DEFINE pkt == Ack(inbox[s][k])
  <2>2. SendToBroker(s, pkt) \/ toBroker' = toBroker
    BY <2>1
  <2> HIDE DEF pkt
  <2>3. toBroker'[p] = toBroker[p]
    BY <1>1, <2>2, SentLength
  <2>4. inbox'[p] = inbox[p]
    BY <1>1, <2>1 DEF TypeOK
  <2>5. UNCHANGED pubVars
    BY <1>3 DEF SubRecv
  <2> QED
    BY <2>3, <2>4, <2>5
<1>4. CASE SubQuit(s)
  BY <1>1, <1>4 DEF SubQuit, TypeOK
<1> QED
  BY <1>2, <1>3, <1>4

LEMMA PathStep ==
    ASSUME Inv, BootInv, PathInv, [WinNext]_winVars
    PROVE  PathInv'
<1>1. TypeOK /\ TableInv
  BY DEF Inv
<1>2. Inv'
  BY WinStepInv
<1>3. TypeOK'
  BY <1>2 DEF Inv
<1>4. [Next]_vars \/ \E q \in Pubs : WaitEnds(q)
  BY WinStep
<1>5. ASSUME NEW p \in Pubs
      PROVE  PathBounded(p)'
  <2>1. PathBounded(p)
    BY DEF PathInv
  <2>2. ASSUME NEW q \in Pubs, PubSend(q) \/ PubRecv(q) \/ PubTimeout(q) \/ WaitEnds(q)
        PROVE  PathBounded(p)'
    BY <1>1, <1>3, <2>1, <2>2, PublisherPath
  <2>3. CASE BrokerNext
    BY <1>1, <1>3, <2>1, <2>3, BrokerPath
  <2>4. ASSUME NEW s \in Subs, Subscribe(s) \/ SubRecv(s) \/ SubQuit(s)
        PROVE  PathBounded(p)'
    <3>1. p # s
      OBVIOUS
    <3>2. toBroker'[p] = toBroker[p] /\ inbox'[p] = inbox[p] /\ UNCHANGED pubVars
      BY <1>1, <2>4, <3>1, SubscriberElsewhere
    <3> QED
      BY <1>1, <1>3, <2>1, <3>2, SamePathBounded
  <2>5. ASSUME NEW c \in Clients, Unreachable(c)
        PROVE  PathBounded(p)'
    <3>1. PICK k \in Receivable(toBroker[c]) :
              toBroker' = [toBroker EXCEPT ![c] = Without(@, k)]
      BY <2>5 DEF Unreachable
    <3>2. UNCHANGED pubVars /\ inbox' = inbox
      BY <2>5 DEF Unreachable
    <3> QED
      BY <1>1, <1>3, <2>1, <3>1, <3>2, ReadPath
  <2>6. CASE UNCHANGED vars
    <3>1. toBroker'[p] = toBroker[p] /\ inbox'[p] = inbox[p] /\ UNCHANGED pubVars
      BY <2>6 DEF vars, pubVars
    <3> QED
      BY <1>1, <1>3, <2>1, <3>1, SamePathBounded
  <2> QED
    BY <1>4, <2>2, <2>3, <2>4, <2>5, <2>6 DEF Next
<1> QED
  BY <1>5 DEF PathInv

LEMMA PathInit == WinInit => PathInv
<1> SUFFICES ASSUME WinInit, NEW p \in Pubs
             PROVE  PathBounded(p)
  BY DEF PathInv
<1>1. toBroker[p] = <<>> /\ inbox[p] = <<>>
  BY DEF WinInit, Init
<1>2. num[p] = 1 /\ attempt[p] = 0 /\ ppc[p] = "send"
  BY DEF WinInit, Init
<1>3. OnPath(p) = 0
  BY <1>1 DEF OnPath
<1>4. (num[p] - 1) * (PubRetries + 1) = 0
  BY <1>2
<1>5. SentUpTo(num[p], attempt[p], ppc[p]) = 0
  BY <1>2, <1>4 DEF SentUpTo
<1> QED
  BY <1>3, <1>5 DEF PathBounded

LEMMA PathHolds == WinSpec => []PathInv
<1>1. Inv /\ BootInv /\ PathInv /\ [WinNext]_winVars => PathInv'
  BY PathStep
<1> QED
  BY <1>1, PathInit, WinInvHolds, PTL DEF WinSpec

\* However late an error is, the publisher's timer could have run out as well.
LEMMA EarlyEnough ==
    ASSUME Inv, PathInv, NEW p \in Pubs, ppc[p] = "wait"
    PROVE  OnPath(p) <= AtAnyTime
<1> DEFINE K == PubRetries + 1
           bound == (num[p] - 1) * K
           n == num[p]
           a == attempt[p]
<1>1. n \in Nat \ {0} /\ n <= LastEvent /\ a \in 0..PubRetries
  BY DEF Inv, TypeOK, ProgressInv
<1>2. bound \in Nat /\ n * K \in Nat /\ bound + a + 1 <= n * K
  BY <1>1, OnePacketMore
<1>3. SentUpTo(num[p], attempt[p], ppc[p]) = bound + a + 1
  BY DEF SentUpTo
<1>4. OnPath(p) <= bound + a + 1
  BY <1>3 DEF PathInv, PathBounded
<1>5. n * K <= K * LastEvent /\ K * LastEvent \in Nat
  <2> DEFINE d == LastEvent - n
             m == LastEvent
  <2>1. d \in Nat /\ m \in Nat /\ K \in Nat /\ m = n + d /\ n \in Nat
    BY <1>1
  <2> HIDE DEF n, d, K, m
  <2>2. K * (n + d) = n * K + d * K
    BY <2>1
  <2>3. d * K \in Nat /\ n * K \in Nat
    BY <2>1
  <2>4. n * K <= K * m /\ K * m \in Nat
    BY <2>1, <2>2, <2>3
  <2> QED
    BY <2>4 DEF m
<1>6. OnPath(p) \in Int
  <2> DEFINE x == Len(toBroker[p])
             y == Len(inbox[p])
  <2>1. x \in Nat /\ y \in Nat
    BY QueueLengths DEF Inv
  <2>2. x + y \in Int
    <3> HIDE DEF x, y
    <3> QED
      BY <2>1
  <2> QED
    BY <2>2 DEF OnPath
<1>7. AtAnyTime = Early + K * LastEvent
  BY DEF AtAnyTime
<1> DEFINE path == OnPath(p)
           all == K * LastEvent
<1>8. path <= Early + all
  <2>1. path \in Int /\ all \in Nat /\ n * K <= all /\ path <= bound + a + 1
    BY <1>4, <1>5, <1>6
  <2> HIDE DEF path, all, bound, n, K, a
  <2> QED
    BY <1>1, <1>2, <2>1
<1> QED
  BY <1>7, <1>8

------------------------------------------------------------------------------
(* The port implements MiniQuic with timers that run out at any time       *)

LEMMA SameCardinality == \A S : Cardinality(S) = Posix!Cardinality(S)
  BY DEF Cardinality, Posix!Cardinality

\* The steps that no timer brings about are the same in both.
LEMMA SameSends ==
    /\ \A c, pkt : SendToBroker(c, pkt) <=> Posix!SendToBroker(c, pkt)
    /\ \A pkts : SendToClients(pkts) <=> Posix!SendToClients(pkts)
    /\ \A queue : Receivable(queue) = Posix!Receivable(queue)
    /\ \A queue, k : Without(queue, k) = Posix!Without(queue, k)
<1>1. \A c, pkt : SendToBroker(c, pkt) <=> Posix!SendToBroker(c, pkt)
  BY DEF SendToBroker, Posix!SendToBroker
<1>2. ASSUME NEW pkts
      PROVE  SendToClients(pkts) <=> Posix!SendToClients(pkts)
  <2>2. \A c : Open(c) <=> Posix!Open(c)
    BY DEF Open, Posix!Open
  <2> DEFINE now(lost) == [c \in Clients |-> IF c \in DOMAIN pkts \ lost /\ Open(c)
                                             THEN Append(inbox[c], pkts[c])
                                             ELSE inbox[c]]
             posix(lost) == [c \in Posix!Clients |->
                                IF c \in DOMAIN pkts \ lost /\ Posix!Open(c)
                                THEN Append(inbox[c], pkts[c]) ELSE inbox[c]]
             counted(lost) == /\ losses + Cardinality(lost) <= MaxLoss
                              /\ losses' = losses + Cardinality(lost)
  <2> DEFINE posixCounted(lost) == /\ losses + Posix!Cardinality(lost) <= MaxLoss
                                   /\ losses' = losses + Posix!Cardinality(lost)
  <2>1. \A lost : counted(lost) <=> posixCounted(lost)
    BY SameCardinality
  <2>3. \A lost : now(lost) = posix(lost)
    BY <2>2 DEF Posix!Clients
  <2>4. SendToClients(pkts) <=>
            \E lost \in SUBSET DOMAIN pkts : counted(lost) /\ inbox' = now(lost)
    BY DEF SendToClients
  <2>5. Posix!SendToClients(pkts) <=>
            \E lost \in SUBSET DOMAIN pkts : posixCounted(lost) /\ inbox' = posix(lost)
    BY DEF Posix!SendToClients
  <2> HIDE DEF now, posix, counted, posixCounted
  <2> QED
    BY <2>1, <2>3, <2>4, <2>5
<1>3. \A queue : Receivable(queue) = Posix!Receivable(queue)
  BY DEF Receivable, Posix!Receivable
<1>4. \A queue, k : Without(queue, k) = Posix!Without(queue, k)
  BY DEF Without, Posix!Without
<1> QED
  BY <1>1, <1>2, <1>3, <1>4

LEMMA SamePublisher ==
    ASSUME NEW p \in Pubs
    PROVE  /\ PubSend(p) => Posix!PubSend(p)
           /\ PubRecv(p) => Posix!PubRecv(p)
           /\ TryAgain(p) => Posix!TryAgain(p)
<1>1. PubSend(p) => Posix!PubSend(p)
  BY SameSends DEF PubSend, Posix!PubSend, Handshake, Posix!Handshake, Data, Posix!Data,
     subVars, Posix!subVars, brokerVars, Posix!brokerVars, runVars, Posix!runVars
<1>2. TryAgain(p) => Posix!TryAgain(p)
  BY DEF TryAgain, Posix!TryAgain
<1>3. NextPacket(p) => Posix!NextPacket(p)
  BY DEF NextPacket, Posix!NextPacket, Posix!LastEvent
<1>4. \A pkt : Acknowledges(p, pkt) <=> Posix!Acknowledges(p, pkt)
  BY DEF Acknowledges, Posix!Acknowledges
<1>5. ASSUME PubRecv(p)
      PROVE  Posix!PubRecv(p)
  <2>1. PICK k \in Receivable(inbox[p]) :
            /\ inbox' = [inbox EXCEPT ![p] = Without(@, k)]
            /\ IF Acknowledges(p, inbox[p][k]) THEN NextPacket(p) ELSE TryAgain(p)
    BY <1>5 DEF PubRecv
  <2>2. k \in Posix!Receivable(inbox[p])
    BY SameSends
  <2>3. inbox' = [inbox EXCEPT ![p] = Posix!Without(@, k)]
    BY <2>1, SameSends
  <2>4. IF Posix!Acknowledges(p, inbox[p][k])
        THEN Posix!NextPacket(p) ELSE Posix!TryAgain(p)
    BY <1>2, <1>3, <1>4, <2>1
  <2>5. /\ ppc[p] = "wait"
        /\ UNCHANGED <<cid, Posix!subVars, Posix!brokerVars, toBroker, losses>>
    BY <1>5 DEF PubRecv, subVars, Posix!subVars, brokerVars, Posix!brokerVars,
                runVars, Posix!runVars
  <2> QED
    BY <2>2, <2>3, <2>4, <2>5 DEF Posix!PubRecv
<1> QED
  BY <1>1, <1>2, <1>5

LEMMA SameSubscriber ==
    ASSUME NEW s \in Subs
    PROVE  /\ Subscribe(s) => Posix!Subscribe(s)
           /\ SubRecv(s) => Posix!SubRecv(s)
           /\ SubQuit(s) => Posix!SubQuit(s)
<1>1. Subscribe(s) => Posix!Subscribe(s)
  BY SameSends DEF Subscribe, Posix!Subscribe, Handshake, Posix!Handshake,
     pubVars, Posix!pubVars, brokerVars, Posix!brokerVars, runVars, Posix!runVars
<1>2. ASSUME SubRecv(s)
      PROVE  Posix!SubRecv(s)
  <2> DEFINE answer(pkt) == /\ got' = [got EXCEPT ![s] = Append(@, pkt.event)]
                            /\ Posix!SendToBroker(s, Posix!Ack(pkt))
  <2>1. PICK k \in Receivable(inbox[s]) :
            /\ inbox' = [inbox EXCEPT ![s] = Without(@, k)]
            /\ IF inbox[s][k].cid = cid[s] /\ inbox[s][k].type = "data"
               THEN /\ got' = [got EXCEPT ![s] = Append(@, inbox[s][k].event)]
                    /\ SendToBroker(s, Ack(inbox[s][k]))
               ELSE UNCHANGED <<got, toBroker, losses>>
    BY <1>2 DEF SubRecv
  <2>2. k \in Posix!Receivable(inbox[s])
    BY SameSends
  <2>3. inbox' = [inbox EXCEPT ![s] = Posix!Without(@, k)]
    BY <2>1, SameSends
  <2>4. SendToBroker(s, Ack(inbox[s][k])) => Posix!SendToBroker(s, Posix!Ack(inbox[s][k]))
    BY SameSends DEF Ack, Posix!Ack
  <2>5. spc[s] = "listen" /\ UNCHANGED <<cid, Posix!pubVars, spc, Posix!brokerVars>>
    BY <1>2 DEF SubRecv, pubVars, Posix!pubVars, brokerVars, Posix!brokerVars,
                runVars, Posix!runVars
  <2> QED
    BY <2>1, <2>2, <2>3, <2>4, <2>5 DEF Posix!SubRecv
<1>3. SubQuit(s) => Posix!SubQuit(s)
  BY DEF SubQuit, Posix!SubQuit, pubVars, Posix!pubVars, brokerVars,
         Posix!brokerVars, runVars, Posix!runVars
<1> QED
  BY <1>1, <1>2, <1>3

LEMMA SameReads ==
    ASSUME NEW c \in Clients
    PROVE  /\ BrokerHandshake(c) => Posix!BrokerHandshake(c)
           /\ c \in Pubs /\ BrokerData(c) => Posix!BrokerData(c)
           /\ c \in Subs /\ BrokerAck(c) => Posix!BrokerAck(c)
           /\ Unreachable(c) => Posix!Unreachable(c)
<1>1. ASSUME BrokerHandshake(c)
      PROVE  Posix!BrokerHandshake(c)
  <2>1. PICK k \in Receivable(toBroker[c]) :
            /\ toBroker[c][k].type = "handshake"
            /\ toBroker' = [toBroker EXCEPT ![c] = Without(@, k)]
            /\ subs' = IF /\ toBroker[c][k].stream = 0
                          /\ ~Already(toBroker[c][k].cid) /\ Len(subs) < MaxSubs
                       THEN Append(subs, NewSlot(c, toBroker[c][k]))
                       ELSE subs
            /\ SendToClients([d \in {c} |-> Ack(toBroker[c][k])])
    BY <1>1 DEF BrokerHandshake
  <2> DEFINE pkt == toBroker[c][k]
  <2>2. k \in Posix!Receivable(toBroker[c])
    BY SameSends
  <2>3. toBroker' = [toBroker EXCEPT ![c] = Posix!Without(@, k)]
    BY <2>1, SameSends
  <2>4. subs' = IF pkt.stream = 0 /\ ~Posix!Already(pkt.cid) /\ Len(subs) < MaxSubs
                THEN Append(subs, Posix!NewSlot(c, pkt)) ELSE subs
    BY <2>1 DEF Already, Posix!Already, NewSlot, Posix!NewSlot
  <2>5. Posix!SendToClients([d \in {c} |-> Posix!Ack(pkt)])
    <3>1. [d \in {c} |-> Ack(pkt)] = [d \in {c} |-> Posix!Ack(pkt)]
      BY DEF Ack, Posix!Ack
    <3> QED
      BY <2>1, <3>1, SameSends
  <2>6. up /\ UNCHANGED <<cid, Posix!pubVars, Posix!subVars, Posix!runVars, handled>>
    BY <1>1 DEF BrokerHandshake, pubVars, Posix!pubVars, subVars, Posix!subVars,
                runVars, Posix!runVars
  <2> QED
    BY <2>1, <2>2, <2>3, <2>4, <2>5, <2>6 DEF Posix!BrokerHandshake
<1>2. ASSUME c \in Pubs, BrokerData(c)
      PROVE  Posix!BrokerData(c)
  <2> DEFINE to == {subs[i].addr : i \in DOMAIN subs}
             slotOf(s) == subs[CHOOSE i \in DOMAIN subs : subs[i].addr = s]
             made(pkt) == [d \in {c} \cup to |->
                              IF d = c THEN Ack(pkt) ELSE Forwarded(slotOf(d), pkt)]
             posix(pkt) == [d \in {c} \cup to |->
                               IF d = c THEN Posix!Ack(pkt)
                               ELSE Posix!Forwarded(slotOf(d), pkt)]
  <2>1. PICK k \in Receivable(toBroker[c]) :
            /\ toBroker[c][k].type = "data"
            /\ toBroker' = [toBroker EXCEPT ![c] = Without(@, k)]
            /\ subs' = [i \in DOMAIN subs |-> Outstanding(subs[i], toBroker[c][k])]
            /\ handled' = handled \cup {toBroker[c][k].event}
            /\ SendToClients(made(toBroker[c][k]))
    BY <1>2 DEF BrokerData
  <2> DEFINE pkt == toBroker[c][k]
  <2>2. k \in Posix!Receivable(toBroker[c])
    BY SameSends
  <2>3. toBroker' = [toBroker EXCEPT ![c] = Posix!Without(@, k)]
    BY <2>1, SameSends
  <2>4. subs' = [i \in DOMAIN subs |-> Posix!Outstanding(subs[i], pkt)]
    BY <2>1 DEF Outstanding, Posix!Outstanding, Forwarded, Posix!Forwarded
  <2>5. made(pkt) = posix(pkt)
    BY DEF Ack, Posix!Ack, Forwarded, Posix!Forwarded
  <2>6. Posix!SendToClients(posix(pkt))
    <3> HIDE DEF made, posix
    <3> QED
      BY <2>1, <2>5, SameSends
  <2>7. up /\ UNCHANGED <<cid, Posix!pubVars, Posix!subVars, Posix!runVars>>
    BY <1>2 DEF BrokerData, pubVars, Posix!pubVars, subVars, Posix!subVars,
                runVars, Posix!runVars
  <2> QED
    BY <2>1, <2>2, <2>3, <2>4, <2>6, <2>7 DEF Posix!BrokerData
<1>3. ASSUME c \in Subs, BrokerAck(c)
      PROVE  Posix!BrokerAck(c)
  <2>1. PICK k \in Receivable(toBroker[c]) :
            /\ toBroker[c][k].type = "ack"
            /\ toBroker' = [toBroker EXCEPT ![c] = Without(@, k)]
            /\ subs' = [i \in DOMAIN subs |->
                           IF Answers(subs[i], toBroker[c][k])
                           THEN [subs[i] EXCEPT !.busy = FALSE, !.retries = 0]
                           ELSE subs[i]]
    BY <1>3 DEF BrokerAck
  <2>2. k \in Posix!Receivable(toBroker[c])
    BY SameSends
  <2>3. toBroker' = [toBroker EXCEPT ![c] = Posix!Without(@, k)]
    BY <2>1, SameSends
  <2>4. subs' = [i \in DOMAIN subs |->
                    IF Posix!Answers(subs[i], toBroker[c][k])
                    THEN [subs[i] EXCEPT !.busy = FALSE, !.retries = 0]
                    ELSE subs[i]]
    BY <2>1 DEF Answers, Posix!Answers
  <2>5. up /\ UNCHANGED <<cid, Posix!pubVars, Posix!subVars, Posix!runVars, handled,
                          inbox, losses>>
    BY <1>3 DEF BrokerAck, pubVars, Posix!pubVars, subVars, Posix!subVars,
                runVars, Posix!runVars
  <2> QED
    BY <2>1, <2>2, <2>3, <2>4, <2>5 DEF Posix!BrokerAck
<1>4. Unreachable(c) => Posix!Unreachable(c)
  BY SameSends DEF Unreachable, Posix!Unreachable, pubVars, Posix!pubVars, subVars,
     Posix!subVars, brokerVars, Posix!brokerVars, runVars, Posix!runVars
<1> QED
  BY <1>1, <1>2, <1>3, <1>4

LEMMA SameTimer ==
    ASSUME TypeOK, NEW c \in Clients, TimerExpires(c)
    PROVE  Posix!TimerExpires(c)
<1> DEFINE a == Len(toBroker[c])
           b == Len(inbox[c])
           all == (PubRetries + 1) * LastEvent
<1>1. a \in Nat /\ b \in Nat
  BY QueueLengths
<1>2. all \in Nat
  <2>1. PubRetries + 1 \in Nat /\ LastEvent \in Nat
    OBVIOUS
  <2> QED
    BY <2>1
<1>3. a + b <= Early
  BY DEF TimerExpires
<1>4. a + b <= Early + all
  <2> HIDE DEF a, b, all
  <2> QED
    BY <1>1, <1>2, <1>3
<1>5. AtAnyTime = Early + all
  BY DEF AtAnyTime
<1> QED
  BY <1>4, <1>5 DEF Posix!TimerExpires

LEMMA SameBroker ==
    ASSUME TypeOK, TableInv, BrokerNext
    PROVE  Posix!BrokerNext
<1>1. ASSUME NEW c \in Clients, BrokerHandshake(c)
      PROVE  Posix!BrokerNext
  BY <1>1, SameReads DEF Posix!BrokerNext, Posix!Clients
<1>2. ASSUME NEW p \in Pubs, BrokerData(p)
      PROVE  Posix!BrokerNext
  BY <1>2, SameReads DEF Posix!BrokerNext
<1>3. ASSUME NEW s \in Subs, BrokerAck(s)
      PROVE  Posix!BrokerNext
  BY <1>3, SameReads DEF Posix!BrokerNext
<1>4. ASSUME NEW i \in 1..MaxSubs, Due(i)
      PROVE  Posix!Due(i)
  <2>1. up /\ i \in DOMAIN subs /\ subs[i].busy /\ TimerExpires(subs[i].addr)
    BY <1>4 DEF Due
  <2>2. subs[i].addr \in Clients
    BY <2>1 DEF TableInv, Entry
  <2>3. Posix!TimerExpires(subs[i].addr)
    BY <2>1, <2>2, SameTimer
  <2> QED
    BY <2>1, <2>3 DEF Posix!Due
<1>5. ASSUME NEW i \in 1..MaxSubs, Retransmit(i)
      PROVE  Posix!BrokerNext
  <2>1. Posix!Due(i) /\ Posix!RetriesLeft(subs[i])
    BY <1>4, <1>5 DEF Retransmit, RetriesLeft, Posix!RetriesLeft
  <2>2. Posix!SendToClients([c \in {subs[i].addr} |-> subs[i].out])
    BY <1>5, SameSends DEF Retransmit
  <2>3. subs' = [subs EXCEPT ![i] = Posix!Counted(@)]
    BY <1>5 DEF Retransmit, Counted, Posix!Counted
  <2>4. UNCHANGED <<cid, Posix!pubVars, Posix!subVars, Posix!runVars, handled, toBroker>>
    BY <1>5 DEF Retransmit, pubVars, Posix!pubVars, subVars, Posix!subVars,
                runVars, Posix!runVars
  <2> QED
    BY <2>1, <2>2, <2>3, <2>4 DEF Posix!Retransmit, Posix!BrokerNext
<1>6. ASSUME NEW i \in 1..MaxSubs, GiveUp(i)
      PROVE  Posix!BrokerNext
  <2>1. Posix!Due(i) /\ ~Posix!RetriesLeft(subs[i])
    BY <1>4, <1>6 DEF GiveUp, RetriesLeft, Posix!RetriesLeft
  <2>2. Posix!GiveUp(i)
    BY <1>6, <2>1 DEF GiveUp, Posix!GiveUp, pubVars, Posix!pubVars, subVars,
       Posix!subVars, runVars, Posix!runVars
  <2> QED
    BY <2>2 DEF Posix!BrokerNext
<1>7. CASE BrokerStop \/ BrokerStart
  <2>1. Posix!BrokerStop \/ Posix!BrokerStart
    BY <1>7 DEF BrokerStop, Posix!BrokerStop, BrokerStart, Posix!BrokerStart, pubVars,
       Posix!pubVars, subVars, Posix!subVars
  <2> QED
    BY <2>1 DEF Posix!BrokerNext
<1> QED
  BY <1>1, <1>2, <1>3, <1>5, <1>6, <1>7 DEF BrokerNext

\* An error that ends the wait is a timeout of the POSIX publisher.
LEMMA ErrorIsTimeout ==
    ASSUME Inv, PathInv, NEW p \in Pubs, PubTimeout(p) \/ WaitEnds(p)
    PROVE  Posix!PubTimeout(p)
<1>1. /\ ppc[p] = "wait" /\ TryAgain(p)
      /\ UNCHANGED <<cid, subVars, brokerVars, toBroker, inbox, losses>>
  BY DEF PubTimeout, WaitEnds
<1>2. OnPath(p) <= AtAnyTime
  BY <1>1, EarlyEnough
<1>3. Posix!TimerExpires(p)
  BY <1>2 DEF OnPath, Posix!TimerExpires
<1>4. Posix!TryAgain(p)
  BY <1>1, SamePublisher
<1> QED
  BY <1>1, <1>3, <1>4 DEF Posix!PubTimeout, subVars, Posix!subVars, brokerVars,
     Posix!brokerVars, runVars, Posix!runVars

LEMMA PosixNext ==
    ASSUME Inv, PathInv, [WinNext]_winVars
    PROVE  [Posix!Next]_(Posix!vars)
<1>1. TypeOK /\ TableInv
  BY DEF Inv
<1>2. [Next]_vars \/ \E p \in Pubs : WaitEnds(p)
  BY WinStep
<1>3. ASSUME NEW p \in Pubs, PubSend(p) \/ PubRecv(p) \/ PubTimeout(p) \/ WaitEnds(p)
      PROVE  Posix!Next
  BY <1>3, SamePublisher, ErrorIsTimeout DEF Posix!Next
<1>4. ASSUME NEW s \in Subs, Subscribe(s) \/ SubRecv(s) \/ SubQuit(s)
      PROVE  Posix!Next
  BY <1>4, SameSubscriber DEF Posix!Next
<1>5. ASSUME NEW c \in Clients, Unreachable(c)
      PROVE  Posix!Next
  BY <1>5, SameReads DEF Posix!Next, Posix!Clients
<1>6. CASE BrokerNext
  BY <1>1, <1>6, SameBroker DEF Posix!Next
<1>7. CASE UNCHANGED vars
  BY <1>7 DEF vars, Posix!vars
<1> QED
  BY <1>2, <1>3, <1>4, <1>5, <1>6, <1>7 DEF Next

(***************************************************************************)
(* The port does nothing that the POSIX programs could not do if their     *)
(* timers could run out at any time (publisher_quic_win.c: recvfrom() in   *)
(* wait_for_ack() returns an error when a datagram has reached a closed    *)
(* port).                                                                  *)
(***************************************************************************)
THEOREM PosixImplemented == WinSpec => ImplementsPosix
<1>1. WinInit => Posix!Init
  BY DEF WinInit, Init, Posix!Init, Posix!Clients
<1>2. Inv /\ PathInv /\ [WinNext]_winVars => [Posix!Next]_(Posix!vars)
  BY PosixNext
<1> QED
  BY <1>1, <1>2, WinInvHolds, PathHolds, PTL DEF WinSpec, ImplementsPosix, Posix!Spec

------------------------------------------------------------------------------
(* What the port inherits                                                  *)

LEMMA WaitEndsKeeps ==
    ASSUME NEW p \in Pubs, WaitEnds(p)
    PROVE  UNCHANGED <<subs, handled, got, toBroker, inbox>>
  BY DEF WaitEnds, subVars, brokerVars

\* One conn_id has one entry in the table of broker_quic_win.c too.
THEOREM WinOneEntry == WinSpec => []OneEntryPerConnection
<1>1. WinInit => OneEntryPerConnection
  BY DEF WinInit, Init, OneEntryPerConnection
<1>2. Inv /\ OneEntryPerConnection /\ [WinNext]_winVars => OneEntryPerConnection'
  <2> SUFFICES ASSUME Inv, OneEntryPerConnection, [WinNext]_winVars
               PROVE  OneEntryPerConnection'
    OBVIOUS
  <2>1. ASSUME NEW p \in Pubs, WaitEnds(p)
        PROVE  OneEntryPerConnection'
    BY <2>1, WaitEndsKeeps DEF OneEntryPerConnection
  <2> QED
    BY <2>1, WinStep, NextOneEntry
<1> QED
  BY <1>1, <1>2, WinInvHolds, PTL DEF WinSpec

\* A subscriber of the port never prints an event after a later one of the same
\* publisher on a path that keeps order, although an error may end any wait.
THEOREM WinPrintedInOrder == WinSpec => []InOrder
<1>1. WinInit => (Fifo => OrderInv)
  BY InitOrder DEF WinInit
<1>2. Inv /\ (Fifo => OrderInv) /\ [WinNext]_winVars => (Fifo => OrderInv)'
  <2> SUFFICES ASSUME Fifo, Inv, OrderInv, [WinNext]_winVars
               PROVE  OrderInv'
    OBVIOUS
  <2>1. ASSUME NEW p \in Pubs, WaitEnds(p)
        PROVE  OrderInv'
    <3>1. ToBrokerOrder' /\ TableOrder'
      BY <2>1, WaitEndsKeeps DEF OrderInv, ToBrokerOrder, TableOrder, NotBehind, Ordered
    <3>2. InboxOrder' /\ PrintedOrder'
      BY <2>1, WaitEndsKeeps DEF OrderInv, InboxOrder, PrintedOrder, NotBehind, Ordered,
                                 Printed
    <3> QED
      BY <3>1, <3>2 DEF OrderInv
  <2> QED
    BY <2>1, WinStep, NextOrder
<1>3. (Fifo => OrderInv) => InOrder
  BY OrderIsInOrder
<1> QED
  BY <1>1, <1>2, <1>3, WinInvHolds, PTL DEF WinSpec

==============================================================================
