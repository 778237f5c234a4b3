---------------------------- MODULE TcpAsmProofs ----------------------------
(***************************************************************************)
(* Theorems about TcpAsmBroker, for any number of clients and every value  *)
(* of the limits.                                                          *)
(***************************************************************************)
EXTENDS TcpAsmBroker, SequenceLemmas

USE ProcessesAssumption, LimitsAssumption

------------------------------------------------------------------------------
(* Types                                                                   *)

\* What the place of the one thread says of its variables: it has waited for
\* its subscribers before it takes a publisher, and client_pub is the last one
\* taken from accept() to the end of that one's stream (broker_tcp.asm).
BrokerPlace ==
    /\ pc = "subs" => turns = <<>> /\ Len(subSocks) < NumSubs
    /\ pc \in {"subs", "publisher"} => client = None
    /\ pc \in {"recv", "broadcast", "down"} => turns # <<>> /\ client = turns[Len(turns)]

\* A publisher that is served is a publisher.
LEMMA ClientIsPub ==
    ASSUME TypeOK, BrokerPlace, pc \in {"recv", "broadcast", "down"}
    PROVE  client \in Pubs /\ client # None /\ Len(turns) \in 1..Len(turns)
<1>1. turns \in Seq(Pubs) /\ turns # <<>> /\ client = turns[Len(turns)]
  BY DEF TypeOK, BrokerPlace
<1>2. Len(turns) \in 1..Len(turns)
  BY <1>1, EmptySeq
<1>3. client \in Pubs
  BY <1>1, <1>2, ElementOfSeq
<1> QED
  BY <1>2, <1>3

LEMMA InitAsmType == Init => TypeOK /\ BrokerPlace
<1> SUFFICES ASSUME Init PROVE TypeOK /\ BrokerPlace
  OBVIOUS
<1>1. \A S : <<>> \in Seq(S) /\ Len(<<>>) = 0
  BY EmptySeq
<1> QED
  BY <1>1 DEF Init, TypeOK, BrokerPlace, ConnState, Units

\* A step of the kernel's queues or of a client.
LEMMA ClientsType ==
    ASSUME TypeOK, BrokerPlace,
           \/ \E p \in Pubs : PubConnect(p) \/ PubSend(p) \/ PubClose(p)
           \/ \E s \in Subs : SubConnect(s) \/ SubRead(s) \/ SubEof(s) \/ SubQuit(s)
    PROVE  TypeOK' /\ BrokerPlace'
<1> USE DEF brokerVars, pubVars, subVars
<1>1. BrokerPlace'
  BY DEF BrokerPlace, PubConnect, PubSend, PubClose, SubConnect, SubRead, SubEof, SubQuit
<1>2. ASSUME NEW p \in Pubs, PubConnect(p)
      PROVE  TypeOK'
  <2>1. pubQueue' \in Seq(Pubs) /\ Len(pubQueue') <= Backlog
    BY <1>2, AppendProperties DEF PubConnect, TypeOK
  <2> QED
    BY <1>2, <2>1 DEF PubConnect, TypeOK
<1>3. ASSUME NEW p \in Pubs, PubSend(p)
      PROVE  TypeOK'
  <2>1. sent' \in [Pubs -> 0..Total]
    BY SMTT(30), <1>3 DEF PubSend, MessagesLeft, TypeOK
  <2> QED
    BY <1>3, <2>1 DEF PubSend, TypeOK
<1>4. ASSUME NEW p \in Pubs, PubClose(p)
      PROVE  TypeOK'
  BY <1>4 DEF PubClose, TypeOK
<1>5. ASSUME NEW s \in Subs, SubConnect(s)
      PROVE  TypeOK'
  <2>1. subQueue' \in Seq(Subs) /\ Len(subQueue') <= Backlog
    BY <1>5, AppendProperties DEF SubConnect, TypeOK
  <2>2. conn' \in [Subs -> ConnState]
    BY <1>5 DEF SubConnect, TypeOK, ConnState
  <2> QED
    BY <1>5, <2>1, <2>2 DEF SubConnect, TypeOK
<1>6. ASSUME NEW s \in Subs, SubRead(s)
      PROVE  TypeOK'
  <2>1. got[s] \in Seq(Units) /\ wire[s] \in Seq(Units) /\ wire[s] # <<>>
    BY <1>6 DEF SubRead, TypeOK
  <2>2. Append(got[s], Head(wire[s])) \in Seq(Units) /\ Tail(wire[s]) \in Seq(Units)
    BY <2>1, HeadTailProperties, AppendProperties
  <2>3. got' \in [Subs -> Seq(Units)] /\ wire' \in [Subs -> Seq(Units)]
    BY <1>6, <2>2 DEF SubRead, TypeOK
  <2> QED
    BY <1>6, <2>3 DEF SubRead, TypeOK
<1>7. ASSUME NEW s \in Subs, SubEof(s)
      PROVE  TypeOK'
  BY <1>7 DEF SubEof, TypeOK, ConnState
<1>8. ASSUME NEW s \in Subs, SubQuit(s)
      PROVE  TypeOK'
  <2>1. PICK state \in {"fin", "reset"} : conn' = [conn EXCEPT ![s] = state]
    BY <1>8 DEF SubQuit
  <2>2. conn' \in [Subs -> ConnState]
    BY <2>1 DEF TypeOK, ConnState
  <2>3. <<>> \in Seq(Units)
    BY EmptySeq
  <2>4. wire' \in [Subs -> Seq(Units)]
    BY <1>8, <2>3 DEF SubQuit, TypeOK
  <2> QED
    BY <1>8, <2>2, <2>4 DEF SubQuit, TypeOK
<1> QED
  BY <1>1, <1>2, <1>3, <1>4, <1>5, <1>6, <1>7, <1>8

\* What a recvfrom() returns is made of units of its publisher.
LEMMA RecvReturnsUnits ==
    ASSUME TypeOK, NEW p \in Pubs, NEW k \in 1..RecvMax, read[p] + k <= sent[p]
    PROVE  /\ [j \in 1..k |-> Unit(p, read[p] + j)] \in Seq(Units)
           /\ Len([j \in 1..k |-> Unit(p, read[p] + j)]) = k
<1>1. read[p] \in Nat /\ sent[p] \in 0..Total /\ k \in Nat
  BY DEF TypeOK
<1>2. \A j \in 1..k : Unit(p, read[p] + j) \in Units
  BY <1>1 DEF Unit, Units
<1> QED
  BY <1>1, <1>2

\* The index of the loop stays within sub_socks[], but for the end of the loop.
LEMMA AdvanceType ==
    ASSUME TypeOK, NEW s \in Subs, Sending(s), Advance
    PROVE  /\ idx' \in 1..(NumSubs + 1) /\ idx' = idx + 1
           /\ idx \in 1..Len(subSocks) /\ subSocks[idx] = s
<1> DEFINE n == Len(subSocks)
<1>1. /\ idx \in 1..(NumSubs + 1) /\ idx <= n /\ n <= NumSubs /\ idx' = idx + 1
      /\ n \in Nat /\ NumSubs \in Nat /\ subSocks[idx] = s
  BY DEF TypeOK, Sending, Advance
<1> HIDE DEF n
<1>2. idx' \in 1..(NumSubs + 1) /\ idx \in 1..n
  BY <1>1
<1> QED
  BY <1>1, <1>2 DEF n

LEMMA BrokerType ==
    ASSUME TypeOK, BrokerPlace, BrokerNext
    PROVE  TypeOK' /\ BrokerPlace'
<1> USE DEF brokerVars, pubVars, subVars
<1>1. CASE AcceptSub
  <2>1. /\ subQueue \in Seq(Subs) /\ subQueue # <<>> /\ Len(subQueue) <= Backlog
        /\ subSocks \in Seq(Subs) /\ Len(subSocks) < NumSubs
        /\ turns = <<>> /\ client = None
    BY <1>1 DEF AcceptSub, TypeOK, BrokerPlace
  <2>2. /\ Head(subQueue) \in Subs /\ Tail(subQueue) \in Seq(Subs)
        /\ Len(Tail(subQueue)) = Len(subQueue) - 1
        /\ Len(subQueue) \in Nat /\ Len(subSocks) \in Nat
    BY <2>1, HeadTailProperties
  <2>3. subQueue' \in Seq(Subs) /\ Len(subQueue') <= Backlog
    BY <1>1, <2>1, <2>2 DEF AcceptSub
  <2>4. subSocks' \in Seq(Subs) /\ Len(subSocks') = Len(subSocks) + 1
    BY <1>1, <2>1, <2>2, AppendProperties DEF AcceptSub
  <2>5. pc' = IF Len(subSocks) + 1 >= NumSubs THEN "publisher" ELSE "subs"
    BY <1>1 DEF AcceptSub, EnoughSubs
  <2>6. Len(subSocks') <= NumSubs /\ (pc' = "subs" => Len(subSocks') < NumSubs)
    BY <2>1, <2>2, <2>4, <2>5
  <2>7. pc' \in {"subs", "publisher"}
    BY <2>5
  <2>8. TypeOK'
    BY <1>1, <2>3, <2>4, <2>6, <2>7 DEF AcceptSub, TypeOK
  <2>9. BrokerPlace'
    BY <1>1, <2>1, <2>6, <2>7 DEF AcceptSub, BrokerPlace
  <2> QED
    BY <2>8, <2>9
<1>2. CASE AcceptPub
  <2>1. pubQueue \in Seq(Pubs) /\ pubQueue # <<>> /\ Len(pubQueue) <= Backlog /\ turns \in Seq(Pubs)
    BY <1>2 DEF AcceptPub, TypeOK
  <2>2. /\ Head(pubQueue) \in Pubs /\ Tail(pubQueue) \in Seq(Pubs)
        /\ Len(Tail(pubQueue)) = Len(pubQueue) - 1
        /\ Len(pubQueue) \in Nat /\ Len(turns) \in Nat
    BY <2>1, HeadTailProperties
  <2>3. pubQueue' \in Seq(Pubs) /\ Len(pubQueue') <= Backlog
    BY <1>2, <2>1, <2>2 DEF AcceptPub
  <2>4. /\ turns' \in Seq(Pubs) /\ turns' # <<>> /\ Len(turns') = Len(turns) + 1
        /\ turns'[Len(turns) + 1] = Head(pubQueue)
    BY <1>2, <2>1, <2>2, AppendProperties DEF AcceptPub
  <2>5. TypeOK'
    BY <1>2, <2>2, <2>3, <2>4 DEF AcceptPub, TypeOK
  <2>6. BrokerPlace'
    BY <1>2, <2>4 DEF AcceptPub, BrokerPlace
  <2> QED
    BY <2>5, <2>6
<1>3. CASE Recv
  <2>1. client \in Pubs
    BY <1>3, ClientIsPub DEF Recv
  <2>2. PICK k \in 1..RecvMax :
            /\ read[client] + k <= sent[client]
            /\ buffer' = [j \in 1..k |-> Unit(client, read[client] + j)]
            /\ read' = [read EXCEPT ![client] = @ + k]
    BY <1>3 DEF Recv
  <2>3. buffer' \in Seq(Units) /\ Len(buffer') <= RecvMax
    BY <2>1, <2>2, RecvReturnsUnits
  <2>4. read' \in [Pubs -> 0..Total]
    BY SMTT(30), <2>1, <2>2 DEF TypeOK
  <2>5. TypeOK'
    BY SMTT(30), <1>3, <2>3, <2>4 DEF Recv, TypeOK
  <2>6. BrokerPlace'
    BY <1>3 DEF Recv, BrokerPlace
  <2> QED
    BY <2>5, <2>6
<1>4. CASE PublisherOff
  BY <1>4 DEF PublisherOff, TypeOK, BrokerPlace
<1>5. ASSUME NEW s \in Subs, Send(s)
      PROVE  TypeOK' /\ BrokerPlace'
  <2>1. wire[s] \in Seq(Units) /\ buffer \in Seq(Units)
    BY DEF TypeOK
  <2>2. wire[s] \o buffer \in Seq(Units)
    BY <2>1, ConcatProperties
  <2>3. wire' \in [Subs -> Seq(Units)]
    BY <1>5, <2>2 DEF Send, TypeOK
  <2>4. idx' \in 1..(NumSubs + 1)
    BY <1>5, AdvanceType DEF Send
  <2>5. TypeOK'
    BY <1>5, <2>3, <2>4 DEF Send, Advance, TypeOK
  <2>6. BrokerPlace'
    BY <1>5 DEF Send, Advance, BrokerPlace
  <2> QED
    BY <2>5, <2>6
<1>6. ASSUME NEW s \in Subs, SendAfterFin(s) \/ SendError(s)
      PROVE  TypeOK' /\ BrokerPlace'
  <2>1. conn' \in [Subs -> ConnState]
    <3>1. \E state \in {"fin", "gone"} : conn' = [conn EXCEPT ![s] = state]
      BY <1>6 DEF SendAfterFin, SendError
    <3> QED
      BY <3>1 DEF TypeOK, ConnState
  <2>2. idx' \in 1..(NumSubs + 1)
    BY <1>6, AdvanceType DEF SendAfterFin, SendError
  <2>3. TypeOK'
    BY <1>6, <2>1, <2>2 DEF SendAfterFin, SendError, Advance, TypeOK
  <2>4. BrokerPlace'
    BY <1>6 DEF SendAfterFin, SendError, Advance, BrokerPlace
  <2> QED
    BY <2>3, <2>4
<1>7. ASSUME NEW s \in Subs, SigPipe(s)
      PROVE  TypeOK' /\ BrokerPlace'
  BY <1>7 DEF SigPipe, Sending, TypeOK, BrokerPlace
<1>8. CASE BroadcastDone
  BY <1>8 DEF BroadcastDone, TypeOK, BrokerPlace
<1> QED
  BY <1>1, <1>2, <1>3, <1>4, <1>5, <1>6, <1>7, <1>8 DEF BrokerNext, SendStep

------------------------------------------------------------------------------
(* Queues: nobody is accepted twice                                        *)

\* Nobody is twice among those accepted and those that wait.
Once(accepted, waiting) ==
    /\ \A i, j \in 1..Len(accepted) : accepted[i] = accepted[j] => i = j
    /\ \A i, j \in 1..Len(waiting) : waiting[i] = waiting[j] => i = j
    /\ \A i \in 1..Len(accepted), j \in 1..Len(waiting) : accepted[i] # waiting[j]

\* connect() by somebody who is neither.
LEMMA OnceConnect ==
    ASSUME NEW S, NEW a \in Seq(S), NEW w \in Seq(S), NEW e \in S,
           Once(a, w), ~Contains(a, e), ~Contains(w, e)
    PROVE  Once(a, Append(w, e))
<1> DEFINE n == Len(w)
           v == Append(w, e)
<1>1. n \in Nat /\ Len(v) = n + 1 /\ v[n + 1] = e /\ \A i \in 1..n : v[i] = w[i]
  BY AppendProperties, LenProperties
<1>2. /\ \A i \in 1..n : w[i] # e
      /\ \A i \in 1..Len(a) : a[i] # e
  BY DEF Contains
<1>3. \A i \in 1..(n + 1) : i \in 1..n \/ i = n + 1
  BY <1>1
<1> HIDE DEF v
<1>4. ASSUME NEW i \in 1..(n + 1), NEW j \in 1..(n + 1), v[i] = v[j]
      PROVE  i = j
  <2>1. CASE i \in 1..n /\ j \in 1..n
    BY <1>1, <1>4, <2>1 DEF Once
  <2>2. CASE i = n + 1 \/ j = n + 1
    BY <1>1, <1>2, <1>3, <1>4, <2>2
  <2> QED
    BY <1>3, <2>1, <2>2
<1>5. ASSUME NEW i \in 1..Len(a), NEW j \in 1..(n + 1)
      PROVE  a[i] # v[j]
  BY <1>1, <1>2, <1>3 DEF Once
<1> HIDE DEF n
<1>6. Once(a, v)
  BY <1>1, <1>4, <1>5 DEF Once
<1> QED
  BY <1>6 DEF v

\* accept() of the one that waits longest.
LEMMA OnceAccept ==
    ASSUME NEW S, NEW a \in Seq(S), NEW w \in Seq(S), w # <<>>, Once(a, w)
    PROVE  Once(Append(a, Head(w)), Tail(w)) /\ ~Contains(a, Head(w))
<1> DEFINE n == Len(a)
           m == Len(w)
           h == Head(w)
           b == Append(a, h)
           t == Tail(w)
<1>1. /\ m \in Nat \ {0} /\ n \in Nat /\ h = w[1] /\ h \in S
      /\ Len(t) = m - 1 /\ \A i \in 1..Len(t) : t[i] = w[i + 1]
  BY HeadTailProperties, EmptySeq, LenProperties
<1>2. Len(b) = n + 1 /\ b[n + 1] = h /\ \A i \in 1..n : b[i] = a[i]
  BY <1>1, AppendProperties
<1>3. \A i \in 1..n : a[i] # h
  <2>1. 1 \in 1..m
    BY <1>1
  <2> QED
    BY <1>1, <2>1 DEF Once
<1> HIDE DEF h, b, t, n, m
<1>4. \A i \in 1..(n + 1) : i \in 1..n \/ i = n + 1
  BY <1>1
<1>5. ASSUME NEW i \in 1..(n + 1), NEW j \in 1..(n + 1), b[i] = b[j]
      PROVE  i = j
  <2>1. CASE i \in 1..n /\ j \in 1..n
    BY <1>2, <1>5, <2>1 DEF Once, n
  <2>2. CASE i = n + 1 \/ j = n + 1
    BY <1>2, <1>3, <1>4, <1>5, <2>2
  <2> QED
    BY <1>4, <2>1, <2>2
<1>6. ASSUME NEW i \in 1..(m - 1)
      PROVE  i + 1 \in 1..m /\ t[i] = w[i + 1] /\ i + 1 # 1 /\ 1 \in 1..m
  BY <1>1
<1>7. ASSUME NEW i \in 1..(m - 1), NEW j \in 1..(m - 1), t[i] = t[j]
      PROVE  i = j
  <2>1. i + 1 = j + 1
    BY <1>6, <1>7 DEF Once, m
  <2> QED
    BY <2>1
<1>8. ASSUME NEW i \in 1..(n + 1), NEW j \in 1..(m - 1)
      PROVE  b[i] # t[j]
  <2>1. CASE i \in 1..n
    BY <1>2, <1>6, <2>1 DEF Once, n, m
  <2>2. CASE i = n + 1
    BY <1>1, <1>2, <1>6, <2>2 DEF Once, m
  <2> QED
    BY <1>4, <2>1, <2>2
<1>9. Once(b, t)
  BY <1>1, <1>2, <1>5, <1>7, <1>8 DEF Once
<1>10. ~Contains(a, h)
  BY <1>3 DEF Contains, n
<1> QED
  BY <1>9, <1>10 DEF b, h, t

\* Who is accepted is on the list from then on, and nobody else new.
LEMMA AcceptedContains ==
    ASSUME NEW S, NEW a \in Seq(S), NEW e \in S, NEW x
    PROVE  Contains(Append(a, e), x) <=> Contains(a, x) \/ x = e
<1> DEFINE n == Len(a)
           b == Append(a, e)
<1>1. /\ n \in Nat /\ Len(b) = n + 1 /\ b[n + 1] = e
      /\ \A i \in 1..n : b[i] = a[i]
  BY AppendProperties, LenProperties
<1> HIDE DEF b
<1>2. (\E i \in 1..(n + 1) : b[i] = x) <=> (\E i \in 1..n : a[i] = x) \/ x = e
  <2>1. \A i \in 1..(n + 1) : i \in 1..n \/ i = n + 1
    BY <1>1
  <2>2. n + 1 \in 1..(n + 1) /\ \A i \in 1..n : i \in 1..(n + 1)
    BY <1>1
  <2> HIDE DEF n
  <2> QED
    BY <1>1, <2>1, <2>2
<1> QED
  BY <1>1, <1>2 DEF Contains, b

\* Who is in a queue is its first or behind it.
LEMMA QueueContains ==
    ASSUME NEW S, NEW w \in Seq(S), w # <<>>, NEW x
    PROVE  Contains(w, x) <=> x = Head(w) \/ Contains(Tail(w), x)
<1> DEFINE m == Len(w)
           t == Tail(w)
<1>1. /\ m \in Nat \ {0} /\ Head(w) = w[1]
      /\ Len(t) = m - 1 /\ \A i \in 1..Len(t) : t[i] = w[i + 1]
  BY HeadTailProperties, EmptySeq
<1> HIDE DEF t
<1>2. (\E i \in 1..m : w[i] = x) <=> x = w[1] \/ \E i \in 1..(m - 1) : t[i] = x
  <2>1. \A i \in 1..m : i = 1 \/ (i - 1 \in 1..(m - 1) /\ (i - 1) + 1 = i)
    BY <1>1
  <2>2. 1 \in 1..m /\ \A i \in 1..(m - 1) : i + 1 \in 1..m
    BY <1>1
  <2> HIDE DEF m
  <2>3. \A i \in 1..m : i = 1 \/ (i - 1 \in 1..(m - 1) /\ t[i - 1] = w[i])
    <3> SUFFICES ASSUME NEW i \in 1..m, i # 1
                 PROVE  i - 1 \in 1..(m - 1) /\ t[i - 1] = w[i]
      OBVIOUS
    <3>1. i - 1 \in 1..(m - 1) /\ t[i - 1] = w[(i - 1) + 1] /\ (i - 1) + 1 = i
      BY <1>1, <2>1
    <3> QED
      BY <3>1
  <2> QED
    BY <1>1, <2>2, <2>3
<1> QED
  BY <1>1, <1>2 DEF Contains, t

------------------------------------------------------------------------------
(* The invariant                                                           *)

\* No publisher is accepted twice, and nothing is received of one before its turn.
PubsOnce ==
    /\ Once(turns, pubQueue)
    /\ \A p \in Pubs : ~Contains(turns, p) => read[p] = 0

\* No subscriber is accepted twice, and nothing is sent to one before that.
SubsOnce ==
    /\ Once(subSocks, subQueue)
    /\ \A s \in Subs : conn[s] = "none" => ~Contains(subSocks, s) /\ ~Contains(subQueue, s)
    /\ \A s \in Subs : ~Contains(subSocks, s) => got[s] = <<>> /\ wire[s] = <<>>

\* Every turn but the current one is over: the second part of ServedInTurn.
TurnsOver ==
    \A i \in DOMAIN turns :
        turns[i] # client => closed[turns[i]] /\ read[turns[i]] = sent[turns[i]]

\* Pending(s), and what remains of it when SIGPIPE has ended the broker.
Owed(s) ==
    IF pc \in {"broadcast", "down"} /\ \E i \in idx..Len(subSocks) : subSocks[i] = s
    THEN buffer ELSE <<>>

\* What an accepted subscriber has, or is to get, is all that was received.  It
\* holds of a broker that is ended as well, when the subscribers still read.
StreamsWhole ==
    \A s \in Subs :
        Contains(subSocks, s) /\ conn[s] = "open" => got[s] \o wire[s] \o Owed(s) = log

AsmInv == /\ TypeOK /\ BrokerPlace
          /\ PubsOnce /\ SubsOnce /\ TurnsOver /\ StreamsWhole

LEMMA InitAsm == Init => AsmInv
<1> SUFFICES ASSUME Init
             PROVE  AsmInv
  OBVIOUS
<1>1. Len(<<>>) = 0 /\ \A x : ~Contains(<<>>, x)
  BY DEF Contains
<1>2. Once(<<>>, <<>>)
  BY <1>1 DEF Once
<1>3. PubsOnce /\ SubsOnce
  BY <1>1, <1>2 DEF Init, PubsOnce, SubsOnce
<1>4. TurnsOver
  BY DEF Init, TurnsOver
<1>5. StreamsWhole
  BY <1>1 DEF Init, StreamsWhole
<1> QED
  BY <1>3, <1>4, <1>5, InitAsmType DEF AsmInv

LEMMA NextPubsOnce ==
    ASSUME AsmInv, Next
    PROVE  PubsOnce'
<1> USE DEF AsmInv
<1>1. turns \in Seq(Pubs) /\ pubQueue \in Seq(Pubs)
  BY DEF TypeOK
<1>2. CASE \E p \in Pubs : PubConnect(p)
  <2>1. PICK p \in Pubs : PubConnect(p)
    BY <1>2
  <2>2. /\ ~Contains(turns, p) /\ ~Contains(pubQueue, p)
        /\ pubQueue' = Append(pubQueue, p) /\ turns' = turns /\ read' = read
    BY <2>1 DEF PubConnect, Connected, brokerVars
  <2>3. Once(turns, Append(pubQueue, p))
    BY <1>1, <2>2, OnceConnect DEF PubsOnce
  <2> QED
    BY <2>2, <2>3 DEF PubsOnce
<1>3. CASE AcceptPub
  <2>1. /\ pubQueue # <<>> /\ turns' = Append(turns, Head(pubQueue))
        /\ pubQueue' = Tail(pubQueue) /\ read' = read
    BY <1>3 DEF AcceptPub
  <2>2. Once(Append(turns, Head(pubQueue)), Tail(pubQueue))
    BY <1>1, <2>1, OnceAccept DEF PubsOnce
  <2>3. Head(pubQueue) \in Pubs
    BY <1>1, <2>1, HeadTailProperties
  <2>4. \A p \in Pubs : Contains(turns, p) => Contains(turns', p)
    BY <1>1, <2>1, <2>3, AcceptedContains
  <2> QED
    BY <2>1, <2>2, <2>4 DEF PubsOnce
<1>4. CASE Recv
  <2>1. client \in Pubs /\ Len(turns) \in 1..Len(turns) /\ client = turns[Len(turns)]
    BY <1>4, ClientIsPub DEF Recv, BrokerPlace
  <2>2. Contains(turns, client)
    BY <2>1 DEF Contains
  <2>3. \A p \in Pubs : p # client => read'[p] = read[p]
    BY <1>4, <2>1 DEF Recv, TypeOK
  <2>4. turns' = turns /\ pubQueue' = pubQueue
    BY <1>4 DEF Recv
  <2> QED
    BY <2>2, <2>3, <2>4 DEF PubsOnce
<1>5. CASE ~(\E p \in Pubs : PubConnect(p)) /\ ~AcceptPub /\ ~Recv
  <2>1. turns' = turns /\ pubQueue' = pubQueue /\ read' = read
    BY <1>5 DEF Next, BrokerNext, SendStep, PubSend, PubClose, SubConnect, SubRead, SubEof,
           SubQuit, AcceptSub, PublisherOff, Send, SendAfterFin, SendError, SigPipe,
           BroadcastDone, Advance, brokerVars
  <2> QED
    BY <2>1 DEF PubsOnce
<1> QED
  BY <1>2, <1>3, <1>4, <1>5

LEMMA NextSubsOnce ==
    ASSUME AsmInv, Next
    PROVE  SubsOnce'
<1> USE DEF AsmInv
<1>1. subSocks \in Seq(Subs) /\ subQueue \in Seq(Subs)
  BY DEF TypeOK
<1>2. CASE \E s \in Subs : SubConnect(s)
  <2>1. PICK s \in Subs : SubConnect(s)
    BY <1>2
  <2>2. /\ conn[s] = "none" /\ conn' = [conn EXCEPT ![s] = "open"]
        /\ subQueue' = Append(subQueue, s) /\ subSocks' = subSocks
        /\ got' = got /\ wire' = wire
    BY <2>1 DEF SubConnect, brokerVars
  <2>3. Once(subSocks, Append(subQueue, s))
    BY <1>1, <2>2, OnceConnect DEF SubsOnce
  <2>4. \A r \in Subs : conn'[r] = "none" =>
            ~Contains(subSocks, r) /\ ~Contains(Append(subQueue, s), r)
    BY <1>1, <2>2, AcceptedContains DEF SubsOnce, TypeOK
  <2> QED
    BY <2>2, <2>3, <2>4 DEF SubsOnce
<1>3. CASE AcceptSub
  <2>1. /\ subQueue # <<>> /\ subSocks' = Append(subSocks, Head(subQueue))
        /\ subQueue' = Tail(subQueue) /\ conn' = conn /\ got' = got /\ wire' = wire
    BY <1>3 DEF AcceptSub, subVars
  <2>2. Once(Append(subSocks, Head(subQueue)), Tail(subQueue))
    BY <1>1, <2>1, OnceAccept DEF SubsOnce
  <2>3. Head(subQueue) \in Subs
    BY <1>1, <2>1, HeadTailProperties
  <2>4. \A r : /\ Contains(subSocks', r) <=> Contains(subSocks, r) \/ r = Head(subQueue)
               /\ Contains(subQueue, r) <=> r = Head(subQueue) \/ Contains(subQueue', r)
    BY <1>1, <2>1, <2>3, AcceptedContains, QueueContains
  <2> QED
    BY <2>1, <2>2, <2>4 DEF SubsOnce
<1>4. CASE ~(\E s \in Subs : SubConnect(s)) /\ ~AcceptSub
  <2>1. subSocks' = subSocks /\ subQueue' = subQueue
    BY <1>4 DEF Next, BrokerNext, SendStep, PubConnect, PubSend, PubClose, SubRead, SubEof,
           SubQuit, AcceptPub, Recv, PublisherOff, Send, SendAfterFin, SendError, SigPipe,
           BroadcastDone, Advance, brokerVars
  <2>2. ASSUME NEW s \in Subs, conn'[s] = "none"
        PROVE  conn[s] = "none"
    <3>1. \/ conn' = conn
          \/ \E r \in Subs, state \in {"fin", "reset", "gone"} :
                 conn' = [conn EXCEPT ![r] = state]
      BY <1>4 DEF Next, BrokerNext, SendStep, PubConnect, PubSend, PubClose, SubRead, SubEof,
             SubQuit, AcceptPub, Recv, PublisherOff, Send, SendAfterFin, SendError, SigPipe,
             BroadcastDone, subVars
    <3> QED
      BY <2>2, <3>1 DEF TypeOK
  <2>3. ASSUME NEW s \in Subs, ~Contains(subSocks, s)
        PROVE  got'[s] = <<>> /\ wire'[s] = <<>>
    <3>1. got[s] = <<>> /\ wire[s] = <<>>
      BY <2>3 DEF SubsOnce
    <3>2. CASE \E r \in Subs : SubRead(r) \/ SubQuit(r)
      BY <3>1, <3>2 DEF SubRead, SubQuit, TypeOK
    <3>3. CASE \E r \in Subs : Send(r)
      <4>1. PICK r \in Subs : Send(r)
        BY <3>3
      <4>2. idx \in 1..Len(subSocks) /\ subSocks[idx] = r
        BY <4>1, AdvanceType DEF Send
      <4>3. r # s
        BY <2>3, <4>2 DEF Contains
      <4> QED
        BY <3>1, <4>1, <4>3 DEF Send, TypeOK
    <3>4. CASE ~ \E r \in Subs : SubRead(r) \/ SubQuit(r) \/ Send(r)
      <4>1. got' = got /\ wire' = wire
        BY <1>4, <3>4 DEF Next, BrokerNext, SendStep, PubConnect, PubSend, PubClose, SubEof,
               AcceptPub, Recv, PublisherOff, SendAfterFin, SendError, SigPipe,
               BroadcastDone, subVars
      <4> QED
        BY <3>1, <4>1
    <3> QED
      BY <3>2, <3>3, <3>4
  <2> QED
    BY <2>1, <2>2, <2>3 DEF SubsOnce
<1> QED
  BY <1>2, <1>3, <1>4

LEMMA NextTurnsOver ==
    ASSUME AsmInv, Next
    PROVE  TurnsOver'
<1> USE DEF AsmInv
<1>1. turns \in Seq(Pubs) /\ DOMAIN turns = 1..Len(turns) /\ \A i \in 1..Len(turns) : turns[i] \in Pubs
  BY ElementOfSeq, LenProperties DEF TypeOK
<1>2. CASE AcceptPub
  <2>1. /\ turns' = Append(turns, Head(pubQueue)) /\ client' = Head(pubQueue)
        /\ client = None /\ pubQueue # <<>>
        /\ closed' = closed /\ read' = read /\ sent' = sent
    BY <1>2 DEF AcceptPub, BrokerPlace, pubVars
  <2> DEFINE n == Len(turns)
             h == Head(pubQueue)
  <2>2. /\ turns' \in Seq(Pubs) /\ Len(turns') = n + 1 /\ turns'[n + 1] = h
        /\ \A i \in 1..n : turns'[i] = turns[i]
    <3>1. h \in Pubs
      BY <2>1, HeadTailProperties DEF TypeOK
    <3> QED
      BY <1>1, <2>1, <3>1, AppendProperties
  <2>3. DOMAIN turns' = 1..(n + 1) /\ n \in Nat
    BY <2>2, <1>1, LenProperties
  <2>4. \A i \in 1..n : closed[turns[i]] /\ read[turns[i]] = sent[turns[i]]
    BY <1>1, <2>1 DEF TurnsOver
  <2>5. \A i \in 1..(n + 1) : i \in 1..n \/ i = n + 1
    BY <2>3
  <2> QED
    BY <2>1, <2>2, <2>3, <2>4, <2>5 DEF TurnsOver
<1>3. CASE Recv
  <2>1. client \in Pubs
    BY <1>3, ClientIsPub DEF Recv
  <2>2. /\ turns' = turns /\ client' = client /\ closed' = closed /\ sent' = sent
        /\ \A p \in Pubs : p # client => read'[p] = read[p]
    BY <1>3, <2>1 DEF Recv, TypeOK, pubVars
  <2> QED
    BY <1>1, <2>2 DEF TurnsOver
<1>4. CASE PublisherOff
  <2>1. /\ turns' = turns /\ closed' = closed /\ read' = read /\ sent' = sent
        /\ closed[client] /\ read[client] = sent[client]
    BY <1>4 DEF PublisherOff, StreamEnded, pubVars
  <2> QED
    BY <2>1 DEF TurnsOver
<1>5. CASE \E p \in Pubs : PubSend(p) \/ PubClose(p)
  <2>1. PICK p \in Pubs : PubSend(p) \/ PubClose(p)
    BY <1>5
  <2>2. /\ turns' = turns /\ client' = client /\ read' = read
        /\ \A q \in Pubs : closed[q] => closed'[q] /\ sent'[q] = sent[q]
    BY <2>1 DEF PubSend, PubClose, brokerVars, TypeOK
  <2> QED
    BY <1>1, <2>2 DEF TurnsOver
<1>6. CASE ~AcceptPub /\ ~Recv /\ ~PublisherOff /\ ~(\E p \in Pubs : PubSend(p) \/ PubClose(p))
  <2>1. turns' = turns /\ client' = client /\ read' = read /\ closed' = closed /\ sent' = sent
    BY <1>6 DEF Next, BrokerNext, SendStep, PubConnect, SubConnect, SubRead, SubEof,
           SubQuit, AcceptSub, Send, SendAfterFin, SendError, SigPipe,
           BroadcastDone, Advance, brokerVars, pubVars
  <2> QED
    BY <2>1 DEF TurnsOver
<1> QED
  BY <1>2, <1>3, <1>4, <1>5, <1>6

------------------------------------------------------------------------------
(* What was received                                                       *)

\* The stream of every accepted publisher.
Streams == [i \in DOMAIN turns |-> Received(turns[i])]

LEMMA ReceivedType ==
    ASSUME TypeOK, NEW p \in Pubs
    PROVE  Received(p) \in Seq(Units) /\ Len(Received(p)) = read[p]
<1>1. read[p] \in 0..Total /\ Total \in Nat
  BY DEF TypeOK
<1>2. \A n \in 1..read[p] : Unit(p, n) \in Units
  BY <1>1 DEF Unit, Units
<1> QED
  BY <1>1, <1>2 DEF Received

LEMMA LogType ==
    ASSUME TypeOK
    PROVE  Streams \in Seq(Seq(Units)) /\ Len(Streams) = Len(turns) /\ log \in Seq(Units)
<1>1. /\ Len(turns) \in Nat /\ DOMAIN turns = 1..Len(turns)
      /\ \A i \in 1..Len(turns) : turns[i] \in Pubs
  BY ElementOfSeq, LenProperties DEF TypeOK
<1>2. \A i \in 1..Len(turns) : Received(turns[i]) \in Seq(Units)
  BY <1>1, ReceivedType
<1>3. Streams \in Seq(Seq(Units)) /\ Len(Streams) = Len(turns)
  BY <1>1, <1>2 DEF Streams
<1>4. log = FlattenSeq(Streams)
  BY DEF log, Streams
<1> QED
  BY <1>3, <1>4, FlattenType

\* Accepting a publisher receives nothing yet.
LEMMA AcceptPubLog ==
    ASSUME AsmInv, AcceptPub
    PROVE  log' = log
<1> USE DEF AsmInv
<1> DEFINE h == Head(pubQueue)
           n == Len(turns)
<1>1. /\ turns \in Seq(Pubs) /\ pubQueue \in Seq(Pubs) /\ pubQueue # <<>>
      /\ turns' = Append(turns, h) /\ read' = read
  BY DEF TypeOK, AcceptPub
<1>2. h \in Pubs /\ ~Contains(turns, h)
  BY <1>1, HeadTailProperties, OnceAccept DEF PubsOnce
<1>3. Received(h) = <<>>
  <2>1. read[h] = 0
    BY <1>2 DEF PubsOnce
  <2>2. Received(h) \in Seq(Units) /\ Len(Received(h)) = 0
    BY <1>2, <2>1, ReceivedType
  <2> QED
    BY <2>2, EmptySeq
<1>4. /\ n \in Nat /\ turns' \in Seq(Pubs) /\ Len(turns') = n + 1 /\ turns'[n + 1] = h
      /\ \A i \in 1..n : turns'[i] = turns[i]
      /\ DOMAIN turns = 1..n /\ DOMAIN turns' = 1..(n + 1)
  BY <1>1, <1>2, AppendProperties, LenProperties
<1>5. Streams \in Seq(Seq(Units)) /\ Len(Streams) = n /\ \A i \in 1..n : Streams[i] = Received(turns[i])
  BY <1>4, LogType DEF Streams
<1>6. Streams' = Append(Streams, <<>>)
  <2>1. \A p : Received(p)' = Received(p)
    BY <1>1 DEF Received
  <2>2. Streams' = [i \in 1..(n + 1) |-> Received(turns'[i])]
    BY <1>4, <2>1 DEF Streams
  <2>3. /\ Append(Streams, <<>>) \in Seq(Seq(Units))
        /\ Len(Append(Streams, <<>>)) = n + 1
        /\ Append(Streams, <<>>)[n + 1] = <<>>
        /\ \A i \in 1..n : Append(Streams, <<>>)[i] = Streams[i]
    <3>1. <<>> \in Seq(Units)
      BY EmptySeq
    <3> QED
      BY <1>5, <3>1, AppendProperties
  <2> DEFINE a == Append(Streams, <<>>)
  <2> HIDE DEF a, n, h
  <2>4. ASSUME NEW i \in 1..(n + 1)
        PROVE  a[i] = Received(turns'[i])
    <3>1. CASE i \in 1..n
      BY <1>4, <1>5, <2>3, <3>1 DEF a
    <3>2. CASE i = n + 1
      BY <1>3, <1>4, <2>3, <3>2 DEF a
    <3>3. i \in 1..n \/ i = n + 1
      BY <1>4
    <3> QED
      BY <3>1, <3>2, <3>3
  <2>5. a = [i \in 1..(n + 1) |-> a[i]]
    BY <2>3, LenProperties DEF a
  <2> QED
    BY <2>2, <2>4, <2>5 DEF a
<1>7. FlattenSeq(Append(Streams, <<>>)) = FlattenSeq(Streams) \o <<>>
  BY <1>5, EmptySeq, FlattenAppend
<1>8. log \o <<>> = log
  BY LogType, ConcatEmptySeq
<1>9. log = FlattenSeq(Streams) /\ log' = FlattenSeq(Streams')
  BY DEF log, Streams
<1> QED
  BY <1>6, <1>7, <1>8, <1>9

\* One more recvfrom() adds what it returns to what was received of its publisher.
LEMMA RecvReceived ==
    ASSUME TypeOK, NEW p \in Pubs, NEW k \in 1..RecvMax, read[p] + k <= sent[p],
           read' = [read EXCEPT ![p] = @ + k],
           buffer' = [j \in 1..k |-> Unit(p, read[p] + j)]
    PROVE  /\ Received(p)' = Received(p) \o buffer'
           /\ \A q \in Pubs : q # p => Received(q)' = Received(q)
<1> DEFINE a == read[p]
           r == Received(p)
           c == [j \in 1..k |-> Unit(p, a + j)]
           after == [n \in 1..(a + k) |-> Unit(p, n)]
<1>1. /\ a \in Nat /\ k \in Nat /\ read'[p] = a + k
      /\ \A q \in Pubs : q # p => read'[q] = read[q]
  BY DEF TypeOK
<1>2. /\ c \in Seq(Units) /\ Len(c) = k
      /\ r \in Seq(Units) /\ Len(r) = a
  BY RecvReturnsUnits, ReceivedType
<1>3. /\ \A j \in 1..k : c[j] = Unit(p, a + j)
      /\ \A n \in 1..a : r[n] = Unit(p, n)
      /\ Received(p)' = after /\ buffer' = c
  BY <1>1 DEF Received
<1> HIDE DEF a, r, c
<1>4. /\ r \o c \in Seq(Units) /\ Len(r \o c) = a + k
      /\ \A i \in 1..(a + k) : (r \o c)[i] = IF i <= a THEN r[i] ELSE c[i - a]
  BY ZenonT(60), <1>2, ConcatProperties
<1>5. ASSUME NEW i \in 1..(a + k)
      PROVE  (r \o c)[i] = Unit(p, i)
  <2>1. CASE i <= a
    <3>1. i \in 1..a
      BY <1>1, <2>1
    <3> QED
      BY <1>3, <1>4, <2>1, <3>1
  <2>2. CASE ~(i <= a)
    <3>1. i - a \in 1..k /\ a + (i - a) = i
      BY <1>1, <2>2
    <3> QED
      BY <1>3, <1>4, <2>2, <3>1
  <2> QED
    BY <2>1, <2>2
<1> DEFINE both == r \o c
<1>6. both = [i \in 1..(a + k) |-> both[i]]
  BY <1>4, LenProperties
<1> HIDE DEF both
<1>7. both = after
  BY <1>5, <1>6 DEF both
<1>8. \A q \in Pubs : q # p => Received(q)' = Received(q)
  BY <1>1 DEF Received
<1> QED
  BY <1>3, <1>7, <1>8 DEF both, r

\* The log without the stream of the publisher that is served.
EarlierStreams == [i \in 1..(Len(turns) - 1) |-> Received(turns[i])]

LEMMA LastStream ==
    ASSUME TypeOK, turns # <<>>
    PROVE  /\ EarlierStreams \in Seq(Seq(Units))
           /\ turns[Len(turns)] \in Pubs
           /\ Received(turns[Len(turns)]) \in Seq(Units)
           /\ Streams = Append(EarlierStreams, Received(turns[Len(turns)]))
<1> DEFINE n == Len(turns)
<1>1. n \in Nat \ {0} /\ DOMAIN turns = 1..n /\ \A i \in 1..n : turns[i] \in Pubs
  BY EmptySeq, ElementOfSeq, LenProperties DEF TypeOK
<1> HIDE DEF n
<1>2. \A i \in 1..n : Received(turns[i]) \in Seq(Units)
  BY <1>1, ReceivedType
<1>3. /\ n \in 1..n /\ (n - 1) + 1 = n /\ n - 1 \in Nat
      /\ \A i \in 1..(n - 1) : i \in 1..n
      /\ \A i \in 1..n : i \in 1..(n - 1) \/ i = n
  BY <1>1
<1> DEFINE e == [i \in 1..(n - 1) |-> Received(turns[i])]
           x == Received(turns[n])
           b == Append(e, x)
<1>4. e \in Seq(Seq(Units)) /\ Len(e) = n - 1 /\ x \in Seq(Units)
  <2>1. \A i \in 1..(n - 1) : Received(turns[i]) \in Seq(Units)
    BY <1>2, <1>3
  <2>2. n - 1 \in Nat
    BY <1>3
  <2>3. e \in Seq(Seq(Units))
    BY <2>1, <2>2
  <2>4. Len(e) = n - 1
    BY <2>2
  <2> QED
    BY <1>2, <1>3, <2>3, <2>4
<1>5. \A i \in 1..(n - 1) : e[i] = Received(turns[i])
  OBVIOUS
<1> HIDE DEF e
<1>6. /\ b \in Seq(Seq(Units)) /\ Len(b) = n /\ b[n] = x
      /\ \A i \in 1..(n - 1) : b[i] = e[i]
  <2> HIDE DEF x
  <2>1. /\ b \in Seq(Seq(Units)) /\ Len(b) = Len(e) + 1
        /\ b[Len(e) + 1] = x /\ \A i \in 1..Len(e) : b[i] = e[i]
    BY <1>4, AppendProperties
  <2> QED
    BY <1>3, <1>4, <2>1
<1> HIDE DEF b
<1>7. \A i \in 1..n : b[i] = Received(turns[i])
  BY <1>3, <1>5, <1>6
<1>8. b = [i \in 1..n |-> b[i]]
  BY <1>6, LenProperties
<1>9. b = [i \in 1..n |-> Received(turns[i])]
  BY <1>7, <1>8
<1>10. Streams = b
  BY <1>1, <1>9 DEF Streams
<1> QED
  BY <1>1, <1>2, <1>3, <1>4, <1>10 DEF EarlierStreams, b, e, n

\* The same of the state after a step.
LEMMA LastStreamAfter ==
    (TypeOK /\ turns # <<>> =>
         Streams = Append(EarlierStreams, Received(turns[Len(turns)])))'
<1>1. TypeOK /\ turns # <<>> => Streams = Append(EarlierStreams, Received(turns[Len(turns)]))
  BY LastStream
<1> QED
  BY <1>1, PTL

\* What is received enters the log at its end: no turn but the last one grows.
LEMMA RecvLog ==
    ASSUME AsmInv, Recv
    PROVE  log' = log \o buffer' /\ buffer' \in Seq(Units)
<1> USE DEF AsmInv
<1>1. client \in Pubs /\ turns # <<>> /\ client = turns[Len(turns)]
  BY ClientIsPub DEF Recv, BrokerPlace
<1>2. PICK k \in 1..RecvMax :
          /\ read[client] + k <= sent[client]
          /\ buffer' = [j \in 1..k |-> Unit(client, read[client] + j)]
          /\ read' = [read EXCEPT ![client] = @ + k]
  BY DEF Recv
<1> DEFINE After(q) == [n \in 1..read'[q] |-> Unit(q, n)]
<1>3. /\ After(client) = Received(client) \o buffer'
      /\ \A q \in Pubs : q # client => After(q) = Received(q)
  <2> DEFINE p == client
  <2>1. /\ TypeOK /\ p \in Pubs /\ read[p] + k <= sent[p]
        /\ read' = [read EXCEPT ![p] = @ + k]
        /\ buffer' = [j \in 1..k |-> Unit(p, read[p] + j)]
    BY <1>1, <1>2
  <2> HIDE DEF p
  <2>2. /\ After(p) = Received(p) \o buffer'
        /\ \A q \in Pubs : q # p => After(q) = Received(q)
    BY <2>1, RecvReceived DEF Received
  <2> QED
    BY <2>2 DEF p
<1>4. buffer' \in Seq(Units)
  BY <1>1, <1>2, RecvReturnsUnits
<1>5. TypeOK' /\ turns' = turns /\ client' = client
  BY BrokerType DEF BrokerNext, Recv
<1>6. EarlierStreams' = EarlierStreams
  <2> DEFINE n == Len(turns)
  <2>1. n \in Nat /\ \A i \in 1..n : turns[i] \in Pubs
    BY ElementOfSeq, LenProperties DEF TypeOK
  <2>2. \A i, j \in 1..n : turns[i] = turns[j] => i = j
    BY DEF PubsOnce, Once
  <2>3. /\ EarlierStreams = [i \in 1..(n - 1) |-> Received(turns[i])]
        /\ EarlierStreams' = [i \in 1..(n - 1) |-> After(turns[i])]
        /\ client = turns[n]
    BY <1>1, <1>5 DEF EarlierStreams, Received
  <2> HIDE DEF n
  <2>4. ASSUME NEW i \in 1..(n - 1)
        PROVE  turns[i] \in Pubs /\ turns[i] # client
    <3>1. i \in 1..n /\ n \in 1..n /\ i # n
      BY <2>1
    <3> QED
      BY <2>1, <2>2, <2>3, <3>1
  <2> HIDE DEF After
  <2>5. \A i \in 1..(n - 1) : After(turns[i]) = Received(turns[i])
    BY <1>3, <2>4
  <2> QED
    BY <2>3, <2>5
<1> DEFINE e == EarlierStreams
           x == Received(client)
           y == buffer'
           z == x \o y
<1>7. e \in Seq(Seq(Units)) /\ x \in Seq(Units) /\ log = FlattenSeq(Append(e, x))
  BY <1>1, LastStream DEF log, Streams
<1>8. log' = FlattenSeq(Append(e, z))
  <2>1. /\ Streams' = Append(EarlierStreams', After(client))
        /\ log' = FlattenSeq(Streams')
    BY <1>1, <1>5, LastStreamAfter DEF log, Streams, Received
  <2> QED
    BY <1>3, <1>6, <2>1
<1>9. y \in Seq(Units)
  BY <1>4
<1> HIDE DEF e, x, y
<1>10. z \in Seq(Units)
  BY <1>7, <1>9, ConcatProperties
<1>11. log = FlattenSeq(e) \o x
  BY <1>7, FlattenAppend
<1> HIDE DEF z
<1>12. log' = FlattenSeq(e) \o z
  BY <1>7, <1>8, <1>10, FlattenAppend
<1>13. FlattenSeq(e) \in Seq(Units)
  BY <1>7, FlattenType
<1>14. FlattenSeq(e) \o z = (FlattenSeq(e) \o x) \o y
  BY SMTT(30), <1>7, <1>9, <1>13, ConcatAssociative DEF z
<1> QED
  BY <1>4, <1>11, <1>12, <1>14 DEF y

\* No other step changes the log.
LEMMA LogSame ==
    ASSUME AsmInv, [Next]_vars, ~Recv
    PROVE  log' = log
<1>1. CASE AcceptPub
  BY <1>1, AcceptPubLog
<1>2. CASE ~AcceptPub
  <2>1. turns' = turns /\ read' = read
    BY <1>2 DEF Next, BrokerNext, SendStep, PubConnect, PubSend, PubClose, SubConnect, SubRead,
           SubEof, SubQuit, AcceptSub, PublisherOff, Send, SendAfterFin, SendError, SigPipe,
           BroadcastDone, Advance, brokerVars, vars
  <2> QED
    BY <2>1 DEF log, Received
<1> QED
  BY <1>1, <1>2

------------------------------------------------------------------------------
(* Streams stay whole                                                      *)

\* Before the broker has a publisher there is nothing.
LEMMA NothingYet ==
    ASSUME TypeOK, turns = <<>>
    PROVE  log = <<>>
<1>1. Streams \in Seq(Seq(Units)) /\ Len(Streams) = 0
  BY LogType, EmptySeq
<1>2. Streams = <<>>
  BY <1>1, EmptySeq
<1> QED
  BY <1>2, FlattenEmpty DEF log, Streams

\* A round of the loop pays what is owed to one subscriber, and only to that one.
LEMMA OwedAdvance ==
    ASSUME AsmInv, NEW s \in Subs, Sending(s), Advance
    PROVE  /\ Owed(s) = buffer /\ Owed(s)' = <<>>
           /\ \A r \in Subs : r # s => Owed(r)' = Owed(r)
<1> USE DEF AsmInv
<1> DEFINE n == Len(subSocks)
<1>1. /\ idx' = idx + 1 /\ idx \in 1..n /\ subSocks[idx] = s /\ n \in Nat
      /\ pc = "broadcast" /\ pc' = pc /\ subSocks' = subSocks /\ buffer' = buffer
  <2>1. n \in Nat
    BY DEF TypeOK
  <2> QED
    BY <2>1, AdvanceType DEF Sending, Advance
<1>2. \A i, j \in 1..n : subSocks[i] = subSocks[j] => i = j
  BY DEF SubsOnce, Once
<1>3. /\ Owed(s) = IF \E i \in idx..n : subSocks[i] = s THEN buffer ELSE <<>>
      /\ \A r : Owed(r) = IF \E i \in idx..n : subSocks[i] = r THEN buffer ELSE <<>>
      /\ \A r : Owed(r)' = IF \E i \in (idx + 1)..n : subSocks[i] = r THEN buffer ELSE <<>>
  BY <1>1 DEF Owed
<1> HIDE DEF n
<1>4. \A i \in idx..n : i = idx \/ i \in (idx + 1)..n
  BY <1>1
<1>5. idx \in idx..n /\ \A i \in (idx + 1)..n : i \in idx..n /\ i \in 1..n /\ i # idx
  BY <1>1
<1>6. ~ \E i \in (idx + 1)..n : subSocks[i] = s
  BY <1>1, <1>2, <1>5
<1>7. ASSUME NEW r \in Subs, r # s
      PROVE  (\E i \in (idx + 1)..n : subSocks[i] = r) <=> (\E i \in idx..n : subSocks[i] = r)
  BY <1>1, <1>4, <1>5, <1>7
<1> QED
  BY <1>1, <1>3, <1>5, <1>6, <1>7

\* A step that leaves the connections alone and the log and what is owed as they were.
LEMMA QuietStreams ==
    ASSUME AsmInv, subSocks' = subSocks, conn' = conn, got' = got, wire' = wire, log' = log,
           \A s \in Subs : Owed(s)' = Owed(s)
    PROVE  StreamsWhole'
  BY DEF AsmInv, StreamsWhole

LEMMA AcceptSubStreams ==
    ASSUME AsmInv, AcceptSub
    PROVE  StreamsWhole'
<1> USE DEF AsmInv
<1>1. /\ subSocks \in Seq(Subs) /\ subQueue \in Seq(Subs) /\ subQueue # <<>>
      /\ subSocks' = Append(subSocks, Head(subQueue))
      /\ conn' = conn /\ got' = got /\ wire' = wire
      /\ turns = <<>> /\ pc = "subs" /\ pc' \in {"subs", "publisher"}
  BY DEF TypeOK, AcceptSub, BrokerPlace, subVars
<1>2. log = <<>> /\ log' = log
  <2>1. [Next]_vars /\ ~Recv
    BY DEF Next, BrokerNext, AcceptSub, Recv
  <2> QED
    BY <1>1, <2>1, NothingYet, LogSame
<1>3. \A s : Owed(s) = <<>> /\ Owed(s)' = <<>>
  BY <1>1 DEF Owed
<1>4. ASSUME NEW s \in Subs, Contains(subSocks', s), conn'[s] = "open"
      PROVE  got'[s] \o wire'[s] \o Owed(s)' = log'
  <2>1. Head(subQueue) \in Subs
    BY <1>1, HeadTailProperties
  <2>2. Contains(subSocks, s) \/ s = Head(subQueue)
    BY <1>1, <1>4, <2>1, AcceptedContains
  <2>3. CASE Contains(subSocks, s)
    <3>1. got[s] \o wire[s] \o Owed(s) = log
      BY <1>1, <1>4, <2>3 DEF StreamsWhole
    <3> QED
      BY <1>1, <1>2, <1>3, <3>1
  <2>4. CASE ~Contains(subSocks, s)
    <3>1. got[s] = <<>> /\ wire[s] = <<>>
      BY <2>4 DEF SubsOnce
    <3>2. <<>> \o <<>> \o <<>> = <<>>
      OBVIOUS
    <3> QED
      BY <1>1, <1>2, <1>3, <3>1, <3>2
  <2> QED
    BY <2>3, <2>4
<1> QED
  BY <1>4 DEF StreamsWhole

LEMMA RecvStreams ==
    ASSUME AsmInv, Recv
    PROVE  StreamsWhole'
<1> USE DEF AsmInv
<1>1. /\ pc = "recv" /\ pc' = "broadcast" /\ idx' = 1 /\ subSocks' = subSocks
      /\ conn' = conn /\ got' = got /\ wire' = wire
  BY DEF Recv, subVars
<1>2. log' = log \o buffer' /\ buffer' \in Seq(Units)
  BY RecvLog
<1>3. ASSUME NEW s \in Subs, Contains(subSocks, s), conn[s] = "open"
      PROVE  got[s] \o wire[s] \o Owed(s)' = log'
  <2>1. got[s] \o wire[s] \o <<>> = log
    <3>1. Owed(s) = <<>>
      BY <1>1 DEF Owed
    <3> QED
      BY <1>3, <3>1 DEF StreamsWhole
  <2>2. Owed(s)' = buffer'
    <3>1. \E i \in 1..Len(subSocks) : subSocks[i] = s
      BY <1>3 DEF Contains
    <3> QED
      BY <1>1, <3>1 DEF Owed
  <2>3. got[s] \in Seq(Units) /\ wire[s] \in Seq(Units)
    BY DEF TypeOK
  <2>4. got[s] \o wire[s] \in Seq(Units)
    BY <2>3, ConcatProperties
  <2>5. got[s] \o wire[s] = log
    BY <2>1, <2>4, ConcatEmptySeq
  <2> QED
    BY <1>2, <2>2, <2>5
<1> QED
  BY <1>1, <1>3 DEF StreamsWhole

LEMMA SendStreams ==
    ASSUME AsmInv, NEW s \in Subs, Send(s) \/ SendAfterFin(s) \/ SendError(s), log' = log
    PROVE  StreamsWhole'
<1> USE DEF AsmInv
<1>1. /\ Owed(s) = buffer /\ Owed(s)' = <<>>
      /\ \A r \in Subs : r # s => Owed(r)' = Owed(r)
  BY OwedAdvance DEF Send, SendAfterFin, SendError
<1>2. subSocks' = subSocks /\ got' = got
  BY DEF Send, SendAfterFin, SendError, Advance
<1>3. \A r \in Subs : r # s => wire'[r] = wire[r] /\ conn'[r] = conn[r]
  BY DEF Send, SendAfterFin, SendError, TypeOK
<1>4. ASSUME Contains(subSocks, s), conn'[s] = "open"
      PROVE  got[s] \o wire'[s] \o Owed(s)' = log
  <2>1. Send(s)
    BY <1>4 DEF SendAfterFin, SendError, TypeOK
  <2>2. wire'[s] = wire[s] \o buffer /\ conn[s] = "open"
    <3>1. wire' = [wire EXCEPT ![s] = wire[s] \o buffer] /\ conn[s] = "open"
      BY <2>1 DEF Send
    <3>2. DOMAIN wire = Subs
      BY DEF TypeOK
    <3> QED
      BY <3>1, <3>2
  <2>3. got[s] \in Seq(Units) /\ wire[s] \in Seq(Units) /\ buffer \in Seq(Units)
    BY DEF TypeOK
  <2>4. got[s] \o (wire[s] \o buffer) \o <<>> = got[s] \o wire[s] \o buffer
    <3> DEFINE g == got[s]
               w == wire[s]
               c == buffer
    <3>1. g \in Seq(Units) /\ w \in Seq(Units) /\ c \in Seq(Units)
      BY <2>3
    <3> HIDE DEF g, w, c
    <3>2. g \o (w \o c) \o <<>> = g \o w \o c
      BY ONLY <3>1, ChunkMoves
    <3> QED
      BY <3>2 DEF g, w, c
  <2>5. got[s] \o wire[s] \o buffer = log
    BY <1>1, <1>4, <2>2 DEF StreamsWhole
  <2> QED
    BY <1>1, <2>2, <2>4, <2>5
<1> QED
  BY <1>1, <1>2, <1>3, <1>4 DEF StreamsWhole

LEMMA SubStreams ==
    ASSUME AsmInv, NEW s \in Subs,
           SubConnect(s) \/ SubRead(s) \/ SubEof(s) \/ SubQuit(s), log' = log
    PROVE  StreamsWhole'
<1> USE DEF AsmInv
<1>1. subSocks' = subSocks /\ \A r : Owed(r)' = Owed(r)
  BY DEF SubConnect, SubRead, SubEof, SubQuit, brokerVars, Owed
<1>2. \A r \in Subs : r # s => wire'[r] = wire[r] /\ conn'[r] = conn[r] /\ got'[r] = got[r]
  BY DEF SubConnect, SubRead, SubEof, SubQuit, TypeOK
<1>3. ASSUME Contains(subSocks, s), conn'[s] = "open"
      PROVE  got'[s] \o wire'[s] \o Owed(s)' = log
  <2>1. SubRead(s)
    BY <1>3 DEF SubConnect, SubEof, SubQuit, SubsOnce, TypeOK
  <2>2. /\ got[s] \in Seq(Units) /\ wire[s] \in Seq(Units) /\ wire[s] # <<>>
        /\ got'[s] = Append(got[s], Head(wire[s])) /\ wire'[s] = Tail(wire[s])
        /\ conn[s] = "open"
    BY <2>1 DEF SubRead, TypeOK
  <2>3. Append(got[s], Head(wire[s])) \o Tail(wire[s]) = got[s] \o wire[s]
    BY <2>2, ReadMoves
  <2>4. got[s] \o wire[s] \o Owed(s) = log
    BY <1>3, <2>2 DEF StreamsWhole
  <2> QED
    BY <1>1, <2>2, <2>3, <2>4
<1> QED
  BY <1>1, <1>2, <1>3 DEF StreamsWhole

LEMMA NextStreams ==
    ASSUME AsmInv, Next
    PROVE  StreamsWhole'
<1> USE DEF AsmInv
<1>1. CASE Recv
  BY <1>1, RecvStreams
<1>2. CASE ~Recv
  <2>1. log' = log
    BY <1>2, LogSame
  <2>2. CASE AcceptSub
    BY <2>2, AcceptSubStreams
  <2>3. CASE \E s \in Subs : Send(s) \/ SendAfterFin(s) \/ SendError(s)
    BY <2>1, <2>3, SendStreams
  <2>4. CASE \E s \in Subs : SubConnect(s) \/ SubRead(s) \/ SubEof(s) \/ SubQuit(s)
    BY <2>1, <2>4, SubStreams
  <2>5. CASE AcceptPub \/ PublisherOff
    <3>1. subSocks' = subSocks /\ conn' = conn /\ got' = got /\ wire' = wire
      BY <2>5 DEF AcceptPub, PublisherOff, subVars
    <3>2. \A s \in Subs : Owed(s) = <<>> /\ Owed(s)' = <<>>
      BY <2>5 DEF AcceptPub, PublisherOff, Owed
    <3> QED
      BY <2>1, <3>1, <3>2, QuietStreams
  <2>6. CASE BroadcastDone
    <3>1. /\ subSocks' = subSocks /\ conn' = conn /\ got' = got /\ wire' = wire
          /\ idx > Len(subSocks) /\ pc' = "recv"
      BY <2>6 DEF BroadcastDone, subVars
    <3>2. idx \in Nat /\ Len(subSocks) \in Nat
      BY DEF TypeOK
    <3>3. \A i \in idx..Len(subSocks) : FALSE
      BY <3>1, <3>2
    <3>4. \A s \in Subs : Owed(s) = <<>> /\ Owed(s)' = <<>>
      BY <3>1, <3>3 DEF Owed
    <3> QED
      BY <2>1, <3>1, <3>4, QuietStreams
  <2>7. CASE (\E s \in Subs : SigPipe(s)) \/ \E p \in Pubs : PubConnect(p) \/ PubSend(p) \/ PubClose(p)
    <3>1. /\ subSocks' = subSocks /\ conn' = conn /\ got' = got /\ wire' = wire
          /\ idx' = idx /\ buffer' = buffer
          /\ pc' = pc \/ (pc = "broadcast" /\ pc' = "down")
      BY <2>7 DEF SigPipe, Sending, PubConnect, PubSend, PubClose, subVars, brokerVars
    <3>2. \A s \in Subs : Owed(s)' = Owed(s)
      BY <3>1 DEF Owed
    <3> QED
      BY <2>1, <3>1, <3>2, QuietStreams
  <2> QED
    BY <1>2, <2>2, <2>3, <2>4, <2>5, <2>6, <2>7 DEF Next, BrokerNext, SendStep
<1> QED
  BY <1>1, <1>2

LEMMA NextAsm ==
    ASSUME AsmInv, [Next]_vars
    PROVE  AsmInv'
<1>1. CASE Next
  <2>1. TypeOK' /\ BrokerPlace'
    BY <1>1, ClientsType, BrokerType DEF AsmInv, Next
  <2> QED
    BY <1>1, <2>1, NextPubsOnce, NextSubsOnce, NextTurnsOver, NextStreams DEF AsmInv
<1>2. CASE UNCHANGED vars
  <2> USE <1>2 DEF vars, AsmInv
  <2>1. TypeOK'
    BY DEF TypeOK
  <2>2. BrokerPlace'
    BY DEF BrokerPlace
  <2>3. PubsOnce' /\ SubsOnce'
    BY DEF PubsOnce, SubsOnce
  <2>4. TurnsOver'
    BY DEF TurnsOver
  <2>5. log' = log /\ \A s : Owed(s)' = Owed(s)
    BY DEF log, Received, Owed
  <2>6. StreamsWhole'
    BY <2>5 DEF StreamsWhole
  <2> QED
    BY <2>1, <2>2, <2>3, <2>4, <2>6
<1> QED
  BY <1>1, <1>2

------------------------------------------------------------------------------
(* Theorems                                                                *)

\* The invariant the other theorems follow from.
THEOREM AsmInvariant == Spec => []AsmInv
<1>1. Init => AsmInv
  BY InitAsm
<1>2. AsmInv /\ [Next]_vars => AsmInv'
  BY NextAsm
<1> QED
  BY <1>1, <1>2, PTL DEF Spec

\* Every variable of the assembly broker and of its clients keeps its type: no
\* list grows past its limit, and r12 stays within sub_socks[] or one past it.
THEOREM AsmTypeCorrect == Spec => []TypeOK
<1>1. AsmInv => TypeOK
  BY DEF AsmInv
<1> QED
  BY <1>1, AsmInvariant, PTL

\* For any number of publishers, of subscribers and of places in sub_socks[]:
\* publishers are served one after the other and whole, and an accepted
\* subscriber that is alive gets all that the broker has received, in order.
THEOREM ServedInOrder == Spec => []ServedInTurn
<1>1. AsmInv => ServedInTurn
  <2> SUFFICES ASSUME AsmInv
               PROVE  ServedInTurn
    OBVIOUS
  <2>1. \A s \in Subs : pc # "down" => Owed(s) = Pending(s)
    BY DEF Owed, Pending
  <2> QED
    BY <2>1 DEF AsmInv, StreamsWhole, TurnsOver, ServedInTurn
<1> QED
  BY <1>1, AsmInvariant, PTL

------------------------------------------------------------------------------
(* The broker implements TotalOrderBroadcast                               *)

\* The subscribers that have joined are those on the list.
LEMMA JoinedAre ==
    ASSUME TypeOK, NEW s
    PROVE  s \in ToSet(subSocks) <=> Contains(subSocks, s)
<1>1. DOMAIN subSocks = 1..Len(subSocks)
  BY LenProperties DEF TypeOK
<1> QED
  BY <1>1 DEF ToSet, Contains

LEMMA RecvPublishes ==
    ASSUME AsmInv, Recv
    PROVE  TOB!Publish(client)
<1> USE DEF AsmInv
<1>1. client \in Pubs
  BY ClientIsPub DEF Recv
<1>2. PICK k \in 1..RecvMax :
          /\ read[client] + k <= sent[client]
          /\ buffer' = [j \in 1..k |-> Unit(client, read[client] + j)]
          /\ read' = [read EXCEPT ![client] = @ + k]
  BY DEF Recv
<1>3. k \in 1..(Total - read[client])
  <2>1. read[client] \in Nat /\ sent[client] \in 0..Total /\ k \in Nat /\ k >= 1 /\ Total \in Nat
    BY <1>1, <1>2 DEF TypeOK
  <2> QED
    BY <1>2, <2>1
<1>4. log' = log \o TOB!Chunk(client, read[client], k)
  <2>1. TOB!Chunk(client, read[client], k) = buffer'
    BY <1>2 DEF TOB!Chunk, TOB!Unit, Unit
  <2> QED
    BY <2>1, RecvLog
<1>5. subSocks' = subSocks /\ got' = got
  BY DEF Recv, subVars
<1> QED
  BY <1>2, <1>3, <1>4, <1>5 DEF TOB!Publish

LEMMA AcceptSubJoins ==
    ASSUME AsmInv, AcceptSub
    PROVE  TOB!Join(Head(subQueue)) /\ Head(subQueue) \in Subs
<1> USE DEF AsmInv
<1> DEFINE h == Head(subQueue)
<1>1. /\ subSocks \in Seq(Subs) /\ subQueue \in Seq(Subs) /\ subQueue # <<>>
      /\ subSocks' = Append(subSocks, h) /\ turns = <<>>
      /\ read' = read /\ got' = got
  BY DEF TypeOK, AcceptSub, BrokerPlace, subVars
<1>2. h \in Subs /\ ~Contains(subSocks, h)
  BY <1>1, HeadTailProperties, OnceAccept DEF SubsOnce
<1>3. log = <<>> /\ log' = log
  <2>1. [Next]_vars /\ ~Recv
    BY DEF Next, BrokerNext, AcceptSub, Recv
  <2> QED
    BY <1>1, <2>1, NothingYet, LogSame
<1>4. ToSet(subSocks') = ToSet(subSocks) \cup {h}
  <2>1. TypeOK'
    BY BrokerType DEF BrokerNext
  <2>2. DOMAIN subSocks' = 1..Len(subSocks')
    BY <2>1, LenProperties DEF TypeOK
  <2>3. \A x : x \in ToSet(subSocks') <=> Contains(subSocks', x)
    BY <2>2 DEF ToSet, Contains
  <2>4. \A x : x \in ToSet(subSocks) <=> Contains(subSocks, x)
    BY JoinedAre
  <2>5. \A x : Contains(subSocks', x) <=> Contains(subSocks, x) \/ x = h
    BY <1>1, <1>2, AcceptedContains
  <2> QED
    BY <2>3, <2>4, <2>5
<1>5. h \notin ToSet(subSocks)
  BY <1>2, JoinedAre
<1>6. Len(log) = 0
  BY <1>3
<1>7. [s \in Subs |-> 0] = [[s \in Subs |-> 0] EXCEPT ![h] = Len(log)]
  BY <1>6
<1> QED
  BY <1>1, <1>2, <1>3, <1>4, <1>5, <1>7 DEF TOB!Join

LEMMA ReadDelivers ==
    ASSUME AsmInv, NEW s \in Subs, SubRead(s)
    PROVE  TOB!Deliver(s)
<1> USE DEF AsmInv
<1>1. /\ conn[s] = "open" /\ wire[s] # <<>>
      /\ got' = [got EXCEPT ![s] = Append(@, Head(wire[s]))]
      /\ subSocks' = subSocks /\ read' = read
  BY DEF SubRead, brokerVars
<1>2. log' = log
  <2>1. [Next]_vars /\ ~Recv
    BY DEF Next, SubRead, Recv, brokerVars
  <2> QED
    BY <2>1, LogSame
<1>3. Contains(subSocks, s)
  BY <1>1 DEF SubsOnce
<1>4. Len(got[s]) < Len(log) /\ Head(wire[s]) = log[Len(got[s]) + 1]
  <2> DEFINE g == got[s]
             w == wire[s]
             c == Owed(s)
             all == log
  <2>1. g \in Seq(Units) /\ w \in Seq(Units) /\ c \in Seq(Units) /\ all \in Seq(Units)
    <3>1. c \in Seq(Units)
      BY EmptySeq DEF Owed, TypeOK
    <3>2. all \in Seq(Units)
      BY LogType
    <3> QED
      BY <3>1, <3>2 DEF TypeOK
  <2>2. w # <<>>
    BY <1>1
  <2>3. g \o w \o c = all
    BY <1>1, <1>3 DEF StreamsWhole
  <2> HIDE DEF g, w, c, all
  <2>4. SubSeq(all, 1, Len(all)) = all /\ Len(all) \in Nat /\ Len(g) \in Nat
    BY <2>1, SubSeqFull
  <2>5. 0 \in Nat /\ 0 <= Len(all) /\ g \o w \o c = SubSeq(all, 0 + 1, Len(all))
    BY <2>3, <2>4
  <2>6. 0 + Len(g) < Len(all) /\ Head(w) = all[0 + Len(g) + 1]
    BY ONLY ZenonT(60), <2>1, <2>2, <2>5, NextUnit
  <2>7. Len(g) < Len(all) /\ Head(w) = all[Len(g) + 1]
    BY <2>4, <2>6
  <2> QED
    BY <2>7 DEF g, w, all
<1>5. s \in ToSet(subSocks)
  BY <1>3, JoinedAre
<1>6. Len(got[s]) \in Nat
  BY DEF TypeOK
<1> DEFINE start == [r \in Subs |-> 0]
<1>7. /\ start[s] + Len(got[s]) < Len(log)
      /\ got' = [got EXCEPT ![s] = Append(@, log[start[s] + Len(@) + 1])]
  <2>1. start[s] = 0 /\ 0 + Len(got[s]) = Len(got[s])
    BY <1>6
  <2> HIDE DEF start
  <2> QED
    BY <1>1, <1>4, <2>1
<1> QED
  BY <1>1, <1>2, <1>5, <1>7 DEF TOB!Deliver

LEMMA AsmBroadcastNext ==
    ASSUME AsmInv, [Next]_vars
    PROVE  [TOB!Next]_(TOB!vars)
<1>1. CASE Recv
  <2>1. client \in Pubs
    BY <1>1, ClientIsPub DEF Recv, AsmInv
  <2> QED
    BY <1>1, <2>1, RecvPublishes DEF TOB!Next
<1>2. CASE AcceptSub
  BY <1>2, AcceptSubJoins DEF TOB!Next
<1>3. CASE \E s \in Subs : SubRead(s)
  BY <1>3, ReadDelivers DEF TOB!Next
<1>4. CASE ~Recv /\ ~AcceptSub /\ ~(\E s \in Subs : SubRead(s))
  <2>1. log' = log
    BY <1>4, LogSame
  <2>2. read' = read /\ subSocks' = subSocks /\ got' = got
    BY <1>4 DEF Next, BrokerNext, SendStep, PubConnect, PubSend, PubClose, SubConnect,
           SubEof, SubQuit, AcceptPub, PublisherOff, Send, SendAfterFin, SendError, SigPipe,
           BroadcastDone, Advance, brokerVars, subVars, vars
  <2> QED
    BY <2>1, <2>2 DEF TOB!vars
<1> QED
  BY <1>1, <1>2, <1>3, <1>4

\* Whoever leaves, and whether or not SIGPIPE ends it, the broker implements the
\* total-order broadcast, and every subscriber reads the one log from its start.
THEOREM AsmBroadcastImplemented == Spec => ImplementsBroadcast
<1>1. Init => TOB!Init
  <2> SUFFICES ASSUME Init
               PROVE  TOB!Init
    OBVIOUS
  <2>1. ToSet(<<>>) = {}
    BY DEF ToSet
  <2>2. log = <<>>
    BY InitAsmType, NothingYet DEF Init
  <2> QED
    BY <2>1, <2>2 DEF Init, TOB!Init
<1>2. AsmInv /\ [Next]_vars => [TOB!Next]_(TOB!vars)
  BY AsmBroadcastNext
<1> QED
  BY <1>1, <1>2, AsmInvariant, PTL DEF Spec, ImplementsBroadcast, TOB!Spec
==============================================================================
