--------------------------- MODULE UdpBrokerProofs ---------------------------
(***************************************************************************)
(* Theorems about UdpBroker, for any processes, addresses and topics and   *)
(* every value of the limits.                                              *)
(***************************************************************************)
EXTENDS UdpBroker, FiniteSetTheorems, TLAPS

------------------------------------------------------------------------------
(* Lengths                                                                 *)

\* The length of a text of the demo is a number, at most 180: the first text with
\* a topic of 63 bytes that names no second team.
LEMMA DemoLenBound ==
    ASSUME NEW i \in DOMAIN Timeline, NEW teams \in TeamLens
    PROVE  DemoLen(i, teams) \in 1..180
<1> DEFINE home == teams.home
           away == teams.away
           e == Timeline[i]
<1>1. home \in Nat /\ away \in Nat /\ 2 * home + away <= 131 /\ home + away <= 68
  BY DEF TeamLens, MaxTopicLen
<1>2. /\ e.own \in 1..55
      /\ \/ e.own = 49 /\ e.home = 2 /\ e.away = 1
         \/ e.home \in {0, 1} /\ e.away \in {0, 1}
  <2>1. i \in 1..15
    BY DEF Timeline
  <2> QED
    BY <2>1 DEF Timeline, Event
<1> HIDE DEF home, away, e
<1>3. e.own + e.home * home + e.away * away \in 1..180
  <2>1. CASE e.own = 49 /\ e.home = 2 /\ e.away = 1
    BY <1>1, <2>1
  <2>2. CASE e.home = 0 /\ e.away = 0
    BY <1>1, <1>2, <2>2
  <2>3. CASE e.home = 0 /\ e.away = 1
    BY <1>1, <1>2, <2>3
  <2>4. CASE e.home = 1 /\ e.away = 0
    BY <1>1, <1>2, <2>4
  <2>5. CASE e.home = 1 /\ e.away = 1
    <3>1. e.home * home = home /\ e.away * away = away
      BY <1>1, <2>5
    <3>2. e.own \in 1..55
      BY <1>2
    <3>3. \A own \in 1..55 : own + home + away \in 1..180
      BY <1>1
    <3> QED
      BY <3>1, <3>2, <3>3
  <2> QED
    BY <1>2, <2>1, <2>2, <2>3, <2>4, <2>5
<1> QED
  BY <1>3 DEF DemoLen, e, home, away

LEMMA BodyLenBound == \A len \in BodyLens : len \in 1..1070
<1>1. DemoLens \subseteq 1..180
  BY DemoLenBound DEF DemoLens
<1> SUFFICES ASSUME NEW len \in BodyLens
             PROVE  len \in 1..1070
  OBVIOUS
<1>2. PICK stamp \in 0..(StampSize - 1), text \in DemoLens \cup 1..(LineSize - 1) :
          len = stamp + text
  BY DEF BodyLens
<1>3. stamp \in 0..47 /\ text \in 1..1023
  BY <1>1 DEF StampSize, LineSize
<1> QED
  BY <1>2, <1>3

\* The longest body is a stamp and a line, both full: 47 + 1023.
LEMMA LongestType == Longest \in BodyLens
<1>1. 47 \in 0..(StampSize - 1) /\ 1023 \in DemoLens \cup 1..(LineSize - 1)
  BY DEF StampSize, LineSize
<1>2. 47 + 1023 \in BodyLens
  BY <1>1 DEF BodyLens, PubLen, MaxMsg, MaxTopicLen
<1>3. \A len \in BodyLens : len <= 1070
  BY BodyLenBound
<1> QED
  BY <1>2, <1>3 DEF Longest

\* The demo of publisher_udp.c is never cut short by a length: whatever the topic,
\* each of its texts fits in msgbuf[512] and, with any stamp, in stamped[] and in
\* the datagrams PUB and NEWS (publisher_udp.c:159, 173, 119 and 373,
\* broker_udp.c:205).
THEOREM DemoIsSent ==
    ASSUME NEW i \in DOMAIN Timeline, NEW teams \in TeamLens,
           NEW stamp \in 0..(StampSize - 1)
    PROVE  /\ DemoLen(i, teams) \in DemoLens
           /\ stamp + DemoLen(i, teams) \in BodyLens
           /\ NewsLen(stamp + DemoLen(i, teams)) < MaxMsg
<1>1. DemoLen(i, teams) \in 1..180
  BY DemoLenBound
<1>2. DemoLen(i, teams) \in DemoLens
  BY <1>1 DEF DemoLens, TextSize
<1> DEFINE len == stamp + DemoLen(i, teams)
<1>3. len \in Nat /\ len <= 227
  BY <1>1 DEF StampSize
<1>4. len < MaxMsg /\ PubLen(len) < MaxMsg + 1 /\ NewsLen(len) < MaxMsg
  BY <1>3 DEF PubLen, NewsLen, MaxMsg, MaxTopicLen
<1>5. len \in BodyLens
  BY <1>2, <1>4 DEF BodyLens
<1> QED
  BY <1>2, <1>4, <1>5

\* Every body that is sent as PUB fits into NEWS (broker_udp.c:205).
LEMMA EveryBodyFits == \A len \in BodyLens : NewsLen(len) < MaxMsg
  BY BodyLenBound DEF NewsLen, MaxMsg, MaxTopicLen

------------------------------------------------------------------------------
(* Datagrams                                                               *)

LEMMA DatagramFields ==
    ASSUME NEW d \in Datagram
    PROVE  /\ d.type = "SUB" => d.from \in Addrs /\ d.topic \in Topics
           /\ d.type = "PUB" => /\ d.notice \in Notices /\ d.topic \in Topics
                                /\ d.len \in BodyLens
           /\ d.type = "OK SUB" => /\ d.to \in Addrs /\ d.topic \in Topics
                                   /\ d.boot \in 0..MaxBoots
           /\ d.type = "NEWS" => d \in NewsType
  BY DEF Datagram, NewsType

LEMMA DatagramTypes ==
    /\ \A a \in Addrs, t \in Topics : Sub(a, t) \in Datagram
    /\ \A n \in Notices, t \in Topics, len \in BodyLens : Pub(n, t, len) \in Datagram
    /\ \A a \in Addrs, t \in Topics, b \in 0..MaxBoots : SubOk(a, t, b) \in Datagram
    /\ \A n \in Notices, t \in Topics, a \in Addrs, i \in 1..MaxSubs :
           News(n, t, a, i) \in Datagram
  BY DEF Datagram, NewsType, Sub, Pub, SubOk, News

------------------------------------------------------------------------------
(* The table                                                               *)

\* A bucket in order: of the right length, and each address once.
GoodBucket(b) ==
    /\ b \in Bucket
    /\ Len(b.subs) <= MaxSubs
    /\ \A j, k \in DOMAIN b.subs : b.subs[j] = b.subs[k] => j = k

Has(b, a) == \E k \in DOMAIN b.subs : b.subs[k] = a

\* add_subscriber_to_topic (broker_udp.c:102) keeps a bucket in order, loses no
\* address, and adds none but a; a is there afterwards or the bucket is full.
LEMMA AddSubscriberKeeps ==
    ASSUME NEW b, GoodBucket(b), NEW a \in Addrs
    PROVE  LET new == AddSubscriber(b, a) IN
           /\ GoodBucket(new) /\ new.topic = b.topic
           /\ Len(new.subs) >= 1 /\ Len(new.subs) >= Len(b.subs)
           /\ Has(new, a) \/ Len(new.subs) = MaxSubs
           /\ \A x \in Addrs : Has(b, x) => Has(new, x)
           /\ \A x \in Addrs : Has(new, x) => Has(b, x) \/ x = a
<1>1. b.subs \in Seq(Addrs) /\ Len(b.subs) \in Nat /\ DOMAIN b.subs = 1..Len(b.subs)
  BY DEF GoodBucket, Bucket
<1>2. MaxSubs \in Nat /\ MaxSubs > 0
  BY LimitsAssumption
<1>3. CASE Len(b.subs) >= MaxSubs \/ Has(b, a)
  <2>1. AddSubscriber(b, a) = b
    BY <1>3 DEF AddSubscriber, Has
  <2> QED
    BY <1>1, <1>2, <1>3, <2>1 DEF GoodBucket, Has
<1>4. CASE ~(Len(b.subs) >= MaxSubs \/ Has(b, a))
  <2> DEFINE new == [b EXCEPT !.subs = Append(@, a)]
  <2>1. AddSubscriber(b, a) = new
    BY <1>4 DEF AddSubscriber, Has
  <2>2. /\ new \in Bucket /\ new.topic = b.topic /\ new.subs = Append(b.subs, a)
    BY <1>1 DEF GoodBucket, Bucket
  <2>3. /\ Len(new.subs) = Len(b.subs) + 1
        /\ DOMAIN new.subs = 1..(Len(b.subs) + 1)
        /\ \A k \in 1..Len(b.subs) : new.subs[k] = b.subs[k]
        /\ new.subs[Len(b.subs) + 1] = a
    BY <1>1, <2>2
  <2> HIDE DEF new
  <2>4. GoodBucket(new)
    BY <1>1, <1>2, <1>4, <2>2, <2>3 DEF GoodBucket, Has
  <2>5. Has(new, a) /\ \A x \in Addrs : Has(b, x) => Has(new, x)
    BY <1>1, <2>3 DEF Has
  <2>6. \A x \in Addrs : Has(new, x) => Has(b, x) \/ x = a
    BY <1>1, <2>3 DEF Has
  <2> QED
    BY <1>1, <2>1, <2>2, <2>3, <2>4, <2>5, <2>6
<1> QED
  BY <1>3, <1>4

\* A table in order: within its limits, one bucket per topic, none empty.
GoodTable(table) ==
    /\ table \in Seq(Bucket) /\ Len(table) <= MaxTopics
    /\ \A i \in DOMAIN table : GoodBucket(table[i]) /\ Len(table[i].subs) >= 1
    /\ \A i, j \in DOMAIN table : table[i].topic = table[j].topic => i = j

EnteredIn(table, t, a) ==
    \E i \in DOMAIN table : table[i].topic = t /\ Has(table[i], a)

FullIn(table, t) ==
    \E i \in DOMAIN table : table[i].topic = t /\ Len(table[i].subs) = MaxSubs

\* Entering <<t, a>> for which there is room (broker_udp.c:156-161) keeps the
\* table in order, loses nothing, and adds nothing else.
LEMMA EnterKeeps ==
    ASSUME GoodTable(topics), NEW t \in Topics, NEW a \in Addrs, HasRoom(t)
    PROVE  LET new == Enter(t, a) IN
           /\ GoodTable(new)
           /\ EnteredIn(new, t, a) \/ FullIn(new, t)
           /\ \A u \in Topics, x \in Addrs :
                  EnteredIn(topics, u, x) => EnteredIn(new, u, x)
           /\ \A u \in Topics : FullIn(topics, u) => FullIn(new, u)
           /\ \A u \in Topics, x \in Addrs :
                  EnteredIn(new, u, x) => EnteredIn(topics, u, x) \/ (u = t /\ x = a)
<1> DEFINE n == Len(topics)
<1>1. /\ topics \in Seq(Bucket) /\ n \in Nat /\ DOMAIN topics = 1..n
      /\ MaxTopics \in Nat /\ MaxSubs \in Nat \ {0}
  BY LimitsAssumption DEF GoodTable
<1>2. CASE Known(t)
  <2>1. PICK f \in DOMAIN topics : topics[f].topic = t
    BY <1>2 DEF Known
  <2>2. FindTopic(t) = f
    <3>1. \A i \in DOMAIN topics : topics[i].topic = t => i = f
      BY <2>1 DEF GoodTable
    <3>2. \A j \in 1..(f - 1) : j \in DOMAIN topics /\ j # f
      BY <1>1, <2>1
    <3> QED
      BY <2>1, <3>1, <3>2 DEF FindTopic
  <2> DEFINE b == AddSubscriber(topics[f], a)
             new == [i \in 1..n |-> IF i = f THEN b ELSE topics[i]]
  <2>3. Enter(t, a) = new
    BY <1>1, <1>2, <2>2 DEF Enter, EnsureTopic
  <2>4. /\ GoodBucket(b) /\ b.topic = t
        /\ Len(b.subs) >= 1 /\ Len(b.subs) >= Len(topics[f].subs)
        /\ Has(b, a) \/ Len(b.subs) = MaxSubs
        /\ \A x \in Addrs : Has(topics[f], x) => Has(b, x)
        /\ \A x \in Addrs : Has(b, x) => Has(topics[f], x) \/ x = a
    BY <2>1, AddSubscriberKeeps DEF GoodTable
  <2> HIDE DEF b
  <2>5. /\ DOMAIN new = 1..n /\ new[f] = b
        /\ \A i \in 1..n : i # f => new[i] = topics[i]
        /\ \A i \in 1..n : new[i].topic = topics[i].topic
    BY <1>1, <2>1, <2>4
  <2>6. new \in Seq(Bucket) /\ Len(new) = n
    <3>1. \A i \in 1..n : new[i] \in Bucket
      BY <1>1, <2>4, <2>5 DEF GoodBucket
    <3> QED
      BY <1>1, <3>1
  <2> HIDE DEF new
  <2>7. GoodTable(new)
    BY <1>1, <2>4, <2>5, <2>6 DEF GoodTable
  <2>8. EnteredIn(new, t, a) \/ FullIn(new, t)
    BY <1>1, <2>1, <2>4, <2>5 DEF EnteredIn, FullIn
  <2>9. \A u \in Topics, x \in Addrs : EnteredIn(topics, u, x) => EnteredIn(new, u, x)
    BY <1>1, <2>4, <2>5 DEF EnteredIn
  <2>10. ASSUME NEW u \in Topics, FullIn(topics, u)
         PROVE  FullIn(new, u)
    <3>1. PICK i \in 1..n : topics[i].topic = u /\ Len(topics[i].subs) = MaxSubs
      BY <1>1, <2>10 DEF FullIn
    <3>2. i = f => Len(b.subs) = MaxSubs
      BY <1>1, <2>4, <3>1 DEF GoodBucket, Bucket
    <3> QED
      BY <2>5, <3>1, <3>2 DEF FullIn
  <2>11. \A u \in Topics, x \in Addrs :
             EnteredIn(new, u, x) => EnteredIn(topics, u, x) \/ (u = t /\ x = a)
    BY <1>1, <2>1, <2>4, <2>5 DEF EnteredIn
  <2> QED
    BY <2>3, <2>7, <2>8, <2>9, <2>10, <2>11
<1>3. CASE ~Known(t)
  <2> DEFINE e == [topic |-> t, subs |-> <<>>]
             b == AddSubscriber(e, a)
             new == [i \in 1..(n + 1) |-> IF i = n + 1 THEN b ELSE topics[i]]
  <2>1. n < MaxTopics
    BY <1>3 DEF HasRoom
  <2>2. GoodBucket(e) /\ ~\E x \in Addrs : Has(e, x)
    BY <1>1 DEF GoodBucket, Bucket, Has
  <2>3. Enter(t, a) = new
    BY <1>1, <1>3 DEF Enter, EnsureTopic
  <2>4. /\ GoodBucket(b) /\ b.topic = t /\ Len(b.subs) >= 1
        /\ Has(b, a) \/ Len(b.subs) = MaxSubs
        /\ \A x \in Addrs : Has(b, x) => x = a
    BY <2>2, AddSubscriberKeeps
  <2> HIDE DEF b, e
  <2>5. /\ DOMAIN new = 1..(n + 1) /\ new[n + 1] = b
        /\ \A i \in 1..n : new[i] = topics[i] /\ new[i].topic # t
    BY <1>1, <1>3 DEF Known
  <2>6. new \in Seq(Bucket) /\ Len(new) = n + 1
    <3>1. \A i \in 1..(n + 1) : new[i] \in Bucket
      BY <1>1, <2>4, <2>5 DEF GoodBucket
    <3> QED
      BY <1>1, <3>1
  <2> HIDE DEF new
  <2>7. GoodTable(new)
    BY <1>1, <2>1, <2>4, <2>5, <2>6 DEF GoodTable
  <2>8. EnteredIn(new, t, a) \/ FullIn(new, t)
    BY <1>1, <2>4, <2>5 DEF EnteredIn, FullIn
  <2>9. /\ \A u \in Topics, x \in Addrs : EnteredIn(topics, u, x) => EnteredIn(new, u, x)
        /\ \A u \in Topics : FullIn(topics, u) => FullIn(new, u)
    BY <1>1, <2>5 DEF EnteredIn, FullIn
  <2>10. \A u \in Topics, x \in Addrs :
             EnteredIn(new, u, x) => EnteredIn(topics, u, x) \/ (u = t /\ x = a)
    BY <1>1, <2>4, <2>5 DEF EnteredIn
  <2> QED
    BY <2>3, <2>7, <2>8, <2>9, <2>10
<1> QED
  BY <1>2, <1>3

------------------------------------------------------------------------------
(* The invariant                                                           *)

\* A SUB on its way was counted when it was sent, a PUB bears the topic of its
\* publisher, and no confirmation is of a later start of the broker.
NetConsistent ==
    \A d \in net : /\ d.type = "SUB" => d.topic \in asked[d.from]
                   /\ d.type = "PUB" => d.topic = topicOf[d.notice[1]]
                   /\ d.type = "OK SUB" => d.boot <= boots

IInv == /\ TypeOK /\ TableExact /\ NetConsistent /\ NewsWasAsked
        /\ ConfirmedIsEntered
        /\ ~up => boots < MaxBoots

\* TypeOK and TableExact together say that the table is in order.
LEMMA TableInOrder ==
    (TypeOK /\ TableExact) =>
        /\ GoodTable(topics)
        /\ \A t \in Topics, a \in Addrs : EnteredIn(topics, t, a) <=> Entered(t, a)
        /\ \A t \in Topics : FullIn(topics, t) <=> Full(t)
<1> SUFFICES ASSUME TypeOK, TableExact
             PROVE  /\ GoodTable(topics)
                    /\ \A t \in Topics, a \in Addrs :
                           EnteredIn(topics, t, a) <=> Entered(t, a)
                    /\ \A t \in Topics : FullIn(topics, t) <=> Full(t)
  OBVIOUS
<1>1. topics \in Seq(Bucket) /\ Len(topics) <= MaxTopics
  BY DEF TypeOK
<1>2. ASSUME NEW i \in DOMAIN topics
      PROVE  GoodBucket(topics[i]) /\ Len(topics[i].subs) >= 1
  <2>1. topics[i] \in Bucket
    BY <1>1
  <2>2. Len(topics[i].subs) \in 1..MaxSubs
    BY DEF TypeOK
  <2> QED
    BY <2>1, <2>2, LimitsAssumption DEF GoodBucket, TableExact
<1>3. GoodTable(topics)
  BY <1>1, <1>2 DEF GoodTable, TableExact
<1> QED
  BY <1>3 DEF EnteredIn, FullIn, Entered, Full, Has

\* A step that leaves the table alone and confirms nothing keeps confirmations true.
LEMMA ConfirmationsKept ==
    ASSUME ConfirmedIsEntered, UNCHANGED <<up, boots, topics>>,
           \A d \in net' : d.type = "OK SUB" => d \in net
    PROVE  ConfirmedIsEntered'
<1> SUFFICES ASSUME NEW d \in net', d.type = "OK SUB", up', d.boot = boots'
             PROVE  Entered(d.topic, d.to)' \/ Full(d.topic)'
  BY DEF ConfirmedIsEntered
<1>1. Entered(d.topic, d.to) \/ Full(d.topic)
  BY DEF ConfirmedIsEntered
<1> QED
  BY <1>1 DEF Entered, Full

\* The part of IInv that is about the table and about what is on its way does
\* not change in a step that only takes datagrams out of net.
LEMMA TakingKeeps ==
    ASSUME IInv, net' \subseteq net, UNCHANGED <<topicOf, up, boots, topics, asked>>
    PROVE  (TableExact /\ NetConsistent /\ NewsWasAsked /\ ConfirmedIsEntered)'
<1>1. TableExact'
  BY DEF IInv, TableExact, Entered
<1>2. NetConsistent' /\ NewsWasAsked'
  BY DEF IInv, NetConsistent, NewsWasAsked
<1>3. ConfirmedIsEntered'
  BY ConfirmationsKept DEF IInv
<1> QED
  BY <1>1, <1>2, <1>3

LEMMA InitIInv == Init => IInv
<1> SUFFICES ASSUME Init PROVE IInv
  OBVIOUS
<1>1. TypeOK
  <2>1. topicOf \in [Pubs -> Topics]
    BY SetsAssumption DEF Init
  <2> QED
    BY <2>1, LimitsAssumption DEF Init, TypeOK
<1>2. TableExact /\ NetConsistent /\ NewsWasAsked /\ ConfirmedIsEntered
  BY DEF Init, TableExact, Entered, NetConsistent, NewsWasAsked, ConfirmedIsEntered
<1>3. up
  BY DEF Init
<1> QED
  BY <1>1, <1>2, <1>3 DEF IInv

LEMMA PubSendKeeps ==
    ASSUME IInv, NEW p \in Pubs, PubSend(p)
    PROVE  IInv'
<1> USE DEF subVars, brokerVars
<1> DEFINE n == <<p, sent[p] + 1>>
           d == Pub(n, topicOf[p], Longest)
<1>1. /\ n \in Notices /\ n[1] = p /\ d \in Datagram
      /\ sent' = [sent EXCEPT ![p] = @ + 1] /\ sent' \in [Pubs -> 0..Events]
      /\ net' = net \cup {d}
  <2>1. n \in Notices /\ n[1] = p /\ sent' \in [Pubs -> 0..Events]
    BY LimitsAssumption DEF IInv, TypeOK, PubSend, Notices
  <2>2. topicOf[p] \in Topics
    BY SetsAssumption DEF IInv, TypeOK
  <2> QED
    BY <2>1, <2>2, LongestType, DatagramTypes DEF PubSend
<1>2. TypeOK'
  BY <1>1 DEF IInv, TypeOK, PubSend
<1>3. d.type = "PUB" /\ d.topic = topicOf[p] /\ d.notice = n
  BY DEF Pub
<1> HIDE DEF d, n
<1>4. TableExact'
  BY DEF IInv, PubSend, TableExact, Entered
<1>5. NetConsistent' /\ NewsWasAsked'
  BY <1>1, <1>3 DEF IInv, PubSend, NetConsistent, NewsWasAsked
<1>6. ConfirmedIsEntered'
  BY <1>1, <1>3, ConfirmationsKept DEF IInv, PubSend
<1> QED
  BY <1>2, <1>4, <1>5, <1>6 DEF IInv, PubSend

LEMMA SubSendKeeps ==
    ASSUME IInv, NEW s \in Subs, SubSend(s)
    PROVE  IInv'
<1> USE DEF pubVars, brokerVars
<1> DEFINE a == addr[s]
           t == args[s][subbed[s] + 1]
           d == Sub(a, t)
<1>1. /\ a \in Addrs /\ t \in Topics
      /\ subbed[s] \in Nat /\ subbed[s] < Len(args[s])
  <2>1. args[s] \in Seq(Topics) /\ subbed[s] \in Nat /\ subbed[s] < Len(args[s])
    BY SetsAssumption DEF IInv, TypeOK, SubSend
  <2>2. a \in Addrs
    BY DEF IInv, TypeOK, SubSend
  <2> QED
    BY <2>1, <2>2
<1>2. /\ d \in Datagram /\ d.type = "SUB" /\ d.from = a /\ d.topic = t
      /\ net' = net \cup {d}
      /\ asked' = [asked EXCEPT ![a] = @ \cup {t}]
      /\ subbed' = [subbed EXCEPT ![s] = @ + 1]
  BY <1>1, DatagramTypes DEF SubSend, Sub
<1>3. asked' \in [Addrs -> SUBSET Topics] /\ \A x \in Addrs : asked[x] \subseteq asked'[x]
  BY <1>1, <1>2 DEF IInv, TypeOK
<1> HIDE DEF d, a, t
<1>4. TypeOK'
  <2>1. /\ subbed' \in [Subs -> Nat]
        /\ \A r \in Subs : subbed'[r] <= Len(args[r])
    BY <1>1, <1>2 DEF IInv, TypeOK
  <2> QED
    BY <1>2, <1>3, <2>1 DEF IInv, TypeOK, SubSend
<1>5. TableExact'
  BY <1>3 DEF IInv, SubSend, TableExact, Entered
<1>6. NetConsistent'
  <2>1. ASSUME NEW x \in net'
        PROVE  /\ x.type = "SUB" => x.topic \in asked'[x.from]
               /\ x.type = "PUB" => x.topic = topicOf[x.notice[1]]
               /\ x.type = "OK SUB" => x.boot <= boots
    <3>1. CASE x = d
      BY <1>1, <1>2, <3>1 DEF IInv, TypeOK
    <3>2. CASE x \in net
      BY <1>3, <3>2, DatagramFields DEF IInv, TypeOK, NetConsistent
    <3> QED
      BY <1>2, <3>1, <3>2
  <2> QED
    BY <2>1 DEF NetConsistent, SubSend
<1>7. NewsWasAsked'
  <2>1. ASSUME NEW x \in net', x.type = "NEWS"
        PROVE  topicOf[x.notice[1]] \in asked'[x.to]
    <3>1. x \in net /\ x.to \in Addrs
      BY <1>2, <2>1, DatagramFields DEF IInv, TypeOK, NewsType
    <3> QED
      BY <1>3, <2>1, <3>1 DEF IInv, NewsWasAsked
  <2> QED
    BY <2>1 DEF NewsWasAsked, SubSend
<1>8. ConfirmedIsEntered'
  BY <1>2, ConfirmationsKept DEF IInv, SubSend
<1> QED
  BY <1>4, <1>5, <1>6, <1>7, <1>8 DEF IInv, SubSend

\* The steps of clients that read, start or end.
LEMMA OtherClientStepsKeep ==
    ASSUME IInv, NEW s \in Subs, SubStart(s) \/ SubRecv(s) \/ SubQuit(s)
    PROVE  IInv'
<1> USE DEF pubVars, brokerVars
<1>1. net' \subseteq net /\ UNCHANGED <<topicOf, up, boots, topics, asked>>
  BY DEF SubStart, SubRecv, SubQuit
<1>2. CASE SubStart(s)
  <2>1. PICK a \in Addrs, w \in Wishes : /\ addr' = [addr EXCEPT ![s] = a]
                                         /\ args' = [args EXCEPT ![s] = w]
    BY <1>2 DEF SubStart
  <2>2. subbed[s] = 0 /\ \A v \in Wishes : Len(v) \in Nat
    BY <1>2, SetsAssumption DEF IInv, TypeOK, SubStart
  <2>3. /\ addr' \in [Subs -> Addrs \cup {NoAddr}]
        /\ args' \in [Subs -> Wishes \cup {<<>>}]
        /\ \A r \in Subs : subbed[r] <= Len(args'[r])
    BY <2>1, <2>2 DEF IInv, TypeOK
  <2>4. TypeOK'
    BY <1>2, <2>3 DEF IInv, TypeOK, SubStart
  <2> QED
    BY <1>1, <2>4, TakingKeeps DEF IInv
<1>3. CASE SubRecv(s)
  <2>1. PICK d \in net : /\ d.type = "NEWS"
                         /\ printed' = [printed EXCEPT ![s] = @ \cup {d}]
    BY <1>3 DEF SubRecv
  <2>2. d \in NewsType
    BY <2>1, DatagramFields DEF IInv, TypeOK
  <2>3. TypeOK'
    BY <1>1, <1>3, <2>1, <2>2 DEF IInv, TypeOK, SubRecv
  <2> QED
    BY <1>1, <2>3, TakingKeeps DEF IInv
<1>4. CASE SubQuit(s)
  <2>1. TypeOK'
    BY <1>4 DEF IInv, TypeOK, SubQuit
  <2> QED
    BY <1>1, <2>1, TakingKeeps DEF IInv
<1> QED
  BY <1>2, <1>3, <1>4

LEMMA HandleSubscribeKeeps ==
    ASSUME IInv, HandleSubscribe
    PROVE  IInv'
<1> USE DEF pubVars, subVars
<1>1. /\ GoodTable(topics) /\ boots \in 0..MaxBoots
      /\ UNCHANGED <<topicOf, refused, sent, args, subbed, addr, printed, up, boots,
                     asked, handled, notified>>
  BY TableInOrder DEF IInv, HandleSubscribe, TypeOK
<1>2. PICK d \in net :
          /\ d.type = "SUB"
          /\ IF HasRoom(d.topic)
             THEN /\ topics' = Enter(d.topic, d.from)
                  /\ net' = (net \ {d}) \cup {SubOk(d.from, d.topic, boots)}
             ELSE /\ net' = net \ {d}
                  /\ UNCHANGED topics
  BY DEF HandleSubscribe
<1>3. CASE ~HasRoom(d.topic)
  <2>1. net' \subseteq net /\ UNCHANGED topics
    BY <1>2, <1>3
  <2>2. TypeOK'
    BY <1>1, <2>1 DEF IInv, TypeOK
  <2> QED
    BY <1>1, <2>1, <2>2, TakingKeeps DEF IInv
<1>4. CASE HasRoom(d.topic)
  <2> DEFINE t == d.topic
             a == d.from
             ok == SubOk(a, t, boots)
  <2>1. t \in Topics /\ a \in Addrs /\ t \in asked[a]
    BY <1>2, DatagramFields DEF IInv, TypeOK, NetConsistent
  <2>2. topics' = Enter(t, a) /\ net' = (net \ {d}) \cup {ok}
    BY <1>2, <1>4
  <2>3. /\ ok \in Datagram /\ ok.type = "OK SUB" /\ ok.boot = boots
        /\ ok.topic = t /\ ok.to = a
    BY <1>1, <2>1, DatagramTypes DEF SubOk
  <2>4. /\ GoodTable(topics')
        /\ EnteredIn(topics', t, a) \/ FullIn(topics', t)
        /\ \A u \in Topics, x \in Addrs :
               EnteredIn(topics, u, x) => EnteredIn(topics', u, x)
        /\ \A u \in Topics : FullIn(topics, u) => FullIn(topics', u)
        /\ \A u \in Topics, x \in Addrs :
               EnteredIn(topics', u, x) => EnteredIn(topics, u, x) \/ (u = t /\ x = a)
    BY <1>1, <1>4, <2>1, <2>2, EnterKeeps
  <2> HIDE DEF ok
  <2>5. /\ \A u \in Topics, x \in Addrs : EnteredIn(topics, u, x) <=> Entered(u, x)
        /\ \A u \in Topics : FullIn(topics, u) <=> Full(u)
    BY TableInOrder DEF IInv
  <2>6. /\ \A u \in Topics, x \in Addrs : EnteredIn(topics', u, x) <=> Entered(u, x)'
        /\ \A u \in Topics : FullIn(topics', u) <=> Full(u)'
    BY DEF EnteredIn, FullIn, Entered, Full, Has
  <2>7. TypeOK'
    <3>1. /\ topics' \in Seq(Bucket) /\ Len(topics') <= MaxTopics
          /\ \A i \in DOMAIN topics' : Len(topics'[i].subs) \in 1..MaxSubs
      BY <2>4, LimitsAssumption DEF GoodTable, GoodBucket, Bucket
    <3>2. net' \subseteq Datagram
      BY <2>2, <2>3 DEF IInv, TypeOK
    <3> QED
      BY <1>1, <3>1, <3>2 DEF IInv, TypeOK
  <2>8. TableExact'
    <3>1. \A u \in Topics, x \in Addrs : Entered(u, x)' => u \in asked'[x]
      BY <1>1, <2>1, <2>4, <2>5, <2>6 DEF IInv, TableExact
    <3>2. /\ \A i, j \in DOMAIN topics' :
                 topics'[i].topic = topics'[j].topic => i = j
          /\ \A i \in DOMAIN topics' : \A j, k \in DOMAIN topics'[i].subs :
                 topics'[i].subs[j] = topics'[i].subs[k] => j = k
      BY <2>4 DEF GoodTable, GoodBucket
    <3> QED
      BY <3>1, <3>2 DEF TableExact
  <2>9. NetConsistent' /\ NewsWasAsked'
    <3>1. boots <= boots
      BY <1>1
    <3>2. NetConsistent'
      BY <1>1, <2>2, <2>3, <3>1 DEF IInv, NetConsistent
    <3>3. NewsWasAsked'
      BY <1>1, <2>2, <2>3 DEF IInv, NewsWasAsked
    <3> QED
      BY <3>2, <3>3
  <2>10. ConfirmedIsEntered'
    <3> SUFFICES ASSUME NEW x \in net', x.type = "OK SUB", up', x.boot = boots'
                 PROVE  Entered(x.topic, x.to)' \/ Full(x.topic)'
      BY DEF ConfirmedIsEntered
    <3>1. CASE x = ok
      BY <2>1, <2>3, <2>4, <2>6, <3>1
    <3>2. CASE x \in net
      <4>1. Entered(x.topic, x.to) \/ Full(x.topic)
        BY <1>1, <3>2 DEF IInv, ConfirmedIsEntered
      <4>2. x.topic \in Topics /\ x.to \in Addrs
        BY <3>2, DatagramFields DEF IInv, TypeOK
      <4> QED
        BY <2>4, <2>5, <2>6, <4>1, <4>2
    <3> QED
      BY <2>2, <3>1, <3>2
  <2> QED
    BY <1>1, <2>7, <2>8, <2>9, <2>10 DEF IInv
<1> QED
  BY <1>3, <1>4

\* What the loop of handle_publish sends, and to whom.
LEMMA NewsOfBucket ==
    ASSUME NEW b, GoodBucket(b), NEW d, d.notice \in Notices, d.topic \in Topics
    PROVE  /\ NewsOf(b, d) \subseteq Datagram
           /\ \A x \in NewsOf(b, d) :
                  /\ x.type = "NEWS" /\ x.notice = d.notice
                  /\ x.to \in Addrs /\ Has(b, x.to)
           /\ {<<d.notice, b.subs[i]>> : i \in Loop(b)} \subseteq Notices \X Addrs
<1>1. /\ b.subs \in Seq(Addrs) /\ DOMAIN b.subs = 1..Len(b.subs)
      /\ Len(b.subs) \in Nat /\ Len(b.subs) <= MaxSubs /\ MaxSubs \in Nat
  BY LimitsAssumption DEF GoodBucket, Bucket
<1>2. \A i \in Loop(b) : i \in 1..MaxSubs /\ i \in DOMAIN b.subs /\ b.subs[i] \in Addrs
  BY <1>1 DEF Loop
<1>3. ASSUME NEW i \in Loop(b)
      PROVE  LET x == News(d.notice, d.topic, b.subs[i], i) IN
             /\ x \in Datagram /\ x.type = "NEWS" /\ x.notice = d.notice
             /\ x.to \in Addrs /\ Has(b, x.to)
  BY <1>2, DatagramTypes DEF News, Has
<1> QED
  BY <1>2, <1>3 DEF NewsOf

LEMMA HandlePublishKeeps ==
    ASSUME IInv, HandlePublish
    PROVE  IInv'
<1> USE DEF pubVars, subVars
<1>1. /\ GoodTable(topics)
      /\ UNCHANGED <<topicOf, refused, sent, args, subbed, addr, printed, up, boots,
                     topics, asked>>
  BY TableInOrder DEF IInv, HandlePublish
<1>2. PICK d \in net :
          /\ d.type = "PUB"
          /\ handled' = handled \cup {d.notice}
          /\ IF Known(d.topic) /\ NewsLen(d.len) < MaxMsg
             THEN LET b == topics[FindTopic(d.topic)] IN
                  /\ net' = (net \ {d}) \cup NewsOf(b, d)
                  /\ notified' = notified \cup {<<d.notice, b.subs[i]>> : i \in Loop(b)}
             ELSE /\ net' = net \ {d}
                  /\ UNCHANGED notified
  BY DEF HandlePublish
<1>3. /\ d.notice \in Notices /\ d.topic \in Topics
      /\ d.topic = topicOf[d.notice[1]]
      /\ handled' \subseteq Notices
  BY <1>2, DatagramFields DEF IInv, TypeOK, NetConsistent
<1>4. CASE ~(Known(d.topic) /\ NewsLen(d.len) < MaxMsg)
  <2>1. net' \subseteq net /\ UNCHANGED notified
    BY <1>2, <1>4
  <2>2. TypeOK'
    BY <1>1, <1>3, <2>1 DEF IInv, TypeOK
  <2> QED
    BY <1>1, <2>1, <2>2, TakingKeeps DEF IInv
<1>5. CASE Known(d.topic) /\ NewsLen(d.len) < MaxMsg
  <2>1. PICK f \in DOMAIN topics : topics[f].topic = d.topic
    BY <1>5 DEF Known
  <2>2. FindTopic(d.topic) = f
    <3>1. \A i \in DOMAIN topics : topics[i].topic = d.topic => i = f
      BY <1>1, <2>1 DEF GoodTable
    <3>2. \A j \in 1..(f - 1) : j \in DOMAIN topics /\ j # f
      BY <1>1, <2>1 DEF GoodTable
    <3> QED
      BY <2>1, <3>1, <3>2 DEF FindTopic
  <2> DEFINE b == topics[f]
  <2>3. /\ net' = (net \ {d}) \cup NewsOf(b, d)
        /\ notified' = notified \cup {<<d.notice, b.subs[i]>> : i \in Loop(b)}
    BY <1>2, <1>5, <2>2
  <2>4. GoodBucket(b)
    BY <1>1 DEF GoodTable
  <2>5. \A a \in Addrs : Has(b, a) => d.topic \in asked[a]
    BY <1>3, <2>1 DEF IInv, TableExact, Entered, Has
  <2> HIDE DEF b
  <2>6. /\ NewsOf(b, d) \subseteq Datagram
        /\ \A x \in NewsOf(b, d) : /\ x.type = "NEWS" /\ x.notice = d.notice
                                   /\ x.to \in Addrs /\ Has(b, x.to)
        /\ notified' \subseteq Notices \X Addrs
    BY <1>3, <2>3, <2>4, NewsOfBucket DEF IInv, TypeOK
  <2>7. TypeOK'
    BY <1>1, <1>3, <2>3, <2>6 DEF IInv, TypeOK
  <2>8. TableExact'
    BY <1>1 DEF IInv, TableExact, Entered
  <2>9. NetConsistent'
    BY <1>1, <2>3, <2>6 DEF IInv, NetConsistent
  <2>10. NewsWasAsked'
    BY <1>1, <1>3, <2>3, <2>5, <2>6 DEF IInv, NewsWasAsked
  <2>11. ConfirmedIsEntered'
    BY <1>1, <2>3, <2>6, ConfirmationsKept DEF IInv
  <2> QED
    BY <1>1, <2>7, <2>8, <2>9, <2>10, <2>11 DEF IInv
<1> QED
  BY <1>4, <1>5

LEMMA BootsAreNumbers == \A k \in 0..MaxBoots : k \in Nat
  BY LimitsAssumption

\* The end and the start of the broker, and a PUB that finds none.
LEMMA ProcessStepsKeep ==
    ASSUME IInv, BrokerStop \/ BrokerStart \/ \E p \in Pubs : Unreachable(p)
    PROVE  IInv'
<1> USE DEF pubVars, subVars, brokerVars
<1>1. CASE BrokerStop
  <2> USE <1>1 DEF BrokerStop
  <2>1. TypeOK'
    <3>1. /\ topics' \in Seq(Bucket) /\ Len(topics') <= MaxTopics
          /\ DOMAIN topics' = {}
      BY LimitsAssumption
    <3> QED
      BY <3>1 DEF IInv, TypeOK
  <2>2. TableExact' /\ NetConsistent' /\ NewsWasAsked'
    <3>1. DOMAIN topics' = {}
      OBVIOUS
    <3>2. TableExact'
      BY <3>1 DEF TableExact, Entered
    <3>3. NetConsistent' /\ NewsWasAsked'
      BY DEF IInv, NetConsistent, NewsWasAsked
    <3> QED
      BY <3>2, <3>3
  <2>3. ConfirmedIsEntered' /\ (~up => boots < MaxBoots)'
    BY DEF ConfirmedIsEntered
  <2> QED
    BY <2>1, <2>2, <2>3 DEF IInv
<1>2. CASE BrokerStart
  <2>1. boots \in Nat /\ boots' = boots + 1 /\ boots' \in 0..MaxBoots
    BY <1>2, LimitsAssumption DEF IInv, TypeOK, BrokerStart
  <2>2. TypeOK'
    BY <1>2, <2>1 DEF IInv, TypeOK, BrokerStart
  <2>3. TableExact' /\ NewsWasAsked'
    BY <1>2 DEF IInv, BrokerStart, TableExact, Entered, NewsWasAsked
  <2>4. \A d \in net : d.type = "OK SUB" => d.boot \in Nat /\ d.boot <= boots
    <3> SUFFICES ASSUME NEW d \in net, d.type = "OK SUB"
                 PROVE  d.boot \in Nat /\ d.boot <= boots
      OBVIOUS
    <3>1. d.boot \in 0..MaxBoots
      BY DatagramFields DEF IInv, TypeOK
    <3>2. d.boot <= boots
      BY DEF IInv, NetConsistent
    <3> QED
      BY <3>1, <3>2, BootsAreNumbers
  <2>5. NetConsistent'
    <3> SUFFICES ASSUME NEW d \in net
                 PROVE  /\ d.type = "SUB" => d.topic \in asked[d.from]
                        /\ d.type = "PUB" => d.topic = topicOf[d.notice[1]]
                        /\ d.type = "OK SUB" => d.boot <= boots + 1
      BY <1>2 DEF BrokerStart, NetConsistent
    <3>1. \A k \in Nat : k <= boots => k <= boots + 1
      BY <2>1
    <3>2. d.type = "OK SUB" => d.boot <= boots + 1
      BY <2>4, <3>1
    <3> QED
      BY <3>2 DEF IInv, NetConsistent
  <2>6. ConfirmedIsEntered'
    <3>1. \A d \in net' : d.type = "OK SUB" => d.boot # boots'
      <4>1. \A k \in Nat : k <= boots => k # boots + 1
        BY <2>1
      <4>2. net' = net
        BY <1>2 DEF BrokerStart
      <4> QED
        BY <2>1, <2>4, <4>1, <4>2
    <3> QED
      BY <3>1 DEF ConfirmedIsEntered
  <2> QED
    BY <1>2, <2>2, <2>3, <2>5, <2>6 DEF IInv, BrokerStart
<1>3. ASSUME NEW p \in Pubs, Unreachable(p)
      PROVE  IInv'
  <2>1. net' \subseteq net /\ UNCHANGED <<topicOf, up, boots, topics, asked>>
    BY <1>3 DEF Unreachable
  <2>2. TypeOK'
    BY <1>3, <2>1 DEF IInv, TypeOK, Unreachable
  <2> QED
    BY <2>1, <2>2, TakingKeeps DEF IInv
<1> QED
  BY <1>1, <1>2, <1>3

------------------------------------------------------------------------------
(* Theorems                                                                *)

\* No step of a client, of the broker or of its operator breaks the invariant.
LEMMA NextKeepsIInv == IInv /\ [Next]_vars => IInv'
<1> SUFFICES ASSUME IInv, [Next]_vars PROVE IInv'
  OBVIOUS
<1>1. ASSUME NEW p \in Pubs, PubSend(p) PROVE IInv'
  BY <1>1, PubSendKeeps
<1>2. ASSUME NEW s \in Subs, SubSend(s) PROVE IInv'
  BY <1>2, SubSendKeeps
<1>3. ASSUME NEW s \in Subs, SubStart(s) \/ SubRecv(s) \/ SubQuit(s) PROVE IInv'
  BY <1>3, OtherClientStepsKeep
<1>4. CASE HandleSubscribe
  BY <1>4, HandleSubscribeKeeps
<1>5. CASE HandlePublish
  BY <1>5, HandlePublishKeeps
<1>6. CASE BrokerStop \/ BrokerStart \/ \E p \in Pubs : Unreachable(p)
  BY <1>6, ProcessStepsKeep
<1>7. CASE UNCHANGED vars
  <2>1. TypeOK'
    BY <1>7 DEF IInv, TypeOK, vars
  <2>2. net' \subseteq net /\ UNCHANGED <<topicOf, up, boots, topics, asked>>
    BY <1>7 DEF vars
  <2> QED
    BY <2>1, <2>2, TakingKeeps DEF IInv
<1> QED
  BY <1>1, <1>2, <1>3, <1>4, <1>5, <1>6, <1>7 DEF Next

\* The inductive invariant holds of every behaviour of the UDP programs.
THEOREM TableInvariant == Spec => []IInv
<1>1. Init => IInv
  BY InitIInv
<1>2. IInv /\ [Next]_vars => IInv'
  BY NextKeepsIInv
<1> QED
  BY <1>1, <1>2, PTL DEF Spec

\* The types of the state: the broker's tables (broker_udp.c:42-45) stay within
\* the 64 topics and 128 addresses for which they have room.
THEOREM TypeCorrect == Spec => []TypeOK
<1>1. IInv => TypeOK
  BY DEF IInv
<1> QED
  BY <1>1, TableInvariant, PTL

\* One bucket per topic and one entry per address in it, and only for addresses
\* that have asked (broker_udp.c:89-115).
THEOREM TableCorrect == Spec => []TableExact
<1>1. IInv => TableExact
  BY DEF IInv
<1> QED
  BY <1>1, TableInvariant, PTL

\* NEWS goes only to addresses from which the publisher's topic was asked for
\* (handle_publish, broker_udp.c:181-218).
THEOREM NewsOnlyToAskers == Spec => []NewsWasAsked
<1>1. IInv => NewsWasAsked
  BY DEF IInv
<1> QED
  BY <1>1, TableInvariant, PTL

\* OK SUB means what it says unless the topic is full, also when it is read
\* long after the SUB was handled (handle_subscribe, broker_udp.c:139-175).
THEOREM ConfirmationsAreTrue == Spec => []ConfirmedIsEntered
<1>1. IInv => ConfirmedIsEntered
  BY DEF IInv
<1> QED
  BY <1>1, TableInvariant, PTL

\* handle_publish never drops a PUB of publisher_udp for its length
\* (broker_udp.c:205).
THEOREM NothingTooLong == Spec => []NewsFits
<1>1. IInv => NewsFits
  BY EveryBodyFits, DatagramFields DEF IInv, TypeOK, NewsFits
<1> QED
  BY <1>1, TableInvariant, PTL

------------------------------------------------------------------------------
(* A notice reaches a process once                                         *)

\* Every NEWS that is on its way or has been printed.
Made == {d \in net : d.type = "NEWS"} \cup UNION {printed[s] : s \in Subs}

\* A notice has one PUB, which the broker reads once.
PubsOnce ==
    /\ \A d \in net : d.type = "PUB" =>
           d.notice \notin handled /\ d.notice[2] <= sent[d.notice[1]]
    /\ \A d, e \in net :
           (d.type = "PUB" /\ e.type = "PUB" /\ d.notice = e.notice) => d = e
    /\ \A n \in handled : n[2] <= sent[n[1]]

\* It is sent as one NEWS to each address.
NewsOnce ==
    /\ \A d \in Made : d.notice \in handled
    /\ \A d, e \in Made : (d.notice = e.notice /\ d.to = e.to) => d = e

\* A process has one address in its life, and prints what comes there.
OneAddress ==
    \A s \in Subs :
        /\ args[s] = <<>> => addr[s] = NoAddr /\ printed[s] = {}
        /\ addr[s] # NoAddr => \A d \in printed[s] : d.to = addr[s]
        /\ \A d, e \in printed[s] : d.to = e.to

OnceInv == PubsOnce /\ NewsOnce /\ OneAddress

LEMMA OnceInit == Init => OnceInv
<1> SUFFICES ASSUME Init PROVE OnceInv
  OBVIOUS
<1>1. PubsOnce
  BY DEF Init, PubsOnce
<1>2. NewsOnce
  BY DEF Init, NewsOnce, Made
<1>3. OneAddress
  BY DEF Init, OneAddress
<1> QED
  BY <1>1, <1>2, <1>3 DEF OnceInv

\* A step that sends no PUB and handles none.
LEMMA PubsOnceKept ==
    ASSUME PubsOnce, UNCHANGED <<sent, handled>>,
           \A d \in net' : d.type = "PUB" => d \in net
    PROVE  PubsOnce'
  BY DEF PubsOnce

LEMMA PubsOnceStep ==
    ASSUME IInv, PubsOnce, [Next]_vars
    PROVE  PubsOnce'
<1>1. ASSUME NEW p \in Pubs, PubSend(p)
      PROVE  PubsOnce'
  <2> DEFINE n == <<p, sent[p] + 1>>
             pub == Pub(n, topicOf[p], Longest)
  <2>1. net' = net \cup {pub} /\ handled' = handled /\ pub.notice = n /\ pub.type = "PUB"
    BY <1>1 DEF PubSend, brokerVars, Pub
  <2>2. n[1] = p /\ n[2] = sent[p] + 1
    OBVIOUS
  <2> HIDE DEF pub, n
  <2>3. /\ \A q \in Pubs : sent[q] \in Nat /\ sent'[q] \in Nat /\ sent[q] <= sent'[q]
        /\ sent'[p] = sent[p] + 1
    BY <1>1, LimitsAssumption DEF PubSend, IInv, TypeOK
  <2>4. \A d \in net : d.type = "PUB" => d.notice[1] \in Pubs /\ d.notice[2] \in Nat
    <3> SUFFICES ASSUME NEW d \in net, d.type = "PUB"
                 PROVE  d.notice[1] \in Pubs /\ d.notice[2] \in Nat
      OBVIOUS
    <3>1. d.notice \in Notices
      BY DatagramFields DEF IInv, TypeOK
    <3> QED
      BY <3>1 DEF Notices
  <2>5. \A m \in handled : m[1] \in Pubs /\ m[2] \in Nat
    BY DEF IInv, TypeOK, Notices
  <2>6. \A m \in handled : m[2] <= sent'[m[1]]
    BY <2>3, <2>5 DEF PubsOnce
  <2>7. n \notin handled /\ \A d \in net : d.type = "PUB" => d.notice # n
    BY <2>2, <2>3 DEF PubsOnce
  <2>8. ASSUME NEW d \in net', d.type = "PUB"
        PROVE  d.notice \notin handled /\ d.notice[2] <= sent'[d.notice[1]]
    <3>1. CASE d = pub
      BY <2>1, <2>2, <2>3, <2>7, <3>1
    <3>2. CASE d \in net
      BY <2>3, <2>4, <2>8, <3>2 DEF PubsOnce
    <3> QED
      BY <2>1, <2>8, <3>1, <3>2
  <2>9. \A d, e \in net' :
            (d.type = "PUB" /\ e.type = "PUB" /\ d.notice = e.notice) => d = e
    BY <2>1, <2>7 DEF PubsOnce
  <2> QED
    BY <2>1, <2>6, <2>8, <2>9 DEF PubsOnce
<1>2. CASE HandlePublish
  <2>1. PICK d \in net :
            /\ d.type = "PUB"
            /\ handled' = handled \cup {d.notice}
            /\ \/ \E b : net' = (net \ {d}) \cup NewsOf(b, d)
               \/ net' = net \ {d}
    BY <1>2 DEF HandlePublish
  <2>2. \A e \in net' : e.type = "PUB" => e \in net \ {d}
    BY <2>1 DEF NewsOf, News
  <2>3. sent' = sent
    BY <1>2 DEF HandlePublish, pubVars
  <2> QED
    BY <2>1, <2>2, <2>3 DEF PubsOnce
<1>3. CASE HandleSubscribe
  <2>1. PICK d \in net : net' \subseteq net \cup {SubOk(d.from, d.topic, boots)}
    BY <1>3 DEF HandleSubscribe
  <2>2. SubOk(d.from, d.topic, boots).type # "PUB"
    BY DEF SubOk
  <2>3. \A e \in net' : e.type = "PUB" => e \in net
    BY <2>1, <2>2
  <2> QED
    BY <1>3, <2>3, PubsOnceKept DEF HandleSubscribe, pubVars
<1>4. ASSUME NEW s \in Subs, SubSend(s)
      PROVE  PubsOnce'
  <2>1. \A d \in net' : d.type = "PUB" => d \in net
    BY <1>4 DEF SubSend, Sub
  <2> QED
    BY <1>4, <2>1, PubsOnceKept DEF SubSend, pubVars, brokerVars
<1>5. ASSUME NEW s \in Subs, SubStart(s) \/ SubRecv(s) \/ SubQuit(s)
      PROVE  PubsOnce'
  <2>1. net' \subseteq net /\ UNCHANGED <<sent, handled>>
    BY <1>5 DEF SubStart, SubRecv, SubQuit, pubVars, brokerVars
  <2> QED
    BY <2>1, PubsOnceKept
<1>6. CASE BrokerStop \/ BrokerStart \/ UNCHANGED vars \/ \E p \in Pubs : Unreachable(p)
  <2>1. net' \subseteq net /\ UNCHANGED <<sent, handled>>
    BY <1>6 DEF BrokerStop, BrokerStart, Unreachable, pubVars, brokerVars, vars
  <2> QED
    BY <2>1, PubsOnceKept
<1> QED
  BY <1>1, <1>2, <1>3, <1>4, <1>5, <1>6 DEF Next

\* handle_publish drops a PUB of nobody's topic, and sends any other to the
\* addresses in the bucket of its topic.
LEMMA PublishStep ==
    ASSUME IInv, HandlePublish
    PROVE  \E d \in net :
               /\ d.type = "PUB" /\ d.notice \in Notices /\ d.topic \in Topics
               /\ handled' = handled \cup {d.notice}
               /\ \/ /\ ~Known(d.topic)
                     /\ net' = net \ {d} /\ notified' = notified
                  \/ \E f \in DOMAIN topics :
                         /\ topics[f].topic = d.topic /\ GoodBucket(topics[f])
                         /\ net' = (net \ {d}) \cup NewsOf(topics[f], d)
                         /\ notified' = notified \cup
                                {<<d.notice, topics[f].subs[i]>> : i \in Loop(topics[f])}
<1>1. GoodTable(topics)
  BY TableInOrder DEF IInv
<1>2. PICK d \in net :
          /\ d.type = "PUB"
          /\ handled' = handled \cup {d.notice}
          /\ IF Known(d.topic) /\ NewsLen(d.len) < MaxMsg
             THEN LET b == topics[FindTopic(d.topic)] IN
                  /\ net' = (net \ {d}) \cup NewsOf(b, d)
                  /\ notified' = notified \cup {<<d.notice, b.subs[i]>> : i \in Loop(b)}
             ELSE /\ net' = net \ {d}
                  /\ UNCHANGED notified
  BY DEF HandlePublish
<1>3. d.notice \in Notices /\ d.topic \in Topics /\ d.len \in BodyLens
  BY <1>2, DatagramFields DEF IInv, TypeOK
<1>4. NewsLen(d.len) < MaxMsg
  BY <1>3, EveryBodyFits
<1>5. CASE ~Known(d.topic)
  BY <1>2, <1>3, <1>5
<1>6. CASE Known(d.topic)
  <2>1. PICK f \in DOMAIN topics : topics[f].topic = d.topic
    BY <1>6 DEF Known
  <2>2. FindTopic(d.topic) = f
    <3>1. \A i \in DOMAIN topics : topics[i].topic = d.topic => i = f
      BY <1>1, <2>1 DEF GoodTable
    <3>2. \A j \in 1..(f - 1) : j \in DOMAIN topics /\ j # f
      BY <1>1, <2>1 DEF GoodTable
    <3> QED
      BY <2>1, <3>1, <3>2 DEF FindTopic
  <2>3. GoodBucket(topics[f])
    BY <1>1 DEF GoodTable
  <2> QED
    BY <1>2, <1>3, <1>4, <1>6, <2>1, <2>2, <2>3
<1> QED
  BY <1>5, <1>6

LEMMA NewsOnceKept ==
    ASSUME NewsOnce, Made' \subseteq Made, handled \subseteq handled'
    PROVE  NewsOnce'
  BY DEF NewsOnce

LEMMA NewsOnceStep ==
    ASSUME IInv, PubsOnce, NewsOnce, [Next]_vars
    PROVE  NewsOnce'
<1>1. CASE HandlePublish
  <2>1. PICK d \in net :
            /\ d.type = "PUB" /\ d.notice \in Notices /\ d.topic \in Topics
            /\ handled' = handled \cup {d.notice}
            /\ \/ net' = net \ {d}
               \/ \E f \in DOMAIN topics :
                      /\ GoodBucket(topics[f])
                      /\ net' = (net \ {d}) \cup NewsOf(topics[f], d)
    BY <1>1, PublishStep
  <2>2. printed' = printed
    BY <1>1 DEF HandlePublish, subVars
  <2>3. CASE net' = net \ {d}
    <3>1. Made' \subseteq Made
      BY <2>2, <2>3 DEF Made
    <3> QED
      BY <2>1, <3>1, NewsOnceKept
  <2>4. ASSUME NEW f \in DOMAIN topics, GoodBucket(topics[f]),
               net' = (net \ {d}) \cup NewsOf(topics[f], d)
        PROVE  NewsOnce'
    <3> DEFINE b == topics[f]
    <3>1. Made' \subseteq Made \cup NewsOf(b, d)
      BY <2>2, <2>4 DEF Made
    <3>2. GoodBucket(b)
      BY <2>4
    <3> HIDE DEF b
    <3>3. \A x \in NewsOf(b, d) : x.notice = d.notice
      BY DEF NewsOf, News
    <3>4. \A x \in Made : x.notice # d.notice
      BY <2>1 DEF PubsOnce, NewsOnce
    <3>5. \A x, y \in NewsOf(b, d) : x.to = y.to => x = y
      BY <3>2 DEF NewsOf, News, GoodBucket, Loop
    <3> QED
      BY <2>1, <3>1, <3>3, <3>4, <3>5 DEF NewsOnce
  <2> QED
    BY <2>1, <2>3, <2>4
<1>2. ASSUME NEW s \in Subs, SubRecv(s)
      PROVE  NewsOnce'
  <2>1. PICK d \in net : /\ d.type = "NEWS" /\ net' = net \ {d}
                         /\ printed' = [printed EXCEPT ![s] = @ \cup {d}]
    BY <1>2 DEF SubRecv
  <2>2. \A r \in Subs : printed'[r] \subseteq printed[r] \cup {d}
    BY <2>1 DEF IInv, TypeOK
  <2>3. Made' \subseteq Made
    BY <2>1, <2>2 DEF Made
  <2> QED
    BY <1>2, <2>3, NewsOnceKept DEF SubRecv, brokerVars
<1>3. ASSUME printed' = printed, handled' = handled,
             \A d \in net' : d.type = "NEWS" => d \in net
      PROVE  NewsOnce'
  <2>1. Made' \subseteq Made
    BY <1>3 DEF Made
  <2> QED
    BY <1>3, <2>1, NewsOnceKept
<1>4. CASE HandleSubscribe
  <2>1. PICK d \in net : net' \subseteq net \cup {SubOk(d.from, d.topic, boots)}
    BY <1>4 DEF HandleSubscribe
  <2>2. SubOk(d.from, d.topic, boots).type # "NEWS"
    BY DEF SubOk
  <2> QED
    BY <1>3, <1>4, <2>1, <2>2 DEF HandleSubscribe, subVars
<1>5. ASSUME NEW p \in Pubs, PubSend(p)
      PROVE  NewsOnce'
  <2> DEFINE pub == Pub(<<p, sent[p] + 1>>, topicOf[p], Longest)
  <2>1. net' = net \cup {pub} /\ pub.type # "NEWS"
    BY <1>5 DEF PubSend, Pub
  <2> HIDE DEF pub
  <2> QED
    BY <1>3, <1>5, <2>1 DEF PubSend, subVars, brokerVars
<1>6. ASSUME NEW s \in Subs, SubSend(s)
      PROVE  NewsOnce'
  <2> DEFINE sub == Sub(addr[s], args[s][subbed[s] + 1])
  <2>1. net' = net \cup {sub} /\ sub.type # "NEWS"
    BY <1>6 DEF SubSend, Sub
  <2> HIDE DEF sub
  <2> QED
    BY <1>3, <1>6, <2>1 DEF SubSend, brokerVars
<1>7. ASSUME NEW s \in Subs, SubStart(s) \/ SubQuit(s)
      PROVE  NewsOnce'
  BY <1>3, <1>7 DEF SubStart, SubQuit, brokerVars
<1>8. CASE BrokerStop \/ BrokerStart \/ UNCHANGED vars \/ \E p \in Pubs : Unreachable(p)
  BY <1>3, <1>8 DEF BrokerStop, BrokerStart, Unreachable, subVars, brokerVars, vars
<1> QED
  BY <1>1, <1>2, <1>4, <1>5, <1>6, <1>7, <1>8 DEF Next

LEMMA OneAddressStep ==
    ASSUME IInv, OneAddress, [Next]_vars
    PROVE  OneAddress'
<1>1. /\ addr \in [Subs -> Addrs \cup {NoAddr}] /\ args \in [Subs -> Wishes \cup {<<>>}]
      /\ printed \in [Subs -> SUBSET NewsType]
  BY DEF IInv, TypeOK
<1>2. ASSUME NEW s \in Subs, SubStart(s)
      PROVE  OneAddress'
  <2>1. PICK a \in Addrs, w \in Wishes : /\ addr' = [addr EXCEPT ![s] = a]
                                         /\ args' = [args EXCEPT ![s] = w]
    BY <1>2 DEF SubStart
  <2>2. w # <<>>
    BY SetsAssumption
  <2>3. args[s] = <<>> /\ printed' = printed
    BY <1>2 DEF SubStart
  <2> QED
    BY <1>1, <2>1, <2>2, <2>3 DEF OneAddress
<1>3. ASSUME NEW s \in Subs, SubRecv(s)
      PROVE  OneAddress'
  <2>1. PICK d \in net : d.to = addr[s] /\ printed' = [printed EXCEPT ![s] = @ \cup {d}]
    BY <1>3 DEF SubRecv
  <2>2. addr[s] # NoAddr /\ args' = args /\ addr' = addr
    BY <1>3 DEF SubRecv
  <2>3. \A e \in printed[s] \cup {d} : e.to = addr[s]
    BY <2>1, <2>2 DEF OneAddress
  <2>4. printed'[s] = printed[s] \cup {d} /\ \A r \in Subs \ {s} : printed'[r] = printed[r]
    BY <1>1, <2>1
  <2>5. ASSUME NEW r \in Subs
        PROVE  /\ args'[r] = <<>> => addr'[r] = NoAddr /\ printed'[r] = {}
               /\ addr'[r] # NoAddr => \A e \in printed'[r] : e.to = addr'[r]
               /\ \A e, f \in printed'[r] : e.to = f.to
    <3>1. CASE r = s
      BY <2>2, <2>3, <2>4, <3>1 DEF OneAddress
    <3>2. CASE r # s
      BY <2>2, <2>4, <3>2 DEF OneAddress
    <3> QED
      BY <3>1, <3>2
  <2> QED
    BY <2>5 DEF OneAddress
<1>4. ASSUME NEW s \in Subs, SubQuit(s)
      PROVE  OneAddress'
  BY <1>1, <1>4 DEF SubQuit, OneAddress
<1>5. UNCHANGED <<args, addr, printed>> => OneAddress'
  BY DEF OneAddress
<1>6. ASSUME NEW s \in Subs, SubSend(s)
      PROVE  OneAddress'
  BY <1>5, <1>6 DEF SubSend
<1>7. ASSUME NEW p \in Pubs, PubSend(p) \/ Unreachable(p)
      PROVE  OneAddress'
  BY <1>5, <1>7 DEF PubSend, Unreachable, subVars
<1>8. CASE HandleSubscribe \/ HandlePublish \/ BrokerStop \/ BrokerStart \/ UNCHANGED vars
  BY <1>5, <1>8 DEF HandleSubscribe, HandlePublish, BrokerStop, BrokerStart, subVars, vars
<1> QED
  BY <1>2, <1>3, <1>4, <1>6, <1>7, <1>8 DEF Next

LEMMA OnceHolds == Spec => []OnceInv
<1>1. IInv /\ OnceInv /\ [Next]_vars => OnceInv'
  BY PubsOnceStep, NewsOnceStep, OneAddressStep DEF OnceInv
<1> QED
  BY <1>1, OnceInit, TableInvariant, PTL DEF Spec

\* No process prints a notice twice, although a SUB may be repeated, an address
\* inherited with its entries and the broker started again (handle_publish,
\* broker_udp.c:207-217).
THEOREM NoNoticeTwice == Spec => []PrintedOnce
<1>1. OnceInv => PrintedOnce
  <2> SUFFICES ASSUME OnceInv, NEW s \in Subs, NEW d \in printed[s], NEW e \in printed[s],
                      d.notice = e.notice
               PROVE  d = e
    BY DEF PrintedOnce
  <2>1. d \in Made /\ e \in Made
    BY DEF Made
  <2>2. d.to = e.to
    BY DEF OnceInv, OneAddress
  <2> QED
    BY <2>1, <2>2 DEF OnceInv, NewsOnce
<1> QED
  BY <1>1, OnceHolds, PTL

------------------------------------------------------------------------------
(* The broker implements the notifier                                      *)

LEMMA SameCardinality == \A S : Notifier!Cardinality(S) = Cardinality(S)
  BY DEF Cardinality, Notifier!Cardinality

\* What takes up n places has at most n elements.
LEMMA AtMostPlaces ==
    ASSUME NEW n \in Nat, NEW f, NEW S, S = {f[i] : i \in 1..n}
    PROVE  IsFiniteSet(S) /\ Cardinality(S) \in Nat /\ Cardinality(S) <= n
<1> DEFINE g == [i \in 1..n |-> f[i]]
<1>1. IsFiniteSet(1..n) /\ Cardinality(1..n) = n
  BY FS_Interval
<1>2. g \in Surjection(1..n, S)
  BY DEF Surjection
<1> HIDE DEF g
<1>3. IsFiniteSet(S) /\ Cardinality(S) <= Cardinality(1..n)
  BY <1>1, <1>2, FS_Surjection
<1> QED
  BY <1>1, <1>3, FS_CardinalityType

\* A SUB that adds an entry finds a place for it.
LEMMA EnterNeedsPlace ==
    ASSUME GoodTable(topics), NEW t \in Topics, NEW a \in Addrs, HasRoom(t),
           ~EnteredIn(topics, t, a), EnteredIn(Enter(t, a), t, a)
    PROVE  \A i \in DOMAIN topics : topics[i].topic = t => Len(topics[i].subs) < MaxSubs
<1> SUFFICES ASSUME NEW i \in DOMAIN topics, topics[i].topic = t,
                    ~(Len(topics[i].subs) < MaxSubs)
             PROVE  FALSE
  OBVIOUS
<1>1. Len(topics[i].subs) \in Nat /\ MaxSubs \in Nat /\ Len(topics) \in Nat
      /\ DOMAIN topics = 1..Len(topics)
  BY LimitsAssumption DEF GoodTable, GoodBucket, Bucket
<1>2. Known(t)
  BY DEF Known
<1>3. \A j \in DOMAIN topics : topics[j].topic = t => j = i
  BY DEF GoodTable
<1>4. AddSubscriber(topics[i], a) = topics[i]
  BY <1>1 DEF AddSubscriber
<1>5. FindTopic(t) \in DOMAIN topics /\ topics[FindTopic(t)].topic = t
  <2>1. \A j \in 1..(i - 1) : j \in DOMAIN topics /\ j # i
    BY <1>1
  <2> QED
    BY <1>3, <2>1 DEF FindTopic
<1>6. FindTopic(t) = i
  BY <1>3, <1>5
<1>7. Enter(t, a) = [j \in DOMAIN topics |-> topics[j]]
  <2>1. EnsureTopic(t) = topics
    BY <1>2 DEF EnsureTopic
  <2> QED
    BY <1>2, <1>4, <1>6, <2>1 DEF Enter
<1>8. \A j \in DOMAIN topics : Enter(t, a)[j] = topics[j] /\ DOMAIN Enter(t, a) = DOMAIN topics
  BY <1>7
<1> QED
  BY <1>7, <1>8 DEF EnteredIn

\* The directory is the table, seen as a function.
LEMMA DirectoryIsTable ==
    /\ \A t : Members(t) = {a \in Addrs : EnteredIn(topics, t, a)}
    /\ \A t : Members(t)' = {a \in Addrs : EnteredIn(topics', t, a)}
<1>1. \A t, a : Entered(t, a) <=> EnteredIn(topics, t, a)
  BY DEF Entered, EnteredIn, Has
<1>2. \A t, a : Entered(t, a)' <=> EnteredIn(topics', t, a)
  BY DEF Entered, EnteredIn, Has
<1> QED
  BY <1>1, <1>2 DEF Members

LEMMA DirectoryLimits ==
    ASSUME GoodTable(topics)
    PROVE  /\ \A i \in DOMAIN topics : LET t == topics[i].topic IN
                  /\ Members(t) # {}
                  /\ Cardinality(Members(t)) \in Nat
                  /\ Cardinality(Members(t)) <= Len(topics[i].subs)
           /\ \A t : ~Known(t) => Members(t) = {}
           /\ LET held == {t \in Topics : Members(t) # {}} IN
                  Cardinality(held) \in Nat /\ Cardinality(held) <= Len(topics)
<1>1. /\ DOMAIN topics = 1..Len(topics) /\ Len(topics) \in Nat
      /\ \A i \in DOMAIN topics : topics[i].topic \in Topics
  <2>1. topics \in Seq(Bucket)
    BY DEF GoodTable
  <2>2. \A i \in DOMAIN topics : topics[i] \in Bucket
    BY <2>1
  <2> QED
    BY <2>1, <2>2 DEF Bucket
<1>2. ASSUME NEW i \in DOMAIN topics
      PROVE  /\ Members(topics[i].topic) # {}
             /\ Cardinality(Members(topics[i].topic)) \in Nat
             /\ Cardinality(Members(topics[i].topic)) <= Len(topics[i].subs)
  <2> DEFINE list == topics[i].subs
             t == topics[i].topic
  <2>1. list \in Seq(Addrs) /\ Len(list) \in Nat /\ DOMAIN list = 1..Len(list)
        /\ Len(list) >= 1
    BY DEF GoodTable, GoodBucket, Bucket
  <2>2. \A j \in DOMAIN topics : topics[j].topic = t => j = i
    BY DEF GoodTable
  <2>3. \A a \in Addrs : EnteredIn(topics, t, a) <=> \E k \in 1..Len(list) : list[k] = a
    BY <2>1, <2>2 DEF EnteredIn, Has
  <2>4. \A k \in 1..Len(list) : list[k] \in Addrs
    BY <2>1
  <2> HIDE DEF list, t
  <2>5. Members(t) = {list[k] : k \in 1..Len(list)}
    BY <2>3, <2>4, DirectoryIsTable
  <2>6. Members(t) # {}
    BY <2>1, <2>5
  <2>7. Cardinality(Members(t)) \in Nat /\ Cardinality(Members(t)) <= Len(list)
    BY <2>1, <2>5, AtMostPlaces
  <2> QED
    BY <2>6, <2>7 DEF list, t
<1>3. \A t : ~Known(t) => Members(t) = {}
  BY DirectoryIsTable DEF Known, EnteredIn
<1> DEFINE held == {t \in Topics : Members(t) # {}}
           named == [i \in 1..Len(topics) |-> topics[i].topic]
<1>4. held = {named[i] : i \in 1..Len(topics)}
  <2>1. \A t \in held : Known(t)
    BY <1>3
  <2>2. \A t \in held : \E i \in 1..Len(topics) : t = named[i]
    BY <1>1, <2>1 DEF Known
  <2>3. \A i \in 1..Len(topics) : named[i] \in held
    BY <1>1, <1>2
  <2> HIDE DEF held, named
  <2> QED
    BY <2>2, <2>3
<1>5. Cardinality(held) \in Nat /\ Cardinality(held) <= Len(topics)
  <2> HIDE DEF held, named
  <2> QED
    BY <1>1, <1>4, AtMostPlaces
<1> QED
  BY <1>2, <1>3, <1>5

LEMMA SubscribeJoins ==
    ASSUME IInv, HandleSubscribe
    PROVE  [Notifier!Next]_(Notifier!vars)
<1> DEFINE dir == [t \in Topics |-> Members(t)]
<1>1. GoodTable(topics)
  BY TableInOrder DEF IInv
<1>2. UNCHANGED <<handled, notified>>
  BY DEF HandleSubscribe
<1>3. PICK d \in net :
          /\ d.type = "SUB"
          /\ IF HasRoom(d.topic) THEN topics' = Enter(d.topic, d.from)
                                 ELSE UNCHANGED topics
  BY DEF HandleSubscribe
<1>4. ASSUME \A u \in Topics, x \in Addrs :
                 EnteredIn(topics', u, x) <=> EnteredIn(topics, u, x)
      PROVE  UNCHANGED Notifier!vars
  <2>1. \A u \in Topics : Members(u)' = Members(u)
    BY <1>4, DirectoryIsTable
  <2>2. dir' = dir
    BY <2>1
  <2> QED
    BY <1>2, <2>2 DEF Notifier!vars
<1>5. CASE ~HasRoom(d.topic)
  BY <1>3, <1>4, <1>5
<1>6. CASE HasRoom(d.topic)
  <2> DEFINE t == d.topic
             a == d.from
  <2>1. t \in Topics /\ a \in Addrs
    BY <1>3, DatagramFields DEF IInv, TypeOK
  <2>2. topics' = Enter(t, a)
    BY <1>3, <1>6
  <2>3. /\ \A u \in Topics, x \in Addrs :
               EnteredIn(topics, u, x) => EnteredIn(topics', u, x)
        /\ \A u \in Topics, x \in Addrs :
               EnteredIn(topics', u, x) => EnteredIn(topics, u, x) \/ (u = t /\ x = a)
    BY <1>1, <1>6, <2>1, <2>2, EnterKeeps
  <2> HIDE DEF t, a
  <2>4. CASE EnteredIn(topics, t, a) \/ ~EnteredIn(topics', t, a)
    BY <1>4, <2>1, <2>3, <2>4
  <2>5. CASE ~EnteredIn(topics, t, a) /\ EnteredIn(topics', t, a)
    <3>1. HasRoom(t)
      BY <1>6 DEF t
    <3>2. \A i \in DOMAIN topics : topics[i].topic = t => Len(topics[i].subs) < MaxSubs
      BY <1>1, <2>1, <2>2, <2>5, <3>1, EnterNeedsPlace
    <3>3. dir' = [dir EXCEPT ![t] = @ \cup {a}]
      <4>1. Members(t)' = Members(t) \cup {a}
        BY <2>1, <2>3, <2>5, DirectoryIsTable
      <4>2. \A u \in Topics \ {t} : Members(u)' = Members(u)
        BY <2>1, <2>3, DirectoryIsTable
      <4> QED
        BY <2>1, <4>1, <4>2
    <3>4. Cardinality(Members(t)) < MaxSubs
      <4>1. CASE Known(t)
        <5>1. PICK i \in DOMAIN topics : topics[i].topic = t
          BY <4>1 DEF Known
        <5>2. /\ Cardinality(Members(t)) \in Nat
              /\ Cardinality(Members(t)) <= Len(topics[i].subs)
          BY <1>1, <5>1, DirectoryLimits
        <5>3. Len(topics[i].subs) < MaxSubs /\ Len(topics[i].subs) \in Nat
          BY <1>1, <3>2, <5>1 DEF GoodTable, GoodBucket, Bucket
        <5> QED
          BY <5>2, <5>3, LimitsAssumption
      <4>2. CASE ~Known(t)
        <5>1. Members(t) = {}
          BY <1>1, <4>2, DirectoryLimits
        <5> QED
          BY <5>1, FS_EmptySet, LimitsAssumption
      <4> QED
        BY <4>1, <4>2
    <3> DEFINE held == {u \in Topics : Members(u) # {}}
    <3>5. t \in held \/ Cardinality(held) < MaxTopics
      <4>1. CASE Known(t)
        <5>1. PICK i \in DOMAIN topics : topics[i].topic = t
          BY <4>1 DEF Known
        <5> QED
          BY <1>1, <2>1, <5>1, DirectoryLimits
      <4>2. CASE ~Known(t)
        <5>1. Len(topics) < MaxTopics /\ Len(topics) \in Nat
          BY <1>1, <3>1, <4>2 DEF HasRoom, GoodTable
        <5>2. Cardinality(held) \in Nat /\ Cardinality(held) <= Len(topics)
          BY <1>1, DirectoryLimits
        <5> HIDE DEF held
        <5> QED
          BY <5>1, <5>2, LimitsAssumption
      <4> QED
        BY <4>1, <4>2
    <3>6. held = Notifier!Held
      BY DEF Notifier!Held
    <3>7. dir[t] = Members(t)
      BY <2>1
    <3>8. Notifier!Join(t, a)
      <4> HIDE DEF held
      <4> QED
        BY <1>2, <3>3, <3>4, <3>5, <3>6, <3>7, SameCardinality DEF Notifier!Join
    <3> QED
      BY <2>1, <3>8 DEF Notifier!Next
  <2> QED
    BY <2>4, <2>5
<1> QED
  BY <1>5, <1>6

LEMMA PublishNotifies ==
    ASSUME IInv, PubsOnce, HandlePublish
    PROVE  [Notifier!Next]_(Notifier!vars)
<1> DEFINE dir == [t \in Topics |-> Members(t)]
<1>1. GoodTable(topics)
  BY TableInOrder DEF IInv
<1>2. PICK d \in net :
          /\ d.type = "PUB" /\ d.notice \in Notices /\ d.topic \in Topics
          /\ handled' = handled \cup {d.notice}
          /\ \/ /\ ~Known(d.topic) /\ notified' = notified
             \/ \E f \in DOMAIN topics :
                    /\ topics[f].topic = d.topic /\ GoodBucket(topics[f])
                    /\ notified' = notified \cup
                           {<<d.notice, topics[f].subs[i]>> : i \in Loop(topics[f])}
  BY PublishStep
<1>3. d.notice \notin handled
  BY <1>2 DEF PubsOnce
<1>4. dir' = dir
  <2>1. topics' = topics
    BY DEF HandlePublish
  <2>2. \A t \in Topics : Members(t)' = Members(t)
    BY <2>1, DirectoryIsTable
  <2> QED
    BY <2>2
<1>5. notified' = notified \cup ({d.notice} \X Members(d.topic))
  <2>1. CASE ~Known(d.topic) /\ notified' = notified
    <3>1. Members(d.topic) = {}
      BY <1>1, <2>1, DirectoryLimits
    <3> QED
      BY <2>1, <3>1
  <2>2. ASSUME NEW f \in DOMAIN topics, topics[f].topic = d.topic, GoodBucket(topics[f]),
               notified' = notified \cup
                   {<<d.notice, topics[f].subs[i]>> : i \in Loop(topics[f])}
        PROVE  notified' = notified \cup ({d.notice} \X Members(d.topic))
    <3> DEFINE list == topics[f].subs
    <3>1. \A i \in DOMAIN list : list[i] \in Addrs
      BY <2>2 DEF GoodBucket, Bucket
    <3>2. \A j \in DOMAIN topics : topics[j].topic = d.topic => j = f
      BY <1>1, <2>2 DEF GoodTable
    <3>3. \A a \in Addrs : EnteredIn(topics, d.topic, a) <=> \E i \in DOMAIN list : list[i] = a
      BY <2>2, <3>2 DEF EnteredIn, Has
    <3>4. Loop(topics[f]) = DOMAIN list
      BY DEF Loop
    <3>5. notified' = notified \cup {<<d.notice, list[i]>> : i \in DOMAIN list}
      BY <2>2, <3>4
    <3> HIDE DEF list
    <3>6. Members(d.topic) = {list[i] : i \in DOMAIN list}
      BY <3>1, <3>3, DirectoryIsTable
    <3>7. {<<d.notice, list[i]>> : i \in DOMAIN list} = {d.notice} \X Members(d.topic)
      BY <3>6
    <3> QED
      BY <3>5, <3>7
  <2> QED
    BY <1>2, <2>1, <2>2
<1>6. dir[d.topic] = Members(d.topic)
  BY <1>2
<1>7. Notifier!Notify(d.notice, d.topic)
  BY <1>2, <1>3, <1>4, <1>5, <1>6 DEF Notifier!Notify
<1> QED
  BY <1>2, <1>7 DEF Notifier!Next

LEMMA NotifierNext ==
    ASSUME IInv, PubsOnce, [Next]_vars
    PROVE  [Notifier!Next]_(Notifier!vars)
<1> DEFINE dir == [t \in Topics |-> Members(t)]
<1>1. ASSUME UNCHANGED <<topics, handled, notified>>
      PROVE  UNCHANGED Notifier!vars
  <2>1. \A t \in Topics : Members(t)' = Members(t)
    BY <1>1, DirectoryIsTable
  <2>2. dir' = dir
    BY <2>1
  <2> QED
    BY <1>1, <2>2 DEF Notifier!vars
<1>2. CASE BrokerStop
  <2>1. topics' = <<>> /\ UNCHANGED <<handled, notified>>
    BY <1>2 DEF BrokerStop
  <2>2. \A t \in Topics : Members(t)' = {}
    BY <2>1, DirectoryIsTable DEF EnteredIn
  <2>3. dir' = [t \in Topics |-> {}]
    BY <2>2
  <2>4. Notifier!Forget
    BY <2>1, <2>3 DEF Notifier!Forget
  <2> QED
    BY <2>4 DEF Notifier!Next
<1>3. ASSUME NEW p \in Pubs, PubSend(p) \/ Unreachable(p)
      PROVE  UNCHANGED Notifier!vars
  BY <1>1, <1>3 DEF PubSend, Unreachable, brokerVars
<1>4. ASSUME NEW s \in Subs, SubStart(s) \/ SubSend(s) \/ SubRecv(s) \/ SubQuit(s)
      PROVE  UNCHANGED Notifier!vars
  BY <1>1, <1>4 DEF SubStart, SubSend, SubRecv, SubQuit, brokerVars
<1>5. CASE BrokerStart \/ UNCHANGED vars
  BY <1>1, <1>5 DEF BrokerStart, vars
<1> QED
  BY <1>2, <1>3, <1>4, <1>5, SubscribeJoins, PublishNotifies DEF Next

\* The broker of broker_udp.c implements the notifier: each notice that it reads
\* is sent, once, to exactly the addresses in the table, which stays within its
\* limits and is forgotten only as a whole.
THEOREM NotifierImplemented == Spec => ImplementsNotifier
<1>1. Init => Notifier!Init
  <2> SUFFICES ASSUME Init PROVE Notifier!Init
    OBVIOUS
  <2>1. topics = <<>> /\ handled = {} /\ notified = {}
    BY DEF Init
  <2>2. \A t : Members(t) = {}
    BY <2>1, DirectoryIsTable DEF EnteredIn
  <2> QED
    BY <2>1, <2>2 DEF Notifier!Init
<1>2. IInv /\ OnceInv /\ [Next]_vars => [Notifier!Next]_(Notifier!vars)
  BY NotifierNext DEF OnceInv
<1> QED
  BY <1>1, <1>2, TableInvariant, OnceHolds, PTL
     DEF Spec, ImplementsNotifier, Notifier!Spec
==============================================================================
