---------------------------- MODULE MiniQuicProofs ----------------------------
(***************************************************************************)
(* Theorems about MiniQuic, for any number of clients, every value of the  *)
(* limits and a network of either kind.                                    *)
(***************************************************************************)
EXTENDS MiniQuic, SequenceTheorems, FiniteSetTheorems, TLAPS

USE ProcessesAssumption, LimitsAssumption DEF Clients, FirstEvent, LastEvent

------------------------------------------------------------------------------
(* The inductive invariant: what every datagram on its way and every entry *)
(* of subs[] says is true of the processes at both ends.                   *)

\* A publisher has its handshake and its events on the way, none of them later
\* than the one it is sending.
FromPublisher(p, pkt) ==
    \/ pkt.type = "handshake" /\ pkt.stream = 99
    \/ /\ pkt.type = "data" /\ pkt.stream = 5
       /\ pkt.num \in FirstEvent..num[p] /\ pkt.event = <<p, pkt.num>>

\* A subscriber acknowledges what it has printed.
FromSubscriber(s, pkt) ==
    /\ pkt.cid = cid[s]
    /\ \/ pkt.type = "handshake" /\ pkt.stream = 0
       \/ pkt.type = "ack" /\ \E e \in Printed(s) : e[2] = pkt.num

FromClient(c, pkt) ==
    /\ c \in Pubs => FromPublisher(c, pkt)
    /\ c \in Subs => FromSubscriber(c, pkt)

\* A packet that carries an event carries one the broker has handled.
Carries(pkt) ==
    /\ pkt.type = "data" /\ pkt.stream = 5
    /\ pkt.event \in handled /\ pkt.event[2] = pkt.num

\* The broker acknowledges to a publisher what it has handled, and sends an
\* event to nobody but a subscriber.
FromBroker(c, pkt) ==
    \/ /\ pkt.type = "ack"
       /\ (c \in Pubs /\ pkt.stream = 5) => <<c, pkt.num>> \in handled
    \/ c \in Subs /\ Carries(pkt)

Entry(slot) ==
    /\ slot.addr \in Subs /\ slot.cid = cid[slot.addr]
    /\ slot.busy => slot.out \in Packet /\ Carries(slot.out)

ToBrokerInv == \A c \in Clients : \A k \in DOMAIN toBroker[c] : FromClient(c, toBroker[c][k])
InboxInv == \A c \in Clients : \A k \in DOMAIN inbox[c] : FromBroker(c, inbox[c][k])
TableInv == \A i \in DOMAIN subs : Entry(subs[i])

\* A publisher that has not ended still has a packet to send; the broker has
\* handled nothing beyond it, and nothing is printed that it has not handled.
ProgressInv ==
    /\ \A p \in Pubs : ppc[p] \in {"send", "wait"} => num[p] <= LastEvent
    /\ \A e \in handled : e[2] <= num[e[1]]
    /\ \A s \in Subs : Printed(s) \subseteq handled

Inv == /\ TypeOK /\ ToBrokerInv /\ InboxInv /\ TableInv /\ ProgressInv
       /\ AcknowledgedIsHandled

\* A broker that is down may be started once more.
BootInv == ~up => boots < MaxBoots

------------------------------------------------------------------------------
(* Lemmas about the queues                                                 *)

\* recvfrom() takes one datagram off a queue and leaves the others in order.
LEMMA WithoutKeepsTheRest ==
    ASSUME NEW S, NEW queue \in Seq(S), NEW k \in DOMAIN queue
    PROVE  /\ Without(queue, k) \in Seq(S)
           /\ Len(Without(queue, k)) = Len(queue) - 1
           /\ \A j \in DOMAIN Without(queue, k) :
                  Without(queue, k)[j] = queue[IF j < k THEN j ELSE j + 1]
           /\ \A j \in DOMAIN Without(queue, k) :
                  \E i \in DOMAIN queue : Without(queue, k)[j] = queue[i]
<1> DEFINE n == Len(queue)
           before == SubSeq(queue, 1, k - 1)
           after == SubSeq(queue, k + 1, n)
<1>1. n \in Nat /\ k \in 1..n
  OBVIOUS
<1>2. /\ before \in Seq(S) /\ Len(before) = k - 1
      /\ \A j \in 1..(k - 1) : before[j] = queue[j]
  BY <1>1
<1>3. /\ after \in Seq(S) /\ Len(after) = n - k
      /\ \A j \in 1..(n - k) : after[j] = queue[k + j]
  BY <1>1
<1> HIDE DEF before, after
<1>4. /\ before \o after \in Seq(S) /\ Len(before \o after) = n - 1
      /\ \A j \in 1..(n - 1) :
             (before \o after)[j] = queue[IF j < k THEN j ELSE j + 1]
  <2>1. /\ before \o after \in Seq(S)
        /\ Len(before \o after) = Len(before) + Len(after)
        /\ \A j \in 1..(Len(before) + Len(after)) :
               (before \o after)[j] = IF j <= Len(before) THEN before[j]
                                                        ELSE after[j - Len(before)]
    BY <1>2, <1>3, ConcatProperties, ZenonT(60)
  <2>2. Len(before) + Len(after) = n - 1
    BY <1>1, <1>2, <1>3
  <2>3. ASSUME NEW j \in 1..(n - 1)
        PROVE  (before \o after)[j] = queue[IF j < k THEN j ELSE j + 1]
    <3>1. CASE j < k
      <4>1. j <= Len(before) /\ j \in 1..(k - 1)
        BY <1>1, <1>2, <3>1
      <4> QED
        BY <1>2, <2>1, <2>2, <3>1, <4>1
    <3>2. CASE ~(j < k)
      <4>1. /\ ~(j <= Len(before)) /\ j - Len(before) \in 1..(n - k)
            /\ k + (j - Len(before)) = j + 1
        BY <1>1, <1>2, <3>2
      <4> QED
        BY <1>3, <2>1, <2>2, <3>2, <4>1
    <3> QED
      BY <3>1, <3>2
  <2> QED
    BY <2>1, <2>2, <2>3
<1>5. Without(queue, k) = before \o after
  BY DEF Without, before, after
<1>6. DOMAIN (before \o after) = 1..(n - 1)
  BY <1>1, <1>4
<1>7. \A j \in 1..(n - 1) :
          /\ (IF j < k THEN j ELSE j + 1) \in DOMAIN queue
          /\ (before \o after)[j] = queue[IF j < k THEN j ELSE j + 1]
  BY <1>1, <1>4
<1> QED
  BY <1>4, <1>5, <1>6, <1>7

\* What is sent to the broker is put at the end of the sender's queue or lost.
LEMMA SentToBroker ==
    ASSUME TypeOK, NEW c \in Clients, NEW pkt \in Packet, SendToBroker(c, pkt)
    PROVE  /\ toBroker' \in [Clients -> Seq(Packet)]
           /\ losses' \in 0..MaxLoss
           /\ \/ toBroker' = toBroker
              \/ toBroker' = [toBroker EXCEPT ![c] = Append(@, pkt)]
           /\ \A d \in Clients : \A k \in DOMAIN toBroker'[d] :
                  \/ k \in DOMAIN toBroker[d] /\ toBroker'[d][k] = toBroker[d][k]
                  \/ d = c /\ toBroker'[d][k] = pkt
<1>1. toBroker \in [Clients -> Seq(Packet)] /\ losses \in 0..MaxLoss
  BY DEF TypeOK
<1>2. CASE toBroker' = toBroker /\ losses < MaxLoss /\ losses' = losses + 1
  BY <1>1, <1>2
<1>3. CASE toBroker' = [toBroker EXCEPT ![c] = Append(@, pkt)] /\ losses' = losses
  <2>1. toBroker' \in [Clients -> Seq(Packet)]
    BY <1>1, <1>3
  <2> QED
    BY <1>1, <1>3, <2>1
<1> QED
  BY <1>2, <1>3 DEF SendToBroker

\* What the broker reads is no longer on its way, and nothing else is changed.
LEMMA ReadByBroker ==
    ASSUME TypeOK, NEW c \in Clients, NEW k \in Receivable(toBroker[c]),
           toBroker' = [toBroker EXCEPT ![c] = Without(@, k)]
    PROVE  /\ k \in DOMAIN toBroker[c] /\ toBroker[c][k] \in Packet
           /\ toBroker' \in [Clients -> Seq(Packet)]
           /\ \A d \in Clients : \A j \in DOMAIN toBroker'[d] :
                  \E i \in DOMAIN toBroker[d] : toBroker'[d][j] = toBroker[d][i]
<1>1. toBroker \in [Clients -> Seq(Packet)]
  BY DEF TypeOK
<1>2. k \in DOMAIN toBroker[c] /\ toBroker[c][k] \in Packet
  BY <1>1 DEF Receivable
<1>3. /\ Without(toBroker[c], k) \in Seq(Packet)
      /\ \A j \in DOMAIN Without(toBroker[c], k) :
             \E i \in DOMAIN toBroker[c] : Without(toBroker[c], k)[j] = toBroker[c][i]
  BY <1>1, <1>2, WithoutKeepsTheRest
<1> QED
  BY <1>1, <1>2, <1>3

\* The same of what a client reads.
LEMMA ReadByClient ==
    ASSUME TypeOK, NEW c \in Clients, NEW k \in Receivable(inbox[c]),
           inbox' = [inbox EXCEPT ![c] = Without(@, k)]
    PROVE  /\ k \in DOMAIN inbox[c] /\ inbox[c][k] \in Packet
           /\ inbox' \in [Clients -> Seq(Packet)]
           /\ \A d \in Clients : \A j \in DOMAIN inbox'[d] :
                  \E i \in DOMAIN inbox[d] : inbox'[d][j] = inbox[d][i]
<1>1. inbox \in [Clients -> Seq(Packet)]
  BY DEF TypeOK
<1>2. k \in DOMAIN inbox[c] /\ inbox[c][k] \in Packet
  BY <1>1 DEF Receivable
<1>3. /\ Without(inbox[c], k) \in Seq(Packet)
      /\ \A j \in DOMAIN Without(inbox[c], k) :
             \E i \in DOMAIN inbox[c] : Without(inbox[c], k)[j] = inbox[c][i]
  BY <1>1, <1>2, WithoutKeepsTheRest
<1> QED
  BY <1>1, <1>2, <1>3

\* What the broker sends is put at the end of the receiver's queue, or lost.
LEMMA SentToClients ==
    ASSUME TypeOK, NEW pkts, IsFiniteSet(DOMAIN pkts),
           \A c \in DOMAIN pkts : pkts[c] \in Packet,
           SendToClients(pkts)
    PROVE  /\ inbox' \in [Clients -> Seq(Packet)]
           /\ losses' \in 0..MaxLoss
           /\ \A c \in Clients :
                  \/ inbox'[c] = inbox[c]
                  \/ c \in DOMAIN pkts /\ inbox'[c] = Append(inbox[c], pkts[c])
           /\ \A c \in Clients : \A k \in DOMAIN inbox'[c] :
                  \/ k \in DOMAIN inbox[c] /\ inbox'[c][k] = inbox[c][k]
                  \/ c \in DOMAIN pkts /\ inbox'[c][k] = pkts[c]
<1>1. inbox \in [Clients -> Seq(Packet)] /\ losses \in 0..MaxLoss
  BY DEF TypeOK
<1>2. PICK lost \in SUBSET DOMAIN pkts :
          /\ losses + Cardinality(lost) <= MaxLoss
          /\ losses' = losses + Cardinality(lost)
          /\ inbox' = [c \in Clients |-> IF c \in DOMAIN pkts \ lost /\ Open(c)
                                         THEN Append(inbox[c], pkts[c])
                                         ELSE inbox[c]]
  BY DEF SendToClients
<1>3. Cardinality(lost) \in Nat
  BY FS_Subset, FS_CardinalityType
<1>4. losses' \in 0..MaxLoss
  BY <1>1, <1>2, <1>3
<1>5. inbox' \in [Clients -> Seq(Packet)]
  BY <1>1, <1>2
<1>6. \A c \in Clients :
          \/ inbox'[c] = inbox[c]
          \/ c \in DOMAIN pkts /\ inbox'[c] = Append(inbox[c], pkts[c])
  BY <1>2
<1>7. ASSUME NEW c \in Clients, NEW k \in DOMAIN inbox'[c]
      PROVE  \/ k \in DOMAIN inbox[c] /\ inbox'[c][k] = inbox[c][k]
             \/ c \in DOMAIN pkts /\ inbox'[c][k] = pkts[c]
  BY <1>1, <1>6
<1> QED
  BY <1>4, <1>5, <1>6, <1>7

------------------------------------------------------------------------------
(* Lemmas about the invariant                                              *)

\* Connection numbers are kept, and publishers, broker and subscribers only
\* ever have more behind them.
Later ==
    /\ cid' = cid /\ handled \subseteq handled'
    /\ \A p \in Pubs : num[p] <= num'[p]
    /\ \A s \in Subs : Printed(s) \subseteq Printed(s)'

\* So that what a datagram or an entry says stays true until it is read.
LEMMA StillTrue ==
    ASSUME TypeOK, TypeOK', Later
    PROVE  /\ \A c \in Clients, pkt \in Packet : FromClient(c, pkt) => FromClient(c, pkt)'
           /\ \A c \in Clients, pkt \in Packet : FromBroker(c, pkt) => FromBroker(c, pkt)'
           /\ \A slot \in Slot : Entry(slot) => Entry(slot)'
<1>1. ASSUME NEW p \in Pubs, NEW pkt \in Packet, FromPublisher(p, pkt)
      PROVE  FromPublisher(p, pkt)'
  <2>1. num[p] \in Nat /\ num'[p] \in Nat /\ num[p] <= num'[p]
    BY SMTT(30) DEF TypeOK, Later
  <2> QED
    BY <1>1, <2>1 DEF FromPublisher
<1>2. ASSUME NEW s \in Subs, NEW pkt \in Packet, FromSubscriber(s, pkt)
      PROVE  FromSubscriber(s, pkt)'
  <2>1. cid' = cid /\ Printed(s) \subseteq Printed(s)'
    BY DEF Later
  <2> QED
    BY <1>2, <2>1 DEF FromSubscriber
<1>3. handled \subseteq handled' /\ cid' = cid
  BY DEF Later
<1>4. \A pkt : Carries(pkt) => Carries(pkt)'
  BY <1>3 DEF Carries
<1>5. \A c \in Clients, pkt \in Packet : FromBroker(c, pkt) => FromBroker(c, pkt)'
  BY <1>3, <1>4 DEF FromBroker
<1>6. \A slot \in Slot : Entry(slot) => Entry(slot)'
  BY <1>3, <1>4 DEF Entry
<1> QED
  BY <1>1, <1>2, <1>5, <1>6 DEF FromClient

\* The datagrams to the broker are those of before and new ones that are true.
LEMMA ToBrokerStep ==
    ASSUME TypeOK, TypeOK', Later, ToBrokerInv,
           \A d \in Clients : \A k \in DOMAIN toBroker'[d] :
               \/ \E i \in DOMAIN toBroker[d] : toBroker'[d][k] = toBroker[d][i]
               \/ \E pkt \in Packet : toBroker'[d][k] = pkt /\ FromClient(d, pkt)'
    PROVE  ToBrokerInv'
<1> SUFFICES ASSUME NEW d \in Clients, NEW k \in DOMAIN toBroker'[d]
             PROVE  \A pkt : pkt = toBroker'[d][k] => FromClient(d, pkt)'
  BY DEF ToBrokerInv
<1>1. toBroker \in [Clients -> Seq(Packet)]
  BY DEF TypeOK
<1>2. CASE \E pkt \in Packet : toBroker'[d][k] = pkt /\ FromClient(d, pkt)'
  BY <1>2
<1>3. ASSUME NEW i \in DOMAIN toBroker[d], toBroker'[d][k] = toBroker[d][i]
      PROVE  \A pkt : pkt = toBroker'[d][k] => FromClient(d, pkt)'
  <2>1. toBroker[d][i] \in Packet
    BY <1>1
  <2>2. FromClient(d, toBroker[d][i])
    BY DEF ToBrokerInv
  <2>3. \A pkt : pkt = toBroker[d][i] => FromClient(d, pkt)'
    BY <2>1, <2>2, StillTrue
  <2> QED
    BY <1>3, <2>3
<1> QED
  BY <1>2, <1>3

\* The same of the datagrams to the clients.
LEMMA InboxStep ==
    ASSUME TypeOK, TypeOK', Later, InboxInv,
           \A d \in Clients : \A k \in DOMAIN inbox'[d] :
               \/ \E i \in DOMAIN inbox[d] : inbox'[d][k] = inbox[d][i]
               \/ \E pkt \in Packet : inbox'[d][k] = pkt /\ FromBroker(d, pkt)'
    PROVE  InboxInv'
<1> SUFFICES ASSUME NEW d \in Clients, NEW k \in DOMAIN inbox'[d]
             PROVE  \A pkt : pkt = inbox'[d][k] => FromBroker(d, pkt)'
  BY DEF InboxInv
<1>1. inbox \in [Clients -> Seq(Packet)]
  BY DEF TypeOK
<1>2. CASE \E pkt \in Packet : inbox'[d][k] = pkt /\ FromBroker(d, pkt)'
  BY <1>2
<1>3. ASSUME NEW i \in DOMAIN inbox[d], inbox'[d][k] = inbox[d][i]
      PROVE  \A pkt : pkt = inbox'[d][k] => FromBroker(d, pkt)'
  <2>1. inbox[d][i] \in Packet
    BY <1>1
  <2>2. FromBroker(d, inbox[d][i])
    BY DEF InboxInv
  <2>3. \A pkt : pkt = inbox[d][i] => FromBroker(d, pkt)'
    BY <2>1, <2>2, StillTrue
  <2> QED
    BY <1>3, <2>3
<1> QED
  BY <1>2, <1>3

\* The same of subs[].
LEMMA TableStep ==
    ASSUME TypeOK, TypeOK', Later, TableInv,
           \A k \in DOMAIN subs' :
               \/ \E i \in DOMAIN subs : subs'[k] = subs[i]
               \/ \E slot \in Slot : subs'[k] = slot /\ Entry(slot)'
    PROVE  TableInv'
<1> SUFFICES ASSUME NEW k \in DOMAIN subs'
             PROVE  \A slot : slot = subs'[k] => Entry(slot)'
  BY DEF TableInv
<1>1. CASE \E slot \in Slot : subs'[k] = slot /\ Entry(slot)'
  BY <1>1
<1>2. ASSUME NEW i \in DOMAIN subs, subs'[k] = subs[i]
      PROVE  \A slot : slot = subs'[k] => Entry(slot)'
  <2>1. subs[i] \in Slot
    BY DEF TypeOK
  <2>2. Entry(subs[i])
    BY DEF TableInv
  <2>3. \A slot : slot = subs[i] => Entry(slot)'
    BY <2>1, <2>2, StillTrue
  <2> QED
    BY <1>2, <2>3
<1> QED
  BY <1>1, <1>2

\* The packets the programs make.
LEMMA PacketsMade ==
    ASSUME TypeOK
    PROVE  /\ \A c \in Clients : Handshake(c) \in Packet
           /\ \A p \in Pubs : num[p] \in FirstEvent..LastEvent => Data(p) \in Packet
           /\ \A pkt \in Packet :
                  /\ Ack(pkt) \in Packet /\ Ack(pkt).type = "ack"
                  /\ Ack(pkt).cid = pkt.cid /\ Ack(pkt).num = pkt.num
                  /\ Ack(pkt).stream = pkt.stream
           /\ \A slot \in Slot, pkt \in Packet :
                  /\ Forwarded(slot, pkt) \in Packet
                  /\ Forwarded(slot, pkt).type = pkt.type
                  /\ Forwarded(slot, pkt).stream = pkt.stream
                  /\ Forwarded(slot, pkt).num = pkt.num
                  /\ Forwarded(slot, pkt).event = pkt.event
<1>1. cid \in [Clients -> ConnIds]
  BY DEF TypeOK
<1>2. \A c \in Clients : Handshake(c) \in Packet
  BY <1>1 DEF Handshake, Packet
<1>3. \A p \in Pubs : num[p] \in FirstEvent..LastEvent => Data(p) \in Packet
  BY <1>1 DEF Data, Packet, AllEvents
<1>4. \A pkt \in Packet :
          /\ Ack(pkt) \in Packet /\ Ack(pkt).type = "ack"
          /\ Ack(pkt).cid = pkt.cid /\ Ack(pkt).num = pkt.num
          /\ Ack(pkt).stream = pkt.stream
  BY DEF Ack, Packet
<1>5. ASSUME NEW slot \in Slot, NEW pkt \in Packet
      PROVE  /\ Forwarded(slot, pkt) \in Packet
             /\ Forwarded(slot, pkt).type = pkt.type
             /\ Forwarded(slot, pkt).stream = pkt.stream
             /\ Forwarded(slot, pkt).num = pkt.num
             /\ Forwarded(slot, pkt).event = pkt.event
  BY DEF Forwarded, Packet, Slot
<1> QED
  BY <1>2, <1>3, <1>4, <1>5

------------------------------------------------------------------------------
(* The steps of a publisher                                                *)

\* The loop of send_with_retx goes round or gives up; the packet is the same.
LEMMA TryAgainStep ==
    ASSUME TypeOK, NEW p \in Pubs, ppc[p] = "wait", TryAgain(p)
    PROVE  /\ ppc' \in [Pubs -> {"send", "wait", "done", "aborted"}]
           /\ num' = num /\ attempt' \in [Pubs -> 0..PubRetries]
           /\ \A q \in Pubs : ppc'[q] \in {"send", "wait"} => ppc[q] \in {"send", "wait"}
<1>1. /\ ppc \in [Pubs -> {"send", "wait", "done", "aborted"}]
      /\ attempt \in [Pubs -> 0..PubRetries]
  BY DEF TypeOK
<1>2. CASE attempt[p] < PubRetries
  BY <1>1, <1>2 DEF TryAgain
<1>3. CASE ~(attempt[p] < PubRetries)
  BY <1>1, <1>3 DEF TryAgain
<1> QED
  BY <1>2, <1>3

\* The packet is acknowledged and the next one is sent, if there is one.
LEMMA NextPacketStep ==
    ASSUME TypeOK, NEW p \in Pubs, num[p] <= LastEvent, NextPacket(p)
    PROVE  /\ ppc' \in [Pubs -> {"send", "wait", "done", "aborted"}]
           /\ num' \in [Pubs -> 1..(LastEvent + 1)]
           /\ attempt' \in [Pubs -> 0..PubRetries]
           /\ num'[p] = num[p] + 1 /\ \A q \in Pubs : q # p => num'[q] = num[q]
           /\ \A q \in Pubs : num[q] <= num'[q]
           /\ ppc'[p] \in {"send", "wait"} => num'[p] <= LastEvent
           /\ \A q \in Pubs : q # p => ppc'[q] = ppc[q]
<1>1. /\ ppc \in [Pubs -> {"send", "wait", "done", "aborted"}]
      /\ attempt \in [Pubs -> 0..PubRetries]
      /\ num \in [Pubs -> 1..(LastEvent + 1)]
  BY DEF TypeOK
<1>2. num' = [num EXCEPT ![p] = @ + 1] /\ attempt' = [attempt EXCEPT ![p] = 0]
  BY DEF NextPacket
<1>3. ppc' = [ppc EXCEPT ![p] = IF num[p] = LastEvent THEN "done" ELSE "send"]
  BY DEF NextPacket
<1> QED
  BY <1>1, <1>2, <1>3

LEMMA PubSendInv ==
    ASSUME Inv, NEW p \in Pubs, PubSend(p)
    PROVE  Inv'
<1> DEFINE pkt == IF num[p] = 1 THEN Handshake(p) ELSE Data(p)
<1>1. /\ TypeOK /\ ToBrokerInv /\ InboxInv /\ TableInv /\ ProgressInv
      /\ AcknowledgedIsHandled
  BY DEF Inv
<1>2. /\ ppc[p] = "send" /\ SendToBroker(p, pkt)
      /\ ppc' = [ppc EXCEPT ![p] = "wait"]
      /\ UNCHANGED <<cid, num, attempt, subVars, brokerVars, inbox>>
  BY DEF PubSend
<1>3. num[p] \in 1..LastEvent
  BY <1>1, <1>2 DEF TypeOK, ProgressInv
<1>4. pkt \in Packet
  BY <1>1, <1>3, PacketsMade
<1>5. FromClient(p, pkt)
  <2>1. FromPublisher(p, pkt)
    BY <1>3 DEF FromPublisher, Handshake, Data
  <2> QED
    BY <2>1 DEF FromClient
<1> HIDE DEF pkt
<1>6. TypeOK'
  <2>1. toBroker' \in [Clients -> Seq(Packet)] /\ losses' \in 0..MaxLoss
    BY <1>1, <1>2, <1>4, SentToBroker
  <2> QED
    BY <1>1, <1>2, <2>1 DEF TypeOK, subVars, brokerVars, runVars
<1>7. Later
  BY <1>1, <1>2 DEF Later, TypeOK, subVars, brokerVars, Printed
<1>8. ToBrokerInv'
  <2>1. \A d \in Clients : \A k \in DOMAIN toBroker'[d] :
            \/ k \in DOMAIN toBroker[d] /\ toBroker'[d][k] = toBroker[d][k]
            \/ d = p /\ toBroker'[d][k] = pkt
    BY <1>1, <1>2, <1>4, SentToBroker
  <2>2. \A new \in Packet : new = pkt => FromClient(p, new)'
    BY <1>1, <1>4, <1>5, <1>6, <1>7, StillTrue
  <2> QED
    BY <1>1, <1>4, <1>6, <1>7, <2>1, <2>2, ToBrokerStep
<1>9. InboxInv' /\ TableInv'
  BY <1>1, <1>2, <1>6, <1>7, InboxStep, TableStep DEF brokerVars
<1>10. ProgressInv' /\ AcknowledgedIsHandled'
  BY <1>1, <1>2 DEF ProgressInv, AcknowledgedIsHandled, Printed, TypeOK,
                    subVars, brokerVars
<1> QED
  BY <1>6, <1>8, <1>9, <1>10 DEF Inv

LEMMA PubRecvInv ==
    ASSUME Inv, NEW p \in Pubs, PubRecv(p)
    PROVE  Inv'
<1>1. /\ TypeOK /\ ToBrokerInv /\ InboxInv /\ TableInv /\ ProgressInv
      /\ AcknowledgedIsHandled
  BY DEF Inv
<1>2. PICK k \in Receivable(inbox[p]) :
          /\ inbox' = [inbox EXCEPT ![p] = Without(@, k)]
          /\ IF Acknowledges(p, inbox[p][k]) THEN NextPacket(p) ELSE TryAgain(p)
  BY DEF PubRecv
<1>3. ppc[p] = "wait" /\ UNCHANGED <<cid, subVars, brokerVars, toBroker, losses>>
  BY DEF PubRecv
<1>4. num[p] \in 1..LastEvent
  BY <1>1, <1>3 DEF TypeOK, ProgressInv
<1>5. /\ k \in DOMAIN inbox[p] /\ inbox[p][k] \in Packet
      /\ inbox' \in [Clients -> Seq(Packet)]
      /\ \A d \in Clients : \A j \in DOMAIN inbox'[d] :
             \E i \in DOMAIN inbox[d] : inbox'[d][j] = inbox[d][i]
  BY <1>1, <1>2, ReadByClient
<1>6. /\ ppc' \in [Pubs -> {"send", "wait", "done", "aborted"}]
      /\ num' \in [Pubs -> 1..(LastEvent + 1)]
      /\ attempt' \in [Pubs -> 0..PubRetries]
      /\ \A q \in Pubs : num[q] <= num'[q]
      /\ \A q \in Pubs : ppc'[q] \in {"send", "wait"} => num'[q] <= LastEvent
  <2>1. CASE Acknowledges(p, inbox[p][k])
    <3>1. NextPacket(p)
      BY <1>2, <2>1
    <3> QED
      BY <1>1, <1>4, <3>1, NextPacketStep DEF ProgressInv
  <2>2. CASE ~Acknowledges(p, inbox[p][k])
    <3>1. TryAgain(p)
      BY <1>2, <2>2
    <3> QED
      BY SMTT(30), <1>1, <1>3, <3>1, TryAgainStep DEF ProgressInv, TypeOK
  <2> QED
    BY <2>1, <2>2
<1>7. TypeOK'
  BY <1>1, <1>3, <1>5, <1>6 DEF TypeOK, subVars, brokerVars, runVars
<1>8. Later
  BY <1>3, <1>6 DEF Later, subVars, brokerVars, Printed
<1>9. ToBrokerInv' /\ InboxInv' /\ TableInv'
  BY <1>1, <1>3, <1>5, <1>7, <1>8, ToBrokerStep, InboxStep, TableStep DEF brokerVars
<1>10. ProgressInv'
  <2>1. \A e \in handled : e[1] \in Pubs /\ e[2] \in Nat
    BY SMTT(30), <1>1 DEF TypeOK, AllEvents
  <2>2. \A e \in handled : e[2] <= num'[e[1]]
    <3>1. \A q \in Pubs : num[q] \in Nat /\ num'[q] \in Nat
      BY SMTT(30), <1>1, <1>6 DEF TypeOK
    <3>2. \A e \in handled : e[2] <= num[e[1]]
      BY <1>1 DEF ProgressInv
    <3> QED
      BY <1>6, <2>1, <3>1, <3>2
  <2> QED
    BY <1>1, <1>3, <1>6, <2>2 DEF ProgressInv, subVars, brokerVars, Printed
<1>11. AcknowledgedIsHandled'
  <2>1. CASE Acknowledges(p, inbox[p][k])
    <3>1. num'[p] = num[p] + 1 /\ \A q \in Pubs : q # p => num'[q] = num[q]
      BY <1>1, <1>2, <1>4, <2>1, NextPacketStep
    <3>2. num[p] # 1 => <<p, num[p]>> \in handled
      <4>1. FromBroker(p, inbox[p][k])
        BY <1>1, <1>5 DEF InboxInv
      <4> QED
        BY <2>1, <4>1 DEF Acknowledges, FromBroker, Carries
    <3>3. ASSUME NEW q \in Pubs, NEW n \in FirstEvent..LastEvent, n < num'[q]
          PROVE  <<q, n>> \in handled
      <4>1. CASE n < num[q]
        BY <1>1, <4>1 DEF AcknowledgedIsHandled
      <4>2. CASE ~(n < num[q])
        <5>1. q = p /\ n = num[p] /\ num[p] # 1
          BY <1>4, <3>1, <3>3, <4>2
        <5> QED
          BY <3>2, <5>1
      <4> QED
        BY <4>1, <4>2
    <3>4. handled' = handled
      BY <1>3 DEF brokerVars
    <3> QED
      BY <3>3, <3>4 DEF AcknowledgedIsHandled
  <2>2. CASE ~Acknowledges(p, inbox[p][k])
    <3>1. num' = num
      BY <1>1, <1>2, <1>3, <2>2, TryAgainStep
    <3> QED
      BY <1>1, <1>3, <3>1 DEF AcknowledgedIsHandled, brokerVars
  <2> QED
    BY <2>1, <2>2
<1> QED
  BY <1>7, <1>9, <1>10, <1>11 DEF Inv

\* A wait that ends with nothing, whatever ends it.
LEMMA WaitEndsInv ==
    ASSUME Inv, NEW p \in Pubs, ppc[p] = "wait", TryAgain(p),
           UNCHANGED <<cid, subVars, brokerVars, toBroker, inbox, losses>>
    PROVE  Inv'
<1>1. /\ TypeOK /\ ToBrokerInv /\ InboxInv /\ TableInv /\ ProgressInv
      /\ AcknowledgedIsHandled
  BY DEF Inv
<1>2. /\ ppc[p] = "wait" /\ TryAgain(p)
      /\ UNCHANGED <<cid, subVars, brokerVars, toBroker, inbox, losses>>
  OBVIOUS
<1>3. /\ ppc' \in [Pubs -> {"send", "wait", "done", "aborted"}]
      /\ num' = num /\ attempt' \in [Pubs -> 0..PubRetries]
      /\ \A q \in Pubs : ppc'[q] \in {"send", "wait"} => ppc[q] \in {"send", "wait"}
  BY <1>1, <1>2, TryAgainStep
<1>4. TypeOK'
  BY <1>1, <1>2, <1>3 DEF TypeOK, subVars, brokerVars, runVars
<1>5. Later
  BY <1>1, <1>2, <1>3 DEF Later, subVars, brokerVars, Printed, TypeOK
<1>6. ToBrokerInv' /\ InboxInv' /\ TableInv'
  BY <1>1, <1>2, <1>4, <1>5, ToBrokerStep, InboxStep, TableStep DEF brokerVars
<1>7. ProgressInv' /\ AcknowledgedIsHandled'
  BY <1>1, <1>2, <1>3 DEF ProgressInv, AcknowledgedIsHandled, subVars, brokerVars, Printed
<1> QED
  BY <1>4, <1>6, <1>7 DEF Inv

LEMMA PubTimeoutInv ==
    ASSUME Inv, NEW p \in Pubs, PubTimeout(p)
    PROVE  Inv'
BY WaitEndsInv DEF PubTimeout

------------------------------------------------------------------------------
(* The steps of a subscriber                                               *)

LEMMA SubscribeInv ==
    ASSUME Inv, NEW s \in Subs, Subscribe(s)
    PROVE  Inv'
<1> DEFINE pkt == Handshake(s)
<1>1. /\ TypeOK /\ ToBrokerInv /\ InboxInv /\ TableInv /\ ProgressInv
      /\ AcknowledgedIsHandled
  BY DEF Inv
<1>2. /\ SendToBroker(s, pkt)
      /\ spc' = [spc EXCEPT ![s] = "listen"]
      /\ UNCHANGED <<cid, pubVars, got, brokerVars, inbox>>
  BY DEF Subscribe
<1>3. pkt \in Packet
  BY <1>1, PacketsMade
<1>4. FromClient(s, pkt)
  <2>1. s \notin Pubs
    OBVIOUS
  <2>2. FromSubscriber(s, pkt)
    BY DEF FromSubscriber, Handshake
  <2> QED
    BY <2>1, <2>2 DEF FromClient
<1> HIDE DEF pkt
<1>5. TypeOK'
  <2>1. toBroker' \in [Clients -> Seq(Packet)] /\ losses' \in 0..MaxLoss
    BY <1>1, <1>2, <1>3, SentToBroker
  <2>2. spc' \in [Subs -> {"start", "listen", "gone"}]
    BY <1>1, <1>2 DEF TypeOK
  <2> QED
    BY <1>1, <1>2, <2>1, <2>2 DEF TypeOK, pubVars, brokerVars, runVars
<1>6. Later
  BY <1>1, <1>2 DEF Later, TypeOK, pubVars, brokerVars, Printed
<1>7. ToBrokerInv'
  <2>1. \A d \in Clients : \A k \in DOMAIN toBroker'[d] :
            \/ k \in DOMAIN toBroker[d] /\ toBroker'[d][k] = toBroker[d][k]
            \/ d = s /\ toBroker'[d][k] = pkt
    BY <1>1, <1>2, <1>3, SentToBroker
  <2>2. \A new \in Packet : new = pkt => FromClient(s, new)'
    BY <1>1, <1>3, <1>4, <1>5, <1>6, StillTrue
  <2> QED
    BY <1>1, <1>3, <1>5, <1>6, <2>1, <2>2, ToBrokerStep
<1>8. InboxInv' /\ TableInv'
  BY <1>1, <1>2, <1>5, <1>6, InboxStep, TableStep DEF brokerVars
<1>9. ProgressInv' /\ AcknowledgedIsHandled'
  BY <1>1, <1>2 DEF ProgressInv, AcknowledgedIsHandled, Printed, pubVars, brokerVars
<1> QED
  BY <1>5, <1>7, <1>8, <1>9 DEF Inv

\* What s prints is added to what it has printed.
LEMMA PrintedStep ==
    ASSUME TypeOK, NEW s \in Subs, NEW e \in AllEvents,
           got' = [got EXCEPT ![s] = Append(@, e)]
    PROVE  /\ got' \in [Subs -> Seq(AllEvents)]
           /\ Printed(s)' = Printed(s) \cup {e}
           /\ \A r \in Subs : r # s => Printed(r)' = Printed(r)
<1>1. got \in [Subs -> Seq(AllEvents)]
  BY DEF TypeOK
<1>2. got' \in [Subs -> Seq(AllEvents)]
  BY <1>1
<1>3. /\ DOMAIN got'[s] = DOMAIN got[s] \cup {Len(got[s]) + 1}
      /\ got'[s][Len(got[s]) + 1] = e
      /\ \A k \in DOMAIN got[s] : got'[s][k] = got[s][k]
  BY <1>1
<1>4. Printed(s)' = Printed(s) \cup {e}
  BY <1>3 DEF Printed
<1>5. \A r \in Subs : r # s => Printed(r)' = Printed(r)
  BY <1>1 DEF Printed
<1> QED
  BY <1>2, <1>4, <1>5

LEMMA SubRecvInv ==
    ASSUME Inv, NEW s \in Subs, SubRecv(s)
    PROVE  Inv'
<1>1. /\ TypeOK /\ ToBrokerInv /\ InboxInv /\ TableInv /\ ProgressInv
      /\ AcknowledgedIsHandled
  BY DEF Inv
<1>2. PICK k \in Receivable(inbox[s]) :
          /\ inbox' = [inbox EXCEPT ![s] = Without(@, k)]
          /\ IF inbox[s][k].cid = cid[s] /\ inbox[s][k].type = "data"
             THEN /\ got' = [got EXCEPT ![s] = Append(@, inbox[s][k].event)]
                  /\ SendToBroker(s, Ack(inbox[s][k]))
             ELSE UNCHANGED <<got, toBroker, losses>>
  BY DEF SubRecv
<1>3. UNCHANGED <<cid, pubVars, spc, brokerVars>>
  BY DEF SubRecv
<1>4. /\ k \in DOMAIN inbox[s] /\ inbox[s][k] \in Packet
      /\ inbox' \in [Clients -> Seq(Packet)]
      /\ \A d \in Clients : \A j \in DOMAIN inbox'[d] :
             \E i \in DOMAIN inbox[d] : inbox'[d][j] = inbox[d][i]
  BY <1>1, <1>2, ReadByClient
<1>5. CASE inbox[s][k].cid = cid[s] /\ inbox[s][k].type = "data"
  <2> DEFINE ack == Ack(inbox[s][k])
             e == inbox[s][k].event
  <2>1. /\ got' = [got EXCEPT ![s] = Append(@, e)]
        /\ SendToBroker(s, ack)
    BY <1>2, <1>5
  <2>2. FromBroker(s, inbox[s][k])
    BY <1>1, <1>4 DEF InboxInv
  <2>3. e \in handled /\ e \in AllEvents /\ e[2] = inbox[s][k].num
    BY <1>1, <1>5, <2>2 DEF FromBroker, Carries, TypeOK
  <2>4. /\ ack \in Packet /\ ack.type = "ack" /\ ack.cid = cid[s]
        /\ ack.num = inbox[s][k].num
    BY <1>1, <1>4, <1>5, PacketsMade
  <2> HIDE DEF ack, e
  <2>5. /\ got' \in [Subs -> Seq(AllEvents)]
        /\ Printed(s)' = Printed(s) \cup {e}
        /\ \A r \in Subs : r # s => Printed(r)' = Printed(r)
    BY <1>1, <2>1, <2>3, PrintedStep
  <2>6. TypeOK'
    <3>1. toBroker' \in [Clients -> Seq(Packet)] /\ losses' \in 0..MaxLoss
      BY <1>1, <2>1, <2>4, SentToBroker
    <3> QED
      BY <1>1, <1>3, <1>4, <2>5, <3>1 DEF TypeOK, pubVars, brokerVars, runVars
  <2>7. Later
    <3>1. \A r \in Subs : Printed(r) \subseteq Printed(r)'
      BY <2>5
    <3> QED
      BY <1>1, <1>3, <3>1 DEF Later, TypeOK, pubVars, brokerVars
  <2>8. ToBrokerInv'
    <3>1. \A d \in Clients : \A j \in DOMAIN toBroker'[d] :
              \/ j \in DOMAIN toBroker[d] /\ toBroker'[d][j] = toBroker[d][j]
              \/ d = s /\ toBroker'[d][j] = ack
      BY <1>1, <2>1, <2>4, SentToBroker
    <3>2. ASSUME NEW new \in Packet, new = ack
          PROVE  FromClient(s, new)'
      <4>1. new.type = "ack" /\ new.cid = cid'[s]
        BY <1>3, <2>4, <3>2
      <4>2. e \in Printed(s)' /\ e[2] = new.num
        BY <2>3, <2>4, <2>5, <3>2
      <4>3. s \notin Pubs
        OBVIOUS
      <4>4. FromSubscriber(s, new)'
        BY <4>1, <4>2 DEF FromSubscriber
      <4> QED
        BY <4>3, <4>4 DEF FromClient
    <3> QED
      BY <1>1, <2>4, <2>6, <2>7, <3>1, <3>2, ToBrokerStep
  <2>9. InboxInv' /\ TableInv'
    BY <1>1, <1>3, <1>4, <2>6, <2>7, InboxStep, TableStep DEF brokerVars
  <2>10. ProgressInv'
    <3>1. \A r \in Subs : Printed(r)' \subseteq handled
      BY <1>1, <2>3, <2>5 DEF ProgressInv
    <3> QED
      BY <1>1, <1>3, <3>1 DEF ProgressInv, pubVars, brokerVars
  <2>11. AcknowledgedIsHandled'
    BY <1>1, <1>3 DEF AcknowledgedIsHandled, pubVars, brokerVars
  <2> QED
    BY <2>6, <2>8, <2>9, <2>10, <2>11 DEF Inv
<1>6. CASE ~(inbox[s][k].cid = cid[s] /\ inbox[s][k].type = "data")
  <2>1. UNCHANGED <<got, toBroker, losses>>
    BY <1>2, <1>6
  <2>2. TypeOK'
    BY <1>1, <1>3, <1>4, <2>1 DEF TypeOK, pubVars, brokerVars, runVars
  <2>3. Later
    BY <1>1, <1>3, <2>1 DEF Later, TypeOK, pubVars, brokerVars, Printed
  <2>4. ToBrokerInv' /\ InboxInv' /\ TableInv'
    BY <1>1, <1>3, <1>4, <2>1, <2>2, <2>3, ToBrokerStep, InboxStep, TableStep
       DEF brokerVars
  <2>5. ProgressInv' /\ AcknowledgedIsHandled'
    BY <1>1, <1>3, <2>1 DEF ProgressInv, AcknowledgedIsHandled, Printed, pubVars, brokerVars
  <2> QED
    BY <2>2, <2>4, <2>5 DEF Inv
<1> QED
  BY <1>5, <1>6

LEMMA SubQuitInv ==
    ASSUME Inv, NEW s \in Subs, SubQuit(s)
    PROVE  Inv'
<1>1. /\ TypeOK /\ ToBrokerInv /\ InboxInv /\ TableInv /\ ProgressInv
      /\ AcknowledgedIsHandled
  BY DEF Inv
<1>2. /\ spc' = [spc EXCEPT ![s] = "gone"]
      /\ inbox' = [inbox EXCEPT ![s] = <<>>]
      /\ UNCHANGED <<cid, pubVars, got, brokerVars, toBroker, losses>>
  BY DEF SubQuit
<1>3. /\ inbox' \in [Clients -> Seq(Packet)]
      /\ \A d \in Clients : \A j \in DOMAIN inbox'[d] :
             \E i \in DOMAIN inbox[d] : inbox'[d][j] = inbox[d][i]
  BY <1>1, <1>2 DEF TypeOK
<1>4. TypeOK'
  <2>1. spc' \in [Subs -> {"start", "listen", "gone"}]
    BY <1>1, <1>2 DEF TypeOK
  <2> QED
    BY <1>1, <1>2, <1>3, <2>1 DEF TypeOK, pubVars, brokerVars, runVars
<1>5. Later
  BY <1>1, <1>2 DEF Later, TypeOK, pubVars, brokerVars, Printed
<1>6. ToBrokerInv' /\ InboxInv' /\ TableInv'
  BY <1>1, <1>2, <1>3, <1>4, <1>5, ToBrokerStep, InboxStep, TableStep DEF brokerVars
<1>7. ProgressInv' /\ AcknowledgedIsHandled'
  BY <1>1, <1>2 DEF ProgressInv, AcknowledgedIsHandled, Printed, pubVars, brokerVars
<1> QED
  BY <1>4, <1>6, <1>7 DEF Inv

------------------------------------------------------------------------------
(* The steps of the broker                                                 *)

\* One datagram to one client: what is new on a path to a client is that.
LEMMA OneSent ==
    ASSUME TypeOK, NEW c, NEW pkt \in Packet, SendToClients([d \in {c} |-> pkt])
    PROVE  /\ inbox' \in [Clients -> Seq(Packet)] /\ losses' \in 0..MaxLoss
           /\ \A d \in Clients : \A j \in DOMAIN inbox'[d] :
                  \/ j \in DOMAIN inbox[d] /\ inbox'[d][j] = inbox[d][j]
                  \/ d = c /\ inbox'[d][j] = pkt
<1> DEFINE pkts == [d \in {c} |-> pkt]
<1>1. IsFiniteSet(DOMAIN pkts)
  BY FS_Singleton
<1>2. \A d \in DOMAIN pkts : pkts[d] = pkt /\ d = c
  OBVIOUS
<1> HIDE DEF pkts
<1>3. SendToClients(pkts)
  BY DEF pkts
<1>4. \A d \in DOMAIN pkts : pkts[d] \in Packet
  BY <1>2
<1>5. /\ inbox' \in [Clients -> Seq(Packet)] /\ losses' \in 0..MaxLoss
      /\ \A d \in Clients : \A j \in DOMAIN inbox'[d] :
             \/ j \in DOMAIN inbox[d] /\ inbox'[d][j] = inbox[d][j]
             \/ d \in DOMAIN pkts /\ inbox'[d][j] = pkts[d]
  BY <1>1, <1>3, <1>4, SentToClients
<1> QED
  BY <1>2, <1>5

\* It is put at the end of that path.
LEMMA OneAppended ==
    ASSUME TypeOK, NEW c, NEW pkt \in Packet, SendToClients([d \in {c} |-> pkt])
    PROVE  \A d \in Clients : \/ inbox'[d] = inbox[d]
                              \/ d = c /\ inbox'[d] = Append(inbox[d], pkt)
<1> DEFINE pkts == [d \in {c} |-> pkt]
<1>1. \A d \in DOMAIN pkts : pkts[d] = pkt /\ d = c
  OBVIOUS
<1> HIDE DEF pkts
<1>2. SendToClients(pkts)
  BY DEF pkts
<1> QED
  BY <1>1, <1>2 DEF SendToClients

LEMMA BrokerHandshakeInv ==
    ASSUME Inv, NEW c \in Clients, BrokerHandshake(c)
    PROVE  Inv'
<1>1. /\ TypeOK /\ ToBrokerInv /\ InboxInv /\ TableInv /\ ProgressInv
      /\ AcknowledgedIsHandled
  BY DEF Inv
<1>2. PICK k \in Receivable(toBroker[c]) :
          /\ toBroker[c][k].type = "handshake"
          /\ toBroker' = [toBroker EXCEPT ![c] = Without(@, k)]
          /\ subs' = IF /\ toBroker[c][k].stream = 0 /\ ~Already(toBroker[c][k].cid)
                        /\ Len(subs) < MaxSubs
                     THEN Append(subs, NewSlot(c, toBroker[c][k]))
                     ELSE subs
          /\ SendToClients([d \in {c} |-> Ack(toBroker[c][k])])
          /\ UNCHANGED <<cid, pubVars, subVars, runVars, handled>>
  BY DEF BrokerHandshake
<1> DEFINE pkt == toBroker[c][k]
           ack == Ack(pkt)
           slot == NewSlot(c, pkt)
<1>3. /\ pkt \in Packet /\ k \in DOMAIN toBroker[c]
      /\ toBroker' \in [Clients -> Seq(Packet)]
      /\ \A d \in Clients : \A j \in DOMAIN toBroker'[d] :
             \E i \in DOMAIN toBroker[d] : toBroker'[d][j] = toBroker[d][i]
  BY <1>1, <1>2, ReadByBroker
<1>4. FromClient(c, pkt)
  BY <1>1, <1>3 DEF ToBrokerInv
<1>5. c \in Pubs => ack.stream = 99
  BY <1>1, <1>2, <1>3, <1>4, PacketsMade DEF FromClient, FromPublisher
<1>6. pkt.stream = 0 => c \in Subs /\ pkt.cid = cid[c]
  BY <1>2, <1>4 DEF FromClient, FromPublisher, FromSubscriber
<1>7. slot \in Slot /\ slot.cid = pkt.cid /\ slot.addr = c /\ slot.busy = FALSE
  BY <1>3 DEF NewSlot, Slot, Packet
<1>8. ack \in Packet /\ ack.type = "ack" /\ SendToClients([d \in {c} |-> ack])
  BY <1>1, <1>2, <1>3, PacketsMade
<1>9. \/ subs' = subs
      \/ pkt.stream = 0 /\ Len(subs) < MaxSubs /\ subs' = Append(subs, slot)
  BY <1>2
<1> HIDE DEF pkt, ack, slot
<1>10. /\ inbox' \in [Clients -> Seq(Packet)] /\ losses' \in 0..MaxLoss
       /\ \A d \in Clients : \A j \in DOMAIN inbox'[d] :
              \/ j \in DOMAIN inbox[d] /\ inbox'[d][j] = inbox[d][j]
              \/ d = c /\ inbox'[d][j] = ack
  <2>1. TypeOK
    BY <1>1
  <2>2. ack \in Packet /\ SendToClients([d \in {c} |-> ack])
    BY <1>8
  <2> QED
    BY ZenonT(60), <2>1, <2>2, OneSent
<1>11. /\ subs' \in Seq(Slot) /\ Len(subs') <= MaxSubs
       /\ \A i \in DOMAIN subs' :
              \/ \E j \in DOMAIN subs : subs'[i] = subs[j]
              \/ pkt.stream = 0 /\ subs'[i] = slot
  <2>1. subs \in Seq(Slot) /\ Len(subs) <= MaxSubs
    BY <1>1 DEF TypeOK
  <2>2. CASE subs' = subs
    BY <2>1, <2>2
  <2>3. CASE pkt.stream = 0 /\ Len(subs) < MaxSubs /\ subs' = Append(subs, slot)
    <3>1. /\ subs' \in Seq(Slot) /\ Len(subs') = Len(subs) + 1
          /\ subs'[Len(subs) + 1] = slot
          /\ \A i \in 1..Len(subs) : subs'[i] = subs[i]
      BY <1>7, <2>1, <2>3
    <3>2. DOMAIN subs = 1..Len(subs) /\ DOMAIN subs' = 1..(Len(subs) + 1)
      BY <2>1, <3>1
    <3> QED
      BY <2>1, <2>3, <3>1, <3>2
  <2> QED
    BY <1>9, <2>2, <2>3
<1>12. TypeOK'
  BY <1>1, <1>2, <1>3, <1>10, <1>11 DEF TypeOK, pubVars, subVars, runVars
<1>13. Later
  BY <1>1, <1>2 DEF Later, TypeOK, pubVars, subVars, Printed
<1>14. ToBrokerInv'
  BY <1>1, <1>3, <1>12, <1>13, ToBrokerStep
<1>15. InboxInv'
  <2>1. \A new \in Packet : new = ack => FromBroker(c, new)'
    BY <1>5, <1>8 DEF FromBroker
  <2> QED
    BY <1>1, <1>8, <1>10, <1>12, <1>13, <2>1, InboxStep
<1>16. TableInv'
  <2>1. ASSUME NEW new \in Slot, new = slot, pkt.stream = 0
        PROVE  Entry(new)'
    BY <1>2, <1>6, <1>7, <2>1 DEF Entry
  <2> QED
    BY <1>1, <1>7, <1>11, <1>12, <1>13, <2>1, TableStep
<1>17. ProgressInv' /\ AcknowledgedIsHandled'
  BY <1>1, <1>2 DEF ProgressInv, AcknowledgedIsHandled, Printed, pubVars, subVars
<1> QED
  BY <1>12, <1>14, <1>15, <1>16, <1>17 DEF Inv

LEMMA AddresseesFinite ==
    ASSUME TypeOK
    PROVE  IsFiniteSet({subs[i].addr : i \in DOMAIN subs})
<1> DEFINE to == {subs[i].addr : i \in DOMAIN subs}
           addr == [i \in 1..Len(subs) |-> subs[i].addr]
<1>1. Len(subs) \in Nat /\ DOMAIN subs = 1..Len(subs)
  BY DEF TypeOK
<1>2. IsFiniteSet(1..Len(subs))
  BY <1>1, FS_Interval
<1>3. addr \in Surjection(1..Len(subs), to)
  BY <1>1 DEF Surjection
<1> QED
  BY <1>2, <1>3, FS_Surjection

\* An entry is given the packet that is forwarded, and is otherwise the same.
LEMMA OutstandingSlot ==
    ASSUME TypeOK, NEW slot \in Slot, NEW pkt \in Packet
    PROVE  /\ Outstanding(slot, pkt) \in Slot
           /\ Outstanding(slot, pkt).addr = slot.addr
           /\ Outstanding(slot, pkt).cid = slot.cid
           /\ Outstanding(slot, pkt).out = Forwarded(slot, pkt)
<1> DEFINE out == Forwarded(slot, pkt)
<1>1. Outstanding(slot, pkt) = [slot EXCEPT !.busy = TRUE, !.out = out, !.retries = 0]
  BY DEF Outstanding
<1>2. out \in Packet
  BY PacketsMade
<1> HIDE DEF out
<1>3. PICK half \in Slot : /\ half = [slot EXCEPT !.busy = TRUE, !.out = out]
                          /\ half.addr = slot.addr /\ half.cid = slot.cid
                          /\ half.out = out
  <2>1. [slot EXCEPT !.busy = TRUE, !.out = out] \in Slot
    BY <1>2 DEF Slot
  <2>2. /\ [slot EXCEPT !.busy = TRUE, !.out = out].addr = slot.addr
        /\ [slot EXCEPT !.busy = TRUE, !.out = out].cid = slot.cid
        /\ [slot EXCEPT !.busy = TRUE, !.out = out].out = out
    BY DEF Slot
  <2> QED
    BY <2>1, <2>2
<1>4. Outstanding(slot, pkt) = [half EXCEPT !.retries = 0]
  BY <1>1, <1>3
<1>5. /\ [half EXCEPT !.retries = 0] \in Slot
      /\ [half EXCEPT !.retries = 0].addr = half.addr
      /\ [half EXCEPT !.retries = 0].cid = half.cid
      /\ [half EXCEPT !.retries = 0].out = half.out
  BY DEF Slot
<1> QED
  BY <1>3, <1>4, <1>5 DEF out

LEMMA BrokerDataInv ==
    ASSUME Inv, NEW p \in Pubs, BrokerData(p)
    PROVE  Inv'
<1> DEFINE to == {subs[i].addr : i \in DOMAIN subs}
           slotOf(s) == subs[CHOOSE i \in DOMAIN subs : subs[i].addr = s]
<1>1. /\ TypeOK /\ ToBrokerInv /\ InboxInv /\ TableInv /\ ProgressInv
      /\ AcknowledgedIsHandled
  BY DEF Inv
<1>2. PICK k \in Receivable(toBroker[p]) :
          /\ toBroker[p][k].type = "data"
          /\ toBroker' = [toBroker EXCEPT ![p] = Without(@, k)]
          /\ subs' = [i \in DOMAIN subs |-> Outstanding(subs[i], toBroker[p][k])]
          /\ handled' = handled \cup {toBroker[p][k].event}
          /\ SendToClients([c \in {p} \cup to |->
                               IF c = p THEN Ack(toBroker[p][k])
                               ELSE Forwarded(slotOf(c), toBroker[p][k])])
          /\ UNCHANGED <<cid, pubVars, subVars, runVars>>
  BY DEF BrokerData
<1> DEFINE pkt == toBroker[p][k]
           pkts == [c \in {p} \cup to |-> IF c = p THEN Ack(pkt) ELSE Forwarded(slotOf(c), pkt)]
<1>3. /\ pkt \in Packet /\ k \in DOMAIN toBroker[p]
      /\ toBroker' \in [Clients -> Seq(Packet)]
      /\ \A d \in Clients : \A j \in DOMAIN toBroker'[d] :
             \E i \in DOMAIN toBroker[d] : toBroker'[d][j] = toBroker[d][i]
  BY <1>1, <1>2, ReadByBroker
<1>4. /\ pkt.type = "data" /\ pkt.stream = 5
      /\ pkt.num \in FirstEvent..num[p] /\ pkt.event = <<p, pkt.num>>
  <2>1. FromClient(p, pkt)
    BY <1>1, <1>3 DEF ToBrokerInv
  <2> QED
    BY <1>2, <2>1 DEF FromClient, FromPublisher
<1>5. pkt.num \in FirstEvent..LastEvent /\ pkt.event \in AllEvents
  <2>1. pkt.num \in 1..LastEvent
    BY <1>3 DEF Packet
  <2> QED
    BY <1>4, <2>1 DEF AllEvents
<1>6. \A c \in to : slotOf(c) \in Slot /\ slotOf(c).addr = c /\ c \in Subs
  BY <1>1 DEF TypeOK, TableInv, Entry
<1>7. \A i \in DOMAIN subs : subs[i] \in Slot /\ Entry(subs[i])
  BY <1>1 DEF TypeOK, TableInv
<1>8. /\ \A c \in DOMAIN pkts : pkts[c] \in Packet /\ pkts[c].num = pkt.num
      /\ pkts[p].type = "ack" /\ pkts[p].stream = 5
      /\ \A c \in DOMAIN pkts : c # p => /\ c \in Subs
                                         /\ pkts[c].type = "data" /\ pkts[c].stream = 5
                                         /\ pkts[c].event = pkt.event
  <2>1. pkts[p] = Ack(pkt) /\ DOMAIN pkts = {p} \cup to
    OBVIOUS
  <2>2. \A c \in to : c # p => pkts[c] = Forwarded(slotOf(c), pkt)
    OBVIOUS
  <2> HIDE DEF pkts, pkt, slotOf, to
  <2>3. pkts[p] \in Packet /\ pkts[p].num = pkt.num /\ pkts[p].type = "ack" /\ pkts[p].stream = 5
    BY <1>1, <1>3, <1>4, <2>1, PacketsMade
  <2>4. ASSUME NEW c \in to, c # p
        PROVE  /\ pkts[c] \in Packet /\ pkts[c].num = pkt.num
               /\ c \in Subs /\ pkts[c].type = "data" /\ pkts[c].stream = 5
               /\ pkts[c].event = pkt.event
    BY <1>1, <1>3, <1>4, <1>6, <2>2, <2>4, PacketsMade
  <2> QED
    BY <2>1, <2>3, <2>4
<1>9. IsFiniteSet(DOMAIN pkts)
  BY <1>1, AddresseesFinite, FS_Singleton, FS_Union
<1>10. SendToClients(pkts)
  BY <1>2
<1>11. \A i \in DOMAIN subs : /\ Outstanding(subs[i], pkt) \in Slot
                              /\ Outstanding(subs[i], pkt).addr = subs[i].addr
                              /\ Outstanding(subs[i], pkt).cid = subs[i].cid
                              /\ Outstanding(subs[i], pkt).out = Forwarded(subs[i], pkt)
  BY <1>1, <1>3, <1>7, OutstandingSlot
<1>12. subs' = [i \in DOMAIN subs |-> Outstanding(subs[i], pkt)]
  BY <1>2
<1>13. /\ handled' = handled \cup {pkt.event} /\ UNCHANGED <<cid, pubVars, subVars, runVars>>
  BY <1>2
<1> HIDE DEF pkts, pkt, slotOf, to
<1>14. /\ inbox' \in [Clients -> Seq(Packet)] /\ losses' \in 0..MaxLoss
       /\ \A c \in Clients : \A j \in DOMAIN inbox'[c] :
              \/ j \in DOMAIN inbox[c] /\ inbox'[c][j] = inbox[c][j]
              \/ c \in DOMAIN pkts /\ inbox'[c][j] = pkts[c]
  BY <1>1, <1>8, <1>9, <1>10, SentToClients
<1>15. subs' \in Seq(Slot) /\ Len(subs') = Len(subs) /\ DOMAIN subs' = DOMAIN subs
  <2>1. subs \in Seq(Slot) /\ DOMAIN subs = 1..Len(subs)
    BY <1>1 DEF TypeOK
  <2> QED
    BY <1>11, <1>12, <2>1
<1>16. TypeOK'
  BY <1>1, <1>3, <1>5, <1>13, <1>14, <1>15 DEF TypeOK, pubVars, subVars, runVars
<1>17. Later
  BY <1>1, <1>13 DEF Later, TypeOK, pubVars, subVars, Printed
<1>18. ToBrokerInv'
  BY <1>1, <1>3, <1>16, <1>17, ToBrokerStep
<1>19. InboxInv'
  <2>1. ASSUME NEW c \in Clients, c \in DOMAIN pkts, NEW new \in Packet, new = pkts[c]
        PROVE  FromBroker(c, new)'
    <3>1. pkt.event \in handled' /\ pkt.event = <<p, pkt.num>> /\ pkt.event[2] = pkt.num
      BY <1>4, <1>13
    <3>2. CASE c = p
      BY <1>8, <2>1, <3>1, <3>2 DEF FromBroker
    <3>3. CASE c # p
      BY <1>8, <2>1, <3>1, <3>3 DEF FromBroker, Carries
    <3> QED
      BY <3>2, <3>3
  <2>2. ASSUME NEW c \in Clients, NEW j \in DOMAIN inbox'[c]
        PROVE  \/ \E i \in DOMAIN inbox[c] : inbox'[c][j] = inbox[c][i]
               \/ \E new \in Packet : inbox'[c][j] = new /\ FromBroker(c, new)'
    BY <1>8, <1>14, <2>1
  <2> QED
    BY <1>1, <1>16, <1>17, <2>2, InboxStep
<1>20. TableInv'
  <2>1. ASSUME NEW i \in DOMAIN subs, NEW new \in Slot, new = Outstanding(subs[i], pkt)
        PROVE  Entry(new)'
    <3>1. new.addr \in Subs /\ new.cid = cid'[new.addr]
      BY <1>7, <1>11, <1>13, <2>1 DEF Entry
    <3>2. new.out = Forwarded(subs[i], pkt)
      BY <1>11, <2>1
    <3>3. /\ new.out \in Packet /\ new.out.type = "data" /\ new.out.stream = 5
          /\ new.out.event = pkt.event /\ new.out.num = pkt.num
      BY <1>1, <1>3, <1>4, <1>7, <3>2, PacketsMade
    <3>4. new.out.event \in handled' /\ new.out.event[2] = new.out.num
      BY <1>4, <1>13, <3>3
    <3> QED
      BY <3>1, <3>3, <3>4 DEF Entry, Carries
  <2> QED
    BY <1>1, <1>11, <1>12, <1>15, <1>16, <1>17, <2>1, TableStep
<1>21. ProgressInv'
  <2>1. \A e \in handled' : e[2] <= num[e[1]]
    <3>1. pkt.event[1] = p /\ pkt.event[2] <= num[p]
      BY <1>4
    <3>2. \A e \in handled : e[2] <= num[e[1]]
      BY <1>1 DEF ProgressInv
    <3> QED
      BY <1>13, <3>1, <3>2
  <2>2. \A s \in Subs : Printed(s) \subseteq handled'
    BY <1>1, <1>13 DEF ProgressInv
  <2> QED
    BY <1>1, <1>13, <2>1, <2>2 DEF ProgressInv, pubVars, subVars, Printed
<1>22. AcknowledgedIsHandled'
  BY <1>1, <1>13 DEF AcknowledgedIsHandled, pubVars
<1> QED
  BY <1>16, <1>18, <1>19, <1>20, <1>21, <1>22 DEF Inv

\* An entry that is released is otherwise the same.
LEMMA ReleasedSlot ==
    ASSUME NEW slot \in Slot
    PROVE  LET free == [slot EXCEPT !.busy = FALSE, !.retries = 0]
           IN  /\ free \in Slot
               /\ free.addr = slot.addr /\ free.cid = slot.cid /\ free.busy = FALSE
<1>1. PICK half \in Slot : /\ half = [slot EXCEPT !.busy = FALSE]
                          /\ half.addr = slot.addr /\ half.cid = slot.cid
                          /\ half.busy = FALSE
  <2>1. [slot EXCEPT !.busy = FALSE] \in Slot
    BY DEF Slot
  <2>2. /\ [slot EXCEPT !.busy = FALSE].addr = slot.addr
        /\ [slot EXCEPT !.busy = FALSE].cid = slot.cid
        /\ [slot EXCEPT !.busy = FALSE].busy = FALSE
    BY DEF Slot
  <2> QED
    BY <2>1, <2>2
<1>2. [slot EXCEPT !.busy = FALSE, !.retries = 0] = [half EXCEPT !.retries = 0]
  BY <1>1
<1>3. /\ [half EXCEPT !.retries = 0] \in Slot
      /\ [half EXCEPT !.retries = 0].addr = half.addr
      /\ [half EXCEPT !.retries = 0].cid = half.cid
      /\ [half EXCEPT !.retries = 0].busy = half.busy
  BY DEF Slot
<1> QED
  BY <1>1, <1>2, <1>3

\* An acknowledgement releases the entries it answers, and nothing else.
LEMMA BrokerAckInv ==
    ASSUME Inv, NEW s \in Subs, BrokerAck(s)
    PROVE  Inv'
<1>1. /\ TypeOK /\ ToBrokerInv /\ InboxInv /\ TableInv /\ ProgressInv
      /\ AcknowledgedIsHandled
  BY DEF Inv
<1>2. PICK k \in Receivable(toBroker[s]) :
          /\ toBroker' = [toBroker EXCEPT ![s] = Without(@, k)]
          /\ subs' = [i \in DOMAIN subs |->
                         IF Answers(subs[i], toBroker[s][k])
                         THEN [subs[i] EXCEPT !.busy = FALSE, !.retries = 0]
                         ELSE subs[i]]
          /\ UNCHANGED <<cid, pubVars, subVars, runVars, handled, inbox, losses>>
  BY DEF BrokerAck
<1>3. /\ toBroker' \in [Clients -> Seq(Packet)]
      /\ \A d \in Clients : \A j \in DOMAIN toBroker'[d] :
             \E i \in DOMAIN toBroker[d] : toBroker'[d][j] = toBroker[d][i]
  BY <1>1, <1>2, ReadByBroker
<1>4. UNCHANGED <<cid, pubVars, subVars, runVars, handled, inbox, losses>>
  BY <1>2
<1>5. /\ DOMAIN subs' = DOMAIN subs
      /\ \A i \in DOMAIN subs : subs'[i] \in Slot /\ Entry(subs'[i])
  <2>1. ASSUME NEW i \in DOMAIN subs
        PROVE  subs'[i] \in Slot /\ Entry(subs'[i])
    <3>1. subs[i] \in Slot /\ Entry(subs[i])
      BY <1>1 DEF TypeOK, TableInv
    <3>2. CASE subs'[i] = subs[i]
      BY <3>1, <3>2
    <3>3. CASE subs'[i] = [subs[i] EXCEPT !.busy = FALSE, !.retries = 0]
      <4>1. /\ subs'[i] \in Slot
            /\ subs'[i].addr = subs[i].addr /\ subs'[i].cid = subs[i].cid
            /\ subs'[i].busy = FALSE
        BY <3>1, <3>3, ReleasedSlot
      <4> QED
        BY <3>1, <4>1 DEF Entry
    <3> QED
      BY <1>2, <3>2, <3>3
  <2> QED
    BY <1>2, <2>1
<1>6. subs' \in Seq(Slot) /\ Len(subs') = Len(subs)
  <2>1. subs \in Seq(Slot) /\ DOMAIN subs = 1..Len(subs) /\ Len(subs) \in Nat
    BY <1>1 DEF TypeOK
  <2>2. subs' = [i \in 1..Len(subs) |-> subs'[i]]
    BY <1>2, <2>1
  <2>3. \A i \in 1..Len(subs) : subs'[i] \in Slot
    BY <1>5, <2>1
  <2> QED
    BY <2>1, <2>2, <2>3
<1>7. TypeOK'
  BY <1>1, <1>3, <1>4, <1>6 DEF TypeOK, pubVars, subVars, runVars
<1>8. Later
  BY <1>1, <1>4 DEF Later, TypeOK, pubVars, subVars, Printed
<1>9. ToBrokerInv' /\ InboxInv'
  BY <1>1, <1>3, <1>4, <1>7, <1>8, ToBrokerStep, InboxStep
<1>10. TableInv'
  <2>1. \A slot \in Slot : Entry(slot) => Entry(slot)'
    BY <1>1, <1>7, <1>8, StillTrue
  <2> QED
    BY <1>1, <1>5, <1>7, <1>8, <2>1, TableStep
<1>11. ProgressInv' /\ AcknowledgedIsHandled'
  BY <1>1, <1>4 DEF ProgressInv, AcknowledgedIsHandled, Printed, pubVars, subVars
<1> QED
  BY <1>7, <1>9, <1>10, <1>11 DEF Inv

\* A timer of the broker: the packet of the entry is repeated or released.
LEMMA RetransmitInv ==
    ASSUME Inv, NEW i \in 1..MaxSubs, Retransmit(i)
    PROVE  Inv'
<1> DEFINE slot == subs[i]
           pkt == subs[i].out
<1>1. /\ TypeOK /\ ToBrokerInv /\ InboxInv /\ TableInv /\ ProgressInv
      /\ AcknowledgedIsHandled
  BY DEF Inv
<1>2. /\ i \in DOMAIN subs /\ slot.busy /\ slot.retries < MaxRetries
      /\ SendToClients([c \in {slot.addr} |-> pkt])
      /\ subs' = [subs EXCEPT ![i] = Counted(@)]
      /\ UNCHANGED <<cid, pubVars, subVars, runVars, handled, toBroker>>
  BY DEF Retransmit, Due, RetriesLeft
<1>3. slot \in Slot /\ Entry(slot) /\ slot.addr \in Subs /\ pkt \in Packet /\ Carries(pkt)
  BY <1>1, <1>2 DEF TypeOK, TableInv, Entry
<1>4. /\ Counted(slot) \in Slot
      /\ Counted(slot).addr = slot.addr /\ Counted(slot).cid = slot.cid
      /\ Counted(slot).busy = slot.busy /\ Counted(slot).out = pkt
  <2>1. slot.retries + 1 \in 0..MaxRetries
    BY <1>2, <1>3 DEF Slot
  <2> QED
    BY <1>3, <2>1 DEF Slot, Counted
<1> HIDE DEF slot, pkt
<1>5. /\ inbox' \in [Clients -> Seq(Packet)] /\ losses' \in 0..MaxLoss
      /\ \A d \in Clients : \A j \in DOMAIN inbox'[d] :
             \/ j \in DOMAIN inbox[d] /\ inbox'[d][j] = inbox[d][j]
             \/ d = slot.addr /\ inbox'[d][j] = pkt
  <2>1. TypeOK /\ pkt \in Packet /\ SendToClients([c \in {slot.addr} |-> pkt])
    BY <1>1, <1>2, <1>3
  <2> QED
    BY ZenonT(60), <2>1, OneSent
<1>6. subs' \in Seq(Slot) /\ Len(subs') = Len(subs)
  BY <1>1, <1>2, <1>4 DEF TypeOK, slot
<1>7. TypeOK'
  BY <1>1, <1>2, <1>5, <1>6 DEF TypeOK, pubVars, subVars, runVars
<1>8. Later
  BY <1>1, <1>2 DEF Later, TypeOK, pubVars, subVars, Printed
<1>9. ToBrokerInv'
  BY <1>1, <1>2, <1>7, <1>8, ToBrokerStep
<1>10. InboxInv'
  <2>1. ASSUME NEW d \in Clients, d = slot.addr, NEW new \in Packet, new = pkt
        PROVE  FromBroker(d, new)'
    <3>1. handled' = handled
      BY <1>2
    <3> QED
      BY <1>3, <2>1, <3>1 DEF FromBroker, Carries
  <2> QED
    BY <1>1, <1>3, <1>5, <1>7, <1>8, <2>1, InboxStep
<1>11. TableInv'
  <2>1. \A new \in Slot : new = Counted(slot) => Entry(new)
    BY <1>3, <1>4 DEF Entry, pkt
  <2>2. \A new \in Slot : Entry(new) => Entry(new)'
    BY <1>1, <1>7, <1>8, StillTrue
  <2>3. \A j \in DOMAIN subs' : \/ j \in DOMAIN subs /\ subs'[j] = subs[j]
                                \/ subs'[j] = Counted(slot)
    BY <1>2 DEF slot
  <2> QED
    BY <1>1, <1>4, <1>7, <1>8, <2>1, <2>2, <2>3, TableStep
<1>12. ProgressInv' /\ AcknowledgedIsHandled'
  BY <1>1, <1>2 DEF ProgressInv, AcknowledgedIsHandled, Printed, pubVars, subVars
<1> QED
  BY <1>7, <1>9, <1>10, <1>11, <1>12 DEF Inv

LEMMA GiveUpInv ==
    ASSUME Inv, NEW i \in 1..MaxSubs, GiveUp(i)
    PROVE  Inv'
<1> DEFINE slot == subs[i]
           free == [slot EXCEPT !.busy = FALSE]
<1>1. /\ TypeOK /\ ToBrokerInv /\ InboxInv /\ TableInv /\ ProgressInv
      /\ AcknowledgedIsHandled
  BY DEF Inv
<1>2. /\ i \in DOMAIN subs /\ subs' = [subs EXCEPT ![i] = free]
      /\ UNCHANGED <<cid, pubVars, subVars, runVars, handled, toBroker, inbox, losses>>
  BY DEF GiveUp, Due
<1>3. slot \in Slot /\ Entry(slot)
  BY <1>1, <1>2 DEF TypeOK, TableInv
<1> HIDE DEF slot
<1>4. /\ free \in Slot
      /\ free.addr = slot.addr /\ free.cid = slot.cid /\ free.busy = FALSE
  BY <1>3 DEF Slot
<1> HIDE DEF free
<1>5. Entry(free)
  BY <1>3, <1>4 DEF Entry
<1>6. subs' \in Seq(Slot) /\ Len(subs') = Len(subs)
  BY <1>1, <1>2, <1>4 DEF TypeOK
<1>7. TypeOK'
  BY <1>1, <1>2, <1>6 DEF TypeOK, pubVars, subVars, runVars
<1>8. Later
  BY <1>1, <1>2 DEF Later, TypeOK, pubVars, subVars, Printed
<1>9. ToBrokerInv' /\ InboxInv'
  BY <1>1, <1>2, <1>7, <1>8, ToBrokerStep, InboxStep
<1>10. TableInv'
  <2>1. \A new \in Slot : Entry(new) => Entry(new)'
    BY <1>1, <1>7, <1>8, StillTrue
  <2>2. \A j \in DOMAIN subs' : \/ j \in DOMAIN subs /\ subs'[j] = subs[j]
                                \/ subs'[j] = free
    BY <1>2
  <2> QED
    BY <1>1, <1>4, <1>5, <1>7, <1>8, <2>1, <2>2, TableStep
<1>11. ProgressInv' /\ AcknowledgedIsHandled'
  BY <1>1, <1>2 DEF ProgressInv, AcknowledgedIsHandled, Printed, pubVars, subVars
<1> QED
  BY <1>7, <1>9, <1>10, <1>11 DEF Inv

\* The end and the start of the broker, and what it misses in between.
LEMMA BrokerStopInv ==
    ASSUME Inv, BrokerStop
    PROVE  Inv'
<1>1. /\ TypeOK /\ ToBrokerInv /\ InboxInv /\ TableInv /\ ProgressInv
      /\ AcknowledgedIsHandled
  BY DEF Inv
<1>2. /\ up' = FALSE /\ subs' = <<>>
      /\ UNCHANGED <<cid, pubVars, subVars, boots, handled, toBroker, inbox, losses>>
  BY DEF BrokerStop
<1>3. TypeOK'
  <2>1. subs' \in Seq(Slot) /\ Len(subs') <= MaxSubs
    BY <1>2
  <2> QED
    BY <1>1, <1>2, <2>1 DEF TypeOK, pubVars, subVars
<1>4. Later
  BY <1>1, <1>2 DEF Later, TypeOK, pubVars, subVars, Printed
<1>5. ToBrokerInv' /\ InboxInv' /\ TableInv'
  BY <1>1, <1>2, <1>3, <1>4, ToBrokerStep, InboxStep, TableStep
<1>6. ProgressInv' /\ AcknowledgedIsHandled'
  BY <1>1, <1>2 DEF ProgressInv, AcknowledgedIsHandled, Printed, pubVars, subVars
<1> QED
  BY <1>3, <1>5, <1>6 DEF Inv

LEMMA BrokerStartInv ==
    ASSUME Inv, boots < MaxBoots, BrokerStart
    PROVE  Inv'
<1>1. /\ TypeOK /\ ToBrokerInv /\ InboxInv /\ TableInv /\ ProgressInv
      /\ AcknowledgedIsHandled
  BY DEF Inv
<1>2. /\ up' = TRUE /\ boots' = boots + 1
      /\ UNCHANGED <<cid, pubVars, subVars, subs, handled, toBroker, inbox, losses>>
  BY DEF BrokerStart
<1>3. TypeOK'
  BY <1>1, <1>2 DEF TypeOK, pubVars, subVars
<1>4. Later
  BY <1>1, <1>2 DEF Later, TypeOK, pubVars, subVars, Printed
<1>5. ToBrokerInv' /\ InboxInv' /\ TableInv'
  BY <1>1, <1>2, <1>3, <1>4, ToBrokerStep, InboxStep, TableStep
<1>6. ProgressInv' /\ AcknowledgedIsHandled'
  BY <1>1, <1>2 DEF ProgressInv, AcknowledgedIsHandled, Printed, pubVars, subVars
<1> QED
  BY <1>3, <1>5, <1>6 DEF Inv

LEMMA UnreachableInv ==
    ASSUME Inv, NEW c \in Clients, Unreachable(c)
    PROVE  Inv'
<1>1. /\ TypeOK /\ ToBrokerInv /\ InboxInv /\ TableInv /\ ProgressInv
      /\ AcknowledgedIsHandled
  BY DEF Inv
<1>2. PICK k \in Receivable(toBroker[c]) :
          toBroker' = [toBroker EXCEPT ![c] = Without(@, k)]
  BY DEF Unreachable
<1>3. UNCHANGED <<cid, pubVars, subVars, brokerVars, inbox, losses>>
  BY DEF Unreachable
<1>4. /\ toBroker' \in [Clients -> Seq(Packet)]
      /\ \A d \in Clients : \A j \in DOMAIN toBroker'[d] :
             \E i \in DOMAIN toBroker[d] : toBroker'[d][j] = toBroker[d][i]
  BY <1>1, <1>2, ReadByBroker
<1>5. TypeOK'
  BY <1>1, <1>3, <1>4 DEF TypeOK, pubVars, subVars, brokerVars, runVars
<1>6. Later
  BY <1>1, <1>3 DEF Later, TypeOK, pubVars, subVars, brokerVars, Printed
<1>7. ToBrokerInv' /\ InboxInv' /\ TableInv'
  BY <1>1, <1>3, <1>4, <1>5, <1>6, ToBrokerStep, InboxStep, TableStep DEF brokerVars
<1>8. ProgressInv' /\ AcknowledgedIsHandled'
  BY <1>1, <1>3 DEF ProgressInv, AcknowledgedIsHandled, Printed, pubVars, subVars, brokerVars
<1> QED
  BY <1>5, <1>7, <1>8 DEF Inv

------------------------------------------------------------------------------
(* The invariant of Spec                                                   *)

LEMMA InitInv == Init => Inv /\ BootInv
<1> SUFFICES ASSUME Init PROVE Inv /\ BootInv
  OBVIOUS
<1>1. TypeOK
  BY DEF Init, TypeOK
<1>2. ToBrokerInv /\ InboxInv /\ TableInv
  BY DEF Init, ToBrokerInv, InboxInv, TableInv
<1>3. ProgressInv /\ AcknowledgedIsHandled /\ BootInv
  BY DEF Init, ProgressInv, AcknowledgedIsHandled, BootInv, Printed
<1> QED
  BY <1>1, <1>2, <1>3 DEF Inv

LEMMA NextInv == Inv /\ BootInv /\ [Next]_vars => Inv'
<1> SUFFICES ASSUME Inv, BootInv, [Next]_vars PROVE Inv'
  OBVIOUS
<1>1. ASSUME NEW p \in Pubs, PubSend(p) \/ PubRecv(p) \/ PubTimeout(p)
      PROVE  Inv'
  BY <1>1, PubSendInv, PubRecvInv, PubTimeoutInv
<1>2. ASSUME NEW s \in Subs, Subscribe(s) \/ SubRecv(s) \/ SubQuit(s)
      PROVE  Inv'
  BY <1>2, SubscribeInv, SubRecvInv, SubQuitInv
<1>3. ASSUME NEW c \in Clients, Unreachable(c) \/ BrokerHandshake(c)
      PROVE  Inv'
  BY <1>3, UnreachableInv, BrokerHandshakeInv
<1>4. ASSUME NEW p \in Pubs, BrokerData(p)
      PROVE  Inv'
  BY <1>4, BrokerDataInv
<1>5. ASSUME NEW s \in Subs, BrokerAck(s)
      PROVE  Inv'
  BY <1>5, BrokerAckInv
<1>6. ASSUME NEW i \in 1..MaxSubs, Retransmit(i) \/ GiveUp(i)
      PROVE  Inv'
  BY <1>6, RetransmitInv, GiveUpInv
<1>7. CASE BrokerStop
  BY <1>7, BrokerStopInv
<1>8. CASE BrokerStart
  BY <1>8, BrokerStartInv DEF BrokerStart, BootInv
<1>9. CASE UNCHANGED vars
  <2>1. TypeOK'
    BY <1>9 DEF vars, Inv, TypeOK
  <2>2. ToBrokerInv'
    BY <1>9 DEF vars, Inv, ToBrokerInv, FromClient, FromPublisher, FromSubscriber, Printed
  <2>3. InboxInv' /\ TableInv'
    BY <1>9 DEF vars, Inv, InboxInv, TableInv, FromBroker, Carries, Entry
  <2>4. ProgressInv' /\ AcknowledgedIsHandled'
    BY <1>9 DEF vars, Inv, ProgressInv, AcknowledgedIsHandled, Printed
  <2> QED
    BY <2>1, <2>2, <2>3, <2>4 DEF Inv
<1> QED
  BY <1>1, <1>2, <1>3, <1>4, <1>5, <1>6, <1>7, <1>8, <1>9 DEF Next, BrokerNext

LEMMA NextBootInv == TypeOK /\ BootInv /\ [Next]_vars => BootInv'
<1> SUFFICES ASSUME TypeOK, BootInv, [Next]_vars PROVE BootInv'
  OBVIOUS
<1>1. CASE UNCHANGED <<up, boots>>
  BY <1>1 DEF BootInv
<1>2. CASE BrokerStop
  BY <1>2 DEF BrokerStop, BootInv, TypeOK
<1>3. CASE BrokerStart
  BY <1>3 DEF BrokerStart, BootInv
<1>4. ASSUME NEW p \in Pubs, PubSend(p) \/ PubRecv(p) \/ PubTimeout(p)
      PROVE  UNCHANGED <<up, boots>>
  BY <1>4 DEF PubSend, PubRecv, PubTimeout, brokerVars, runVars
<1>5. ASSUME NEW s \in Subs, Subscribe(s) \/ SubRecv(s) \/ SubQuit(s)
      PROVE  UNCHANGED <<up, boots>>
  BY <1>5 DEF Subscribe, SubRecv, SubQuit, brokerVars, runVars
<1>6. ASSUME NEW c \in Clients, Unreachable(c) \/ BrokerHandshake(c)
      PROVE  UNCHANGED <<up, boots>>
  BY <1>6 DEF Unreachable, BrokerHandshake, brokerVars, runVars
<1>7. ASSUME NEW p \in Pubs, BrokerData(p)
      PROVE  UNCHANGED <<up, boots>>
  BY <1>7 DEF BrokerData, runVars
<1>8. ASSUME NEW s \in Subs, BrokerAck(s)
      PROVE  UNCHANGED <<up, boots>>
  BY <1>8 DEF BrokerAck, runVars
<1>9. ASSUME NEW i \in 1..MaxSubs, Retransmit(i) \/ GiveUp(i)
      PROVE  UNCHANGED <<up, boots>>
  BY <1>9 DEF Retransmit, GiveUp, runVars
<1> QED
  BY <1>1, <1>2, <1>3, <1>4, <1>5, <1>6, <1>7, <1>8, <1>9 DEF Next, BrokerNext, vars

LEMMA InvHolds == Spec => [](Inv /\ BootInv)
<1>1. Inv => TypeOK
  BY DEF Inv
<1> QED
  BY InitInv, NextInv, NextBootInv, <1>1, PTL DEF Spec

\* Every variable keeps its type: the packet numbers, the attempts and the
\* retries stay within their limits whatever the network does.
THEOREM TypeCorrect == Spec => []TypeOK
<1>1. Inv => TypeOK
  BY DEF Inv
<1> QED
  BY InvHolds, <1>1, PTL

\* What a publisher holds for acknowledged the broker has forwarded: an old
\* acknowledgement, one that is repeated or one that is overtaken never passes
\* for that of a packet that was lost, and a restart of the broker changes
\* nothing about it.
THEOREM Acknowledged == Spec => []AcknowledgedIsHandled
<1>1. Inv => AcknowledgedIsHandled
  BY DEF Inv
<1> QED
  BY InvHolds, <1>1, PTL

------------------------------------------------------------------------------
(* subs[] has one entry for a connection                                   *)

\* The steps that only change what entries have outstanding.
SameEntries ==
    /\ DOMAIN subs' = DOMAIN subs
    /\ \A i \in DOMAIN subs : subs'[i].cid = subs[i].cid /\ subs'[i].addr = subs[i].addr

\* Entries are added by a handshake, removed all at once, and never exchanged.
LEMMA EntriesStep ==
    ASSUME Inv, [Next]_vars
    PROVE  \/ SameEntries
           \/ \E c \in Clients : BrokerHandshake(c)
           \/ BrokerStop
<1>1. /\ subs \in Seq(Slot)
      /\ \A i \in DOMAIN subs : subs[i] \in Slot
  BY DEF Inv, TypeOK
<1>2. subs' = subs => SameEntries
  BY DEF SameEntries
<1>3. ASSUME NEW p \in Pubs, PubSend(p) \/ PubRecv(p) \/ PubTimeout(p)
      PROVE  subs' = subs
  BY <1>3 DEF PubSend, PubRecv, PubTimeout, brokerVars
<1>4. ASSUME NEW s \in Subs, Subscribe(s) \/ SubRecv(s) \/ SubQuit(s)
      PROVE  subs' = subs
  BY <1>4 DEF Subscribe, SubRecv, SubQuit, brokerVars
<1>5. ASSUME NEW c \in Clients, Unreachable(c)
      PROVE  subs' = subs
  BY <1>5 DEF Unreachable, brokerVars
<1>6. ASSUME NEW p \in Pubs, BrokerData(p)
      PROVE  SameEntries
  <2>1. PICK k \in Receivable(toBroker[p]) :
            /\ toBroker' = [toBroker EXCEPT ![p] = Without(@, k)]
            /\ subs' = [i \in DOMAIN subs |-> Outstanding(subs[i], toBroker[p][k])]
    BY <1>6 DEF BrokerData
  <2>2. toBroker[p][k] \in Packet /\ TypeOK
    BY <2>1, ReadByBroker DEF Inv
  <2> QED
    BY <1>1, <2>1, <2>2, OutstandingSlot DEF SameEntries
<1>7. ASSUME NEW s \in Subs, BrokerAck(s)
      PROVE  SameEntries
  <2>1. PICK k \in Receivable(toBroker[s]) :
            subs' = [i \in DOMAIN subs |->
                         IF Answers(subs[i], toBroker[s][k])
                         THEN [subs[i] EXCEPT !.busy = FALSE, !.retries = 0]
                         ELSE subs[i]]
    BY <1>7 DEF BrokerAck
  <2>2. ASSUME NEW i \in DOMAIN subs
        PROVE  subs'[i].cid = subs[i].cid /\ subs'[i].addr = subs[i].addr
    <3>1. \/ subs'[i] = subs[i]
          \/ subs'[i] = [subs[i] EXCEPT !.busy = FALSE, !.retries = 0]
      BY <2>1
    <3> QED
      BY <1>1, <3>1, ReleasedSlot
  <2> QED
    BY <2>1, <2>2 DEF SameEntries
<1>8. ASSUME NEW i \in 1..MaxSubs, Retransmit(i)
      PROVE  SameEntries
  <2>1. i \in DOMAIN subs /\ subs' = [subs EXCEPT ![i] = Counted(@)]
    BY <1>8 DEF Retransmit, Due
  <2>2. Counted(subs[i]).cid = subs[i].cid /\ Counted(subs[i]).addr = subs[i].addr
    BY <1>1, <2>1 DEF Counted, Slot
  <2> QED
    BY <1>1, <2>1, <2>2 DEF SameEntries
<1>9. ASSUME NEW i \in 1..MaxSubs, GiveUp(i)
      PROVE  SameEntries
  <2>1. i \in DOMAIN subs /\ subs' = [subs EXCEPT ![i].busy = FALSE]
    BY <1>9 DEF GiveUp, Due
  <2>2. /\ [subs[i] EXCEPT !.busy = FALSE].cid = subs[i].cid
        /\ [subs[i] EXCEPT !.busy = FALSE].addr = subs[i].addr
    BY <1>1, <2>1 DEF Slot
  <2> QED
    BY <1>1, <2>1, <2>2 DEF SameEntries
<1>10. BrokerStart \/ UNCHANGED vars => subs' = subs
  BY DEF BrokerStart, vars
<1> QED
  BY <1>2, <1>3, <1>4, <1>5, <1>6, <1>7, <1>8, <1>9, <1>10 DEF Next, BrokerNext

LEMMA NextOneEntry == Inv /\ OneEntryPerConnection /\ [Next]_vars => OneEntryPerConnection'
<1> SUFFICES ASSUME Inv, OneEntryPerConnection, [Next]_vars
             PROVE  OneEntryPerConnection'
  OBVIOUS
<1>1. CASE SameEntries
  BY <1>1 DEF OneEntryPerConnection, SameEntries
<1>2. ASSUME NEW c \in Clients, BrokerHandshake(c)
      PROVE  OneEntryPerConnection'
  <2>1. PICK k \in Receivable(toBroker[c]) :
            subs' = IF /\ toBroker[c][k].stream = 0 /\ ~Already(toBroker[c][k].cid)
                       /\ Len(subs) < MaxSubs
                    THEN Append(subs, NewSlot(c, toBroker[c][k]))
                    ELSE subs
    BY <1>2 DEF BrokerHandshake
  <2>2. CASE subs' = subs
    BY <2>2 DEF OneEntryPerConnection
  <2>3. CASE subs' # subs
    <3> DEFINE slot == NewSlot(c, toBroker[c][k])
    <3>1. subs' = Append(subs, slot) /\ slot.cid = toBroker[c][k].cid
      BY <2>1, <2>3 DEF NewSlot
    <3>2. \A i \in DOMAIN subs : subs[i].cid # slot.cid
      BY <2>1, <2>3, <3>1 DEF Already
    <3> HIDE DEF slot
    <3>3. subs \in Seq(Slot)
      BY DEF Inv, TypeOK
    <3>4. /\ DOMAIN subs' = DOMAIN subs \cup {Len(subs) + 1}
          /\ subs'[Len(subs) + 1] = slot
          /\ \A i \in DOMAIN subs : subs'[i] = subs[i]
      BY <3>1, <3>3
    <3> QED
      BY <3>2, <3>4 DEF OneEntryPerConnection
  <2> QED
    BY <2>2, <2>3
<1>3. CASE BrokerStop
  BY <1>3 DEF BrokerStop, OneEntryPerConnection
<1> QED
  BY <1>1, <1>2, <1>3, EntriesStep

\* One conn_id has one entry, whoever shakes hands with it and how often.
THEOREM OneEntry == Spec => []OneEntryPerConnection
<1>1. Init => OneEntryPerConnection
  BY DEF Init, OneEntryPerConnection
<1>2. Inv /\ OneEntryPerConnection /\ [Next]_vars => OneEntryPerConnection'
  BY NextOneEntry
<1> QED
  BY <1>1, <1>2, InvHolds, PTL DEF Spec

------------------------------------------------------------------------------
(* Publishers and broker implement the acknowledged relay                  *)

\* The state of the relay, as a function of that of the programs.
RelayAcked == [p \in Pubs |-> IF num[p] < FirstEvent THEN 0 ELSE num[p] - FirstEvent]
RelayHandled == {FromOne(e) : e \in handled}
AllFromOne(events) == [k \in DOMAIN events |-> FromOne(events[k])]
RelayPrinted == [s \in Subs |-> AllFromOne(got[s])]

LEMMA AllFromOneAppend ==
    ASSUME NEW S, NEW events \in Seq(S), NEW e \in S
    PROVE  AllFromOne(Append(events, e)) = Append(AllFromOne(events), FromOne(e))
<1> DEFINE T == {FromOne(x) : x \in S}
           n == Len(events)
<1>1. n \in Nat /\ DOMAIN events = 1..n /\ \A k \in 1..n : events[k] \in S
  OBVIOUS
<1>2. AllFromOne(events) \in Seq(T) /\ Len(AllFromOne(events)) = n
  BY <1>1 DEF AllFromOne
<1>3. /\ DOMAIN Append(events, e) = 1..(n + 1)
      /\ Append(events, e)[n + 1] = e
      /\ \A k \in 1..n : Append(events, e)[k] = events[k]
  BY <1>1
<1>4. FromOne(e) \in T
  OBVIOUS
<1> HIDE DEF T, n
<1>5. /\ AllFromOne(Append(events, e)) = [k \in 1..(n + 1) |-> FromOne(Append(events, e)[k])]
  BY <1>3 DEF AllFromOne
<1>6. /\ Append(AllFromOne(events), FromOne(e)) \in Seq(T)
      /\ DOMAIN Append(AllFromOne(events), FromOne(e)) = 1..(n + 1)
      /\ Append(AllFromOne(events), FromOne(e))[n + 1] = FromOne(e)
      /\ \A k \in 1..n : Append(AllFromOne(events), FromOne(e))[k] = AllFromOne(events)[k]
  BY <1>1, <1>2, <1>4
<1>7. \A k \in 1..n : AllFromOne(events)[k] = FromOne(events[k])
  BY <1>1 DEF AllFromOne
<1>8. \A k \in 1..(n + 1) : Append(AllFromOne(events), FromOne(e))[k] = FromOne(Append(events, e)[k])
  BY <1>1, <1>3, <1>6, <1>7
<1>9. Append(AllFromOne(events), FromOne(e)) =
          [k \in 1..(n + 1) |-> Append(AllFromOne(events), FromOne(e))[k]]
  <2>1. \A seq \in Seq(T) : seq = [k \in DOMAIN seq |-> seq[k]]
    OBVIOUS
  <2> QED
    BY <1>6, <2>1
<1> QED
  BY <1>5, <1>8, <1>9

LEMMA RelayInit == Init => Relay!Init
<1> SUFFICES ASSUME Init PROVE Relay!Init
  OBVIOUS
<1>1. RelayAcked = [p \in Pubs |-> 0]
  BY DEF Init, RelayAcked
<1>2. RelayHandled = {}
  BY DEF Init, RelayHandled
<1>3. RelayPrinted = [s \in Subs |-> <<>>]
  <2>1. AllFromOne(<<>>) = <<>>
    BY DEF AllFromOne
  <2> QED
    BY <2>1 DEF Init, RelayPrinted
<1> QED
  BY <1>1, <1>2, <1>3 DEF Relay!Init, RelayAcked, RelayHandled, RelayPrinted, AllFromOne

\* What touches neither packet numbers nor what is handled or printed.
LEMMA RelayStutters ==
    ASSUME UNCHANGED <<num, handled, got>>
    PROVE  UNCHANGED Relay!vars
BY DEF Relay!vars

\* A publisher that reads the acknowledgement of an event.
LEMMA RelayAcknowledges ==
    ASSUME Inv, NEW p \in Pubs, PubRecv(p)
    PROVE  [Relay!Next]_(Relay!vars)
<1>1. PICK k \in Receivable(inbox[p]) :
          /\ inbox' = [inbox EXCEPT ![p] = Without(@, k)]
          /\ IF Acknowledges(p, inbox[p][k]) THEN NextPacket(p) ELSE TryAgain(p)
  BY DEF PubRecv
<1>2. ppc[p] = "wait" /\ UNCHANGED <<handled, got>>
  BY DEF PubRecv, subVars, brokerVars
<1>3. TypeOK /\ num[p] \in 1..LastEvent
  BY <1>2 DEF Inv, TypeOK, ProgressInv
<1>4. CASE ~Acknowledges(p, inbox[p][k])
  <2>1. num' = num
    BY <1>1, <1>4 DEF TryAgain
  <2> QED
    BY <1>2, <2>1, RelayStutters
<1>5. CASE Acknowledges(p, inbox[p][k]) /\ num[p] < FirstEvent
  <2>1. /\ num' \in [Pubs -> 1..(LastEvent + 1)]
        /\ num'[p] = num[p] + 1 /\ \A q \in Pubs : q # p => num'[q] = num[q]
    BY <1>1, <1>3, <1>5, NextPacketStep
  <2>2. RelayAcked' = RelayAcked
    <3>1. num'[p] - FirstEvent = 0
      BY <1>3, <1>5, <2>1
    <3> QED
      BY <1>5, <2>1, <3>1 DEF RelayAcked
  <2> QED
    BY <1>2, <2>2 DEF Relay!vars, RelayAcked
<1>6. CASE Acknowledges(p, inbox[p][k]) /\ num[p] >= FirstEvent
  <2>1. /\ num' \in [Pubs -> 1..(LastEvent + 1)]
        /\ num'[p] = num[p] + 1 /\ \A q \in Pubs : q # p => num'[q] = num[q]
    BY <1>1, <1>3, <1>6, NextPacketStep
  <2>2. <<p, num[p]>> \in handled
    <3>1. k \in DOMAIN inbox[p]
      BY <1>1, <1>3, ReadByClient
    <3>2. FromBroker(p, inbox[p][k])
      BY <3>1 DEF Inv, InboxInv
    <3> QED
      BY <1>3, <1>6, <3>2 DEF Acknowledges, FromBroker, Carries
  <2>3. RelayAcked[p] \in Nat /\ RelayAcked[p] = num[p] - 2 /\ DOMAIN RelayAcked = Pubs
    BY <1>3, <1>6 DEF RelayAcked
  <2>4. <<p, RelayAcked[p] + 1>> \in RelayHandled
    <3>1. FromOne(<<p, num[p]>>) = <<p, RelayAcked[p] + 1>>
      BY <1>3, <2>3 DEF FromOne
    <3> QED
      BY <2>2, <3>1 DEF RelayHandled
  <2>5. RelayAcked' = [RelayAcked EXCEPT ![p] = @ + 1]
    <3>1. RelayAcked'[p] = RelayAcked[p] + 1
      BY <1>3, <2>1, <2>3 DEF RelayAcked
    <3>2. \A q \in Pubs : q # p => RelayAcked'[q] = RelayAcked[q]
      BY <2>1 DEF RelayAcked
    <3>3. RelayAcked' = [q \in Pubs |-> RelayAcked'[q]]
      BY DEF RelayAcked
    <3> QED
      BY <2>3, <3>1, <3>2, <3>3
  <2>6. Relay!Acknowledge(p)
    BY <1>2, <2>4, <2>5 DEF Relay!Acknowledge, Relay!NextEvent, RelayAcked, RelayHandled
  <2> QED
    BY <2>6 DEF Relay!Next
<1> QED
  BY <1>3, <1>4, <1>5, <1>6

\* The broker that reads an event: the one the publisher is sending, or one it
\* has handled before.
LEMMA RelayHandles ==
    ASSUME Inv, NEW p \in Pubs, BrokerData(p)
    PROVE  [Relay!Next]_(Relay!vars)
<1>1. PICK k \in Receivable(toBroker[p]) :
          /\ toBroker[p][k].type = "data"
          /\ toBroker' = [toBroker EXCEPT ![p] = Without(@, k)]
          /\ handled' = handled \cup {toBroker[p][k].event}
          /\ UNCHANGED <<cid, pubVars, subVars, runVars>>
  BY DEF BrokerData
<1> DEFINE pkt == toBroker[p][k]
<1>2. TypeOK /\ AcknowledgedIsHandled /\ num \in [Pubs -> 1..(LastEvent + 1)]
  BY DEF Inv, TypeOK
<1>3. pkt \in Packet /\ FromClient(p, pkt)
  BY <1>1, <1>2, ReadByBroker DEF Inv, ToBrokerInv
<1>4. /\ pkt.num \in FirstEvent..num[p] /\ pkt.num <= LastEvent
      /\ pkt.event = <<p, pkt.num>>
  BY <1>1, <1>3 DEF FromClient, FromPublisher, Packet
<1>5. UNCHANGED <<num, got>> /\ handled' = handled \cup {pkt.event}
  BY <1>1 DEF pubVars, subVars
<1> HIDE DEF pkt
<1>6. CASE pkt.num < num[p]
  <2>1. pkt.event \in handled
    BY <1>2, <1>4, <1>6 DEF AcknowledgedIsHandled
  <2> QED
    BY <1>5, <2>1, RelayStutters
<1>7. CASE pkt.num = num[p]
  <2>1. RelayAcked[p] = num[p] - 2 /\ RelayAcked[p] < Events
    BY <1>2, <1>4, <1>7 DEF RelayAcked
  <2>2. FromOne(pkt.event) = <<p, RelayAcked[p] + 1>>
    BY <1>2, <1>4, <1>7, <2>1 DEF FromOne
  <2>3. RelayHandled' = RelayHandled \cup {<<p, RelayAcked[p] + 1>>}
    BY <1>5, <2>2 DEF RelayHandled
  <2>4. Relay!Handle(p)
    BY <1>5, <2>1, <2>3 DEF Relay!Handle, Relay!NextEvent, RelayAcked, RelayHandled
  <2> QED
    BY <2>4 DEF Relay!Next
<1> QED
  BY <1>2, <1>4, <1>6, <1>7

\* A subscriber that prints an event.
LEMMA RelayDelivers ==
    ASSUME Inv, NEW s \in Subs, SubRecv(s)
    PROVE  [Relay!Next]_(Relay!vars)
<1>1. PICK k \in Receivable(inbox[s]) :
          /\ inbox' = [inbox EXCEPT ![s] = Without(@, k)]
          /\ \/ UNCHANGED got
             \/ /\ inbox[s][k].type = "data"
                /\ got' = [got EXCEPT ![s] = Append(@, inbox[s][k].event)]
  BY DEF SubRecv
<1>2. UNCHANGED <<num, handled>>
  BY DEF SubRecv, pubVars, brokerVars
<1>3. CASE UNCHANGED got
  BY <1>2, <1>3, RelayStutters
<1>4. CASE /\ inbox[s][k].type = "data"
           /\ got' = [got EXCEPT ![s] = Append(@, inbox[s][k].event)]
  <2> DEFINE e == inbox[s][k].event
  <2>1. TypeOK /\ got \in [Subs -> Seq(AllEvents)] /\ handled \subseteq AllEvents
    BY DEF Inv, TypeOK
  <2>2. k \in DOMAIN inbox[s]
    BY <1>1, <2>1, ReadByClient
  <2>3. e \in handled
    BY <1>4, <2>2 DEF Inv, InboxInv, FromBroker, Carries
  <2>4. got' = [got EXCEPT ![s] = Append(got[s], e)]
    BY <1>4
  <2> HIDE DEF e
  <2>5. RelayPrinted' = [RelayPrinted EXCEPT ![s] = Append(@, FromOne(e))]
    <3>1. AllFromOne(Append(got[s], e)) = Append(AllFromOne(got[s]), FromOne(e))
      BY <2>1, <2>3, AllFromOneAppend
    <3> QED
      BY <2>1, <2>4, <3>1 DEF RelayPrinted
  <2>6. FromOne(e) \in RelayHandled
    BY <2>3 DEF RelayHandled
  <2>7. Relay!Deliver(s)
    BY <1>2, <2>5, <2>6 DEF Relay!Deliver, RelayHandled, RelayPrinted, AllFromOne
  <2> QED
    BY <2>7 DEF Relay!Next
<1> QED
  BY <1>1, <1>3, <1>4

LEMMA RelayNext == Inv /\ [Next]_vars => [Relay!Next]_(Relay!vars)
<1> SUFFICES ASSUME Inv, [Next]_vars PROVE [Relay!Next]_(Relay!vars)
  OBVIOUS
<1>1. CASE UNCHANGED <<num, handled, got>>
  BY <1>1, RelayStutters
<1>2. ASSUME NEW p \in Pubs, PubRecv(p)
      PROVE  [Relay!Next]_(Relay!vars)
  BY <1>2, RelayAcknowledges
<1>3. ASSUME NEW p \in Pubs, BrokerData(p)
      PROVE  [Relay!Next]_(Relay!vars)
  BY <1>3, RelayHandles
<1>4. ASSUME NEW s \in Subs, SubRecv(s)
      PROVE  [Relay!Next]_(Relay!vars)
  BY <1>4, RelayDelivers
<1>5. ASSUME NEW p \in Pubs, PubSend(p) \/ PubTimeout(p)
      PROVE  UNCHANGED <<num, handled, got>>
  BY <1>5 DEF PubSend, PubTimeout, TryAgain, subVars, brokerVars
<1>6. ASSUME NEW s \in Subs, Subscribe(s) \/ SubQuit(s) \/ BrokerAck(s)
      PROVE  UNCHANGED <<num, handled, got>>
  BY <1>6 DEF Subscribe, SubQuit, BrokerAck, pubVars, subVars, brokerVars
<1>7. ASSUME NEW c \in Clients, Unreachable(c) \/ BrokerHandshake(c)
      PROVE  UNCHANGED <<num, handled, got>>
  BY <1>7 DEF Unreachable, BrokerHandshake, pubVars, subVars, brokerVars
<1>8. ASSUME NEW i \in 1..MaxSubs, Retransmit(i) \/ GiveUp(i)
      PROVE  UNCHANGED <<num, handled, got>>
  BY <1>8 DEF Retransmit, GiveUp, pubVars, subVars
<1>9. BrokerStop \/ BrokerStart \/ UNCHANGED vars => UNCHANGED <<num, handled, got>>
  BY DEF BrokerStop, BrokerStart, pubVars, subVars, vars
<1> QED
  BY <1>1, <1>2, <1>3, <1>4, <1>5, <1>6, <1>7, <1>8, <1>9 DEF Next, BrokerNext

\* Publishers and broker implement the acknowledged relay: one event at a time,
\* none left out and none held for acknowledged that was lost, although
\* datagrams are lost, repeated and overtaken and the broker is started again.
THEOREM RelayImplemented == Spec => ImplementsRelay
<1>1. Init => Relay!Init
  BY RelayInit
<1>2. Inv /\ [Next]_vars => [Relay!Next]_(Relay!vars)
  BY RelayNext
<1> QED
  BY <1>1, <1>2, InvHolds, PTL DEF Spec, ImplementsRelay, Relay!Spec

------------------------------------------------------------------------------
(* A path that keeps order                                                 *)

\* Packet a carries no later event than packet b of the same publisher.
Before(a, b) ==
    (a.type = "data" /\ b.type = "data" /\ a.event[1] = b.event[1]) => a.num <= b.num

Ordered(queue) == \A j, k \in DOMAIN queue : j < k => Before(queue[j], queue[k])

\* Packet pkt carries no earlier event than any of a set of events.
NotBehind(pkt, events) ==
    pkt.type = "data" => \A e \in events : e[1] = pkt.event[1] => e[2] <= pkt.num

\* What is on its way to the broker is in order and not behind what the broker
\* has handled; what an entry has outstanding is the last event handled of its
\* publisher; what is on its way to a subscriber is in order and not behind what
\* the subscriber has printed.
ToBrokerOrder ==
    \A p \in Pubs : /\ Ordered(toBroker[p])
                    /\ \A k \in DOMAIN toBroker[p] : NotBehind(toBroker[p][k], handled)

TableOrder == \A i \in DOMAIN subs : subs[i].busy => NotBehind(subs[i].out, handled)

InboxOrder ==
    \A s \in Subs : /\ Ordered(inbox[s])
                    /\ \A k \in DOMAIN inbox[s] : NotBehind(inbox[s][k], Printed(s))

PrintedOrder ==
    \A s \in Subs : \A j, k \in DOMAIN got[s] :
        (j < k /\ got[s][j][1] = got[s][k][1]) => got[s][j][2] <= got[s][k][2]

OrderInv == ToBrokerOrder /\ TableOrder /\ InboxOrder /\ PrintedOrder

\* The first datagram of an ordered queue is taken: the rest is in order and
\* comes after it.
LEMMA OrderedWithout ==
    ASSUME Fifo, NEW queue \in Seq(Packet), Ordered(queue), NEW k \in Receivable(queue)
    PROVE  /\ Ordered(Without(queue, k))
           /\ \A j \in DOMAIN Without(queue, k) :
                  /\ Before(queue[k], Without(queue, k)[j])
                  /\ \E i \in DOMAIN queue : Without(queue, k)[j] = queue[i]
<1> DEFINE rest == Without(queue, k)
<1>1. k = 1 /\ k \in DOMAIN queue
  BY DEF Receivable
<1>2. /\ rest \in Seq(Packet) /\ Len(rest) = Len(queue) - 1
      /\ \A j \in DOMAIN rest : rest[j] = queue[IF j < k THEN j ELSE j + 1]
  BY <1>1, WithoutKeepsTheRest
<1>3. DOMAIN queue = 1..Len(queue) /\ Len(queue) \in Nat /\ DOMAIN rest = 1..(Len(queue) - 1)
  BY <1>2
<1> HIDE DEF rest
<1>4. \A j \in DOMAIN rest : rest[j] = queue[j + 1] /\ j + 1 \in DOMAIN queue /\ 1 < j + 1
  BY <1>1, <1>2, <1>3
<1>5. \A i, j \in DOMAIN rest : i < j => i + 1 < j + 1
  BY <1>3
<1>6. Ordered(rest)
  BY <1>4, <1>5 DEF Ordered
<1>7. \A j \in DOMAIN rest : Before(queue[k], rest[j])
  BY <1>1, <1>4 DEF Ordered
<1> QED
  BY <1>4, <1>6, <1>7 DEF rest

\* A datagram that comes after all of an ordered queue is put at its end.
LEMMA OrderedAppend ==
    ASSUME NEW queue \in Seq(Packet), Ordered(queue), NEW pkt \in Packet,
           \A j \in DOMAIN queue : Before(queue[j], pkt)
    PROVE  /\ Ordered(Append(queue, pkt))
           /\ \A j \in DOMAIN Append(queue, pkt) :
                  \/ j \in DOMAIN queue /\ Append(queue, pkt)[j] = queue[j]
                  \/ Append(queue, pkt)[j] = pkt
<1> DEFINE new == Append(queue, pkt)
           n == Len(queue)
<1>1. /\ n \in Nat /\ DOMAIN queue = 1..n /\ DOMAIN new = 1..(n + 1)
      /\ new[n + 1] = pkt /\ \A j \in 1..n : new[j] = queue[j]
  OBVIOUS
<1> HIDE DEF new, n
<1>2. \A j \in DOMAIN new : (j \in DOMAIN queue /\ new[j] = queue[j]) \/ new[j] = pkt
  BY <1>1
<1>3. ASSUME NEW j \in DOMAIN new, NEW k \in DOMAIN new, j < k
      PROVE  Before(new[j], new[k])
  <2>1. j \in 1..n /\ new[j] = queue[j]
    BY <1>1, <1>3
  <2>2. CASE k \in 1..n
    BY <1>1, <1>3, <2>1, <2>2 DEF Ordered
  <2>3. CASE k = n + 1
    BY <1>1, <2>1, <2>3
  <2> QED
    BY <1>1, <2>2, <2>3
<1> QED
  BY <1>2, <1>3 DEF Ordered, new

\* The order of what is on its way to the broker, while it handles nothing new.
LEMMA ToBrokerOrderStep ==
    ASSUME Fifo, Inv, ToBrokerOrder, UNCHANGED handled,
           \A p \in Pubs :
               \/ toBroker'[p] = toBroker[p]
               \/ \E k \in Receivable(toBroker[p]) : toBroker'[p] = Without(toBroker[p], k)
               \/ \E pkt \in Packet :
                      /\ toBroker'[p] = Append(toBroker[p], pkt)
                      /\ pkt.type = "data" => pkt.event = <<p, num[p]>> /\ pkt.num = num[p]
    PROVE  ToBrokerOrder'
<1> SUFFICES ASSUME NEW p \in Pubs
             PROVE  /\ Ordered(toBroker'[p])
                    /\ \A k \in DOMAIN toBroker'[p] : NotBehind(toBroker'[p][k], handled)
  BY DEF ToBrokerOrder
<1>1. /\ toBroker[p] \in Seq(Packet) /\ Ordered(toBroker[p])
      /\ \A k \in DOMAIN toBroker[p] : NotBehind(toBroker[p][k], handled)
  BY DEF Inv, TypeOK, ToBrokerOrder
<1>2. CASE toBroker'[p] = toBroker[p]
  BY <1>1, <1>2
<1>3. CASE \E k \in Receivable(toBroker[p]) : toBroker'[p] = Without(toBroker[p], k)
  <2>1. PICK k \in Receivable(toBroker[p]) : toBroker'[p] = Without(toBroker[p], k)
    BY <1>3
  <2> QED
    BY <1>1, <2>1, OrderedWithout
<1>4. ASSUME NEW pkt \in Packet, toBroker'[p] = Append(toBroker[p], pkt),
             pkt.type = "data" => pkt.event = <<p, num[p]>> /\ pkt.num = num[p]
      PROVE  /\ Ordered(toBroker'[p])
             /\ \A k \in DOMAIN toBroker'[p] : NotBehind(toBroker'[p][k], handled)
  <2>1. \A e \in handled : e[2] <= num[e[1]]
    BY DEF Inv, ProgressInv
  <2>2. NotBehind(pkt, handled)
    BY <1>4, <2>1 DEF NotBehind
  <2>3. ASSUME NEW j \in DOMAIN toBroker[p]
        PROVE  Before(toBroker[p][j], pkt)
    <3>1. FromPublisher(p, toBroker[p][j])
      BY DEF Inv, ToBrokerInv, FromClient
    <3>2. num[p] \in Nat
      BY DEF Inv, TypeOK
    <3>3. toBroker[p][j].type = "data" => toBroker[p][j].num <= num[p]
      BY <3>1, <3>2 DEF FromPublisher
    <3> QED
      BY <1>4, <3>3 DEF Before
  <2> QED
    BY <1>1, <1>4, <2>2, <2>3, OrderedAppend
<1> QED
  BY <1>2, <1>3, <1>4

\* The order of what is on its way to the subscribers, while they print nothing.
LEMMA InboxOrderStep ==
    ASSUME Fifo, Inv, InboxOrder, PrintedOrder, UNCHANGED got,
           \A s \in Subs :
               \/ inbox'[s] = inbox[s]
               \/ inbox'[s] = <<>>
               \/ \E k \in Receivable(inbox[s]) : inbox'[s] = Without(inbox[s], k)
               \/ \E pkt \in Packet :
                      inbox'[s] = Append(inbox[s], pkt) /\ NotBehind(pkt, handled)
    PROVE  InboxOrder' /\ PrintedOrder'
<1>1. PrintedOrder'
  BY DEF PrintedOrder
<1>2. ASSUME NEW s \in Subs
      PROVE  /\ Ordered(inbox'[s])
             /\ \A k \in DOMAIN inbox'[s] : NotBehind(inbox'[s][k], Printed(s))
  <2>1. /\ inbox[s] \in Seq(Packet) /\ Ordered(inbox[s])
        /\ \A k \in DOMAIN inbox[s] : NotBehind(inbox[s][k], Printed(s))
    BY DEF Inv, TypeOK, InboxOrder
  <2>2. CASE inbox'[s] = inbox[s]
    BY <2>1, <2>2
  <2>3. CASE inbox'[s] = <<>>
    BY <2>3 DEF Ordered
  <2>4. CASE \E k \in Receivable(inbox[s]) : inbox'[s] = Without(inbox[s], k)
    <3>1. PICK k \in Receivable(inbox[s]) : inbox'[s] = Without(inbox[s], k)
      BY <2>4
    <3> QED
      BY <2>1, <3>1, OrderedWithout
  <2>5. ASSUME NEW pkt \in Packet, inbox'[s] = Append(inbox[s], pkt), NotBehind(pkt, handled)
        PROVE  /\ Ordered(inbox'[s])
               /\ \A k \in DOMAIN inbox'[s] : NotBehind(inbox'[s][k], Printed(s))
    <3>1. Printed(s) \subseteq handled
      BY DEF Inv, ProgressInv
    <3>2. NotBehind(pkt, Printed(s))
      BY <2>5, <3>1 DEF NotBehind
    <3>3. ASSUME NEW j \in DOMAIN inbox[s]
          PROVE  Before(inbox[s][j], pkt)
      <4>1. FromBroker(s, inbox[s][j])
        BY DEF Inv, InboxInv
      <4>2. inbox[s][j].type = "data" =>
                /\ inbox[s][j].event \in handled
                /\ inbox[s][j].event[2] = inbox[s][j].num
        BY <4>1 DEF FromBroker, Carries
      <4> QED
        BY <2>5, <4>2 DEF Before, NotBehind
    <3> QED
      BY <2>1, <2>5, <3>2, <3>3, OrderedAppend
  <2> QED
    BY <2>2, <2>3, <2>4, <2>5
<1>3. \A s \in Subs : Printed(s)' = Printed(s)
  BY DEF Printed
<1> QED
  BY <1>1, <1>2, <1>3 DEF InboxOrder

\* The entries, while nothing new is handled or given to them.
LEMMA TableOrderStep ==
    ASSUME TableOrder, UNCHANGED handled,
           \A k \in DOMAIN subs' : subs'[k].busy =>
               \E i \in DOMAIN subs : subs[i].busy /\ subs'[k].out = subs[i].out
    PROVE  TableOrder'
BY DEF TableOrder, NotBehind

LEMMA PublisherOrder ==
    ASSUME Fifo, Inv, OrderInv, NEW p \in Pubs, PubSend(p) \/ PubRecv(p) \/ PubTimeout(p)
    PROVE  OrderInv'
<1>1. /\ TypeOK /\ ToBrokerOrder /\ TableOrder /\ InboxOrder /\ PrintedOrder
      /\ toBroker \in [Clients -> Seq(Packet)] /\ inbox \in [Clients -> Seq(Packet)]
  BY DEF Inv, OrderInv, TypeOK
<1>2. UNCHANGED <<subs, handled, got>>
  BY DEF PubSend, PubRecv, PubTimeout, subVars, brokerVars
<1>3. TableOrder'
  BY <1>1, <1>2, TableOrderStep
<1>4. \A s \in Subs : inbox'[s] = inbox[s]
  BY <1>1 DEF PubSend, PubRecv, PubTimeout
<1>5. InboxOrder' /\ PrintedOrder'
  BY <1>1, <1>2, <1>4, InboxOrderStep
<1>6. ToBrokerOrder'
  <2>1. CASE PubSend(p)
    <3> DEFINE pkt == IF num[p] = 1 THEN Handshake(p) ELSE Data(p)
    <3>1. ppc[p] = "send" /\ SendToBroker(p, pkt)
      BY <2>1 DEF PubSend
    <3>2. num[p] \in 1..LastEvent
      BY <1>1, <3>1 DEF TypeOK, Inv, ProgressInv
    <3>3. pkt \in Packet
      BY <1>1, <3>2, PacketsMade
    <3>4. pkt.type = "data" => pkt.event = <<p, num[p]>> /\ pkt.num = num[p]
      BY DEF Handshake, Data
    <3> HIDE DEF pkt
    <3>5. toBroker' = toBroker \/ toBroker' = [toBroker EXCEPT ![p] = Append(@, pkt)]
      BY <1>1, <3>1, <3>3, SentToBroker
    <3>6. \A q \in Pubs : \/ toBroker'[q] = toBroker[q]
                          \/ q = p /\ toBroker'[q] = Append(toBroker[q], pkt)
      BY <1>1, <3>5
    <3> QED
      BY <1>1, <1>2, <3>3, <3>4, <3>6, ToBrokerOrderStep
  <2>2. CASE PubRecv(p) \/ PubTimeout(p)
    <3>1. toBroker' = toBroker
      BY <2>2 DEF PubRecv, PubTimeout
    <3> QED
      BY <1>1, <1>2, <3>1, ToBrokerOrderStep
  <2> QED
    BY <2>1, <2>2
<1> QED
  BY <1>3, <1>5, <1>6 DEF OrderInv

\* A subscriber prints the first datagram of its path, which is not behind what
\* it has printed and not after what is still to come.
LEMMA SubRecvOrder ==
    ASSUME Fifo, Inv, OrderInv, NEW s \in Subs, SubRecv(s)
    PROVE  InboxOrder' /\ PrintedOrder'
<1>1. /\ TypeOK /\ InboxOrder /\ PrintedOrder
      /\ inbox \in [Clients -> Seq(Packet)] /\ got \in [Subs -> Seq(AllEvents)]
  BY DEF Inv, OrderInv, TypeOK
<1>2. PICK k \in Receivable(inbox[s]) :
          /\ inbox' = [inbox EXCEPT ![s] = Without(@, k)]
          /\ \/ UNCHANGED got
             \/ /\ inbox[s][k].type = "data"
                /\ got' = [got EXCEPT ![s] = Append(@, inbox[s][k].event)]
  BY DEF SubRecv
<1>3. \A r \in Subs : \/ inbox'[r] = inbox[r]
                      \/ r = s /\ inbox'[r] = Without(inbox[r], k)
  BY <1>1, <1>2
<1>4. CASE UNCHANGED got
  BY <1>1, <1>2, <1>3, <1>4, InboxOrderStep
<1>5. CASE /\ inbox[s][k].type = "data"
           /\ got' = [got EXCEPT ![s] = Append(@, inbox[s][k].event)]
  <2> DEFINE pkt == inbox[s][k]
             e == pkt.event
             n == Len(got[s])
  <2>1. pkt \in Packet /\ k \in DOMAIN inbox[s]
    BY <1>1, <1>2, ReadByClient
  <2>2. /\ NotBehind(pkt, Printed(s)) /\ Ordered(inbox[s])
        /\ \A j \in DOMAIN inbox[s] : NotBehind(inbox[s][j], Printed(s))
    BY <1>1, <2>1 DEF InboxOrder
  <2>3. pkt.type = "data" /\ e \in AllEvents /\ e[2] = pkt.num
    BY <1>1, <1>5, <2>1 DEF Inv, InboxInv, FromBroker, Carries, TypeOK
  <2>4. got' = [got EXCEPT ![s] = Append(got[s], e)]
    BY <1>5
  <2>5. inbox'[s] = Without(inbox[s], k)
    BY <1>1, <1>2
  <2>6. /\ Ordered(Without(inbox[s], k))
        /\ \A j \in DOMAIN Without(inbox[s], k) :
               /\ Before(pkt, Without(inbox[s], k)[j])
               /\ \E i \in DOMAIN inbox[s] : Without(inbox[s], k)[j] = inbox[s][i]
    BY <1>1, <2>2, OrderedWithout
  <2>7. /\ Printed(s)' = Printed(s) \cup {e}
        /\ \A r \in Subs : r # s => Printed(r)' = Printed(r)
    BY <1>1, <2>3, <2>4, PrintedStep
  <2>8. /\ n \in Nat /\ DOMAIN got[s] = 1..n /\ DOMAIN got'[s] = 1..(n + 1)
        /\ got'[s][n + 1] = e /\ \A j \in 1..n : got'[s][j] = got[s][j]
        /\ \A r \in Subs : r # s => got'[r] = got[r]
    BY <1>1, <2>3, <2>4
  <2> HIDE DEF pkt, e, n
  <2>9. InboxOrder'
    <3>1. ASSUME NEW j \in DOMAIN inbox'[s]
          PROVE  \A new : new = inbox'[s][j] => NotBehind(new, Printed(s) \cup {e})
      <4>1. Before(pkt, inbox'[s][j]) /\ NotBehind(inbox'[s][j], Printed(s))
        BY <2>2, <2>5, <2>6
      <4> QED
        BY <2>3, <4>1 DEF Before, NotBehind, e
    <3>2. /\ Ordered(inbox'[s])
          /\ \A j \in DOMAIN inbox'[s] : NotBehind(inbox'[s][j], Printed(s)')
      BY <2>5, <2>6, <2>7, <3>1
    <3>3. \A r \in Subs : r # s =>
              /\ Ordered(inbox'[r])
              /\ \A j \in DOMAIN inbox'[r] : NotBehind(inbox'[r][j], Printed(r)')
      BY <1>1, <1>3, <2>7 DEF InboxOrder
    <3> QED
      BY <3>2, <3>3 DEF InboxOrder
  <2>10. PrintedOrder'
    <3>1. \A j \in 1..n : got[s][j][1] = e[1] => got[s][j][2] <= e[2]
      <4>1. \A j \in 1..n : got[s][j] \in Printed(s)
        BY <2>8 DEF Printed
      <4> QED
        BY <2>2, <2>3, <4>1 DEF NotBehind, e
    <3>2. ASSUME NEW j \in 1..(n + 1), NEW i \in 1..(n + 1), j < i,
                 got'[s][j][1] = got'[s][i][1]
          PROVE  got'[s][j][2] <= got'[s][i][2]
      <4>1. j \in 1..n
        BY <2>8, <3>2
      <4>2. CASE i \in 1..n
        BY <1>1, <2>8, <3>2, <4>1, <4>2 DEF PrintedOrder
      <4>3. CASE i = n + 1
        BY <2>8, <3>1, <3>2, <4>1, <4>3
      <4> QED
        BY <2>8, <4>2, <4>3
    <3> QED
      BY <1>1, <2>8, <3>2 DEF PrintedOrder
  <2> QED
    BY <2>9, <2>10
<1> QED
  BY <1>2, <1>4, <1>5

LEMMA SubscriberOrder ==
    ASSUME Fifo, Inv, OrderInv, NEW s \in Subs, Subscribe(s) \/ SubRecv(s) \/ SubQuit(s)
    PROVE  OrderInv'
<1>1. /\ TypeOK /\ ToBrokerOrder /\ TableOrder /\ InboxOrder /\ PrintedOrder
      /\ toBroker \in [Clients -> Seq(Packet)] /\ inbox \in [Clients -> Seq(Packet)]
  BY DEF Inv, OrderInv, TypeOK
<1>2. UNCHANGED <<subs, handled>>
  BY DEF Subscribe, SubRecv, SubQuit, brokerVars
<1>3. TableOrder'
  BY <1>1, <1>2, TableOrderStep
<1>4. \A p \in Pubs : toBroker'[p] = toBroker[p]
  <2>1. s \notin Pubs
    OBVIOUS
  <2>2. ASSUME NEW pkt, SendToBroker(s, pkt), NEW p \in Pubs
        PROVE  toBroker'[p] = toBroker[p]
    BY <1>1, <2>1, <2>2 DEF SendToBroker
  <2> QED
    BY <2>2 DEF Subscribe, SubRecv, SubQuit
<1>5. ToBrokerOrder'
  BY <1>1, <1>2, <1>4, ToBrokerOrderStep
<1>6. InboxOrder' /\ PrintedOrder'
  <2>1. CASE Subscribe(s)
    <3>1. UNCHANGED <<got, inbox>>
      BY <2>1 DEF Subscribe
    <3> QED
      BY <1>1, <3>1, InboxOrderStep
  <2>2. CASE SubQuit(s)
    <3>1. UNCHANGED got /\ inbox' = [inbox EXCEPT ![s] = <<>>]
      BY <2>2 DEF SubQuit
    <3>2. \A r \in Subs : inbox'[r] = inbox[r] \/ inbox'[r] = <<>>
      BY <1>1, <3>1
    <3> QED
      BY <1>1, <3>1, <3>2, InboxOrderStep
  <2>3. CASE SubRecv(s)
    BY <2>3, SubRecvOrder
  <2> QED
    BY <2>1, <2>2, <2>3
<1> QED
  BY <1>3, <1>5, <1>6 DEF OrderInv

\* The broker takes a datagram that is no event, or loses one while it is down.
LEMMA TakenOrder ==
    ASSUME Fifo, Inv, ToBrokerOrder, UNCHANGED handled, NEW c \in Clients,
           NEW k \in Receivable(toBroker[c]),
           toBroker' = [toBroker EXCEPT ![c] = Without(@, k)]
    PROVE  ToBrokerOrder'
<1>1. toBroker \in [Clients -> Seq(Packet)]
  BY DEF Inv, TypeOK
<1>2. \A p \in Pubs : \/ toBroker'[p] = toBroker[p]
                      \/ p = c /\ toBroker'[p] = Without(toBroker[p], k)
  BY <1>1
<1> QED
  BY <1>2, ToBrokerOrderStep

LEMMA HandshakeOrder ==
    ASSUME Fifo, Inv, OrderInv, NEW c \in Clients, BrokerHandshake(c)
    PROVE  OrderInv'
<1>1. TypeOK /\ ToBrokerOrder /\ TableOrder /\ InboxOrder /\ PrintedOrder
  BY DEF Inv, OrderInv
<1>2. PICK k \in Receivable(toBroker[c]) :
          /\ toBroker' = [toBroker EXCEPT ![c] = Without(@, k)]
          /\ \/ subs' = subs
             \/ subs' = Append(subs, NewSlot(c, toBroker[c][k]))
          /\ SendToClients([d \in {c} |-> Ack(toBroker[c][k])])
          /\ UNCHANGED <<cid, pubVars, subVars, runVars, handled>>
  BY DEF BrokerHandshake
<1> DEFINE ack == Ack(toBroker[c][k])
           slot == NewSlot(c, toBroker[c][k])
<1>3. UNCHANGED <<got, handled>>
  BY <1>2 DEF subVars
<1>4. ToBrokerOrder'
  BY <1>1, <1>2, <1>3, TakenOrder
<1>5. ack \in Packet /\ ack.type = "ack"
  BY <1>1, <1>2, ReadByBroker, PacketsMade
<1>6. slot.busy = FALSE
  BY DEF NewSlot
<1>7. SendToClients([d \in {c} |-> ack]) /\ (subs' = subs \/ subs' = Append(subs, slot))
  BY <1>2
<1> HIDE DEF ack, slot
<1>8. InboxOrder' /\ PrintedOrder'
  <2>1. \A d \in Clients : inbox'[d] = inbox[d] \/ inbox'[d] = Append(inbox[d], ack)
    BY ZenonT(60), <1>1, <1>5, <1>7, OneAppended
  <2>2. NotBehind(ack, handled)
    BY <1>5 DEF NotBehind
  <2> QED
    BY <1>1, <1>3, <1>5, <2>1, <2>2, InboxOrderStep
<1>9. TableOrder'
  <2>1. subs \in Seq(Slot)
    BY <1>1 DEF TypeOK
  <2>2. \A i \in DOMAIN subs' : (i \in DOMAIN subs /\ subs'[i] = subs[i]) \/ subs'[i] = slot
    BY <1>7, <2>1
  <2> QED
    BY <1>1, <1>3, <1>6, <2>2, TableOrderStep
<1> QED
  BY <1>4, <1>8, <1>9 DEF OrderInv

\* The broker handles the first datagram of a publisher's path, which is not
\* behind what it has handled and not after what is still to come.
LEMMA DataOrder ==
    ASSUME Fifo, Inv, OrderInv, NEW p \in Pubs, BrokerData(p)
    PROVE  OrderInv'
<1> DEFINE to == {subs[i].addr : i \in DOMAIN subs}
           slotOf(s) == subs[CHOOSE i \in DOMAIN subs : subs[i].addr = s]
<1>1. /\ TypeOK /\ ToBrokerOrder /\ TableOrder /\ InboxOrder /\ PrintedOrder
      /\ toBroker \in [Clients -> Seq(Packet)] /\ subs \in Seq(Slot)
      /\ \A i \in DOMAIN subs : subs[i] \in Slot
  BY DEF Inv, OrderInv, TypeOK
<1>2. PICK k \in Receivable(toBroker[p]) :
          /\ toBroker[p][k].type = "data"
          /\ toBroker' = [toBroker EXCEPT ![p] = Without(@, k)]
          /\ subs' = [i \in DOMAIN subs |-> Outstanding(subs[i], toBroker[p][k])]
          /\ handled' = handled \cup {toBroker[p][k].event}
          /\ SendToClients([c \in {p} \cup to |->
                               IF c = p THEN Ack(toBroker[p][k])
                               ELSE Forwarded(slotOf(c), toBroker[p][k])])
          /\ UNCHANGED <<cid, pubVars, subVars, runVars>>
  BY DEF BrokerData
<1> DEFINE pkt == toBroker[p][k]
           pkts == [c \in {p} \cup to |-> IF c = p THEN Ack(pkt) ELSE Forwarded(slotOf(c), pkt)]
           rest == Without(toBroker[p], k)
<1>3. k \in DOMAIN toBroker[p] /\ pkt \in Packet /\ pkt.type = "data"
  BY <1>1, <1>2, ReadByBroker
<1>4. pkt.event = <<p, pkt.num>> /\ pkt.num \in Nat
  BY <1>3 DEF Inv, ToBrokerInv, FromClient, FromPublisher, Packet
<1>5. NotBehind(pkt, handled)
  BY <1>1, <1>3 DEF ToBrokerOrder
<1>6. UNCHANGED got /\ handled' = handled \cup {pkt.event}
  BY <1>2 DEF subVars
<1>7. \A c \in to : slotOf(c) \in Slot
  BY <1>1
<1>8. SendToClients(pkts) /\ DOMAIN pkts = {p} \cup to
  BY <1>2
<1>9. \A c \in to : c # p => pkts[c] = Forwarded(slotOf(c), pkt)
  OBVIOUS
<1>10. subs' = [i \in DOMAIN subs |-> Outstanding(subs[i], pkt)]
  BY <1>2
<1>11. /\ toBroker'[p] = rest /\ \A q \in Pubs : q # p => toBroker'[q] = toBroker[q]
       /\ Ordered(rest)
       /\ \A j \in DOMAIN rest :
              /\ Before(pkt, rest[j])
              /\ \E i \in DOMAIN toBroker[p] : rest[j] = toBroker[p][i]
  <2>1. toBroker[p] \in Seq(Packet) /\ Ordered(toBroker[p])
    BY <1>1 DEF ToBrokerOrder
  <2>2. toBroker'[p] = rest /\ \A q \in Pubs : q # p => toBroker'[q] = toBroker[q]
    BY <1>1, <1>2
  <2> QED
    BY <1>2, <2>1, <2>2, OrderedWithout
<1> HIDE DEF pkt, pkts, slotOf, to, rest
<1>12. ToBrokerOrder'
  <2>1. ASSUME NEW j \in DOMAIN rest
        PROVE  NotBehind(rest[j], handled')
    <3>1. NotBehind(rest[j], handled) /\ Before(pkt, rest[j])
      BY <1>1, <1>11 DEF ToBrokerOrder
    <3> QED
      BY <1>3, <1>4, <1>6, <3>1 DEF NotBehind, Before
  <2>2. ASSUME NEW q \in Pubs, q # p
        PROVE  /\ Ordered(toBroker[q])
               /\ \A j \in DOMAIN toBroker[q] : NotBehind(toBroker[q][j], handled')
    <3>1. \A j \in DOMAIN toBroker[q] :
              toBroker[q][j].type = "data" => toBroker[q][j].event[1] = q
      BY <2>2 DEF Inv, ToBrokerInv, FromClient, FromPublisher
    <3>2. pkt.event[1] = p
      BY <1>4
    <3> QED
      BY <1>1, <1>6, <2>2, <3>1, <3>2 DEF ToBrokerOrder, NotBehind
  <2> QED
    BY <1>11, <2>1, <2>2 DEF ToBrokerOrder
<1>13. TableOrder'
  <2>1. ASSUME NEW i \in DOMAIN subs
        PROVE  NotBehind(Forwarded(subs[i], pkt), handled')
    <3>1. /\ Forwarded(subs[i], pkt).event = pkt.event
          /\ Forwarded(subs[i], pkt).num = pkt.num
      BY <1>1, <1>3, PacketsMade
    <3> QED
      BY <1>3, <1>4, <1>5, <1>6, <3>1 DEF NotBehind
  <2>2. \A i \in DOMAIN subs : Outstanding(subs[i], pkt).out = Forwarded(subs[i], pkt)
    BY <1>1, <1>3, OutstandingSlot
  <2> QED
    BY <1>10, <2>1, <2>2 DEF TableOrder
<1>14. InboxOrder' /\ PrintedOrder'
  <2>1. ASSUME NEW s \in Subs
        PROVE  \/ inbox'[s] = inbox[s]
               \/ \E new \in Packet :
                      inbox'[s] = Append(inbox[s], new) /\ NotBehind(new, handled)
    <3>1. \/ inbox'[s] = inbox[s]
          \/ s \in DOMAIN pkts /\ inbox'[s] = Append(inbox[s], pkts[s])
      BY <1>8 DEF SendToClients
    <3>2. CASE s \in DOMAIN pkts /\ inbox'[s] = Append(inbox[s], pkts[s])
      <4>1. s \in to /\ pkts[s] = Forwarded(slotOf(s), pkt) /\ slotOf(s) \in Slot
        BY <1>7, <1>8, <1>9, <3>2
      <4>2. /\ pkts[s] \in Packet
            /\ pkts[s].event = pkt.event /\ pkts[s].num = pkt.num
        BY <1>1, <1>3, <4>1, PacketsMade
      <4>3. NotBehind(pkts[s], handled)
        BY <1>3, <1>5, <4>2 DEF NotBehind
      <4> QED
        BY <3>2, <4>2, <4>3
    <3> QED
      BY <3>1, <3>2
  <2> QED
    BY <1>1, <1>6, <2>1, InboxOrderStep
<1> QED
  BY <1>12, <1>13, <1>14 DEF OrderInv

LEMMA TimerOrder ==
    ASSUME Fifo, Inv, OrderInv, NEW i \in 1..MaxSubs, Retransmit(i) \/ GiveUp(i)
    PROVE  OrderInv'
<1>1. /\ TypeOK /\ ToBrokerOrder /\ TableOrder /\ InboxOrder /\ PrintedOrder
      /\ subs \in Seq(Slot) /\ \A j \in DOMAIN subs : subs[j] \in Slot
  BY DEF Inv, OrderInv, TypeOK
<1>2. UNCHANGED <<got, handled, toBroker>> /\ i \in DOMAIN subs /\ subs[i].busy
  BY DEF Retransmit, GiveUp, Due, subVars
<1>3. ToBrokerOrder'
  BY <1>1, <1>2, ToBrokerOrderStep
<1>4. TableOrder'
  <2>1. subs' = [subs EXCEPT ![i] = Counted(@)] \/ subs' = [subs EXCEPT ![i].busy = FALSE]
    BY DEF Retransmit, GiveUp
  <2>2. Counted(subs[i]).out = subs[i].out
    BY <1>1, <1>2 DEF Counted, Slot
  <2>3. \A j \in DOMAIN subs' : j \in DOMAIN subs /\ (j # i => subs'[j] = subs[j])
    BY <1>1, <2>1
  <2>4. subs'[i].busy => subs'[i].out = subs[i].out
    <3>1. subs'[i] = Counted(subs[i]) \/ subs'[i] = [subs[i] EXCEPT !.busy = FALSE]
      BY <1>1, <1>2, <2>1
    <3>2. [subs[i] EXCEPT !.busy = FALSE].busy = FALSE
      BY <1>1, <1>2 DEF Slot
    <3> QED
      BY <2>2, <3>1, <3>2
  <2> QED
    BY <1>1, <1>2, <2>3, <2>4, TableOrderStep
<1>5. InboxOrder' /\ PrintedOrder'
  <2>1. CASE Retransmit(i)
    <3> DEFINE to == subs[i].addr
               pkt == subs[i].out
    <3>1. SendToClients([c \in {to} |-> pkt])
      BY <2>1 DEF Retransmit
    <3>2. pkt \in Packet
      BY <1>2 DEF Inv, TableInv, Entry
    <3>3. NotBehind(pkt, handled)
      BY <1>1, <1>2 DEF TableOrder
    <3> HIDE DEF to, pkt
    <3>4. \A s \in Subs : inbox'[s] = inbox[s] \/ inbox'[s] = Append(inbox[s], pkt)
      BY <1>1, <3>1, <3>2, OneAppended
    <3> QED
      BY <1>1, <1>2, <3>2, <3>3, <3>4, InboxOrderStep
  <2>2. CASE GiveUp(i)
    <3>1. inbox' = inbox
      BY <2>2 DEF GiveUp
    <3> QED
      BY <1>1, <1>2, <3>1, InboxOrderStep
  <2> QED
    BY <2>1, <2>2
<1> QED
  BY <1>3, <1>4, <1>5 DEF OrderInv

LEMMA OtherOrder ==
    ASSUME Fifo, Inv, OrderInv,
           \/ \E s \in Subs : BrokerAck(s)
           \/ \E c \in Clients : Unreachable(c)
           \/ BrokerStop \/ BrokerStart \/ UNCHANGED vars
    PROVE  OrderInv'
<1>1. /\ TypeOK /\ ToBrokerOrder /\ TableOrder /\ InboxOrder /\ PrintedOrder
      /\ subs \in Seq(Slot) /\ \A j \in DOMAIN subs : subs[j] \in Slot
  BY DEF Inv, OrderInv, TypeOK
<1>2. UNCHANGED <<got, handled, inbox>>
  BY DEF BrokerAck, Unreachable, BrokerStop, BrokerStart, vars, subVars, brokerVars
<1>3. InboxOrder' /\ PrintedOrder'
  BY <1>1, <1>2, InboxOrderStep
<1>4. ToBrokerOrder'
  <2>1. CASE toBroker' = toBroker
    BY <1>1, <1>2, <2>1, ToBrokerOrderStep
  <2>2. ASSUME NEW c \in Clients, BrokerAck(c) \/ Unreachable(c)
        PROVE  ToBrokerOrder'
    <3>1. PICK k \in Receivable(toBroker[c]) :
              toBroker' = [toBroker EXCEPT ![c] = Without(@, k)]
      BY <2>2 DEF BrokerAck, Unreachable
    <3> QED
      BY <1>1, <1>2, <3>1, TakenOrder
  <2>3. BrokerStop \/ BrokerStart \/ UNCHANGED vars => toBroker' = toBroker
    BY DEF BrokerStop, BrokerStart, vars
  <2> QED
    BY <2>1, <2>2, <2>3
<1>5. TableOrder'
  <2>1. CASE subs' = subs \/ subs' = <<>>
    BY <1>1, <1>2, <2>1, TableOrderStep
  <2>2. ASSUME NEW s \in Subs, BrokerAck(s)
        PROVE  TableOrder'
    <3>1. PICK k \in Receivable(toBroker[s]) :
              subs' = [i \in DOMAIN subs |->
                           IF Answers(subs[i], toBroker[s][k])
                           THEN [subs[i] EXCEPT !.busy = FALSE, !.retries = 0]
                           ELSE subs[i]]
      BY <2>2 DEF BrokerAck
    <3>2. ASSUME NEW i \in DOMAIN subs
          PROVE  subs'[i] = subs[i] \/ subs'[i].busy = FALSE
      BY <1>1, <3>1, ReleasedSlot
    <3> QED
      BY <1>1, <1>2, <3>1, <3>2, TableOrderStep
  <2>3. BrokerStop \/ BrokerStart \/ UNCHANGED vars \/ (\E c \in Clients : Unreachable(c))
            => subs' = subs \/ subs' = <<>>
    BY DEF BrokerStop, BrokerStart, vars, Unreachable, brokerVars
  <2> QED
    BY <2>1, <2>2, <2>3
<1> QED
  BY <1>3, <1>4, <1>5 DEF OrderInv

LEMMA InitOrder == Init => OrderInv
  BY DEF Init, OrderInv, ToBrokerOrder, TableOrder, InboxOrder, PrintedOrder, Ordered

LEMMA NextOrder == Fifo /\ Inv /\ OrderInv /\ [Next]_vars => OrderInv'
<1> SUFFICES ASSUME Fifo, Inv, OrderInv, [Next]_vars PROVE OrderInv'
  OBVIOUS
<1>1. \/ \E p \in Pubs : PubSend(p) \/ PubRecv(p) \/ PubTimeout(p)
      \/ \E s \in Subs : Subscribe(s) \/ SubRecv(s) \/ SubQuit(s)
      \/ \E c \in Clients : BrokerHandshake(c)
      \/ \E p \in Pubs : BrokerData(p)
      \/ \E i \in 1..MaxSubs : Retransmit(i) \/ GiveUp(i)
      \/ \E s \in Subs : BrokerAck(s)
      \/ \E c \in Clients : Unreachable(c)
      \/ BrokerStop \/ BrokerStart \/ UNCHANGED vars
  BY DEF Next, BrokerNext
<1> QED
  BY <1>1, PublisherOrder, SubscriberOrder, HandshakeOrder, DataOrder, TimerOrder, OtherOrder

LEMMA OrderIsInOrder ==
    ASSUME Fifo => OrderInv
    PROVE  InOrder
  BY DEF OrderInv, PrintedOrder, InOrder

\* On a path that keeps the order of datagrams, a subscriber never prints an
\* event after a later one of the same publisher, although both hops repeat
\* packets, entries are overwritten and the broker is started again.
THEOREM PrintedInOrder == Spec => []InOrder
<1>1. Init => (Fifo => OrderInv)
  BY InitOrder
<1>2. Inv /\ (Fifo => OrderInv) /\ [Next]_vars => (Fifo => OrderInv)'
  BY NextOrder
<1>3. (Fifo => OrderInv) => InOrder
  BY OrderIsInOrder
<1> QED
  BY <1>1, <1>2, <1>3, InvHolds, PTL DEF Spec

------------------------------------------------------------------------------
(* When the broker stops repeating an event                                *)

\* No two subscribers have drawn the same conn_id.
DistinctIds == \A r, s \in Subs : cid[r] = cid[s] => r = s

LEMMA IdsKept == [Next]_vars => cid' = cid
<1> SUFFICES ASSUME [Next]_vars PROVE cid' = cid
  OBVIOUS
<1>1. ASSUME NEW p \in Pubs, PubSend(p) \/ PubRecv(p) \/ PubTimeout(p) \/ BrokerData(p)
      PROVE  cid' = cid
  BY <1>1 DEF PubSend, PubRecv, PubTimeout, BrokerData
<1>2. ASSUME NEW s \in Subs, Subscribe(s) \/ SubRecv(s) \/ SubQuit(s) \/ BrokerAck(s)
      PROVE  cid' = cid
  BY <1>2 DEF Subscribe, SubRecv, SubQuit, BrokerAck
<1>3. ASSUME NEW c \in Clients, Unreachable(c) \/ BrokerHandshake(c)
      PROVE  cid' = cid
  BY <1>3 DEF Unreachable, BrokerHandshake
<1>4. ASSUME NEW i \in 1..MaxSubs, Retransmit(i) \/ GiveUp(i)
      PROVE  cid' = cid
  BY <1>4 DEF Retransmit, GiveUp
<1>5. BrokerStop \/ BrokerStart \/ UNCHANGED vars => cid' = cid
  BY DEF BrokerStop, BrokerStart, vars
<1> QED
  BY <1>1, <1>2, <1>3, <1>4, <1>5 DEF Next, BrokerNext

\* Without a restart a subscriber that the broker has spoken to has an entry: a
\* namesake that came too late for one is sent no event and acknowledges none.
HasEntry(s) == \E i \in DOMAIN subs : subs[i].addr = s
Quiet(s) == /\ \A k \in DOMAIN inbox[s] : inbox[s][k].type # "data"
            /\ \A k \in DOMAIN toBroker[s] : toBroker[s][k].type # "ack"
SpokenTo == \A s \in Subs : HasEntry(s) \/ Quiet(s)

LEMMA EntryStays ==
    ASSUME Inv, MaxBoots = 0, [Next]_vars, NEW s \in Subs, HasEntry(s)
    PROVE  HasEntry(s)'
<1>1. PICK i \in DOMAIN subs : subs[i].addr = s
  BY DEF HasEntry
<1>2. subs \in Seq(Slot) /\ boots \in Nat
  BY DEF Inv, TypeOK
<1>3. CASE SameEntries
  BY <1>1, <1>3 DEF SameEntries, HasEntry
<1>4. CASE \E c \in Clients : BrokerHandshake(c)
  <2>1. subs' = subs \/ \E slot : subs' = Append(subs, slot)
    BY <1>4 DEF BrokerHandshake
  <2>2. i \in DOMAIN subs' /\ subs'[i] = subs[i]
    BY <1>1, <1>2, <2>1
  <2> QED
    BY <1>1, <2>2 DEF HasEntry
<1>5. ~BrokerStop
  BY <1>2 DEF BrokerStop
<1> QED
  BY <1>3, <1>4, <1>5, EntriesStep

\* No new event to s, and no new acknowledgement from it.
NothingNew(s) ==
    /\ \A j \in DOMAIN inbox'[s] :
           inbox'[s][j].type = "data" => \E k \in DOMAIN inbox[s] : inbox'[s][j] = inbox[s][k]
    /\ \A j \in DOMAIN toBroker'[s] :
           toBroker'[s][j].type = "ack" =>
               \E k \in DOMAIN toBroker[s] : toBroker'[s][j] = toBroker[s][k]

LEMMA ClientStepQuiet ==
    ASSUME Inv, NEW s \in Subs, Quiet(s),
           \/ \E p \in Pubs : PubSend(p) \/ PubRecv(p) \/ PubTimeout(p)
           \/ \E r \in Subs : Subscribe(r) \/ SubRecv(r) \/ SubQuit(r)
           \/ \E c \in Clients : Unreachable(c)
    PROVE  NothingNew(s)
<1>1. TypeOK /\ inbox \in [Clients -> Seq(Packet)] /\ toBroker \in [Clients -> Seq(Packet)]
  BY DEF Inv, TypeOK
<1>2. (inbox'[s] = inbox[s] \/ inbox'[s] = <<>>) /\ toBroker'[s] = toBroker[s] => NothingNew(s)
  BY DEF NothingNew
<1>3. ASSUME NEW p \in Pubs, PubSend(p) \/ PubRecv(p) \/ PubTimeout(p)
      PROVE  NothingNew(s)
  <2>1. p # s /\ p \in Clients /\ s \in Clients
    OBVIOUS
  <2>2. inbox'[s] = inbox[s] /\ toBroker'[s] = toBroker[s]
    BY <1>1, <1>3, <2>1 DEF PubSend, PubRecv, PubTimeout, SendToBroker
  <2> QED
    BY <1>2, <2>2
<1>4. ASSUME NEW r \in Subs, Subscribe(r)
      PROVE  NothingNew(s)
  <2>1. Handshake(r) \in Packet /\ Handshake(r).type = "handshake"
    BY <1>1, PacketsMade DEF Handshake
  <2>2. SendToBroker(r, Handshake(r)) /\ inbox' = inbox
    BY <1>4 DEF Subscribe
  <2> DEFINE pkt == Handshake(r)
  <2> HIDE DEF pkt
  <2>3. \A d \in Clients : \A k \in DOMAIN toBroker'[d] :
            \/ k \in DOMAIN toBroker[d] /\ toBroker'[d][k] = toBroker[d][k]
            \/ d = r /\ toBroker'[d][k] = pkt
    BY SMTT(30), <1>1, <2>1, <2>2, SentToBroker DEF pkt
  <2> QED
    BY <2>1, <2>2, <2>3 DEF NothingNew, pkt
<1>5. ASSUME NEW r \in Subs, SubRecv(r)
      PROVE  NothingNew(s)
  <2>1. PICK k \in Receivable(inbox[r]) :
            /\ inbox' = [inbox EXCEPT ![r] = Without(@, k)]
            /\ IF inbox[r][k].cid = cid[r] /\ inbox[r][k].type = "data"
               THEN SendToBroker(r, Ack(inbox[r][k]))
               ELSE UNCHANGED <<got, toBroker, losses>>
    BY <1>5 DEF SubRecv
  <2>2. /\ k \in DOMAIN inbox[r]
        /\ \A d \in Clients : \A j \in DOMAIN inbox'[d] :
               \E i \in DOMAIN inbox[d] : inbox'[d][j] = inbox[d][i]
    BY <1>1, <2>1, ReadByClient
  <2>3. toBroker'[s] = toBroker[s]
    <3>1. CASE r = s
      BY <2>1, <2>2, <3>1 DEF Quiet
    <3>2. CASE r # s
      BY <1>1, <2>1, <3>2 DEF SendToBroker
    <3> QED
      BY <3>1, <3>2
  <2> QED
    BY <2>2, <2>3 DEF NothingNew
<1>6. ASSUME NEW r \in Subs, SubQuit(r)
      PROVE  NothingNew(s)
  <2>1. inbox'[s] = inbox[s] \/ inbox'[s] = <<>>
    BY <1>1, <1>6 DEF SubQuit
  <2>2. toBroker' = toBroker
    BY <1>6 DEF SubQuit
  <2> QED
    BY <1>2, <2>1, <2>2
<1>7. ASSUME NEW c \in Clients, Unreachable(c)
      PROVE  NothingNew(s)
  <2>1. inbox' = inbox /\ \E k \in Receivable(toBroker[c]) :
            toBroker' = [toBroker EXCEPT ![c] = Without(@, k)]
    BY <1>7 DEF Unreachable
  <2> QED
    BY <1>1, <2>1, ReadByBroker DEF NothingNew
<1> QED
  BY <1>3, <1>4, <1>5, <1>6, <1>7

LEMMA BrokerStepQuiet ==
    ASSUME Inv, NEW s \in Subs, ~HasEntry(s), BrokerNext
    PROVE  NothingNew(s)
<1>1. TypeOK /\ inbox \in [Clients -> Seq(Packet)] /\ toBroker \in [Clients -> Seq(Packet)]
  BY DEF Inv, TypeOK
<1>2. ASSUME NEW c \in Clients, BrokerHandshake(c)
      PROVE  NothingNew(s)
  <2>1. PICK k \in Receivable(toBroker[c]) :
            /\ toBroker' = [toBroker EXCEPT ![c] = Without(@, k)]
            /\ SendToClients([d \in {c} |-> Ack(toBroker[c][k])])
    BY <1>2 DEF BrokerHandshake
  <2>2. /\ toBroker[c][k] \in Packet
        /\ \A d \in Clients : \A j \in DOMAIN toBroker'[d] :
               \E i \in DOMAIN toBroker[d] : toBroker'[d][j] = toBroker[d][i]
    BY <1>1, <2>1, ReadByBroker
  <2> DEFINE ack == Ack(toBroker[c][k])
  <2>3. ack \in Packet /\ ack.type = "ack" /\ SendToClients([d \in {c} |-> ack])
    BY <1>1, <2>1, <2>2, PacketsMade
  <2> HIDE DEF ack
  <2>4. \A d \in Clients : \A j \in DOMAIN inbox'[d] :
            \/ j \in DOMAIN inbox[d] /\ inbox'[d][j] = inbox[d][j]
            \/ d = c /\ inbox'[d][j] = ack
    <3>1. TypeOK
      BY <1>1
    <3>2. ack \in Packet /\ SendToClients([d \in {c} |-> ack])
      BY <2>3
    <3> QED
      BY ZenonT(60), <3>1, <3>2, OneSent
  <2> QED
    BY <2>2, <2>3, <2>4 DEF NothingNew
<1>3. ASSUME NEW p \in Pubs, BrokerData(p)
      PROVE  NothingNew(s)
  <2> DEFINE to == {subs[i].addr : i \in DOMAIN subs}
             slotOf(c) == subs[CHOOSE i \in DOMAIN subs : subs[i].addr = c]
             pkts(pkt) == [c \in {p} \cup to |->
                              IF c = p THEN Ack(pkt) ELSE Forwarded(slotOf(c), pkt)]
  <2>1. PICK k \in Receivable(toBroker[p]) :
            /\ toBroker' = [toBroker EXCEPT ![p] = Without(@, k)]
            /\ SendToClients(pkts(toBroker[p][k]))
    BY <1>3 DEF BrokerData
  <2>2. s # p /\ s \notin to
    BY DEF HasEntry
  <2>3. \A pkt : DOMAIN pkts(pkt) = {p} \cup to
    OBVIOUS
  <2> HIDE DEF pkts, to
  <2>4. inbox'[s] = inbox[s]
    BY <2>1, <2>2, <2>3 DEF SendToClients
  <2>5. toBroker'[s] = toBroker[s]
    BY <1>1, <2>1, <2>2
  <2> QED
    BY <2>4, <2>5 DEF NothingNew
<1>4. ASSUME NEW r \in Subs, BrokerAck(r)
      PROVE  NothingNew(s)
  <2>1. inbox' = inbox /\ \E k \in Receivable(toBroker[r]) :
            toBroker' = [toBroker EXCEPT ![r] = Without(@, k)]
    BY <1>4 DEF BrokerAck
  <2> QED
    BY <1>1, <2>1, ReadByBroker DEF NothingNew
<1>5. ASSUME NEW i \in 1..MaxSubs, Retransmit(i)
      PROVE  NothingNew(s)
  <2> DEFINE pkts == [c \in {subs[i].addr} |-> subs[i].out]
  <2>1. SendToClients(pkts) /\ toBroker' = toBroker /\ s # subs[i].addr
    BY <1>5 DEF Retransmit, Due, HasEntry
  <2>2. s \notin DOMAIN pkts
    BY <2>1
  <2> HIDE DEF pkts
  <2>3. inbox'[s] = inbox[s]
    BY <2>1, <2>2 DEF SendToClients
  <2> QED
    BY <2>1, <2>3 DEF NothingNew
<1>6. ASSUME NEW i \in 1..MaxSubs, GiveUp(i)
      PROVE  NothingNew(s)
  BY <1>6 DEF GiveUp, NothingNew
<1>7. BrokerStop \/ BrokerStart => NothingNew(s)
  BY DEF BrokerStop, BrokerStart, NothingNew
<1> QED
  BY <1>2, <1>3, <1>4, <1>5, <1>6, <1>7 DEF BrokerNext

LEMMA NextSpokenTo ==
    ASSUME Inv, MaxBoots = 0, SpokenTo, [Next]_vars
    PROVE  SpokenTo'
<1> SUFFICES ASSUME NEW s \in Subs, ~HasEntry(s)'
             PROVE  Quiet(s)'
  BY DEF SpokenTo
<1>1. ~HasEntry(s) /\ Quiet(s)
  BY EntryStays DEF SpokenTo
<1>2. NothingNew(s)
  <2>1. CASE UNCHANGED vars
    BY <2>1 DEF vars, NothingNew, brokerVars
  <2>2. CASE Next
    BY <1>1, <2>2, ClientStepQuiet, BrokerStepQuiet DEF Next
  <2> QED
    BY <2>1, <2>2
<1> QED
  BY <1>1, <1>2 DEF NothingNew, Quiet

\* An acknowledgement comes from the subscriber of the entry with its conn_id.
OwnAcks ==
    \A s \in Subs : \A k \in DOMAIN toBroker[s], i \in DOMAIN subs :
        (toBroker[s][k].type = "ack" /\ subs[i].cid = cid[s]) => subs[i].addr = s

LEMMA DistinctOwnAcks ==
    ASSUME Inv, DistinctIds
    PROVE  OwnAcks
  BY DEF Inv, TableInv, Entry, DistinctIds, OwnAcks

LEMMA SpokenOwnAcks ==
    ASSUME Inv, OneEntryPerConnection, SpokenTo
    PROVE  OwnAcks
<1> SUFFICES ASSUME NEW s \in Subs, NEW k \in DOMAIN toBroker[s], NEW i \in DOMAIN subs,
                    toBroker[s][k].type = "ack", subs[i].cid = cid[s]
             PROVE  subs[i].addr = s
  BY DEF OwnAcks
<1>1. PICK j \in DOMAIN subs : subs[j].addr = s
  BY DEF SpokenTo, Quiet, HasEntry
<1>2. subs[j].cid = cid[s]
  BY <1>1 DEF Inv, TableInv, Entry
<1> QED
  BY <1>1, <1>2 DEF OneEntryPerConnection

\* An acknowledgement that releases an entry comes from its subscriber, and is
\* that of the event outstanding: the number alone tells events apart, as long
\* as one publisher sends.
LEMMA AckReleasesPrinted ==
    ASSUME \A p, q \in Pubs : p = q, Inv, OwnAcks,
           NEW s \in Subs, BrokerAck(s),
           NEW i \in DOMAIN subs, subs[i].busy, ~subs'[i].busy
    PROVE  subs[i].out.event \in Printed(subs[i].addr)
<1>1. TypeOK /\ handled \subseteq AllEvents /\ subs[i] \in Slot
  BY DEF Inv, TypeOK
<1>2. PICK k \in Receivable(toBroker[s]) :
          /\ toBroker[s][k].type = "ack"
          /\ toBroker' = [toBroker EXCEPT ![s] = Without(@, k)]
          /\ subs' = [j \in DOMAIN subs |->
                         IF Answers(subs[j], toBroker[s][k])
                         THEN [subs[j] EXCEPT !.busy = FALSE, !.retries = 0]
                         ELSE subs[j]]
  BY DEF BrokerAck
<1> DEFINE pkt == toBroker[s][k]
<1>3. Answers(subs[i], pkt)
  BY <1>2
<1>4. /\ subs[i].addr \in Subs /\ subs[i].cid = cid[subs[i].addr]
      /\ subs[i].out.event \in handled
      /\ subs[i].out.event[2] = subs[i].out.num
  BY DEF Inv, TableInv, Entry, Carries
<1>5. k \in DOMAIN toBroker[s]
  BY DEF Receivable
<1>6. pkt.cid = cid[s] /\ \E e \in Printed(s) : e[2] = pkt.num
  <2>1. pkt.type = "ack"
    BY <1>2
  <2>2. FromClient(s, pkt)
    BY <1>5 DEF Inv, ToBrokerInv
  <2> HIDE DEF pkt
  <2> QED
    BY <2>1, <2>2 DEF FromClient, FromSubscriber
<1>7. subs[i].addr = s
  <2>1. toBroker[s][k].type = "ack" /\ subs[i].cid = cid[s]
    BY <1>2, <1>3, <1>6 DEF Answers
  <2> HIDE DEF pkt
  <2> QED
    BY <1>5, <2>1 DEF OwnAcks
<1>8. PICK e \in Printed(s) : e[2] = subs[i].out.num
  BY <1>3, <1>6 DEF Answers
<1>9. e \in AllEvents /\ subs[i].out.event \in AllEvents
  BY <1>1, <1>4, <1>8 DEF Inv, ProgressInv
<1>10. e = subs[i].out.event
  BY <1>4, <1>8, <1>9 DEF AllEvents
<1> QED
  BY <1>7, <1>8, <1>10

LEMMA StepReleases ==
    ASSUME \A p, q \in Pubs : p = q, Inv, OwnAcks, [Next]_vars,
           NEW i \in DOMAIN subs, i \in DOMAIN subs', subs[i].busy, ~subs'[i].busy
    PROVE  \/ subs[i].out.event \in Printed(subs[i].addr)
           \/ subs[i].retries = MaxRetries
<1>1. /\ TypeOK /\ subs \in Seq(Slot) /\ subs[i] \in Slot
      /\ subs[i].retries \in 0..MaxRetries
  <2>1. TypeOK /\ subs \in Seq(Slot) /\ subs[i] \in Slot
    BY DEF Inv, TypeOK
  <2> QED
    BY <2>1 DEF Slot
<1>2. CASE \E s \in Subs : BrokerAck(s)
  BY <1>2, AckReleasesPrinted
<1>3. ASSUME NEW j \in 1..MaxSubs, GiveUp(j)
      PROVE  subs[i].retries = MaxRetries
  <2>1. j \in DOMAIN subs /\ subs' = [subs EXCEPT ![j].busy = FALSE]
    BY <1>3 DEF GiveUp, Due
  <2>2. i = j
    BY <1>1, <2>1
  <2> QED
    BY <1>1, <1>3, <2>2 DEF GiveUp, RetriesLeft
<1>4. ASSUME NEW j \in 1..MaxSubs, Retransmit(j)
      PROVE  FALSE
  <2>1. j \in DOMAIN subs /\ subs' = [subs EXCEPT ![j] = Counted(@)]
    BY <1>4 DEF Retransmit, Due
  <2>2. Counted(subs[i]).busy = subs[i].busy
    BY <1>1 DEF Counted, Slot
  <2> QED
    BY <1>1, <2>1, <2>2
<1>5. ASSUME NEW p \in Pubs, BrokerData(p)
      PROVE  FALSE
  <2>1. PICK k \in Receivable(toBroker[p]) :
            subs' = [j \in DOMAIN subs |-> Outstanding(subs[j], toBroker[p][k])]
    BY <1>5 DEF BrokerData
  <2>2. Outstanding(subs[i], toBroker[p][k]).busy = TRUE
    BY <1>1 DEF Outstanding, Slot
  <2> QED
    BY <2>1, <2>2
<1>6. ASSUME NEW c \in Clients, BrokerHandshake(c)
      PROVE  FALSE
  <2>1. PICK k \in Receivable(toBroker[c]) :
            subs' = subs \/ subs' = Append(subs, NewSlot(c, toBroker[c][k]))
    BY <1>6 DEF BrokerHandshake
  <2>2. subs'[i] = subs[i]
    BY <1>1, <2>1
  <2> QED
    BY <2>2
<1>7. ASSUME subs' = subs \/ subs' = <<>>
      PROVE  FALSE
  BY <1>7
<1>8. ASSUME NEW p \in Pubs, PubSend(p) \/ PubRecv(p) \/ PubTimeout(p)
      PROVE  subs' = subs
  BY <1>8 DEF PubSend, PubRecv, PubTimeout, brokerVars
<1>9. ASSUME NEW s \in Subs, Subscribe(s) \/ SubRecv(s) \/ SubQuit(s)
      PROVE  subs' = subs
  BY <1>9 DEF Subscribe, SubRecv, SubQuit, brokerVars
<1>10. ASSUME NEW c \in Clients, Unreachable(c)
       PROVE  subs' = subs
  BY <1>10 DEF Unreachable, brokerVars
<1>11. BrokerStop \/ BrokerStart \/ UNCHANGED vars => subs' = subs \/ subs' = <<>>
  BY DEF BrokerStop, BrokerStart, vars
<1> QED
  BY <1>2, <1>3, <1>4, <1>5, <1>6, <1>7, <1>8, <1>9, <1>10, <1>11 DEF Next, BrokerNext

\* With one publisher, the broker stops repeating an event to a subscriber that
\* has not printed it only because the retries are spent, or for another event,
\* or because it has been ended; provided that no two subscribers have drawn the
\* same conn_id, or that the broker is never started again.  The conditions are
\* needed: two publishers use the same packet numbers, and an acknowledgement
\* that outlives the entry it was meant for may release that of a namesake.
THEOREM Released ==
    (\A p, q \in Pubs : p = q) =>
        (Spec /\ (DistinctIds \/ MaxBoots = 0) => ReleasedOnlyIfPrinted)
<1> DEFINE Release == \A i \in DOMAIN subs \cap DOMAIN subs' :
                          (subs[i].busy /\ ~subs'[i].busy) =>
                              \/ subs[i].out.event \in Printed(subs[i].addr)
                              \/ subs[i].retries = MaxRetries
<1> SUFFICES ASSUME \A p, q \in Pubs : p = q
             PROVE  Spec /\ (DistinctIds \/ MaxBoots = 0) => ReleasedOnlyIfPrinted
  OBVIOUS
<1> DEFINE Own == DistinctIds \/ (MaxBoots = 0 /\ SpokenTo)
<1>1. Init /\ (DistinctIds \/ MaxBoots = 0) => Own
  BY DEF Init, SpokenTo, Quiet
<1>2. Inv /\ Own /\ [Next]_vars => Own'
  BY IdsKept, NextSpokenTo DEF DistinctIds
<1>3. Inv /\ OneEntryPerConnection /\ Own /\ [Next]_vars => [Release]_vars
  <2> SUFFICES ASSUME Inv, OneEntryPerConnection, Own, [Next]_vars,
                      NEW i \in DOMAIN subs \cap DOMAIN subs', subs[i].busy, ~subs'[i].busy
               PROVE  \/ subs[i].out.event \in Printed(subs[i].addr)
                      \/ subs[i].retries = MaxRetries
    OBVIOUS
  <2>1. OwnAcks
    BY DistinctOwnAcks, SpokenOwnAcks
  <2> QED
    BY <2>1, StepReleases
<1> HIDE DEF Release, Own
<1>4. Spec /\ (DistinctIds \/ MaxBoots = 0) => [][Release]_vars
  BY <1>1, <1>2, <1>3, InvHolds, OneEntry, PTL DEF Spec
<1> QED
  BY <1>4 DEF ReleasedOnlyIfPrinted, Release

==============================================================================
