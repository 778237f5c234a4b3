------------------------------- MODULE MiniQuic -------------------------------
(***************************************************************************)
(* Mini-QUIC (quic/broker_quic.c, publisher_quic.c, subscriber_quic.c):    *)
(* reliability rebuilt over UDP.  A publisher sends its packets one at a   *)
(* time and repeats each until the broker acknowledges it; the broker      *)
(* forwards an event to all subscribers at once and keeps, per subscriber, *)
(* the last packet forwarded and repeats it until the subscriber           *)
(* acknowledges it or the retries are spent.                               *)
(*                                                                         *)
(* The clock is left out.  An armed timer runs out when nothing more is to *)
(* come on its path, and also early, while up to Early datagrams are on    *)
(* their way: then a retransmission crosses an answer.  The network may    *)
(* lose any datagram and, unless Fifo, deliver them in any order.          *)
(*                                                                         *)
(* The broker may be ended and started again: subs[] is in memory, no      *)
(* client notices, and what arrives meanwhile is lost.                     *)
(***************************************************************************)
EXTENDS Naturals, Sequences, FiniteSets

CONSTANTS Pubs,        \* publisher processes
          Subs,        \* subscriber processes
          ConnIds,     \* what rand() % 10000 can return
          MaxSubs,     \* the size of subs[]
          MaxRetries,  \* MAX_RETRIES of the broker
          PubRetries,  \* MAX_RETRIES of a publisher
          Events,      \* how many events a publisher sends
          MaxLoss,     \* how many datagrams the network loses
          Early,       \* datagrams still on a path when its timer runs out
          MaxBoots,    \* how often the broker is started again
          Quits,       \* subscribers may end
          Fifo,        \* datagrams between two processes stay in order
          NoEvent      \* the payload of a packet that carries no event

ASSUME ProcessesAssumption == Pubs \cap Subs = {} /\ NoEvent \notin Pubs \X Nat

ASSUME LimitsAssumption ==
    /\ MaxSubs \in Nat /\ MaxRetries \in Nat /\ PubRetries \in Nat
    /\ Events \in Nat /\ MaxLoss \in Nat /\ Early \in Nat
    /\ MaxBoots \in Nat /\ Quits \in BOOLEAN /\ Fifo \in BOOLEAN

Clients == Pubs \cup Subs

VARIABLES
    cid,       \* my_conn_id of each client
    ppc,       \* ppc[p]: what publisher p does: send, wait, or it has ended
    num,       \* num[p]: pkt_num of the packet p is sending
    attempt,   \* attempt[p]: the loop counter of send_with_retx()
    spc,       \* spc[s]: subscriber s is to start, listens, or is gone
    got,       \* got[s]: the events s has printed
    up,        \* the broker runs
    boots,     \* how often it has been started again
    subs,      \* subs[] of the broker, its first subs_count entries
    handled,   \* history: the events the broker has forwarded
    toBroker,  \* toBroker[c]: datagrams from c to the broker
    inbox,     \* inbox[c]: datagrams from the broker to c
    losses     \* datagrams lost so far

pubVars == <<ppc, num, attempt>>
subVars == <<spc, got>>
runVars == <<up, boots>>
brokerVars == <<runVars, subs, handled>>
vars == <<cid, ppc, num, attempt, spc, got, up, boots, subs, handled,
          toBroker, inbox, losses>>

\* A publisher's packet 1 is its handshake; its events are numbered from 2.
FirstEvent == 2
LastEvent == Events + 1
AllEvents == Pubs \X (FirstEvent..LastEvent)

Packet == [type : {"handshake", "data", "ack"}, cid : ConnIds, stream : {0, 5, 99},
           num : 1..LastEvent, event : AllEvents \cup {NoEvent}]
Slot == [cid : ConnIds, addr : Clients, busy : BOOLEAN,
         out : Packet \cup {NoEvent}, retries : 0..MaxRetries]

TypeOK ==
    /\ cid \in [Clients -> ConnIds]
    /\ ppc \in [Pubs -> {"send", "wait", "done", "aborted"}]
    /\ num \in [Pubs -> 1..(LastEvent + 1)]
    /\ attempt \in [Pubs -> 0..PubRetries]
    /\ spc \in [Subs -> {"start", "listen", "gone"}]
    /\ got \in [Subs -> Seq(AllEvents)]
    /\ up \in BOOLEAN /\ boots \in 0..MaxBoots
    /\ subs \in Seq(Slot) /\ Len(subs) <= MaxSubs
    /\ handled \subseteq AllEvents
    /\ toBroker \in [Clients -> Seq(Packet)]
    /\ inbox \in [Clients -> Seq(Packet)]
    /\ losses \in 0..MaxLoss

\* Two clients started within one second have the same seed and draw the same
\* conn_id, and any two can draw the same by chance.
Init ==
    /\ cid \in [Clients -> ConnIds]
    /\ ppc = [p \in Pubs |-> "send"]
    /\ num = [p \in Pubs |-> 1]
    /\ attempt = [p \in Pubs |-> 0]
    /\ spc = [s \in Subs |-> "start"]
    /\ got = [s \in Subs |-> <<>>]
    /\ up = TRUE /\ boots = 0
    /\ subs = <<>>
    /\ handled = {}
    /\ toBroker = [c \in Clients |-> <<>>]
    /\ inbox = [c \in Clients |-> <<>>]
    /\ losses = 0

------------------------------------------------------------------------------
(* Packets and the network                                                 *)

Handshake(c) == [type |-> "handshake", cid |-> cid[c],
                 stream |-> IF c \in Subs THEN 0 ELSE 99, num |-> 1, event |-> NoEvent]

Data(p) == [type |-> "data", cid |-> cid[p], stream |-> 5, num |-> num[p],
            event |-> <<p, num[p]>>]

Ack(pkt) == [pkt EXCEPT !.type = "ack", !.event = NoEvent]

\* recvfrom() returns the datagram at one of these places of the queue.
Receivable(queue) == IF Fifo THEN {1} \cap DOMAIN queue ELSE DOMAIN queue

Without(queue, k) == SubSeq(queue, 1, k - 1) \o SubSeq(queue, k + 1, Len(queue))

\* sendto() of one packet by client c.
SendToBroker(c, pkt) ==
    \/ /\ toBroker' = [toBroker EXCEPT ![c] = Append(@, pkt)]
       /\ UNCHANGED losses
    \/ /\ losses < MaxLoss
       /\ losses' = losses + 1
       /\ UNCHANGED toBroker

\* The socket of c is open.  A publisher's is kept to the end of the model:
\* nothing depends on what a publisher that has ended is sent.
Open(c) == c \in Subs => spc[c] # "gone"

\* sendto() by the broker of pkts[c] to each c in the domain of pkts.
SendToClients(pkts) ==
    \E lost \in SUBSET DOMAIN pkts :
        /\ losses + Cardinality(lost) <= MaxLoss
        /\ losses' = losses + Cardinality(lost)
        /\ inbox' = [c \in Clients |-> IF c \in DOMAIN pkts \ lost /\ Open(c)
                                       THEN Append(inbox[c], pkts[c])
                                       ELSE inbox[c]]

\* The timer of the path between the broker and c can run out.
TimerExpires(c) == Len(toBroker[c]) + Len(inbox[c]) <= Early

------------------------------------------------------------------------------
(* publisher_quic.c                                                        *)

\* send_with_retx: sendto() of the current packet.
PubSend(p) ==
    /\ ppc[p] = "send"
    /\ SendToBroker(p, IF num[p] = 1 THEN Handshake(p) ELSE Data(p))
    /\ ppc' = [ppc EXCEPT ![p] = "wait"]
    /\ UNCHANGED <<cid, num, attempt, subVars, brokerVars, inbox>>

\* Mutant: one attempt too few, "attempt < MAX_RETRIES" in the loop.
OneAttemptTooFew(p) ==
    /\ IF attempt[p] + 1 < PubRetries
       THEN /\ attempt' = [attempt EXCEPT ![p] = @ + 1]
            /\ ppc' = [ppc EXCEPT ![p] = "send"]
       ELSE /\ ppc' = [ppc EXCEPT ![p] = "aborted"]
            /\ UNCHANGED attempt
    /\ UNCHANGED num

\* Mutant: main does not look at what send_with_retx() returns.
GoOnAnyway(p) ==
    IF attempt[p] < PubRetries
    THEN /\ attempt' = [attempt EXCEPT ![p] = @ + 1]
         /\ ppc' = [ppc EXCEPT ![p] = "send"]
         /\ UNCHANGED num
    ELSE /\ num' = [num EXCEPT ![p] = @ + 1]
         /\ attempt' = [attempt EXCEPT ![p] = 0]
         /\ ppc' = [ppc EXCEPT ![p] = IF num[p] = LastEvent THEN "done" ELSE "send"]

\* The loop of send_with_retx goes round, or ends and the publisher with it.
TryAgain(p) ==
    /\ IF attempt[p] < PubRetries
       THEN /\ attempt' = [attempt EXCEPT ![p] = @ + 1]
            /\ ppc' = [ppc EXCEPT ![p] = "send"]
       ELSE /\ ppc' = [ppc EXCEPT ![p] = "aborted"]
            /\ UNCHANGED attempt
    /\ UNCHANGED num

\* wait_for_ack() returns 1: main goes on to the next packet, if there is one.
NextPacket(p) ==
    /\ num' = [num EXCEPT ![p] = @ + 1]
    /\ attempt' = [attempt EXCEPT ![p] = 0]
    /\ ppc' = [ppc EXCEPT ![p] = IF num[p] = LastEvent THEN "done" ELSE "send"]

\* Mutant: the packet number of the acknowledgement is not compared.
AnyAck(p, pkt) == pkt.type = "ack" /\ pkt.cid = cid[p]

Acknowledges(p, pkt) ==
    /\ pkt.type = "ack"
    /\ pkt.cid = cid[p]
    /\ pkt.stream = IF num[p] = 1 THEN 99 ELSE 5
    /\ pkt.num = num[p]

\* wait_for_ack: one datagram is read.  One that is not the acknowledgement
\* waited for ends the wait at once, as the timeout does.
PubRecv(p) ==
    /\ ppc[p] = "wait"
    /\ \E k \in Receivable(inbox[p]) :
           /\ inbox' = [inbox EXCEPT ![p] = Without(@, k)]
           /\ IF Acknowledges(p, inbox[p][k]) THEN NextPacket(p) ELSE TryAgain(p)
    /\ UNCHANGED <<cid, subVars, brokerVars, toBroker, losses>>

PubTimeout(p) ==
    /\ ppc[p] = "wait" /\ TimerExpires(p)
    /\ TryAgain(p)
    /\ UNCHANGED <<cid, subVars, brokerVars, toBroker, inbox, losses>>

------------------------------------------------------------------------------
(* subscriber_quic.c                                                       *)

\* The handshake is sent once and its acknowledgement is never waited for.
Subscribe(s) ==
    /\ spc[s] = "start"
    /\ SendToBroker(s, Handshake(s))
    /\ spc' = [spc EXCEPT ![s] = "listen"]
    /\ UNCHANGED <<cid, pubVars, got, brokerVars, inbox>>

\* A DATA packet for this conn_id is printed, whether or not it was before,
\* and acknowledged.  Anything else is ignored.
SubRecv(s) ==
    /\ spc[s] = "listen"
    /\ \E k \in Receivable(inbox[s]) :
           LET pkt == inbox[s][k] IN
           /\ inbox' = [inbox EXCEPT ![s] = Without(@, k)]
           /\ IF pkt.cid = cid[s] /\ pkt.type = "data"
              THEN /\ got' = [got EXCEPT ![s] = Append(@, pkt.event)]
                   /\ SendToBroker(s, Ack(pkt))
              ELSE UNCHANGED <<got, toBroker, losses>>
    /\ UNCHANGED <<cid, pubVars, spc, brokerVars>>

\* The subscriber process ends; nothing tells the broker.
SubQuit(s) ==
    /\ Quits /\ spc[s] = "listen"
    /\ spc' = [spc EXCEPT ![s] = "gone"]
    /\ inbox' = [inbox EXCEPT ![s] = <<>>]
    /\ UNCHANGED <<cid, pubVars, got, brokerVars, toBroker, losses>>

------------------------------------------------------------------------------
(* broker_quic.c: one thread.  A round of its loop reads one datagram at   *)
(* most and then looks at every timer; each timer that has run out is a    *)
(* step of its own, for what it does touches one entry and one datagram.   *)

\* Mutant: a handshake is not looked up before it is entered.
NeverAlready(id) == FALSE

Already(id) == \E i \in DOMAIN subs : subs[i].cid = id

NewSlot(c, pkt) == [cid |-> pkt.cid, addr |-> c, busy |-> FALSE,
                    out |-> NoEvent, retries |-> 0]

\* A handshake is acknowledged whether or not it has registered anybody.
BrokerHandshake(c) ==
    up /\ \E k \in Receivable(toBroker[c]) :
        LET pkt == toBroker[c][k] IN
        /\ pkt.type = "handshake"
        /\ toBroker' = [toBroker EXCEPT ![c] = Without(@, k)]
        /\ subs' = IF pkt.stream = 0 /\ ~Already(pkt.cid) /\ Len(subs) < MaxSubs
                   THEN Append(subs, NewSlot(c, pkt))
                   ELSE subs
        /\ SendToClients([d \in {c} |-> Ack(pkt)])
        /\ UNCHANGED <<cid, pubVars, subVars, runVars, handled>>

\* The packet forwarded to one subscriber: the same stream, number and event.
Forwarded(slot, pkt) == [pkt EXCEPT !.cid = slot.cid]

\* An event replaces whatever the entry still had outstanding.
\* Mutant: an entry that is waiting for an acknowledgement keeps its packet.
KeepOutstanding(slot, pkt) ==
    IF slot.busy THEN slot
    ELSE [slot EXCEPT !.busy = TRUE, !.out = Forwarded(slot, pkt), !.retries = 0]

\* Mutant: the retries of the packet before are not forgotten.
KeepRetries(slot, pkt) == [slot EXCEPT !.busy = TRUE, !.out = Forwarded(slot, pkt)]

Outstanding(slot, pkt) ==
    [slot EXCEPT !.busy = TRUE, !.out = Forwarded(slot, pkt), !.retries = 0]

\* Every DATA packet is acknowledged and forwarded, a repeated one too.
BrokerData(p) ==
    up /\ \E k \in Receivable(toBroker[p]) :
        LET pkt == toBroker[p][k]
            to == {subs[i].addr : i \in DOMAIN subs}
            slotOf(s) == subs[CHOOSE i \in DOMAIN subs : subs[i].addr = s]
        IN
        /\ pkt.type = "data"
        /\ toBroker' = [toBroker EXCEPT ![p] = Without(@, k)]
        /\ subs' = [i \in DOMAIN subs |-> Outstanding(subs[i], pkt)]
        /\ handled' = handled \cup {pkt.event}
        /\ SendToClients([c \in {p} \cup to |->
                             IF c = p THEN Ack(pkt) ELSE Forwarded(slotOf(c), pkt)])
        /\ UNCHANGED <<cid, pubVars, subVars, runVars>>

\* Mutant: the stream and the connection are compared, the number is not.
AnswersAnyNumber(slot, pkt) ==
    slot.cid = pkt.cid /\ slot.busy /\ slot.out.stream = pkt.stream

Answers(slot, pkt) ==
    /\ slot.cid = pkt.cid /\ slot.busy
    /\ slot.out.num = pkt.num /\ slot.out.stream = pkt.stream

BrokerAck(s) ==
    up /\ \E k \in Receivable(toBroker[s]) :
        LET pkt == toBroker[s][k] IN
        /\ pkt.type = "ack"
        /\ toBroker' = [toBroker EXCEPT ![s] = Without(@, k)]
        /\ subs' = [i \in DOMAIN subs |->
                       IF Answers(subs[i], pkt)
                       THEN [subs[i] EXCEPT !.busy = FALSE, !.retries = 0]
                       ELSE subs[i]]
        /\ UNCHANGED <<cid, pubVars, subVars, runVars, handled, inbox, losses>>

\* Mutant: one repetition more than MAX_RETRIES.
OneRetryTooMany(slot) == slot.retries <= MaxRetries

RetriesLeft(slot) == slot.retries < MaxRetries

\* Mutant: the repetition is not counted.
NotCounted(slot) == slot

Counted(slot) == [slot EXCEPT !.retries = @ + 1]

\* The entry has a packet outstanding and its timer has run out.
Due(i) ==
    /\ up /\ i \in DOMAIN subs
    /\ subs[i].busy /\ TimerExpires(subs[i].addr)

\* There are retries left.
Retransmit(i) ==
    /\ Due(i) /\ RetriesLeft(subs[i])
    /\ SendToClients([c \in {subs[i].addr} |-> subs[i].out])
    /\ subs' = [subs EXCEPT ![i] = Counted(@)]
    /\ UNCHANGED <<cid, pubVars, subVars, runVars, handled, toBroker>>

\* The retries are spent.
GiveUp(i) ==
    /\ Due(i) /\ ~RetriesLeft(subs[i])
    /\ subs' = [subs EXCEPT ![i].busy = FALSE]
    /\ UNCHANGED <<cid, pubVars, subVars, runVars, handled, toBroker, inbox, losses>>

\* The broker process ends, and subs[] with it.
BrokerStop ==
    /\ up /\ boots < MaxBoots
    /\ up' = FALSE
    /\ subs' = <<>>
    /\ UNCHANGED <<cid, pubVars, subVars, boots, handled, toBroker, inbox, losses>>

\* It is started again, on the same port and with an empty table.
BrokerStart ==
    /\ ~up
    /\ up' = TRUE /\ boots' = boots + 1
    /\ UNCHANGED <<cid, pubVars, subVars, subs, handled, toBroker, inbox, losses>>

\* Meanwhile a datagram reaches a closed port.  The sockets of the clients are
\* not connected, so that the refusal is not reported to them.
Unreachable(c) ==
    /\ ~up
    /\ \E k \in Receivable(toBroker[c]) :
           toBroker' = [toBroker EXCEPT ![c] = Without(@, k)]
    /\ UNCHANGED <<cid, pubVars, subVars, brokerVars, inbox, losses>>

------------------------------------------------------------------------------

BrokerNext == \/ \E c \in Clients : BrokerHandshake(c)
              \/ \E p \in Pubs : BrokerData(p)
              \/ \E s \in Subs : BrokerAck(s)
              \/ \E i \in 1..MaxSubs : Retransmit(i) \/ GiveUp(i)
              \/ BrokerStop \/ BrokerStart

Next == \/ \E p \in Pubs : PubSend(p) \/ PubRecv(p) \/ PubTimeout(p)
        \/ \E s \in Subs : Subscribe(s) \/ SubRecv(s) \/ SubQuit(s)
        \/ \E c \in Clients : Unreachable(c)
        \/ BrokerNext

Spec == Init /\ [][Next]_vars

(***************************************************************************)
(* Every process that has started runs, a datagram the network keeps is    *)
(* read, and an armed timer runs out.  Nobody has to start a subscriber.   *)
(***************************************************************************)
Fairness ==
    /\ \A p \in Pubs : /\ WF_vars(PubSend(p))
                       /\ WF_vars(PubRecv(p)) /\ WF_vars(PubTimeout(p))
                       /\ WF_vars(BrokerData(p))
    /\ \A s \in Subs : WF_vars(SubRecv(s)) /\ WF_vars(BrokerAck(s))
    /\ \A c \in Clients : WF_vars(BrokerHandshake(c))
    /\ \A i \in 1..MaxSubs : WF_vars(Retransmit(i) \/ GiveUp(i))

FairSpec == Spec /\ Fairness

------------------------------------------------------------------------------
(* Properties                                                              *)

(***************************************************************************)
(* What a publisher holds for acknowledged, the broker has forwarded: an   *)
(* old acknowledgement never passes for that of a packet that was lost.    *)
(***************************************************************************)
AcknowledgedIsHandled ==
    \A p \in Pubs : \A n \in FirstEvent..LastEvent :
        n < num[p] => <<p, n>> \in handled

(***************************************************************************)
(* One conn_id has one entry, whoever shakes hands with it and how often,  *)
(* so that an acknowledgement concerns one entry.                          *)
(***************************************************************************)
OneEntryPerConnection ==
    \A i, j \in DOMAIN subs : subs[i].cid = subs[j].cid => i = j

Printed(s) == {got[s][k] : k \in DOMAIN got[s]}

\* The events of a publisher counted from 1, without its handshake.
FromOne(event) == <<event[1], event[2] - 1>>

Relay == INSTANCE AcknowledgedRelay
             WITH Total <- Events,
                  acked <- [p \in Pubs |-> IF num[p] < FirstEvent THEN 0
                                            ELSE num[p] - FirstEvent],
                  handled <- {FromOne(e) : e \in handled},
                  printed <- [s \in Subs |-> [k \in DOMAIN got[s] |-> FromOne(got[s][k])]]

(***************************************************************************)
(* Publishers and broker implement the acknowledged relay: one event at a  *)
(* time, none left out and none held for acknowledged that was lost,       *)
(* although datagrams are lost, repeated and overtaken and the broker may  *)
(* be ended and started again between any two steps.                       *)
(***************************************************************************)
ImplementsRelay == Relay!Spec

(***************************************************************************)
(* The broker stops repeating an event to a subscriber that has not        *)
(* printed it only because the retries are spent, or for another event, or *)
(* because it has been ended and remembers nothing.                        *)
(***************************************************************************)
ReleasedOnlyIfPrinted ==
    [][\A i \in DOMAIN subs \cap DOMAIN subs' :
           (subs[i].busy /\ ~subs'[i].busy) =>
               \/ subs[i].out.event \in Printed(subs[i].addr)
               \/ subs[i].retries = MaxRetries]_vars

(***************************************************************************)
(* On a path that keeps the order of datagrams, a subscriber never prints  *)
(* an event after a later one of the same publisher, although both hops    *)
(* repeat packets.                                                         *)
(***************************************************************************)
InOrder ==
    Fifo => \A s \in Subs : \A j, k \in DOMAIN got[s] :
                (j < k /\ got[s][j][1] = got[s][k][1]) => got[s][j][2] <= got[s][k][2]

(***************************************************************************)
(* On a path that keeps order, a publisher has all its packets             *)
(* acknowledged if it has a retry for each datagram lost and each that may *)
(* cross its timer.  A stale acknowledgement ends a wait and so costs an   *)
(* attempt, but all those the path can hold leave one attempt that counts. *)
(***************************************************************************)
PublisherSucceeds ==
    (Fifo /\ MaxLoss + Early <= PubRetries) => \A p \in Pubs : <>(ppc[p] = "done")

(***************************************************************************)
(* When the network loses no more datagrams than the broker has retries,   *)
(* a registered subscriber prints the last event of a publisher once the   *)
(* broker has it outstanding (no later event can take its place), or ends. *)
(***************************************************************************)
LastEventPrinted ==
    MaxLoss <= MaxRetries =>
        \A s \in Subs : \A p \in Pubs :
            (\E i \in DOMAIN subs : /\ subs[i].addr = s /\ subs[i].busy
                                    /\ subs[i].out.event = <<p, LastEvent>>)
                ~> (<<p, LastEvent>> \in Printed(s) \/ spc[s] = "gone")

(***************************************************************************)
(* The broker does not repeat a packet for ever: whatever the network and  *)
(* the subscriber do, one that has ended included, the entry is released.  *)
(***************************************************************************)
GivesUp ==
    \A i \in 1..MaxSubs :
        (i \in DOMAIN subs /\ subs[i].busy) ~> (i \in DOMAIN subs => ~subs[i].busy)

\* "Cuando el Broker recibe este paquete, registra al usuario inmediatamente"
\* (quic/README.md:16): a subscriber whose handshake is acknowledged is in subs[].
AcknowledgedIsRegistered ==
    \A s \in Subs : (\E k \in DOMAIN inbox[s] : inbox[s][k].type = "ack")
                        => \E i \in DOMAIN subs : subs[i].addr = s

\* "ACK del handshake (para que el cliente pueda retransmitir si se pierde)"
\* (broker_quic.c:125): a lost handshake is repeated until it has registered s.
HandshakeSurvivesLoss ==
    \A s \in Subs : spc[s] = "listen" ~> \E i \in DOMAIN subs : subs[i].addr = s
==============================================================================
