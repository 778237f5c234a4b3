------------------------------ MODULE UdpBroker ------------------------------
(***************************************************************************)
(* The UDP programs (udp/udp_C/broker_udp.c, publisher_udp.c,              *)
(* subscriber_udp.c).  A subscriber asks for topics with SUB and is known  *)
(* to the broker by its address; a publisher sends PUB on one topic; the   *)
(* broker keeps a table of addresses per topic and sends NEWS to them.     *)
(*                                                                         *)
(* Nothing is acknowledged, ordered or repeated.  A datagram that is never *)
(* received is a lost one.  A subscriber that ends stays in the table, and *)
(* its address may pass to another process.  The broker may be ended and   *)
(* started again on its port.                                              *)
(***************************************************************************)
EXTENDS Naturals, Sequences, FiniteSets

CONSTANTS Pubs,       \* publisher processes
          Subs,       \* subscriber processes
          Addrs,      \* addresses (IP and port) of subscribers
          Topics,     \* topics, no two of the same text
          Published,  \* topics on the command lines of publishers
          Wishes,     \* the command lines of subscribers: sequences of topics
          MaxTopics,  \* PUBSUB_UDP_MAX_TOPICS
          MaxSubs,    \* PUBSUB_UDP_MAX_SUBS_PER_TOPIC
          Events,     \* how many notices a publisher sends
          MaxBoots,   \* how often the broker is started again
          NoAddr      \* of a subscriber that does not run

ASSUME SetsAssumption ==
    /\ NoAddr \notin Addrs
    /\ Published \subseteq Topics
    /\ Wishes \subseteq Seq(Topics) \ {<<>>}

ASSUME LimitsAssumption ==
    /\ MaxTopics \in Nat \ {0} /\ MaxSubs \in Nat \ {0}
    /\ Events \in Nat /\ MaxBoots \in Nat

VARIABLES
    topicOf,   \* topicOf[p]: the topic on p's command line
    refused,   \* refused[p]: p's next send() fails
    sent,      \* sent[p]: notices p has sent
    args,      \* args[s]: the topics on s's command line, none before it starts
    subbed,    \* subbed[s]: how many of them s has sent a SUB for
    addr,      \* addr[s]: the address s has
    printed,   \* printed[s]: the NEWS s has printed
    up,        \* the broker runs
    boots,     \* how often it has been started again
    topics,    \* g_topics[], its first g_n_topics entries
    net,       \* the datagrams on their way
    asked,     \* history: asked[a]: the topics of the SUBs sent from a
    handled,   \* history: the notices whose PUB the broker has read
    notified   \* history: <<n, a>>: notice n has been sent to address a

pubVars == <<topicOf, refused, sent>>
subVars == <<args, subbed, addr, printed>>
brokerVars == <<up, boots, topics, handled, notified>>
vars == <<topicOf, refused, sent, args, subbed, addr, printed,
          up, boots, topics, net, asked, handled, notified>>

Notices == Pubs \X (1..Events)

------------------------------------------------------------------------------
(* Lengths                                                                 *)

MaxMsg == 1400       \* PUBSUB_UDP_MAX_MSG
MaxTopicLen == 63    \* PUBSUB_UDP_MAX_TOPIC_LEN
StampSize == 48      \* ts[], the time stamp before a text

\* Mutant: a line as long as a datagram is read.
LineOfMaxMsg == MaxMsg

\* line[], a text typed by the user.
LineSize == 1024

\* The longest line and text of a PUB and of a NEWS, with the longest topic.
PubLen(len) == 4 + MaxTopicLen + 1 + len + 1
NewsLen(len) == 5 + MaxTopicLen + 1 + len + 1

\* The names of home and away that topic_to_teams() finds in a topic: "Rival" is
\* away when nothing follows "_vs_", and when nothing comes before it.
TeamLens ==
    {teams \in [home : 0..MaxTopicLen, away : 1..MaxTopicLen] :
        \/ teams.away = 5
        \/ teams.home > 0 /\ teams.home + 4 + teams.away <= MaxTopicLen}

\* The texts of the demo: their own bytes, and how often they name each team.
Event(own, home, away) == [own |-> own, home |-> home, away |-> away]
Timeline == <<
    Event(49, 2, 1), Event(50, 0, 0), Event(38, 0, 1), Event(42, 1, 0), Event(41, 0, 1),
    Event(50, 0, 1), Event(39, 1, 0), Event(55, 1, 1), Event(25, 0, 0), Event(50, 1, 0),
    Event(28, 0, 1), Event(42, 0, 1), Event(45, 1, 0), Event(40, 0, 0), Event(43, 1, 1)>>

DemoLen(i, teams) ==
    Timeline[i].own + Timeline[i].home * teams.home + Timeline[i].away * teams.away

\* msgbuf[], a text of the demo: the publisher stops at one that does not fit.
TextSize == 512
DemoLens == {len \in {DemoLen(i, teams) : i \in DOMAIN Timeline, teams \in TeamLens} :
                len < TextSize}

\* Lengths of stamp and text, of the demo or typed, that send_pub() lets pass.
BodyLens ==
    {len \in {stamp + text : stamp \in 0..(StampSize - 1),
                             text \in DemoLens \cup 1..(LineSize - 1)} :
        len < MaxMsg /\ PubLen(len) < MaxMsg + 1}

\* Only the longest matters: a shorter one is cut or refused nowhere.
Longest == CHOOSE len \in BodyLens : \A other \in BodyLens : other <= len

------------------------------------------------------------------------------
(* Datagrams and their types                                               *)

\* Two equal SUBs on their way count as one (the other is a lost one).  NEWS of
\* one PUB are told apart by the entry i of the topic that they are sent for.
Sub(a, t) == [type |-> "SUB", from |-> a, topic |-> t]
Pub(n, t, len) == [type |-> "PUB", notice |-> n, topic |-> t, len |-> len]
SubOk(a, t, b) == [type |-> "OK SUB", to |-> a, topic |-> t, boot |-> b]
News(n, t, a, i) == [type |-> "NEWS", to |-> a, topic |-> t, notice |-> n, entry |-> i]

NewsType == [type : {"NEWS"}, to : Addrs, topic : Topics, notice : Notices,
             entry : 1..MaxSubs]

Datagram ==
         [type : {"SUB"}, from : Addrs, topic : Topics]
    \cup [type : {"PUB"}, notice : Notices, topic : Topics, len : BodyLens]
    \cup [type : {"OK SUB"}, to : Addrs, topic : Topics, boot : 0..MaxBoots]
    \cup NewsType

Bucket == [topic : Topics, subs : Seq(Addrs)]

TypeOK ==
    /\ topicOf \in [Pubs -> Published]
    /\ refused \in [Pubs -> BOOLEAN]
    /\ sent \in [Pubs -> 0..Events]
    /\ args \in [Subs -> Wishes \cup {<<>>}]
    /\ subbed \in [Subs -> Nat] /\ \A s \in Subs : subbed[s] <= Len(args[s])
    /\ addr \in [Subs -> Addrs \cup {NoAddr}]
    /\ printed \in [Subs -> SUBSET NewsType]
    /\ up \in BOOLEAN /\ boots \in 0..MaxBoots
    /\ topics \in Seq(Bucket) /\ Len(topics) <= MaxTopics
    /\ \A i \in DOMAIN topics : Len(topics[i].subs) \in 1..MaxSubs
    /\ net \subseteq Datagram
    /\ asked \in [Addrs -> SUBSET Topics]
    /\ handled \subseteq Notices
    /\ notified \subseteq Notices \X Addrs

Init ==
    /\ topicOf \in [Pubs -> Published]
    /\ refused = [p \in Pubs |-> FALSE]
    /\ sent = [p \in Pubs |-> 0]
    /\ args = [s \in Subs |-> <<>>]
    /\ subbed = [s \in Subs |-> 0]
    /\ addr = [s \in Subs |-> NoAddr]
    /\ printed = [s \in Subs |-> {}]
    /\ up = TRUE
    /\ boots = 0
    /\ topics = <<>>
    /\ net = {}
    /\ asked = [a \in Addrs |-> {}]
    /\ handled = {}
    /\ notified = {}

------------------------------------------------------------------------------
(* publisher_udp.c                                                         *)

\* A send() that fails ends the publisher: one that has been refused sends
\* nothing more.
PubSend(p) ==
    /\ ~refused[p] /\ sent[p] < Events
    /\ sent' = [sent EXCEPT ![p] = @ + 1]
    /\ net' = net \cup {Pub(<<p, sent[p] + 1>>, topicOf[p], Longest)}
    /\ UNCHANGED <<topicOf, refused, subVars, brokerVars, asked>>

------------------------------------------------------------------------------
(* subscriber_udp.c                                                        *)

Free(a) == \A s \in Subs : addr[s] # a

\* The kernel gives the socket any address that no process has.
SubStart(s) ==
    /\ args[s] = <<>>
    /\ \E a \in Addrs, w \in Wishes :
           /\ Free(a)
           /\ addr' = [addr EXCEPT ![s] = a]
           /\ args' = [args EXCEPT ![s] = w]
    /\ UNCHANGED <<pubVars, subbed, printed, brokerVars, net, asked>>

SubSend(s) ==
    /\ addr[s] # NoAddr /\ subbed[s] < Len(args[s])
    /\ LET t == args[s][subbed[s] + 1] IN
           /\ net' = net \cup {Sub(addr[s], t)}
           /\ asked' = [asked EXCEPT ![addr[s]] = @ \cup {t}]
    /\ subbed' = [subbed EXCEPT ![s] = @ + 1]
    /\ UNCHANGED <<pubVars, args, addr, printed, brokerVars>>

\* s reads once all its SUBs are sent, and prints the news that come to its
\* address, for whomever they were meant.  OK SUB is only displayed: that it is
\* read is left out, and it stays in net.
SubRecv(s) ==
    /\ addr[s] # NoAddr /\ subbed[s] = Len(args[s])
    /\ \E d \in net :
           /\ d.type = "NEWS" /\ d.to = addr[s]
           /\ net' = net \ {d}
           /\ printed' = [printed EXCEPT ![s] = @ \cup {d}]
    /\ UNCHANGED <<pubVars, args, subbed, addr, brokerVars, asked>>

SubQuit(s) ==
    /\ addr[s] # NoAddr
    /\ addr' = [addr EXCEPT ![s] = NoAddr]
    /\ UNCHANGED <<pubVars, args, subbed, printed, brokerVars, net, asked>>

------------------------------------------------------------------------------
(* broker_udp.c                                                            *)

Known(t) == \E i \in DOMAIN topics : topics[i].topic = t

\* Mutant: the texts are not compared.
FirstEntry(t) == 1

\* find_topic_index: the first entry with this topic.
FindTopic(t) == CHOOSE i \in DOMAIN topics :
                    /\ topics[i].topic = t
                    /\ \A j \in 1..(i - 1) : topics[j].topic # t

EnsureTopic(t) ==
    IF Known(t) THEN topics ELSE Append(topics, [topic |-> t, subs |-> <<>>])

\* Mutant: one entry more than there is room for.
RoomOffByOne(t) == Known(t) \/ Len(topics) <= MaxTopics

HasRoom(t) == Known(t) \/ Len(topics) < MaxTopics

\* Mutant: an address that is there already is entered again.
AddWithoutLooking(b, a) ==
    IF Len(b.subs) >= MaxSubs THEN b ELSE [b EXCEPT !.subs = Append(@, a)]

\* Mutant: a topic is taken for full when one place is left.
FullTooEarly(b, a) ==
    IF Len(b.subs) + 1 >= MaxSubs \/ \E i \in DOMAIN b.subs : b.subs[i] = a
    THEN b
    ELSE [b EXCEPT !.subs = Append(@, a)]

\* add_subscriber_to_topic, on one bucket.
AddSubscriber(b, a) ==
    IF Len(b.subs) >= MaxSubs \/ \E i \in DOMAIN b.subs : b.subs[i] = a
    THEN b
    ELSE [b EXCEPT !.subs = Append(@, a)]

\* The bucket of t gets address a; there is room for the bucket.
Enter(t, a) ==
    [i \in DOMAIN EnsureTopic(t) |->
        IF i = IF Known(t) THEN FindTopic(t) ELSE Len(topics) + 1
        THEN AddSubscriber(EnsureTopic(t)[i], a)
        ELSE topics[i]]

\* A SUB is confirmed whether or not the topic had room for the address, and
\* is dropped when the table has no room for the topic.
HandleSubscribe ==
    /\ up
    /\ \E d \in net :
           /\ d.type = "SUB"
           /\ IF HasRoom(d.topic)
              THEN /\ topics' = Enter(d.topic, d.from)
                   /\ net' = (net \ {d}) \cup {SubOk(d.from, d.topic, boots)}
              ELSE /\ net' = net \ {d}
                   /\ UNCHANGED topics
    /\ UNCHANGED <<pubVars, subVars, up, boots, asked, handled, notified>>

\* Mutant: the loop stops before the last entry.
AllButLast(b) == 1..(Len(b.subs) - 1)

\* The entries that the loop of handle_publish goes through.
Loop(b) == DOMAIN b.subs

\* One NEWS for each of them.
NewsOf(b, d) == {News(d.notice, d.topic, b.subs[i], i) : i \in Loop(b)}

HandlePublish ==
    /\ up
    /\ \E d \in net :
           /\ d.type = "PUB"
           /\ handled' = handled \cup {d.notice}
           /\ IF Known(d.topic) /\ NewsLen(d.len) < MaxMsg
              THEN LET b == topics[FindTopic(d.topic)] IN
                   /\ net' = (net \ {d}) \cup NewsOf(b, d)
                   /\ notified' = notified \cup {<<d.notice, b.subs[i]>> : i \in Loop(b)}
              ELSE /\ net' = net \ {d}
                   /\ UNCHANGED notified
    /\ UNCHANGED <<pubVars, subVars, up, boots, topics, asked>>

------------------------------------------------------------------------------
(* The broker process                                                      *)

\* Ctrl+C: the table is gone, the clients are not told.
BrokerStop ==
    /\ up /\ boots < MaxBoots
    /\ up' = FALSE
    /\ topics' = <<>>
    /\ UNCHANGED <<pubVars, subVars, boots, net, asked, handled, notified>>

BrokerStart ==
    /\ ~up
    /\ up' = TRUE
    /\ boots' = boots + 1
    /\ UNCHANGED <<pubVars, subVars, topics, net, asked, handled, notified>>

\* p's socket is connected: a PUB that finds no broker makes its next send() fail.
Unreachable(p) ==
    /\ ~up
    /\ \E d \in net :
           /\ d.type = "PUB" /\ d.notice[1] = p
           /\ net' = net \ {d}
    /\ refused' = [refused EXCEPT ![p] = TRUE]
    /\ UNCHANGED <<topicOf, sent, subVars, brokerVars, asked>>

Next == \/ \E p \in Pubs : PubSend(p) \/ Unreachable(p)
        \/ \E s \in Subs : SubStart(s) \/ SubSend(s) \/ SubRecv(s) \/ SubQuit(s)
        \/ HandleSubscribe \/ HandlePublish
        \/ BrokerStop \/ BrokerStart

Spec == Init /\ [][Next]_vars

------------------------------------------------------------------------------
(* Properties                                                              *)

Entered(t, a) == \E i \in DOMAIN topics :
                     topics[i].topic = t /\ \E k \in DOMAIN topics[i].subs :
                                                topics[i].subs[k] = a

Full(t) == \E i \in DOMAIN topics :
               topics[i].topic = t /\ Len(topics[i].subs) = MaxSubs

(***************************************************************************)
(* One entry per topic and one per address in it, however often a SUB is   *)
(* repeated and by whom; and no address is entered that did not ask.       *)
(***************************************************************************)
TableExact ==
    /\ \A i, j \in DOMAIN topics : topics[i].topic = topics[j].topic => i = j
    /\ \A i \in DOMAIN topics : \A j, k \in DOMAIN topics[i].subs :
           topics[i].subs[j] = topics[i].subs[k] => j = k
    /\ \A t \in Topics, a \in Addrs : Entered(t, a) => t \in asked[a]

(***************************************************************************)
(* No process prints a notice twice, although it may name a topic twice,   *)
(* inherit an address that was in the table, and outlive the broker.       *)
(***************************************************************************)
PrintedOnce ==
    \A s \in Subs : \A d, e \in printed[s] : d.notice = e.notice => d = e

(***************************************************************************)
(* A notice goes only to an address from which its own publisher's topic   *)
(* was asked for, be it by a process that had the address before.          *)
(***************************************************************************)
NewsWasAsked ==
    \A d \in net :
        d.type = "NEWS" => topicOf[d.notice[1]] \in asked[d.to]

(***************************************************************************)
(* A confirmation that has been sent means that the address is entered,    *)
(* unless the topic is full (broker_udp.c:136) or the broker has been      *)
(* started again.                                                          *)
(***************************************************************************)
ConfirmedIsEntered ==
    \A d \in net :
        (d.type = "OK SUB" /\ up /\ d.boot = boots) =>
            Entered(d.topic, d.to) \/ Full(d.topic)

(***************************************************************************)
(* What a publisher can send is never dropped for being too long as NEWS,  *)
(* which is one byte longer than the PUB it came in.                       *)
(***************************************************************************)
NewsFits == \A d \in net : d.type = "PUB" => NewsLen(d.len) < MaxMsg

\* The addresses the table holds for topic t.
Members(t) == {a \in Addrs : Entered(t, a)}

Notifier == INSTANCE TopicNotifier WITH members <- [t \in Topics |-> Members(t)]

\* The broker implements the notifier: each notice that it reads is sent, once,
\* to exactly the addresses in the table, which stays within its limits.
ImplementsNotifier == Notifier!Spec
==============================================================================
