---------------------------- MODULE TcpAsmBroker ----------------------------
(***************************************************************************)
(* The TCP programs in assembly (tcp/tcp_asm/broker_tcp.asm,               *)
(* publisher_tcp.asm, subscriber_tcp.asm).                                 *)
(*                                                                         *)
(* The broker is one thread.  It accepts its subscribers first, a fixed    *)
(* number of them, and then one publisher after another: it relays what    *)
(* the publisher sends until that one's stream ends, and only then accepts *)
(* the next.  Clients that are not accepted wait in the queue of listen(). *)
(* The broker never reads from a subscriber and never closes one, so that  *)
(* it learns of a departure only when it sends.                            *)
(*                                                                         *)
(* A stream is a sequence of units, the smallest piece recvfrom() returns. *)
(***************************************************************************)
EXTENDS Naturals, Sequences, SequencesExt

CONSTANTS Pubs,     \* publisher processes
          Subs,     \* subscriber processes
          NumSubs,  \* subscribers the broker waits for (2)
          Backlog,  \* connections the queue of listen() holds
          Total,    \* units a publisher sends (its 10 messages)
          RecvMax,  \* units one recvfrom() returns at most (1024 bytes)
          SockBuf,  \* units a connection holds before sendto() blocks
          None      \* no publisher

ASSUME ProcessesAssumption == Pubs \cap Subs = {} /\ None \notin Pubs

ASSUME LimitsAssumption ==
    /\ NumSubs \in 1..10   \* sub_socks[] has 10 places
    /\ Backlog \in Nat \ {0}
    /\ Total \in Nat
    /\ RecvMax \in Nat \ {0}
    /\ SockBuf \in Nat /\ SockBuf >= RecvMax

VARIABLES
    pc,        \* where the broker stands: the label, or "down"
    subSocks,  \* sub_socks[], its first num_subs places
    client,    \* client_pub
    buffer,    \* buffer, bytes_recv long
    idx,       \* r12, counted from 1
    pubQueue,  \* publishers that are connected and not accepted
    subQueue,  \* subscribers that are
    sent,      \* sent[p]: units p has sent
    closed,    \* closed[p]: p has closed its end
    read,      \* read[p]: units of p that the broker has received
    conn,      \* conn[s]: the connection to s, as the broker's kernel sees it
    wire,      \* wire[s]: sent to s, not yet received by s
    got,       \* got[s]: what s has received
    turns      \* history: the publishers in the order they were accepted

brokerVars == <<pc, subSocks, client, buffer, idx, read, turns>>
pubVars == <<sent, closed>>
subVars == <<conn, wire, got>>
vars == <<pc, subSocks, client, buffer, idx, pubQueue, subQueue, sent, closed,
          read, conn, wire, got, turns>>

Unit(p, n) == <<p, n>>
Units == Pubs \X (1..Total)

\* "gone": the next sendto() raises SIGPIPE.
ConnState == {"none", "open", "fin", "reset", "gone"}

TypeOK ==
    /\ pc \in {"subs", "publisher", "recv", "broadcast", "down"}
    /\ subSocks \in Seq(Subs) /\ Len(subSocks) <= NumSubs
    /\ client \in Pubs \cup {None}
    /\ buffer \in Seq(Units) /\ Len(buffer) <= RecvMax
    /\ idx \in 1..(NumSubs + 1)
    /\ pubQueue \in Seq(Pubs) /\ Len(pubQueue) <= Backlog
    /\ subQueue \in Seq(Subs) /\ Len(subQueue) <= Backlog
    /\ sent \in [Pubs -> 0..Total]
    /\ closed \in [Pubs -> BOOLEAN]
    /\ read \in [Pubs -> 0..Total]
    /\ conn \in [Subs -> ConnState]
    /\ wire \in [Subs -> Seq(Units)]
    /\ got \in [Subs -> Seq(Units)]
    /\ turns \in Seq(Pubs)

Init ==
    /\ pc = "subs"
    /\ subSocks = <<>>
    /\ client = None
    /\ buffer = <<>>
    /\ idx = 1
    /\ pubQueue = <<>>
    /\ subQueue = <<>>
    /\ sent = [p \in Pubs |-> 0]
    /\ closed = [p \in Pubs |-> FALSE]
    /\ read = [p \in Pubs |-> 0]
    /\ conn = [s \in Subs |-> "none"]
    /\ wire = [s \in Subs |-> <<>>]
    /\ got = [s \in Subs |-> <<>>]
    /\ turns = <<>>

------------------------------------------------------------------------------
(* publisher_tcp.asm                                                       *)

Connected(p) == Contains(pubQueue, p) \/ Contains(turns, p)

\* connect() waits while the queue is full.
PubConnect(p) ==
    /\ pc # "down" /\ ~Connected(p)
    /\ Len(pubQueue) < Backlog
    /\ pubQueue' = Append(pubQueue, p)
    /\ UNCHANGED <<brokerVars, subQueue, pubVars, subVars>>

\* Mutant: one message more.
OneMessageMore(p) == sent[p] <= Total

\* p has messages left to send.
MessagesLeft(p) == sent[p] < Total

\* send_msg.  It does not matter whether the broker has accepted p.
PubSend(p) ==
    /\ pc # "down" /\ Connected(p)
    /\ ~closed[p] /\ MessagesLeft(p)
    /\ sent' = [sent EXCEPT ![p] = @ + 1]
    /\ UNCHANGED <<brokerVars, pubQueue, subQueue, closed, subVars>>

\* close() after the last message, or the end of the process before that.
PubClose(p) ==
    /\ Connected(p) /\ ~closed[p]
    /\ closed' = [closed EXCEPT ![p] = TRUE]
    /\ UNCHANGED <<brokerVars, pubQueue, subQueue, sent, subVars>>

------------------------------------------------------------------------------
(* subscriber_tcp.asm                                                      *)

SubConnect(s) ==
    /\ pc # "down" /\ conn[s] = "none"
    /\ Len(subQueue) < Backlog
    /\ subQueue' = Append(subQueue, s)
    /\ conn' = [conn EXCEPT ![s] = "open"]
    /\ UNCHANGED <<brokerVars, pubQueue, pubVars, wire, got>>

SubRead(s) ==
    /\ conn[s] = "open" /\ wire[s] # <<>>
    /\ got' = [got EXCEPT ![s] = Append(@, Head(wire[s]))]
    /\ wire' = [wire EXCEPT ![s] = Tail(@)]
    /\ UNCHANGED <<brokerVars, pubQueue, subQueue, pubVars, conn>>

\* recvfrom() returns 0 or an error: the broker is gone.
SubEof(s) ==
    /\ pc = "down"
    /\ conn[s] = "open" /\ wire[s] = <<>>
    /\ conn' = [conn EXCEPT ![s] = "fin"]
    /\ UNCHANGED <<brokerVars, pubQueue, subQueue, pubVars, wire, got>>

\* The process is ended.  Its kernel sends FIN, or RST when it has data that
\* was never read; data on its way then is lost.
SubQuit(s) ==
    /\ conn[s] = "open"
    /\ \E state \in {"fin"} \cup (IF wire[s] = <<>> THEN {} ELSE {"reset"}) :
           conn' = [conn EXCEPT ![s] = state]
    /\ wire' = [wire EXCEPT ![s] = <<>>]
    /\ UNCHANGED <<brokerVars, pubQueue, subQueue, pubVars, got>>

------------------------------------------------------------------------------
(* broker_tcp.asm                                                          *)

\* The subscriber that is being accepted is the last that is waited for.
EnoughSubs == Len(subSocks) + 1 >= NumSubs

\* .loop_subs: accept() takes a connection even if its other end is closed.
AcceptSub ==
    /\ pc = "subs" /\ subQueue # <<>>
    /\ subSocks' = Append(subSocks, Head(subQueue))
    /\ subQueue' = Tail(subQueue)
    /\ pc' = IF EnoughSubs THEN "publisher" ELSE "subs"
    /\ UNCHANGED <<client, buffer, idx, read, turns, pubQueue, pubVars, subVars>>

\* .esperar_publisher
AcceptPub ==
    /\ pc = "publisher" /\ pubQueue # <<>>
    /\ client' = Head(pubQueue)
    /\ turns' = Append(turns, Head(pubQueue))
    /\ pubQueue' = Tail(pubQueue)
    /\ pc' = "recv"
    /\ UNCHANGED <<subSocks, buffer, idx, read, subQueue, pubVars, subVars>>

\* .loop_recv: recvfrom() returns what has arrived, as much as fits.
Recv ==
    /\ pc = "recv"
    /\ \E k \in 1..RecvMax :
           /\ read[client] + k <= sent[client]
           /\ buffer' = [j \in 1..k |-> Unit(client, read[client] + j)]
           /\ read' = [read EXCEPT ![client] = @ + k]
    /\ idx' = 1
    /\ pc' = "broadcast"
    /\ UNCHANGED <<subSocks, client, turns, pubQueue, subQueue, pubVars, subVars>>

\* Mutants: a stream with nothing to read has ended; a closed one has ended
\* whatever is left to read.
EndedWhenEmpty == read[client] = sent[client]
EndedWhenClosed == closed[client]

\* recvfrom() returns 0.
StreamEnded == closed[client] /\ read[client] = sent[client]

\* .publisher_off
PublisherOff ==
    /\ pc = "recv"
    /\ StreamEnded
    /\ client' = None
    /\ pc' = "publisher"
    /\ UNCHANGED <<subSocks, buffer, idx, read, turns, pubQueue, subQueue, pubVars, subVars>>

\* The broker is about to sendto() sub_socks[i], which is s.
Sending(s) == pc = "broadcast" /\ idx <= Len(subSocks) /\ subSocks[idx] = s

Advance == /\ idx' = idx + 1
           /\ UNCHANGED <<pc, subSocks, client, buffer, read, turns, pubQueue, subQueue, pubVars>>

\* Mutant: sendto() does not wait, and what finds no room is lost.
SendOrDrop(s) ==
    /\ Sending(s) /\ conn[s] = "open"
    /\ wire' = [wire EXCEPT ![s] = IF Len(@) + Len(buffer) <= SockBuf
                                   THEN @ \o buffer ELSE @]
    /\ Advance
    /\ UNCHANGED <<conn, got>>

\* .loop_broadcast: sendto() waits for room in the connection.
Send(s) ==
    /\ Sending(s) /\ conn[s] = "open"
    /\ Len(wire[s]) + Len(buffer) <= SockBuf
    /\ wire' = [wire EXCEPT ![s] = @ \o buffer]
    /\ Advance
    /\ UNCHANGED <<conn, got>>

\* s has closed: sendto() succeeds, and is answered by RST, before the next
\* sendto() or later.
SendAfterFin(s) ==
    /\ Sending(s) /\ conn[s] = "fin"
    /\ \E state \in {"fin", "gone"} : conn' = [conn EXCEPT ![s] = state]
    /\ Advance
    /\ UNCHANGED <<wire, got>>

\* The first sendto() after a reset returns the error, which is not looked at.
SendError(s) ==
    /\ Sending(s) /\ conn[s] = "reset"
    /\ conn' = [conn EXCEPT ![s] = "gone"]
    /\ Advance
    /\ UNCHANGED <<wire, got>>

\* The next one raises SIGPIPE, which ends the broker.
SigPipe(s) ==
    /\ Sending(s) /\ conn[s] = "gone"
    /\ pc' = "down"
    /\ UNCHANGED <<subSocks, client, buffer, idx, read, turns, pubQueue, subQueue, pubVars, subVars>>

\* .broadcast_done
BroadcastDone ==
    /\ pc = "broadcast" /\ idx > Len(subSocks)
    /\ pc' = "recv"
    /\ UNCHANGED <<subSocks, client, buffer, idx, read, turns, pubQueue, subQueue, pubVars, subVars>>

SendStep == \E s \in Subs : Send(s) \/ SendAfterFin(s) \/ SendError(s) \/ SigPipe(s)

BrokerNext == \/ AcceptSub \/ AcceptPub \/ Recv \/ PublisherOff
              \/ SendStep \/ BroadcastDone

Next == \/ \E p \in Pubs : PubConnect(p) \/ PubSend(p) \/ PubClose(p)
        \/ \E s \in Subs : SubConnect(s) \/ SubRead(s) \/ SubEof(s) \/ SubQuit(s)
        \/ BrokerNext

Spec == Init /\ [][Next]_vars

(***************************************************************************)
(* The broker's one thread runs.  Nobody has to connect, to send, to read, *)
(* to close or to quit.                                                    *)
(***************************************************************************)
FairSpec == Spec /\ WF_vars(BrokerNext)

------------------------------------------------------------------------------
(* Properties                                                              *)

\* What the broker has received of p.
Received(p) == [n \in 1..read[p] |-> Unit(p, n)]

\* All that the broker has received, publisher after publisher.
log == FlattenSeq([i \in DOMAIN turns |-> Received(turns[i])])

\* The broadcast under way has still to serve s.
Pending(s) ==
    IF pc = "broadcast" /\ \E i \in idx..Len(subSocks) : subSocks[i] = s
    THEN buffer ELSE <<>>

(***************************************************************************)
(* Publishers are served in turn and whole: what an accepted subscriber    *)
(* has read, has on its way or is about to be sent are the streams of the  *)
(* accepted publishers, one after the other, from the first unit of the    *)
(* first one on, and each publisher but the current one complete.          *)
(***************************************************************************)
ServedInTurn ==
    /\ \A s \in Subs :
           (pc # "down" /\ Contains(subSocks, s) /\ conn[s] = "open") =>
               got[s] \o wire[s] \o Pending(s) = log
    /\ \A i \in DOMAIN turns :
           turns[i] # client => closed[turns[i]] /\ read[turns[i]] = sent[turns[i]]

TOB == INSTANCE TotalOrderBroadcast
           WITH entered <- read,
                joined <- ToSet(subSocks),
                from <- [s \in Subs |-> 0]

\* The broker implements the total-order broadcast, and every subscriber that
\* it accepts has joined before the first unit.
ImplementsBroadcast == TOB!Spec

\* The broker serves q, which is connected and neither sends nor closes, or
\* waits in sendto() for s, which is alive and does not read.
WaitsForPublisher(q) == pc = "recv" /\ client = q /\ ~closed[q] /\ read[q] = sent[q]
WaitsForSubscriber(s) == Sending(s) /\ conn[s] = "open" /\ Len(wire[s]) + Len(buffer) > SockBuf

(***************************************************************************)
(* What a publisher sends, waiting for its turn or not, reaches every      *)
(* accepted subscriber, unless that one leaves or does not read, or the    *)
(* broker is ended by SIGPIPE.  Two things alone can prevent it for good:  *)
(* a publisher that keeps its turn and is silent, and a subscriber that    *)
(* is alive and reads no more.                                             *)
(***************************************************************************)
Reaches ==
    \A p \in Pubs, s \in Subs, n \in 1..Total :
        \/ (Len(subSocks) = NumSubs /\ Contains(subSocks, s) /\ sent[p] >= n)
              ~> \/ pc = "down" \/ conn[s] # "open"
                 \/ Contains(got[s] \o wire[s], Unit(p, n))
        \/ \E q \in Pubs : <>[]WaitsForPublisher(q)
        \/ \E r \in Subs : <>[]WaitsForSubscriber(r)

==============================================================================
