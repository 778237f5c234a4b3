------------------------------ MODULE TcpBroker ------------------------------
(***************************************************************************)
(* The threaded TCP broker (tcp/tcp_C/broker_tcp.c) with the two programs  *)
(* that talk to it, publisher_tcp.c and subscriber_tcp.c.                  *)
(*                                                                         *)
(* Every accepted client has a handler thread of its own; pc[c] is where   *)
(* that thread stands.  The threads share the array subscribers[], and     *)
(* sub_mutex guards it.  A section under the mutex that cannot block (add  *)
(* an entry, remove one) is one step that needs the mutex free; the        *)
(* section of broadcast() can block in send(), so taking the mutex, each   *)
(* send() and releasing it are steps of their own.                         *)
(*                                                                         *)
(* Streams are cut in units, the smallest piece a recv() returns.  A TCP   *)
(* connection keeps no message boundary: a recv() may return several of    *)
(* the publisher's messages, or a part of one.                             *)
(***************************************************************************)
EXTENDS Naturals, Sequences, FiniteSets

CONSTANTS Pubs,        \* publisher processes
          Subs,        \* subscriber processes
          Fds,         \* the descriptors accept() can return
          MaxClients,  \* MAX_CLIENTS
          Total,       \* stream units a publisher sends (its `total` messages)
          RecvMax,     \* units one recv() returns at most (BUFFER_SIZE - 1)
          SockBuf,     \* units a connection holds before send() blocks
          NoMemory,    \* malloc() and pthread_create() may fail
          None         \* no thread, no client

ASSUME ClientsAssumption ==
    /\ Pubs \cap Subs = {}
    /\ None \notin Pubs \cup Subs \cup Fds

ASSUME BoundsAssumption ==
    /\ MaxClients \in Nat \ {0}
    /\ Total \in Nat
    /\ RecvMax \in Nat \ {0}
    /\ SockBuf \in Nat
    /\ SockBuf >= RecvMax   \* a socket buffer holds what one recv() returns
    /\ NoMemory \in BOOLEAN

Clients == Pubs \cup Subs

VARIABLES
    broker,       \* "up", "killed" by a signal, or "overrun": past subscribers[]
    mutex,        \* the thread in broadcast() that holds sub_mutex, or None
    subscribers,  \* the first num_sub entries of subscribers[]
    pc,           \* pc[c]: where the handler thread of c stands
    sock,         \* sock[c]: the thread's local variable sock
    desc,         \* desc[f]: the client that descriptor f connects to, or None
    sent,         \* sent[p]: units p has sent
    closed,       \* closed[p]: p has closed its end
    read,         \* read[p]: units the handler of p has received
    buffer,       \* buffer[p]: what the last recv() of p's handler returned
    idx,          \* idx[p]: the loop index of broadcast(), from 1
    conn,         \* conn[s]: the connection to s, as the broker's kernel sees it
    wire,         \* wire[s]: sent to s, not yet received by s
    got,          \* got[s]: what the recv() calls of s have returned
    log,          \* history: everything broadcast, in the order of the mutex
    from          \* history: from[s] is the length of log when s registered

net == <<sent, closed, conn, wire, got>>
history == <<log, from>>
vars == <<broker, mutex, subscribers, pc, sock, desc, sent, closed, read,
          buffer, idx, conn, wire, got, log, from>>

Unit(p, n) == <<p, n>>
Chunk(p, n, k) == [j \in 1..k |-> Unit(p, n + j)]

PubPC == {"idle", "backlog", "orphan", "recv", "lock", "send", "close", "done"}
SubPC == {"idle", "backlog", "orphan", "register", "recv", "deregister", "close", "done"}
ConnState == {"none", "open", "fin", "reset"}

TypeOK ==
    /\ broker \in {"up", "killed", "overrun"}
    /\ mutex \in Pubs \cup {None}
    /\ subscribers \in Seq(Fds) /\ Len(subscribers) <= MaxClients
    /\ pc \in [Clients -> PubPC \cup SubPC]
    /\ \A p \in Pubs : pc[p] \in PubPC
    /\ \A s \in Subs : pc[s] \in SubPC
    /\ sock \in [Clients -> Fds \cup {None}]
    /\ desc \in [Fds -> Clients \cup {None}]
    /\ sent \in [Pubs -> 0..Total]
    /\ closed \in [Pubs -> BOOLEAN]
    /\ read \in [Pubs -> 0..Total]
    /\ buffer \in [Pubs -> Seq(Pubs \X Nat)]
    /\ idx \in [Pubs -> Nat]
    /\ conn \in [Subs -> ConnState]
    /\ wire \in [Subs -> Seq(Pubs \X Nat)]
    /\ got \in [Subs -> Seq(Pubs \X Nat)]
    /\ log \in Seq(Pubs \X Nat)
    /\ from \in [Subs -> Nat]

Init ==
    /\ broker = "up"
    /\ mutex = None
    /\ subscribers = <<>>
    /\ pc = [c \in Clients |-> "idle"]
    /\ sock = [c \in Clients |-> None]
    /\ desc = [f \in Fds |-> None]
    /\ sent = [p \in Pubs |-> 0]
    /\ closed = [p \in Pubs |-> FALSE]
    /\ read = [p \in Pubs |-> 0]
    /\ buffer = [p \in Pubs |-> <<>>]
    /\ idx = [p \in Pubs |-> 1]
    /\ conn = [s \in Subs |-> "none"]
    /\ wire = [s \in Subs |-> <<>>]
    /\ got = [s \in Subs |-> <<>>]
    /\ log = <<>>
    /\ from = [s \in Subs |-> 0]

\* pthread_mutex_lock() can return.
\* Mutant: nobody waits for the mutex.
IgnoreMutex == TRUE

MutexFree == mutex = None

Goto(c, label) == pc' = [pc EXCEPT ![c] = label]

------------------------------------------------------------------------------
(* The clients, and the kernel between them and the broker.                *)

\* publisher_tcp.c: connect().  The kernel of the broker completes the
\* handshake; the connection waits in the queue of listen().
PubConnect(p) ==
    /\ broker = "up" /\ pc[p] = "idle"
    /\ Goto(p, "backlog")
    /\ UNCHANGED <<broker, mutex, subscribers, sock, desc, read, buffer, idx, net, history>>

\* publisher_tcp.c: one send() of its loop.
PubSend(p) ==
    /\ broker = "up" /\ pc[p] # "idle"
    /\ ~closed[p] /\ sent[p] < Total
    /\ sent' = [sent EXCEPT ![p] = @ + 1]
    /\ UNCHANGED <<broker, mutex, subscribers, pc, sock, desc, closed, read,
                   buffer, idx, conn, wire, got, history>>

\* publisher_tcp.c: close() after the last message, or the death of the
\* process at any earlier point.
PubClose(p) ==
    /\ pc[p] # "idle" /\ ~closed[p]
    /\ closed' = [closed EXCEPT ![p] = TRUE]
    /\ UNCHANGED <<broker, mutex, subscribers, pc, sock, desc, sent, read,
                   buffer, idx, conn, wire, got, history>>

SubConnect(s) ==
    /\ broker = "up" /\ pc[s] = "idle"
    /\ Goto(s, "backlog")
    /\ conn' = [conn EXCEPT ![s] = "open"]
    /\ UNCHANGED <<broker, mutex, subscribers, sock, desc, sent, closed, read,
                   buffer, idx, wire, got, history>>

\* subscriber_tcp.c: the loop around recv().
SubRead(s) ==
    /\ conn[s] = "open" /\ wire[s] # <<>>
    /\ got' = [got EXCEPT ![s] = Append(@, Head(wire[s]))]
    /\ wire' = [wire EXCEPT ![s] = Tail(@)]
    /\ UNCHANGED <<broker, mutex, subscribers, pc, sock, desc, sent, closed,
                   read, buffer, idx, conn, history>>

\* subscriber_tcp.c: recv() returns 0 once the broker is gone; close().
SubEof(s) ==
    /\ broker = "killed"
    /\ conn[s] = "open" /\ wire[s] = <<>>
    /\ conn' = [conn EXCEPT ![s] = "fin"]
    /\ UNCHANGED <<broker, mutex, subscribers, pc, sock, desc, sent, closed,
                   read, buffer, idx, wire, got, history>>

\* The subscriber process ends (Ctrl+C).  Its kernel sends FIN, or RST when
\* data it never read is still in the connection.
SubQuit(s) ==
    /\ conn[s] = "open"
    /\ \E state \in {"fin"} \cup (IF wire[s] = <<>> THEN {} ELSE {"reset"}) :
           conn' = [conn EXCEPT ![s] = state]
    /\ wire' = [wire EXCEPT ![s] = <<>>]
    /\ UNCHANGED <<broker, mutex, subscribers, pc, sock, desc, sent, closed,
                   read, buffer, idx, got, history>>

------------------------------------------------------------------------------
(* accept_publishers and accept_subscribers: accept() takes a descriptor   *)
(* that is free and a new detached thread gets it in a cell of its own.    *)
(* With no free descriptor accept() fails and the loop tries again.        *)

Accept(c) ==
    /\ broker = "up" /\ pc[c] = "backlog"
    /\ \E f \in Fds :
           /\ desc[f] = None
           /\ desc' = [desc EXCEPT ![f] = c]
           /\ sock' = [sock EXCEPT ![c] = f]
    /\ Goto(c, IF c \in Subs THEN "register" ELSE "recv")
    /\ UNCHANGED <<broker, mutex, subscribers, read, buffer, idx, net, history>>

\* accept() has succeeded and no thread is made for the client: its descriptor
\* stays open and nobody reads it.  pthread_create() is not checked, and then
\* pthread_detach() is given a tid that was never set, which may do nothing; a
\* malloc() that fails is written through.  Either may end the process.
AcceptNoThread(c) ==
    /\ NoMemory
    /\ broker = "up" /\ pc[c] = "backlog"
    /\ \E f \in Fds : desc[f] = None /\ desc' = [desc EXCEPT ![f] = c]
    /\ Goto(c, "orphan")
    /\ broker' \in {"up", "killed"}
    /\ UNCHANGED <<mutex, subscribers, sock, read, buffer, idx, net, history>>

\* close(sock) and the end of the thread, of either kind.
Close(c) ==
    /\ broker = "up" /\ pc[c] = "close"
    /\ desc' = [desc EXCEPT ![sock[c]] = None]
    /\ Goto(c, "done")
    /\ UNCHANGED <<broker, mutex, subscribers, sock, read, buffer, idx, net, history>>

------------------------------------------------------------------------------
(* handle_subscriber                                                       *)

\* Mutant: room is tested one entry too late.
RoomOffByOne == Len(subscribers) <= MaxClients

RoomInArray == Len(subscribers) < MaxClients

Register(s) ==
    /\ broker = "up" /\ pc[s] = "register" /\ MutexFree
    /\ RoomInArray
    /\ subscribers' = Append(subscribers, sock[s])
    /\ from' = [from EXCEPT ![s] = Len(log)]
    /\ Goto(s, "recv")
    /\ UNCHANGED <<broker, mutex, sock, desc, read, buffer, idx, net, log>>

\* subscribers[num_sub++] = sock has no test against MAX_CLIENTS.  Built as
\* the README says, the cell after the array is num_sub itself, and the list
\* means nothing any more: the model stops there.
RegisterPastEnd(s) ==
    /\ broker = "up" /\ pc[s] = "register" /\ MutexFree
    /\ ~RoomInArray
    /\ broker' = "overrun"
    /\ UNCHANGED <<mutex, subscribers, pc, sock, desc, read, buffer, idx, net, history>>

\* recv() returns 0 or -1: the subscriber's end is closed.
SubGone(s) ==
    /\ broker = "up" /\ pc[s] = "recv"
    /\ conn[s] \in {"fin", "reset"}
    /\ Goto(s, "deregister")
    /\ UNCHANGED <<broker, mutex, subscribers, sock, desc, read, buffer, idx, net, history>>

\* The list without its first entry f, the last entry moved to its place.
\* Mutant: the last entry is dropped and not moved.
DropLast(list, f) == SubSeq(list, 1, Len(list) - 1)

SwapRemove(list, f) ==
    IF \E k \in 1..Len(list) : list[k] = f
    THEN LET k == CHOOSE k \in 1..Len(list) :
                      list[k] = f /\ \A j \in 1..(k - 1) : list[j] # f
         IN  [j \in 1..(Len(list) - 1) |-> IF j = k THEN list[Len(list)] ELSE list[j]]
    ELSE list

Deregister(s) ==
    /\ broker = "up" /\ pc[s] = "deregister" /\ MutexFree
    /\ subscribers' = SwapRemove(subscribers, sock[s])
    /\ Goto(s, "close")
    /\ UNCHANGED <<broker, mutex, sock, desc, read, buffer, idx, net, history>>

------------------------------------------------------------------------------
(* handle_publisher and broadcast                                          *)

\* recv() returns what has arrived, up to the size of the buffer.
Recv(p) ==
    /\ broker = "up" /\ pc[p] = "recv"
    /\ \E k \in 1..RecvMax :
           /\ read[p] + k <= sent[p]
           /\ buffer' = [buffer EXCEPT ![p] = Chunk(p, read[p], k)]
           /\ read' = [read EXCEPT ![p] = @ + k]
    /\ Goto(p, "lock")
    /\ UNCHANGED <<broker, mutex, subscribers, sock, desc, idx, net, history>>

\* recv() returns 0: the stream is closed and nothing of it is left.
PubGone(p) ==
    /\ broker = "up" /\ pc[p] = "recv"
    /\ closed[p] /\ read[p] = sent[p]
    /\ Goto(p, "close")
    /\ UNCHANGED <<broker, mutex, subscribers, sock, desc, read, buffer, idx, net, history>>

\* broadcast(): pthread_mutex_lock() returns and the loop starts.
Lock(p) ==
    /\ broker = "up" /\ pc[p] = "lock" /\ MutexFree
    /\ mutex' = p
    /\ idx' = [idx EXCEPT ![p] = 1]
    /\ log' = log \o buffer[p]
    /\ Goto(p, "send")
    /\ UNCHANGED <<broker, subscribers, sock, desc, read, buffer, net, from>>

\* The handler of p is about to send() to subscribers[i], which is s.
Sending(p, s) ==
    /\ broker = "up" /\ pc[p] = "send"
    /\ idx[p] <= Len(subscribers)
    /\ desc[subscribers[idx[p]]] = s

Advance(p) == idx' = [idx EXCEPT ![p] = @ + 1]

\* send() copies the chunk into the connection; it blocks while there is no room.
Send(p, s) ==
    /\ Sending(p, s) /\ conn[s] = "open"
    /\ Len(wire[s]) + Len(buffer[p]) <= SockBuf
    /\ wire' = [wire EXCEPT ![s] = @ \o buffer[p]]
    /\ Advance(p)
    /\ UNCHANGED <<broker, mutex, subscribers, pc, sock, desc, sent, closed,
                   read, buffer, conn, got, history>>

\* The peer has closed: send() succeeds, and the answer to the data is RST,
\* which may arrive before the next send() or later.
SendAfterFin(p, s) ==
    /\ Sending(p, s) /\ conn[s] = "fin"
    /\ \E state \in {"fin", "reset"} : conn' = [conn EXCEPT ![s] = state]
    /\ Advance(p)
    /\ UNCHANGED <<broker, mutex, subscribers, pc, sock, desc, sent, closed,
                   read, buffer, wire, got, history>>

\* The connection is reset and send() returns -1, which nobody looks at.
SendError(p, s) ==
    /\ Sending(p, s) /\ conn[s] = "reset"
    /\ Advance(p)
    /\ UNCHANGED <<broker, mutex, subscribers, pc, sock, desc, read, buffer, net, history>>

\* The connection is reset and send(), without MSG_NOSIGNAL, raises SIGPIPE,
\* whose default action ends the whole process.
SigPipe(p, s) ==
    /\ Sending(p, s) /\ conn[s] = "reset"
    /\ broker' = "killed"
    /\ UNCHANGED <<mutex, subscribers, pc, sock, desc, read, buffer, idx, net, history>>

\* The loop of broadcast() has served every entry.
\* Mutant: it stops one entry early.
LoopDoneEarly(p) == idx[p] >= Len(subscribers)

LoopDone(p) == idx[p] > Len(subscribers)

\* The loop has ended: pthread_mutex_unlock(), and back to recv().
\* Mutant: the way out of the loop keeps the mutex.
UnlockForgotten(p) ==
    /\ broker = "up" /\ pc[p] = "send"
    /\ LoopDone(p)
    /\ Goto(p, "recv")
    /\ UNCHANGED <<broker, mutex, subscribers, sock, desc, read, buffer, idx, net, history>>

Unlock(p) ==
    /\ broker = "up" /\ pc[p] = "send"
    /\ LoopDone(p)
    /\ mutex' = None
    /\ Goto(p, "recv")
    /\ UNCHANGED <<broker, subscribers, sock, desc, read, buffer, idx, net, history>>

------------------------------------------------------------------------------

PubNext(p) == \/ PubConnect(p) \/ PubSend(p) \/ PubClose(p)
              \/ Accept(p) \/ AcceptNoThread(p)
              \/ Recv(p) \/ PubGone(p) \/ Lock(p) \/ Unlock(p) \/ Close(p)
              \/ \E s \in Subs : \/ Send(p, s) \/ SendAfterFin(p, s)
                                 \/ SendError(p, s) \/ SigPipe(p, s)

SubNext(s) == \/ SubConnect(s) \/ SubRead(s) \/ SubEof(s) \/ SubQuit(s)
              \/ Accept(s) \/ AcceptNoThread(s)
              \/ Register(s) \/ RegisterPastEnd(s)
              \/ SubGone(s) \/ Deregister(s) \/ Close(s)

Next == \/ \E p \in Pubs : PubNext(p)
        \/ \E s \in Subs : SubNext(s)

Spec == Init /\ [][Next]_vars

(***************************************************************************)
(* The broker's threads run.  Nobody has to connect, to send or to quit,   *)
(* and a subscriber process that is alive need not call recv().  The mutex *)
(* is not assumed fair: broadcasts are finitely many, so weak fairness of  *)
(* the steps that take it is enough.                                       *)
(***************************************************************************)
Fairness ==
    /\ \A p \in Pubs :
           /\ WF_vars(Accept(p)) /\ WF_vars(Recv(p)) /\ WF_vars(PubGone(p))
           /\ WF_vars(Lock(p)) /\ WF_vars(Unlock(p)) /\ WF_vars(Close(p))
           /\ WF_vars(\E s \in Subs : \/ Send(p, s) \/ SendAfterFin(p, s)
                                      \/ SendError(p, s) \/ SigPipe(p, s))
    /\ \A s \in Subs :
           /\ WF_vars(Accept(s)) /\ WF_vars(Register(s) \/ RegisterPastEnd(s))
           /\ WF_vars(SubGone(s)) /\ WF_vars(Deregister(s)) /\ WF_vars(Close(s))

FairSpec == Spec /\ Fairness

------------------------------------------------------------------------------
(* Properties                                                              *)

\* The handler of s has entered s in subscribers[] and not yet removed it.
Listed(s) == pc[s] \in {"recv", "deregister"}

\* The handler of c owns an open descriptor.
Live(c) == pc[c] \in {"register", "recv", "lock", "send", "deregister", "close"}

(***************************************************************************)
(* subscribers[] holds the descriptor of every listed subscriber once and  *)
(* nothing else: no entry outlives the descriptor it names, although       *)
(* accept() hands closed descriptors out again, to publishers too.         *)
(***************************************************************************)
RegistryExact ==
    /\ \A j, k \in 1..Len(subscribers) : subscribers[j] = subscribers[k] => j = k
    /\ \A k \in 1..Len(subscribers) :
           \E s \in Subs : Listed(s) /\ sock[s] = subscribers[k] /\ desc[sock[s]] = s
    /\ \A s \in Subs : Listed(s) => \E k \in 1..Len(subscribers) : subscribers[k] = sock[s]

\* The part of the broadcast under way that s is still to be sent.
Pending(s) ==
    IF mutex # None /\ \E k \in 1..Len(subscribers) :
                           k >= idx[mutex] /\ subscribers[k] = sock[s]
    THEN buffer[mutex]
    ELSE <<>>

(***************************************************************************)
(* A subscriber that is listed and alive has read, or has on the way, or   *)
(* is about to be sent by the broadcast under way, exactly what has been   *)
(* broadcast since it registered: nothing lost, doubled or out of order    *)
(* when other subscribers come and go during the broadcasts.               *)
(***************************************************************************)
StreamIntegrity ==
    \A s \in Subs :
        Listed(s) /\ conn[s] = "open" =>
            got[s] \o wire[s] \o Pending(s) = SubSeq(log, from[s] + 1, Len(log))

\* The number of p's units that broadcast() has begun to relay.
Entered(p) == IF pc[p] = "lock" THEN read[p] - Len(buffer[p]) ELSE read[p]

TOB == INSTANCE TotalOrderBroadcast
           WITH entered <- [p \in Pubs |-> Entered(p)],
                joined <- {s \in Subs : pc[s] \in {"recv", "deregister", "close", "done"}}

\* The broker implements the total-order broadcast, whatever dies and when.
ImplementsBroadcast == TOB!Spec

\* The connection to s holds data that s, which is alive, has not read.
Unread(s) == conn[s] = "open" /\ wire[s] # <<>>

\* One thread is in send() to s with the mutex, and has no room for its chunk.
Stalled(s) ==
    /\ mutex # None /\ Sending(mutex, s) /\ conn[s] = "open"
    /\ Len(wire[s]) + Len(buffer[mutex]) > SockBuf

(***************************************************************************)
(* What a publisher has sent is broadcast, unless the broker is gone.  One *)
(* thing alone can prevent it: a subscriber that is alive and reads no     *)
(* more, to which broadcast() sends with the mutex held.                   *)
(***************************************************************************)
Relayed ==
    \A p \in Pubs : \A n \in 1..Total :
        \/ sent[p] >= n ~> (broker # "up" \/ \E k \in 1..Len(log) : log[k] = Unit(p, n))
        \/ \E s \in Subs : <>[]Stalled(s)

(***************************************************************************)
(* What is broadcast while s is listed reaches s, unless s or the broker   *)
(* is gone, or a subscriber that is alive, be it s, reads no more.         *)
(***************************************************************************)
Received ==
    \A s \in Subs : \A n \in 1..(Total * Cardinality(Pubs)) :
        \/ (Listed(s) /\ from[s] < n /\ n <= Len(log))
              ~> (broker # "up" \/ conn[s] # "open" \/ from[s] + Len(got[s]) >= n)
        \/ \E r \in Subs : <>[]Unread(r)

(***************************************************************************)
(* The handler of a subscriber that is gone ends and frees its descriptor, *)
(* unless the broker is gone or stalled by a subscriber that reads no      *)
(* more: it is never stuck behind the mutex for another reason.            *)
(***************************************************************************)
HandlerEnds ==
    \A s \in Subs :
        \/ conn[s] \in {"fin", "reset"} ~> (broker # "up" \/ pc[s] = "done")
        \/ \E r \in Subs : <>[]Stalled(r)

(***************************************************************************)
(* "En este caso los hilos nunca terminan, asi que el broker corre         *)
(* indefinidamente" (broker_tcp.c:255): no signal ends the broker.         *)
(***************************************************************************)
RunsIndefinitely == broker # "killed"

(***************************************************************************)
(* "Arreglo que guarda el socket de cada subscriber conectado"             *)
(* (broker_tcp.c:24): no registration writes outside of the array.         *)
(***************************************************************************)
ArrayHoldsEverySubscriber == broker # "overrun"
==============================================================================
