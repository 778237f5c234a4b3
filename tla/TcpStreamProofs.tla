--------------------------- MODULE TcpStreamProofs ---------------------------
(***************************************************************************)
(* Theorems about what TcpBroker relays: the stream each subscriber gets,  *)
(* and that the broker implements a total-order broadcast.                 *)
(***************************************************************************)
EXTENDS TcpBrokerProofs, SequenceLemmas

USE ClientsAssumption, BoundsAssumption DEF Clients

Units == Pubs \X Nat

------------------------------------------------------------------------------
(* The invariant                                                           *)

\* The handler inside broadcast() is the one that holds sub_mutex, and the
\* loop of every broadcast counts from 1 (broker_tcp.c:41-54).
MutexHolder ==
    \A p \in Pubs : (pc[p] = "send" <=> mutex = p) /\ idx[p] >= 1

\* Nobody registers later in the log than it is long.
RegisteredInLog == \A s \in Subs : from[s] <= Len(log)

\* Nothing is sent to a subscriber before it is registered.
NothingSentYet ==
    \A s \in Subs :
        pc[s] \in {"idle", "backlog", "orphan", "register"} =>
            got[s] = <<>> /\ wire[s] = <<>>

\* The handler of a subscriber leaves its loop when the other end is closed.
LeftWhenClosed ==
    \A s \in Subs : pc[s] \in {"deregister", "close", "done"} => conn[s] # "open"

\* What a handler is about to broadcast is the last part of what it has read.
BufferIsNext ==
    \A p \in Pubs :
        pc[p] = "lock" =>
            \E k \in 1..read[p] : buffer[p] = Chunk(p, read[p] - k, k)

Books == /\ MutexHolder /\ RegisteredInLog /\ NothingSentYet
         /\ LeftWhenClosed /\ BufferIsNext

\* StreamIntegrity is not inductive alone.  That Send() takes a chunk from what
\* is pending for s alone rests on RegistryExact; that a registration finds
\* nothing pending, and that the list stands still during a broadcast, on the
\* mutex; that a new subscriber starts with nothing, on NothingSentYet.
StreamInv == RegistryInv /\ Books /\ StreamIntegrity

------------------------------------------------------------------------------
(* The bookkeeping                                                         *)

\* The step of a publisher, or of its handler, moves that handler alone.
LEMMA PubMoves ==
    ASSUME TypeOK, NEW p \in Pubs, PubNext(p)
    PROVE  \A c \in Clients : c # p => pc'[c] = pc[c]
<1>1. \/ pc' = pc
      \/ \E to \in PubPC : pc' = [pc EXCEPT ![p] = to]
  BY DEF PubNext, PubConnect, PubSend, PubClose, Accept, AcceptNoThread, Recv, PubGone,
         Lock, Unlock, Close, Send, SendAfterFin, SendError, SigPipe, Goto, PubPC
<1> QED
  BY <1>1 DEF TypeOK

LEMMA SubMoves ==
    ASSUME TypeOK, NEW s \in Subs, SubNext(s)
    PROVE  /\ \A c \in Clients : c # s => pc'[c] = pc[c]
           /\ mutex' = mutex /\ idx' = idx /\ buffer' = buffer /\ read' = read /\ log' = log
<1>1. \/ pc' = pc
      \/ \E to \in SubPC : pc' = [pc EXCEPT ![s] = to]
  BY DEF SubNext, SubConnect, SubRead, SubEof, SubQuit, Accept, AcceptNoThread, Register,
         RegisterPastEnd, SubGone, Deregister, Close, Goto, SubPC
<1>2. mutex' = mutex /\ idx' = idx /\ buffer' = buffer /\ read' = read /\ log' = log
  BY DEF SubNext, SubConnect, SubRead, SubEof, SubQuit, Accept, AcceptNoThread, Register,
         RegisterPastEnd, SubGone, Deregister, Close, history
<1> QED
  BY <1>1, <1>2 DEF TypeOK

LEMMA PubNextHolder ==
    ASSUME TypeOK, MutexHolder, NEW p \in Pubs, PubNext(p)
    PROVE  MutexHolder'
<1>1. \A q \in Pubs : q # p => pc'[q] = pc[q]
  BY PubMoves
<1>2. ASSUME NEW q \in Pubs
      PROVE  idx'[q] >= 1
  <2>1. \/ idx' = idx
        \/ idx' = [idx EXCEPT ![p] = 1]
        \/ idx' = [idx EXCEPT ![p] = @ + 1]
    BY DEF PubNext, PubConnect, PubSend, PubClose, Accept, AcceptNoThread, Recv, PubGone,
           Lock, Unlock, Close, Send, SendAfterFin, SendError, SigPipe, Advance
  <2>2. idx \in [Pubs -> Nat] /\ idx[q] >= 1
    BY DEF TypeOK, MutexHolder
  <2>3. CASE idx' = idx
    BY <2>2, <2>3
  <2>4. CASE idx' = [idx EXCEPT ![p] = 1]
    BY <2>2, <2>4
  <2>5. CASE idx' = [idx EXCEPT ![p] = @ + 1]
    BY <2>2, <2>5
  <2> QED
    BY <2>1, <2>3, <2>4, <2>5
<1>3. ASSUME NEW q \in Pubs
      PROVE  pc'[q] = "send" <=> mutex' = q
  <2>1. CASE Lock(p)
    <3>1. mutex = None /\ mutex' = p /\ pc' = [pc EXCEPT ![p] = "send"]
      BY <2>1 DEF Lock, MutexFree, Goto
    <3> QED
      BY <3>1, <1>1 DEF TypeOK, MutexHolder
  <2>2. CASE Unlock(p)
    <3>1. pc[p] = "send" /\ mutex' = None /\ pc' = [pc EXCEPT ![p] = "recv"]
      BY <2>2 DEF Unlock, Goto
    <3> QED
      BY <3>1, <1>1 DEF TypeOK, MutexHolder
  <2>3. CASE \/ PubConnect(p) \/ Accept(p) \/ AcceptNoThread(p) \/ Recv(p)
             \/ PubGone(p) \/ Close(p)
    <3>1. /\ pc[p] # "send" /\ mutex' = mutex
          /\ \E to \in {"backlog", "recv", "orphan", "lock", "close", "done"} :
                 pc' = [pc EXCEPT ![p] = to]
      BY <2>3 DEF PubConnect, Accept, AcceptNoThread, Recv, PubGone, Close, Goto
    <3>2. pc'[p] # "send"
      BY <3>1 DEF TypeOK
    <3> QED
      BY <3>1, <3>2, <1>1 DEF MutexHolder
  <2>4. CASE \/ PubSend(p) \/ PubClose(p)
             \/ \E s \in Subs : \/ Send(p, s) \/ SendAfterFin(p, s)
                                \/ SendError(p, s) \/ SigPipe(p, s)
    <3>1. pc' = pc /\ mutex' = mutex
      BY <2>4 DEF PubSend, PubClose, Send, SendAfterFin, SendError, SigPipe
    <3> QED
      BY <3>1 DEF MutexHolder
  <2> QED
    BY <2>1, <2>2, <2>3, <2>4 DEF PubNext
<1> QED
  BY <1>2, <1>3 DEF MutexHolder

\* What recv() returns is the next part of the stream, and stays it until
\* broadcast() has the mutex.
LEMMA PubNextBuffer ==
    ASSUME TypeOK, BufferIsNext, NEW p \in Pubs, PubNext(p)
    PROVE  BufferIsNext'
<1>1. \A q \in Pubs : q # p => pc'[q] = pc[q]
  BY PubMoves
<1>2. CASE Recv(p)
  <2>1. PICK k \in 1..RecvMax :
            /\ buffer' = [buffer EXCEPT ![p] = Chunk(p, read[p], k)]
            /\ read' = [read EXCEPT ![p] = @ + k]
    BY <1>2 DEF Recv
  <2>2. read[p] \in Nat /\ k \in Nat /\ k >= 1 /\ RecvMax \in Nat
    BY DEF TypeOK
  <2>3. buffer'[p] = Chunk(p, read[p], k) /\ read'[p] = read[p] + k
    BY <2>1 DEF TypeOK
  <2>4. \A q \in Pubs : q # p => buffer'[q] = buffer[q] /\ read'[q] = read[q]
    BY <2>1 DEF TypeOK
  <2>5. \E j \in 1..read'[p] : buffer'[p] = Chunk(p, read'[p] - j, j)
    <3>1. k \in 1..(read[p] + k) /\ (read[p] + k) - k = read[p]
      BY <2>2
    <3> QED
      BY <2>3, <3>1
  <2> QED
    BY <1>1, <2>4, <2>5 DEF BufferIsNext
<1>3. CASE ~Recv(p)
  <2>1. buffer' = buffer /\ read' = read
    BY <1>3 DEF PubNext, PubConnect, PubSend, PubClose, Accept, AcceptNoThread, PubGone,
           Lock, Unlock, Close, Send, SendAfterFin, SendError, SigPipe
  <2>2. \/ pc' = pc
        \/ \E to \in {"backlog", "recv", "orphan", "close", "done", "send"} :
               pc' = [pc EXCEPT ![p] = to]
    BY <1>3 DEF PubNext, PubConnect, PubSend, PubClose, Accept, AcceptNoThread, PubGone,
           Lock, Unlock, Close, Send, SendAfterFin, SendError, SigPipe, Goto
  <2>3. \A q \in Pubs : pc'[q] = "lock" => pc[q] = "lock"
    BY <1>1, <2>2 DEF TypeOK
  <2> QED
    BY <2>1, <2>3 DEF BufferIsNext
<1> QED
  BY <1>2, <1>3

LEMMA SubNextHandlers ==
    ASSUME TypeOK, MutexHolder, BufferIsNext, NEW s \in Subs, SubNext(s)
    PROVE  MutexHolder' /\ BufferIsNext'
<1>1. \A p \in Pubs : pc'[p] = pc[p]
  BY SubMoves
<1>2. mutex' = mutex /\ idx' = idx /\ buffer' = buffer /\ read' = read
  BY SubMoves
<1> QED
  BY <1>1, <1>2 DEF MutexHolder, BufferIsNext

\* broadcast() sends to listed subscribers, each at its own descriptor.
LEMMA SendingTo ==
    ASSUME RegistryInv, MutexHolder, NEW p \in Pubs, NEW s \in Subs, Sending(p, s)
    PROVE  /\ Listed(s) /\ mutex = p
           /\ idx[p] \in 1..Len(subscribers) /\ subscribers[idx[p]] = sock[s]
<1>1. /\ idx[p] \in Nat /\ idx[p] >= 1 /\ idx[p] <= Len(subscribers)
      /\ desc[subscribers[idx[p]]] = s /\ pc[p] = "send"
      /\ Len(subscribers) \in Nat
  BY DEF RegistryInv, TypeOK, Sending, MutexHolder
<1>2. idx[p] \in 1..Len(subscribers)
  BY <1>1
<1>3. PICK t \in Subs : /\ Listed(t) /\ sock[t] = subscribers[idx[p]]
                        /\ desc[sock[t]] = t
  BY <1>2 DEF RegistryInv, RegistryExact
<1> QED
  BY <1>1, <1>2, <1>3 DEF MutexHolder

\* A step of a publisher's handler touches a subscriber's connection only by
\* sending to it, and then it is open or is no longer.
LEMMA PubNextClients ==
    ASSUME RegistryInv, MutexHolder, RegisteredInLog, NothingSentYet, LeftWhenClosed,
           NEW p \in Pubs, PubNext(p)
    PROVE  RegisteredInLog' /\ NothingSentYet' /\ LeftWhenClosed'
<1> USE DEF RegistryInv
<1>1. \A s \in Subs : pc'[s] = pc[s]
  BY PubMoves
<1>2. RegisteredInLog'
  <2>1. from' = from /\ Len(log) <= Len(log')
    <3>1. CASE Lock(p)
      <4>1. /\ log \in Seq(Units) /\ buffer[p] \in Seq(Units)
            /\ log' = log \o buffer[p] /\ from' = from
        BY <3>1 DEF Lock, TypeOK, Units
      <4>2. Len(log') = Len(log) + Len(buffer[p])
        BY <4>1, ConcatProperties
      <4>3. Len(log) \in Nat /\ Len(buffer[p]) \in Nat
        BY <4>1, LenProperties
      <4> DEFINE a == Len(log)
                 b == Len(buffer[p])
                 c == Len(log')
      <4>4. c = a + b /\ a \in Nat /\ b \in Nat
        BY <4>2, <4>3
      <4> HIDE DEF a, b, c
      <4>5. a <= c
        BY <4>4
      <4> QED
        BY <4>1, <4>5 DEF a, c
    <3>2. CASE ~Lock(p)
      <4>1. from' = from /\ log' = log
        BY <3>2 DEF PubNext, PubConnect, PubSend, PubClose, Accept, AcceptNoThread, Recv,
               PubGone, Unlock, Close, Send, SendAfterFin, SendError, SigPipe, history
      <4> QED
        BY <4>1 DEF TypeOK
    <3> QED
      BY <3>1, <3>2
  <2>2. Len(log) \in Nat /\ Len(log') \in Nat
    <3>1. TypeOK'
      BY PubNextType
    <3> QED
      BY <3>1, LenProperties DEF TypeOK
  <2> DEFINE a == Len(log)
             c == Len(log')
  <2>3. a <= c /\ a \in Nat /\ c \in Nat /\ \A s \in Subs : from[s] <= a
    BY <2>1, <2>2 DEF RegisteredInLog
  <2>4. \A s \in Subs : from[s] \in Nat
    BY DEF TypeOK
  <2> HIDE DEF a, c
  <2>5. \A s \in Subs : from[s] <= c
    BY <2>3, <2>4
  <2> QED
    BY <2>1, <2>5 DEF RegisteredInLog, c
<1>3. CASE \E t \in Subs : Send(p, t) \/ SendAfterFin(p, t)
  <2>1. PICK t \in Subs : Send(p, t) \/ SendAfterFin(p, t)
    BY <1>3
  <2>2. Listed(t)
    BY <2>1, SendingTo DEF Send, SendAfterFin
  <2>3. /\ got' = got
        /\ \A s \in Subs : s # t => wire'[s] = wire[s] /\ conn'[s] = conn[s]
    BY <2>1 DEF Send, SendAfterFin, TypeOK
  <2>4. NothingSentYet'
    BY <2>2, <2>3, <1>1 DEF NothingSentYet, Listed
  <2>5. conn'[t] = "open" => conn[t] = "open"
    BY <2>1 DEF Send, SendAfterFin, TypeOK
  <2> QED
    BY <1>1, <1>2, <2>3, <2>4, <2>5 DEF LeftWhenClosed
<1>4. CASE ~ \E t \in Subs : Send(p, t) \/ SendAfterFin(p, t)
  <2>1. got' = got /\ wire' = wire /\ conn' = conn
    BY <1>4 DEF PubNext, PubConnect, PubSend, PubClose, Accept, AcceptNoThread, Recv,
           PubGone, Lock, Unlock, Close, SendError, SigPipe, net
  <2> QED
    BY <1>1, <1>2, <2>1 DEF NothingSentYet, LeftWhenClosed
<1> QED
  BY <1>3, <1>4

LEMMA SubNextClients ==
    ASSUME RegistryInv, RegisteredInLog, NothingSentYet, LeftWhenClosed,
           NEW s \in Subs, SubNext(s)
    PROVE  RegisteredInLog' /\ NothingSentYet' /\ LeftWhenClosed'
<1> USE DEF RegistryInv
<1>1. /\ \A r \in Subs : r # s => pc'[r] = pc[r]
      /\ log' = log
  BY SubMoves
<1>2. RegisteredInLog'
  <2>1. from' = from \/ from' = [from EXCEPT ![s] = Len(log)]
    BY DEF SubNext, SubConnect, SubRead, SubEof, SubQuit, Accept, AcceptNoThread, Register,
           RegisterPastEnd, SubGone, Deregister, Close, history
  <2>2. Len(log) \in Nat /\ from \in [Subs -> Nat]
    BY DEF TypeOK
  <2> QED
    BY <1>1, <2>1, <2>2 DEF RegisteredInLog
<1>3. /\ \A r \in Subs : r # s => /\ got'[r] = got[r] /\ wire'[r] = wire[r]
                                  /\ conn'[r] = conn[r]
  BY DEF SubNext, SubConnect, SubRead, SubEof, SubQuit, Accept, AcceptNoThread, Register,
         RegisterPastEnd, SubGone, Deregister, Close, net, TypeOK
<1>4. /\ pc'[s] \in {"idle", "backlog", "orphan", "register"} =>
             got'[s] = <<>> /\ wire'[s] = <<>>
      /\ pc'[s] \in {"deregister", "close", "done"} => conn'[s] # "open"
  <2>1. CASE SubConnect(s)
    BY <2>1 DEF SubConnect, Goto, TypeOK, NothingSentYet, LeftWhenClosed
  <2>2. CASE SubRead(s)
    BY <2>2 DEF SubRead, TypeOK, NothingSentYet, LeftWhenClosed
  <2>3. CASE SubEof(s) \/ SubQuit(s)
    <3>1. /\ pc' = pc /\ got' = got
          /\ wire' = wire \/ wire' = [wire EXCEPT ![s] = <<>>]
          /\ conn' = [conn EXCEPT ![s] = "fin"] \/ conn' = [conn EXCEPT ![s] = "reset"]
      BY <2>3 DEF SubEof, SubQuit
    <3> QED
      BY <3>1 DEF TypeOK, NothingSentYet
  <2>4. CASE Accept(s) \/ AcceptNoThread(s)
    BY <2>4 DEF Accept, AcceptNoThread, Goto, net, TypeOK, NothingSentYet
  <2>5. CASE Register(s)
    BY <2>5 DEF Register, Goto, net, TypeOK
  <2>6. CASE RegisterPastEnd(s)
    BY <2>6 DEF RegisterPastEnd, net, TypeOK, NothingSentYet, LeftWhenClosed
  <2>7. CASE SubGone(s)
    BY <2>7 DEF SubGone, Goto, net, TypeOK
  <2>8. CASE Deregister(s) \/ Close(s)
    BY <2>8 DEF Deregister, Close, Goto, net, TypeOK, LeftWhenClosed
  <2> QED
    BY <2>1, <2>2, <2>3, <2>4, <2>5, <2>6, <2>7, <2>8 DEF SubNext
<1> QED
  BY <1>1, <1>2, <1>3, <1>4 DEF NothingSentYet, LeftWhenClosed

LEMMA NextBooks ==
    ASSUME RegistryInv, Books, Next
    PROVE  Books'
<1>1. CASE \E p \in Pubs : PubNext(p)
  BY <1>1, PubNextHolder, PubNextBuffer, PubNextClients DEF Books, RegistryInv
<1>2. CASE \E s \in Subs : SubNext(s)
  BY <1>2, SubNextHandlers, SubNextClients DEF Books, RegistryInv
<1> QED
  BY <1>1, <1>2 DEF Next

------------------------------------------------------------------------------
(* The streams                                                             *)

\* A step that breaks no promise to a subscriber it leaves listed and open.
LEMMA StreamUntouched ==
    ASSUME StreamIntegrity,
           \A s \in Subs :
               Listed(s)' /\ conn'[s] = "open" =>
                   /\ Listed(s) /\ conn[s] = "open" /\ from'[s] = from[s]
                   /\ got'[s] \o wire'[s] = got[s] \o wire[s]
                   /\ Pending(s)' = Pending(s),
           log' = log
    PROVE  StreamIntegrity'
<1>1. ASSUME NEW s \in Subs, Listed(s)', conn'[s] = "open"
      PROVE  got'[s] \o wire'[s] \o Pending(s)' = SubSeq(log', from'[s] + 1, Len(log'))
  <2>1. /\ Listed(s) /\ conn[s] = "open" /\ from'[s] = from[s]
        /\ got'[s] \o wire'[s] = got[s] \o wire[s]
        /\ Pending(s)' = Pending(s)
    BY <1>1
  <2>2. got[s] \o wire[s] \o Pending(s) = SubSeq(log, from[s] + 1, Len(log))
    BY <2>1 DEF StreamIntegrity
  <2> QED
    BY <2>1, <2>2
<1> QED
  BY <1>1 DEF StreamIntegrity

\* While the broadcast under way and the list stand still, so does what is pending.
LEMMA SamePending ==
    ASSUME NEW s \in Subs, sock'[s] = sock[s],
           mutex' = mutex, subscribers' = subscribers,
           mutex # None => idx'[mutex] = idx[mutex] /\ buffer'[mutex] = buffer[mutex]
    PROVE  Pending(s)' = Pending(s)
  BY DEF Pending

\* send() to s and the next index: nothing more is pending for s, whose chunk it
\* was, and nothing changes for the other subscribers, which have other entries.
LEMMA AdvancePending ==
    ASSUME RegistryInv, MutexHolder, NEW p \in Pubs, NEW s \in Subs,
           Sending(p, s), Advance(p),
           mutex' = mutex, subscribers' = subscribers, sock' = sock, buffer' = buffer
    PROVE  /\ Pending(s) = buffer[p] /\ Pending(s)' = <<>>
           /\ \A r \in Subs : Listed(r) /\ r # s => Pending(r)' = Pending(r)
<1> DEFINE n == Len(subscribers)
           i == idx[p]
<1>1. /\ mutex = p /\ Listed(s) /\ i \in 1..n /\ subscribers[i] = sock[s]
  BY SendingTo
<1>2. i \in Nat /\ n \in Nat /\ idx'[p] = i + 1
  BY DEF RegistryInv, TypeOK, Advance
<1>3. p # None
  OBVIOUS
<1>4. \A j \in 1..n : subscribers[j] = sock[s] => j = i
  BY <1>1 DEF RegistryInv, RegistryExact
<1>5. Pending(s) = buffer[p]
  <2>1. \E k \in 1..n : k >= i /\ subscribers[k] = sock[s]
    BY <1>1, <1>2
  <2> QED
    BY <2>1, <1>1, <1>3 DEF Pending
<1>6. Pending(s)' = <<>>
  <2>1. ~ \E k \in 1..n : k >= i + 1 /\ subscribers[k] = sock[s]
    BY <1>2, <1>4
  <2> QED
    BY <2>1, <1>1, <1>2, <1>3 DEF Pending
<1>7. ASSUME NEW r \in Subs, Listed(r), r # s
      PROVE  Pending(r)' = Pending(r)
  <2>1. sock[r] # sock[s]
    BY <1>1, <1>7 DEF RegistryInv, OwnsDescriptor, Live, Listed
  <2>2. (\E k \in 1..n : k >= i + 1 /\ subscribers[k] = sock[r])
          <=> (\E k \in 1..n : k >= i /\ subscribers[k] = sock[r])
    BY <1>1, <1>2, <2>1
  <2> QED
    BY <2>2, <1>1, <1>2, <1>3 DEF Pending
<1> QED
  BY <1>5, <1>6, <1>7

\* The types of what the streams are made of.
LEMMA StreamTypes ==
    ASSUME TypeOK, NEW s \in Subs
    PROVE  /\ got[s] \in Seq(Units) /\ wire[s] \in Seq(Units) /\ log \in Seq(Units)
           /\ got[s] \o wire[s] \in Seq(Units) /\ Pending(s) \in Seq(Units)
           /\ \A p \in Pubs : buffer[p] \in Seq(Units)
<1>1. /\ got[s] \in Seq(Units) /\ wire[s] \in Seq(Units) /\ log \in Seq(Units)
      /\ \A p \in Pubs : buffer[p] \in Seq(Units)
      /\ mutex \in Pubs \cup {None}
  BY DEF TypeOK, Units
<1>2. got[s] \o wire[s] \in Seq(Units)
  BY <1>1, ConcatProperties
<1>3. Pending(s) \in Seq(Units)
  BY <1>1, EmptySeq DEF Pending
<1> QED
  BY <1>1, <1>2, <1>3

\* broadcast() takes the mutex: its chunk joins the log, and is pending for
\* every listed subscriber, for the loop starts with the first entry.
LEMMA LockKeepsStreams ==
    ASSUME RegistryInv, Books, StreamIntegrity, NEW p \in Pubs, Lock(p)
    PROVE  StreamIntegrity'
<1> USE DEF RegistryInv
<1>1. /\ mutex = None /\ mutex' = p /\ log' = log \o buffer[p] /\ idx'[p] = 1
      /\ subscribers' = subscribers /\ sock' = sock /\ buffer' = buffer
      /\ got' = got /\ wire' = wire /\ conn' = conn /\ from' = from
  BY DEF Lock, MutexFree, net, TypeOK
<1>2. \A s \in Subs : Listed(s)' <=> Listed(s)
  <2>1. \A s \in Subs : pc'[s] = pc[s]
    BY DEF Lock, Goto, TypeOK
  <2> QED
    BY <2>1 DEF Listed
<1>3. ASSUME NEW s \in Subs, Listed(s), conn[s] = "open"
      PROVE  got[s] \o wire[s] \o Pending(s)' = SubSeq(log', from[s] + 1, Len(log'))
  <2> DEFINE a == got[s] \o wire[s]
  <2>1. a \in Seq(Units) /\ log \in Seq(Units) /\ buffer[p] \in Seq(Units)
    BY StreamTypes
  <2>2. Pending(s) = <<>> /\ a \o Pending(s) = SubSeq(log, from[s] + 1, Len(log))
    BY <1>1, <1>3 DEF Pending, StreamIntegrity
  <2>3. a = SubSeq(log, from[s] + 1, Len(log))
    BY <2>1, <2>2, ConcatEmptySeq
  <2>4. Pending(s)' = buffer[p]
    <3>1. PICK k \in 1..Len(subscribers) : subscribers[k] = sock[s]
      BY <1>3 DEF RegistryExact
    <3>2. k >= 1
      OBVIOUS
    <3> QED
      BY <1>1, <3>1, <3>2 DEF Pending
  <2>5. from[s] \in 0..Len(log)
    <3>1. from[s] \in Nat /\ from[s] <= Len(log)
      BY DEF TypeOK, Books, RegisteredInLog
    <3>2. Len(log) \in Nat
      BY <2>1, LenProperties
    <3> QED
      BY <3>1, <3>2
  <2> DEFINE c == buffer[p]
             n == from[s]
             all == log
  <2> HIDE DEF a, c, n, all
  <2>6. SubSeq(all, n + 1, Len(all)) \o c = SubSeq(all \o c, n + 1, Len(all \o c))
    <3>1. all \in Seq(Units) /\ c \in Seq(Units) /\ n \in Nat /\ n <= Len(all)
      BY <2>1, <2>5 DEF all, c, n
    <3> QED
      BY ONLY <3>1, SuffixGrows
  <2> QED
    BY <1>1, <2>3, <2>4, <2>6 DEF a, c, n, all
<1> QED
  BY <1>1, <1>2, <1>3 DEF StreamIntegrity

\* send() moves the chunk from what is pending for s to what is on its way.
LEMMA SendKeepsStreams ==
    ASSUME RegistryInv, MutexHolder, StreamIntegrity,
           NEW p \in Pubs, NEW s \in Subs, Send(p, s)
    PROVE  StreamIntegrity'
<1> USE DEF RegistryInv
<1>1. /\ Sending(p, s) /\ Advance(p) /\ conn[s] = "open"
      /\ wire'[s] = wire[s] \o buffer[p]
      /\ \A r \in Subs : r # s => wire'[r] = wire[r]
      /\ mutex' = mutex /\ subscribers' = subscribers /\ sock' = sock /\ buffer' = buffer
      /\ pc' = pc /\ got' = got /\ conn' = conn /\ log' = log /\ from' = from
  BY DEF Send, TypeOK, history
<1>2. /\ Pending(s) = buffer[p] /\ Pending(s)' = <<>>
      /\ \A r \in Subs : Listed(r) /\ r # s => Pending(r)' = Pending(r)
  BY <1>1, AdvancePending
<1>3. Listed(s)
  BY <1>1, SendingTo
<1>4. got'[s] \o wire'[s] \o Pending(s)' = SubSeq(log', from'[s] + 1, Len(log'))
  <2>1. /\ got[s] \in Seq(Units) /\ wire[s] \in Seq(Units) /\ buffer[p] \in Seq(Units)
    BY StreamTypes
  <2> DEFINE g == got[s]
             w == wire[s]
             c == buffer[p]
  <2>2. g \o (w \o c) \o <<>> = g \o w \o c
    <3> HIDE DEF g, w, c
    <3>1. g \in Seq(Units) /\ w \in Seq(Units) /\ c \in Seq(Units)
      BY <2>1 DEF g, w, c
    <3> QED
      BY ONLY <3>1, ChunkMoves
  <2>3. got[s] \o wire[s] \o buffer[p] = SubSeq(log, from[s] + 1, Len(log))
    BY <1>1, <1>2, <1>3 DEF StreamIntegrity
  <2> QED
    BY <1>1, <1>2, <2>2, <2>3
<1>5. ASSUME NEW r \in Subs, r # s, Listed(r)', conn'[r] = "open"
      PROVE  got'[r] \o wire'[r] \o Pending(r)' = SubSeq(log', from'[r] + 1, Len(log'))
  <2>1. Listed(r) /\ conn[r] = "open"
    BY <1>1, <1>5 DEF Listed
  <2>2. got[r] \o wire[r] \o Pending(r) = SubSeq(log, from[r] + 1, Len(log))
    BY <2>1 DEF StreamIntegrity
  <2> QED
    BY <1>1, <1>2, <1>5, <2>1, <2>2
<1> QED
  BY <1>4, <1>5 DEF StreamIntegrity

\* send() to a connection whose other end is closed touches no other stream.
LEMMA LostSendKeepsStreams ==
    ASSUME RegistryInv, MutexHolder, StreamIntegrity,
           NEW p \in Pubs, NEW s \in Subs, SendAfterFin(p, s) \/ SendError(p, s)
    PROVE  StreamIntegrity'
<1> USE DEF RegistryInv
<1>1. /\ Sending(p, s) /\ Advance(p) /\ conn'[s] # "open"
      /\ \A r \in Subs : r # s => conn'[r] = conn[r]
      /\ mutex' = mutex /\ subscribers' = subscribers /\ sock' = sock /\ buffer' = buffer
      /\ pc' = pc /\ got' = got /\ wire' = wire /\ log' = log /\ from' = from
  BY DEF SendAfterFin, SendError, TypeOK, net, history
<1>2. \A r \in Subs : Listed(r) /\ r # s => Pending(r)' = Pending(r)
  BY <1>1, AdvancePending
<1>3. \A r \in Subs : Listed(r)' <=> Listed(r)
  BY <1>1 DEF Listed
<1>4. \A r \in Subs : Listed(r)' /\ conn'[r] = "open" =>
          /\ Listed(r) /\ conn[r] = "open" /\ from'[r] = from[r]
          /\ got'[r] \o wire'[r] = got[r] \o wire[r]
          /\ Pending(r)' = Pending(r)
  BY <1>1, <1>2, <1>3
<1> QED
  BY <1>1, <1>4, StreamUntouched

\* The loop ends: every entry is served, and nothing was pending any more.
LEMMA UnlockKeepsStreams ==
    ASSUME RegistryInv, MutexHolder, StreamIntegrity, NEW p \in Pubs, Unlock(p)
    PROVE  StreamIntegrity'
<1> USE DEF RegistryInv
<1>1. /\ pc[p] = "send" /\ idx[p] > Len(subscribers) /\ mutex' = None
      /\ conn' = conn /\ got' = got /\ wire' = wire /\ log' = log /\ from' = from
  BY DEF Unlock, LoopDone, net, history
<1>2. \A s \in Subs : Listed(s)' <=> Listed(s)
  <2>1. \A s \in Subs : pc'[s] = pc[s]
    BY DEF Unlock, Goto, TypeOK
  <2> QED
    BY <2>1 DEF Listed
<1>3. \A s \in Subs : Pending(s)' = <<>> /\ Pending(s) = <<>>
  <2>1. mutex = p
    BY <1>1 DEF MutexHolder
  <2>2. ~ \E k \in 1..Len(subscribers) : k >= idx[p]
    <3>1. Len(subscribers) \in Nat /\ idx[p] \in Nat
      BY DEF TypeOK
    <3> QED
      BY <3>1, <1>1
  <2> QED
    BY <1>1, <2>1, <2>2 DEF Pending
<1>4. \A s \in Subs : Listed(s)' /\ conn'[s] = "open" =>
          /\ Listed(s) /\ conn[s] = "open" /\ from'[s] = from[s]
          /\ got'[s] \o wire'[s] = got[s] \o wire[s]
          /\ Pending(s)' = Pending(s)
  BY <1>1, <1>2, <1>3
<1> QED
  BY <1>1, <1>4, StreamUntouched

\* Every other step of a publisher or of its handler.
LEMMA PubNextStreams ==
    ASSUME RegistryInv, Books, StreamIntegrity, NEW p \in Pubs, PubNext(p)
    PROVE  StreamIntegrity'
<1> USE DEF RegistryInv, Books
<1>1. CASE Lock(p)
  BY <1>1, LockKeepsStreams
<1>2. CASE Unlock(p)
  BY <1>2, UnlockKeepsStreams
<1>3. CASE \E s \in Subs : \/ Send(p, s) \/ SendAfterFin(p, s) \/ SendError(p, s)
  BY <1>3, SendKeepsStreams, LostSendKeepsStreams
<1>4. CASE \/ PubConnect(p) \/ PubSend(p) \/ PubClose(p) \/ Accept(p) \/ AcceptNoThread(p)
           \/ Recv(p) \/ PubGone(p) \/ Close(p) \/ \E s \in Subs : SigPipe(p, s)
  <2>1. /\ mutex' = mutex /\ idx' = idx /\ subscribers' = subscribers
        /\ conn' = conn /\ got' = got /\ wire' = wire /\ log' = log /\ from' = from
    BY <1>4 DEF PubConnect, PubSend, PubClose, Accept, AcceptNoThread, Recv, PubGone,
           Close, SigPipe, net, history
  <2>2. \A s \in Subs : sock'[s] = sock[s]
    BY <1>4 DEF PubConnect, PubSend, PubClose, Accept, AcceptNoThread, Recv, PubGone,
           Close, SigPipe, TypeOK
  <2>3. \A s \in Subs : Listed(s)' <=> Listed(s)
    BY PubMoves DEF Listed
  <2>4. mutex # None => buffer'[mutex] = buffer[mutex]
    <3>1. CASE Recv(p)
      <4>1. /\ \A q \in Pubs : q # p => buffer'[q] = buffer[q]
            /\ pc[p] = "recv"
        BY <3>1 DEF Recv, TypeOK
      <4>2. mutex # p /\ mutex \in Pubs \cup {None}
        BY <4>1 DEF MutexHolder, TypeOK
      <4> QED
        BY <4>1, <4>2
    <3>2. CASE ~Recv(p)
      BY <1>4, <3>2 DEF PubConnect, PubSend, PubClose, Accept, AcceptNoThread, PubGone,
             Close, SigPipe
    <3> QED
      BY <3>1, <3>2
  <2>5. \A s \in Subs : Pending(s)' = Pending(s)
    BY <2>1, <2>2, <2>4, SamePending
  <2>6. \A s \in Subs : Listed(s)' /\ conn'[s] = "open" =>
            /\ Listed(s) /\ conn[s] = "open" /\ from'[s] = from[s]
            /\ got'[s] \o wire'[s] = got[s] \o wire[s]
            /\ Pending(s)' = Pending(s)
    BY <2>1, <2>3, <2>5
  <2> QED
    BY <2>1, <2>6, StreamUntouched
<1> QED
  BY <1>1, <1>2, <1>3, <1>4 DEF PubNext

\* Registration: the new subscriber has and needs nothing, and nothing is
\* pending for anybody while the mutex is free.
LEMMA RegisterKeepsStreams ==
    ASSUME RegistryInv, Books, StreamIntegrity, NEW s \in Subs, Register(s)
    PROVE  StreamIntegrity'
<1> USE DEF RegistryInv, Books
<1>1. /\ pc[s] = "register" /\ mutex = None /\ mutex' = None
      /\ from'[s] = Len(log) /\ \A r \in Subs : r # s => from'[r] = from[r]
      /\ got' = got /\ wire' = wire /\ conn' = conn /\ log' = log
  BY DEF Register, MutexFree, TypeOK, net
<1>2. \A r \in Subs : Pending(r) = <<>> /\ Pending(r)' = <<>>
  BY <1>1 DEF Pending
<1>3. got'[s] \o wire'[s] \o Pending(s)' = SubSeq(log', from'[s] + 1, Len(log'))
  <2>1. got[s] = <<>> /\ wire[s] = <<>>
    BY <1>1 DEF NothingSentYet
  <2>2. Len(log) \in Nat
    BY LenProperties DEF TypeOK
  <2>3. SubSeq(log, Len(log) + 1, Len(log)) = <<>>
    BY <2>2, SubSeqEmpty
  <2>4. <<>> \o <<>> \o <<>> = <<>>
    BY EmptySeq, ConcatEmptySeq
  <2> QED
    BY <1>1, <1>2, <2>1, <2>3, <2>4
<1>4. ASSUME NEW r \in Subs, r # s, Listed(r)', conn'[r] = "open"
      PROVE  got'[r] \o wire'[r] \o Pending(r)' = SubSeq(log', from'[r] + 1, Len(log'))
  <2>1. Listed(r) /\ conn[r] = "open"
    BY <1>1, <1>4 DEF Register, Goto, Listed, TypeOK
  <2>2. got[r] \o wire[r] \o Pending(r) = SubSeq(log, from[r] + 1, Len(log))
    BY <2>1 DEF StreamIntegrity
  <2> QED
    BY <1>1, <1>2, <1>4, <2>2
<1> QED
  BY <1>3, <1>4 DEF StreamIntegrity

\* Every step of a subscriber or of its handler.
LEMMA SubNextStreams ==
    ASSUME RegistryInv, Books, StreamIntegrity, NEW s \in Subs, SubNext(s)
    PROVE  StreamIntegrity'
<1> USE DEF RegistryInv, Books
<1>1. CASE Register(s)
  BY <1>1, RegisterKeepsStreams
<1>2. /\ \A r \in Subs : r # s => /\ Listed(r)' <=> Listed(r)
                                  /\ sock'[r] = sock[r] /\ from'[r] = from[r]
                                  /\ got'[r] = got[r] /\ wire'[r] = wire[r]
                                  /\ conn'[r] = conn[r]
      /\ mutex' = mutex /\ idx' = idx /\ buffer' = buffer /\ log' = log
  <2>1. \A r \in Subs : r # s =>
            /\ sock'[r] = sock[r] /\ from'[r] = from[r]
            /\ got'[r] = got[r] /\ wire'[r] = wire[r] /\ conn'[r] = conn[r]
    BY DEF SubNext, SubConnect, SubRead, SubEof, SubQuit, Accept, AcceptNoThread, Register,
           RegisterPastEnd, SubGone, Deregister, Close, net, history, TypeOK
  <2> QED
    BY <2>1, SubMoves DEF Listed
<1>3. CASE SubRead(s)
  <2>1. /\ conn' = conn /\ pc' = pc /\ from' = from /\ sock' = sock
        /\ subscribers' = subscribers
        /\ wire[s] # <<>> /\ got'[s] = Append(got[s], Head(wire[s]))
        /\ wire'[s] = Tail(wire[s])
    BY <1>3 DEF SubRead, TypeOK, history
  <2>2. got[s] \in Seq(Units) /\ wire[s] \in Seq(Units)
    BY StreamTypes
  <2>3. got'[s] \o wire'[s] = got[s] \o wire[s]
    BY <2>1, <2>2, ReadMoves
  <2>4. \A r \in Subs : Pending(r)' = Pending(r)
    BY <1>2, <2>1, SamePending
  <2>5. \A r \in Subs : Listed(r)' /\ conn'[r] = "open" =>
            /\ Listed(r) /\ conn[r] = "open" /\ from'[r] = from[r]
            /\ got'[r] \o wire'[r] = got[r] \o wire[r]
            /\ Pending(r)' = Pending(r)
    BY <1>2, <2>1, <2>3, <2>4 DEF Listed
  <2> QED
    BY <1>2, <2>5, StreamUntouched
<1>4. CASE Deregister(s)
  <2>1. /\ mutex = None /\ pc' = [pc EXCEPT ![s] = "close"]
    BY <1>4 DEF Deregister, MutexFree, Goto
  <2>2. ~Listed(s)'
    BY <2>1 DEF Listed, TypeOK
  <2>3. \A r \in Subs : Pending(r) = <<>> /\ Pending(r)' = <<>>
    BY <1>2, <2>1 DEF Pending
  <2>4. \A r \in Subs : Listed(r)' /\ conn'[r] = "open" =>
            /\ Listed(r) /\ conn[r] = "open" /\ from'[r] = from[r]
            /\ got'[r] \o wire'[r] = got[r] \o wire[r]
            /\ Pending(r)' = Pending(r)
    BY <1>2, <2>2, <2>3
  <2> QED
    BY <1>2, <2>4, StreamUntouched
<1>5. CASE \/ SubConnect(s) \/ SubEof(s) \/ SubQuit(s) \/ Accept(s) \/ AcceptNoThread(s)
           \/ RegisterPastEnd(s) \/ SubGone(s) \/ Close(s)
  <2>1. subscribers' = subscribers
    BY <1>5 DEF SubConnect, SubEof, SubQuit, Accept, AcceptNoThread, RegisterPastEnd,
           SubGone, Close
  <2>2. \A r \in Subs : r # s => Pending(r)' = Pending(r)
    BY <1>2, <2>1, SamePending
  <2>3. Listed(s)' /\ conn'[s] = "open" =>
            /\ Listed(s) /\ conn[s] = "open" /\ from'[s] = from[s] /\ sock'[s] = sock[s]
            /\ got'[s] = got[s] /\ wire'[s] = wire[s]
    <3>1. CASE SubEof(s) \/ SubQuit(s)
      <4>1. \E state \in {"fin", "reset"} : conn' = [conn EXCEPT ![s] = state]
        BY <3>1 DEF SubEof, SubQuit
      <4> QED
        BY <4>1 DEF TypeOK
    <3>2. CASE SubConnect(s) \/ Accept(s) \/ AcceptNoThread(s) \/ Close(s)
      <4>1. \E to \in {"backlog", "register", "orphan", "done"} :
                pc' = [pc EXCEPT ![s] = to]
        BY <3>2 DEF SubConnect, Accept, AcceptNoThread, Close, Goto
      <4> QED
        BY <4>1 DEF TypeOK, Listed
    <3>3. CASE SubGone(s)
      BY <3>3 DEF SubGone, net
    <3>4. CASE RegisterPastEnd(s)
      BY <3>4 DEF RegisterPastEnd, Listed, net
    <3> QED
      BY <1>5, <3>1, <3>2, <3>3, <3>4
  <2>4. \A r \in Subs : Listed(r)' /\ conn'[r] = "open" =>
            /\ Listed(r) /\ conn[r] = "open" /\ from'[r] = from[r]
            /\ got'[r] \o wire'[r] = got[r] \o wire[r]
            /\ Pending(r)' = Pending(r)
    BY <1>2, <2>1, <2>2, <2>3, SamePending
  <2> QED
    BY <1>2, <2>4, StreamUntouched
<1> QED
  BY <1>1, <1>3, <1>4, <1>5 DEF SubNext

------------------------------------------------------------------------------
(* The streams are whole                                                   *)

LEMMA InitStreams == Init => StreamInv
<1>1. Init => RegistryInv
  BY InitType DEF Init, RegistryInv, OwnsDescriptor, RegistryExact, Live, Listed
<1>2. Init => Books
  BY DEF Init, Books, MutexHolder, RegisteredInLog, NothingSentYet, LeftWhenClosed,
         BufferIsNext
<1>3. Init => StreamIntegrity
  BY DEF Init, StreamIntegrity, Listed
<1> QED
  BY <1>1, <1>2, <1>3 DEF StreamInv

LEMMA NextStreams == StreamInv /\ [Next]_vars => StreamInv'
<1> SUFFICES ASSUME StreamInv, [Next]_vars
             PROVE  StreamInv'
  OBVIOUS
<1>1. RegistryInv'
  BY NextRegistry DEF StreamInv
<1>2. CASE Next
  <2>1. Books'
    BY <1>2, NextBooks DEF StreamInv
  <2>2. StreamIntegrity'
    BY <1>2, PubNextStreams, SubNextStreams DEF StreamInv, Next
  <2> QED
    BY <1>1, <2>1, <2>2 DEF StreamInv
<1>3. CASE UNCHANGED vars
  <2>1. Books'
    BY <1>3 DEF StreamInv, Books, MutexHolder, RegisteredInLog, NothingSentYet,
           LeftWhenClosed, BufferIsNext, vars
  <2>2. StreamIntegrity'
    BY <1>3 DEF StreamInv, StreamIntegrity, Listed, Pending, vars
  <2> QED
    BY <1>1, <2>1, <2>2 DEF StreamInv
<1> QED
  BY <1>2, <1>3

THEOREM StreamInvariant == Spec => []StreamInv
  BY InitStreams, NextStreams, PTL DEF Spec

\* A subscriber that is listed and alive has read, or has on its way, or is
\* about to be sent exactly what was broadcast since it registered, whoever
\* comes, goes or dies during the broadcasts (broker_tcp.c:36-57, 96-129).
THEOREM StreamsWhole == Spec => []StreamIntegrity
<1>1. StreamInv => StreamIntegrity
  BY DEF StreamInv
<1> QED
  BY <1>1, StreamInvariant, PTL

------------------------------------------------------------------------------
(* The total-order broadcast                                               *)

\* The refinement mapping of TcpBroker's instance TOB.
Entries == [p \in Pubs |-> Entered(p)]
Joined == {s \in Subs : pc[s] \in {"recv", "deregister", "close", "done"}}

\* broadcast() takes the mutex: one chunk of one publisher enters the log.
LEMMA LockPublishes ==
    ASSUME StreamInv, NEW p \in Pubs, Lock(p)
    PROVE  TOB!Publish(p)
<1> USE DEF StreamInv, RegistryInv, Books
<1>1. /\ pc[p] = "lock" /\ pc' = [pc EXCEPT ![p] = "send"]
      /\ log' = log \o buffer[p] /\ read' = read /\ buffer' = buffer
      /\ from' = from /\ got' = got
  BY DEF Lock, Goto, net
<1>2. PICK k \in 1..read[p] : buffer[p] = Chunk(p, read[p] - k, k)
  BY <1>1 DEF BufferIsNext
<1>3. read[p] \in 0..Total /\ k \in Nat /\ read[p] - k \in Nat /\ Total \in Nat
  BY <1>2 DEF TypeOK
<1>4. Len(buffer[p]) = k
  <2> DEFINE n == read[p] - k
  <2>1. n \in Nat /\ buffer[p] = Chunk(p, n, k)
    BY <1>2, <1>3
  <2> HIDE DEF n
  <2> QED
    BY <1>3, <2>1, ChunkType
<1>5. Entered(p) = read[p] - k /\ Entered(p)' = read[p]
  BY <1>1, <1>4 DEF Entered, TypeOK
<1>6. ASSUME NEW q \in Pubs, q # p
      PROVE  Entered(q)' = Entered(q)
  BY <1>1, <1>6 DEF Entered, TypeOK
<1>7. k \in 1..(Total - Entries[p])
  BY <1>2, <1>3, <1>5 DEF Entries
<1>8. log' = log \o TOB!Chunk(p, Entries[p], k)
  <2> DEFINE n == read[p] - k
  <2>1. Chunk(p, n, k) = TOB!Chunk(p, n, k)
    BY DEF Chunk, Unit, TOB!Chunk, TOB!Unit
  <2>2. Entries[p] = n
    BY <1>5 DEF Entries
  <2>3. buffer[p] = Chunk(p, n, k)
    BY <1>2
  <2> HIDE DEF n, Entries
  <2> QED
    BY <1>1, <2>1, <2>2, <2>3
<1>9. Entries' = [Entries EXCEPT ![p] = @ + k]
  <2>1. Entered(p)' = Entered(p) + k
    BY <1>3, <1>5
  <2> QED
    BY <2>1, <1>6 DEF Entries
<1>10. Joined' = Joined
  <2>1. \A s \in Subs : pc'[s] = pc[s]
    BY <1>1 DEF TypeOK
  <2> QED
    BY <2>1 DEF Joined
<1> HIDE DEF Entries, Joined
<1> QED
  BY <1>1, <1>7, <1>8, <1>9, <1>10 DEF TOB!Publish, Entries, Joined

\* A registration is a join, at the end of the log.
LEMMA RegisterJoins ==
    ASSUME StreamInv, NEW s \in Subs, Register(s)
    PROVE  TOB!Join(s)
<1> USE DEF StreamInv, RegistryInv
<1>1. /\ pc[s] = "register" /\ pc' = [pc EXCEPT ![s] = "recv"]
      /\ log' = log /\ read' = read /\ buffer' = buffer /\ got' = got
      /\ from' = [from EXCEPT ![s] = Len(log)]
  BY DEF Register, Goto, net
<1>2. s \notin Joined
  BY <1>1 DEF Joined
<1>3. Joined' = Joined \cup {s}
  BY <1>1 DEF Joined, TypeOK
<1>4. Entries' = Entries
  <2>1. \A p \in Pubs : pc'[p] = pc[p]
    BY <1>1 DEF TypeOK
  <2> QED
    BY <1>1, <2>1 DEF Entries, Entered
<1> HIDE DEF Entries, Joined
<1> QED
  BY <1>1, <1>2, <1>3, <1>4 DEF TOB!Join, Entries, Joined

\* What a subscriber reads is the unit that comes next for it.
LEMMA ReadDelivers ==
    ASSUME StreamInv, NEW s \in Subs, SubRead(s)
    PROVE  TOB!Deliver(s)
<1> USE DEF StreamInv, RegistryInv, Books
<1>1. /\ conn[s] = "open" /\ wire[s] # <<>>
      /\ got' = [got EXCEPT ![s] = Append(@, Head(wire[s]))]
      /\ pc' = pc /\ log' = log /\ read' = read /\ buffer' = buffer /\ from' = from
  BY DEF SubRead, history
<1>2. pc[s] = "recv"
  BY <1>1 DEF TypeOK, SubPC, NothingSentYet, LeftWhenClosed
<1>3. from[s] + Len(got[s]) < Len(log) /\ Head(wire[s]) = log[from[s] + Len(got[s]) + 1]
  <2> DEFINE g == got[s]
             w == wire[s]
             c == Pending(s)
             n == from[s]
             all == log
  <2>1. g \in Seq(Units) /\ w \in Seq(Units) /\ c \in Seq(Units) /\ all \in Seq(Units)
    BY StreamTypes
  <2>2. n \in Nat /\ n <= Len(all) /\ w # <<>>
    BY <1>1 DEF TypeOK, RegisteredInLog
  <2>3. g \o w \o c = SubSeq(all, n + 1, Len(all))
    BY <1>1, <1>2 DEF StreamIntegrity, Listed
  <2> HIDE DEF g, w, c, n, all
  <2>4. n + Len(g) < Len(all) /\ Head(w) = all[n + Len(g) + 1]
    BY ONLY ZenonT(60), <2>1, <2>2, <2>3, NextUnit
  <2> QED
    BY <2>4 DEF g, w, n, all
<1>4. s \in Joined
  BY <1>2 DEF Joined
<1>5. got' = [got EXCEPT ![s] = Append(@, log[from[s] + Len(@) + 1])]
  BY <1>1, <1>3
<1>6. Entries' = Entries /\ Joined' = Joined
  BY <1>1 DEF Entries, Entered, Joined
<1> HIDE DEF Entries, Joined
<1> QED
  BY <1>1, <1>3, <1>4, <1>5, <1>6 DEF TOB!Deliver, Entries, Joined

\* recv() by itself relays nothing.
LEMMA RecvEntersNothing ==
    ASSUME TypeOK, NEW p \in Pubs, Recv(p)
    PROVE  Entries' = Entries
<1>1. PICK k \in 1..RecvMax :
          /\ buffer' = [buffer EXCEPT ![p] = Chunk(p, read[p], k)]
          /\ read' = [read EXCEPT ![p] = @ + k]
  BY DEF Recv
<1>2. pc[p] = "recv" /\ pc' = [pc EXCEPT ![p] = "lock"]
  BY DEF Recv, Goto
<1>3. read[p] \in Nat /\ k \in Nat
  BY DEF TypeOK
<1>4. Entered(p)' = Entered(p)
  <2>1. /\ buffer'[p] = Chunk(p, read[p], k) /\ read'[p] = read[p] + k
        /\ pc'[p] = "lock"
    BY <1>1, <1>2 DEF TypeOK
  <2>2. Len(buffer'[p]) = k
    <3>1. \A n, j \in Nat : Len(Chunk(p, n, j)) = j
      BY ChunkType
    <3>2. Len(Chunk(p, read[p], k)) = k
      BY <1>3, <3>1
    <3> QED
      BY <2>1, <3>2
  <2>3. Entered(p)' = (read[p] + k) - k
    BY <2>1, <2>2 DEF Entered
  <2>4. Entered(p) = read[p]
    BY <1>2 DEF Entered
  <2> QED
    BY <1>3, <2>3, <2>4
<1>5. \A q \in Pubs : q # p => Entered(q)' = Entered(q)
  BY <1>1, <1>2 DEF TypeOK, Entered
<1> QED
  BY <1>4, <1>5 DEF Entries

\* No other step of a publisher or of its handler is seen by the subscribers.
LEMMA PubNextStutters ==
    ASSUME StreamInv, NEW p \in Pubs, PubNext(p), ~Lock(p)
    PROVE  UNCHANGED <<log, Entries, Joined, from, got>>
<1> USE DEF StreamInv, RegistryInv
<1>1. log' = log /\ from' = from /\ got' = got
  BY DEF PubNext, PubConnect, PubSend, PubClose, Accept, AcceptNoThread, Recv, PubGone,
         Unlock, Close, Send, SendAfterFin, SendError, SigPipe, net, history
<1>2. Joined' = Joined
  <2>1. \A s \in Subs : pc'[s] = pc[s]
    BY PubMoves
  <2> QED
    BY <2>1 DEF Joined
<1>3. Entries' = Entries
  <2>1. CASE Recv(p)
    BY <2>1, RecvEntersNothing
  <2>2. CASE ~Recv(p)
    <3>1. buffer' = buffer /\ read' = read
      BY <2>2 DEF PubNext, PubConnect, PubSend, PubClose, Accept, AcceptNoThread, PubGone,
             Unlock, Close, Send, SendAfterFin, SendError, SigPipe
    <3>2. \/ pc' = pc
          \/ /\ pc[p] # "lock"
             /\ \E to \in {"backlog", "recv", "orphan", "close", "done"} :
                    pc' = [pc EXCEPT ![p] = to]
      BY <2>2 DEF PubNext, PubConnect, PubSend, PubClose, Accept, AcceptNoThread, PubGone,
             Unlock, Close, Send, SendAfterFin, SendError, SigPipe, Goto
    <3>3. \A q \in Pubs : pc'[q] = "lock" <=> pc[q] = "lock"
      BY <3>2, PubMoves DEF TypeOK
    <3>4. \A q \in Pubs : Entered(q)' = Entered(q)
      BY <3>1, <3>3 DEF Entered
    <3> QED
      BY <3>4 DEF Entries
  <2> QED
    BY <2>1, <2>2
<1> QED
  BY <1>1, <1>2, <1>3

LEMMA SubNextStutters ==
    ASSUME StreamInv, NEW s \in Subs, SubNext(s), ~Register(s), ~SubRead(s)
    PROVE  UNCHANGED <<log, Entries, Joined, from, got>>
<1> USE DEF StreamInv, RegistryInv
<1>1. log' = log /\ from' = from /\ got' = got
  BY DEF SubNext, SubConnect, SubEof, SubQuit, Accept, AcceptNoThread,
         RegisterPastEnd, SubGone, Deregister, Close, net, history
<1>2. Entries' = Entries
  <2>1. read' = read /\ buffer' = buffer /\ \A p \in Pubs : pc'[p] = pc[p]
    BY SubMoves
  <2>2. \A p \in Pubs : Entered(p)' = Entered(p)
    BY <2>1 DEF Entered
  <2> QED
    BY <2>2 DEF Entries
<1>3. Joined' = Joined
  <2>1. \/ pc' = pc
        \/ /\ pc[s] \in {"idle", "backlog"}
           /\ \E to \in {"backlog", "register", "orphan"} : pc' = [pc EXCEPT ![s] = to]
        \/ /\ pc[s] \in {"recv", "deregister", "close"}
           /\ \E to \in {"deregister", "close", "done"} : pc' = [pc EXCEPT ![s] = to]
    BY DEF SubNext, SubConnect, SubEof, SubQuit, Accept, AcceptNoThread,
           RegisterPastEnd, SubGone, Deregister, Close, Goto
  <2>2. s \in Joined' <=> s \in Joined
    BY <2>1 DEF Joined, TypeOK
  <2>3. \A r \in Subs : r # s => (r \in Joined' <=> r \in Joined)
    BY SubMoves DEF Joined
  <2> QED
    BY <2>2, <2>3 DEF Joined
<1> QED
  BY <1>1, <1>2, <1>3

LEMMA BroadcastNext ==
    ASSUME StreamInv, [Next]_vars
    PROVE  [TOB!Next]_(TOB!vars)
<1>1. CASE \E p \in Pubs : PubNext(p)
  <2>1. PICK p \in Pubs : PubNext(p)
    BY <1>1
  <2>2. CASE Lock(p)
    BY <2>2, LockPublishes DEF TOB!Next
  <2>3. CASE ~Lock(p)
    BY <2>1, <2>3, PubNextStutters DEF TOB!vars, Entries, Joined
  <2> QED
    BY <2>2, <2>3
<1>2. CASE \E s \in Subs : SubNext(s)
  <2>1. PICK s \in Subs : SubNext(s)
    BY <1>2
  <2>2. CASE Register(s)
    BY <2>2, RegisterJoins DEF TOB!Next
  <2>3. CASE SubRead(s)
    BY <2>3, ReadDelivers DEF TOB!Next
  <2>4. CASE ~Register(s) /\ ~SubRead(s)
    BY <2>1, <2>4, SubNextStutters DEF TOB!vars, Entries, Joined
  <2> QED
    BY <2>2, <2>3, <2>4
<1>3. CASE UNCHANGED vars
  BY <1>3 DEF vars, TOB!vars, Entered
<1> QED
  BY <1>1, <1>2, <1>3 DEF Next

\* However the threads interleave and whoever dies, the broker implements the
\* total-order broadcast: one log, each publisher's stream in it in order and
\* without gaps, and every subscriber reads the log from where it joined.
THEOREM BroadcastImplemented == Spec => ImplementsBroadcast
<1>1. Init => TOB!Init
  BY DEF Init, TOB!Init, Entered
<1>2. StreamInv /\ [Next]_vars => [TOB!Next]_(TOB!vars)
  BY BroadcastNext
<1> QED
  BY <1>1, <1>2, StreamInvariant, PTL DEF Spec, ImplementsBroadcast, TOB!Spec
==============================================================================
