--------------------------- MODULE TcpBrokerProofs ---------------------------
(***************************************************************************)
(* Theorems about TcpBroker, for any number of clients and descriptors and *)
(* every value of the limits.                                              *)
(***************************************************************************)
EXTENDS TcpBroker, TLAPS

USE ClientsAssumption, BoundsAssumption DEF Clients

------------------------------------------------------------------------------
(* The list of subscribers                                                 *)

NoRepetition(list) ==
    \A j, k \in 1..Len(list) : list[j] = list[k] => j = k

\* What handle_subscriber's removal (broker_tcp.c:116-125) does to a list that
\* holds f once: f is gone, everything else is kept, and nothing is doubled.
LEMMA SwapRemoveKeepsTheRest ==
    ASSUME NEW S, NEW list \in Seq(S), NEW f, NoRepetition(list),
           NEW i \in 1..Len(list), list[i] = f
    PROVE  LET new == SwapRemove(list, f) IN
           /\ new \in Seq(S) /\ Len(new) = Len(list) - 1
           /\ NoRepetition(new)
           /\ \A j \in 1..Len(new) :
                  new[j] # f /\ \E k \in 1..Len(list) : new[j] = list[k]
           /\ \A k \in 1..Len(list) :
                  list[k] # f => \E j \in 1..Len(new) : new[j] = list[k]
<1> DEFINE n == Len(list)
           new == [j \in 1..(n - 1) |-> IF j = i THEN list[n] ELSE list[j]]
<1>1. n \in Nat /\ n > 0
  OBVIOUS
<1>2. SwapRemove(list, f) = new
  <2>1. i = CHOOSE k \in 1..Len(list) :
                list[k] = f /\ \A j \in 1..(k - 1) : list[j] # f
    <3>1. list[i] = f /\ \A j \in 1..(i - 1) : list[j] # f
      BY DEF NoRepetition
    <3>2. \A k \in 1..Len(list) : list[k] = f => k = i
      BY DEF NoRepetition
    <3> QED
      BY <3>1, <3>2
  <2> QED
    BY <2>1 DEF SwapRemove
<1>3. new \in Seq(S) /\ Len(new) = n - 1
  <2>1. \A j \in 1..(n - 1) : new[j] \in S
    BY <1>1
  <2> QED
    BY <1>1, <2>1
<1>4. NoRepetition(new)
  BY <1>1, <1>3 DEF NoRepetition
<1>5. \A j \in 1..Len(new) : new[j] # f /\ \E k \in 1..Len(list) : new[j] = list[k]
  BY <1>1, <1>3 DEF NoRepetition
<1>6. ASSUME NEW k \in 1..Len(list), list[k] # f
      PROVE  \E j \in 1..Len(new) : new[j] = list[k]
  <2>1. CASE k = n
    <3>1. i \in 1..(n - 1) /\ new[i] = list[k]
      BY <1>1, <1>6, <2>1
    <3> QED
      BY <1>3, <3>1
  <2>2. CASE k # n
    <3>1. k \in 1..(n - 1) /\ k # i /\ new[k] = list[k]
      BY <1>1, <1>6, <2>2
    <3> QED
      BY <1>3, <3>1
  <2> QED
    BY <2>1, <2>2
<1> HIDE DEF new, n
<1>7. /\ Len(new) = Len(list) - 1
      /\ \A k \in 1..Len(list) :
             list[k] # f => \E j \in 1..Len(new) : new[j] = list[k]
  BY <1>3, <1>6 DEF n
<1> QED
  BY <1>2, <1>3, <1>4, <1>5, <1>7

\* Whatever is removed, the list stays a list of the same things, no longer.
LEMMA SwapRemoveType ==
    ASSUME NEW S, NEW list \in Seq(S), NEW f
    PROVE  /\ SwapRemove(list, f) \in Seq(S)
           /\ Len(SwapRemove(list, f)) <= Len(list)
<1>1. CASE ~ \E k \in 1..Len(list) : list[k] = f
  <2>1. SwapRemove(list, f) = list
    BY <1>1 DEF SwapRemove
  <2> QED
    BY <2>1
<1>2. CASE \E k \in 1..Len(list) : list[k] = f
  <2> DEFINE n == Len(list)
             i == CHOOSE k \in 1..Len(list) :
                      list[k] = f /\ \A j \in 1..(k - 1) : list[j] # f
             new == [j \in 1..(n - 1) |-> IF j = i THEN list[n] ELSE list[j]]
  <2>1. SwapRemove(list, f) = new
    BY <1>2 DEF SwapRemove
  <2>2. n \in Nat /\ n > 0
    BY <1>2
  <2> HIDE DEF i
  <2>3. \A j \in 1..(n - 1) : new[j] \in S
    BY <2>2
  <2>4. new \in Seq(S) /\ Len(new) = n - 1
    BY <2>2, <2>3
  <2> QED
    BY <2>1, <2>2, <2>4
<1> QED
  BY <1>1, <1>2

------------------------------------------------------------------------------
(* Types                                                                   *)

\* Between accept() and close() a handler's sock is open and is its own:
\* close() comes last in both handlers (broker_tcp.c:92, 127), so accept()
\* cannot hand a descriptor out that a handler still uses.
OwnsDescriptor ==
    \A c \in Clients : Live(c) => sock[c] \in Fds /\ desc[sock[c]] = c

\* A recv() returns a piece of the publisher's stream.
LEMMA ChunkType ==
    ASSUME NEW p \in Pubs, NEW n \in Nat, NEW k \in Nat
    PROVE  /\ Chunk(p, n, k) \in Seq(Pubs \X Nat)
           /\ Len(Chunk(p, n, k)) = k
  BY DEF Chunk, Unit

LEMMA InitType == Init => TypeOK
  BY DEF Init, TypeOK, PubPC, SubPC, ConnState

\* A client left without a handler, of either kind, keeps the types.
LEMMA OrphanType ==
    ASSUME TypeOK, NEW c \in Clients, AcceptNoThread(c)
    PROVE  TypeOK'
<1> USE DEF net, history
<1>1. desc' \in [Fds -> Clients \cup {None}]
  BY DEF TypeOK, AcceptNoThread
<1>2. /\ pc' \in [Clients -> PubPC \cup SubPC]
      /\ \A q \in Pubs : pc'[q] \in PubPC
      /\ \A q \in Subs : pc'[q] \in SubPC
  BY DEF TypeOK, AcceptNoThread, Goto, PubPC, SubPC
<1>3. broker' \in {"up", "killed", "overrun"}
  BY DEF AcceptNoThread
<1> QED
  BY <1>1, <1>2, <1>3 DEF TypeOK, AcceptNoThread

\* A step of a publisher, or of its handler, keeps the types.
LEMMA PubNextType ==
    ASSUME TypeOK, NEW p \in Pubs, PubNext(p)
    PROVE  TypeOK'
<1> USE DEF net, history
<1>1. CASE PubConnect(p)
  BY <1>1 DEF TypeOK, PubConnect, Goto, PubPC, SubPC
<1>2. CASE PubSend(p)
  <2>1. sent' \in [Pubs -> 0..Total]
    BY <1>2 DEF TypeOK, PubSend
  <2> QED
    BY <1>2, <2>1 DEF TypeOK, PubSend
<1>3. CASE PubClose(p)
  BY <1>3 DEF TypeOK, PubClose
<1>4. CASE Accept(p)
  <2>1. PICK f \in Fds : /\ desc' = [desc EXCEPT ![f] = p]
                         /\ sock' = [sock EXCEPT ![p] = f]
    BY <1>4 DEF TypeOK, Accept
  <2>2. pc' = [pc EXCEPT ![p] = "recv"]
    BY <1>4 DEF TypeOK, Accept, Goto
  <2>3. /\ sock' \in [Clients -> Fds \cup {None}]
        /\ desc' \in [Fds -> Clients \cup {None}]
    BY <2>1 DEF TypeOK
  <2>4. /\ pc' \in [Clients -> PubPC \cup SubPC]
        /\ \A q \in Pubs : pc'[q] \in PubPC
        /\ \A q \in Subs : pc'[q] \in SubPC
    BY <2>2 DEF TypeOK, PubPC, SubPC
  <2> QED
    BY <1>4, <2>3, <2>4 DEF TypeOK, Accept
<1>5. CASE Recv(p)
  <2>1. PICK k \in 1..RecvMax :
            /\ read[p] + k <= sent[p]
            /\ buffer' = [buffer EXCEPT ![p] = Chunk(p, read[p], k)]
            /\ read' = [read EXCEPT ![p] = @ + k]
    BY <1>5 DEF TypeOK, Recv
  <2>2. Chunk(p, read[p], k) \in Seq(Pubs \X Nat)
    BY <2>1, ChunkType DEF TypeOK
  <2>3. buffer' \in [Pubs -> Seq(Pubs \X Nat)]
    BY <2>1, <2>2 DEF TypeOK
  <2>4. read' \in [Pubs -> 0..Total]
    BY SMTT(30), <2>1 DEF TypeOK
  <2> QED
    BY ZenonT(60), <1>5, <2>3, <2>4 DEF TypeOK, Recv, Goto, PubPC
<1>6. CASE PubGone(p)
  BY <1>6 DEF TypeOK, PubGone, Goto, PubPC, SubPC
<1>7. CASE Lock(p)
  BY SMTT(30), <1>7 DEF TypeOK, Lock, Goto, PubPC, SubPC
<1>8. CASE Unlock(p)
  BY <1>8 DEF TypeOK, Unlock, Goto, PubPC, SubPC
<1>9. CASE Close(p)
  BY <1>9 DEF TypeOK, Close, Goto, PubPC, SubPC
<1>10. ASSUME NEW s \in Subs, Send(p, s)
       PROVE  TypeOK'
  <2>1. idx' \in [Pubs -> Nat]
    <3>1. idx \in [Pubs -> Nat] /\ idx' = [idx EXCEPT ![p] = @ + 1]
      BY <1>10 DEF TypeOK, Send, Advance
    <3> QED
      BY <3>1
  <2>2. wire' \in [Subs -> Seq(Pubs \X Nat)]
    <3>1. /\ wire \in [Subs -> Seq(Pubs \X Nat)] /\ buffer[p] \in Seq(Pubs \X Nat)
          /\ wire' = [wire EXCEPT ![s] = @ \o buffer[p]]
      BY <1>10 DEF TypeOK, Send
    <3> QED
      BY <3>1
  <2> QED
    BY <1>10, <2>1, <2>2 DEF TypeOK, Send
<1>11. ASSUME NEW s \in Subs, SendAfterFin(p, s)
       PROVE  TypeOK'
  <2>1. idx' \in [Pubs -> Nat]
    <3>1. idx \in [Pubs -> Nat] /\ idx' = [idx EXCEPT ![p] = @ + 1]
      BY <1>11 DEF TypeOK, SendAfterFin, Advance
    <3> QED
      BY <3>1
  <2>2. conn' \in [Subs -> ConnState]
    BY <1>11 DEF TypeOK, SendAfterFin, ConnState
  <2> QED
    BY <1>11, <2>1, <2>2 DEF TypeOK, SendAfterFin
<1>12. ASSUME NEW s \in Subs, SendError(p, s)
       PROVE  TypeOK'
  <2>1. idx' \in [Pubs -> Nat]
    <3>1. idx \in [Pubs -> Nat] /\ idx' = [idx EXCEPT ![p] = @ + 1]
      BY <1>12 DEF TypeOK, SendError, Advance
    <3> QED
      BY <3>1
  <2> QED
    BY <1>12, <2>1 DEF TypeOK, SendError
<1>13. ASSUME NEW s \in Subs, SigPipe(p, s)
       PROVE  TypeOK'
  BY <1>13 DEF TypeOK, SigPipe
<1>14. CASE AcceptNoThread(p)
  BY <1>14, OrphanType
<1> QED
  BY <1>1, <1>2, <1>3, <1>4, <1>5, <1>6, <1>7, <1>8, <1>9, <1>10, <1>11, <1>12, <1>13,
     <1>14
     DEF PubNext

\* A step of a subscriber, or of its handler, keeps the types.  The list stays
\* within the array because Register needs room, and what Register enters is a
\* descriptor because the handler owns one.
LEMMA SubNextType ==
    ASSUME TypeOK, OwnsDescriptor, NEW s \in Subs, SubNext(s)
    PROVE  TypeOK'
<1> USE DEF net, history
<1>1. CASE SubConnect(s)
  BY <1>1 DEF TypeOK, SubConnect, Goto, PubPC, SubPC, ConnState
<1>2. CASE SubRead(s)
  <2>1. /\ wire \in [Subs -> Seq(Pubs \X Nat)] /\ got \in [Subs -> Seq(Pubs \X Nat)]
        /\ wire[s] # <<>>
        /\ got' = [got EXCEPT ![s] = Append(@, Head(wire[s]))]
        /\ wire' = [wire EXCEPT ![s] = Tail(@)]
    BY <1>2 DEF TypeOK, SubRead
  <2>2. /\ got' \in [Subs -> Seq(Pubs \X Nat)]
        /\ wire' \in [Subs -> Seq(Pubs \X Nat)]
    <3>1. /\ Head(wire[s]) \in Pubs \X Nat
          /\ Tail(wire[s]) \in Seq(Pubs \X Nat)
      BY <2>1
    <3> QED
      BY <2>1, <3>1
  <2> QED
    BY <1>2, <2>2 DEF TypeOK, SubRead
<1>3. CASE SubEof(s)
  BY <1>3 DEF TypeOK, SubEof, ConnState
<1>4. CASE SubQuit(s)
  <2>1. conn' \in [Subs -> ConnState] /\ wire' \in [Subs -> Seq(Pubs \X Nat)]
    <3>1. PICK state \in {"fin", "reset"} : conn' = [conn EXCEPT ![s] = state]
      BY <1>4 DEF SubQuit
    <3>2. conn \in [Subs -> ConnState] /\ wire \in [Subs -> Seq(Pubs \X Nat)]
          /\ wire' = [wire EXCEPT ![s] = <<>>]
      BY <1>4 DEF TypeOK, SubQuit
    <3>3. <<>> \in Seq(Pubs \X Nat)
      OBVIOUS
    <3> QED
      BY <3>1, <3>2, <3>3 DEF ConnState
  <2> QED
    BY <1>4, <2>1 DEF TypeOK, SubQuit
<1>5. CASE Accept(s)
  <2>1. PICK f \in Fds : /\ desc' = [desc EXCEPT ![f] = s]
                         /\ sock' = [sock EXCEPT ![s] = f]
    BY <1>5 DEF TypeOK, Accept
  <2>2. pc' = [pc EXCEPT ![s] = "register"]
    BY <1>5 DEF TypeOK, Accept, Goto
  <2>3. /\ sock' \in [Clients -> Fds \cup {None}]
        /\ desc' \in [Fds -> Clients \cup {None}]
    BY <2>1 DEF TypeOK
  <2>4. /\ pc' \in [Clients -> PubPC \cup SubPC]
        /\ \A q \in Pubs : pc'[q] \in PubPC
        /\ \A q \in Subs : pc'[q] \in SubPC
    BY SMTT(30), <2>2 DEF TypeOK, PubPC, SubPC
  <2> QED
    BY <1>5, <2>3, <2>4 DEF TypeOK, Accept
<1>6. CASE Register(s)
  <2>1. sock[s] \in Fds
    BY <1>6 DEF TypeOK, Register, OwnsDescriptor, Live
  <2>2. subscribers' \in Seq(Fds) /\ Len(subscribers') <= MaxClients
    BY <1>6, <2>1 DEF TypeOK, Register, RoomInArray
  <2>3. from' \in [Subs -> Nat]
    BY <1>6 DEF TypeOK, Register
  <2> QED
    BY <1>6, <2>2, <2>3 DEF TypeOK, Register, Goto, PubPC, SubPC
<1>7. CASE RegisterPastEnd(s)
  BY <1>7 DEF TypeOK, RegisterPastEnd
<1>8. CASE SubGone(s)
  BY ZenonT(60), <1>8 DEF TypeOK, SubGone, Goto, PubPC, SubPC
<1>9. CASE Deregister(s)
  <2>1. /\ SwapRemove(subscribers, sock[s]) \in Seq(Fds)
        /\ Len(SwapRemove(subscribers, sock[s])) <= MaxClients
    <3>1. /\ subscribers \in Seq(Fds) /\ Len(subscribers) <= MaxClients
          /\ MaxClients \in Nat
      BY DEF TypeOK
    <3> QED
      BY <3>1, SwapRemoveType
  <2> QED
    BY ZenonT(60), <1>9, <2>1 DEF TypeOK, Deregister, Goto, SubPC
<1>10. CASE Close(s)
  BY <1>10 DEF TypeOK, Close, Goto, PubPC, SubPC
<1>11. CASE AcceptNoThread(s)
  BY <1>11, OrphanType
<1> QED
  BY <1>1, <1>2, <1>3, <1>4, <1>5, <1>6, <1>7, <1>8, <1>9, <1>10, <1>11 DEF SubNext

------------------------------------------------------------------------------
(* Descriptors and the registry                                            *)

\* A step that opens and closes no descriptor, and after which a handler is
\* live only if it was before, keeps OwnsDescriptor.
LEMMA NoDescriptorChanges ==
    ASSUME OwnsDescriptor, sock' = sock, desc' = desc,
           \A c \in Clients : Live(c)' => Live(c)
    PROVE  OwnsDescriptor'
  BY DEF OwnsDescriptor

\* A step that leaves the list alone, and the handlers of listed subscribers
\* with their descriptors, keeps RegistryExact.
LEMMA RegistryUntouched ==
    ASSUME RegistryExact, subscribers' = subscribers,
           \A s \in Subs : Listed(s)' <=> Listed(s),
           \A s \in Subs : Listed(s) => sock'[s] = sock[s] /\ desc'[sock[s]] = s
    PROVE  RegistryExact'
<1>1. \A k \in 1..Len(subscribers') :
          \E s \in Subs : Listed(s)' /\ sock'[s] = subscribers'[k] /\ desc'[sock'[s]] = s
  BY DEF RegistryExact
<1>2. \A s \in Subs : Listed(s)' => \E k \in 1..Len(subscribers') : subscribers'[k] = sock'[s]
  BY DEF RegistryExact
<1> QED
  BY <1>1, <1>2 DEF RegistryExact

\* accept() and close(), of either kind of client, keep both.
LEMMA AcceptKeepsRegistry ==
    ASSUME TypeOK, OwnsDescriptor, RegistryExact, NEW c \in Clients, Accept(c)
    PROVE  OwnsDescriptor' /\ RegistryExact'
<1>1. PICK f \in Fds : /\ desc[f] = None
                       /\ desc' = [desc EXCEPT ![f] = c]
                       /\ sock' = [sock EXCEPT ![c] = f]
  BY DEF Accept
<1>2. /\ pc[c] = "backlog" /\ subscribers' = subscribers
      /\ pc' = [pc EXCEPT ![c] = IF c \in Subs THEN "register" ELSE "recv"]
  BY DEF Accept, Goto
<1>3. ASSUME NEW d \in Clients, d # c
      PROVE  pc'[d] = pc[d] /\ sock'[d] = sock[d]
  BY <1>1, <1>2, <1>3 DEF TypeOK
<1>4. ASSUME NEW d \in Clients, d # c, Live(d)
      PROVE  sock[d] \in Fds /\ desc'[sock[d]] = d
  BY <1>1, <1>4 DEF TypeOK, OwnsDescriptor
<1>5. sock'[c] = f /\ desc'[f] = c
  BY <1>1 DEF TypeOK
<1>6. OwnsDescriptor'
  <2>1. ASSUME NEW d \in Clients, Live(d)'
        PROVE  sock'[d] \in Fds /\ desc'[sock'[d]] = d
    <3>1. CASE d = c
      BY <3>1, <1>5
    <3>2. CASE d # c
      BY <2>1, <3>2, <1>3, <1>4 DEF Live
    <3> QED
      BY <3>1, <3>2
  <2> QED
    BY <2>1 DEF OwnsDescriptor
<1>7. RegistryExact'
  <2>1. \A s \in Subs : Listed(s)' <=> Listed(s)
    <3>1. c \in Subs => ~Listed(c) /\ ~Listed(c)'
      BY <1>2 DEF Listed, TypeOK
    <3> QED
      BY <3>1, <1>3 DEF Listed
  <2>2. \A s \in Subs : Listed(s) => sock'[s] = sock[s] /\ desc'[sock[s]] = s
    BY <1>2, <1>3, <1>4 DEF Listed, Live
  <2> QED
    BY <2>1, <2>2, <1>2, RegistryUntouched
<1> QED
  BY <1>6, <1>7

\* A descriptor without a handler is in nobody's sock, and stays out of the list.
LEMMA OrphanKeepsRegistry ==
    ASSUME TypeOK, OwnsDescriptor, RegistryExact, NEW c \in Clients, AcceptNoThread(c)
    PROVE  OwnsDescriptor' /\ RegistryExact'
<1>1. PICK f \in Fds : desc[f] = None /\ desc' = [desc EXCEPT ![f] = c]
  BY DEF AcceptNoThread
<1>2. /\ pc[c] = "backlog" /\ pc' = [pc EXCEPT ![c] = "orphan"]
      /\ subscribers' = subscribers /\ sock' = sock
  BY DEF AcceptNoThread, Goto
<1>3. ~Live(c) /\ ~Live(c)' /\ ~Listed(c) /\ ~Listed(c)'
  BY <1>2 DEF TypeOK, Live, Listed
<1>4. \A d \in Clients : d # c => pc'[d] = pc[d]
  BY <1>2 DEF TypeOK
<1>5. ASSUME NEW d \in Clients, Live(d)
      PROVE  sock[d] \in Fds /\ desc'[sock[d]] = d
  BY <1>1, <1>5 DEF TypeOK, OwnsDescriptor
<1>6. OwnsDescriptor'
  BY <1>2, <1>3, <1>4, <1>5 DEF OwnsDescriptor, Live
<1>7. RegistryExact'
  <2>1. \A s \in Subs : Listed(s)' <=> Listed(s)
    BY <1>3, <1>4 DEF Listed
  <2>2. \A s \in Subs : Listed(s) => sock'[s] = sock[s] /\ desc'[sock[s]] = s
    BY <1>2, <1>5 DEF Listed, Live
  <2> QED
    BY <2>1, <2>2, <1>2, RegistryUntouched
<1> QED
  BY <1>6, <1>7

LEMMA CloseKeepsRegistry ==
    ASSUME TypeOK, OwnsDescriptor, RegistryExact, NEW c \in Clients, Close(c)
    PROVE  OwnsDescriptor' /\ RegistryExact'
<1>1. /\ pc[c] = "close" /\ pc' = [pc EXCEPT ![c] = "done"]
      /\ desc' = [desc EXCEPT ![sock[c]] = None]
      /\ sock' = sock /\ subscribers' = subscribers
  BY DEF Close, Goto
<1>2. sock[c] \in Fds /\ desc[sock[c]] = c
  BY <1>1 DEF OwnsDescriptor, Live
<1>3. ASSUME NEW d \in Clients, d # c, Live(d)
      PROVE  sock[d] \in Fds /\ desc'[sock[d]] = d
  BY <1>1, <1>2, <1>3 DEF TypeOK, OwnsDescriptor
<1>4. ASSUME NEW d \in Clients, d # c
      PROVE  pc'[d] = pc[d]
  BY <1>1, <1>4 DEF TypeOK
<1>5. ~Live(c)'
  BY <1>1 DEF TypeOK, Live
<1>6. OwnsDescriptor'
  <2>1. ASSUME NEW d \in Clients, Live(d)'
        PROVE  sock'[d] \in Fds /\ desc'[sock'[d]] = d
    <3>1. d # c /\ Live(d)
      BY <2>1, <1>4, <1>5 DEF Live
    <3> QED
      BY <3>1, <1>1, <1>3
  <2> QED
    BY <2>1 DEF OwnsDescriptor
<1>7. RegistryExact'
  <2>1. \A s \in Subs : Listed(s)' <=> Listed(s)
    <3>1. c \in Subs => ~Listed(c) /\ ~Listed(c)'
      BY <1>1 DEF Listed, TypeOK
    <3> QED
      BY <3>1, <1>4 DEF Listed
  <2>2. \A s \in Subs : Listed(s) => sock'[s] = sock[s] /\ desc'[sock[s]] = s
    BY <1>1, <1>3 DEF Listed, Live
  <2> QED
    BY <2>1, <2>2, <1>1, RegistryUntouched
<1> QED
  BY <1>6, <1>7

\* Registration: the new entry is not in the list yet, for the descriptor is
\* the handler's own and the handler is not listed.
LEMMA RegisterKeepsRegistry ==
    ASSUME TypeOK, OwnsDescriptor, RegistryExact, NEW s \in Subs, Register(s)
    PROVE  OwnsDescriptor' /\ RegistryExact'
<1> DEFINE n == Len(subscribers)
<1>1. /\ pc[s] = "register" /\ pc' = [pc EXCEPT ![s] = "recv"]
      /\ subscribers' = Append(subscribers, sock[s])
      /\ sock' = sock /\ desc' = desc
  BY DEF Register, Goto
<1>2. sock[s] \in Fds /\ desc[sock[s]] = s
  BY <1>1 DEF OwnsDescriptor, Live
<1>3. \A c \in Clients : c # s => pc'[c] = pc[c]
  BY <1>1 DEF TypeOK
<1>4. Listed(s)' /\ ~Listed(s) /\ Live(s)
  BY <1>1 DEF TypeOK, Listed, Live
<1>5. OwnsDescriptor'
  BY <1>1, <1>3, <1>4, NoDescriptorChanges DEF Live
<1>6. \A r \in Subs : Listed(r)' <=> r = s \/ Listed(r)
  BY <1>3, <1>4 DEF Listed
<1>7. /\ n \in Nat /\ Len(subscribers') = n + 1
      /\ subscribers'[n + 1] = sock[s]
      /\ \A k \in 1..n : subscribers'[k] = subscribers[k]
  BY <1>1, <1>2 DEF TypeOK
<1>8. \A k \in 1..n : subscribers[k] # sock[s]
  BY <1>2, <1>4 DEF RegistryExact
<1>9. \A j, k \in 1..Len(subscribers') : subscribers'[j] = subscribers'[k] => j = k
  <2>1. ASSUME NEW j \in 1..(n + 1), NEW k \in 1..(n + 1), subscribers'[j] = subscribers'[k]
        PROVE  j = k
    <3>1. CASE j \in 1..n /\ k \in 1..n
      BY <2>1, <3>1, <1>7 DEF RegistryExact
    <3>2. CASE j = n + 1 \/ k = n + 1
      BY <2>1, <3>2, <1>7, <1>8
    <3> QED
      BY <3>1, <3>2, <1>7
  <2> QED
    BY <2>1, <1>7
<1>10. \A k \in 1..Len(subscribers') :
           \E r \in Subs : Listed(r)' /\ sock'[r] = subscribers'[k] /\ desc'[sock'[r]] = r
  <2>1. ASSUME NEW k \in 1..n
        PROVE  \E r \in Subs : Listed(r)' /\ sock'[r] = subscribers'[k] /\ desc'[sock'[r]] = r
    BY <1>1, <1>6, <1>7 DEF RegistryExact
  <2>2. Listed(s)' /\ sock'[s] = subscribers'[n + 1] /\ desc'[sock'[s]] = s
    BY <1>1, <1>2, <1>4, <1>7
  <2>3. \A k \in 1..(n + 1) : k \in 1..n \/ k = n + 1
    BY <1>7
  <2> QED
    BY <2>1, <2>2, <2>3, <1>7
<1>11. \A r \in Subs : Listed(r)' => \E k \in 1..Len(subscribers') : subscribers'[k] = sock'[r]
  <2>1. \A k \in 1..n : k \in 1..(n + 1)
    BY <1>7
  <2>2. n + 1 \in 1..(n + 1)
    BY <1>7
  <2> QED
    BY <2>1, <2>2, <1>1, <1>6, <1>7 DEF RegistryExact
<1> QED
  BY <1>5, <1>9, <1>10, <1>11 DEF RegistryExact

\* Deregistration removes the entry of s and no other.
LEMMA DeregisterKeepsRegistry ==
    ASSUME TypeOK, OwnsDescriptor, RegistryExact, NEW s \in Subs, Deregister(s)
    PROVE  OwnsDescriptor' /\ RegistryExact'
<1> DEFINE new == SwapRemove(subscribers, sock[s])
<1>1. /\ pc[s] = "deregister" /\ pc' = [pc EXCEPT ![s] = "close"]
      /\ subscribers' = new /\ sock' = sock /\ desc' = desc
  BY DEF Deregister, Goto
<1>2. Listed(s) /\ Live(s) /\ ~Listed(s)'
  BY <1>1 DEF TypeOK, Listed, Live
<1>3. \A c \in Clients : c # s => pc'[c] = pc[c]
  BY <1>1 DEF TypeOK
<1>4. OwnsDescriptor'
  BY <1>1, <1>2, <1>3, NoDescriptorChanges DEF Live
<1>5. \A r \in Subs : Listed(r)' <=> r # s /\ Listed(r)
  BY <1>2, <1>3 DEF Listed
<1>6. PICK i \in 1..Len(subscribers) : subscribers[i] = sock[s]
  BY <1>2 DEF RegistryExact
<1>7. subscribers \in Seq(Fds) /\ NoRepetition(subscribers)
  BY DEF TypeOK, RegistryExact, NoRepetition
<1>8. /\ NoRepetition(new)
      /\ \A j \in 1..Len(new) :
             new[j] # sock[s] /\ \E k \in 1..Len(subscribers) : new[j] = subscribers[k]
      /\ \A k \in 1..Len(subscribers) :
             subscribers[k] # sock[s] => \E j \in 1..Len(new) : new[j] = subscribers[k]
  BY <1>6, <1>7, SwapRemoveKeepsTheRest
<1> HIDE DEF new
<1>9. ASSUME NEW k \in 1..Len(new)
      PROVE  \E r \in Subs : Listed(r)' /\ sock[r] = new[k] /\ desc[sock[r]] = r
  BY <1>5, <1>8 DEF RegistryExact
<1>10. ASSUME NEW r \in Subs, Listed(r)'
       PROVE  \E k \in 1..Len(new) : new[k] = sock[r]
  <2>1. r # s /\ Listed(r)
    BY <1>5, <1>10
  <2>2. sock[r] # sock[s]
    <3>1. desc[sock[r]] = r /\ desc[sock[s]] = s
      BY <2>1, <1>2 DEF OwnsDescriptor, Listed, Live
    <3> QED
      BY <2>1, <3>1
  <2> QED
    BY <2>1, <2>2, <1>8 DEF RegistryExact
<1> QED
  BY <1>1, <1>4, <1>8, <1>9, <1>10 DEF RegistryExact, NoRepetition

\* A step that touches neither the list nor a descriptor, and moves handlers
\* only between places that count the same.
LEMMA OthersKeepRegistry ==
    ASSUME OwnsDescriptor, RegistryExact,
           subscribers' = subscribers, sock' = sock, desc' = desc,
           \A c \in Clients : Live(c)' => Live(c),
           \A s \in Subs : Listed(s)' <=> Listed(s)
    PROVE  OwnsDescriptor' /\ RegistryExact'
<1>1. \A s \in Subs : Listed(s) => sock'[s] = sock[s] /\ desc'[sock[s]] = s
  BY DEF OwnsDescriptor, Listed, Live
<1> QED
  BY <1>1, NoDescriptorChanges, RegistryUntouched

LEMMA PubNextRegistry ==
    ASSUME TypeOK, OwnsDescriptor, RegistryExact, NEW p \in Pubs, PubNext(p)
    PROVE  OwnsDescriptor' /\ RegistryExact'
<1> DEFINE Untouched == /\ subscribers' = subscribers /\ sock' = sock /\ desc' = desc
           SameWorld == /\ \A c \in Clients : Live(c)' => Live(c)
                        /\ \A s \in Subs : Listed(s)' <=> Listed(s)
<1>1. CASE Accept(p)
  BY <1>1, AcceptKeepsRegistry
<1>2. CASE Close(p)
  BY <1>2, CloseKeepsRegistry
<1>3. CASE \/ PubConnect(p) \/ Recv(p) \/ PubGone(p) \/ Lock(p) \/ Unlock(p)
  <2>1. Untouched
    BY <1>3 DEF PubConnect, Recv, PubGone, Lock, Unlock
  <2>2. PICK to \in {"backlog", "lock", "close", "send", "recv"} :
            /\ pc' = [pc EXCEPT ![p] = to]
            /\ to # "backlog" => Live(p)
    BY <1>3 DEF PubConnect, Recv, PubGone, Lock, Unlock, Goto, Live
  <2>3. /\ \A c \in Clients : c # p => pc'[c] = pc[c]
        /\ pc'[p] = to
    BY <2>2 DEF TypeOK
  <2>4. \A c \in Clients : Live(c)' => Live(c)
    BY <2>2, <2>3 DEF Live
  <2>5. \A s \in Subs : Listed(s)' <=> Listed(s)
    BY <2>3 DEF Listed
  <2> QED
    BY <2>1, <2>4, <2>5, OthersKeepRegistry
<1>4. CASE \/ PubSend(p) \/ PubClose(p)
           \/ \E s \in Subs : \/ Send(p, s) \/ SendAfterFin(p, s)
                              \/ SendError(p, s) \/ SigPipe(p, s)
  <2>1. Untouched /\ pc' = pc
    BY <1>4 DEF PubSend, PubClose, Send, SendAfterFin, SendError, SigPipe
  <2>2. SameWorld
    BY <2>1 DEF Live, Listed
  <2> QED
    BY <2>1, <2>2, OthersKeepRegistry
<1>5. CASE AcceptNoThread(p)
  BY <1>5, OrphanKeepsRegistry
<1> QED
  BY <1>1, <1>2, <1>3, <1>4, <1>5 DEF PubNext

LEMMA SubNextRegistry ==
    ASSUME TypeOK, OwnsDescriptor, RegistryExact, NEW s \in Subs, SubNext(s)
    PROVE  OwnsDescriptor' /\ RegistryExact'
<1>1. CASE Accept(s)
  BY <1>1, AcceptKeepsRegistry
<1>2. CASE Close(s)
  BY <1>2, CloseKeepsRegistry
<1>3. CASE Register(s)
  BY <1>3, RegisterKeepsRegistry
<1>4. CASE Deregister(s)
  BY <1>4, DeregisterKeepsRegistry
<1>5. CASE SubConnect(s) \/ SubGone(s)
  <2>1. subscribers' = subscribers /\ sock' = sock /\ desc' = desc
    BY <1>5 DEF SubConnect, SubGone
  <2>2. PICK to \in {"backlog", "deregister"} :
            /\ pc' = [pc EXCEPT ![s] = to]
            /\ pc[s] = IF to = "backlog" THEN "idle" ELSE "recv"
    BY <1>5 DEF SubConnect, SubGone, Goto
  <2>3. /\ \A c \in Clients : c # s => pc'[c] = pc[c]
        /\ pc'[s] = to
    BY <2>2 DEF TypeOK
  <2>4. \A c \in Clients : Live(c)' => Live(c)
    BY <2>2, <2>3 DEF Live
  <2>5. \A r \in Subs : Listed(r)' <=> Listed(r)
    BY <2>2, <2>3 DEF Listed
  <2> QED
    BY <2>1, <2>4, <2>5, OthersKeepRegistry
<1>6. CASE SubRead(s) \/ SubEof(s) \/ SubQuit(s) \/ RegisterPastEnd(s)
  <2>1. subscribers' = subscribers /\ sock' = sock /\ desc' = desc /\ pc' = pc
    BY <1>6 DEF SubRead, SubEof, SubQuit, RegisterPastEnd
  <2>2. /\ \A c \in Clients : Live(c)' => Live(c)
        /\ \A r \in Subs : Listed(r)' <=> Listed(r)
    BY <2>1 DEF Live, Listed
  <2> QED
    BY <2>1, <2>2, OthersKeepRegistry
<1>7. CASE AcceptNoThread(s)
  BY <1>7, OrphanKeepsRegistry
<1> QED
  BY <1>1, <1>2, <1>3, <1>4, <1>5, <1>6, <1>7 DEF SubNext

------------------------------------------------------------------------------
(* Theorems                                                                *)

\* RegistryExact is not inductive alone: that accept() returns a descriptor
\* no entry names rests on OwnsDescriptor, and both on the types.
RegistryInv == TypeOK /\ OwnsDescriptor /\ RegistryExact

LEMMA NextRegistry ==
    ASSUME RegistryInv, [Next]_vars
    PROVE  RegistryInv'
<1>1. CASE Next
  <2>1. CASE \E p \in Pubs : PubNext(p)
    BY <2>1, PubNextType, PubNextRegistry DEF RegistryInv
  <2>2. CASE \E s \in Subs : SubNext(s)
    BY <2>2, SubNextType, SubNextRegistry DEF RegistryInv
  <2> QED
    BY <1>1, <2>1, <2>2 DEF Next
<1>2. CASE UNCHANGED vars
  <2>1. TypeOK'
    BY <1>2 DEF RegistryInv, TypeOK, vars
  <2>2. subscribers' = subscribers /\ sock' = sock /\ desc' = desc /\ pc' = pc
    BY <1>2 DEF vars
  <2>3. OwnsDescriptor' /\ RegistryExact'
    BY <2>2 DEF RegistryInv, OwnsDescriptor, RegistryExact, Live, Listed
  <2> QED
    BY <2>1, <2>3 DEF RegistryInv
<1> QED
  BY <1>1, <1>2

THEOREM RegistryInvariant == Spec => []RegistryInv
<1>1. Init => RegistryInv
  <2>1. Init => OwnsDescriptor /\ RegistryExact
    BY DEF Init, OwnsDescriptor, RegistryExact, Live, Listed
  <2> QED
    BY <2>1, InitType DEF RegistryInv
<1>2. RegistryInv /\ [Next]_vars => RegistryInv'
  BY NextRegistry
<1> QED
  BY <1>1, <1>2, PTL DEF Spec

\* Every reachable state has the types of TypeOK; in particular the part of
\* subscribers[] in use never exceeds the array (broker_tcp.c:25, 103).
THEOREM TypeCorrect == Spec => []TypeOK
<1>1. RegistryInv => TypeOK
  BY DEF RegistryInv
<1> QED
  BY <1>1, RegistryInvariant, PTL

\* subscribers[] names each listed subscriber once and nothing else, for any
\* number of clients that come and go and any reuse of descriptors
\* (broker_tcp.c:96-129): broadcast() never sends to a descriptor that has
\* been closed, or that accept() has since handed to somebody else.
THEOREM RegistryCorrect == Spec => []RegistryExact
<1>1. RegistryInv => RegistryExact
  BY DEF RegistryInv
<1> QED
  BY <1>1, RegistryInvariant, PTL
==============================================================================
