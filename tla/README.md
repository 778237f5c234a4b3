# Verification of the pub/sub brokers (TCP, UDP and Mini-QUIC)

The repository holds three families of programs that relay sports news from
*publishers* to *subscribers* through a *broker*: over TCP, over UDP, and over
"Mini-QUIC", a small reliability protocol on UDP. This directory keeps the TLA+
modules of those programs, the TLC configurations that check them on small
instances, and the proofs that TLAPS checks for every instance. Source paths
are relative to the repository; line numbers are of the same commit.

## 1. Inventory

| Component | State | Operations | What is hard |
|---|---|---|---|
| TCP broker, `tcp/tcp_C/broker_tcp.c` | `subscribers[]`, `num_sub`, `sub_mutex`; per client thread `sock`, `buffer` | two accept loops, `handle_publisher`, `handle_subscriber`, `broadcast` | threads, `send()` that blocks under the mutex, reuse of descriptors, SIGPIPE, a full array, threads that are not made |
| TCP clients, `publisher_tcp.c`, `subscriber_tcp.c` | the socket | connect, send or receive in a loop, close | may die at any point; the stream has no message boundaries |
| TCP in assembly, `tcp/tcp_asm/*.asm` | array of two sockets | accept two subscribers, then one publisher at a time | subscribers that leave; publishers that wait |
| Mini-QUIC broker, `quic/broker_quic.c` | `subs[10]`: `conn_id`, address, one outstanding packet, `retries` | handshake, DATA, ACK, timer scan | loss, reordering, repetition, stale acknowledgements, equal `conn_id`s, subscribers that have ended, a restart |
| Mini-QUIC clients, `publisher_quic.c`, `subscriber_quic.c` | `conn_id`, packet counter | stop-and-wait with 5 retries; print and acknowledge | a timer that races a late answer |
| Mini-QUIC for Windows, `quic/windows/` | the same | the same | the same, and Winsock, which reports closed ports as errors of `recvfrom()` |
| UDP broker, `udp/udp_C/broker_udp.c` | topic table: 64 topics of 128 addresses | SUB, PUB | full tables, lengths at the limit, lost SUB |
| UDP clients, `publisher_udp.c`, `subscriber_udp.c` | the socket | send the demo and PUB lines; send SUB, print NEWS | nothing is acknowledged or repeated; texts close to a buffer's size |
| UDP in assembly, `udp/udp_asm/*.s` | the same | the same | generated from `udp_C` by `gcc -S` |

The programs of one family interact by messages only. Inside the TCP broker the
threads share `subscribers[]` under `sub_mutex`; all other brokers are
single-threaded loops.

What makes each correct:

* TCP broker: the list names exactly the connected subscribers; a subscriber
  receives everything broadcast since it registered, whole, in one order that
  all subscribers see; what is sent is eventually received; nobody waits for
  ever, but for a subscriber that is alive and reads no more; one client that
  leaves, or gets no thread, harms no other.
* Mini-QUIC: an acknowledgement means what its receiver takes it for; an event
  is repeated until it is printed or the retries are spent; events are printed
  in order where the network keeps order; a publisher with enough retries gets
  every packet acknowledged, stale acknowledgements or not; no event is held for
  acknowledged that no broker handled, restart or not; nothing is repeated for
  ever.
* UDP: a notice goes to the addresses subscribed to its topic, once each, and
  to no others; tables stay within their limits.

## 2. Modules

| Module | Models |
|---|---|
| `TotalOrderBroadcast` | what a broker that relays streams promises (abstract) |
| `TcpBroker` | the three TCP programs in C and the kernel between them; implements `TotalOrderBroadcast` |
| `MCTcpBroker` | symmetry for the TLC instances of `TcpBroker` |
| `TcpBrokerProofs` | theorems about `TcpBroker`: types and the list of subscribers |
| `TcpStreamProofs` | theorems about `TcpBroker`: streams and the refinement |
| `TcpAsmBroker` | the three TCP programs in assembly; implements `TotalOrderBroadcast` too |
| `MCTcpAsmBroker` | the TLC instance of `TcpAsmBroker` |
| `TcpAsmProofs` | theorems about `TcpAsmBroker` |
| `SequenceLemmas` | facts about sequences that the proofs of both TCP brokers use |
| `AcknowledgedRelay` | what a relay promises whose publishers wait for acknowledgements (abstract) |
| `MiniQuic` | the three POSIX Mini-QUIC programs and the network between them; implements `AcknowledgedRelay` |
| `MCMiniQuic` | symmetry for the TLC instances of `MiniQuic` |
| `MiniQuicProofs` | theorems about `MiniQuic` |
| `MiniQuicWin` | the three Windows Mini-QUIC programs; implements `MiniQuic` with timers that may run out at any time |
| `MCMiniQuicWin` | symmetry for the TLC instance of `MiniQuicWin` |
| `MiniQuicWinProofs` | theorems about `MiniQuicWin`, from those about `MiniQuic` |
| `TopicNotifier` | what a broker that sorts notices by topic promises (abstract) |
| `UdpBroker` | the three UDP programs in C and the network between them; implements `TopicNotifier` |
| `MCUdpBroker` | command lines and symmetry for the TLC instance of `UdpBroker` |
| `UdpBrokerProofs` | theorems about `UdpBroker` |

### TcpBroker

Each accepted client has a handler thread; `pc[c]` is where it stands. A
publisher's handler goes `recv -> lock -> send -> recv ... -> close`, a
subscriber's `register -> recv -> deregister -> close`. `desc` is the table of
descriptors of the broker process and `sock[c]` the local variable of the
handler, so a descriptor closed by one handler can be handed to another client
while `subscribers` still might name it.

* A section under `sub_mutex` that cannot block (`Register`, `Deregister`) is
  one step that needs the mutex free. `broadcast()` can block in `send()`, so
  `Lock`, each `Send` and `Unlock` are steps of their own and `mutex` says who
  is inside.
* A stream is a sequence of units `<<p, n>>`, the smallest piece that a
  `recv()` returns. `Recv` returns any number of units up to `RecvMax`, so that
  messages are joined and cut. A `send()` copies its chunk into the connection
  when there is room (`SockBuf`) and blocks otherwise; the subscriber reads
  unit by unit.
* `conn[s]` is the connection as the broker's kernel sees it. A subscriber that
  ends leaves `fin`, or `reset` when it left data unread. `send()` after `fin`
  succeeds and brings the reset; `send()` after a reset fails (`SendError`) or
  raises SIGPIPE (`SigPipe`): which one depends on whether the error was
  already reported on the socket, so both are possible outcomes.
* A registration past the end of the array ends the modelled behaviour
  (`broker = "overrun"`). With the build of `tcp/README_tcp.md` the cell after
  `subscribers[]` is `num_sub`; nothing meaningful can be said afterwards.
* The accept loops check neither `malloc()` nor `pthread_create()`. When one
  fails (`AcceptNoThread`, where the instance allows it with `NoMemory`) the
  descriptor stays open and `pc[c]` is `orphan` for good: nobody reads the client
  and nobody closes it. `pthread_detach()` of a `tid` that was never set, and the
  store through a null pointer, may also end the process; both outcomes are
  choices of the action.
* `log` and `from` are history: what has been broadcast, in the order of the
  mutex, and how much of it when `s` registered.

The liveness properties name the one thing that can stop this broker for good: a
subscriber that is alive and reads no more. `Stalled(s)` says that a thread is in
`send()` to `s`, with the mutex and without room; `Relayed` and `HandlerEnds`
promise their result *or* one subscriber that is stalled for ever, `Received` or
one that has data unread for ever. No subscriber is assumed to read.

`TotalOrderBroadcast` is refined with `entered[p]` = the units of `p` that
`broadcast()` has begun to relay and `joined` = the subscribers that have
registered; `Lock` is the abstract `Publish`, `Register` is `Join`, `SubRead` is
`Deliver`, and every other step is a stutter.

### TcpAsmBroker

`pc` is the label the one thread of the broker is at: `.loop_subs`,
`.esperar_publisher`, `.loop_recv` or `.loop_broadcast`. The queues of the two
listening sockets are `pubQueue` and `subQueue`: `connect()` succeeds long
before `accept()`, and a publisher may have sent everything, and be gone, before
it is accepted. `turns` is history. Nothing reads from a subscriber's socket, so
the error of a reset connection is reported by the next `sendto()`
(`SendError`) and the one after that raises SIGPIPE; after a FIN there is no
error to report and the first `sendto()` after the answering RST raises it
(`SendAfterFin`, then `SigPipe`). A `sendto()` that finds no room waits, with
everybody else behind it.

`TotalOrderBroadcast` is refined with `entered <- read`, the log computed from
`turns`, and `from <- 0` for all: the refinement says in addition that every
accepted subscriber has joined before the first unit. `ServedInTurn` is what
this broker promises beyond it: publishers are not interleaved.

### MiniQuic

`toBroker[c]` and `inbox[c]` are the datagrams between client `c` and the
broker. A `sendto()` may lose the datagram (at most `MaxLoss` in a behaviour);
`recvfrom()` takes the first of the queue when `Fifo`, any otherwise. Copies
made by the network itself are not modelled; copies made by retransmission are
everywhere. `cid` is chosen freely at the start: `rand() % 10000` seeded with
the second does not exclude that two clients draw the same number.

The clock is left out. A timer may run out when nothing is on its path, and
early, while up to `Early` datagrams are (the answer is late). The timer scan at
the end of a round of the broker's loop is one step per timer: each concerns one
entry and one datagram, and a datagram the broker sends in the same round as it
reads one cannot be told by anybody from one sent right after. The three seconds
between two events are not assumed to be enough for the broker's repetitions,
which take about as long (five times 500 to 600 ms).

A publisher that ends leaves its inbox behind unread. A subscriber may end
(`SubQuit`, where `Quits`): its inbox is gone, what comes later is dropped, and
its entry stays in `subs[]` until the broker ends. `GivesUp` says that the broker
stops repeating to it.

The broker may be ended and started again (`BrokerStop`, `BrokerStart`, up to
`MaxBoots` times). `subs[]` is then empty. A subscriber shakes hands once and so
is deaf from then on; a publisher notices nothing and goes on with its packet,
which the new broker acknowledges like any other. What arrives in between is lost
(`Unreachable`): the sockets are not connected, so that the kernel reports
nothing. `wait_for_ack()` may therefore still read what the *old* broker sent.

`AcknowledgedRelay` is the promise that is left of all this: a publisher has its
events taken one at a time and in order, holds one for acknowledged only if a
broker has handled it, and subscribers print nothing else. It is refined with
`acked[p]` = the events before `num[p]`: a `BrokerData` of a new event is
`Handle`, `NextPacket` after an event is `Acknowledge`, a `SubRecv` that prints is
`Deliver`, and repetitions, timers, losses and the restart are stutters.

### MiniQuicWin

The Windows programs repeat the POSIX ones statement for statement over Winsock,
so each action is the one of `MiniQuic`, mapped to the lines of the Windows file.
One thing is new. When a datagram has reached a closed port, Windows makes a later
`recvfrom()` on the sending socket fail (WSAECONNRESET), even if the socket is not
connected. `reports[p]` counts the errors that the socket of publisher `p` has yet
to return. `wait_for_ack()` returns 0 on such an error (`WinPubError`), so that a
publisher that runs while the broker is down spends attempts at once which were to
last half a second each, and an error may be returned late, in the wait for
another packet. The broker and the subscriber skip an error and go on, which is no
step at all. `ImplementsPosix` says that nothing worse comes of it: with timers
that may run out at any time (`Early <- AtAnyTime`) the POSIX programs could have
done the same. The clock is `GetTickCount64()`, which cannot be set back.

### UdpBroker

`net` is the set of datagrams on their way. Nothing orders them, a datagram that
is never received is a lost one, and the network makes no copies. Two equal SUBs
in flight count as one; NEWS that one loop sends are kept apart by the place of
their address in the topic (`entry`), so that an address entered twice would get
two of them, and `PrintedOnce` could tell.

* `topics` is the used part of `g_topics[]`. `HandleSubscribe` and
  `HandlePublish` are the two handlers, whole. A subscriber is an address to the
  broker: `addr[s]` may be taken over by another process after `SubQuit`, with
  the entries that address has in the table.
* Malformed datagrams (no topic, a space, too long, no `|`) change no state and
  none of the programs sends them, so they are left out. A topic with `|` can be
  subscribed to and never published on; for the model it is a topic outside of
  `Published`.
* `SubOk` is displayed and nothing else, so its reception is left out: it stays
  in `net` as the record that it was sent, with the run of the broker (`boot`)
  that sent it.
* A publisher's socket is connected: a PUB that reaches a closed port makes the
  next `send()` fail, which ends the publisher (`Unreachable`, `refused`). A
  subscriber's is not, and it never learns that the broker was started again.
* Lengths are those of the code, computed from the buffers. `Timeline` is the
  table of the demo's 15 texts: how many bytes each has (the file is UTF-8) and
  how often it names each team; `TeamLens` are the lengths of the names that
  `topic_to_teams()` can find in a topic of at most 63 bytes. `BodyLens` are the
  lengths of stamp and text that pass the three checks of the publisher; only the
  longest is enumerated by TLC.
* `asked`, `handled` and `notified` are history.

`TopicNotifier` is refined with `members[t]` = the addresses the table holds for
`t`: `Join` is a SUB that enters, `Notify` a PUB that is read, once each, and
`Forget` the end of the broker. A PUB on a topic nobody asked for notifies
nobody, in both.

## 3. Runs

Every run has `CHECK_DEADLOCK FALSE`: publishers and subscribers end, and a
system in which all have ended, or whose broker is gone, stops.

| Run | Instance | Shows |
|---|---|---|
| `tcp_safety` | 2 publishers, 3 subscribers, 3 descriptors, `MaxClients` 2, threads that are not made | types, `RegistryExact`, `StreamIntegrity`, refinement of `TotalOrderBroadcast` |
| `tcp_liveness` | 1 publisher with 2 units, 2 subscribers, chunks of up to 2 | `Relayed`, `Received`, `HandlerEnds` |
| `tcp_sigpipe` | 1 publisher, 1 subscriber | violation of `RunsIndefinitely` |
| `tcp_overrun` | 3 subscribers, `MaxClients` 2 | violation of `ArrayHoldsEverySubscriber` |
| `quic_reorder` | 1 publisher, 1 subscriber, 2 events, 2 losses, 1 restart, no order | types, `AcknowledgedIsHandled`, `ReleasedOnlyIfPrinted`, refinement of `AcknowledgedRelay` |
| `quic_fifo` | the Windows programs: 1 publisher, 2 subscribers that may end, 2 events, 1 loss, 1 restart, order kept | `OneEntryPerConnection`, `InOrder`, `ImplementsPosix` |
| `quic_liveness` | 1 publisher, 1 subscriber, which may end, 2 events, 2 losses, 2 retries of the broker, 3 of the publisher | `InOrder`, `PublisherSucceeds`, `LastEventPrinted`, `GivesUp` |
| `quic_collision` | 2 subscribers, few `conn_id`s, no loss | violation of `AcknowledgedIsRegistered` |
| `quic_lost_handshake` | 1 subscriber, 1 loss | violation of `HandshakeSurvivesLoss` |
| `quic_two_publishers` | 2 publishers, 1 subscriber | violation of `ReleasedOnlyIfPrinted` |
| `udp_safety` | 1 publisher, 3 subscribers, 3 addresses, 3 topics for a table of 2 with 2 addresses each, 1 restart | types, `TableExact`, `PrintedOnce`, `NewsWasAsked`, `ConfirmedIsEntered`, `NewsFits`, refinement of `TopicNotifier` |
| `asm_relay` | 2 publishers of 2 units, 2 subscribers, chunks of up to 2, queues of 1 | types, `ServedInTurn`, refinement of `TotalOrderBroadcast`, `Reaches` |

**Bounds.** In `tcp_safety` there are fewer descriptors than clients, so
descriptors are reused, between publishers and subscribers too; two publishers
contend for the mutex while three subscribers come and go, and the array can
overflow. Each publisher sends one unit there; chunks of several units, joined
by `recv()`, are the subject of `tcp_liveness`. In the Mini-QUIC runs two events
are enough for a packet to be overwritten and for stale acknowledgements of an
earlier packet; `Early` 1 (`quic_reorder`, `quic_liveness`) lets every timer cross
an answer; one retry and one loss, or two of each, make each limit reachable. One
restart falls between any two steps; a second one adds nothing that the first
did not leave behind, as the broker keeps nothing. `quic_fifo` has `Early` 0 for
its size: `InOrder` is checked with a crossing timer in `quic_liveness`, where
one subscriber is enough, as an entry never depends on another. In `quic_liveness` the publisher
has exactly one retry per loss and per answer that crosses its timer (2 + 1):
with one less `PublisherSucceeds` fails. In `udp_safety` a command line names one
topic twice, the third topic finds the table full, the third address finds a
topic full, addresses pass on, and the restart falls between any two steps; one
notice is enough because no step of the broker depends on an earlier notice. In
`asm_relay` the second publisher connects, sends and closes while the first is
served, the queue can be full, streams are joined and cut, a connection can be
full, and either subscriber leaves at any time; four units are enough for a
failed `sendto()` and the SIGPIPE after it. Symmetry is used for safety only.

**Fairness (TCP).** Weak fairness of every step of the broker's threads: they
are scheduled. Nobody is assumed to connect, send, read or quit, and the
properties say themselves what a subscriber that does not read can prevent. The
mutex is not assumed fair: publishers send finitely much, so a waiting thread
gets it.

**Fairness (TCP in assembly).** Weak fairness of the broker's one thread and of
nothing else. `Reaches` names the two things that can keep a unit from a
subscriber for good: a publisher that holds its turn and neither sends nor closes
(`WaitsForPublisher`), and a subscriber that is alive and whose connection is
full (`WaitsForSubscriber`). "Reaches" is to be read or on its way to the
subscriber, who need not read it.

**Fairness (Mini-QUIC).** Weak fairness of every process that runs, of the
reading of a datagram that was not lost, and of a timer that stays armed. Nobody
is assumed to subscribe, to quit or to restart anything; `quic_liveness` has no
restart, after which no subscriber would hear anything.

## 4. What the violations say

* `tcp_sigpipe`: the comment at `broker_tcp.c:255` says the broker runs
  indefinitely. `send()` is called with flags 0 and SIGPIPE keeps its default
  action: a subscriber leaves, a first broadcast provokes a reset, a second one
  that comes before the handler has removed the entry ends the process.
* `tcp_overrun`: `subscribers[num_sub++]` (`broker_tcp.c:103`) is not guarded.
* `quic_collision`: `quic/README.md:16` says the broker registers the user on
  the handshake, and line 25 that `srand` guarantees unique `conn_id`s. Two clients
  started within one second draw the same one; the broker acknowledges the second
  handshake, as it does when the table is full, and registers nobody.
* `quic_lost_handshake`: the acknowledgement of the handshake is there so that
  the client can repeat it (`broker_quic.c:125`); the subscriber never does.
* `quic_two_publishers`: all publishers number their events from 2 on stream 5,
  so an acknowledgement of one publisher's event releases that of another.

## 5. Proofs

Every safety property of a passing run, the refinements among them, is also a
theorem, for every value of the constants that satisfies the assumptions named in
the modules. The runs check the same formulas on small instances, and each
inductive invariant was checked with TLC before it was proved.

| Property | Theorem | Inductive invariant |
|---|---|---|
| `TcpBroker!TypeOK`, `RegistryExact` | `TcpBrokerProofs!TypeCorrect`, `RegistryCorrect` | `RegistryInv` |
| `TcpBroker!StreamIntegrity`, `ImplementsBroadcast` | `TcpStreamProofs!StreamsWhole`, `BroadcastImplemented` | `StreamInv` |
| `TcpAsmBroker!TypeOK`, `ServedInTurn`, `ImplementsBroadcast` | `TcpAsmProofs!AsmTypeCorrect`, `ServedInOrder`, `AsmBroadcastImplemented` | `AsmInv` |
| `MiniQuic!TypeOK`, `AcknowledgedIsHandled`, `ImplementsRelay` | `MiniQuicProofs!TypeCorrect`, `Acknowledged`, `RelayImplemented` | `Inv` |
| `MiniQuic!OneEntryPerConnection` | `OneEntry` | with `Inv` |
| `MiniQuic!InOrder` | `PrintedInOrder` | `Inv`, `OrderInv` |
| `MiniQuic!ReleasedOnlyIfPrinted` | `Released` (two hypotheses, see below) | `Inv` |
| `MiniQuicWin`: `ImplementsPosix`, `OneEntryPerConnection`, `InOrder` | `MiniQuicWinProofs!PosixImplemented`, `WinOneEntry`, `WinPrintedInOrder` | `Inv`, `BootInv`, `PathInv`, `OrderInv` |
| `UdpBroker!TypeOK`, `TableExact`, `NewsWasAsked`, `ConfirmedIsEntered`, `NewsFits` | `UdpBrokerProofs!TypeCorrect`, `TableCorrect`, `NewsOnlyToAskers`, `ConfirmationsAreTrue`, `NothingTooLong` | `IInv` |
| `UdpBroker!PrintedOnce`, `ImplementsNotifier` | `NoNoticeTwice`, `NotifierImplemented` | `IInv`, `OnceInv` |
| the demo's texts (no run) | `DemoIsSent` | |

### TcpBroker: the list

`RegistryExact` is not inductive alone. `Register` must add a descriptor that
is not in the list: each entry is the descriptor of a *listed* subscriber, and
two live handlers never have the same descriptor. That is `OwnsDescriptor`: the
descriptor of a live handler is open and is that handler's; it holds because
`close()` is the last thing a handler does, after it has left the list. Types
need it as well, since what `Register` enters must be a descriptor. The
inductive invariant is `RegistryInv == TypeOK /\ OwnsDescriptor /\
RegistryExact`. The one step with an argument of its own is `Deregister`: lemma
`SwapRemoveKeepsTheRest` says that moving the last entry into the place of the
one removed loses nothing else and doubles nothing (`SwapRemoveType`: and leaves
descriptors only). An orphan owns its descriptor for ever and is in no list
(`OrphanKeepsRegistry`).

### TcpBroker: the streams

`StreamIntegrity` says that what a listed subscriber has read, what is on its way
and what the broadcast under way still owes it are the log from the place where
it registered. `StreamInv` adds to it `RegistryInv`, because a `send()` to a
descriptor must take the chunk from what is owed to that subscriber alone and
leave the others' as it was, and `Books`:

* `MutexHolder`: the one that holds the mutex is the one handler at `send`. So no
  chunk is owed when a subscriber registers, and the list stands still, with each
  entry keeping its place relative to the loop index, while a broadcast runs.
* `NothingSentYet`: whoever has not registered has nothing on its way and has read
  nothing.
* `LeftWhenClosed`: a handler leaves the list only when its connection is closed.
* `BufferIsNext`: what is about to be broadcast are the last units received of
  that publisher, which makes `Lock` the abstract `Publish` of the next ones.
* `RegisteredInLog`: nobody registered later than the end of the log.

That `SubRead` is the abstract `Deliver` is lemma `NextUnit` of `SequenceLemmas`:
if what is read, on its way and owed make up the rest of the log, then the
first unit on the way is the one that comes next.

### TcpAsmBroker

`AsmInv` is `TypeOK` with five parts. `BrokerPlace` ties the label of the one
thread to its variables. `PubsOnce` and `SubsOnce` say that nobody is twice among
those accepted and those waiting; a publisher that is served a second time would
have its stream twice in the log, and a subscriber accepted twice would be sent
everything twice. `TurnsOver` is the second part of `ServedInTurn`. `StreamsWhole`
is the first part with `Owed` for `Pending`, the two differing only once SIGPIPE
has ended the broker: subscribers go on reading then, and the refinement needs to
know what they read.

The log is `FlattenSeq` of the streams of `turns`, and what a recursively defined
function yields is a matter of induction over data, for which the theorems of the
library need an operator as a parameter. `SequenceLemmas` does without: lemma
`SetInduction` is induction for a *set* of numbers, from the well-foundedness of
`<` (`LeastNumber`), and it is enough for `FlattenAppend`: appending a sequence
joins it to the end. `RecvLog` is the step where it is needed. Only the last turn's
stream grows, because turns are distinct, so that what `recvfrom()` returned comes
at the end of the log.

### MiniQuic

`Inv` says that whatever is on its way or in `subs[]` tells the truth about the
processes at both ends, as long as it exists:

* `ToBrokerInv`: a publisher has on its way only packets up to the one it is
  sending, and a subscriber acknowledges only what it has printed;
* `InboxInv`: an acknowledgement to a publisher is of an event that a broker has
  handled, and data to a subscriber carries a handled event;
* `TableInv`: an entry has the `conn_id` of the subscriber at its address, and its
  outstanding packet carries a handled event;
* `ProgressInv`: nothing beyond the current packet was handled, and nothing
  printed that was not handled.

These facts say "was handled", "was printed" and "up to", which no step takes
back (lemma `StillTrue`); so losses, reordering, repetition and the broker's restart
need no argument of their own. `AcknowledgedIsHandled` and the refinement follow:
the acknowledgement that lets a publisher go on bears the number it waits for.

`InOrder` is about a network that keeps order. `OrderInv` says that the events in
each queue are in order and that none is behind what its receiver has handled or
printed already, for both hops, and that the outstanding packet of each entry is
not behind either. Repetition is harmless because what is repeated is the packet
sent last.

`Released` has two hypotheses. One is a single publisher: with two the property is
false (`quic_two_publishers`). The other is that no two subscribers have the same
`conn_id` (`DistinctIds`), or that the broker is not started again (`MaxBoots = 0`):
with both a shared `conn_id` and a restart the acknowledgement of one subscriber
outlives its entry, and releases the entry that the other one has got since under
the same number (TLC shows it with one publisher and two subscribers). Without a
restart equal numbers do no harm here: `SpokenTo` says that whoever is sent an
event, and so whoever acknowledges one, has an entry, and a conn_id has only one
(`OneEntry`). The instance of `quic_reorder` satisfies the hypotheses. None is made
about losses, order or retries.

### MiniQuicWin

Every step of `WinNext` is one of `MiniQuic`, or the end of a wait by an error
(`WinStep`), so that `Inv` and `OrderInv` carry over. An error may end a wait while
datagrams are on the publisher's path, which a POSIX timer could have done only if
so many may cross it: `PathInv` bounds the datagrams on the path by those the
publisher has sent, at most `PubRetries + 1` for each packet, which is where
`AtAnyTime` comes from.

### UdpBroker

The five theorems about the table need one another. `NewsWasAsked` follows when a
PUB is handled from two facts: the bucket found is that of the topic
(`FindTopic`), and whoever is in it asked (`TableExact`); and a SUB is entered for
somebody who asked because every datagram on its way is one that its sender may
have sent, which is `NetConsistent`: a SUB's topic is among `asked` of its source,
a PUB carries the topic of its publisher. `ConfirmedIsEntered` survives a SUB
because `Enter` removes no address (lemma `EnterKeeps`), and survives a restart
because no confirmation carries the number of a run to come, the last part of
`NetConsistent`. The inductive invariant `IInv` is these together, and that a
stopped broker has a restart left, which `TypeOK` needs. `NothingTooLong` rests on
arithmetic alone. `DemoIsSent`: for every text of the demo, every pair of names a
topic can hold and every stamp, the text fits in `msgbuf[512]`, passes the checks
of the publisher and fits in NEWS; it is at most 180 bytes long (`DemoLenBound`),
although one text names the home team twice.

`PrintedOnce` needs `OnceInv`: a notice has at most one PUB on its way, and none
once it is handled (`PubsOnce`); of the NEWS on their way and those printed no
two have the same notice and address (`NewsOnce`), which at the step that sends
them is `TableExact`; and a process keeps one address for life (`OneAddress`). The
refinement maps each step to a `Join`, a `Notify`, a `Forget` or a stutter; that a
`Notify` notifies each member once uses `TableExact` again.

### What is only model-checked

Liveness (`Relayed`, `Received`, `HandlerEnds`, `PublisherSucceeds`,
`LastEventPrinted`, `GivesUp`, `Reaches`) is out of the prover's reach, as it needs
fairness and ENABLED. The five violations are TLC's counterexamples.

## 6. Not modelled

* Start-up (`socket`, `bind`, `listen`), texts, formatting and pauses.
* Restart of the TCP brokers: nothing is persisted, the connections end with the
  process, and no client connects again, so that a restart is a new behaviour.
  (The restarts of the UDP and Mini-QUIC brokers are modelled: their clients go
  on.)
* A third subscriber of the assembly broker is part of the model, in its queue,
  but not of the instance: nothing takes it out, and no document says more than
  the comment at `broker_tcp.asm:14`, with a `MAX_SUBS` that does not exist.
* Wall-clock arithmetic of the Mini-QUIC timers. When the clock is set back,
  `now - last_send_ms` underflows and each entry repeats once too early, which is
  what `Early` allows; how many milliseconds pass is not modelled.
* The packet captures and the laboratory's PDF: data, not code.
* The generated assembly of the UDP programs (`gcc -S` of `udp_C`).
* A SUB datagram that is lost in the UDP family has no remedy in the code and no
  document promises one: the model allows the loss and states no liveness for UDP.

## 7. Plan

Done: all modules of section 2, all runs of section 3, and a theorem for every safety
property of a passing run. Next:

1. The parts of liveness that are safety: that the broker of Mini-QUIC repeats an
   event to one entry at most `MaxRetries` times, and that what is needed for
   `Reaches` holds at each label, as invariants with proofs.
2. That the violations are the only ones: a TCP broker whose array is not full
   never writes past it, and one whose subscribers never leave never goes down.
