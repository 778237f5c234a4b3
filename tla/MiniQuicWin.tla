----------------------------- MODULE MiniQuicWin -----------------------------
(***************************************************************************)
(* Mini-QUIC for Windows (quic/windows/*.c): the protocol of MiniQuic over *)
(* Winsock.                                                                *)
(*                                                                         *)
(* One thing differs to the programs.  When a datagram has reached a       *)
(* closed port, Windows reports it to the socket that sent it, connected   *)
(* or not: select() finds the socket readable and recvfrom() returns an    *)
(* error.  The broker and the subscriber go round their loops, which       *)
(* changes nothing.  A publisher takes it for the end of its wait: the     *)
(* attempts that are to last three seconds can be spent at once while the  *)
(* broker is down.  The clock, GetTickCount64(), cannot be set back.       *)
(***************************************************************************)
EXTENDS MiniQuic

VARIABLE reports   \* reports[p]: errors p's socket has yet to return

winVars == <<vars, reports>>

WinInit == Init /\ reports = [p \in Pubs |-> 0]

------------------------------------------------------------------------------
(* publisher_quic_win.c                                                    *)

WinPubSend(p) == PubSend(p) /\ UNCHANGED reports
WinPubRecv(p) == PubRecv(p) /\ UNCHANGED reports
WinPubTimeout(p) == PubTimeout(p) /\ UNCHANGED reports

\* What wait_for_ack() makes of an error.
\* Mutant: r is not looked at, and incoming holds the acknowledgement before.
TakeForAnswer(p) == NextPacket(p)

EndTheWait(p) == TryAgain(p)

\* recvfrom() returns an error, before or after the datagrams in the socket.
WinPubError(p) ==
    /\ ppc[p] = "wait" /\ reports[p] > 0
    /\ reports' = [reports EXCEPT ![p] = @ - 1]
    /\ EndTheWait(p)
    /\ UNCHANGED <<cid, subVars, brokerVars, toBroker, inbox, losses>>

WinPublisher(p) == WinPubSend(p) \/ WinPubRecv(p) \/ WinPubTimeout(p) \/ WinPubError(p)

------------------------------------------------------------------------------
(* subscriber_quic_win.c                                                   *)

WinSubscribe(s) == Subscribe(s) /\ UNCHANGED reports
WinSubRecv(s) == SubRecv(s) /\ UNCHANGED reports
WinSubQuit(s) == SubQuit(s) /\ UNCHANGED reports

------------------------------------------------------------------------------
(* broker_quic_win.c                                                       *)

WinHandshake(c) == BrokerHandshake(c) /\ UNCHANGED reports
WinData(p) == BrokerData(p) /\ UNCHANGED reports
WinAck(s) == BrokerAck(s) /\ UNCHANGED reports
WinRetransmit(i) == Retransmit(i) /\ UNCHANGED reports
WinGiveUp(i) == GiveUp(i) /\ UNCHANGED reports
WinBrokerStop == BrokerStop /\ UNCHANGED reports
WinBrokerStart == BrokerStart /\ UNCHANGED reports

\* A datagram reaches a closed port, and the report of it may get lost.
WinUnreachable(c) ==
    /\ Unreachable(c)
    /\ \/ c \in Pubs /\ reports' = [reports EXCEPT ![c] = @ + 1]
       \/ UNCHANGED reports

WinBroker == \/ \E c \in Clients : WinHandshake(c)
             \/ \E p \in Pubs : WinData(p)
             \/ \E s \in Subs : WinAck(s)
             \/ \E i \in 1..MaxSubs : WinRetransmit(i) \/ WinGiveUp(i)
             \/ WinBrokerStop \/ WinBrokerStart

------------------------------------------------------------------------------

WinNext == \/ \E p \in Pubs : WinPublisher(p)
           \/ \E s \in Subs : WinSubscribe(s) \/ WinSubRecv(s) \/ WinSubQuit(s)
           \/ \E c \in Clients : WinUnreachable(c)
           \/ WinBroker

WinSpec == WinInit /\ [][WinNext]_winVars

------------------------------------------------------------------------------
(* Properties                                                              *)

\* No path between the broker and a publisher holds more datagrams than the
\* publisher sends in all.
AtAnyTime == Early + (PubRetries + 1) * LastEvent

Posix == INSTANCE MiniQuic WITH Early <- AtAnyTime

(***************************************************************************)
(* The port does nothing that the POSIX programs could not do if their     *)
(* timers could run out at any time: an error costs an attempt like a      *)
(* timeout, even one that comes late and during the wait for another       *)
(* packet, and is never taken for an answer.                               *)
(***************************************************************************)
ImplementsPosix == Posix!Spec
==============================================================================
