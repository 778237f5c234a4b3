------------------------- MODULE TotalOrderBroadcast -------------------------
(***************************************************************************)
(* What a broker that relays byte streams promises its clients.            *)
(*                                                                         *)
(* Everything the publishers send becomes one log.  A publisher's units    *)
(* enter the log in the order it sent them and none is skipped.  A         *)
(* subscriber joins once, and reads the log from the place it had when it  *)
(* joined: no gap, no repetition, and the order every other subscriber     *)
(* sees.  TcpBroker is shown to implement this specification.              *)
(***************************************************************************)
EXTENDS Naturals, Sequences

CONSTANTS Pubs,   \* the publishers
          Subs,   \* the subscribers
          Total   \* stream units each publisher sends at most

VARIABLES log,      \* every unit relayed so far, in the one order all see
          entered,  \* entered[p]: how many of p's units are in the log
          joined,   \* the subscribers that have joined
          from,     \* from[s]: the length of the log when s joined
          got       \* got[s]: what s has read

vars == <<log, entered, joined, from, got>>

\* The n-th unit of p's stream, and the k units that follow the first n.
Unit(p, n) == <<p, n>>
Chunk(p, n, k) == [j \in 1..k |-> Unit(p, n + j)]

Init == /\ log = <<>>
        /\ entered = [p \in Pubs |-> 0]
        /\ joined = {}
        /\ from = [s \in Subs |-> 0]
        /\ got = [s \in Subs |-> <<>>]

\* The next k units of p are relayed, in one piece.
Publish(p) ==
    \E k \in 1..(Total - entered[p]) :
        /\ log' = log \o Chunk(p, entered[p], k)
        /\ entered' = [entered EXCEPT ![p] = @ + k]
        /\ UNCHANGED <<joined, from, got>>

Join(s) ==
    /\ s \notin joined
    /\ joined' = joined \cup {s}
    /\ from' = [from EXCEPT ![s] = Len(log)]
    /\ UNCHANGED <<log, entered, got>>

\* s reads the one unit that comes next for it.
Deliver(s) ==
    /\ s \in joined
    /\ from[s] + Len(got[s]) < Len(log)
    /\ got' = [got EXCEPT ![s] = Append(@, log[from[s] + Len(@) + 1])]
    /\ UNCHANGED <<log, entered, joined, from>>

Next == \/ \E p \in Pubs : Publish(p)
        \/ \E s \in Subs : Join(s) \/ Deliver(s)

Spec == Init /\ [][Next]_vars
==============================================================================
