-------------------------- MODULE AcknowledgedRelay --------------------------
(***************************************************************************)
(* What an acknowledging relay of events promises, whatever its network    *)
(* does.  A publisher numbers its events 1, 2, ... and has them taken one  *)
(* at a time: the relay handles the next event only when the publisher     *)
(* holds all before it for acknowledged, the publisher holds an event for  *)
(* acknowledged only when the relay has handled it, and a subscriber       *)
(* prints nothing that was not handled.  How often it prints an event, and *)
(* whether it prints it at all, is left open.  MiniQuic is shown to        *)
(* implement this specification.                                           *)
(***************************************************************************)
EXTENDS Naturals, Sequences

CONSTANTS Pubs,   \* the publishers
          Subs,   \* the subscribers
          Total   \* events each publisher has

VARIABLES acked,    \* acked[p]: events p holds for acknowledged
          handled,  \* the events the relay has handled
          printed   \* printed[s]: what s has printed

vars == <<acked, handled, printed>>

NextEvent(p) == <<p, acked[p] + 1>>

Init == /\ acked = [p \in Pubs |-> 0]
        /\ handled = {}
        /\ printed = [s \in Subs |-> <<>>]

Handle(p) ==
    /\ acked[p] < Total
    /\ handled' = handled \cup {NextEvent(p)}
    /\ UNCHANGED <<acked, printed>>

Acknowledge(p) ==
    /\ NextEvent(p) \in handled
    /\ acked' = [acked EXCEPT ![p] = @ + 1]
    /\ UNCHANGED <<handled, printed>>

Deliver(s) ==
    /\ \E e \in handled : printed' = [printed EXCEPT ![s] = Append(@, e)]
    /\ UNCHANGED <<acked, handled>>

Next == \/ \E p \in Pubs : Handle(p) \/ Acknowledge(p)
        \/ \E s \in Subs : Deliver(s)

Spec == Init /\ [][Next]_vars
==============================================================================
