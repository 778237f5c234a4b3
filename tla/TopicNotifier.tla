---------------------------- MODULE TopicNotifier ----------------------------
(***************************************************************************)
(* What a broker that sorts notices by topic promises: a directory of the  *)
(* addresses interested in each topic, of limited size, and for each       *)
(* notice one sending to exactly the addresses that its topic has then.    *)
(* The directory is lost as a whole or not at all.  Whether a sending      *)
(* arrives is no part of the promise.  UdpBroker implements this           *)
(* specification.                                                          *)
(***************************************************************************)
EXTENDS Naturals, FiniteSets

CONSTANTS Topics,     \* the topics
          Addrs,      \* addresses of subscribers
          Notices,    \* all notices that publishers may send
          MaxTopics,  \* how many topics the directory holds
          MaxSubs     \* how many addresses it holds for one topic

VARIABLES members,    \* members[t]: the addresses interested in t
          handled,    \* the notices taken from publishers
          notified    \* <<n, a>>: notice n has been sent to address a

vars == <<members, handled, notified>>

Init == /\ members = [t \in Topics |-> {}]
        /\ handled = {}
        /\ notified = {}

\* The topics that take up room.
Held == {t \in Topics : members[t] # {}}

Join(t, a) ==
    /\ Cardinality(members[t]) < MaxSubs
    /\ t \in Held \/ Cardinality(Held) < MaxTopics
    /\ members' = [members EXCEPT ![t] = @ \cup {a}]
    /\ UNCHANGED <<handled, notified>>

Notify(n, t) ==
    /\ n \notin handled
    /\ handled' = handled \cup {n}
    /\ notified' = notified \cup ({n} \X members[t])
    /\ UNCHANGED members

Forget == /\ members' = [t \in Topics |-> {}]
          /\ UNCHANGED <<handled, notified>>

Next == \/ \E t \in Topics, a \in Addrs : Join(t, a)
        \/ \E n \in Notices, t \in Topics : Notify(n, t)
        \/ Forget

Spec == Init /\ [][Next]_vars
==============================================================================
