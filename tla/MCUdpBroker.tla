----------------------------- MODULE MCUdpBroker -----------------------------
(* TLC instances of UdpBroker. *)
EXTENDS UdpBroker, TLC

CONSTANTS t1, t2, t3

\* Command lines: one topic twice, another one, and a third for which the
\* table may have no room left.
MCWishes == {<<t1, t1>>, <<t2>>, <<t3>>}

\* Subscribers and addresses are interchangeable.
Symmetry == Permutations(Subs) \cup Permutations(Addrs)
==============================================================================
