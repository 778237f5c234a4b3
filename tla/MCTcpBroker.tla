----------------------------- MODULE MCTcpBroker -----------------------------
(* TLC instances of TcpBroker. *)
EXTENDS TcpBroker, TLC

\* Processes of one program, and descriptors, are interchangeable.
Symmetry == Permutations(Pubs) \cup Permutations(Subs) \cup Permutations(Fds)
==============================================================================
