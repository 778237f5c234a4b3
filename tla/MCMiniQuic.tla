----------------------------- MODULE MCMiniQuic -----------------------------
(* TLC instances of MiniQuic. *)
EXTENDS MiniQuic, TLC

\* Subscribers are interchangeable, and so are the numbers drawn for conn_id.
Symmetry == Permutations(Subs) \cup Permutations(ConnIds)
==============================================================================
