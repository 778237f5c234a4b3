---------------------------- MODULE MCMiniQuicWin ----------------------------
(* TLC instances of MiniQuicWin. *)
EXTENDS MiniQuicWin, TLC

\* Subscribers are interchangeable, and so are the numbers drawn for conn_id.
Symmetry == Permutations(Subs) \cup Permutations(ConnIds)
==============================================================================
