--------------------------- MODULE MCTcpAsmBroker ---------------------------
(* TLC instances of TcpAsmBroker.  Its run checks liveness, for which       *)
(* symmetry is not sound: the constants are given by the configuration.     *)
EXTENDS TcpAsmBroker
=============================================================================
