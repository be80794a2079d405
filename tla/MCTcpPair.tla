------------------------------- MODULE MCTcpPair -------------------------------
(* TcpPair on a small instance, for TLC. *)
EXTENDS TcpPair
=============================================================================
