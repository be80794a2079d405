----------------------------- MODULE MCPolicySession -----------------------------
(* PolicySession on a small instance, for TLC.                               *)
EXTENDS PolicySession, TLC

CONSTANTS k1, k2, n1, n2, n3

\* Connections are interchangeable, and so are the calls of the caller.
MCSymmetry == Permutations(Conn) \cup Permutations(Call)

=============================================================================
