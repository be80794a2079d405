----------------------------- MODULE MCPolicyServer -----------------------------
(* PolicyServer on a small instance, for TLC.                                *)
EXTENDS PolicyServer, TLC

CONSTANTS c1, c2, t1, t2, t3, t4, i1, i2, i3

\* Connections, respond tasks and ids are interchangeable.
MCSymmetry == Permutations(Conn) \cup Permutations(Task) \cup Permutations(Id)

\* Bounds a run to a server that is up and connections that are not lost.
StaysConnected ==
  phase = "up" /\ \A c \in Conn : handler[c] = "absent" \/ open[c]

=============================================================================
