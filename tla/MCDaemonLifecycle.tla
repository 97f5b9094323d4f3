------------------------- MODULE MCDaemonLifecycle -------------------------
(* DaemonLifecycle for TLC; processes of a kind are interchangeable.       *)
EXTENDS DaemonLifecycle, TLC

CONSTANTS d1, d2, d3, c1, c2

ThreeDaemons == {d1, d2, d3}
TwoClients == {c1, c2}
ProcessSymmetry == Permutations(Daemons) \cup Permutations(Clients)
=============================================================================
