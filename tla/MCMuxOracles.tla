---------------------------- MODULE MCMuxOracles ----------------------------
(* Two nodes, two clients.                                                 *)
EXTENDS MuxOracles, TLC

CONSTANTS A, B, c1, c2

TwoNodes == {A, B}
TwoClients == {c1, c2}

Alike == Permutations(TwoNodes) \cup Permutations(TwoClients)
=============================================================================
