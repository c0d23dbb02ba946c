---------------------------- MODULE MCRelayOrders ----------------------------
(* Instances of RelayOrders for TLC. *)
EXTENDS RelayOrders, TLC

CONSTANTS j1, j2, b1, b2, b3, b4, b5

RelaySymmetry == Permutations(Jobs) \cup Permutations(Batches)
=============================================================================
