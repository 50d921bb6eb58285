------------------------------ MODULE MCReceipt ------------------------------
(* Model values and symmetry for Receipt. *)
EXTENDS Receipt, TLC

CONSTANTS w1, w2, key1, key2, ip1, p1

Peers == Permutations({w1, w2}) \cup Permutations({key1, key2})
=============================================================================
