---------------------------- MODULE MCOrderIntake ----------------------------
(* Model values and symmetry for OrderIntake. *)
EXTENDS OrderIntake, TLC

CONSTANTS w1, w2, key1, ip1, ip2, p1

Peers == Permutations({w1, w2})
=============================================================================
