---------------------------- MODULE MCOrderDesk ----------------------------
(* Model values and symmetry for OrderDesk. *)
EXTENDS OrderDesk, TLC

CONSTANTS o1, o2, a1, a2, k1, k2, c1, c2

Peers == Permutations({a1, a2}) \cup Permutations({c1, c2})
=============================================================================
