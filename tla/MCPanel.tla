------------------------------- MODULE MCPanel -------------------------------
(* Model values, symmetry and the first orders for Panel. *)
EXTENDS Panel, TLC

CONSTANTS t1, t2, s1, s2

Peers == Permutations({s1, s2}) \cup Permutations({t1, t2})

\* One order, as yet undecided.
OneOrder == {[latest |-> 1, pending |-> 1]}
=============================================================================
