---------------------------- MODULE MCImageStore ----------------------------
(* Model values and symmetry for ImageStore. *)
EXTENDS ImageStore, TLC

CONSTANTS r1, r2, logo, f1, f2, f3, h1, h2, p1

\* r1 is the id of a product in the making, f1 the name of its photo.
Own == [r \in {r1} |-> {f1}]

Peers == Permutations({h1, h2}) \cup Permutations({f2, f3})
=============================================================================
