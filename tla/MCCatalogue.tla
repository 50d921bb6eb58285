----------------------------- MODULE MCCatalogue -----------------------------
(* Model values, percentages and symmetry for Catalogue. *)
EXTENDS Catalogue, TLC

CONSTANTS p1, c1, c2, h1, h2, a1, b1, i1, i2, g1, g2

OneHalf == {-50, 50}

Peers == Permutations({h1, h2}) \cup Permutations({i1, i2}) \cup Permutations({g1, g2})
            \cup Permutations({c1, c2})
=============================================================================
