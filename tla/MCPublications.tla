--------------------------- MODULE MCPublications ---------------------------
(***************************************************************************)
(* Instances of Publications for TLC.                                      *)
(***************************************************************************)
EXTENDS Publications, TLC

CONSTANTS p1, p2, w1, w2

TwoPosts == {p1, p2}
TwoWorkers == {w1, w2}

Symmetry == Permutations(TwoPosts) \union Permutations(TwoWorkers)
=============================================================================
