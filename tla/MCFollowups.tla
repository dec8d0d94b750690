---------------------------- MODULE MCFollowups -----------------------------
(***************************************************************************)
(* Instances of Followups for TLC: a /repo command, a direct one, and two  *)
(* workers that share the cache.                                           *)
(***************************************************************************)
EXTENDS Followups

CONSTANTS i1, w1, w2, v1, v2

TwoVersions == {v1, v2}
TwoWorkers == {w1, w2}
=============================================================================
