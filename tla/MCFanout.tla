------------------------------ MODULE MCFanout ------------------------------
(***************************************************************************)
(* Instances of Fanout for TLC.                                            *)
(***************************************************************************)
EXTENDS Fanout, TLC

CONSTANTS u1, u2, p1, r1, i1, d1, d2, w1, w2

TwoUsers == {u1, u2}
OneUser == {u1}
OneRepo == {r1}
OneInstallation == {i1}
OneRunner == {d1}
TwoRunners == {d1, d2}
OneWorker == {w1}
Nothing == {}
EveryDocument == Sources

\* Runners are interchangeable, and so are users: groups are
\* chosen in Init.
Symmetry == Permutations(TwoRunners) \union Permutations(TwoUsers)
=============================================================================
