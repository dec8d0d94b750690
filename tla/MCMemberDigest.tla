--------------------------- MODULE MCMemberDigest ---------------------------
(***************************************************************************)
(* Instances of MemberDigest for TLC: an account that installs the App     *)
(* again.                                                                  *)
(***************************************************************************)
EXTENDS MemberDigest, TLC

CONSTANTS i1, i2, alice, r1, r2, h1, h2, w1

TwoInsts == {i1, i2}
OneAccount == {alice}
OneRepo == {r1}
TwoRepos == {r1, r2}
OneHook == {h1}
TwoHooks == {h1, h2}
OneWorker == {w1}
Nothing == {}
R2 == {r2}

Owners == [i \in Insts |-> alice]

\* Requests are alike, and so are the two installations.
Symmetry == Permutations(Hooks) \union Permutations(TwoInsts)
=============================================================================
