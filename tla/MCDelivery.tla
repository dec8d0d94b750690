----------------------------- MODULE MCDelivery -----------------------------
(***************************************************************************)
(* Instances of Delivery for TLC: two commits that a user pushed, of one   *)
(* directly tracked repository or of two that an installation shares.      *)
(***************************************************************************)
EXTENDS Delivery, TLC

CONSTANTS u1, r1, r2, i1, c1, c2, c3

OneUser  == {u1}
OneRepo  == {r1}
TwoRepos == {r1, r2}
OneInst  == {i1}
TwoCommits == {c1, c2}
ThreeCommits == {c1, c2, c3}

BothInR1   == [c \in {c1, c2} |-> r1]
OneInEach  == c1 :> r1 @@ c2 :> r2
PushedByU1 == [u \in {u1} |-> {c1, c2}]
Direct     == [r \in {r1} |-> None]
Linked     == [r \in {r1, r2} |-> i1]

\* c3 is noise.
AllInR1  == [c \in ThreeCommits |-> r1]
AllByU1  == [u \in {u1} |-> ThreeCommits]
AllButC3 == {c1, c2}

\* Workers are interchangeable: sound for the runs that check invariants only.
WorkerSymmetry == Permutations(Workers)
=============================================================================
