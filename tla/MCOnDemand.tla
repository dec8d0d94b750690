----------------------------- MODULE MCOnDemand -----------------------------
(***************************************************************************)
(* An instance of OnDemand for TLC: a user with pushes to two              *)
(* repositories, two with a single push each, and two publications.  Three *)
(* short fields fit a page by their size but not by their number, and the  *)
(* long field of the first user leaves no room for another.                *)
(***************************************************************************)
EXTENDS OnDemand, TLC

CONSTANTS u1, u2, u3, p1, p2, a, b, c, d, e, x, y, z, r1, r2

ThreeUsers == {u1, u2, u3}
TwoPublications == {p1, p2}
ByName == <<u1, p2, u3, p1, u2>>
AllEvents == {a, b, c, d, e, x, y, z}
Origin == a :> u1 @@ b :> u1 @@ c :> u1 @@ d :> u2 @@ e :> u3 @@ x :> p1 @@ y :> p2 @@ z :> p1
Target == a :> r1 @@ b :> r1 @@ c :> r2 @@ d :> r1 @@ e :> r1

\* Before the first day.
Earlier == u1 :> <<a>> @@ u2 :> <<d>> @@ u3 :> <<e>> @@ p1 :> <<>> @@ p2 :> <<>>

Talkative == {r2}

\* One of the pushes is noise.
Interesting == AllEvents \ {b}
=============================================================================
