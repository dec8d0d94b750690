-------------------------- MODULE MCInstallations ---------------------------
(***************************************************************************)
(* An instance of Installations for TLC: one installation, whose account   *)
(* shares a repository.                                                    *)
(***************************************************************************)
EXTENDS Installations

CONSTANTS i1, alice, r1, h1

OneInst == {i1}
OneAccount == {alice}
OneRepo == {r1}
OneHook == {h1}

Owners == [i \in Insts |-> alice]
=============================================================================
