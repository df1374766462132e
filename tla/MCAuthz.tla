------------------------------- MODULE MCAuthz -------------------------------
(* Finite instances of Authz for TLC. *)
EXTENDS Authz, TLC

CONSTANTS g1, g2, w1, a1

Grants == {g1, g2}
Patterns == {w1}
OneApply == {a1}

\* Grants are interchangeable: no definition tells one from another.
GrantSymmetry == Permutations(Grants)
=============================================================================
