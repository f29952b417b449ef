------------------------------ MODULE MCSession ------------------------------
(* Instances of Session for TLC. *)
EXTENDS Session, TLC

CONSTANTS a1, a2, i1, i2

Symmetry == Permutations(Client) \union Permutations(Id)
=============================================================================
