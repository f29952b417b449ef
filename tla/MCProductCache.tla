--------------------------- MODULE MCProductCache ---------------------------
(* Instances of ProductCache for TLC. *)
EXTENDS ProductCache, TLC

CONSTANTS r1, r2, r3, s1, s2, k1, k2, f1, f2

ReqSymmetry    == Permutations(Req)
ServerSymmetry == Permutations(Server)
FieldSymmetry  == Permutations(Field)
Symmetry       == ReqSymmetry \union ServerSymmetry \union FieldSymmetry
=============================================================================
