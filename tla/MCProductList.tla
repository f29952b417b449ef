---------------------------- MODULE MCProductList ----------------------------
(* The instance of ProductList for TLC. *)
EXTENDS ProductList

CONSTANTS r1, s1, f1
=============================================================================
