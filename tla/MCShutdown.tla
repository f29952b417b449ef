----------------------------- MODULE MCShutdown -----------------------------
(* Instances of Shutdown for TLC. *)
EXTENDS Shutdown, TLC

CONSTANTS q1, q2, q3, j1, j2

Symmetry == Permutations(Req) \union Permutations(Job)
=============================================================================
