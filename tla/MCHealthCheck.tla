---------------------------- MODULE MCHealthCheck ----------------------------
(* Instances of HealthCheck for TLC. *)
EXTENDS HealthCheck, TLC

CONSTANTS p1, p2, p3

ProbeSymmetry == Permutations(Probe)
=============================================================================
