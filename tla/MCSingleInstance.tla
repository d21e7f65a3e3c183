-------------------------- MODULE MCSingleInstance --------------------------
(* Instances of SingleInstance for TLC.                                      *)
EXTENDS SingleInstance, TLC

CONSTANTS p1, p2, p3, p4, p5

Five == {p1, p2, p3, p4, p5}
Symmetry == Permutations(Procs)
=============================================================================
