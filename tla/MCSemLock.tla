------------------------------ MODULE MCSemLock ------------------------------
(* Instances of SemLock for TLC: three processes, with and without the      *)
(* sem_unlink at start.                                                     *)
EXTENDS SemLock

CONSTANTS p1, p2, p3
ThreeProcs == {p1, p2, p3}
=============================================================================
