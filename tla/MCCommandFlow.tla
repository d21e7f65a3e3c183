---------------------------- MODULE MCCommandFlow ----------------------------
(* Instances of CommandFlow for TLC.                                         *)
EXTENDS CommandFlow

CONSTANTS c1, c2, r1

OneClient == {c1}
JustC1 == <<c1>>
TwoClients == {c1, c2}
InOrder == <<c1, c2>>
OneRtu == {r1}
=============================================================================
