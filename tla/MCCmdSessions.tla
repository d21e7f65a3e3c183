---------------------------- MODULE MCCmdSessions ----------------------------
(* Instances of CmdSessions for TLC: children, the addresses of the slots,   *)
(* and the symmetry between children.                                        *)
EXTENDS CmdSessions, TLC

CONSTANTS p1, p2, p3, p4

TwoPids == {p1, p2}
FourPids == {p1, p2, p3, p4}
AllSlots == 1..MAX_POOL

Symmetry == Permutations({p1, p2, p3, p4})
=============================================================================
