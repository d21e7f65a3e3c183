---------------------------- MODULE MCRtuRegistry ----------------------------
(* Instances of RtuRegistry for TLC: children, stations and the symmetry    *)
(* between them.                                                            *)
EXTENDS RtuRegistry, TLC

CONSTANTS p1, p2, p3, s1, s2

TwoPids == {p1, p2}
ThreePids == {p1, p2, p3}
TwoStations == {s1, Stranger}
ThreeStations == {s1, s2, Stranger}

Symmetry == Permutations(ThreePids) \cup Permutations({s1, s2})
=============================================================================
