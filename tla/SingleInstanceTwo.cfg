\* five processes
CONSTANTS
    p1 = p1
    p2 = p2
    p3 = p3
    p4 = p4
    p5 = p5
    Procs <- Five
SYMMETRY Symmetry
SPECIFICATION Spec
INVARIANTS
    MultipleRunningPrevented
\* all processes end at last
CHECK_DEADLOCK FALSE
