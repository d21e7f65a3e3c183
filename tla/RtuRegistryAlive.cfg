\* two registered sessions that end one after the other
CONSTANTS
    p1 = p1
    p2 = p2
    p3 = p3
    s1 = s1
    s2 = s2
    Stranger = Stranger
    Server = Server
    NoPid = NoPid
    NoAddr = NoAddr
    MAX_POOL = 3
    Pids <- ThreePids
    Addrs <- ThreeStations
SPECIFICATION Spec
INVARIANTS
    FoundIsAlive
SYMMETRY Symmetry
\* no pid is used twice, so the instance ends when its children are gone
CHECK_DEADLOCK FALSE
