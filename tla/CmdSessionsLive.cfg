\* two children for two addresses, no symmetry
CONSTANTS
    p1 = p1
    p2 = p2
    p3 = p3
    p4 = p4
    NoPid = NoPid
    NoAddr = NoAddr
    Fallback = Fallback
    MAX_POOL = 2
    Pids <- TwoPids
    Addrs <- AllSlots
SPECIFICATION Spec
PROPERTIES
    DeadAreForgotten
