\* four children for two addresses: the table runs out, addresses are used again
CONSTANTS
    p1 = p1
    p2 = p2
    p3 = p3
    p4 = p4
    NoPid = NoPid
    NoAddr = NoAddr
    Fallback = Fallback
    MAX_POOL = 2
    Pids <- FourPids
    Addrs <- AllSlots
SPECIFICATION Spec
INVARIANTS
    TypeOK
    AddressesDistinct
    SlotsReturn
    AckFindsSession
    LinesAlive
    ArrayBound
PROPERTY
    ImplementsDirectory
SYMMETRY Symmetry
