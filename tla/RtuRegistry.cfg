\* three children, two sites, an unknown one, room for all of them
CONSTANTS
    p1 = p1
    p2 = p2
    p3 = p3
    s1 = s1
    s2 = s2
    Stranger = Stranger
    Server = Server
    NoPid = NoPid
    NoAddr = NoAddr
    MAX_POOL = 3
    Pids <- ThreePids
    Addrs <- ThreeStations
SPECIFICATION Spec
INVARIANTS
    TypeOK
    OneSessionPerAddress
    EntriesTrue
    FoundUnlessBypassed
    
PROPERTIES
    RegistrationKept
    ImplementsDirectory
SYMMETRY Symmetry
\* no pid is used twice, so the instance ends when its children are gone
CHECK_DEADLOCK FALSE
