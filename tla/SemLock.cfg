\* the semaphore of a data file: its name outlives the server
CONSTANTS
    p1 = p1
    p2 = p2
    p3 = p3
    Procs <- ThreeProcs
    UnlinkedAtStart = FALSE
SPECIFICATION Spec
INVARIANTS
    TypeOK
    ExclusiveUntilTimeout
    PermitBound
PROPERTIES
    LockReturns
    LostPermitRestored
