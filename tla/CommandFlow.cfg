\* two clients with three requests between them, one RTU, queues of two as in the code
CONSTANTS
    c1 = c1
    c2 = c2
    r1 = r1
    Unknown = Unknown
    Clients <- TwoClients
    ClientOrder <- InOrder
    Rtus <- OneRtu
    MQ_MAXMSG = 2
    MaxRequests = 3
SPECIFICATION Spec
INVARIANTS
    TypeOK
    
    
PROPERTIES
    NotAckIsTrue
    WaitEndsWithReply
\* the sessions may all have ended
CHECK_DEADLOCK FALSE
