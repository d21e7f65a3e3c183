\* two clients with two requests between them and queues of one message, so that
\* a session that sends to itself finds its queue full
CONSTANTS
    c1 = c1
    c2 = c2
    r1 = r1
    Unknown = Unknown
    Clients <- TwoClients
    ClientOrder <- InOrder
    Rtus <- OneRtu
    MQ_MAXMSG = 1
    MaxRequests = 2
SPECIFICATION Spec
PROPERTIES
    WaitEnds
    SendEnds
\* the sessions may all have ended
CHECK_DEADLOCK FALSE
