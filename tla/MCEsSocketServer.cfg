\* The server may be closed for the last time: MaxOpens bounds its life.
CHECK_DEADLOCK FALSE
CONSTANTS
    Clients = {c1, c2}
    Modes = {TRUE, FALSE}
    MaxConn = 1
    Ttl = 1
    MaxSends = 2
    MaxOpens = 2
SPECIFICATION FairSpec
INVARIANTS
    TypeOK
    HandlersBounded
    QuietAfterClose
    OutputInOrder
    AuxWakes
PROPERTIES
    CloseReturns
    QueuedSent
    IdleConnectionExpires
