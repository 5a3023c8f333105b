\* The server may be closed for the last time: MaxOpens bounds its life.
CHECK_DEADLOCK FALSE
CONSTANTS
    Clients = {c1}
    Modes = {TRUE}
    MaxConn = 1
    Ttl = 2
    MaxSends = 0
    MaxOpens = 1
SPECIFICATION FairSpec
PROPERTIES
    DisconnectedRemoved
