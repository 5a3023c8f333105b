CONSTANTS
    Threads = {t1, t2, t3}
    InitialCount = 1
    MaxCount = 2
    SemValueMax = 4
    MaxInterrupts = 1
SPECIFICATION FairSpec
INVARIANTS
    TypeOK
    TokenBalance
    SlotBalance
    PostNeverBlocks
    NoTokenLost
PROPERTIES
    ImplementsCountingSemaphore
    CallsReturn
