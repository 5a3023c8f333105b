\* MaxEvents bounds the posts: the system may come to rest.
CHECK_DEADLOCK FALSE
CONSTANTS
    async1 = async1
    sync1 = sync1
    Async = {async1}
    Sync = {sync1}
    Interests <- FirstOnly
    QueueMax = 2
    SubQueueMax = 2
    MaxEvents = 3
SPECIFICATION FairSpec
INVARIANTS
    TypeOK
    EventAccounted
    ReceivedInOrder
    TokenPerEvent
    NotifiedSubscribed
PROPERTIES
    InboxEmptied
