CONSTANTS
    owner = owner
    other = other
    Controllers = {owner, other}
    Ops <- SharedOps
    StartStates <- AnyStart
    EagerOps <- EagerStops
    MaxStarts = 2
SPECIFICATION FairSpec
INVARIANTS
    TypeOK
    AtMostOneWorker
    FreshStop
PROPERTIES
    StoppingIsFinal
    StopHonoured
    CallsReturn
    ResumeReleases
