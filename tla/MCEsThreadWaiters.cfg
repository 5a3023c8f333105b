CONSTANTS
    owner = owner
    other = other
    Controllers = {owner, other}
    Ops <- WaitOps
    StartStates <- AtOnce
    EagerOps <- EagerStops
    MaxStarts = 1
SPECIFICATION Spec
INVARIANTS
    JoinedOnce
CHECK_DEADLOCK FALSE
