CONSTANTS
    v1 = v1
    v2 = v2
    v3 = v3
    c1 = c1
    c2 = c2
    NoVote = NoVote
    Validators <- MCValidators
    Containers <- MCContainers
    SampleSize = 2
    Alpha = 2
    MaxPolls = 3
    IDWidth = 2

SPECIFICATION Spec

INVARIANT FIFODelivery
PROPERTY EveryPollDelivered
CHECK_DEADLOCK FALSE
