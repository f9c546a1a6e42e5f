SPECIFICATION FairSpec
CONSTANTS
    Size = 2
    Workers = {w1, w2}
    Lengths = {1, 3}
    ReloadsSize = FALSE
    MaxSessions = 1
    MaxBacklog = 2
    None = none
CHECK_DEADLOCK FALSE
INVARIANTS
    RingSound
    SleepingWorkersHaveHope
PROPERTIES
    ImplementsStream
    BytesAreSent
