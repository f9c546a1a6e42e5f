SPECIFICATION FairSpec
CONSTANTS
    w1 = w1
    w2 = w2
    Workers <- MCWorkers
    Blocks = 2
    Space = 1
INVARIANTS
    TypeOK
    KillHasTarget
PROPERTIES
    Terminates
    SessionEnds
CHECK_DEADLOCK FALSE
