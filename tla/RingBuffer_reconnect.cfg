SPECIFICATION Spec
CONSTANTS
    Size = 2
    Workers = {w1, w2}
    Lengths = {1, 3}
    ReloadsSize = TRUE
    MaxSessions = 2
    MaxBacklog = 2
    None = none
CHECK_DEADLOCK FALSE
SYMMETRY WorkerSymmetry
INVARIANTS
    SleepsOnlyByRace
    TornOnlyByOverflow
