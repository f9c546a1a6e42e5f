SPECIFICATION FairSpec
CONSTANTS
    N = 2
    MaxSlots = 2
    Threads = {t1, t2, t3}
    Stanzas = {a}
    Dropped = dropped
INVARIANTS
    QueueIntact
    WakeupsSuffice
    SlotsStaffed
PROPERTIES
    QueueMoves
    ImplementsChannel
