SPECIFICATION AnswersSpec
CONSTANTS
    Clients = {c1, c2}
    Never = Never
    Documented = 2
    MaxTicks = 2
    HistoryMax = 2
    Loaded = {0, 1}
    Moderated = TRUE
    ChangeSubject = FALSE
    AllowPM = TRUE
    VisitorsPM = FALSE
    IqProxy = TRUE
    PublicParticipants = FALSE
SYMMETRY Symmetry
VIEW RoomState
INVARIANT TypeOK
PROPERTIES
    AnswersOnce
    WellFormed
    RefusalIsAll
    StaysInside
CHECK_DEADLOCK FALSE
