SPECIFICATION Spec
CONSTANTS
    Clients = {c1}
    Never = Never
    Documented = 2
    MaxTicks = 4
    HistoryMax = 2
    Loaded = {0, 1}
    Moderated = TRUE
    ChangeSubject = FALSE
PROPERTY MinInterval
CHECK_DEADLOCK FALSE
