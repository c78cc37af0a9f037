SPECIFICATION Spec
CONSTANTS
    a1 = a1
    a2 = a2
    day = day
    Appts <- Visits
    StartOf <- Starts
    EndOf <- Ends
    Kinds <- OneKind
    Lead <- Ahead
    Every <- Period
    Slack = 1
    DayLength = 2
    AskHour = 0
    Retries <- OneRetry
    MaxNow = 6
    MaxFailures = 1
    MaxQueue = 1
    Workers = {w1, w2}
    NoRun = NoRun
CHECK_DEADLOCK FALSE
SYMMETRY ReminderSymmetry
INVARIANTS
    FlaggedWasMailed
    OneReminderPerSuccess
    NobodyIsForgotten
    OneRequestPerVisit
    EveryVisitIsAskedAbout
