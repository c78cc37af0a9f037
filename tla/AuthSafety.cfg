SPECIFICATION Spec
CONSTANTS
    Calls = {c1, c2}
    AccessTTL = 1
    RefreshTTL = 2
    MaxNow = 3
    Faults = TRUE
    NoToken = NoToken
CHECK_DEADLOCK FALSE
INVARIANTS
    SpentTokensAreDead
    SerialCallsStaySignedIn
