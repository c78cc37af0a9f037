SPECIFICATION FairSpec
CONSTANTS
    s1 = s1
    s2 = s2
    c1 = c1
    c2 = c2
    utc = utc
    ist = ist
    Staff = {s1, s2}
    Customers = {c1, c2}
    Zones = {utc, ist}
    Orders <- CrossedOrders
    Bookings = {b1, b2}
    Editors = {}
    EarlyExpiry = FALSE
    RedisFaults = FALSE
    MaxNow = 1
    NoOrder = NoOrder
    NoEdit = NoEdit
CHECK_DEADLOCK FALSE
INVARIANT SlotLockIsHeldByOne
PROPERTIES
    SlotLocksAreLeases
    EveryRequestEnds
    EverySlotLockIsFreed
