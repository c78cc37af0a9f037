SPECIFICATION Spec
CONSTANTS
    s1 = s1
    s2 = s2
    c1 = c1
    c2 = c2
    utc = utc
    ist = ist
    Staff = {s1, s2}
    Customers = {c1, c2}
    Zones = {utc, ist}
    Orders <- MixedOrders
    Bookings = {b1, b2}
    Editors = {e1}
    EarlyExpiry = TRUE
    RedisFaults = TRUE
    MaxNow = 1
    NoOrder = NoOrder
    NoEdit = NoEdit
    Services <- TwoServices
    Days <- TwoDays
    DayLength = 4
    Interval = 1
    LockWindow = 3
    Offset <- Offsets
    Utc = utc
    StaffHours <- Shifts
    BranchHours <- Shop
    OnLeave <- Leave
CHECK_DEADLOCK FALSE
SYMMETRY BookingSymmetry
INVARIANTS
    CommittedBookingIsRespected
    KnownCustomerCostsNoCommission
    OnlyBookingsAreConfirmed
    OfferedSlotIsAccepted
