SPECIFICATION FairSpec
CONSTANTS
    a1 = a1
    Appts <- OneAppt
    ApptOf <- ForOneAppt
    Payments = {p1}
    Workers = {w1, w2}
    Amount = 2
    Crashes = TRUE
    MaxInvoices = 2
    RefundIds = {r1, r2}
    NoCharge = NoCharge
    NoWork = NoWork
CHECK_DEADLOCK FALSE
INVARIANT RefundsAreRecorded
PROPERTY PendingIsResolved
