SPECIFICATION Spec
CONSTANTS
    a1 = a1
    Appts <- OneAppt
    ApptOf <- ForOneAppt
    Payments = {p1}
    Workers = {w1, w2}
    Amount = 2
    Crashes = FALSE
    MaxInvoices = 1
    RefundIds = {r1}
    NoCharge = NoCharge
    NoWork = NoWork
CHECK_DEADLOCK FALSE
PROPERTY CapturedIsKept
