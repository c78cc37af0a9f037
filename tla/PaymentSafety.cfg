SPECIFICATION Spec
CONSTANTS
    a1 = a1
    Appts <- OneAppt
    ApptOf <- ForOneAppt
    Payments = {p1, p2}
    Workers = {w1, w2}
    Amount = 1
    Crashes = TRUE
    MaxInvoices = 2
    RefundIds = {r1}
    NoCharge = NoCharge
    NoWork = NoWork
CHECK_DEADLOCK FALSE
SYMMETRY PaymentSymmetry
INVARIANTS
    SettledHasCharge
    SettledHasInvoice
    SettledIsNotPending
PROPERTY CapturedIsKeptUnlessRaced
