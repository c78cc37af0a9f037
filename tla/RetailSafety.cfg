SPECIFICATION Spec
CONSTANTS
    p1 = p1
    c1 = c1
    cut = cut
    color = color
    bundle = bundle
    Products <- OneProduct
    Cards <- OneCard
    Sessions <- TwoSessions
    Packages <- OnePackage
    PackageOf <- Bundle
    Opening <- Stock
    Workers = {w1, w2}
    MaxStock = 1
    NoTx = NoTx
CHECK_DEADLOCK FALSE
SYMMETRY RetailSymmetry
INVARIANTS
    CreditIsKept
    ExhaustedIsServed
    SerialCountersMatch
PROPERTY LedgerIsKept
