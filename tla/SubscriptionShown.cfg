SPECIFICATION SubscriptionSpec
CONSTANTS
    Calls = {c1, c2}
    Faults = FALSE
    Nil = Nil
    PlanIds = {pro, max}
    Orders = {o1, o2}
CHECK_DEADLOCK FALSE
INVARIANT OpenedPageShowsThePlan
