SPECIFICATION AppSpec
CONSTANTS
    Calls = {c1, c2}
    Faults = TRUE
    Nil = Nil
    Staff = {ana, ben}
    Days = {mon}
    Weekdays = {mon}
    Workdays = {mon}
    Shifts = {full}
    FullDay = full
    Persons = {ana, ben}
    LeaveIds = {l1, l2}
    Goods = {trim, gel}
    Products = {gel}
    MaxUnits = 2
    Branches = {b1, b2}
    Primary = b1
    Fields = {name, email, site}
    Required = {name}
    Optional = {email}
    Links = {site}
    Texts = {Nil, new}
    PlanIds = {pro, max}
    Orders = {o1, o2}
    Combos = {k1}
    Treats = {cut, nails}
    Packs = {p1}
    MaxLines = 2
    cut = cut
    Articles = {a1}
    Categories = {hair}
    MaxPieces = 1
    LowMark = 0
    Plans = {m1, m2}
    Members = {n1}
    Codes = {g1, g2}
    Entries = {e1, e2}
    Appointments = {d1}
    LastDate = 3
    WeekLength = 2
    Receipts = {r1, r2}
    Posts = {q1, q2}
    Ratings = {good}
    Treatments = {color, nails}
    color = color
    nails = nails
    ana = ana
    Stylists = {ana}
    Does <- Trained
    LastDay = 2
    MaxReviews = 2
    Details = {name, phone}
    Needed = {name}
    Contents = {Nil, new}
    Passwords = {w1, w2}
    Shops = {s1, s2}
    Words = {v1, v2}
    Cities = {town}
    Kinds = {spa}
    Firms = {f1}
    Emails = {u1, u2}
    Names = {salon, spot}
    Clients = {amy, bob}
    amy = amy
    bob = bob
    beard = beard
    Queries = {beard}
    Visitors <- Regulars
    Finds <- Matches
    PageSize = 1
CHECK_DEADLOCK FALSE
SYMMETRY Interchangeable
INVARIANTS
    PagesTypeOK
    SavedWeekIsStored
    LeaveIsListedWithItsOwner
    CartIsWhatIsDue
    HoursStayWithTheirBranch
    UntouchedFieldsAreStored
    ActivatedAsOrdered
    OfferedSessionIsServed
    ListsAreCurrent
    DialogsKeepToTheirRow
    ShownDayIsBooked
    ReviewedOnceAndCompleted
    UntypedFormIsStored
    
    OwnerHasOneBusiness
