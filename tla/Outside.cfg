SPECIFICATION OutsideSpec
CONSTANTS
    Plugins = {p1}
    ReservationIds = {r1, r2}
    CallIds = {c1, c2}
    NoReservation = NoReservation
    MaxAmount = 4
    Amounts = {0, 2, 3, 4}
    Bills = {0, 2, 4}
    Budgets <- MCBudgets
    MaxPeriod = 0
    MaxEnables = 1
    Plans <- MCPlans
    StorageFaults = TRUE
    PageUrl <- MCPageUrl
    AllowedHost = {"listed"}
    PageOp = {c1, c2}
    MaxRedirects = 1
    MaxBlocked = 1
    MaxAudits = 1
    NoUrl = noUrl
    SearchCall = {c1, c2}
    SearchReply <- MCSearchReply
    SearchDomain = {"a"}
    DefaultMax = 1
    HardMax = 2
    SearchPace = 1
    MaxSearchTicks = 1
SYMMETRY MCSymmetry
INVARIANTS
    
    HitsAsAsked
PROPERTIES CallsHold ImplementsPolicy
CHECK_DEADLOCK FALSE
