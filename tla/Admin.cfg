SPECIFICATION AdminSpec
CONSTANTS
    Plugins = {p1}
    ReservationIds = {r1, r2}
    MaxAmount = 3
    Amounts = {1, 2, 3}
    Budgets <- MCBudgets
    MaxPeriod = 1
    MaxEnables = 2
    AuthReq = {r1, r2}
    Cookie = {k1}
    NoCookie = noCookie
    Peer = {"lo", "far"}
    LocalPeer = {"lo"}
    PerPeer = 1
    PerEndpoint = 1
    IdleLimit = 1
    AbsoluteLimit = 1
    ReauthWindow = 1
    LimitWindow = 1
    MaxClock = 1
    MaxPassword = 2
INVARIANT WithinBudget
PROPERTIES
    PolicyHolds
    
SYMMETRY Symmetry
CHECK_DEADLOCK FALSE
