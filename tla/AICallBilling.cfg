SPECIFICATION AISpec
CONSTANTS
    Plugins = {p1}
    ReservationIds = {r1, r2}
    CallIds = {c1, c2}
    NoReservation = NoReservation
    MaxAmount = 4
    Amounts = {0, 2, 3, 4}
    Bills = {0, 2, 4}
    Budgets <- MCBudgets
    MaxPeriod = 0
    MaxEnables = 1
    Plans <- MCPlans
    StorageFaults = TRUE
SYMMETRY MCSymmetry
CHECK_DEADLOCK FALSE
INVARIANT AmbiguousIsCharged
