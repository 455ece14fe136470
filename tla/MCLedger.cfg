SPECIFICATION Spec
CONSTANTS
    Reservations = {r1, r2}
    Refunds = {f1, f2}
    Callers = {c1, c2}
    Maxima = {1, 2, 3}
    Parts = {1}
    DailyLimit = 2
    Prepaid = 3
    LastDay = 1
    None = None
INVARIANTS
    TypeOK
    DailyBudget
    RefundsWithinCapture
PROPERTY KeepsAccount
SYMMETRY Symmetries
CHECK_DEADLOCK FALSE
