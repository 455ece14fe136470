SPECIFICATION Spec
CONSTANTS
    a = a
    b = b
    c = c
    g = g
    h = h
    w = w
    r1 = r1
    r2 = r2
    r3 = r3
    None = None
    Runs = {r1, r2, r3}
    Starters = {r1}
    Order <- MCOrder
    Needs <- MCNeeds
    Writes = {b, w}
    Mixed = {b}
    Hosted = {g, h}
    WaveSize = 2
    Budget = 3
    Prices = {0, 2}
    Economic = {TRUE, FALSE}
    Crashable = {r2}
INVARIANTS
    TypeOK
    BudgetRespected
    NothingLeftOpen
    WriteOnce
    AccountedOnSuccess
CHECK_DEADLOCK FALSE
