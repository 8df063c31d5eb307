SPECIFICATION Spec
CONSTANTS
    RateUnit = 10
    PctUnit = 2
    Procs = {p1, p2}
    Loans = {l1, l2}
    Applications <- MCApplications
    SeedApplication <- ThreeMonths
    Amounts = {0}
    Contents <- MCContents
    Shipped <- MCShipped
    Opening = 20
    Day = 2
    Month = 8
    Jumps = {11}
    maxTickIterations = 2
    MaxRequests = 2
    MaxUpsets = 0
    MaxTime = 11
SYMMETRY MCSymmetry
CHECK_DEADLOCK FALSE
INVARIANT TickMissesOverdue
