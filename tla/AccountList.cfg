SPECIFICATION Spec
CONSTANTS
    Scale = 10
    Unit = 3
    Procs = {p1, p2}
    Waterfalls <- MCWaterfalls
    Policies <- MCPolicies
    Amounts = {1, 3}
    SeedAmount <- MCSeed
    MaxPurchases = 2
    MaxBulk = 2
    MaxDeposits = 3
    MaxEdits = 1
    MaxFaults = 1
SYMMETRY MCSymmetry
CHECK_DEADLOCK FALSE
INVARIANT ListedAreApproved
