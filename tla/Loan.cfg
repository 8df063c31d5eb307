SPECIFICATION Spec
CONSTANTS
    RateUnit = 10
    PctUnit = 2
    Procs = {p1, p2}
    Loans = {l1, l2}
    Applications <- MCApplications
    SeedApplication <- ThreeMonths
    Amounts = {0, 3, 40}
    Contents <- MCContents
    Shipped <- MCShipped
    Opening = 20
    Day = 2
    Month = 8
    Jumps = {14, 27}
    maxTickIterations = 2
    MaxRequests = 2
    MaxUpsets = 1
    MaxTime = 27
SYMMETRY MCSymmetry
CHECK_DEADLOCK FALSE
INVARIANTS
    TypeOK
    LoansDisbursed
    SeedsOnce
    FeesPosted
    ProjectionFaithful
    BooksAgree
    AdvanceServicesAll
    LentAsApproved
