SPECIFICATION MCSpec
CONSTANTS
    plain = plain
    edited = edited
    flow = flow
    r1 = r1
    r2 = r2
    Procs = {p1, p2}
    Rules = {r1, r2}
    Bodies = {plain, edited, flow}
    Flow = {flow}
    Failing = {flow}
    DiskBody <- MCDiskBody
    Open = open
    Postgres = TRUE
    MaxVersions = 3
    MaxApps = 1
    MaxTime = 1
    MaxFaults = 2
    Scenarios = {s1}
    Files <- MCFiles
    MaxSteps = 2
    MaxRequests = 3
SYMMETRY MCSymmetry
CHECK_DEADLOCK FALSE
INVARIANTS
    TypeOK
    VersionChain
    CacheFromStore
    AuditSound
    DemoTypeOK
    BaselineKept
    PredecessorRan
PROPERTIES
    RowsImmutable
    EngineSpec
