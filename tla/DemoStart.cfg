SPECIFICATION DemoSpec
CONSTANTS
    plain = plain
    edited = edited
    flow = flow
    r1 = r1
    r2 = r2
    Procs = {p1, p2}
    Rules = {r1, r2}
    Bodies = {plain, edited}
    Flow = {}
    Failing = {}
    DiskBody <- MCDiskBody
    Open = open
    Postgres = TRUE
    MaxVersions = 3
    MaxApps = 0
    MaxTime = 0
    MaxFaults = 0
    Scenarios = {s1}
    Files <- MCFiles
    MaxSteps = 2
    MaxRequests = 2
CHECK_DEADLOCK FALSE
INVARIANTS
    BaselineDespiteStart
