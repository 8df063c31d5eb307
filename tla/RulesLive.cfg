SPECIFICATION Spec
CONSTANTS
    plain = plain
    flow = flow
    failing = failing
    Procs = {p1, p2}
    Rules = {r1}
    Bodies = {plain}
    Flow = {}
    Failing = {}
    DiskBody <- MCDiskBody
    Open = open
    Postgres = FALSE
    MaxVersions = 3
    MaxApps = 0
    MaxTime = 0
    MaxFaults = 0
SYMMETRY MCSymmetry
CHECK_DEADLOCK FALSE
INVARIANT SavedIsLive
