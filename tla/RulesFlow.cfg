SPECIFICATION Spec
CONSTANTS
    plain = plain
    flow = flow
    failing = failing
    Procs = {p1}
    Rules = {r1}
    Bodies = {plain, flow}
    Flow = {flow}
    Failing = {}
    DiskBody <- MCDiskBody
    Open = open
    Postgres = FALSE
    MaxVersions = 2
    MaxApps = 0
    MaxTime = 0
    MaxFaults = 0
SYMMETRY MCSymmetry
CHECK_DEADLOCK FALSE
INVARIANT LiveValidates
