\* Two runs on two names, failing and killed anywhere, and an administrator who
\* leaves alone the names they work on.
CONSTANTS
    p1 = p1
    p2 = p2
    n1 = n1
    n2 = n2
    v1 = v1
    v2 = v2
    Procs = {p1, p2}
    Names = {n1, n2}
    Generated = {v1, v2}
    Invalid = {v2}
    External = External
    None = None
    Empty = Empty
    MaxRuns = 3
    MaxOutside = 2
    AdminRaces = FALSE
SPECIFICATION Spec
INVARIANT TypeOK AdminVhostKept OnlyGeneratedInstalled ReportsHold
SYMMETRY Symmetry
CHECK_DEADLOCK FALSE
