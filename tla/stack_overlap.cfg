CONSTANTS
    p1 = p1
    p2 = p2
    None = None
    Procs <- MCProcs
    Ports = {80}
    MaxRuns = 4
    MaxOutside = 2
SPECIFICATION Spec
INVARIANT TypeOK UpSpeaksTrue DownTearsDown
SYMMETRY Symmetry
CHECK_DEADLOCK FALSE
