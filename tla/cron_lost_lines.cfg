\* Runs that do not overlap; `crontab -l' may fail for a moment.
SPECIFICATION Spec
CONSTANTS
    None = None
    Procs = {p1, p2}
    UserLines = {u}
    MaxManaged = 1
    Names = {a, b}
    Jobs = {j}
    MaxNow = 2
    MaxRuns = 2
    MaxHandEdits = 1
    ReadMayFail = TRUE
    Overlap = FALSE
INVARIANT
    UserLinesKept
CHECK_DEADLOCK FALSE
