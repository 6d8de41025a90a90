\* Two overlapping runs, while `crontab -l' may fail; or runs and hand edits
\* that do not overlap.  A cap of two entries and three
\* names, so that adds race for the last place, and two jobs for each name.
SPECIFICATION MCSpec
CONSTANTS
    n1 = n1
    n2 = n2
    n3 = n3
    j1 = j1
    j2 = j2
    u1 = u1
    p1 = p1
    p2 = p2
    None = None
    Procs <- TwoRuns
    UserLines <- OneLine
    MaxManaged = 2
    Names <- ThreeNames
    Jobs <- TwoJobs
    MaxNow = 2
    MaxRuns = 4
    MaxHandEdits = 1
    ReadMayFail = TRUE
    Overlap = TRUE
SYMMETRY Alike
INVARIANTS
    TypeOK
    WithinCap
    UniqueNames
    UndoneAlone
PROPERTIES
    AtomicAlone
CHECK_DEADLOCK FALSE
