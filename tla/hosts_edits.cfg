\* Two overlapping runs, hand edits, crashes, and a clock that may step back;
\* or runs that do not overlap.
SPECIFICATION MCSpec
CONSTANTS
    a = a
    b = b
    ip = ip
    u = u
    None = None
    p1 = p1
    p2 = p2
    Procs <- TwoRuns
    Root <- RootRun
    Ips <- MCIps
    Names <- MCNames
    UserLines <- MCUserLines
    MaxApply = 1
    Requests <- AllRequests
    MaxNow = 2
    MaxRuns = 3
    MaxHandEdits = 1
    ClockMayStepBack = TRUE
INVARIANTS
    TypeOK
    NoPhantomLine
    BackupsAreGenuine
    UndoneAlone
PROPERTIES
    AtomicAlone
CHECK_DEADLOCK FALSE
