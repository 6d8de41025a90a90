\* One run, one of whose copies fails.
CONSTANTS
    NPlists = 2
    None = None
    MaxRuns = 1
    MaxOutside = 0
SPECIFICATION Spec
INVARIANT NothingLost
CHECK_DEADLOCK FALSE
