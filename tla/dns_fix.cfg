\* Three runs, with a reboot or repair between them.
CONSTANTS
    NPlists = 2
    None = None
    MaxRuns = 3
    MaxOutside = 1
SPECIFICATION Spec
INVARIANT TypeOK CopiedNotLost RollbackUndoesNuclear CleanFixHarmless
CHECK_DEADLOCK FALSE
