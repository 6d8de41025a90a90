CONSTANTS
    i1 = i1
    i2 = i2
    v1 = v1
    v2 = v2
    v3 = v3
    p1 = p1
    p2 = p2
    t1 = t1
    t2 = t2
    None = None
    Procs <- MCProcs
    Ids <- TwoIds
    Ports = {t1, t2}
    Vols <- ThreeVols
    DefaultVolume <- OwnVolume
    CustomVols <- ThirdVol
    Guarded <- TwoVols
    MaxRuns = 4
    MaxOutside = 2
SPECIFICATION MCSpec
INVARIANT TypeOK VolumeLossAuthorised ReportsAloneHold RunningAloneHasVolume
CHECK_DEADLOCK FALSE
