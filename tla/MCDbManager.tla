----------------------------- MODULE MCDbManager -----------------------------
(* Instances of DbManager for TLC.  A behaviour is either one of runs that    *)
(* overlap, with one port and a directory that --volume names, or one of runs *)
(* that do not, with two ports and more that happens behind shimkit's back.   *)
EXTENDS DbManager, TLC

CONSTANTS i1, i2, v1, v2, v3, p1, p2, t1, t2

OwnVolume == (i1 :> v1) @@ (i2 :> v2)

MCProcs == {p1, p2}

TwoIds == {i1, i2}

TwoVols == {v1, v2}

NoVols == {}

ThirdVol == {v3}

ThreeVols == {v1, v2, v3}

VARIABLE alone   \* whether the runs of this behaviour do not overlap

MCInit ==
    /\ Init
    /\ alone \in BOOLEAN
    /\ alone \/ t2 \notin foreign

AsksForPort(r, t) == r.kind = "up" /\ r.port = t

AsksForDirectory(r) == r.kind = "up" /\ r.vol \in CustomVols

Overlapping ==
    /\ ~alone
    /\ Next
    /\ runs' <= 3
    /\ outside' <= 1
    /\ t2 \notin foreign'
    /\ \A p \in Procs : ~AsksForPort(req'[p], t2)
    /\ UNCHANGED alone

Serial ==
    /\ alone
    /\ SerialNext
    /\ pc'[p2] = "idle"
    /\ \A p \in Procs : ~AsksForDirectory(req'[p])
    /\ UNCHANGED alone

MCSpec == MCInit /\ [][Overlapping \/ Serial]_<<vars, alone>>

\* Of runs that do not overlap: an `up' that reports an action has left its
\* container running, whatever was there before; what killed runs leave behind never
\* blocks a later one, and each failure has a cause outside of shimkit; after a
\* reset that reports success nothing of the instance is left.
ReportsAloneHold == alone => UpMeansRunning /\ FailuresExplained /\ ResetLeavesNothing

\* Of runs that do not overlap: a database never runs over a directory that is
\* not there.
RunningAloneHasVolume == alone => RunningHasVolume

=============================================================================
