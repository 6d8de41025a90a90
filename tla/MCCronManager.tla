---------------------------- MODULE MCCronManager ----------------------------
(***************************************************************************)
(* Instances of CronManager for TLC.  A behaviour is either one of runs    *)
(* that overlap, while `crontab -l' may fail, or one of runs and hand      *)
(* edits that do not overlap, with a `crontab -l' that does what it says.  *)
(***************************************************************************)
EXTENDS CronManager, TLC

CONSTANTS n1, n2, n3, j1, j2, u1, p1, p2

TwoRuns == {p1, p2}
ThreeNames == {n1, n2, n3}
TwoJobs == {j1, j2}
OneLine == {u1}

VARIABLE alone   \* whether the runs of this behaviour do not overlap

MCInit ==
    /\ Init
    /\ alone \in BOOLEAN
    /\ alone => Cardinality(Managed(tab)) <= 1
    /\ ~alone => tab \cap UserLines = {}

Overlapping ==
    /\ ~alone
    /\ Next
    /\ runs' <= 3
    /\ now' <= 1
    /\ handEdits' = 0
    /\ UNCHANGED alone

\* What was read, and what was backed up, is the crontab.
ListedRight ==
    \A p \in Procs :
        /\ pc[p] = "read" /\ pc'[p] = "backup" =>
              (MayAdd(req[p], tab) \/ MayRemove(req[p], tab)) /\ new'[p] = Edited(req[p], tab)
        /\ pc[p] = "backup" /\ bak'[p] # None => now \in DOMAIN baks' /\ baks'[now] = tab

Serial ==
    /\ alone
    /\ Next
    /\ AllIdle \/ (runs' = runs /\ handEdits' = handEdits)
    /\ ListedRight
    /\ UNCHANGED alone

MCSpec == MCInit /\ [][Overlapping \/ Serial]_<<vars, alone>>

\* Of runs that do not overlap, wherever they are killed: each change of the
\* crontab is one that AtomicCron allows.  An add changes one free name and a
\* remove one taken name, in the table as it is then; no line of the user is
\* touched; a rollback right after a commit restores what the commit replaced.
AtomicAlone ==
    Abstract!Init /\ [][alone => [Abstract!Next]_(Abstract!vars)]_(Abstract!vars)

\* Of runs that do not overlap: as long as nothing else has happened, one
\* rollback undoes the last commit that reported a backup.
UndoneAlone == alone => OneCommandUndo

Alike == Permutations(Procs) \cup Permutations(Names) \cup Permutations(Jobs)
==============================================================================
