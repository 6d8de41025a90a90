----------------------------- MODULE CronManager -----------------------------
(***************************************************************************)
(* `shimkit cron`: overlapping runs of add, remove and rollback on one     *)
(* user's crontab (tools/cron/manager.py, commands.py).  A run reads the   *)
(* crontab with `crontab -l', edits it in memory, reads it a second time   *)
(* to have something to back up, writes that under a name of one second's  *)
(* resolution, and loads the new table with `crontab <file>'.  When        *)
(* `crontab -l' fails, for whatever reason, the run takes the crontab to   *)
(* be empty.                                                               *)
(*                                                                         *)
(* A crontab is the set of its entries: the managed ones, pairs of a name  *)
(* and a job, and the user's own lines, without their order and text.      *)
(* `crontab <file>' replaces the table in one step.                        *)
(***************************************************************************)
EXTENDS Naturals, FiniteSets

CONSTANTS
    Procs,          \* runs of the command that may be alive at once
    Names,          \* names of managed entries
    Jobs,           \* what they run, and when
    UserLines,      \* lines the user wrote
    MaxManaged,     \* tools.cron.max_managed_entries
    None,           \* no value
    MaxNow,         \* last second of the clock
    MaxRuns,        \* bound on the number of invocations
    MaxHandEdits,   \* bound on the number of hand edits
    ReadMayFail,    \* `crontab -l' may fail although there is a crontab
    Overlap         \* runs, and hand edits, may overlap

ASSUME FiniteAssumption == IsFiniteSet(Names) /\ IsFiniteSet(Jobs)

ASSUME BoundsAssumption == MaxManaged \in Nat /\ MaxNow \in Nat

ASSUME NoneAssumption == None \notin Nat

ASSUME UserLinesAssumption == UserLines \cap (Names \X Jobs) = {}

VARIABLES
    tab,       \* the crontab
    baks,      \* the backups that exist: from a second to a content
    now,       \* the clock
    pc,        \* where each run is
    req,       \* what it was asked
    dry,       \* whether with --dry-run
    new,       \* the content it is about to load
    bak,       \* the second of the backup it made or restores, or None
    runs,      \* invocations so far
    handEdits, \* hand edits so far
    undo       \* history: {c}, the content c from before the last backed-up
               \* commit; {} once anything else happens

run == <<pc, req, dry, new, bak>>
vars == <<tab, baks, now, run, runs, handEdits, undo>>

Stamp == 0..MaxNow

Entry == Names \X Jobs

Content == SUBSET (Entry \cup UserLines)

Managed(c) == c \cap Entry

Named(c, n) == {e \in Managed(c) : e[1] = n}

UniqueIn(c) == \A n \in Names : \A e, f \in Named(c, n) : e = f

\* A write that was cut short keeps a prefix, represented by the empty one.
CutShort == {}

Request ==
    [kind : {"add"}, name : Names, job : Jobs]
        \cup [kind : {"remove"}, name : Names]
        \cup [kind : {"rollback"}]

NoRequest == [kind |-> "rollback"]

Pcs == {"idle", "read", "backup", "load", "pick", "restore"}

Idle(p) == pc[p] = "idle"

AllIdle == \A p \in Procs : Idle(p)

Init ==
    /\ tab \in {c \in Content : UniqueIn(c) /\ Cardinality(Managed(c)) <= MaxManaged}
    /\ baks = [t \in {} |-> {}]
    /\ now = 0
    /\ pc = [p \in Procs |-> "idle"]
    /\ req = [p \in Procs |-> NoRequest]
    /\ dry = [p \in Procs |-> FALSE]
    /\ new = [p \in Procs |-> {}]
    /\ bak = [p \in Procs |-> None]
    /\ runs = 0
    /\ handEdits = 0
    /\ undo = {}
-----------------------------------------------------------------------------
Goto(p, l) == pc' = [pc EXCEPT ![p] = l]

\* The run ends, with an exit code or by a signal; what it knew is gone.
End(p) ==
    /\ Goto(p, "idle")
    /\ req' = [req EXCEPT ![p] = NoRequest]
    /\ dry' = [dry EXCEPT ![p] = FALSE]
    /\ new' = [new EXCEPT ![p] = {}]
    /\ bak' = [bak EXCEPT ![p] = None]

\* A command line; `agreed' is the answer to the prompt, which --dry-run does
\* not ask.  A name, schedule or command that does not validate ends the run
\* as a refusal does.
Invoke(p) ==
    /\ Idle(p)
    /\ Overlap \/ AllIdle
    /\ runs < MaxRuns
    /\ runs' = runs + 1
    /\ \E r \in Request, d \in BOOLEAN, agreed \in BOOLEAN :
        /\ r.kind = "rollback" => ~d
        /\ IF d \/ agreed
           THEN /\ req' = [req EXCEPT ![p] = r]
                /\ dry' = [dry EXCEPT ![p] = d]
                /\ Goto(p, IF r.kind = "rollback" THEN "pick" ELSE "read")
           ELSE UNCHANGED <<pc, req, dry>>
    /\ UNCHANGED <<tab, baks, now, new, bak, handEdits, undo>>

\* What `crontab -l' may return.
Listing == {tab} \cup IF ReadMayFail THEN {CutShort} ELSE {}

\* Mutant: the cap is compared with the wrong sign of equality.
MayAddOneMore(r, c) ==
    /\ r.kind = "add"
    /\ Named(c, r.name) = {}
    /\ Cardinality(Managed(c)) <= MaxManaged

\* Mutant: the name check is missing.
MayAddTwice(r, c) ==
    /\ r.kind = "add"
    /\ Cardinality(Managed(c)) < MaxManaged

\* add refuses a name that is taken and a table that is full.
MayAdd(r, c) ==
    /\ r.kind = "add"
    /\ Named(c, r.name) = {}
    /\ Cardinality(Managed(c)) < MaxManaged

MayRemove(r, c) == r.kind = "remove" /\ Named(c, r.name) # {}

\* Mutant: only the managed entries are rendered.
EditedManagedOnly(r, c) ==
    IF r.kind = "add"
    THEN Managed(c) \cup {<<r.name, r.job>>}
    ELSE Managed(c) \ Named(c, r.name)

Edited(r, c) ==
    IF r.kind = "add" THEN c \cup {<<r.name, r.job>>} ELSE c \ Named(c, r.name)

\* The body of add and of remove up to _commit.
Read(p) ==
    /\ pc[p] = "read"
    /\ \E c \in Listing :
        \/ /\ MayAdd(req[p], c) \/ MayRemove(req[p], c)
           /\ Goto(p, "backup")
           /\ new' = [new EXCEPT ![p] = Edited(req[p], c)]
           /\ UNCHANGED <<req, dry, bak>>
        \/ /\ ~MayAdd(req[p], c) /\ ~MayRemove(req[p], c)
           /\ End(p)
    /\ UNCHANGED <<tab, baks, now, runs, handEdits, undo>>

\* Mutant: the backup is named after the second before.
StoreLastSecond(c) ==
    baks' = [t \in DOMAIN baks \cup {now - 1} |->
                IF t = now - 1 THEN c ELSE baks[t]]

Store(c) ==
    baks' = [t \in DOMAIN baks \cup {now} |-> IF t = now THEN c ELSE baks[t]]

\* _commit up to the backup: the second listing, the --dry-run return, and
\* _backup.  A write that fails may leave a short file; the run goes on.
BackUp(p) ==
    /\ pc[p] = "backup"
    /\ IF dry[p]
       THEN End(p) /\ UNCHANGED <<baks, undo>>
       ELSE /\ Goto(p, "load")
            /\ undo' = {}
            /\ \/ /\ \E c \in Listing : Store(c)
                  /\ bak' = [bak EXCEPT ![p] = now]
               \/ (Store(CutShort) \/ UNCHANGED baks) /\ UNCHANGED bak
            /\ UNCHANGED <<req, dry, new>>
    /\ UNCHANGED <<tab, now, runs, handEdits>>

\* _write_crontab: cron may refuse the file.
Load(p) ==
    /\ pc[p] = "load"
    /\ End(p)
    /\ \/ /\ tab' = new[p]
          /\ undo' = IF bak[p] = None THEN {} ELSE {tab}
       \/ UNCHANGED <<tab, undo>>
    /\ UNCHANGED <<baks, now, runs, handEdits>>

\* Mutant: the other end of the sorted list.
SortsFirst(t) == t \in DOMAIN baks /\ \A s \in DOMAIN baks : s >= t

\* The backup whose name sorts last.
SortsLast(t) == t \in DOMAIN baks /\ \A s \in DOMAIN baks : s <= t

Pick(p) ==
    /\ pc[p] = "pick"
    /\ \/ DOMAIN baks = {} /\ End(p)
       \/ \E t \in Stamp :
            /\ SortsLast(t)
            /\ bak' = [bak EXCEPT ![p] = t]
            /\ Goto(p, "restore")
            /\ UNCHANGED <<req, dry, new>>
    /\ UNCHANGED <<tab, baks, now, runs, handEdits, undo>>

\* rollback loads the backup; it backs nothing up itself and keeps the file.
Restore(p) ==
    /\ pc[p] = "restore"
    /\ End(p)
    /\ \/ tab' = baks[bak[p]] /\ undo' = {}
       \/ UNCHANGED <<tab, undo>>
    /\ UNCHANGED <<baks, now, runs, handEdits>>

Kill(p) ==
    /\ ~Idle(p)
    /\ End(p)
    /\ UNCHANGED <<tab, baks, now, runs, handEdits, undo>>

Step(p) ==
    \/ Invoke(p) \/ Read(p) \/ BackUp(p) \/ Load(p)
    \/ Pick(p) \/ Restore(p) \/ Kill(p)

\* `crontab -e' on the user's own lines.
HandEdit ==
    /\ Overlap \/ AllIdle
    /\ handEdits < MaxHandEdits
    /\ handEdits' = handEdits + 1
    /\ \E l \in UserLines : tab' = tab \cup {l} \/ tab' = tab \ {l}
    /\ undo' = {}
    /\ UNCHANGED <<baks, now, run, runs>>

Tick ==
    /\ now < MaxNow
    /\ now' = now + 1
    /\ UNCHANGED <<tab, baks, run, runs, handEdits, undo>>

Next == (\E p \in Procs : Step(p)) \/ HandEdit \/ Tick

Spec == Init /\ [][Next]_vars

-----------------------------------------------------------------------------
TypeOK ==
    /\ tab \in Content
    /\ DOMAIN baks \subseteq Stamp
    /\ baks \in [DOMAIN baks -> Content]
    /\ now \in Stamp
    /\ pc \in [Procs -> Pcs]
    /\ req \in [Procs -> Request]
    /\ dry \in [Procs -> BOOLEAN]
    /\ new \in [Procs -> Content]
    /\ bak \in [Procs -> Stamp \cup {None}]
    /\ runs \in Nat
    /\ handEdits \in Nat
    /\ undo \in SUBSET Content

\* No two managed entries of the crontab share a name, although the name was
\* checked against a listing that other runs may have overtaken (add checks
\* the table it read, and loads that table plus one entry).
UniqueNames == UniqueIn(tab)

\* The crontab never holds more managed entries than max_managed_entries,
\* whatever runs raced past the check in add.
WithinCap == Cardinality(Managed(tab)) <= MaxManaged

\* "User-authored entries are never touched" (docs/tools/cron.md:5): the
\* table an add or a remove is about to load has the user's lines of the
\* crontab it replaces.  (Of runs that do not overlap.)
UserLinesKept ==
    \A p \in Procs :
        pc[p] = "load" => new[p] \cap UserLines = tab \cap UserLines

\* "so `shimkit cron rollback` is a one-command undo" (docs/tools/cron.md:10):
\* while nothing else happens after a commit that reported a backup, the
\* backup that rollback picks holds the content from before the commit.
OneCommandUndo ==
    \A c \in undo : \E t \in Stamp : SortsLast(t) /\ baks[t] = c

\* What the runs promise if they do not overlap.
Abstract == INSTANCE AtomicCron WITH copies <- {baks[t] : t \in DOMAIN baks}
==============================================================================
