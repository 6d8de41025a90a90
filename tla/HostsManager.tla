---------------------------- MODULE HostsManager ----------------------------
(***************************************************************************)
(* `shimkit hosts`: several runs of the command, hand edits of the file,   *)
(* and the clock that names the backups (tools/hosts/manager.py,           *)
(* commands.py).  Nothing locks the file.  A run reads it, computes the    *)
(* new content, copies the live file to a backup named after the current   *)
(* second, and installs the new content; a rollback picks the backup whose *)
(* name sorts last and installs it.  A run may be killed between any two   *)
(* of these steps, and each command it shells out to may fail.             *)
(*                                                                         *)
(* `install' replaces the file in one step, as _atomic_write says.         *)
(***************************************************************************)
EXTENDS HostsFile

CONSTANTS
    Procs,              \* runs of the command that may be alive at once
    Root,               \* those started as root
    Requests,           \* what users ask for
    None,               \* no value
    MaxNow,             \* last second of the clock
    MaxRuns,            \* bound on the number of invocations
    MaxHandEdits,       \* bound on the number of hand edits
    ClockMayStepBack    \* local time may be set back (DST, NTP)

ASSUME RequestsAssumption == Requests \subseteq Request

ASSUME NoneAssumption == None \notin Nat

ASSUME MaxNowAssumption == MaxNow \in Nat

VARIABLES
    live,      \* the hosts file
    baks,      \* the backups that exist: from a second to a content
    now,       \* the clock
    pc,        \* where each run is
    req,       \* what it was asked
    dry,       \* whether with --dry-run
    snap,      \* the content it read
    bak,       \* the second of the backup it made or restores, or None
    runs,      \* invocations so far
    handEdits  \* hand edits so far

\* History variables: no action of the program reads them.
VARIABLES
    held,      \* every content the hosts file has had
    authored,  \* lines of the first file, of hand edits and of agreed requests
    whole,     \* backups whose last copy ran to completion
    undo       \* {c}: the content c from before the last backed-up commit;
               \* {} once anything else happens to the file or the backups

run == <<pc, req, dry, snap, bak>>
ghosts == <<held, authored, whole, undo>>
vars == <<live, baks, now, run, runs, handEdits, ghosts>>

Stamp == 0..MaxNow

Pcs == {"idle", "read", "backup", "install", "open", "write", "detached",
        "pick", "restore"}

NoRequest == [kind |-> "rollback", puts |-> {}, drops |-> {}]

Idle(p) == pc[p] = "idle"

Init ==
    /\ live \in Content
    /\ baks = [t \in {} |-> {}]
    /\ now = 0
    /\ pc = [p \in Procs |-> "idle"]
    /\ req = [p \in Procs |-> NoRequest]
    /\ dry = [p \in Procs |-> FALSE]
    /\ snap = [p \in Procs |-> {}]
    /\ bak = [p \in Procs |-> None]
    /\ runs = 0
    /\ handEdits = 0
    /\ held = {live}
    /\ authored = live
    /\ whole = {}
    /\ undo = {}
-----------------------------------------------------------------------------
(***************************************************************************)
(* The steps of a run.                                                     *)
(***************************************************************************)
Goto(p, l) == pc' = [pc EXCEPT ![p] = l]

\* What a run knows dies with it.
Forget(p) ==
    /\ req' = [req EXCEPT ![p] = NoRequest]
    /\ dry' = [dry EXCEPT ![p] = FALSE]
    /\ snap' = [snap EXCEPT ![p] = {}]
    /\ bak' = [bak EXCEPT ![p] = None]

\* The run ends: with exit code 0 or 1, or by a signal.
End(p) == Goto(p, "idle") /\ Forget(p)

\* A command line: `agreed' is the answer to the [y/N] prompt, or a token
\* that matches (an address that is not valid ends the run as a refusal
\* does).  --dry-run asks for neither; rollback has no --dry-run.
\* apply-list checks its cap before it reads the hosts file.
Invoke(p) ==
    /\ Idle(p)
    /\ runs < MaxRuns
    /\ runs' = runs + 1
    /\ \E r \in Requests, d \in BOOLEAN, agreed \in BOOLEAN :
        /\ r.kind = "rollback" => ~d
        /\ \/ /\ (~d /\ ~agreed) \/ OverCap(r)
              /\ UNCHANGED <<pc, req, dry, authored>>
           \/ /\ d \/ agreed
              /\ ~OverCap(r)
              /\ req' = [req EXCEPT ![p] = r]
              /\ dry' = [dry EXCEPT ![p] = d]
              /\ Goto(p, IF r.kind = "rollback" THEN "pick" ELSE "read")
              /\ authored' = IF d THEN authored ELSE authored \cup r.puts
    /\ UNCHANGED <<live, baks, now, snap, bak, handEdits,
                   held, whole, undo>>

\* Mutant: --dry-run is not looked at.
ReadDryRunIgnored(p) ==
    /\ pc[p] = "read"
    /\ \/ /\ Edited(req[p], live) # live
          /\ Goto(p, "backup")
          /\ snap' = [snap EXCEPT ![p] = live]
          /\ UNCHANGED <<req, dry, bak>>
       \/ End(p)
    /\ UNCHANGED <<live, baks, now, runs, handEdits, ghosts>>

\* _read, the edit in memory, and the early returns of add, remove,
\* apply_list and of _commit under --dry-run.
Read(p) ==
    /\ pc[p] = "read"
    /\ \/ /\ Edited(req[p], live) # live
          /\ ~dry[p]
          /\ Goto(p, "backup")
          /\ snap' = [snap EXCEPT ![p] = live]
          /\ UNCHANGED <<req, dry, bak>>
       \/ /\ Edited(req[p], live) = live \/ dry[p]
          /\ End(p)
       \/ End(p)                         \* the file cannot be read
    /\ UNCHANGED <<live, baks, now, runs, handEdits, ghosts>>

\* Mutant: the backup is named after the second before.
CopyLastSecond(c) ==
    baks' = [t \in DOMAIN baks \cup {now - 1} |->
                IF t = now - 1 THEN c ELSE baks[t]]

Copy(c) ==
    baks' = [t \in DOMAIN baks \cup {now} |-> IF t = now THEN c ELSE baks[t]]

\* Mutant: the new content is what gets backed up.
BackUpRendered(p) ==
    /\ pc[p] = "backup"
    /\ Goto(p, "install")
    /\ undo' = {}
    /\ Copy(Edited(req[p], snap[p]))
    /\ bak' = [bak EXCEPT ![p] = now]
    /\ whole' = whole \cup {now}
    /\ UNCHANGED <<live, now, req, dry, snap, runs, handEdits, held, authored>>

\* _back_up copies the file as it is now, not as it was read.  A copy that
\* fails may leave a short file behind; the run goes on without a backup.
BackUp(p) ==
    /\ pc[p] = "backup"
    /\ Goto(p, "install")
    /\ undo' = {}
    /\ \/ /\ Copy(live)
          /\ bak' = [bak EXCEPT ![p] = now]
          /\ whole' = whole \cup {now}
       \/ /\ Copy(CutShort)
          /\ whole' = whole \ {now}
          /\ UNCHANGED bak
       \/ UNCHANGED <<baks, bak, whole>>
    /\ UNCHANGED <<live, now, req, dry, snap, runs, handEdits,
                   held, authored>>

Becomes(c) ==
    /\ live' = c
    /\ held' = held \cup {c}

\* The content that was there before this commit can be had back if the
\* commit made a backup.
Committed(p) == undo' = IF bak[p] = None THEN {} ELSE {live}

\* `install' gives the file a new inode: a direct write that has the old
\* one open no longer reaches the file.
Detach(p) ==
    pc' = [q \in Procs |-> IF q = p THEN "idle"
                           ELSE IF pc[q] = "write" THEN "detached" ELSE pc[q]]

Installed(p) == Detach(p) /\ Forget(p)

\* Mutant: rendering loses the lines shimkit does not understand.
InstallManagedOnly(p) ==
    /\ pc[p] = "install"
    /\ Installed(p)
    /\ Becomes(Edited(req[p], snap[p] \ UserLines))
    /\ Committed(p)
    /\ UNCHANGED <<baks, now, runs, handEdits, authored, whole>>

\* _atomic_write up to the outcome of `sudo install'.
Install(p) ==
    /\ pc[p] = "install"
    /\ \/ /\ Installed(p)
          /\ Becomes(Edited(req[p], snap[p]))
          /\ Committed(p)
       \/ /\ p \in Root
          /\ Goto(p, "open")
          /\ UNCHANGED <<live, held, undo, req, dry, snap, bak>>
       \/ /\ p \notin Root
          /\ End(p)
          /\ UNCHANGED <<live, held, undo>>
    /\ UNCHANGED <<baks, now, runs, handEdits, authored, whole>>

\* write_text opens the file, which empties it...
OpenDirect(p) ==
    /\ pc[p] = "open"
    /\ \/ /\ Goto(p, "write")
          /\ Becomes(CutShort)
          /\ Committed(p)
          /\ UNCHANGED <<req, dry, snap, bak>>
       \/ /\ End(p)
          /\ UNCHANGED <<live, held, undo>>
    /\ UNCHANGED <<baks, now, runs, handEdits, authored, whole>>

\* ...then writes the content, to whatever the open handle still names.
WriteDirect(p) ==
    /\ pc[p] \in {"write", "detached"}
    /\ \/ /\ pc[p] = "write"
          /\ Becomes(Edited(req[p], snap[p]))
          /\ End(p)
       \/ /\ pc[p] = "detached"
          /\ UNCHANGED <<live, held>>
          /\ End(p)
       \/ /\ UNCHANGED <<live, held>>
          /\ End(p)
    /\ UNCHANGED <<baks, now, runs, handEdits, authored, whole, undo>>

\* Mutant: the other end of the sorted list.
SortsFirst(t) ==
    /\ t \in DOMAIN baks
    /\ \A s \in DOMAIN baks : s >= t

\* The backup whose name sorts last.
SortsLast(t) ==
    /\ t \in DOMAIN baks
    /\ \A s \in DOMAIN baks : s <= t

Pick(p) ==
    /\ pc[p] = "pick"
    /\ \/ /\ DOMAIN baks = {}
          /\ End(p)
       \/ \E t \in Stamp :
            /\ SortsLast(t)
            /\ bak' = [bak EXCEPT ![p] = t]
            /\ Goto(p, "restore")
            /\ UNCHANGED <<req, dry, snap>>
    /\ UNCHANGED <<live, baks, now, runs, handEdits, ghosts>>

\* rollback installs the backup as it is now; it has no fallback, keeps
\* the backup, and makes none of the file it replaces.
Restore(p) ==
    /\ pc[p] = "restore"
    /\ \/ /\ Installed(p)
          /\ Becomes(baks[bak[p]])
          /\ undo' = {}
       \/ /\ End(p)
          /\ UNCHANGED <<live, held, undo>>
    /\ UNCHANGED <<baks, now, runs, handEdits, authored, whole>>

Kill(p) ==
    /\ ~Idle(p)
    /\ End(p)
    /\ UNCHANGED <<live, baks, now, runs, handEdits, ghosts>>

Step(p) ==
    \/ Invoke(p) \/ Read(p) \/ BackUp(p) \/ Install(p)
    \/ OpenDirect(p) \/ WriteDirect(p) \/ Pick(p) \/ Restore(p) \/ Kill(p)
-----------------------------------------------------------------------------
(***************************************************************************)
(* The environment.                                                        *)
(***************************************************************************)
HandEdit ==
    /\ handEdits < MaxHandEdits
    /\ handEdits' = handEdits + 1
    /\ \E l \in Line :
        \/ Becomes(live \cup {l}) /\ authored' = authored \cup {l}
        \/ Becomes(live \ {l}) /\ UNCHANGED authored
    /\ undo' = {}
    /\ UNCHANGED <<baks, now, run, runs, whole>>

Tick ==
    /\ now < MaxNow
    /\ now' = now + 1
    /\ UNCHANGED <<live, baks, run, runs, handEdits, ghosts>>

SetBack ==
    /\ ClockMayStepBack
    /\ now > 0
    /\ now' = now - 1
    /\ UNCHANGED <<live, baks, run, runs, handEdits, ghosts>>

Next == (\E p \in Procs : Step(p)) \/ HandEdit \/ Tick \/ SetBack

Spec == Init /\ [][Next]_vars

\* The same program when its runs and the hand edits do not overlap.
Alone(p) == \A q \in Procs \ {p} : Idle(q)

SerialNext ==
    \/ \E p \in Procs : Alone(p) /\ Step(p)
    \/ (\A p \in Procs : Idle(p)) /\ HandEdit
    \/ Tick
    \/ SetBack

SerialSpec == Init /\ [][SerialNext]_vars
-----------------------------------------------------------------------------
TypeOK ==
    /\ live \in Content
    /\ DOMAIN baks \subseteq Stamp
    /\ baks \in [DOMAIN baks -> Content]
    /\ now \in Stamp
    /\ pc \in [Procs -> Pcs]
    /\ req \in [Procs -> Request]
    /\ dry \in [Procs -> BOOLEAN]
    /\ snap \in [Procs -> Content]
    /\ bak \in [Procs -> Stamp \cup {None}]
    /\ runs \in Nat
    /\ handEdits \in Nat
    /\ held \in SUBSET Content
    /\ authored \in Content
    /\ whole \in SUBSET Stamp
    /\ undo \in SUBSET Content

\* Every line of the hosts file, and of every backup a rollback could bring
\* back, was in the first file, was typed by a user, or was asked for by a
\* request that was agreed to and was not a dry run: through any overlap of
\* runs, crash, failed write or rollback (the prompt and token gates of
\* commands.py and the dry_run return of _commit).
NoPhantomLine ==
    /\ live \subseteq authored
    /\ \A t \in DOMAIN baks : baks[t] \subseteq authored

\* A backup that was copied to the end holds a content the hosts file
\* really had, so a rollback to it invents nothing (_back_up copies the live
\* file, _commit backs up before it writes).
BackupsAreGenuine ==
    \A t \in whole : baks[t] \in held

\* What the two invariants above rest on: a picked backup stays there; what a
\* run read and what it will put were authored, and no dry run gets past Read.
PickedExists ==
    \A p \in Procs : pc[p] = "restore" => bak[p] \in DOMAIN baks

Committing == {"backup", "install", "open", "write", "detached"}

Provenance ==
    \A p \in Procs :
        /\ snap[p] \subseteq authored
        /\ ~dry[p] => req[p].puts \subseteq authored
        /\ pc[p] \in Committing => ~dry[p]

IInv ==
    /\ TypeOK
    /\ PickedExists
    /\ NoPhantomLine
    /\ Provenance
    /\ live \in held
    /\ whole \subseteq DOMAIN baks
    /\ BackupsAreGenuine

\* As long as nothing else has happened, rollback undoes the last commit
\* that reported a backup, even if the commit died in the middle of a direct
\* write: the backup it would pick holds the content from before the commit.
OneCommandUndo ==
    \A c \in undo : \E t \in Stamp : SortsLast(t) /\ baks[t] = c

\* Runs that do not overlap edit the file atomically.
Intent ==
    IF \E p \in Procs : pc[p] = "write"
    THEN LET p == CHOOSE q \in Procs : pc[q] = "write"
         IN  {Edited(req[p], snap[p])}
    ELSE {}

Abstract == INSTANCE AtomicHosts WITH
    file <- live, past <- held, intent <- Intent

\* Without overlap every change of the hosts file is one whole edit of its
\* current content, a return to an earlier one, a hand edit, or the tear and
\* mend of the direct-write fallback (_commit, _atomic_write).
EditsAreAtomic == Abstract!Spec
==============================================================================
