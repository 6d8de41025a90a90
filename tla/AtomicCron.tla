----------------------------- MODULE AtomicCron -----------------------------
(***************************************************************************)
(* What `shimkit cron' promises about the crontab when its runs and the    *)
(* user's `crontab -e' do not overlap: an add gives one free name one job, *)
(* as long as there is room; a remove takes one name away; a rollback goes *)
(* back to a copy of an earlier table, and right after a commit that was   *)
(* copied first to the very table that commit replaced.  Nothing else      *)
(* happens to an entry, and only a hand edit touches a line of the user.   *)
(***************************************************************************)
EXTENDS Naturals, FiniteSets

CONSTANTS Names, Jobs, UserLines, MaxManaged

VARIABLES
    tab,     \* the crontab
    copies,  \* the tables, and the parts of tables, rollback may go back to
    undo     \* {c}, the table c the last commit replaced; {} after another step

vars == <<tab, copies, undo>>

Entries(n) == {n} \X Jobs

Init ==
    /\ tab \subseteq (Names \X Jobs) \cup UserLines
    /\ copies = {}
    /\ undo = {}

\* A copy made before the table is replaced; it may come out empty, fail, or
\* replace another.
Copy ==
    /\ copies' \subseteq copies \cup {tab, {}}
    /\ undo' = {}
    /\ UNCHANGED tab

\* A commit that could not copy the table first offers nothing to undo.
Commit(c) ==
    /\ tab' = c
    /\ undo' \in {{}, {tab}}
    /\ undo' \subseteq copies
    /\ UNCHANGED copies

Add ==
    \E n \in Names, j \in Jobs :
        /\ tab \cap Entries(n) = {}
        /\ Cardinality(tab \cap (Names \X Jobs)) < MaxManaged
        /\ Commit(tab \cup {<<n, j>>})

Remove ==
    \E n \in Names :
        /\ tab \cap Entries(n) # {}
        /\ Commit(tab \ Entries(n))

Restore ==
    /\ tab' \in IF undo = {} THEN copies ELSE undo
    /\ undo' = {}
    /\ UNCHANGED copies

HandEdit ==
    /\ \E l \in UserLines : tab' \in {tab \cup {l}, tab \ {l}}
    /\ undo' = {}
    /\ UNCHANGED copies

Next == Copy \/ Add \/ Remove \/ Restore \/ HandEdit

Spec == Init /\ [][Next]_vars
==============================================================================
