----------------------------- MODULE CronEntries -----------------------------
(***************************************************************************)
(* The managed entries of the crontab, as the commands see them that       *)
(* install one through CronManager.add: what CronManager.tla shows of that *)
(* command is taken here in one step.                                      *)
(***************************************************************************)
EXTENDS CliRun

CONSTANT MaxManaged     \* tools.cron.max_managed_entries

VARIABLE entries        \* set of [name, job]

EntriesInit == entries = {}

Named(n) == {e \in entries : e.name = n}

\* The run's last step: add an entry, which fails when the schedule or the name
\* is not valid, the name is taken, the table is full or crontab refuses it.
AddEntry(e, valid) ==
    \/ /\ valid
       /\ Named(e.name) = {}
       /\ Cardinality(entries) < MaxManaged
       /\ entries' = IF req.dry THEN entries ELSE entries \cup {e}
       /\ Exit("ok")
    \/ /\ ~(valid /\ req.dry /\ Named(e.name) = {} /\ Cardinality(entries) < MaxManaged)
       /\ Exit("fail")
       /\ UNCHANGED entries

\* The user removes an entry (shimkit cron remove, crontab -e).
DropEntry == \E e \in entries : entries' = entries \ {e}
==============================================================================
