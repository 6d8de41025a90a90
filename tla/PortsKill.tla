------------------------------- MODULE PortsKill -------------------------------
(***************************************************************************)
(* `shimkit ports kill': the processes that hold one port are listed and   *)
(* shown, the prompt is answered, they are listed again, and each is       *)
(* signalled by its number (tools/ports/manager.py, owners.py,             *)
(* commands.py).  Meanwhile processes end, others take their numbers, and  *)
(* others take the port.  A row without a process, which ss prints for a   *)
(* socket of another user, has the number 0.                               *)
(***************************************************************************)
EXTENDS CliRun

CONSTANTS
    LowPids,      \* numbers up to tools.ports.system_pid_threshold, but for 1
    HighPids,     \* numbers of ordinary processes
    MaxBorn       \* bound on the number of processes

ASSUME PidAssumption ==
    /\ LowPids \cup HighPids \subseteq Nat \ {0, 1}
    /\ LowPids \cap HighPids = {}
    /\ MaxBorn \in Nat \ {0}     \* process 1 is one of them

VARIABLES
    table,    \* the process of each number, None for none
    born,     \* processes so far, which are numbered apart
    holds,    \* the processes that hold the port
    sudoer    \* whether shimkit runs as root and so sees and reaches them all

ports == <<table, born, holds, sudoer>>

Pid == {1} \cup LowPids \cup HighPids

System(pid) == pid \in {0, 1} \cup LowPids

\* A process is of root, or of the user that runs shimkit.
Process == [no : 1..MaxBorn, rootly : BOOLEAN]

ASSUME FinitePidsAssumption == IsFiniteSet(LowPids) /\ IsFiniteSet(HighPids)

ASSUME PortsNoneAssumption == None \notin Process

Init1 == [no |-> 1, rootly |-> TRUE]

PortsStart ==
    /\ born = 1
    /\ table = [p \in Pid |-> IF p = 1 THEN Init1 ELSE None]
    /\ holds \in IF group = "ports" THEN SUBSET {Init1} ELSE {{}}
    /\ sudoer \in IF group = "ports" THEN BOOLEAN ELSE {TRUE}
-----------------------------------------------------------------------------
Seen(p) == sudoer \/ ~table[p].rootly

\* list_owners and filter_port: of ss, which numbers a process that it cannot
\* see 0, or of lsof, which leaves it out.
Rows(lsof) ==
    {p \in Pid : table[p] \in holds /\ Seen(p)}
    \cup {z \in {0} : ~lsof /\ \E p \in Pid : table[p] \in holds /\ ~Seen(p)}

\* A listing that fails has no rows.
Listed == {Rows(req.lsof), {}}

AskKill ==
    /\ \E d, allowed, token, lsof \in BOOLEAN :
        Starts("ports", [cmd |-> "kill", dry |-> d, allowed |-> allowed, token |-> token, lsof |-> lsof], "list")
    /\ UNCHANGED ports

Severe(rows) == \E p \in rows : System(p)

\* commands.kill: what is shown before the prompt.
ListShown ==
    /\ at = "list"
    /\ \E rows \in Listed :
        IF rows = {} THEN Exit("nothing")
        ELSE IF Severe(rows) /\ ~req.token THEN Exit("fail")
        ELSE IF req.dry THEN Remember("list_again", [shown |-> rows])
        ELSE Remember("prompt", [shown |-> rows])
    /\ UNCHANGED ports

Answer ==
    /\ at = "prompt"
    /\ Goto("list_again") \/ Exit("fail")
    /\ UNCHANGED ports

\* Mutant: process 1 is looked for in what was shown before the prompt only.
NeverShown(p) == p = 1 /\ p \in mem.shown

Never(p) == p = 1

\* The processes behind the rows, as the listing found them.
Meant(rows) == [p \in rows |-> IF p = 0 THEN None ELSE table[p]]

\* PortsManager.kill, up to the signals.
ListAgain ==
    /\ at = "list_again"
    /\ IF ~req.allowed THEN Exit("fail")
       ELSE \E rows \in Listed :
        IF rows = {} THEN Exit("nothing")
        ELSE IF \E p \in rows : Never(p) THEN Exit("fail")
        ELSE IF req.dry THEN Exit("ok")
        ELSE Remember("signal", [shown |-> mem.shown, todo |-> rows, meant |-> Meant(rows),
                                 hit |-> {}, bounced |-> {}, failed |-> FALSE])
    /\ UNCHANGED ports

\* Mutant: a signal that bounced is reported and not counted.
Uncounted(bounced) == mem.failed

AnyFailed(bounced) == mem.failed \/ bounced

May(p) == sudoer \/ ~table[p].rootly

\* One signal.  `kill 0' reaches shimkit itself, by its process group; a number
\* that nobody has any more counts as signalled.
Signal ==
    /\ at = "signal"
    /\ \E p \in mem.todo :
        IF p = 0 THEN Killed
        ELSE IF table[p] # None /\ ~May(p)
        THEN Remember("signal", [mem EXCEPT !.todo = @ \ {p}, !.failed = AnyFailed(TRUE),
                                            !.bounced = @ \cup {p}])
        ELSE Remember("signal", [mem EXCEPT !.todo = @ \ {p}, !.failed = AnyFailed(FALSE),
                                            !.hit = @ \cup ({table[p]} \ {None})])
    /\ UNCHANGED ports

Sent ==
    /\ at = "signal"
    /\ mem.todo = {}
    /\ Exit(IF mem.failed THEN "fail" ELSE "ok")
    /\ UNCHANGED ports
-----------------------------------------------------------------------------
(***************************************************************************)
(* Other processes.                                                        *)
(***************************************************************************)
\* Before a run this is what it finds; during one it disturbs it.
Aside == (Idle /\ Elapses) \/ (~Idle /\ Outside)

\* A process starts under a number that is free, and may take the port with
\* others, as the workers of a server do.
Spawns ==
    /\ group = "ports"
    /\ born < MaxBorn
    /\ Aside
    /\ born' = born + 1
    /\ \E p \in LowPids \cup HighPids, rootly, takes \in BOOLEAN :
        LET one == [no |-> born + 1, rootly |-> rootly] IN
        /\ table[p] = None
        /\ p \in LowPids => rootly
        /\ table' = [table EXCEPT ![p] = one]
        /\ holds' = holds \cup (IF takes THEN {one} ELSE {})
    /\ UNCHANGED sudoer

Dies ==
    /\ group = "ports"
    /\ Aside
    /\ \E p \in LowPids \cup HighPids :
        /\ table[p] # None
        /\ table' = [table EXCEPT ![p] = None]
        /\ holds' = holds \ {table[p]}
    /\ UNCHANGED <<born, sudoer>>

\* A process ends and another one gets its number, between two steps of a run.
Recycled ==
    /\ group = "ports"
    /\ born < MaxBorn
    /\ Outside
    /\ born' = born + 1
    /\ \E p \in LowPids \cup HighPids, rootly \in BOOLEAN :
        /\ table[p] # None
        /\ p \in LowPids => rootly
        /\ table' = [table EXCEPT ![p] = [no |-> born + 1, rootly |-> rootly]]
        /\ holds' = holds \ {table[p]}
    /\ UNCHANGED sudoer

\* systemd begins or ceases to listen for a service, as process 1.
InitListens ==
    /\ group = "ports"
    /\ Aside
    /\ holds' = IF Init1 \in holds THEN holds \ {Init1} ELSE holds \cup {Init1}
    /\ UNCHANGED <<table, born, sudoer>>

\* The steps of shimkit itself, the answer of the user apart.
PortsStep == ListShown \/ ListAgain \/ Signal \/ Sent

PortsKilled == group = "ports" /\ Killed /\ UNCHANGED ports

PortsNext ==
    \/ AskKill \/ Answer \/ PortsStep \/ PortsKilled
    \/ Spawns \/ Dies \/ Recycled \/ InitListens

PortsInit == CliInit /\ group = "ports" /\ PortsStart

PortsVars == <<proc, ports>>

PortsSpec == PortsInit /\ [][PortsNext]_PortsVars
-----------------------------------------------------------------------------
PortsTypeOK ==
    /\ table \in [Pid -> Process \cup {None}]
    /\ born \in 1..MaxBorn
    /\ holds \subseteq {table[p] : p \in Pid} \ {None}
    /\ at = "signal" => mem.todo \subseteq Pid \cup {0} /\ mem.hit \subseteq Process

\* "Killing pid 1 specifically is refused at any token" (docs/tools/ports.md),
\* also when it has taken the port between the two listings.
InitIsSpared == at = "signal" => 1 \notin mem.todo /\ Init1 \notin mem.hit

\* A run that reports that it sent the signal was refused by no process, not even
\* by one that had taken the number of another; undisturbed, it has reached each
\* process that it was shown and that held the port, and no other.
SentToHolders ==
    \A s \in said : (s.req.cmd = "kill" /\ ~s.req.dry /\ s.exit = "ok") =>
        /\ s.mem.bounced = {}
        /\ s.calm => s.mem.hit = {table[p] : p \in s.mem.shown} /\ s.mem.hit \subseteq holds

\* The signals of a kill land where they were meant to: never on process 1,
\* also when it has taken the port between the two listings; a success means that
\* no process refused the signal and, if nothing disturbed the run, that each one
\* shown was reached.
SignalsLand == InitIsSpared /\ SentToHolders
==============================================================================
