------------------------------ MODULE LempStack ------------------------------
(***************************************************************************)
(* `shimkit stack lemp up | down' of one project (tools/stack/lemp.py,     *)
(* manager.py): three containers on a bridge network, brought up one after *)
(* the other and torn down in reverse, by runs that may overlap, fail at   *)
(* any call to the daemon, or be killed, and leave what they did so far.   *)
(*                                                                         *)
(* The daemon removes a network only when no running container is on it.   *)
(* A container that is left from a network that was removed, or was made   *)
(* while there was none, cannot start, even once a network of that name    *)
(* exists again.                                                           *)
(***************************************************************************)
EXTENDS Naturals, Sequences

CONSTANTS
    Procs,          \* runs of the command that may be alive at once
    Ports,          \* host ports that --port may name
    None,           \* no value
    MaxRuns,        \* bound on the number of invocations
    MaxOutside      \* bound on what happens behind shimkit's back

VARIABLES
    cont,        \* the daemon's containers of the project, one for each role
    net,         \* whether the project's network exists
    foreign,     \* ports held by other programs
    pc,          \* where each run is
    req,         \* what it was asked
    left,        \* the roles it has not dealt with, in order
    undisturbed, \* history: nothing else has happened since it was started
    runs,        \* invocations so far
    outside,     \* things that happened behind shimkit's back so far
    said         \* what the last step reported, if it reported anything: {r}

run == <<pc, req, left, undisturbed>>
vars == <<cont, net, foreign, run, runs, outside, said>>

INSTANCE DockerEnv

Roles == {"db", "php", "nginx"}

UpOrder == <<"db", "php", "nginx">>

DownOrder == <<"nginx", "php", "db">>

Left == {SubSeq(o, i, 3) : o \in {UpOrder, DownOrder}, i \in 1..4}

\* Only nginx publishes a port; `on' says whether the container is on the
\* network that exists.
Container ==
    [status : Statuses, port : Ports \cup {None}, on : BOOLEAN, by : Procs]

ASSUME NoneAssumption == None \notin Ports /\ None \notin Container

Request == [kind : {"up"}, port : Ports] \cup [kind : {"down"}]

NoRequest == [kind |-> "none"]

Pcs == {"idle", "network", "make_network", "find", "start", "create", "begin",
        "stop", "remove", "remove_network"}

Idle(p) == pc[p] = "idle"

Init ==
    /\ cont = [r \in Roles |-> None]
    /\ net = FALSE
    /\ foreign \in SUBSET Ports
    /\ pc = [p \in Procs |-> "idle"]
    /\ req = [p \in Procs |-> NoRequest]
    /\ left = [p \in Procs |-> <<>>]
    /\ undisturbed = [p \in Procs |-> FALSE]
    /\ runs = 0
    /\ outside = 0
    /\ said = {}
-----------------------------------------------------------------------------
\* Whatever run p does disturbs the others.
Disturb(p) ==
    undisturbed' = [q \in Procs |-> q = p /\ undisturbed[q]]

Goto(p, l) ==
    /\ pc' = [pc EXCEPT ![p] = l]
    /\ said' = {}
    /\ Disturb(p)
    /\ UNCHANGED req

\* Mutant: the roles are taken off the wrong end.
DropLast(s) == SubSeq(s, 1, Len(s) - 1)

DropRole(s) == Tail(s)

\* Done with a role.
NextRole(p, l) ==
    /\ left' = [left EXCEPT ![p] = DropRole(@)]
    /\ Goto(p, l)

AtLast(p) == Len(left[p]) = 1

\* The run ends and its last words are r.
EndSaying(p, r) ==
    /\ pc' = [pc EXCEPT ![p] = "idle"]
    /\ req' = [req EXCEPT ![p] = NoRequest]
    /\ left' = [left EXCEPT ![p] = <<>>]
    /\ undisturbed' = [q \in Procs |-> FALSE]
    /\ said' = r

\* What a run that succeeds or fails reports.
Report(p, ok) ==
    EndSaying(p, {[req |-> req[p], ok |-> ok, undisturbed |-> undisturbed[p]]})

\* An exception of the SDK that nothing catches.
Fail(p) == Report(p, FALSE)

\* A command line the user agrees to.  --dry-run does nothing.
Invoke(p) ==
    /\ Idle(p)
    /\ runs < MaxRuns
    /\ runs' = runs + 1
    /\ \E r \in Request :
        /\ req' = [req EXCEPT ![p] = r]
        /\ pc' = [pc EXCEPT ![p] = IF r.kind = "up" THEN "network" ELSE "stop"]
        /\ left' = [left EXCEPT ![p] = IF r.kind = "up" THEN UpOrder ELSE DownOrder]
    /\ undisturbed' = [q \in Procs |-> q = p /\ \A o \in Procs : Idle(o)]
    /\ said' = {}
    /\ UNCHANGED <<cont, net, foreign, outside>>

\* network_get_or_create, in two calls.
GetNetwork(p) ==
    /\ pc[p] = "network"
    /\ Goto(p, IF net THEN "find" ELSE "make_network")
    /\ UNCHANGED <<cont, net, foreign, left, runs, outside>>

MakeNetwork(p) ==
    /\ pc[p] = "make_network"
    /\ net' = TRUE
    /\ IF net THEN Fail(p) ELSE Goto(p, "find") /\ UNCHANGED left
    /\ UNCHANGED <<cont, foreign, runs, outside>>

Role(p) == Head(left[p])

\* After nginx, the last role, up reports success.
UpNext(p) ==
    IF AtLast(p) THEN Report(p, TRUE) ELSE NextRole(p, "find")

\* After db, its last role, down turns to the network.
DownNext(p) == NextRole(p, IF AtLast(p) THEN "remove_network" ELSE "stop")

\* Mutant: a container that exists is taken to run.
SeenUp(c, r) == Exists(c, r)

AlreadyUp(c, r) == IsRunning(c, r)

\* Mutant: a container that never started is not seen.
SeesOnlyStarted(c, r) == c[r] # None /\ c[r].status # "created"

Sees(c, r) == Exists(c, r)

\* _ensure_up looks the container of the role up.
Find(p) ==
    /\ pc[p] = "find"
    /\ IF AlreadyUp(cont, Role(p))
       THEN UpNext(p)
       ELSE /\ Goto(p, IF Sees(cont, Role(p)) THEN "start" ELSE "create")
            /\ UNCHANGED left
    /\ UNCHANGED <<cont, net, foreign, runs, outside>>

\* DockerEnv.run, first half: the daemon refuses a name that is taken.
Create(p) ==
    /\ pc[p] = "create"
    /\ IF Exists(cont, Role(p))
       THEN Fail(p) /\ UNCHANGED cont
       ELSE /\ cont' = Created(cont, Role(p),
                 [status |-> "created",
                  port |-> IF Role(p) = "nginx" THEN req[p].port ELSE None,
                  on |-> net, by |-> p])
            /\ Goto(p, "begin")
            /\ UNCHANGED left
    /\ UNCHANGED <<net, foreign, runs, outside>>

CanStart(r) == (IsRunning(cont, r) \/ cont[r].on) /\ MayStart(cont, r, foreign)

\* The daemon starts the container of role r, or the call fails.
DaemonStarts(p, r) ==
    IF CanStart(r)
    THEN cont' = Started(cont, r) /\ UpNext(p)
    ELSE Fail(p) /\ UNCHANGED cont

\* DockerEnv.run, second half: what it created stays when it cannot start.
Begin(p) ==
    /\ pc[p] = "begin"
    /\ IF IsMine(cont, Role(p), p)
       THEN DaemonStarts(p, Role(p))
       ELSE Fail(p) /\ UNCHANGED cont
    /\ UNCHANGED <<net, foreign, runs, outside>>

\* _ensure_up ignores that DockerEnv.start found no container.
Start(p) ==
    /\ pc[p] = "start"
    /\ IF Exists(cont, Role(p))
       THEN DaemonStarts(p, Role(p))
       ELSE UpNext(p) /\ UNCHANGED cont
    /\ UNCHANGED <<net, foreign, runs, outside>>

\* Mutant: down leaves containers that do not run.
ToRemove(c, r) == IsRunning(c, r)

\* down passes over a role that has no container.
Removable(c, r) == Exists(c, r)

Stop(p) ==
    /\ pc[p] = "stop"
    /\ IF Removable(cont, Role(p))
       THEN /\ cont' = Stopped(cont, Role(p))
            /\ Goto(p, "remove")
            /\ UNCHANGED left
       ELSE UNCHANGED cont /\ DownNext(p)
    /\ UNCHANGED <<net, foreign, runs, outside>>

Remove(p) ==
    /\ pc[p] = "remove"
    /\ cont' = Removed(cont, Role(p))
    /\ DownNext(p)
    /\ UNCHANGED <<net, foreign, runs, outside>>

NetworkIdle == \A r \in Roles : ~IsRunning(cont, r)

RemoveNetwork(p) ==
    /\ pc[p] = "remove_network"
    /\ IF net /\ ~NetworkIdle
       THEN Fail(p) /\ UNCHANGED <<cont, net>>
       ELSE /\ net' = FALSE
            /\ cont' = [r \in Roles |->
                 IF Exists(cont, r) THEN [cont[r] EXCEPT !.on = FALSE] ELSE None]
            /\ Report(p, TRUE)
    /\ UNCHANGED <<foreign, runs, outside>>

Kill(p) ==
    /\ ~Idle(p)
    /\ EndSaying(p, {})
    /\ UNCHANGED <<cont, net, foreign, runs, outside>>

Outside ==
    /\ outside < MaxOutside
    /\ outside' = outside + 1
    /\ undisturbed' = [p \in Procs |-> FALSE]
    /\ said' = {}
    /\ UNCHANGED <<net, pc, req, left, runs>>

OtherProgramTakes(t) ==
    /\ t \notin PortsOf(cont) \cup foreign
    /\ foreign' = foreign \cup {t}
    /\ Outside
    /\ UNCHANGED cont

OtherProgramReleases(t) ==
    /\ t \in foreign
    /\ foreign' = foreign \ {t}
    /\ Outside
    /\ UNCHANGED cont

\* A container stops (a crash, docker stop, a reboot).
StopsBehind(r) ==
    /\ IsRunning(cont, r)
    /\ cont' = Stopped(cont, r)
    /\ Outside
    /\ UNCHANGED foreign

\* A container starts (docker start, the restart policy).
StartsBehind(r) ==
    /\ Exists(cont, r)
    /\ ~IsRunning(cont, r)
    /\ CanStart(r)
    /\ cont' = Started(cont, r)
    /\ Outside
    /\ UNCHANGED foreign

Step(p) ==
    \/ GetNetwork(p) \/ MakeNetwork(p) \/ Find(p) \/ Create(p) \/ Begin(p) \/ Start(p)
    \/ Stop(p) \/ Remove(p) \/ RemoveNetwork(p) \/ Kill(p)

Next ==
    \/ \E p \in Procs : Invoke(p) \/ Step(p)
    \/ \E t \in Ports : OtherProgramTakes(t) \/ OtherProgramReleases(t)
    \/ \E r \in Roles : StopsBehind(r) \/ StartsBehind(r)

Spec == Init /\ [][Next]_vars
-----------------------------------------------------------------------------
TypeOK ==
    /\ cont \in [Roles -> {None} \cup Container]
    /\ net \in BOOLEAN
    /\ foreign \subseteq Ports
    /\ pc \in [Procs -> Pcs]
    /\ req \in [Procs -> {NoRequest} \cup Request]
    /\ left \in [Procs -> Left]
    /\ undisturbed \in [Procs -> BOOLEAN]
    /\ runs \in Nat
    /\ outside \in Nat
    /\ said \subseteq [req : Request, ok : BOOLEAN, undisturbed : BOOLEAN]

Undisturbed(s, kind) == s.undisturbed /\ s.req.kind = kind

\* Whatever overlapping and killed runs left, an `up' that nothing disturbs and
\* that reports success has left all three containers running.
UpBringsAllUp ==
    \A s \in said : Undisturbed(s, "up") /\ s.ok => \A r \in Roles : IsRunning(cont, r)

\* Such an `up' fails only when nginx's port is held by another program, or a
\* container is left from another network.
UpFailuresExplained ==
    \A s \in said : Undisturbed(s, "up") /\ ~s.ok =>
        \/ Exists(cont, "nginx") /\ cont["nginx"].port \in foreign
        \/ \E r \in Roles : Exists(cont, r) /\ ~cont[r].on

\* Whatever overlapping and killed runs left, a `down' that nothing disturbs
\* succeeds and leaves no container and no network.
DownTearsDown ==
    \A s \in said : Undisturbed(s, "down") =>
        s.ok /\ ~net /\ \A r \in Roles : ~Exists(cont, r)

\* Whatever overlapping and killed runs left, an `up' that nothing disturbs can
\* be believed: a success has all three containers running, and a failure has a
\* cause that up does not see to.
UpSpeaksTrue == UpBringsAllUp /\ UpFailuresExplained
==============================================================================
