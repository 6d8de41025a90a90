------------------------------ MODULE DbManager ------------------------------
(***************************************************************************)
(* `shimkit db <engine> up | down | reset' (tools/db/manager.py,           *)
(* commands.py): overlapping runs over the containers and data directories *)
(* of database instances, an instance being an engine and a --name.  A run *)
(* is a sequence of calls to the docker daemon and to the file system; it  *)
(* may be killed between any two of them.  Other programs take and release *)
(* ports, and containers stop (a crash, docker stop, a reboot) and start   *)
(* (docker start, the restart policy) behind shimkit's back.               *)
(***************************************************************************)
EXTENDS Naturals

CONSTANTS
    Procs,          \* runs of the command that may be alive at once
    Ids,            \* instances
    Ports,          \* host ports that --port may name
    Vols,           \* directories that may hold data
    DefaultVolume,  \* the directory of an instance: volume root and name
    CustomVols,     \* directories that --volume may name
    Guarded,        \* directories under ~/.shimkit/data
    None,           \* no value
    MaxRuns,        \* bound on the number of invocations
    MaxOutside      \* bound on what happens behind shimkit's back

ASSUME VolumesAssumption ==
    /\ DefaultVolume \in [Ids -> Vols]
    /\ CustomVols \subseteq Vols
    /\ Guarded \subseteq Vols

ASSUME NoneAssumption == None \notin Vols

VARIABLES
    cont,       \* the daemon's containers
    vols,       \* the data directories that exist
    foreign,    \* ports held by other programs
    pc,         \* where each run is
    req,        \* what it was asked
    runs,       \* invocations so far
    outside,    \* things that happened behind shimkit's back so far
    said,       \* what the last step reported, if it reported anything: {r}
    authorised, \* history: instances that a reset was confirmed for
    owned       \* history: directories made for each instance since a reset of
                \* it last reported success

run == <<pc, req>>
vars == <<cont, vols, foreign, run, runs, outside, said, authorised, owned>>

INSTANCE DockerEnv

\* Where the data of a container is: nowhere with --ephemeral.
Volume == {None} \cup Vols

Container ==
    [status : Statuses, port : Ports, vol : Volume, by : Procs]

ASSUME NoContainerAssumption == None \notin Container

Request ==
    [kind : {"up"}, id : Ids, port : Ports, vol : Volume, dry : BOOLEAN]
        \cup [kind : {"down", "reset"}, id : Ids]

NoRequest == [kind |-> "none"]

\* The --volume of an `up': its own directory by default.
MayUse(i) == {DefaultVolume[i], None} \cup CustomVols

Pcs == {"idle", "find", "mkdir", "create", "begin", "start", "stop", "remove",
        "remove_volume"}

Idle(p) == pc[p] = "idle"

Init ==
    /\ cont = [i \in Ids |-> None]
    /\ vols = {}
    /\ foreign \in SUBSET Ports
    /\ pc = [p \in Procs |-> "idle"]
    /\ req = [p \in Procs |-> NoRequest]
    /\ runs = 0
    /\ outside = 0
    /\ said = {}
    /\ authorised = {}
    /\ owned = [i \in Ids |-> {}]
-----------------------------------------------------------------------------
Goto(p, l) ==
    /\ pc' = [pc EXCEPT ![p] = l]
    /\ said' = {}
    /\ UNCHANGED req

\* The run ends and its last words are r.
EndSaying(p, r) ==
    /\ pc' = [pc EXCEPT ![p] = "idle"]
    /\ req' = [req EXCEPT ![p] = NoRequest]
    /\ said' = r

EndQuietly(p) == EndSaying(p, {})

\* The result of an `up' carries the port and directory of the request.
Report(p, action) ==
    EndSaying(p, {[action |-> action, id |-> req[p].id, port |-> req[p].port]})

\* The result of the others names only the instance.
ReportBare(p, action) == EndSaying(p, {[action |-> action, id |-> req[p].id]})

\* An exception of the SDK that nothing catches.
Fail(p) == EndSaying(p, {[action |-> "failed", id |-> req[p].id, kind |-> req[p].kind]})

FirstCall(r) == IF r.kind = "up" THEN "find" ELSE "stop"

\* A command line.  `agreed' is the answer to the prompt of up and down, which
\* --dry-run does not ask, and for reset whether --confirm has the token.  A
\* dry down or reset does nothing.
Invoke(p) ==
    /\ Idle(p)
    /\ runs < MaxRuns
    /\ runs' = runs + 1
    /\ \E r \in Request :
        /\ r.kind = "up" => r.vol \in MayUse(r.id)
        /\ pc' = [pc EXCEPT ![p] = FirstCall(r)]
        /\ req' = [req EXCEPT ![p] = r]
        /\ authorised' = IF r.kind = "reset" THEN authorised \cup {r.id} ELSE authorised
    /\ said' = {}
    /\ UNCHANGED <<cont, vols, foreign, outside, owned>>

\* Mutant: up does not see a container that never started.
SeesOnlyStarted(c, i) == c[i] # None /\ c[i].status # "created"

\* up starts a container that exists, whatever its state, and makes no other.
Sees(c, i) == Exists(c, i)

\* Mutant: any container counts as running.
AnyIsUp(c, i) == Exists(c, i)

AlreadyUp(c, i) == IsRunning(c, i)

\* Mutant: the directory is made for an ephemeral container, too.
AlwaysNeedsDir(r) == r.kind = "up"

NeedsDir(r) == r.vol # None

\* up looks its container up; a dry run stops there.
Find(p) ==
    /\ pc[p] = "find"
    /\ LET r == req[p]
       IN  IF Sees(cont, r.id)
           THEN IF AlreadyUp(cont, r.id)
                THEN Report(p, "already_running")
                ELSE IF r.dry THEN EndQuietly(p) ELSE Goto(p, "start")
           ELSE IF r.dry
                THEN EndQuietly(p)
                ELSE Goto(p, IF NeedsDir(r) THEN "mkdir" ELSE "create")
    /\ UNCHANGED <<cont, vols, foreign, runs, outside, authorised, owned>>

MkDir(p) ==
    /\ pc[p] = "mkdir"
    /\ vols' = vols \cup {req[p].vol}
    /\ owned' = [owned EXCEPT ![req[p].id] = @ \cup {req[p].vol}]
    /\ Goto(p, "create")
    /\ UNCHANGED <<cont, foreign, runs, outside, authorised>>

\* DockerEnv.run, first half: the daemon refuses a name that is taken.
Create(p) ==
    /\ pc[p] = "create"
    /\ LET r == req[p]
       IN  IF Exists(cont, r.id)
           THEN Fail(p) /\ UNCHANGED cont
           ELSE /\ cont' = Created(cont, r.id,
                        [status |-> "created", port |-> r.port, vol |-> r.vol, by |-> p])
                /\ Goto(p, "begin")
    /\ UNCHANGED <<vols, foreign, runs, outside, authorised, owned>>

\* The daemon starts container i, or the call fails.  It makes the directory of
\* a bind mount that is not there.
DaemonStarts(p, i, action) ==
    IF MayStart(cont, i, foreign)
    THEN /\ cont' = Started(cont, i)
         /\ vols' = vols \cup ({cont[i].vol} \ {None})
         /\ Report(p, action)
    ELSE Fail(p) /\ UNCHANGED <<cont, vols>>

\* DockerEnv.run, second half: what it created stays when it cannot start.
Begin(p) ==
    /\ pc[p] = "begin"
    /\ IF IsMine(cont, req[p].id, p)
       THEN DaemonStarts(p, req[p].id, "created")
       ELSE Fail(p) /\ UNCHANGED <<cont, vols>>
    /\ UNCHANGED <<foreign, runs, outside, authorised, owned>>

\* up ignores that DockerEnv.start found no container.
Start(p) ==
    /\ pc[p] = "start"
    /\ IF Exists(cont, req[p].id)
       THEN DaemonStarts(p, req[p].id, "started")
       ELSE Report(p, "started") /\ UNCHANGED <<cont, vols>>
    /\ UNCHANGED <<foreign, runs, outside, authorised, owned>>

\* Mutant: reset deletes the directory before it stops the container.
StopLast(p) ==
    /\ pc[p] = "stop"
    /\ cont' = IF req[p].kind = "reset" THEN cont ELSE Stopped(cont, req[p].id)
    /\ vols' = IF req[p].kind = "reset" THEN vols \ {DefaultVolume[req[p].id]} ELSE vols
    /\ Goto(p, "remove")
    /\ UNCHANGED <<foreign, runs, outside, authorised, owned>>

Stop(p) ==
    /\ pc[p] = "stop"
    /\ cont' = Stopped(cont, req[p].id)
    /\ Goto(p, "remove")
    /\ UNCHANGED <<vols, foreign, runs, outside, authorised, owned>>

\* Mutant: down removes the data directory with the container.
RemoveWithVolume(p) ==
    /\ pc[p] = "remove"
    /\ LET r == req[p]
       IN  /\ cont' = Removed(cont, r.id)
           /\ vols' = vols \ {DefaultVolume[r.id]}
           /\ IF r.kind = "reset"
              THEN Goto(p, "remove_volume")
              ELSE ReportBare(p, "removed")
    /\ UNCHANGED <<foreign, runs, outside, authorised, owned>>

\* Mutant: reset removes the directory only if there was a container.
RemoveThenVolumeIfFound(p) ==
    /\ pc[p] = "remove"
    /\ LET r == req[p]
       IN  IF r.kind = "down" /\ IsRunning(cont, r.id)
           THEN Fail(p) /\ UNCHANGED cont
           ELSE /\ cont' = Removed(cont, r.id)
                /\ IF r.kind = "reset" /\ Exists(cont, r.id)
                   THEN Goto(p, "remove_volume")
                   ELSE ReportBare(p, IF r.kind = "reset" THEN "reset" ELSE "removed")
    /\ UNCHANGED <<vols, foreign, runs, outside, authorised, owned>>

\* Only reset forces the removal of a container that runs (again).
Remove(p) ==
    /\ pc[p] = "remove"
    /\ LET r == req[p]
       IN  IF r.kind = "down" /\ IsRunning(cont, r.id)
           THEN Fail(p) /\ UNCHANGED cont
           ELSE /\ cont' = Removed(cont, r.id)
                /\ IF r.kind = "reset"
                   THEN Goto(p, "remove_volume")
                   ELSE ReportBare(p, "removed")
    /\ UNCHANGED <<vols, foreign, runs, outside, authorised, owned>>

\* DockerEnv.remove_volume refuses a path outside ~/.shimkit/data; reset
\* reports success all the same.
RemoveVolume(p) ==
    /\ pc[p] = "remove_volume"
    /\ \/ /\ vols' = vols \ ({DefaultVolume[req[p].id]} \cap Guarded)
          /\ owned' = [owned EXCEPT ![req[p].id] = @ \cap vols']
          /\ ReportBare(p, "reset")
       \/ \* rmtree raises, and leaves the directory with part of what it held
          /\ DefaultVolume[req[p].id] \in vols \cap Guarded
          /\ Fail(p)
          /\ UNCHANGED <<vols, owned>>
    /\ UNCHANGED <<cont, foreign, runs, outside, authorised>>

Kill(p) ==
    /\ ~Idle(p)
    /\ EndQuietly(p)
    /\ UNCHANGED <<cont, vols, foreign, runs, outside, authorised, owned>>

Outside ==
    /\ outside < MaxOutside
    /\ outside' = outside + 1
    /\ said' = {}
    /\ UNCHANGED <<run, runs, authorised, owned>>

OtherProgramTakes(t) ==
    /\ t \notin PortsOf(cont) \cup foreign
    /\ foreign' = foreign \cup {t}
    /\ Outside
    /\ UNCHANGED <<cont, vols>>

OtherProgramReleases(t) ==
    /\ t \in foreign
    /\ foreign' = foreign \ {t}
    /\ Outside
    /\ UNCHANGED <<cont, vols>>

StopsBehind(i) ==
    /\ IsRunning(cont, i)
    /\ cont' = Stopped(cont, i)
    /\ Outside
    /\ UNCHANGED <<vols, foreign>>

StartsBehind(i) ==
    /\ Exists(cont, i)
    /\ ~IsRunning(cont, i)
    /\ MayStart(cont, i, foreign)
    /\ cont' = Started(cont, i)
    /\ vols' = vols \cup ({cont[i].vol} \ {None})
    /\ Outside
    /\ UNCHANGED foreign

Step(p) ==
    \/ Find(p) \/ MkDir(p) \/ Create(p) \/ Begin(p) \/ Start(p)
    \/ Stop(p) \/ Remove(p) \/ RemoveVolume(p) \/ Kill(p)

Environment ==
    \/ \E t \in Ports : OtherProgramTakes(t) \/ OtherProgramReleases(t)
    \/ \E i \in Ids : StopsBehind(i) \/ StartsBehind(i)

Next ==
    \/ \E p \in Procs : Invoke(p) \/ Step(p)
    \/ Environment

Spec == Init /\ [][Next]_vars

\* One run at a time.
SerialNext ==
    \/ \E p \in Procs : (\A q \in Procs : Idle(q)) /\ Invoke(p)
    \/ \E p \in Procs : Step(p)
    \/ Environment

SerialSpec == Init /\ [][SerialNext]_vars
-----------------------------------------------------------------------------
Message ==
    [action : {"created", "started", "already_running"}, id : Ids, port : Ports]
        \cup [action : {"removed", "reset"}, id : Ids]
        \cup [action : {"failed"}, id : Ids, kind : {"up", "down", "reset"}]

TypeOK ==
    /\ cont \in [Ids -> {None} \cup Container]
    /\ vols \subseteq Vols
    /\ foreign \subseteq Ports
    /\ pc \in [Procs -> Pcs]
    /\ req \in [Procs -> {NoRequest} \cup Request]
    /\ runs \in Nat
    /\ outside \in Nat
    /\ said \subseteq Message
    /\ authorised \subseteq Ids
    /\ owned \in [Ids -> SUBSET Vols]

\* Whatever up, down and reset do at once, and wherever they are killed, a data
\* directory once made goes away only in a reset that was confirmed for the
\* instance whose default directory it is, and only under ~/.shimkit/data.
VolumeLossAuthorised ==
    \A i \in Ids : \A v \in owned[i] \ vols :
        v \in Guarded /\ \E j \in authorised : v = DefaultVolume[j]

SaidUp(s) == s.action \in {"created", "started", "already_running"}

\* An `up' that reports an action has left its container running.
UpMeansRunning == \A s \in said : SaidUp(s) => IsRunning(cont, s.id)

\* What killed runs leave behind never blocks a later one: with no run
\* overlapping, an `up' fails only when the port of its container is held by
\* another, a `down' only when its container was started behind its back, and
\* a `reset' only when its directory would not go, after its container did.
FailuresExplained ==
    \A s \in said : s.action = "failed" =>
        CASE s.kind = "up"    -> Exists(cont, s.id) /\ ~MayStart(cont, s.id, foreign)
          [] s.kind = "down"  -> IsRunning(cont, s.id)
          [] s.kind = "reset" -> ~Exists(cont, s.id) /\ DefaultVolume[s.id] \in vols

\* A database never runs over a directory that is not there: no reset deletes
\* the data of an instance under a running container.
RunningHasVolume ==
    \A i \in Ids : IsRunning(cont, i) /\ cont[i].vol # None => cont[i].vol \in vols

\* After a reset that reports success, neither the container of the instance
\* nor any directory that ever held its data is there.
ResetLeavesNothing ==
    \A s \in said : s.action = "reset" => ~Exists(cont, s.id) /\ owned[s.id] = {}
=============================================================================
