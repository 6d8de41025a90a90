------------------------------ MODULE DockerClean ------------------------------
(***************************************************************************)
(* `shimkit docker-clean': stopping, removing and pruning what docker has, *)
(* and restarting the daemon (tools/docker_clean/manager.py, pruner.py,    *)
(* client.py, desktop.py, schedule.py, commands.py).  Each container has   *)
(* an image, an anonymous volume (a daemon of today leaves named ones      *)
(* alone) and a network of its own, and each builder a cache.              *)
(* The daemon protects what a container uses from a prune, may fail any    *)
(* call, and may go away; meanwhile the user starts containers.            *)
(***************************************************************************)
EXTENDS CliRun

CONSTANTS
    Containers,
    Builders,       \* builders of buildx
    VerifyTimeout   \* tools.docker_clean.daemon_verify_timeout_seconds

ASSUME VerifyAssumption == VerifyTimeout \in Nat

ASSUME ContainersAssumption == IsFiniteSet(Containers)

ASSUME CleanNoneAssumption == None \notin {"running", "exited", "tagged", "dangling"}

VARIABLES
    ctr,       \* each container: "running", "exited" or None
    image,     \* its image: "tagged", "dangling" or None
    volume,    \* containers whose volume exists
    net,       \* containers whose network exists
    cache,     \* builders that have a cache
    daemon,    \* "up", "starting", "stopping" or "down"
    snippet    \* whether the snippet of schedule was written, and installed

docker == <<ctr, image, volume, net, cache, daemon, snippet>>

CleanStart ==
    /\ ctr \in IF group = "docker" THEN [Containers -> {"running", "exited", None}]
               ELSE {[c \in Containers |-> None]}
    /\ \E i \in IF group = "docker" THEN {"tagged", "dangling"} ELSE {None} :
        image = [c \in Containers |-> i]
    /\ volume = IF group = "docker" THEN Containers ELSE {}
    /\ net = volume
    /\ cache = IF group = "docker" THEN Builders ELSE {}
    /\ daemon = "up"
    /\ snippet = FALSE

Running == {c \in Containers : ctr[c] = "running"}
Existing == {c \in Containers : ctr[c] # None}

\* A daemon that is about to stop still answers.
Answers == daemon \in {"up", "stopping"}
-----------------------------------------------------------------------------
(***************************************************************************)
(* What is asked.  quick, nuke and stop-all ask nothing of the user.       *)
(***************************************************************************)
Clearing == <<"stop", "remove">>
Pruning == <<"images", "volumes", "networks">>

\* Mutant: the images are pruned while the containers still use them.
PruneFirst == Pruning \o Clearing

QuickSteps == Clearing \o Pruning

\* The steps of each command, in order.
Steps(c) ==
    CASE c = "stop_all" -> <<"stop">>
      [] c = "quick" -> QuickSteps
      [] c = "nuke" -> QuickSteps \o <<"builders">>
      [] c = "prune_images" -> <<"images">>
      [] c = "prune_volumes" -> <<"volumes">>
      [] c = "prune_networks" -> <<"networks">>
      [] c = "prune_builders" -> <<"builders">>
      [] c = "orphans" -> <<"dangling", "volumes">>

Job(c, d) == [cmd |-> c, dry |-> d]

AskAtOnce ==
    /\ \E c \in {"stop_all", "quick", "nuke"}, d \in BOOLEAN :
        /\ c = "nuke" => ~d
        /\ Starts("docker", Job(c, d), "boot")
    /\ UNCHANGED docker

\* _prune_with_prompt.
AskPruning ==
    /\ \E c \in {"prune_images", "prune_volumes", "prune_networks", "prune_builders", "orphans"},
          d \in BOOLEAN :
        Ask("docker", Job(c, d), "boot")
    /\ UNCHANGED docker

AskComposeDown ==
    /\ \E v \in BOOLEAN :
        Starts("docker", [cmd |-> "compose_down", dry |-> FALSE, volumes |-> v], "boot")
    /\ UNCHANGED docker

\* On Linux, on macOS with the CLI of Docker Desktop, or without it.
AskRestart ==
    /\ \E place \in {"linux", "desktop", "mac"} :
        Starts("docker", [cmd |-> "restart", dry |-> FALSE, place |-> place], "boot")
    /\ UNCHANGED docker

AskSchedule ==
    /\ Starts("docker", Job("schedule", FALSE), "boot")
    /\ UNCHANGED docker

\* The user has installed the snippet, which runs `quick --yes'.
ScheduleFires ==
    /\ snippet
    /\ Starts("docker", [cmd |-> "quick", dry |-> FALSE, yes |-> TRUE], "parse")
    /\ UNCHANGED docker
-----------------------------------------------------------------------------
\* The options of quick, of which --yes is none.
Parse ==
    /\ at = "parse"
    /\ Exit("usage")
    /\ UNCHANGED docker

EmitSchedule ==
    /\ at = "schedule"
    /\ snippet' = TRUE
    /\ Exit("ok")
    /\ UNCHANGED <<ctr, image, volume, net, cache, daemon>>

\* What a run has found out: the steps left, the containers of the list being
\* worked on, the steps with an error, and those that only noted a failure.
Begun(steps) == [todo |-> steps, list |-> {}, errors |-> {}, noted |-> {}]

\* boot.  preflight asks the daemon for its version, so that one that does not
\* answer counts as docker missing, for the commands that need no daemon, too.
Boot ==
    /\ at = "boot"
    /\ IF ~Answers THEN Exit("unavailable")
       ELSE IF req.dry THEN Exit("ok")
       ELSE IF req.cmd \in {"compose_down", "restart", "schedule"} THEN Goto(req.cmd)
       ELSE Remember("step", Begun(Steps(req.cmd)))
    /\ UNCHANGED docker

\* A nuke without its token ends at once.
NoToken ==
    /\ at = "boot"
    /\ req.cmd = "nuke"
    /\ Exit("fail")
    /\ UNCHANGED docker

Step == Head(mem.todo)

\* Mutant: what a step reports replaces what the steps before it did.
LastErrors(e) == e

AllErrors(e) == mem.errors \cup e

\* orphans has no error of its own, whatever becomes of its two prunes, and
\* the builders only note a failure.
Errors(failed) ==
    IF failed /\ Step \in {"images", "volumes", "networks"} /\ req.cmd # "orphans"
    THEN {Step} ELSE {}

Stepped(failed) ==
    Remember("step", [mem EXCEPT !.todo = Tail(@),
                                 !.errors = AllErrors(Errors(failed)),
                                 !.noted = @ \cup (IF failed THEN {Step} ELSE {})])

\* stop_all_containers and remove_all_containers list the containers first; an
\* exception of the listing ends the run.
List ==
    /\ at = "step"
    /\ mem.todo # <<>>
    /\ Step \in {"stop", "remove"}
    /\ \/ Answers /\ Remember("each", [mem EXCEPT !.list = IF Step = "stop" THEN Running ELSE Existing])
       \/ Exit("exception")
    /\ UNCHANGED docker

\* One container of the list; a failure is noted and no error.
Each ==
    /\ at = "each"
    /\ \E c \in mem.list :
        \/ /\ Answers
           /\ ctr' = [ctr EXCEPT ![c] = IF Step = "remove" \/ @ = None THEN None ELSE "exited"]
           /\ Remember("each", [mem EXCEPT !.list = @ \ {c}])
        \/ /\ Remember("each", [mem EXCEPT !.list = @ \ {c}, !.noted = @ \cup {Step}])
           /\ UNCHANGED ctr
    /\ UNCHANGED <<image, volume, net, cache, daemon, snippet>>

EachDone ==
    /\ at = "each"
    /\ mem.list = {}
    /\ Stepped(FALSE)
    /\ UNCHANGED docker

\* What a prune of the daemon removes.  The networks are those of no container
\* that runs.
PrunedImages(kind) ==
    [c \in Containers |->
        IF ctr[c] = None /\ (kind = "images" \/ image[c] = "dangling") THEN None ELSE image[c]]

Prune ==
    /\ at = "step"
    /\ mem.todo # <<>>
    /\ Step \in {"images", "dangling", "volumes", "networks"}
    /\ \/ /\ Answers
          /\ image' = IF Step \in {"images", "dangling"} THEN PrunedImages(Step) ELSE image
          /\ volume' = IF Step = "volumes" THEN volume \cap Existing ELSE volume
          /\ net' = IF Step = "networks" THEN net \cap Running ELSE net
          /\ Stepped(FALSE)
       \/ Stepped(TRUE) /\ UNCHANGED <<image, volume, net>>
    /\ UNCHANGED <<ctr, cache, daemon, snippet>>

\* prune_buildx_builders: each of those listed may fail; when the list does, it
\* falls back to the cache of the daemon's own builder, the one chosen here.
PruneBuilders ==
    /\ at = "step"
    /\ mem.todo # <<>>
    /\ Step = "builders"
    /\ \/ Answers /\ cache' = {} /\ Stepped(FALSE)
       \/ \E left \in SUBSET cache \ {{}} : cache' = left /\ Stepped(TRUE)
       \/ cache = {} /\ Stepped(TRUE) /\ UNCHANGED cache
    /\ UNCHANGED <<ctr, image, volume, net, daemon, snippet>>

\* _emit_one and _emit_many.
EmitSteps ==
    /\ at = "step"
    /\ mem.todo = <<>>
    /\ Exit(IF mem.errors = {} THEN "ok" ELSE "fail")
    /\ UNCHANGED docker

\* docker compose down: the containers of the project, here some.
ComposeDown ==
    /\ at = "compose_down"
    /\ \/ \E project \in SUBSET Containers :
            /\ Answers
            /\ ctr' = [c \in Containers |-> IF c \in project THEN None ELSE ctr[c]]
            /\ net' = net \ project
            /\ volume' = IF req.volumes THEN volume \ project ELSE volume
            /\ Exit("ok")
       \/ Exit("fail") /\ UNCHANGED <<ctr, net, volume>>
    /\ UNCHANGED <<image, cache, daemon, snippet>>
-----------------------------------------------------------------------------
(***************************************************************************)
(* restart.                                                                *)
(***************************************************************************)
\* On Linux systemctl waits for the daemon.  The CLI of Desktop returns when it
\* has asked for the restart; the fall-back has the application quit, waits,
\* and opens it, which may find it still there.
Restart ==
    /\ at = "restart"
    /\ \/ req.place = "linux" /\ daemon' = "up" /\ Exit("ok")
       \/ req.place = "desktop" /\ daemon' = "starting" /\ Remember("poll", 0)
       \/ req.place = "mac" /\ daemon' \in {"starting", "stopping"} /\ Remember("poll", 0)
       \/ Exit(IF req.place = "linux" THEN "noperm" ELSE "fail") /\ UNCHANGED daemon
    /\ UNCHANGED <<ctr, image, volume, net, cache, snippet>>

\* Mutant: the loop does not count.
NoCount(n) == n

Counted(n) == n + 1

\* Mutant: one turn more than configured.
DeadlineLate == VerifyTimeout + 1

Deadline == VerifyTimeout

\* Mutant: the daemon is taken for back when the restart was asked for.
NotAsked == TRUE

Back == Answers

\* The deadline counts turns of this loop: a second's sleep and a ping, which may
\* itself take up to ten.
Poll ==
    /\ at = "poll"
    /\ IF mem = Deadline THEN Exit("fail")
       ELSE IF Back THEN Exit("ok")
       ELSE Remember("poll", Counted(mem))
    /\ UNCHANGED docker
-----------------------------------------------------------------------------
(***************************************************************************)
(* The daemon and its user.                                                *)
(***************************************************************************)
DaemonMoves ==
    /\ group = "docker"
    /\ daemon \in {"starting", "stopping"}
    /\ daemon' = IF daemon = "starting" THEN "up" ELSE "down"
    /\ Elapses
    /\ UNCHANGED <<ctr, image, volume, net, cache, snippet>>

DaemonDies ==
    /\ group = "docker"
    /\ daemon = "up"
    /\ Outside
    /\ daemon' = "down"
    /\ UNCHANGED <<ctr, image, volume, net, cache, snippet>>

\* A container is made, or started again; a restart policy may do it, too.
StartsContainer ==
    /\ group = "docker"
    /\ daemon = "up"
    /\ Outside
    /\ \E c \in Containers \ Running :
        /\ ctr' = [ctr EXCEPT ![c] = "running"]
        /\ image' = [image EXCEPT ![c] = IF @ = None THEN "tagged" ELSE @]
        /\ volume' = volume \cup {c}
        /\ net' = net \cup {c}
    /\ UNCHANGED <<cache, daemon, snippet>>

CleanStep ==
    \/ Parse \/ EmitSchedule \/ Boot \/ NoToken
    \/ List \/ Each \/ EachDone \/ Prune \/ PruneBuilders \/ EmitSteps
    \/ ComposeDown \/ Restart \/ Poll

CleanKill == group = "docker" /\ Killed /\ UNCHANGED docker

CleanNext ==
    \/ AskAtOnce \/ AskPruning \/ AskComposeDown \/ AskRestart \/ AskSchedule \/ ScheduleFires
    \/ CleanStep \/ CleanKill
    \/ DaemonMoves \/ DaemonDies \/ StartsContainer

CleanInit == CliInit /\ group = "docker" /\ CleanStart

CleanVars == <<proc, docker>>

CleanSpec == CleanInit /\ [][CleanNext]_CleanVars /\ WF_CleanVars(CleanStep)
-----------------------------------------------------------------------------
CleanTypeOK ==
    /\ ctr \in [Containers -> {"running", "exited", None}]
    /\ image \in [Containers -> {"tagged", "dangling", None}]
    /\ volume \subseteq Containers /\ net \subseteq Containers
    /\ cache \subseteq Builders
    /\ daemon \in {"up", "starting", "stopping", "down"}
    /\ at = "poll" => mem \in 0..VerifyTimeout

\* An undisturbed quick or nuke that reports success and noted no failure leaves
\* no container, and nothing that only containers use; nuke no cache, either.
CleanedOut ==
    \A s \in Ended("quick", "ok") \cup Ended("nuke", "ok") : s.mem.noted = {} =>
        /\ Existing = {} /\ volume = {} /\ net = {}
        /\ \A c \in Containers : image[c] = None
        /\ s.req.cmd = "nuke" => cache = {}

\* A prune of images, volumes or networks that fails, at whichever step of
\* whichever command but orphans, is not reported as a success.
PruneFailsAloud ==
    \A s \in said : (s.exit = "ok" /\ s.req.cmd \in {"quick", "nuke", "prune_images",
                                                   "prune_volumes", "prune_networks"} /\ ~s.req.dry)
        => s.mem.noted \cap {"images", "volumes", "networks"} = {}

\* A restart that reports that the daemon is back, on Linux or with the CLI of
\* Desktop, and was not disturbed, has a daemon that is up.
RestartedIsUp == \A s \in Ended("restart", "ok") : s.req.place # "mac" => daemon = "up"

\* Every run ends or waits for the user: no list, step or poll goes on for ever.
RunsEnd == (at # "idle") ~> (at \in {"idle", "prompt"})

\* What docker-clean reports can be believed: an undisturbed quick or nuke that
\* noted no failure left nothing of what it cleans; a prune of images, volumes or
\* networks that failed is not taken for a success, but for those of orphans
\* (nor does this say so of the builders); and after an undisturbed restart on
\* Linux or with the CLI of Desktop, a daemon reported back is up.
CleanReportsHold == CleanedOut /\ PruneFailsAloud /\ RestartedIsUp
==============================================================================
