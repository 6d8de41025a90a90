------------------------------ MODULE DockerEnv ------------------------------
(***************************************************************************)
(* The docker daemon as shimkit's wrapper of the SDK uses it               *)
(* (core/docker.py).  `c' is the daemon's table of containers, from the    *)
(* names shimkit would give them to records with at least the fields       *)
(* status, port and by; None where there is no container.  Starting or     *)
(* stopping a container that already is, is accepted and changes nothing.  *)
(*                                                                         *)
(* DockerEnv looks a container up by name and then acts on the object it   *)
(* found.  A container that goes away between the two makes the second     *)
(* call fail without an effect, which is what a run that is killed before  *)
(* the call also looks like, so both together are one step here.           *)
(***************************************************************************)
CONSTANT None       \* no value

Statuses == {"created", "running", "exited"}

Exists(c, n) == c[n] # None

IsRunning(c, n) == Exists(c, n) /\ c[n].status = "running"

\* The ports published by running containers: a container that is created or
\* has exited holds none.
PortsOf(c) == {c[n].port : n \in {m \in DOMAIN c : IsRunning(c, m)}} \ {None}

\* The first half of DockerEnv.run, and what docker start, stop and rm leave.
Created(c, n, container) == [c EXCEPT ![n] = container]

Started(c, n) == [c EXCEPT ![n].status = "running"]

Stopped(c, n) ==
    IF IsRunning(c, n) THEN [c EXCEPT ![n].status = "exited"] ELSE c

Removed(c, n) == [c EXCEPT ![n] = None]

\* DockerEnv.run creates the container and then starts that very object: it
\* must still be the one that run p made.
IsMine(c, n, p) == Exists(c, n) /\ c[n].by = p

\* A container cannot start while another one, or another program (`taken'),
\* holds its port.
MayStart(c, n, taken) ==
    IsRunning(c, n) \/ c[n].port \notin PortsOf(c) \cup taken
=============================================================================
