------------------------------ MODULE MCServices ------------------------------
(***************************************************************************)
(* The commands for what runs on the host: adguard, docker-clean and       *)
(* ports.  A behaviour is of one group of them, and the variables of the   *)
(* others stay put.                                                        *)
(***************************************************************************)
EXTENDS AdGuard, DockerClean, PortsKill

ServicesVars == <<proc, adguard, docker, ports>>

ServicesInit ==
    /\ CliInit
    /\ group \in {"adguard", "docker", "ports"}
    /\ AghStart
    /\ CleanStart
    /\ PortsStart

ServicesNext ==
    \/ AghNext /\ UNCHANGED <<docker, ports>>
    \/ CleanNext /\ UNCHANGED <<adguard, ports>>
    \/ PortsNext /\ UNCHANGED <<adguard, docker>>

\* The steps of shimkit itself.
ServicesStep ==
    \/ AghStep /\ UNCHANGED <<docker, ports>>
    \/ CleanStep /\ UNCHANGED <<adguard, ports>>
    \/ PortsStep /\ UNCHANGED <<adguard, docker>>

\* A process that has a step to take is scheduled, and every call it makes is
\* assumed to return, although CommandRunner.run sets it no time-out; nothing is
\* assumed of the user, of other programs or of time.
ServicesSpec ==
    ServicesInit /\ [][ServicesNext]_ServicesVars /\ WF_ServicesVars(ServicesStep)
-----------------------------------------------------------------------------
\* Every variable of the three tools keeps its type; a restart polls no longer
\* than configured.
TypeOK == AghTypeOK /\ CleanTypeOK /\ PortsTypeOK
==============================================================================
