----------------------------- MODULE MCWorkstation -----------------------------
(***************************************************************************)
(* The commands for the files of one user and of one project: ssh, java,   *)
(* tls and framework, and the preflight of every command.  They share      *)
(* nothing but the crontab, so a behaviour is of one group of them, and    *)
(* the variables of the others stay put.                                   *)
(***************************************************************************)
EXTENDS SshKeys, JavaEnv, TlsCerts, Frameworks, Preflight

TwoWritable == <<"storage", "cache">>

\* One line of the user's quotes the marker of one version.
CONSTANTS QuotingLine, QuotedVersion

OneQuote == {<<QuotingLine, QuotedVersion>>}

WorkstationVars == <<proc, ssh, java, live, day, project, entries, settings>>

WorkstationInit ==
    /\ CliInit
    /\ group \in SshGroups \cup {"java", "tls", "framework", "preflight"}
    /\ SshStart
    /\ JavaStart
    /\ TlsStart
    /\ FrameworkStart
    /\ PreflightStart
    /\ EntriesInit

WorkstationNext ==
    \/ SshNext /\ UNCHANGED <<java, live, day, project, entries, settings>>
    \/ JavaNext /\ UNCHANGED <<ssh, live, day, project, entries, settings>>
    \/ TlsNext /\ UNCHANGED <<ssh, java, project, settings>>
    \/ FrameworkNext /\ UNCHANGED <<ssh, java, live, day, settings>>
    \/ PreflightNext /\ UNCHANGED <<ssh, java, live, day, project, entries>>

WorkstationSpec == WorkstationInit /\ [][WorkstationNext]_WorkstationVars
-----------------------------------------------------------------------------
\* Every variable of the tools keeps its type: among others, known_hosts is
\* never deleted, and an rc file has no lines but the user's and shimkit's.
TypeOK ==
    /\ SshTypeOK
    /\ JavaTypeOK
    /\ group = "tls" => TlsTypeOK
    /\ FrameworkTypeOK
    /\ PreflightTypeOK
==============================================================================
