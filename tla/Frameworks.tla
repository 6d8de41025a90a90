------------------------------ MODULE Frameworks ------------------------------
(***************************************************************************)
(* `shimkit framework laravel | django | symfony' on one project: the      *)
(* modes and group of its files, its .env, the job of its scheduler and    *)
(* the calls passed through to its console (tools/framework/*/manager.py,  *)
(* commands.py).  The three managers are copies of one another but for     *)
(* names, and for the commands that only one of them has.  Of the project  *)
(* the model keeps the mode of the files and of the directories outside    *)
(* ("src") and inside of each writable directory.                          *)
(***************************************************************************)
EXTENDS CronEntries, SequencesExt

CONSTANTS
    WritableDirs,     \* the sequence tools.framework.*.writable_dirs
    MaxSecrets        \* bound on the number of secrets generated

ASSUME FrameworkBoundsAssumption == MaxSecrets \in Nat

\* "src" is what the model calls the files outside of them.
ASSUME WritableDirsAssumption == WritableDirs \in Seq(STRING \ {"src"})

VARIABLES
    kind,        \* the framework of the project
    hasGroup,    \* whether the web group exists on this host
    present,     \* the writable directories that exist
    fmode,       \* mode of the files of each part
    dmode,       \* mode of the directories of each part
    webgrp,      \* the parts whose group is the web group
    console,     \* whether artisan, manage.py or bin/console is there
    env,         \* .env, of symfony .env.local
    secrets      \* secrets generated so far

project == <<kind, hasGroup, present, fmode, dmode, webgrp, console, env, secrets>>

Writable == Range(WritableDirs)
Part == {"src"} \cup Writable

\* Nothing, an empty file, one of the user's, or one with the n-th secret.
NoEnv == <<"none", 0>>
EmptyEnv == <<"empty", 0>>
UserEnv == <<"user", 0>>
SecretEnv(n) == <<"secret", n>>
IsKept(e) == e[1] \in {"user", "secret"}

FrameworkStart ==
    LET Here(S, d) == IF group = "framework" THEN S ELSE {d} IN
    /\ kind \in Here({"laravel", "django", "symfony"}, "laravel")
    /\ hasGroup \in Here(BOOLEAN, FALSE)
    /\ present \in Here(SUBSET Writable, {})
    /\ fmode = [p \in Part |-> "raw"]
    /\ dmode = [p \in Part |-> "raw"]
    /\ webgrp = {}
    /\ console \in Here(BOOLEAN, FALSE)
    /\ env = NoEnv
    /\ secrets = 0
-----------------------------------------------------------------------------
AskChange(cmds, first) ==
    /\ \E c \in cmds, d \in BOOLEAN : Ask("framework", [cmd |-> c, dry |-> d], first)
    /\ UNCHANGED <<project, entries>>

\* Calls passed through do not ask.
PassThrough ==
    /\ Starts("framework", [cmd |-> "console", dry |-> FALSE], "console")
    /\ UNCHANGED <<project, entries>>

AskAny ==
    \/ AskChange({"perms"}, "plan")
    \/ AskChange({"env"}, "check_env")
    \/ PassThrough

AskLaravel == kind = "laravel" /\ (AskAny \/ AskChange({"cron_install"}, "add_entry"))
AskDjango == kind = "django" /\ AskAny
AskSymfony == kind = "symfony" /\ AskAny
-----------------------------------------------------------------------------
(***************************************************************************)
(* perms.                                                                  *)
(***************************************************************************)
\* Mutant: the writable directories come first.
WritableFirst(shared) == shared \o << <<"files", "all">>, <<"dirs", "all">> >>

TreeFirst(shared) == << <<"files", "all">>, <<"dirs", "all">> >> \o shared

PermsPlan ==
    LET Shared(w) == (IF hasGroup THEN << <<"chgrp", w>> >> ELSE <<>>) \o << <<"ug+rwx", w>> >>
    IN  TreeFirst(FlattenSeq([i \in DOMAIN WritableDirs |->
            IF WritableDirs[i] \in present THEN Shared(WritableDirs[i]) ELSE <<>>]))

Plan ==
    /\ at = "plan"
    /\ IF req.dry THEN Exit("ok")
       ELSE Remember("perms", [todo |-> PermsPlan, failed |-> FALSE])
    /\ UNCHANGED <<project, entries>>

\* One command of the plan, which is run whether or not those before succeeded.
Applies(c) ==
    /\ fmode' = [p \in Part |->
            IF c[1] = "files" THEN "664" ELSE IF c = <<"ug+rwx", p>> THEN "ug+rwx" ELSE fmode[p]]
    /\ dmode' = IF c[1] = "dirs" THEN [p \in Part |-> "775"] ELSE dmode
    /\ webgrp' = IF c[1] = "chgrp" THEN webgrp \cup {c[2]} ELSE webgrp

RunPlan ==
    /\ at = "perms"
    /\ IF mem.todo = <<>>
       THEN Exit(IF mem.failed THEN "fail" ELSE "ok") /\ UNCHANGED <<fmode, dmode, webgrp>>
       ELSE \/ Applies(Head(mem.todo)) /\ Remember("perms", [mem EXCEPT !.todo = Tail(@)])
            \/ Remember("perms", [todo |-> Tail(mem.todo), failed |-> TRUE])
               /\ UNCHANGED <<fmode, dmode, webgrp>>
    /\ UNCHANGED <<kind, hasGroup, present, console, env, secrets, entries>>
-----------------------------------------------------------------------------
(***************************************************************************)
(* env.                                                                    *)
(***************************************************************************)
\* Mutant: an empty file, and any other, is written over.
NeverThere == FALSE

EnvThere == env # NoEnv

CheckEnv ==
    /\ at = "check_env"
    /\ IF EnvThere THEN Exit("fail") ELSE IF req.dry THEN Exit("ok") ELSE Goto("open_env")
    /\ UNCHANGED <<project, entries>>

\* write_text creates the file, or empties what is there by now.
OpenEnv ==
    /\ at = "open_env"
    /\ \/ env' = EmptyEnv /\ Goto("write_env")
       \/ Exit("fail") /\ UNCHANGED env
    /\ UNCHANGED <<kind, hasGroup, present, fmode, dmode, webgrp, console, secrets, entries>>

WriteEnv ==
    /\ at = "write_env"
    /\ \/ /\ secrets < MaxSecrets
          /\ secrets' = secrets + 1
          /\ env' = SecretEnv(secrets + 1)
          /\ Exit("ok")
       \/ Exit("fail") /\ UNCHANGED <<env, secrets>>
    /\ UNCHANGED <<kind, hasGroup, present, fmode, dmode, webgrp, console, entries>>
-----------------------------------------------------------------------------
(***************************************************************************)
(* cron-install, and the console.                                          *)
(***************************************************************************)
AddSchedule ==
    /\ at = "add_entry"
    /\ IF console
       THEN AddEntry([name |-> "laravel-project", job |-> "schedule:run"], TRUE)
       ELSE Exit("fail") /\ UNCHANGED entries
    /\ UNCHANGED project

\* On the host it takes the interpreter and the console; in a container that
\* of the stack.  What it does is the framework's.
RunConsole ==
    /\ at = "console"
    /\ \/ Exit("unavailable")
       \/ Exit("fail")
       \/ console /\ Exit("ok")
    /\ UNCHANGED <<project, entries>>

ProjectSteps == Plan \/ RunPlan \/ CheckEnv \/ OpenEnv \/ WriteEnv

LaravelSteps == kind = "laravel" /\ (ProjectSteps \/ AddSchedule)
DjangoSteps == kind = "django" /\ ProjectSteps
SymfonySteps == kind = "symfony" /\ ProjectSteps

LaravelConsole == kind = "laravel" /\ RunConsole
DjangoConsole == kind = "django" /\ RunConsole
SymfonyConsole == kind = "symfony" /\ RunConsole

FrameworkKill == group = "framework" /\ Killed /\ UNCHANGED <<project, entries>>

\* The application writes files of its own or makes a writable directory; the
\* user writes or deletes .env, unpacks or deletes the console.
Disturbs ==
    /\ group = "framework"
    /\ Outside
    /\ \/ /\ \E w \in Writable :
              /\ present' = present \cup {w}
              /\ fmode' = [fmode EXCEPT ![w] = "raw"]
              /\ dmode' = IF w \in present THEN dmode ELSE [dmode EXCEPT ![w] = "raw"]
          /\ UNCHANGED <<console, env>>
       \/ env' \in {NoEnv, UserEnv} /\ UNCHANGED <<console, present, fmode, dmode>>
       \/ console' = ~console /\ UNCHANGED <<env, present, fmode, dmode>>
    /\ UNCHANGED <<kind, hasGroup, webgrp, secrets, entries>>

FrameworkStep ==
    \/ LaravelSteps \/ DjangoSteps \/ SymfonySteps
    \/ LaravelConsole \/ DjangoConsole \/ SymfonyConsole

FrameworkNext ==
    \/ AskLaravel \/ AskDjango \/ AskSymfony
    \/ FrameworkStep
    \/ FrameworkKill \/ Disturbs

FrameworkInit == CliInit /\ group = "framework" /\ EntriesInit /\ FrameworkStart

FrameworkVars == <<proc, project, entries>>

FrameworkSpec == FrameworkInit /\ [][FrameworkNext]_FrameworkVars
-----------------------------------------------------------------------------
FrameworkTypeOK ==
    /\ kind \in {"laravel", "django", "symfony"}
    /\ present \subseteq Writable
    /\ fmode \in [Part -> {"raw", "664", "ug+rwx"}]
    /\ dmode \in [Part -> {"raw", "775"}]
    /\ webgrp \subseteq Writable
    /\ env \in {NoEnv, EmptyEnv, UserEnv} \cup {SecretEnv(n) : n \in 1..MaxSecrets}
    /\ secrets \in 0..MaxSecrets

\* An undisturbed perms that reports success leaves every file and directory
\* with the mode configured, and the writable ones writable for the web group,
\* where there is one: no command of the plan undid one before it.
PermsHold ==
    \A s \in Ended("perms", "ok") :
        /\ \A p \in Part \ (Writable \ present) : dmode[p] = "775"
        /\ fmode["src"] = "664"
        /\ \A w \in present : fmode[w] = "ug+rwx" /\ (hasGroup => w \in webgrp)

\* "Refuses to overwrite an existing .env" (docs/tools/framework-laravel.md):
\* whatever runs follow one another, are killed or fail, a file of the user's
\* or with a secret in it is lost to nobody but the user, or who made it while
\* a run was between its look and its write.
EnvKept ==
    [][group = "framework" /\ IsKept(env) /\ env' # env => outside' # outside \/ ~calm]_<<group, env, outside, calm>>
==============================================================================
