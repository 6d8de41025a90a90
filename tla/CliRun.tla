-------------------------------- MODULE CliRun --------------------------------
(***************************************************************************)
(* One run of a shimkit command, as the modules that EXTEND this one see   *)
(* it: it is asked something, the prompt is answered, it takes its steps,  *)
(* and it ends with an exit code or is killed.  Meanwhile other programs   *)
(* and the user may act.  A behaviour uses one group of commands, since    *)
(* the groups share no state; runs of it follow one another.               *)
(***************************************************************************)
EXTENDS Naturals, FiniteSets, Sequences

CONSTANTS
    None,          \* no value
    MaxRuns,       \* bound on the number of invocations
    MaxOutside     \* bound on what happens outside of shimkit

VARIABLES
    group,     \* the group of commands
    at,        \* where the run is
    req,       \* what it was asked
    mem,       \* what it has found out
    said,      \* what the last step reported, if it ended a run: {message}
    runs,      \* invocations so far
    outside,   \* things that happened outside of shimkit so far
    calm       \* history: nothing of the kind since this run began

proc == <<group, at, req, mem, said, runs, outside, calm>>

Nothing == <<>>

Idle == at = "idle"

CliInit ==
    /\ at = "idle"
    /\ req = Nothing
    /\ mem = Nothing
    /\ said = {}
    /\ runs = 0
    /\ outside = 0
    /\ calm = FALSE

\* A command of group g starts.
Starts(g, r, first) ==
    /\ group = g
    /\ Idle
    /\ runs < MaxRuns
    /\ runs' = runs + 1
    /\ said' = {}
    /\ at' = first
    /\ req' = r
    /\ calm' = TRUE
    /\ UNCHANGED <<group, mem, outside>>

\* What changes something asks first, unless it is a dry run.
Refused(g, r) ==
    /\ group = g
    /\ Idle
    /\ runs < MaxRuns
    /\ ~r.dry
    /\ runs' = runs + 1
    /\ said' = {}
    /\ UNCHANGED <<group, at, req, mem, outside, calm>>

Ask(g, r, first) == Starts(g, r, first) \/ Refused(g, r)

Remember(l, m) ==
    /\ at' = l
    /\ mem' = m
    /\ said' = {}
    /\ UNCHANGED <<group, req, runs, outside, calm>>

Goto(l) == Remember(l, mem)

Ends(s) ==
    /\ at' = "idle"
    /\ req' = Nothing
    /\ mem' = Nothing
    /\ said' = s
    /\ calm' = FALSE
    /\ UNCHANGED <<group, runs, outside>>

\* The exit code; the message also says what the run had found out.
Exit(code) == Ends({[req |-> req, exit |-> code, calm |-> calm, mem |-> mem]})

Killed == ~Idle /\ Ends({})

Outside ==
    /\ outside < MaxOutside
    /\ outside' = outside + 1
    /\ calm' = FALSE
    /\ said' = {}
    /\ UNCHANGED <<group, at, req, mem, runs>>

\* Time passes.
Elapses == said' = {} /\ UNCHANGED <<group, at, req, mem, runs, outside, calm>>

\* Runs of command c that were no dry run, ended with exit code e, and were
\* undisturbed.
Ended(c, e) ==
    {s \in said : s.req.cmd = c /\ ~s.req.dry /\ s.exit = e /\ s.calm}
==============================================================================
