------------------------------ MODULE DnsFixer ------------------------------
(***************************************************************************)
(* `shimkit dns fix | rollback | set | reset' (tools/dns/manager.py,       *)
(* fixer.py): the six-step escalation that tries to make a Mac resolve     *)
(* names again, one command at a time.  Every command may fail, most       *)
(* failures only end their step, and the run may be killed anywhere.  The  *)
(* last step deletes the system's network plists; rollback copies them     *)
(* back from the newest backup directory.                                  *)
(*                                                                         *)
(* One run at a time: the steps sleep for seconds and own the interface.   *)
(***************************************************************************)
EXTENDS Naturals, Sequences

CONSTANTS
    NPlists,        \* how many plists the nuclear step regenerates
    None,           \* no value
    MaxRuns,        \* bound on the number of invocations
    MaxOutside      \* bound on reboots and repairs by the user

ASSUME NPlistsAssumption == NPlists \in Nat \ {0}

ASSUME NoneAssumption == None \notin {"own", "fresh", "short"}

VARIABLES
    live,     \* the plists: the user's own, regenerated ones, cut short, or gone
    baks,     \* the backup directories, oldest first
    servers,  \* the DNS servers of the active service
    up,       \* whether its interface is up
    wifi,     \* whether it is Wi-Fi
    pc,       \* where the run is
    req,      \* what it was asked
    at,       \* the plist it works on
    runs,     \* invocations so far
    outside,  \* reboots and repairs so far
    clean,    \* history: no command of this run has failed
    before,   \* history: the servers when this run began
    botched,  \* history: plists of which a copy into a backup directory failed
    taken,    \* history: the plists before the newest nuclear step, unless a
              \* command of it failed or it was killed
    said      \* what the last step reported, if it reported anything: {r}

network == <<servers, up, wifi>>
history == <<clean, before, botched, taken>>
vars == <<live, baks, network, pc, req, at, runs, outside, history, said>>

Plists == 1..NPlists

Content == {"own", "fresh", "short", None}

Tables == [Plists -> Content]

Servers == {"own", "profile", "cloudflare", "dhcp"}

\* start_at and stop_at, and whether the nuclear step has leave: --confirm has
\* the token and there is no --skip-nuclear.
FixRequest ==
    {r \in [kind : {"fix"}, start : 1..6, stop : 1..6, leave : BOOLEAN] : r.start <= r.stop}

Request == FixRequest \cup [kind : {"set", "reset", "rollback"}]

NoRequest == [kind |-> "none"]

Steps == <<"flush", "rebuild", "uniform", "cycle", "vpn", "nuclear">>

Pcs == {"idle", "flush", "rebuild", "rebuild_clear", "rebuild_set", "uniform", "cycle",
        "cycle_route", "cycle_up", "cycle_on", "vpn", "nuclear", "copy", "remove", "bounce",
        "bounce_up", "set", "reset", "restore"}

Init ==
    /\ live = [i \in Plists |-> "own"]
    /\ baks = <<>>
    /\ servers \in {"own", "dhcp"}
    /\ up = TRUE
    /\ wifi \in BOOLEAN
    /\ pc = "idle"
    /\ req = NoRequest
    /\ at = 1
    /\ runs = 0
    /\ outside = 0
    /\ clean = TRUE
    /\ before = servers
    /\ botched = {}
    /\ taken = {}
    /\ said = {}
-----------------------------------------------------------------------------
Goto(l) ==
    /\ pc' = l
    /\ said' = {}
    /\ UNCHANGED req

\* The run ends and its last words are r.
EndSaying(r) ==
    /\ pc' = "idle"
    /\ req' = NoRequest
    /\ said' = r

End(result) == EndSaying({[kind |-> req.kind, result |-> result]})

\* The command of this step succeeded; whatever it changes follows.
Succeeds == clean' = clean

Fails == clean' = FALSE

\* Step n of the escalation did not resolve: on to the next one within
\* --stop-at, where the nuclear step also needs leave.
Escalate(n) ==
    IF n = req.stop \/ (n = 5 /\ ~req.leave)
    THEN End("failed")
    ELSE Goto(Steps[n + 1])

\* The resolution test that ends step n, once its commands are through.
\* Nothing resolves while the interface is down.
Test(n) ==
    \/ up' /\ End("resolved")
    \/ Escalate(n)

\* A command line.  fix needs an active service, and stops when names resolve
\* or when it would start with a nuclear step it has no leave for.  set was
\* agreed to and reset has its token, or nothing happens.
Invoke ==
    /\ pc = "idle"
    /\ runs < MaxRuns
    /\ runs' = runs + 1
    /\ \E r \in Request :
        /\ r.kind = "fix" => up /\ (r.start = 6 => r.leave)
        /\ r.kind = "rollback" => baks # <<>>
        /\ req' = r
        /\ pc' = CASE r.kind = "fix" -> Steps[r.start]
                   [] r.kind = "rollback" -> "restore"
                   [] OTHER -> r.kind
    /\ at' = 1
    /\ clean' = TRUE
    /\ before' = servers
    /\ said' = {}
    /\ UNCHANGED <<live, baks, network, outside, botched, taken>>

At(l) ==
    pc = l /\ UNCHANGED <<wifi, at, runs, outside, before, botched, taken, live, baks>>

Flush ==
    /\ At("flush")
    /\ UNCHANGED <<servers, up>>
    /\ \/ Succeeds /\ Test(1)
       \/ Fails /\ Escalate(1)

\* networksetup sets the servers to s, or fails and step n ends.
SetServers(s, n, andThen) ==
    /\ UNCHANGED up
    /\ \/ servers' = s /\ Succeeds /\ andThen
       \/ UNCHANGED servers /\ Fails /\ Escalate(n)

\* Step 2 sets the servers of the profile, clears them, and sets them again.
Rebuild == At("rebuild") /\ SetServers("profile", 2, Goto("rebuild_clear"))

RebuildClear ==
    At("rebuild_clear") /\ SetServers("dhcp", 2, Goto("rebuild_set"))

\* Mutant: the servers are cleared but not set again.
RebuildNoSet == At("rebuild_set") /\ UNCHANGED <<servers, up>> /\ Succeeds /\ Test(2)

RebuildSet == At("rebuild_set") /\ SetServers("profile", 2, Test(2))

Uniform == At("uniform") /\ SetServers("cloudflare", 3, Test(3))

\* Step 4 takes the interface down: Wi-Fi by its power, which is turned on
\* again whether or not turning it off worked.
Cycle ==
    /\ At("cycle")
    /\ \/ up' = FALSE /\ Succeeds /\ Goto(IF wifi THEN "cycle_up" ELSE "cycle_route")
       \/ UNCHANGED up /\ Fails /\ (IF wifi THEN Goto("cycle_on") ELSE Escalate(4))
    /\ UNCHANGED servers

\* `route -n flush', between ifconfig down and ifconfig up.
CycleRoute ==
    /\ At("cycle_route")
    /\ \/ Succeeds /\ Goto("cycle_up")
       \/ Fails /\ Escalate(4)
    /\ UNCHANGED <<servers, up>>

\* Mutant: the interface is not brought up again.
CycleNoUp == At("cycle_up") /\ UNCHANGED <<servers, up>> /\ Succeeds /\ Escalate(4)

CycleUp ==
    /\ At("cycle_up")
    /\ \/ up' = TRUE /\ Succeeds /\ Test(4)
       \/ UNCHANGED up /\ Fails /\ Escalate(4)
    /\ UNCHANGED servers

\* Wi-Fi that could not be turned off is turned on all the same.
CycleOn ==
    /\ At("cycle_on")
    /\ \/ up' = TRUE /\ Succeeds
       \/ UNCHANGED up /\ Fails
    /\ Escalate(4)
    /\ UNCHANGED servers

\* Step 5 changes nothing; it fails when it finds a VPN or a virtual machine.
Vpn ==
    /\ At("vpn")
    /\ UNCHANGED <<servers, up, clean>>
    /\ Test(5)

\* Step 6 first makes a backup directory.  Without an active service, or with a
\* directory that is refused, it does nothing.
Nuclear ==
    /\ pc = "nuclear"
    /\ \/ /\ up
          /\ baks' = Append(baks, [i \in Plists |-> None])
          /\ taken' = {live}
          /\ at' = 1
          /\ Goto("copy")
       \/ /\ End("failed")
          /\ UNCHANGED <<baks, taken, at>>
    /\ UNCHANGED <<live, network, runs, outside, clean, before, botched>>

\* Mutant: one plist too many.
NextPlistLate(l, done) ==
    IF at <= NPlists
    THEN at' = at + 1 /\ Goto(l)
    ELSE UNCHANGED at /\ Goto(done)

NextPlist(l, done) ==
    IF at < NPlists
    THEN at' = at + 1 /\ Goto(l)
    ELSE UNCHANGED at /\ Goto(done)

\* Mutant: the plist is deleted before it is copied.
CopyNothing ==
    /\ pc = "copy"
    /\ Goto("remove")
    /\ UNCHANGED <<live, baks, network, at, runs, outside, history>>

\* A copy that fails is cut short; its result is not looked at.
Copy ==
    /\ pc = "copy"
    /\ IF live[at] = None
       THEN NextPlist("copy", "bounce") /\ UNCHANGED <<baks, clean, botched, taken>>
       ELSE /\ \/ /\ baks' = [baks EXCEPT ![Len(baks)][at] = live[at]]
                  /\ Succeeds
                  /\ UNCHANGED <<botched, taken>>
               \/ /\ baks' = [baks EXCEPT ![Len(baks)][at] = "short"]
                  /\ Fails
                  /\ botched' = botched \cup {at}
                  /\ taken' = {}
            /\ Goto("remove")
            /\ UNCHANGED at
    /\ UNCHANGED <<live, network, runs, outside, before>>

Remove ==
    /\ pc = "remove"
    /\ \/ /\ live' = [live EXCEPT ![at] = None]
          /\ UNCHANGED <<clean, taken>>
       \/ UNCHANGED live /\ Fails /\ taken' = {}
    /\ NextPlist("copy", "bounce")
    /\ UNCHANGED <<baks, network, runs, outside, before, botched>>

\* Step 6 takes the interface down and up, whether or not that works.
Bounce ==
    /\ At("bounce")
    /\ \/ up' = FALSE /\ Succeeds
       \/ UNCHANGED up /\ Fails
    /\ Goto("bounce_up")
    /\ UNCHANGED servers

BounceUp ==
    /\ At("bounce_up")
    /\ \/ up' = TRUE /\ Succeeds /\ Test(6)
       \/ UNCHANGED up /\ Fails /\ Test(6)
    /\ UNCHANGED servers

Set ==
    /\ At("set")
    /\ \/ servers' = "own" /\ Succeeds /\ End("done")
       \/ UNCHANGED servers /\ Fails /\ End("failed")
    /\ UNCHANGED up

Reset ==
    /\ At("reset")
    /\ \/ servers' = "dhcp" /\ Succeeds /\ End("done")
       \/ UNCHANGED servers /\ Fails /\ End("failed")
    /\ UNCHANGED up

\* Mutant: rollback takes the oldest backup directory.
Oldest == baks[1]

Newest == baks[Len(baks)]

\* rollback copies back what the newest directory has; a copy that fails is
\* cut short, and the others go on.
Restore ==
    /\ pc = "restore"
    /\ \/ /\ Newest[at] # None
          /\ live' = [live EXCEPT ![at] = "short"]
          /\ Fails
       \/ /\ live' = IF Newest[at] = None THEN live ELSE [live EXCEPT ![at] = Newest[at]]
          /\ Succeeds
    /\ IF at < NPlists
       THEN at' = at + 1 /\ Goto("restore")
       ELSE UNCHANGED at /\ End(IF clean' THEN "restored" ELSE "failed")
    /\ UNCHANGED <<baks, network, runs, outside, before, botched, taken>>

\* A kill between the two halves of a step leaves what was done so far.
Kill ==
    /\ pc # "idle"
    /\ EndSaying({})
    /\ taken' = IF pc \in {"copy", "remove"} THEN {} ELSE taken
    /\ UNCHANGED <<live, baks, network, at, runs, outside, clean, before, botched>>

\* The user brings the interface up, or reboots, which also makes new plists.
Repair ==
    /\ pc = "idle"
    /\ outside < MaxOutside
    /\ outside' = outside + 1
    /\ up' = TRUE
    /\ live' \in {live, [i \in Plists |-> IF live[i] = None THEN "fresh" ELSE live[i]]}
    /\ said' = {}
    /\ UNCHANGED <<baks, servers, wifi, pc, req, at, runs, history>>

Next ==
    \/ Invoke \/ Flush \/ Rebuild \/ RebuildClear \/ RebuildSet \/ Uniform
    \/ Cycle \/ CycleRoute \/ CycleUp \/ CycleOn \/ Vpn
    \/ Nuclear \/ Copy \/ Remove \/ Bounce \/ BounceUp
    \/ Set \/ Reset \/ Restore \/ Kill \/ Repair

Spec == Init /\ [][Next]_vars
-----------------------------------------------------------------------------
TypeOK ==
    /\ live \in Tables
    /\ baks \in Seq(Tables)
    /\ servers \in Servers
    /\ up \in BOOLEAN
    /\ wifi \in BOOLEAN
    /\ pc \in Pcs
    /\ req \in {NoRequest} \cup Request
    /\ at \in Plists
    /\ runs \in Nat
    /\ outside \in Nat
    /\ clean \in BOOLEAN
    /\ before \in Servers
    /\ botched \subseteq Plists
    /\ taken \subseteq Tables
    /\ said \subseteq [kind : {"fix", "set", "reset", "rollback"},
                       result : {"resolved", "done", "restored", "failed"}]

InSomeBackup(i) == \E d \in 1..Len(baks) : baks[d][i] = "own"

\* "plist backups go to a config-driven backup dir ..., and a rollback is
\* offered" (tools/dns/fixer.py:9): the user's own plists are in place or whole
\* in some backup directory.
NothingLost ==
    \A i \in Plists : live[i] = "own" \/ InSomeBackup(i)

\* However many nuclear steps, reboots, kills and failed rollbacks there were,
\* the user loses no plist whose copies all succeeded.
CopiedNotLost ==
    \A i \in Plists \ botched : live[i] = "own" \/ InSomeBackup(i)

\* A rollback that reports success undoes the newest nuclear step: every plist
\* that was there before it is there again.
RollbackUndoesNuclear ==
    \A s \in said : s.result = "restored" =>
        \A t \in taken : \A i \in Plists : t[i] # None => live[i] = t[i]

\* A fix none of whose commands failed leaves the network as it was or better:
\* the interface up, and the servers it found or those of a profile.
CleanFixHarmless ==
    \A s \in said : s.kind = "fix" /\ clean =>
        up /\ servers \in {before, "profile", "cloudflare"}
=============================================================================
