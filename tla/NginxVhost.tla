----------------------------- MODULE NginxVhost -----------------------------
(***************************************************************************)
(* `shimkit web nginx vhost generate | apply | remove'                     *)
(* (tools/web/nginx/manager.py): vhosts that shimkit generated are         *)
(* installed in sites-available, linked from sites-enabled and loaded by   *)
(* nginx, or taken away again.  A marker in a vhost tells shimkit's own    *)
(* from an administrator's.  Runs may overlap, be killed anywhere, and     *)
(* share the directories with the administrator.                           *)
(*                                                                         *)
(* nginx keeps what it serves until a reload succeeds, and a reload        *)
(* succeeds only when every enabled vhost can be read and parsed.          *)
(***************************************************************************)
EXTENDS Naturals

CONSTANTS
    Procs,          \* runs of the command that may be alive at once
    Names,          \* names of vhosts
    Generated,      \* vhosts that `generate' renders, all with the marker
    Invalid,        \* those of them that nginx does not parse
    External,       \* an administrator's vhost, without the marker
    None,           \* no file
    Empty,          \* a vhost emptied by a write that has yet to be made
    MaxRuns,        \* bound on the number of invocations
    MaxOutside,     \* bound on what the administrator does
    AdminRaces      \* the administrator edits what a live run works on

ASSUME VhostAssumption ==
    /\ Invalid \subseteq Generated
    /\ External \notin Generated
    /\ None \notin Generated \cup {External}
    /\ Empty \notin Generated \cup {External, None}

VARIABLES
    source,      \* the file each name is applied from
    avail,       \* sites-available
    site,        \* sites-enabled: a link to sites-available, or something else
    served,      \* what nginx serves
    pc,          \* where each run is
    req,         \* what it was asked
    staged,      \* what an apply last read of its source
    rms,         \* how the rm calls of a remove went
    undisturbed, \* history: nothing else has happened since it was started
    harm,        \* history: what shimkit did that the marker is to prevent
    runs,        \* invocations so far
    outside,     \* what the administrator has done so far
    said         \* what the last step reported, if it reported anything: {r}

files == <<source, avail, site, served>>
run == <<pc, req, staged, rms, undisturbed>>
vars == <<files, run, harm, runs, outside, said>>

Body == Generated \cup {External}

File == Body \cup {None}

\* What may stand in sites-available.  nginx parses an empty vhost.
Vhost == File \cup {Empty}

Sites == {"none", "link", "external"}

Marked(b) == b \in Generated

Request == [kind : {"apply", "remove"}, name : Names]

NoRequest == [kind |-> "none"]

Pcs == {"idle", "check_source", "check_avail", "stage", "install", "write", "link",
        "rm_site", "rm_avail", "reload"}

Results == {"done", "nothing", "refused", "failed"}

Outcomes == {"ok", "failed"}

Harms == {"overwrote vhost", "removed vhost", "installed unmarked"}

Idle(p) == pc[p] = "idle"

Name(p) == req[p].name

Init ==
    /\ source \in [Names -> Generated \cup {None}]
    /\ avail \in [Names -> {External, None}]
    /\ site \in [Names -> {"none", "external"}]
    /\ served = [n \in Names |-> IF site[n] = "external" THEN External ELSE None]
    /\ pc = [p \in Procs |-> "idle"]
    /\ req = [p \in Procs |-> NoRequest]
    /\ staged = [p \in Procs |-> None]
    /\ rms = [p \in Procs |-> {}]
    /\ undisturbed = [p \in Procs |-> FALSE]
    /\ harm = {}
    /\ runs = 0
    /\ outside = 0
    /\ said = {}
-----------------------------------------------------------------------------
Disturb(p) ==
    undisturbed' = [q \in Procs |-> q = p /\ undisturbed[q]]

Goto(p, l) ==
    /\ pc' = [pc EXCEPT ![p] = l]
    /\ said' = {}
    /\ Disturb(p)
    /\ UNCHANGED <<req, runs, outside>>

\* The run ends and its last words are r.
EndSaying(p, r) ==
    /\ pc' = [pc EXCEPT ![p] = "idle"]
    /\ req' = [req EXCEPT ![p] = NoRequest]
    /\ staged' = [staged EXCEPT ![p] = None]
    /\ rms' = [rms EXCEPT ![p] = {}]
    /\ undisturbed' = [q \in Procs |-> FALSE]
    /\ said' = r
    /\ UNCHANGED <<runs, outside>>

\* ... where done is how the rm calls went.
Report(p, result, done) ==
    EndSaying(p, {[req |-> req[p], result |-> result, rm |-> done,
                   undisturbed |-> undisturbed[p]]})

End(p, result) == Report(p, result, rms[p])

\* A command line with its token.  --dry-run does nothing.
Invoke(p) ==
    /\ Idle(p)
    /\ runs < MaxRuns
    /\ runs' = runs + 1
    /\ \E r \in Request :
        /\ req' = [req EXCEPT ![p] = r]
        /\ pc' = [pc EXCEPT ![p] = IF r.kind = "apply" THEN "check_source" ELSE "check_avail"]
    /\ undisturbed' = [q \in Procs |-> q = p /\ \A o \in Procs : Idle(o)]
    /\ said' = {}
    /\ UNCHANGED <<files, staged, rms, harm, outside>>

\* Mutant: any vhost may be applied.
AnySource(b) == b # None

MayApply(b) == b # None /\ Marked(b)

CheckSource(p) ==
    /\ pc[p] = "check_source"
    /\ IF MayApply(source[Name(p)])
       THEN Goto(p, "check_avail") /\ UNCHANGED <<staged, rms>>
       ELSE End(p, "refused")
    /\ UNCHANGED <<files, harm>>

\* Mutant: what is there is not looked at.
AnyTarget(b) == b \in Vhost

\* Both commands refuse to touch a vhost without the marker.
MayReplace(b) == b = None \/ Marked(b)

CheckAvail(p) ==
    /\ pc[p] = "check_avail"
    /\ IF MayReplace(avail[Name(p)])
       THEN /\ Goto(p, IF req[p].kind = "apply" THEN "stage" ELSE "rm_site")
            /\ UNCHANGED <<staged, rms>>
       ELSE End(p, "refused")
    /\ UNCHANGED <<files, harm>>

\* The source is read again, into a temporary file.
Stage(p) ==
    /\ pc[p] = "stage"
    /\ IF source[Name(p)] = None
       THEN End(p, "failed")
       ELSE /\ staged' = [staged EXCEPT ![p] = source[Name(p)]]
            /\ Goto(p, "install")
            /\ UNCHANGED rms
    /\ UNCHANGED <<files, harm>>

\* The vhost of p becomes b.
Puts(p, b) ==
    /\ avail' = [avail EXCEPT ![Name(p)] = b]
    /\ harm' = harm
         \cup (IF avail[Name(p)] = External /\ b # External THEN {"overwrote vhost"} ELSE {})
         \cup (IF b = External THEN {"installed unmarked"} ELSE {})

\* `install', or else root's direct write, which reads the source once more and
\* empties the vhost first.
Install(p) ==
    /\ pc[p] = "install"
    /\ \/ /\ Puts(p, staged[p])
          /\ Goto(p, "link")
          /\ UNCHANGED <<staged, rms>>
       \/ /\ source[Name(p)] # None
          /\ staged' = [staged EXCEPT ![p] = source[Name(p)]]
          /\ Puts(p, Empty)
          /\ Goto(p, "write")
          /\ UNCHANGED rms
       \/ End(p, "failed") /\ UNCHANGED <<avail, harm>>
    /\ UNCHANGED <<source, site, served>>

\* ... and then fills the file it emptied, which may have been replaced or
\* removed meanwhile.
Write(p) ==
    /\ pc[p] = "write"
    /\ \/ /\ avail[Name(p)] # None /\ Puts(p, staged[p])
          /\ Goto(p, "link") /\ UNCHANGED <<staged, rms>>
       \/ /\ avail[Name(p)] # Empty /\ UNCHANGED <<avail, harm>>
          /\ Goto(p, "link") /\ UNCHANGED <<staged, rms>>
       \/ End(p, "failed") /\ UNCHANGED <<avail, harm>>
    /\ UNCHANGED <<source, site, served>>

\* Mutant: the link's target and name are swapped.
LinkSwapped(p) ==
    /\ pc[p] = "link"
    /\ avail' = [avail EXCEPT ![Name(p)] = "link"]
    /\ Goto(p, "reload")
    /\ UNCHANGED <<source, site, served, harm, staged, rms>>

\* `ln -sfn' replaces whatever is there.
Link(p) ==
    /\ pc[p] = "link"
    /\ \/ /\ site' = [site EXCEPT ![Name(p)] = "link"]
          /\ Goto(p, "reload")
          /\ UNCHANGED <<staged, rms>>
       \/ End(p, "failed") /\ UNCHANGED site
    /\ UNCHANGED <<source, avail, served, harm>>

RmDone(p, outcomes) == rms' = [rms EXCEPT ![p] = @ \cup outcomes]

\* Mutant: the site is left where it is.
NoSite(p) == RmDone(p, {"ok"}) /\ UNCHANGED site

DropSite(p) ==
    /\ site' = [site EXCEPT ![Name(p)] = "none"]
    /\ RmDone(p, {"ok"})

\* remove takes the site away, whatever it is; a failure is only logged.
RmSite(p) ==
    /\ pc[p] = "rm_site"
    /\ \/ site[Name(p)] # "none" /\ DropSite(p)
       \/ site[Name(p)] # "none" /\ RmDone(p, {"failed"}) /\ UNCHANGED site
       \/ site[Name(p)] = "none" /\ UNCHANGED <<site, rms>>
    /\ Goto(p, "rm_avail")
    /\ UNCHANGED <<source, avail, served, harm, staged>>

\* Without anything removed, remove reports that there was nothing to remove,
\* and does not reload.
RmNext(p, outcomes) ==
    IF "ok" \in rms[p] \cup outcomes
    THEN Goto(p, "reload") /\ RmDone(p, outcomes) /\ UNCHANGED staged
    ELSE Report(p, "nothing", rms[p] \cup outcomes)

RmAvail(p) ==
    /\ pc[p] = "rm_avail"
    /\ \/ /\ avail[Name(p)] # None
          /\ avail' = [avail EXCEPT ![Name(p)] = None]
          /\ harm' = harm
               \cup (IF avail[Name(p)] = External THEN {"removed vhost"} ELSE {})
          /\ RmNext(p, {"ok"})
       \/ avail[Name(p)] # None /\ RmNext(p, {"failed"}) /\ UNCHANGED <<avail, harm>>
       \/ avail[Name(p)] = None /\ RmNext(p, {}) /\ UNCHANGED <<avail, harm>>
    /\ UNCHANGED <<source, site, served>>

\* What nginx finds under a name.
Found(n) ==
    CASE site[n] = "link" -> avail[n]
      [] site[n] = "external" -> External
      [] OTHER -> None

\* A link to nothing, or a vhost that does not parse, fails the reload.
ConfigOk ==
    \A n \in Names : site[n] = "link" => avail[n] \notin Invalid \cup {None}

Loaded == [n \in Names |-> Found(n)]

\* Mutant: a reload that fails is reported as a success.
ReloadUnchecked(p) ==
    /\ pc[p] = "reload"
    /\ served' \in {Loaded, served}
    /\ End(p, "done")
    /\ UNCHANGED <<source, avail, site, harm>>

Reload(p) ==
    /\ pc[p] = "reload"
    /\ \/ /\ ConfigOk
          /\ served' = Loaded
          /\ End(p, "done")
       \/ /\ UNCHANGED served
          /\ End(p, "failed")
    /\ UNCHANGED <<source, avail, site, harm>>

Kill(p) ==
    /\ ~Idle(p)
    /\ EndSaying(p, {})
    /\ UNCHANGED <<files, harm>>
-----------------------------------------------------------------------------
Busy(n) == \E p \in Procs : ~Idle(p) /\ Name(p) = n

\* The administrator touches name n.
Outside(n) ==
    /\ outside < MaxOutside
    /\ outside' = outside + 1
    /\ AdminRaces \/ ~Busy(n)
    /\ undisturbed' = [p \in Procs |-> FALSE]
    /\ said' = {}
    /\ UNCHANGED <<pc, req, staged, rms, harm, runs>>

\* generate --out, or an editor.
WritesSource(n) ==
    /\ Outside(n)
    /\ \E b \in File : source' = [source EXCEPT ![n] = b]
    /\ UNCHANGED <<avail, site, served>>

WritesVhost(n) ==
    /\ Outside(n)
    /\ \E b \in {External, None} : avail' = [avail EXCEPT ![n] = b]
    /\ UNCHANGED <<source, site, served>>

WritesSite(n) ==
    /\ Outside(n)
    /\ \E s \in Sites : site' = [site EXCEPT ![n] = s]
    /\ UNCHANGED <<source, avail, served>>

Step(p) ==
    \/ CheckSource(p) \/ CheckAvail(p) \/ Stage(p) \/ Install(p) \/ Write(p) \/ Link(p)
    \/ RmSite(p) \/ RmAvail(p) \/ Reload(p) \/ Kill(p)

Next ==
    \/ \E p \in Procs : Invoke(p) \/ Step(p)
    \/ \E n \in Names : WritesSource(n) \/ WritesVhost(n) \/ WritesSite(n)

Spec == Init /\ [][Next]_vars
-----------------------------------------------------------------------------
TypeOK ==
    /\ source \in [Names -> File]
    /\ avail \in [Names -> Vhost]
    /\ site \in [Names -> Sites]
    /\ served \in [Names -> Vhost]
    /\ pc \in [Procs -> Pcs]
    /\ req \in [Procs -> {NoRequest} \cup Request]
    /\ staged \in [Procs -> File]
    /\ rms \in [Procs -> SUBSET Outcomes]
    /\ undisturbed \in [Procs -> BOOLEAN]
    /\ harm \subseteq Harms
    /\ runs \in Nat
    /\ outside \in Nat
    /\ said \subseteq [req : Request, result : Results, rm : SUBSET Outcomes,
                       undisturbed : BOOLEAN]

\* apply "refuses to clobber an admin-authored vhost" and remove has the "same
\* managed-marker check" (docs/tools/web.md): however runs overlap, as long as
\* the administrator leaves a name alone that a run works on, no vhost without
\* the marker is overwritten or removed in sites-available.
AdminVhostKept ==
    harm \cap {"overwrote vhost", "removed vhost"} = {}

\* apply "refuses non-shimkit-generated vhosts", although it reads the source
\* again after it has looked for the marker.
OnlyGeneratedInstalled == "installed unmarked" \notin harm

Undisturbed(s, kind) == s.undisturbed /\ s.req.kind = kind

\* Whatever overlapping and killed runs left, an `apply' that nothing disturbs
\* and that reports success has nginx serve what it was given.
AppliedIsServed ==
    \A s \in said : Undisturbed(s, "apply") /\ s.result = "done" =>
        /\ served[s.req.name] = source[s.req.name]
        /\ Marked(served[s.req.name])

\* A `remove' that nothing disturbs, none of whose rm calls fails, and that
\* reports success has left neither the site nor the vhost.
RemovedIsGone ==
    \A s \in said :
        Undisturbed(s, "remove") /\ s.result \in {"done", "nothing"} /\ "failed" \notin s.rm =>
            site[s.req.name] = "none" /\ avail[s.req.name] = None

\* Whatever overlapping and killed runs left, a success that nothing disturbs
\* can be believed: what apply installed is served, and what remove removed is
\* gone unless an rm failed.
ReportsHold == AppliedIsServed /\ RemovedIsGone
==============================================================================
