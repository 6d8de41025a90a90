------------------------------- MODULE TlsCerts -------------------------------
(***************************************************************************)
(* `shimkit tls': certificates that certbot requests, renews and revokes   *)
(* in a container of one use, and the job that renews them                 *)
(* (tools/tls/manager.py, certbot.py, commands.py).  Of a container the    *)
(* model keeps its image, that is the plugins it has, and what is mounted  *)
(* in it besides certbot's own directories.  What certbot does is a model  *)
(* of the program shimkit calls: a challenge is answered only with the     *)
(* plugin of its method and the files it reads or writes.                  *)
(***************************************************************************)
EXTENDS CliRun, CronEntries

CONSTANTS
    Domains,     \* domains asked for, each in a certificate of its own
    Life,        \* days from issue to expiry
    Window,      \* days before expiry from which certbot renews
    MaxDay       \* last day

ASSUME TlsBoundsAssumption ==
    Life \in Nat /\ Window \in Nat /\ Window < Life /\ MaxDay \in Nat

VARIABLES
    live,     \* the certificate of each domain, or None
    day       \* today

tls == <<live, day, entries>>

Method == {"webroot", "dns-cloudflare", "dns-route53"}

Cert == [method : Method, until : 0..(MaxDay + Life)]

ASSUME TlsNoneAssumption == None \notin Cert

\* What may be mounted: the webroot, read-only; the directory of the
\* credentials, with the name of the file; the file of AWS credentials; a volume
\* that docker makes, empty; or what docker refuses to mount.
Mount == {"webroot_ro", "cloudflare.ini", "other.ini", "aws", "empty_volume", "refused"}

\* A path from the working directory: of one name, or by way of a directory.
Relative == {"bare", "in_dir"}

Box == [image : Method, mounts : SUBSET Mount]

TlsStart ==
    /\ live = [d \in Domains |-> None]
    /\ day = 0

JobName == "tls-renew"
-----------------------------------------------------------------------------
(***************************************************************************)
(* What is asked.                                                          *)
(***************************************************************************)
\* The webroot or the file of credentials that is given: none, one that is not
\* there or not private, one by its path from the root, or one by a relative path.
Request ==
    [cmd : {"request"}, dry : BOOLEAN, domain : Domains \cup {None},
     method : {"webroot"}, given : {None, "missing", "webroot_ro"} \cup Relative]
    \cup
    [cmd : {"request"}, dry : BOOLEAN, domain : Domains \cup {None},
     method : Method \ {"webroot"},
     given : {None, "missing", "lax", "cloudflare.ini", "other.ini"} \cup Relative]

AskRequest ==
    /\ \E r \in Request : Ask("tls", r, "request")
    /\ UNCHANGED tls

Renewal(dry, d, force) == [cmd |-> "renew", dry |-> dry, domain |-> d, force |-> force]

AskRenew ==
    /\ \E dry, force \in BOOLEAN, d \in Domains \cup {None} :
        Ask("tls", Renewal(dry, d, force), "renew")
    /\ UNCHANGED tls

\* The entry of the crontab runs `tls renew --yes'.
JobFires ==
    /\ Named(JobName) # {}
    /\ Starts("tls", Renewal(FALSE, None, FALSE), "renew")
    /\ UNCHANGED tls

AskRevoke ==
    /\ \E dry \in BOOLEAN, d \in Domains :
        Ask("tls", [cmd |-> "revoke", dry |-> dry, domain |-> d], "revoke")
    /\ UNCHANGED tls

AskJob ==
    /\ \E dry, valid \in BOOLEAN :
        Ask("tls", [cmd |-> "cron_install", dry |-> dry, valid |-> valid], "add_job")
    /\ UNCHANGED tls
-----------------------------------------------------------------------------
(***************************************************************************)
(* request, renew, revoke and cron_install up to the container.            *)
(***************************************************************************)
\* Some domain and an address, a webroot that is a directory, credentials that
\* are a file nobody else may read.
Acceptable(r) == r.domain # None /\ r.given \notin {None, "missing", "lax"}

\* What container_volumes binds: the webroot or the file as it was named, and
\* for Cloudflare the directory that the name has, "." for a bare one.  Docker
\* takes what is no absolute path for the name of a volume, if it may be one.
MountOf(r) ==
    CASE r.given \notin Relative -> IF r.method = "dns-route53" THEN "aws" ELSE r.given
      [] r.given = (IF r.method = "dns-cloudflare" THEN "in_dir" ELSE "bare") -> "empty_volume"
      [] OTHER -> "refused"

\* Mutant: the credentials are mounted where the other plugin looks for them.
OneMount(r) ==
    [image |-> r.method,
     mounts |-> {IF r.method = "dns-route53" THEN "cloudflare.ini" ELSE MountOf(r)}]

\* container_volumes and the image of _run_certbot.
BoxOf(r) == [image |-> r.method, mounts |-> {MountOf(r)}]

Prepare ==
    /\ at = "request"
    /\ IF Acceptable(req) THEN Remember("certbot", BoxOf(req)) ELSE Exit("fail")
    /\ UNCHANGED tls

\* The default image and no mounts.
PrepareRenewal ==
    /\ at = "renew"
    /\ Remember("certbot", [image |-> "webroot", mounts |-> {}])
    /\ UNCHANGED tls

PrepareRevoke ==
    /\ at = "revoke"
    /\ IF live[req.domain] = None THEN Exit("fail")
       ELSE IF req.dry THEN Exit("ok")
       ELSE Remember("certbot", [image |-> "webroot", mounts |-> {}])
    /\ UNCHANGED tls

AddJob ==
    /\ at = "add_job"
    /\ AddEntry([name |-> JobName, job |-> "renew"], req.valid)
    /\ UNCHANGED <<live, day>>
-----------------------------------------------------------------------------
(***************************************************************************)
(* certbot in its container.                                               *)
(***************************************************************************)
\* The file a method reads or writes: the webroot's challenge is written.
Needed(m) ==
    CASE m = "webroot" -> "webroot_rw"
      [] m = "dns-cloudflare" -> "cloudflare.ini"
      [] m = "dns-route53" -> "aws"

CanAnswer(box, m) == (m = "webroot" \/ box.image = m) /\ Needed(m) \in box.mounts

Due(d) == live[d] # None /\ day + Window >= live[d].until

Issued(ds, m) ==
    [d \in Domains |-> IF d \in ds THEN [method |-> m[d], until |-> day + Life] ELSE live[d]]

\* The certificates that a renewal looks at.
Selected ==
    {d \in Domains : live[d] # None /\ req.domain \in {None, d} /\ (req.force \/ req.dry \/ Due(d))}

\* What the container may leave, and whether certbot then ends well: it does
\* nothing for a certificate that is there and not due, and any step may fail.
\* It does not start where a mount is refused.
Outcomes ==
    CASE req.cmd = "request" ->
            {[live |-> live, ok |-> FALSE]}
            \cup (IF ~req.dry /\ "refused" \notin mem.mounts
                     /\ live[req.domain] # None /\ ~Due(req.domain)
                  THEN {[live |-> live, ok |-> TRUE]} ELSE {})
            \cup (IF CanAnswer(mem, req.method)
                  THEN {[live |-> IF req.dry THEN live
                                  ELSE Issued({req.domain}, [d \in Domains |-> req.method]),
                         ok |-> TRUE]} ELSE {})
      [] req.cmd = "renew" ->
            {[live |-> IF req.dry THEN live
                       ELSE Issued(ds, [d \in ds |-> live[d].method]),
              ok |-> ds = Selected /\ (req.domain = None \/ live[req.domain] # None)] :
                ds \in SUBSET {d \in Selected : CanAnswer(mem, live[d].method)}}
            \cup {[live |-> live, ok |-> FALSE]}
      [] req.cmd = "revoke" ->
            {[live |-> live, ok |-> FALSE],
             [live |-> [live EXCEPT ![req.domain] = None], ok |-> TRUE]}

\* Mutant: the exit status of certbot is not looked at.
AlwaysOk(o) == "ok"

\* Mutant: the exit status of a renewal is not looked at.
RenewalOk(o) == IF req.cmd = "renew" \/ o.ok THEN "ok" ELSE "fail"

\* _emit_outcome.  The wait for the container may fail, whatever it did.
Emit(o) == IF o.ok THEN "ok" ELSE "fail"

Certbot ==
    /\ at = "certbot"
    /\ \E o \in Outcomes :
        /\ live' = o.live
        /\ Exit(Emit(o)) \/ Exit("fail")
    /\ UNCHANGED <<day, entries>>

\* Whoever kills the run leaves the container at work.
TlsKill ==
    /\ group = "tls"
    /\ live' \in IF at = "certbot" THEN {o.live : o \in Outcomes} ELSE {live}
    /\ Killed
    /\ UNCHANGED <<day, entries>>

DayPasses ==
    /\ group = "tls"
    /\ Idle
    /\ day < MaxDay
    /\ day' = day + 1
    /\ Elapses
    /\ UNCHANGED <<live, entries>>

DropsJob ==
    /\ group = "tls"
    /\ Idle
    /\ Outside
    /\ DropEntry
    /\ UNCHANGED <<live, day>>
-----------------------------------------------------------------------------
TlsStep == Prepare \/ PrepareRenewal \/ PrepareRevoke \/ AddJob \/ Certbot

TlsNext ==
    \/ AskRequest \/ AskRenew \/ JobFires \/ AskRevoke \/ AskJob
    \/ TlsStep \/ TlsKill
    \/ DayPasses \/ DropsJob

TlsInit == CliInit /\ group = "tls" /\ EntriesInit /\ TlsStart

TlsVars == <<proc, tls>>

TlsSpec == TlsInit /\ [][TlsNext]_TlsVars
-----------------------------------------------------------------------------
TlsTypeOK ==
    /\ live \in [Domains -> Cert \cup {None}]
    /\ day \in 0..MaxDay
    /\ \A e \in entries : e = [name |-> JobName, job |-> "renew"]
    /\ at = "certbot" => mem \in Box

\* A request that reports success leaves a certificate that is not yet due:
\* the container had the plugin and the credentials of the method asked for.
RequestedIsLive ==
    \A s \in Ended("request", "ok") : live[s.req.domain] # None /\ ~Due(s.req.domain)

\* A DNS method is never refused for want of its plugin or its credentials: the
\* container that is started for it can answer the challenge, given the absolute
\* path of a file of the name docs/tools/tls.md uses.
DnsAnswerable ==
    (/\ at = "certbot" /\ req.cmd = "request"
     /\ req.method # "webroot" /\ req.given \notin {"other.ini"} \cup Relative)
        => CanAnswer(mem, req.method)

\* A renewal that reports success, the job's among them, leaves none of the
\* certificates it was asked for due.
RenewedIsFresh ==
    \A s \in Ended("renew", "ok") :
        \A d \in Domains : s.req.domain \in {None, d} => ~Due(d)

\* What certbot is asked for comes about: the container of a DNS request whose
\* credentials are named by an absolute path, and are called what the docs call
\* them, can answer the challenge, a request that reports success leaves a certificate that
\* is not due, and a renewal none that is.
CertificatesHold == DnsAnswerable /\ RequestedIsLive /\ RenewedIsFresh

\* "Renew everything that's within 30 days of expiry" (docs/tools/tls.md): the
\* container of a renewal can answer the challenges of the certificates due.
RenewalAnswerable ==
    (at = "certbot" /\ req.cmd = "renew" /\ ~req.dry) =>
        \A d \in {e \in Selected : Due(e)} : CanAnswer(mem, live[d].method)
==============================================================================
