------------------------------- MODULE AdGuard -------------------------------
(***************************************************************************)
(* `shimkit adguard': handing the ports of AdGuard Home (AGH) over to it,  *)
(* changing them, and rolling both back (tools/adguard/manager.py,         *)
(* resolv.py, yaml_editor.py, api.py, ports.py, core/systemd.py).  What    *)
(* others hold of the ports, /etc/resolv.conf with the two files of        *)
(* systemd-resolved it may link to, and AGH with its yaml are the state.   *)
(* AGH keeps its settings in memory and writes them to its yaml when it    *)
(* stops, as the comment in ports_set has it.                              *)
(***************************************************************************)
EXTENDS CliRun

CONSTANTS
    DnsPort, HttpPort,      \* the ports AGH is configured with at first, 53 and 80
    RemapDns, RemapHttp,    \* tools.adguard.default_remap_*_port
    OtherPorts,             \* those of tools.adguard.target_ports but 53 and 80
    Contested,              \* bound: those that units take or let go of during a run
    Torn,                   \* a yaml that is empty, or was cut short
    MaxStamp                \* last second of the clock in a backup's name

ASSUME AghPortsAssumption ==
    /\ MaxStamp \in Nat
    /\ Cardinality({DnsPort, HttpPort, RemapDns, RemapHttp}) = 4
    /\ Contested \subseteq {DnsPort, HttpPort, RemapDns, RemapHttp}
    /\ OtherPorts \cap {DnsPort, HttpPort, RemapDns, RemapHttp} = {}

VARIABLES
    holder,     \* the unit that listens on each port, AGH apart, or None
    stub,       \* whether the stub listener of systemd-resolved is on
    nm,         \* NetworkManager: "inactive", "manages" resolv.conf, or "off"
    host,       \* what is so here: resolv.conf is bind-mounted, shimkit runs as
                \* root rather than with sudo at hand, systemd-resolved is active
    mode,       \* tools.adguard.resolv_conf_mode; "static" also where there is no
                \* /run/systemd/resolve/resolv.conf to link to
    link,       \* what /etc/resolv.conf is: a file, a link, or None
    says,       \* what each of the files names as the server
    bakResolv,  \* the backups of resolv.conf, by second, or None
    agh,        \* whether AGH runs, and the ports it has
    yaml,       \* the ports in its yaml, or Torn
    bakYaml,    \* the backups of the yaml, by second, or None
    stamp,      \* the clock
    smooth,     \* history: no call whose result is not looked at has failed
    settled,    \* history: no unit has taken a port since a fix last scanned them
    before      \* history: what resolv.conf named when it was last removed, by
                \* an undisturbed run

adguard ==
    <<holder, stub, nm, host, mode, link, says, bakResolv, agh, yaml, bakYaml, stamp, smooth, settled, before>>

AghPort == {DnsPort, HttpPort, RemapDns, RemapHttp}
TargetPort == AghPort \cup OtherPorts

\* "dnsmasq" stands for tools.adguard.safe_units_to_stop.
Unit == {"systemd-resolved", "dnsmasq", "pihole-FTL", "other"}
Server == {"stub", "agh", "resolved", "network"}
AghStamp == 0..MaxStamp
PortPair == [dns : AghPort, http : AghPort]

ASSUME AghNoneAssumption ==
    /\ None \notin Unit \cup Server \cup PortPair \cup {"file", "stub_link", "run_link"}
    /\ Torn \notin PortPair \cup {None}

FirstPorts == [dns |-> DnsPort, http |-> HttpPort]

Held(f) == [p \in TargetPort |-> IF p \in DOMAIN f THEN f[p] ELSE None]
One(p, u) == [q \in {p} |-> u]
Two(p, u, q, v) == [r \in {p, q} |-> IF r = p THEN u ELSE v]

Free(ports, held) == held[ports.dns] = None /\ held[ports.http] = None

AghStart ==
    /\ holder \in IF group = "adguard"
                  THEN {Held(One(DnsPort, "systemd-resolved")),
                        Held(Two(DnsPort, "systemd-resolved", HttpPort, "other")),
                        Held(One(DnsPort, "dnsmasq")),
                        Held(One(DnsPort, "pihole-FTL")),
                        Held(Two(DnsPort, "other", RemapDns, "other"))}
                       \cup {Held(One(p, "dnsmasq")) : p \in OtherPorts}
                  ELSE {Held(<<>>)}
    /\ stub = (holder[DnsPort] = "systemd-resolved")
    /\ host \in IF group = "adguard" THEN [bound : BOOLEAN, root : BOOLEAN, resolved : {stub}]
                ELSE {[bound |-> FALSE, root |-> TRUE, resolved |-> FALSE]}
    \* resolv.conf is bound in a container, where no NetworkManager runs
    /\ nm \in IF group = "adguard" /\ ~host.bound THEN {"inactive", "manages"} ELSE {"inactive"}
    \* a bound resolv.conf gets the static form whatever the mode
    /\ mode \in IF group = "adguard" /\ ~host.bound THEN {"symlink", "static"} ELSE {"symlink"}
    /\ link = IF host.bound \/ ~stub THEN "file" ELSE "stub_link"
    /\ says = [l \in {"file", "stub_link", "run_link"} |->
                IF l = "run_link" THEN "resolved" ELSE IF stub THEN "stub" ELSE "network"]
    /\ bakResolv = [t \in AghStamp |-> None]
    /\ agh = [up |-> Free(FirstPorts, holder), ports |-> FirstPorts]
    /\ yaml = FirstPorts
    /\ bakYaml = [t \in AghStamp |-> None]
    /\ stamp = 0
    /\ smooth = TRUE
    /\ settled = FALSE
    /\ before = None
-----------------------------------------------------------------------------
(***************************************************************************)
(* What is asked.  fix asks nothing; its flags are in how far it goes.     *)
(***************************************************************************)
Flags == {"", "remap_only", "cleanup_only", "migrate"}

AskFixPorts ==
    /\ \E d \in BOOLEAN, f \in Flags :
        Starts("adguard", [cmd |-> "adguard_fix", dry |-> d, flag |-> f], "scan")
    /\ UNCHANGED adguard

AskPortsSet ==
    /\ \E d \in BOOLEAN, p \in {[dns |-> RemapDns, http |-> HttpPort], FirstPorts} :
        Ask("adguard", [cmd |-> "ports_set", dry |-> d, ports |-> p], "ports_set")
    /\ UNCHANGED adguard

AskRollbackAgh ==
    /\ Starts("adguard", [cmd |-> "rollback", dry |-> FALSE], "roll_yaml")
    /\ UNCHANGED adguard

AskService ==
    /\ \E a \in {"start", "stop", "restart"} :
        Starts("adguard", [cmd |-> "service", dry |-> FALSE, action |-> a], "service")
    /\ UNCHANGED adguard
-----------------------------------------------------------------------------
(***************************************************************************)
(* fix: systemd-resolved, resolv.conf and NetworkManager.                  *)
(***************************************************************************)
\* _configured_ports: what a torn yaml does not say is 53 and 80.
Configured(y) == IF y = Torn THEN FirstPorts ELSE y

\* The conflicts psutil shows: to others than root, not those of a daemon.
Conflicts(ports) ==
    {c \in [port : {ports.dns, ports.http} \cup OtherPorts, unit : Unit] :
        host.root /\ holder[c.port] = c.unit}

\* Bound: one call whose result is not looked at fails in a behaviour.
Ignored(failing) == (failing => smooth) /\ smooth' = (smooth /\ ~failing)

\* One that cannot succeed.
Fails == smooth' = FALSE

\* A yaml cut short may not load.
ScanPorts ==
    /\ at = "scan"
    /\ \/ IF req.dry THEN Exit("ok")
          ELSE Remember(IF req.flag # "remap_only" /\ host.resolved
                        THEN "stub_off" ELSE "units",
                        [todo |-> {c.unit : c \in Conflicts(Configured(yaml))},
                         ports |-> Configured(yaml)])
       \/ yaml = Torn /\ Exit("exception")
    /\ UNCHANGED adguard

\* disable_resolved_stub; none of its three calls is looked at.  The service
\* starts anew and writes its resolv.conf, over what a rollback wrote there.
StubOff ==
    /\ at = "stub_off"
    /\ \/ /\ stub' = FALSE
          /\ holder' = [holder EXCEPT ![DnsPort] = IF @ = "systemd-resolved" THEN None ELSE @]
          /\ says' = [says EXCEPT !["run_link"] = "resolved"]
          /\ Ignored(FALSE)
       \/ Ignored(TRUE) /\ UNCHANGED <<stub, holder, says>>
    /\ Goto("back_up")
    /\ UNCHANGED <<nm, host, mode, link, bakResolv, agh, yaml, bakYaml, stamp, before, settled>>

\* Mutant: the backup is taken of the file systemd-resolved writes.
BacksUpTarget == says["run_link"]

BacksUp == says[link]

\* _back_up_resolv copies what the link leads to.
BackUpResolv ==
    /\ at = "back_up"
    /\ \/ link # None /\ bakResolv' = [bakResolv EXCEPT ![stamp] = BacksUp] /\ Ignored(FALSE)
       \/ Ignored(link # None) /\ UNCHANGED bakResolv
    /\ Goto(IF mode = "symlink" THEN "rm_resolv" ELSE "static")
    /\ UNCHANGED <<holder, stub, nm, host, mode, link, says, agh, yaml, bakYaml, stamp, before, settled>>

\* A bind mount cannot be removed: the static form writes through it.
RmResolv ==
    /\ at = "rm_resolv"
    /\ IF host.bound
       THEN Goto("static") /\ UNCHANGED <<link, before>>
       ELSE /\ link' = None
            /\ before' = IF link = None THEN before ELSE IF calm THEN says[link] ELSE None
            /\ Goto("ln_resolv")
    /\ UNCHANGED <<holder, stub, nm, host, mode, says, bakResolv, agh, yaml, bakYaml, stamp, smooth, settled>>

\* Mutant: the other file of systemd-resolved, which names the stub.
StubFile == "stub_link"

ResolvTarget == "run_link"

LnResolv ==
    /\ at = "ln_resolv"
    /\ link' \in {None, ResolvTarget}
    /\ Ignored(link' = None)
    /\ Goto("nm")
    /\ UNCHANGED <<holder, stub, nm, host, mode, says, bakResolv, agh, yaml, bakYaml, stamp, before, settled>>

MayWriteThrough == host.root

\* write_resolv_static: install replaces the file, unless it is bound; a
\* failure is noted in the outcome, which nobody looks at.
StaticResolv ==
    /\ at = "static"
    /\ \/ /\ ~host.bound
          /\ link' = "file"
          /\ says' = [says EXCEPT !["file"] = "agh"]
          /\ Ignored(FALSE)
       \/ /\ host.bound
          /\ MayWriteThrough
          /\ says' = [says EXCEPT ![link] = "agh"]
          /\ Ignored(FALSE)
          /\ UNCHANGED link
       \/ ~host.bound /\ Ignored(TRUE) /\ UNCHANGED <<link, says>>
       \/ host.bound /\ ~MayWriteThrough /\ Fails /\ UNCHANGED <<link, says>>
    /\ Goto("nm")
    /\ UNCHANGED <<holder, stub, nm, host, mode, bakResolv, agh, yaml, bakYaml, stamp, before, settled>>

ManageNetwork ==
    /\ at = "nm"
    /\ \/ nm' = (IF nm = "manages" THEN "off" ELSE nm) /\ Ignored(FALSE)
       \/ nm = "manages" /\ Ignored(TRUE) /\ UNCHANGED nm
    /\ Goto("units")
    /\ UNCHANGED <<holder, stub, host, mode, link, says, bakResolv, agh, yaml, bakYaml, stamp, before, settled>>
-----------------------------------------------------------------------------
(***************************************************************************)
(* fix: the units of the conflicts found at first, then the ports.         *)
(***************************************************************************)
\* Mutant: pi-hole is stopped like the others.
StopsAny(u) == u \in {"dnsmasq", "pihole-FTL"}

Stops(u) == u = "dnsmasq" \/ (u = "pihole-FTL" /\ req.flag = "migrate")

StopUnit ==
    /\ at = "units"
    /\ \E u \in mem.todo :
        /\ Remember("units", [mem EXCEPT !.todo = @ \ {u}])
        /\ \/ Stops(u) /\ holder' = [p \in TargetPort |-> IF holder[p] = u THEN None ELSE holder[p]]
              /\ Ignored(FALSE)
           \/ Ignored(Stops(u)) /\ UNCHANGED holder
    /\ UNCHANGED <<stub, nm, host, mode, link, says, bakResolv, agh, yaml, bakYaml, stamp, before, settled>>

\* Mutant: the second scan is of the web port alone.
HttpBlocked(ports) == {c.port : c \in Conflicts(ports)} \cap {ports.http}

Blocked(ports) == {c.port : c \in Conflicts(ports)} \cap {ports.dns, ports.http}

\* Whether a port it remaps to is free is not looked at.
Remapped(ports) ==
    [dns |-> IF ports.dns \in Blocked(ports) THEN RemapDns ELSE ports.dns,
     http |-> IF ports.http \in Blocked(ports) THEN RemapHttp ELSE ports.http]

CleanupOnly ==
    /\ at = "units"
    /\ mem.todo = {}
    /\ req.flag = "cleanup_only"
    /\ Exit("ok")
    /\ UNCHANGED adguard

Rescan ==
    /\ at = "units"
    /\ mem.todo = {}
    /\ req.flag # "cleanup_only"
    /\ settled' = TRUE
    /\ \/ IF Blocked(Configured(yaml)) = {} THEN Goto("restart_agh")
          ELSE Remember("ports_set", [mem EXCEPT !.ports = Remapped(Configured(yaml))])
       \/ yaml = Torn /\ Exit("exception")
    /\ UNCHANGED <<holder, stub, nm, host, mode, link, says, bakResolv, agh, yaml, bakYaml, stamp, smooth, before>>
-----------------------------------------------------------------------------
(***************************************************************************)
(* ports_set, of itself and for fix.                                       *)
(***************************************************************************)
Asked == IF req.cmd = "ports_set" THEN req.ports ELSE mem.ports
PortsDone == IF req.cmd = "ports_set" THEN Exit("ok") ELSE Goto("restart_agh")
PortsFailed == IF req.cmd = "ports_set" THEN Exit("fail") ELSE Goto("restart_agh")

\* Mutant: the yaml is edited under the running AGH.
EditsAtOnce == "copy_yaml"

YamlPathBegins == "stop_agh"

\* The control API answers at the port of api_base_url.
ByApi ==
    /\ at = "ports_set"
    /\ IF req.dry THEN Exit("ok") /\ UNCHANGED <<agh, yaml>>
       ELSE \/ /\ agh.up /\ agh.ports.http = HttpPort
               /\ Free(Asked, holder)
               /\ agh' = [agh EXCEPT !.ports = Asked]
               /\ yaml' = Asked
               /\ PortsDone
            \/ Goto(YamlPathBegins) /\ UNCHANGED <<agh, yaml>>
    /\ UNCHANGED <<holder, stub, nm, host, mode, link, says, bakResolv, bakYaml, stamp, smooth, before, settled>>

Stopped(y) == IF agh.up THEN agh.ports ELSE y

StopAgh ==
    /\ at = "stop_agh"
    /\ \/ agh' = [agh EXCEPT !.up = FALSE] /\ yaml' = Stopped(yaml) /\ Ignored(FALSE)
       \/ Ignored(TRUE) /\ UNCHANGED <<agh, yaml>>
    /\ Goto("copy_yaml")
    /\ UNCHANGED <<holder, stub, nm, host, mode, link, says, bakResolv, bakYaml, stamp, before, settled>>

\* copy2 opens the backup, which empties it, and fills it; an exception of either
\* ends the run.
CopyYaml ==
    /\ at = "copy_yaml"
    /\ \/ bakYaml' = [bakYaml EXCEPT ![stamp] = Torn] /\ Goto("fill_copy")
       \/ Exit("exception") /\ UNCHANGED bakYaml
    /\ UNCHANGED <<holder, stub, nm, host, mode, link, says, bakResolv, agh, yaml, stamp, smooth, before, settled>>

FillCopy ==
    /\ at = "fill_copy"
    /\ \/ bakYaml' = [bakYaml EXCEPT ![stamp] = yaml] /\ Goto("edit_yaml")
       \/ Exit("exception") /\ UNCHANGED bakYaml
    /\ UNCHANGED <<holder, stub, nm, host, mode, link, says, bakResolv, agh, yaml, stamp, smooth, before, settled>>

\* The file is replaced in one step, or not at all; fix does not look at which.
EditYaml ==
    /\ at = "edit_yaml"
    /\ \/ /\ yaml' = Asked
          /\ Remember("start_agh", [edited |-> TRUE, ports |-> Asked, todo |-> {}])
          /\ Ignored(FALSE)
       \/ /\ Remember("start_agh", [edited |-> FALSE, ports |-> Asked, todo |-> {}])
          /\ Ignored(req.cmd # "ports_set")
          /\ UNCHANGED yaml
    /\ UNCHANGED <<holder, stub, nm, host, mode, link, says, bakResolv, agh, bakYaml, stamp, before, settled>>

\* AGH starts with the ports of its yaml, and not when another has them, or when
\* the yaml is torn.
Restarted(y) ==
    IF y = Torn THEN [agh EXCEPT !.up = FALSE] ELSE [up |-> Free(y, holder), ports |-> y]

Started(y) == IF agh.up THEN agh ELSE Restarted(y)

StartAgh ==
    /\ at = "start_agh"
    /\ \/ agh' = Started(yaml) /\ Ignored(FALSE)
       \/ Ignored(TRUE) /\ UNCHANGED agh
    /\ IF mem.edited THEN PortsDone ELSE PortsFailed
    /\ UNCHANGED <<holder, stub, nm, host, mode, link, says, bakResolv, yaml, bakYaml, stamp, before, settled>>

\* _emit_outcomes has no other exit code.
RestartAgh ==
    /\ at = "restart_agh"
    /\ \/ yaml' = Stopped(yaml) /\ agh' = Restarted(Stopped(yaml)) /\ Ignored(FALSE)
       \/ Ignored(TRUE) /\ UNCHANGED <<agh, yaml>>
    /\ Exit("ok")
    /\ UNCHANGED <<holder, stub, nm, host, mode, link, says, bakResolv, bakYaml, stamp, before, settled>>

Service ==
    /\ at = "service"
    /\ \/ /\ Exit("ok")
          /\ yaml' = IF req.action = "start" THEN yaml ELSE Stopped(yaml)
          /\ agh' = CASE req.action = "start" -> Started(yaml)
                      [] req.action = "stop" -> [agh EXCEPT !.up = FALSE]
                      [] req.action = "restart" -> Restarted(Stopped(yaml))
       \/ Exit("fail") /\ UNCHANGED <<agh, yaml>>
    /\ UNCHANGED <<holder, stub, nm, host, mode, link, says, bakResolv, bakYaml, stamp, smooth, before, settled>>
-----------------------------------------------------------------------------
(***************************************************************************)
(* rollback.                                                               *)
(***************************************************************************)
Taken(bak) == {t \in AghStamp : bak[t] # None}

Newest(bak) == CHOOSE t \in Taken(bak) : \A u \in Taken(bak) : u <= t

\* copy2, again; AGH is not stopped for it.
RollYaml ==
    /\ at = "roll_yaml"
    /\ \/ Taken(bakYaml) = {} /\ Remember("roll_resolv", [restored |-> FALSE]) /\ UNCHANGED yaml
       \/ Taken(bakYaml) # {} /\ Goto("fill_yaml") /\ yaml' = Torn
       \/ Taken(bakYaml) # {} /\ Exit("exception") /\ UNCHANGED yaml
    /\ UNCHANGED <<holder, stub, nm, host, mode, link, says, bakResolv, agh, bakYaml, stamp, smooth, before, settled>>

FillYaml ==
    /\ at = "fill_yaml"
    /\ \/ yaml' = bakYaml[Newest(bakYaml)] /\ Remember("roll_resolv", [restored |-> TRUE])
       \/ Exit("exception") /\ UNCHANGED yaml
    /\ UNCHANGED <<holder, stub, nm, host, mode, link, says, bakResolv, agh, bakYaml, stamp, smooth, before, settled>>

\* cp writes through a link that is there; nobody looks at its result.
RollResolv ==
    /\ at = "roll_resolv"
    /\ IF Taken(bakResolv) = {}
       THEN Exit(IF mem.restored THEN "ok" ELSE "fail") /\ UNCHANGED <<link, says, smooth>>
       ELSE /\ Exit("ok")
            /\ \/ /\ link' = IF link = None THEN "file" ELSE link
                  /\ says' = [says EXCEPT ![link'] = bakResolv[Newest(bakResolv)]]
                  /\ Ignored(FALSE)
               \/ Ignored(TRUE) /\ UNCHANGED <<link, says>>
    /\ UNCHANGED <<holder, stub, nm, host, mode, bakResolv, agh, yaml, bakYaml, stamp, before, settled>>
-----------------------------------------------------------------------------
\* NetworkManager writes resolv.conf on a link event, but for a link that leads
\* to another's file.
LinkEvent ==
    /\ group = "adguard"
    /\ nm = "manages"
    /\ link \in {None, "file"}
    /\ Outside
    /\ link' = "file"
    /\ says' = [says EXCEPT !["file"] = "network"]
    /\ UNCHANGED <<holder, stub, nm, host, mode, bakResolv, agh, yaml, bakYaml, stamp, smooth, before, settled>>

\* During a run a unit takes a port that AGH does not have, or lets one go.
UnitMoves ==
    /\ group = "adguard"
    /\ ~Idle
    /\ Outside
    /\ \E p \in Contested :
        \/ /\ holder[p] = None
           /\ agh.up => p \notin {agh.ports.dns, agh.ports.http}
           /\ holder' = [holder EXCEPT ![p] = "other"]
           /\ settled' = FALSE
        \/ /\ holder[p] \in Unit \ {"systemd-resolved"}
           /\ holder' = [holder EXCEPT ![p] = None]
           /\ UNCHANGED settled
    /\ UNCHANGED <<stub, nm, host, mode, link, says, bakResolv, agh, yaml, bakYaml, stamp, smooth, before>>

SecondPasses ==
    /\ group = "adguard"
    /\ Idle
    /\ stamp < MaxStamp
    /\ stamp' = stamp + 1
    /\ Elapses
    /\ UNCHANGED <<holder, stub, nm, host, mode, link, says, bakResolv, agh, yaml, bakYaml, smooth, before, settled>>

AghStep ==
    \/ ScanPorts \/ StubOff \/ BackUpResolv \/ RmResolv \/ LnResolv \/ StaticResolv \/ ManageNetwork
    \/ StopUnit \/ CleanupOnly \/ Rescan
    \/ ByApi \/ StopAgh \/ CopyYaml \/ FillCopy \/ EditYaml \/ StartAgh \/ RestartAgh \/ Service
    \/ RollYaml \/ FillYaml \/ RollResolv

AghKill == group = "adguard" /\ Killed /\ UNCHANGED adguard

AghNext ==
    \/ AskFixPorts \/ AskPortsSet \/ AskRollbackAgh \/ AskService
    \/ AghStep \/ AghKill \/ LinkEvent \/ UnitMoves \/ SecondPasses

AghInit == CliInit /\ group = "adguard" /\ AghStart

AghVars == <<proc, adguard>>

AghSpec == AghInit /\ [][AghNext]_AghVars
-----------------------------------------------------------------------------
AghTypeOK ==
    /\ holder \in [TargetPort -> Unit \cup {None}]
    /\ link \in {None, "file", "stub_link", "run_link"}
    /\ says \in [{"file", "stub_link", "run_link"} -> Server]
    /\ bakResolv \in [AghStamp -> Server \cup {None}]
    /\ agh \in [up : BOOLEAN, ports : PortPair]
    /\ yaml \in PortPair \cup {Torn}
    /\ bakYaml \in [AghStamp -> PortPair \cup {Torn, None}]
    /\ nm \in {"inactive", "manages", "off"}

\* "stop AGH first so its shutdown doesn't overwrite our edit" (ports_set): an
\* undisturbed change of the ports that reports success is in the yaml, and
\* no AGH runs with others that it would write over it.
PortsSetTake ==
    \A s \in Ended("ports_set", "ok") :
        smooth => yaml = s.req.ports /\ (agh.up => agh.ports = s.req.ports)

\* A fix run as root with no call failing leaves AGH up on ports that nobody
\* else has, whatever the units did while it ran up to its second scan, unless a
\* port to remap to was taken as well.
FixFrees ==
    \A s \in said :
        (/\ s.req.cmd = "adguard_fix" /\ ~s.req.dry /\ s.req.flag # "cleanup_only" /\ s.exit = "ok"
         /\ smooth /\ settled /\ host.root /\ yaml # Torn) =>
            \/ agh.up /\ Free(agh.ports, holder) /\ agh.ports = yaml
            \/ yaml.dns = RemapDns /\ holder[RemapDns] # None
            \/ yaml.http = RemapHttp /\ holder[RemapHttp] # None

\* An undisturbed fix that switched off the stub of systemd-resolved, with no
\* call failing, leaves a resolv.conf that is there and does not name the stub;
\* one that is bound is out of reach without root.
FixedResolvServes ==
    \A s \in Ended("adguard_fix", "ok") :
        (smooth /\ s.req.flag # "remap_only" /\ ~stub /\ (host.root \/ ~host.bound)) =>
            link # None /\ says[link] # "stub"

\* Wherever a run is killed, while resolv.conf is missing, the newest backup
\* says what it said, if no copy failed and nobody wrote it meanwhile.
ResolvRecoverable ==
    (link = None /\ before # None /\ smooth) =>
        Taken(bakResolv) # {} /\ bakResolv[Newest(bakResolv)] = before

\* What adguard reports can be believed, of runs none of whose calls fails: an
\* undisturbed change of the ports is in the yaml and in the AGH that runs; a
\* fix has freed the ports or moved AGH away from them, however the units moved
\* meanwhile, up to its second scan; and an undisturbed one has left a
\* resolv.conf that does not name the stub it switched off.
AghReportsHold == PortsSetTake /\ FixFrees /\ FixedResolvServes
==============================================================================
