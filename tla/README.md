# A formal model of shimkit

shimkit is a command-line tool box for developers: one Python program whose
sub-commands edit the hosts file and the crontab, run databases and a LEMP
stack in Docker, repair DNS on a Mac, install nginx vhosts, and more.  It has
no server and no threads.  What makes it hard to get right is that every
command is a *sequence of calls to things it does not own*: files that other
programs write, a Docker daemon, `crontab`, `install`, `networksetup`, nginx.
It takes no locks.  Two terminals may run the same command at once; each call
may fail; Ctrl-C, a closed laptop or a reboot may end a run between any two
calls; and what is left is what the next run starts from.

The modules here model those sequences call by call.  TLC explores all the
interleavings, failures and kills on small instances; TLAPS proves the
properties that matter most for any number of runs, names and entries.

Source paths below are relative to `src/src/shimkit/`.

## 1. Inventory

### Modelled

| Component | State it keeps | Operations | Hard behaviours | Correct means |
|---|---|---|---|---|
| hosts editor (`tools/hosts/`) | the hosts file, its `.bak-<second>` copies | add, remove, block, unblock, apply-list, rollback, `--dry-run` | unlocked read-edit-write; the backup is a second read; one-second names; the direct-write fallback empties the file first; copies that fail half way | nothing nobody asked for reaches the file; a finished backup is a content the file had; one rollback undoes the last backed-up commit; edits are atomic when runs do not overlap |
| cron editor (`tools/cron/`) | the user's crontab, backup files | add, remove, rollback, `--dry-run` | `crontab -l` is run twice and its failure reads as an empty table; cap and names are checked against a listing that may be overtaken | names stay unique and the cap holds under any overlap; user lines survive |
| db orchestration (`tools/db/`) | containers, data directories | `up`, `down`, `reset` | a directory is made, then a container created, then started: a run killed or failing in between leaves the rest; reset computes the directory itself | data is lost only in a confirmed reset; reports are true; left-overs never block |
| LEMP stack (`tools/stack/`) | network, three containers | `up`, `down` of one project | three create-and-start sequences in a row, overlapping a teardown in reverse order | an undisturbed up or down does what it says, whatever went before |
| docker wrapper (`core/docker.py`) | none of its own | find, run, start, stop, remove, network_* | find-then-act; `run` is create *and* start | the module `DockerEnv` |
| dns fixer (`tools/dns/`) | DNS servers, interface, the system's network plists, backup directories | fix (six steps of escalation), set, reset, rollback | every command may fail and most failures only end their step; the last step deletes plists | no plist is lost whose copies succeeded; rollback undoes the newest nuclear step; a fix without failures leaves the network usable |
| nginx vhosts (`tools/web/nginx/`) | vhost files, links in sites-enabled, what nginx serves | generate, apply, remove | the source is read three times; marker checked before the write; `ln -sfn` replaces anything; a reload fails for the sake of another vhost | the administrator's vhosts survive; what is reported served is served, what is reported removed is gone |
| ssh keys (`tools/ssh/`) | key pairs and their backups, known_hosts, modes under `~/.ssh` | generate, rotate, prune-known-hosts, audit-perms `--fix` | rotate is two renames and an ssh-keygen that may be interrupted; prune empties known_hosts before it writes it; chmods fail one by one | a private key once made is in place or in a backup wherever rotate dies; prune drops no trusted host; a fix that reports success is tight |
| java versions (`tools/java/`, `core/shell.py`) | packages, the JDK link, marked blocks in the rc file | install, uninstall, upgrade | the block is appended and removed after steps that may fail; the file is rewritten in place, and that it cannot be read or written is not reported | while the file can be read and written: one block to a version; uninstall takes its block and no line else |
| tls certificates (`tools/tls/`) | what certbot keeps, an entry of the crontab | request, renew, revoke, auto-renew | the work is done by a container that outlives the run; a path means one thing to shimkit and another to docker; renewal is a different command line from the request | reported certificates are live; what is due is renewed |
| framework helpers (`tools/framework/`) | modes of a project, its `.env`, an entry of the crontab | perms, env-init, cron-install, artisan / manage.py / console | perms is a plan of commands each of which may undo an earlier one; `.env` is looked for, then written | reported modes hold; a secret made once is not written over |
| adguard (`tools/adguard/`) | what holds the ports, resolv.conf and its backups, AdGuard Home (AGH) and its yaml | fix, ports set, rollback, start/stop/restart | results of many calls are not looked at; AGH writes its yaml when it stops; resolv.conf is removed before it is made anew | changed ports take; resolv.conf can be had back; a fix frees the ports |
| docker cleanup (`tools/docker_clean/`) | none of its own: containers, images, volumes, networks, caches, the daemon | stop-all, quick, nuke, prune-*, orphans, compose-down, restart, schedule | a list taken first, then one call for each item, any of which may fail; a daemon that is restarted and polled | reports are true; order of the steps; the poll ends |
| port owners (`tools/ports/`) | none of its own: processes and their numbers | kill | listed, shown, prompted, listed again, then signalled by number | process 1 is spared; a success means the signal went to the holders |
| configuration, version preflight (`config/`, `core/version.py`) | the user's settings files | loading, `config validate`, `config edit`, preflight | partial overrides laid over bundled defaults; a file caught half-written | a command goes on exactly with the versions the merged range allows |
| prompts and flags (`core/menu.py`, `core/cli_flags.py`) | none | prompt, `--yes`, `--dry-run` | the time a prompt stays open | the module `CliRun` |

### Not modelled

| Component | Why |
|---|---|
| env files (`tools/env/`) | text in, text out; what matters is how characters are parsed and rendered, which a model would have to spell out.  Its one change of state is a new file, written in one call |
| gpg keys (`tools/gpg/`) | a front end: one call of gpg to a command, whose key ring is the state |
| log viewer (`tools/logs/`) | read-only |
| shell tool (`tools/shell/`) | prints, and starts the upgrade command of a package manager |
| process and service layer (`core/command.py`, `systemd.py`, `host_service.py`, ...) | thin wrappers; the modules model the failures of the calls made through them |
| self update (`self_update.py`) | runs the package manager that installed shimkit; that manager's state |

### How the components meet

Each tool is a `Manager` built by `boot()` from the configuration and called
from a Typer command in `commands.py`, which first asks the prompt or checks
the confirmation token.  Managers do not call each other, except that db and
stack share `core/docker.py` and that tls and the framework helpers add their
job through the cron editor.  They meet through what they act on: files, the Docker daemon,
the crontab.  So the composition of the system is the interleaving of runs
over shared outside state, and that is how each module is built: a set `Procs`
of runs, each with its program counter `pc`, its request `req` and the locals
it holds from an earlier read; the shared state; and an environment.

## 2. The modules

Conventions common to all of them:

* One action per call that changes or reads shared state, parameterised by the
  run.  Between two actions anything else may happen.
* `Invoke` is a command line that passed its prompt or token.  `Kill(p)` ends a
  run anywhere.  Each call may succeed or fail when the code looks at, or can
  meet, its failure.
* `said` holds what the last step reported, and `{}` when it reported nothing:
  properties about results speak of the state in which the report is made.
* Variables marked *history* are read by no action and serve the properties.
* Bounds `MaxRuns`, `MaxOutside`, `MaxHandEdits`, `MaxNow` appear only in
  guards of the environment (invocations, outside events, the clock); the
  theorems hold whatever their values.
* A definition preceded by "Mutant:" is a wrong form of the one after it, a
  plausible bug; the runs must refute each with the property `PROJECT.json`
  names for it.  No action of the model uses a mutant.

### hosts: `HostsFile`, `HostsManager`, `AtomicHosts`

`HostsFile` is the data: a file is the set of its lines, a line a mapping
`<<ip, name>>` or a line of the user's; `Edited(r, c)` is what a request makes
of a content.  `HostsManager` is the program: `Read` (with all early returns:
no change, dry run, list over the cap), `BackUp` (`cp -a` of the file *as it is
now*, under the name of the second; on failure the run goes on, perhaps with a
short copy left), `Install` (`sudo install`, or for root the fallback
`OpenDirect`/`WriteDirect`, which first empties the file and loses it if the
inode was replaced meanwhile), `Pick` and `Restore` for rollback.  `HandEdit`,
`Tick` and `SetBack` (local time going back) are the environment.  A cut-short
file is represented by the empty one.

`AtomicHosts` is what the component promises when runs do not overlap: the file
changes only by whole edits, returns to former contents, hand edits, and the
tear-and-mend of the fallback.  `HostsManager!EditsAreAtomic` is the refinement,
with `file <- live`, `past <- held` and `intent` the content a direct write in
progress will leave.

### cron: `CronManager`, `AtomicCron`

A crontab is a set of user lines and managed entries `<<name, job>>`.  `Read`
lists the table and decides (`MayAdd`, `MayRemove`), `BackUp` lists it *again*
and writes the backup, `Load` pipes the new table to `crontab`; `Pick` and
`Restore` are rollback.  `Listing` is the current table or, with `ReadMayFail`,
the empty one: `_read_crontab` takes any failure for "no crontab".  `Overlap`
says whether runs and hand edits may overlap.

`AtomicCron` is what the component promises when runs do not overlap and listings
do not fail: an add gives one free name one job, while there is room; a remove
takes one name away; a rollback returns to a copy, and right after a commit that
was backed up to the very table that commit replaced; only a hand edit touches a
line of the user.  `CronManager!Abstract` is the refinement: the crontab and `undo`
stand for themselves, `copies` for the tables in the backups.

### db and stack: `DockerEnv`, `DbManager`, `LempStack`

`DockerEnv` is the daemon as the wrapper uses it: a table of containers, what
create, start, stop and rm leave, and when a start is refused.  Finding a
container and acting on it is one step: if it vanishes in between, the second
call has no effect, exactly as if the run were killed before it or the
container not found.

`DbManager` has, for `up`, `Find`, `MkDir`, `Create`, `Begin` (the second half
of `containers.run`) or `Start` for a container that exists; for `down` and
`reset`, `Stop`, `Remove`, `RemoveVolume`.  Ports are taken and released by
other programs, containers stop and start behind shimkit's back.  A bind mount's
directory is made by the daemon when a container starts without it.
`LempStack` is one project: the network is looked up and then made, then the
three roles in order, each with `Find`, then `Start` or `Create` and `Begin`;
down walks the roles in reverse and removes the network.  A container remembers
whether the network it is attached to still exists (`on`).

### dns: `DnsFixer`

One run at a time (its steps sleep for seconds and own the interface), every
command an action that may fail, with the resolution test after each step
(`Test`) and the escalation to the next (`Escalate`).  The nuclear step makes a
directory, then copies and removes each plist in turn.  A plist is the user's
own, regenerated by a reboot, cut short, or gone.

### nginx: `NginxVhost`

`apply` is `CheckSource`, `CheckAvail`, `Stage`, `Install`, `Link`, `Reload`; where
`install` fails, root reads the source once more, empties the vhost (`Empty`) and
fills it (`Write`);
`remove` is `CheckAvail`, `RmSite`, `RmAvail` and, if something was removed,
`Reload`.  nginx serves what it last loaded; a reload succeeds only if every
enabled vhost can be read and parsed.  The administrator writes sources, vhosts
and sites; with `AdminRaces = FALSE` only under names no live run works on.

### The single-run tools: `CliRun` and the modules over it

The remaining tools are used by one person at one terminal; what disturbs a run
is not another run of the same command but a kill, a failing call, the user in
another window, or the program it works on.  `CliRun` is what they have in
common: a run is asked something (`Starts`; `Ask` where the prompt may refuse),
remembers what it found out (`mem`), takes its steps (`at`), and ends with a
code (`Exit`) or is `Killed`; `Outside` is what others do, `calm` whether none of
it happened since the run began.  The variable `group` names the group of
commands a behaviour uses: groups that share no state are explored side by side
and not multiplied.

* `SshKeys` (`tools/ssh/manager.py`): rotate is `Look`, `MovePriv`, `MovePub`,
  then generate's `Check`, `Keygen`, `KeygenPub`; prune is a read, `Truncate` and
  the write; audit-perms reads modes and takes one `Chmod` after the other.  ssh
  appends to known_hosts, the user makes and deletes keys.
* `JavaEnv` (`tools/java/`, `core/shell.py`): the rc file is a sequence of lines,
  a block a blank line, the marker and its two exports; install is brew, the
  link, the block; uninstall takes them away; the file is emptied and written, and
  each access to it may fail (`RcFails`, of which `rcWell` is the history).  The
  marker is looked for as a part of the text, which a line of the user's may quote
  (`Quotes`), and removed as a whole line.
* `CronEntries`: the cron editor as its two callers see it, an entry added under
  a name and a cap, in one step.  `TlsCerts` and `Frameworks` are composed with it;
  that the editor itself behaves is `CronManager`'s matter.
* `TlsCerts` (`tools/tls/`): a request prepares the container (its image, and what
  docker mounts for a path as it was given, absolute or relative: `MountOf`) and
  starts certbot in it, which may issue, refuse, or be left at work by a kill.
  Certificates are due as days pass; the crontab's entry fires a renewal.
* `Frameworks` (`tools/framework/`): `perms` is a plan, a sequence of commands over
  the tree and the writable directories, applied one after the other; `env-init`
  looks for `.env` and then opens and writes it; the console commands are passed
  through to the host or the stack's container.
* `AdGuard` (`tools/adguard/`): `fix` as the code runs it: scan, stub off, backup and
  replacement of resolv.conf in its symlink or static form, NetworkManager, the
  units in conflict on any target port, a second scan, the change of ports (by the
  API, or stop, copy, edit, start), restart.  Each copy of the yaml is two steps, the
  first of which leaves it `Torn`.  Units take and let go of the ports in `Contested`
  while a run goes on.  `smooth` is a history of the calls whose result nobody looks
  at, `settled` of whether a unit has taken a port since the second scan.
* `DockerClean` (`tools/docker_clean/`): each command is a sequence of steps; a step
  lists and then takes one item at a time.  The daemon protects what is in use.
  `restart` asks and polls with a deadline.
* `PortsKill` (`tools/ports/`): the listing that is shown, the prompt, the listing
  that is acted on, one signal at a time; processes end, start, and get the number
  of another, and process 1 begins or ceases to listen at any time, as systemd does
  for a socket.
* `Preflight` (`config/loader.py`, `core/version.py`, `shimkit config`): trees of
  settings and their deep merge, the schema's refusals, the constraint of a tool
  and what its detector says.

### TLC modules

`MCHostsManager`, `MCCronManager`, `MCDbManager`, `MCLempStack`, `MCDnsFixer`
and `MCNginxVhost` hold the model values, the sets that a `.cfg` cannot write,
and the symmetry sets.  The first three also hold a constant of the
behaviour, `alone`: whether its runs are kept from overlapping (and, for cron,
whether listings and hand edits leave them alone).  With it one exploration
answers both questions, what holds under any overlap and what holds without.  `MCWorkstation` and `MCServices` put the
single-run modules together.

## 3. The runs

| Run | Instance | Checks | Shows |
|---|---|---|---|
| `hosts_edits` | 2 runs (one root), 3 invocations, 3 seconds, clock steps back, a hand edit | `TypeOK`, `NoPhantomLine`, `BackupsAreGenuine`, `UndoneAlone`, `AtomicAlone` | no overlap, crash, failed write, dry run or refused prompt brings an unauthorised line into the file or a backup; of runs that do not overlap, rollback undoes the last backed-up commit, and edits refine `AtomicHosts` |
| `cron_edits` | 2 runs, 3 names with 2 jobs, cap 2, 4 invocations, a hand edit, listings that fail | `TypeOK`, `WithinCap`, `UniqueNames`, `UndoneAlone`, `AtomicAlone` | races for the last place and for a name are harmless: a table is always loaded whole; without overlap and failed listings, what the docs promise: runs refine `AtomicCron` |
| `cron_lost_lines` | a listing that fails | `UserLinesKept` (refuted) | one transient failure of `crontab -l` wipes the user's lines |
| `db_instances` | 2 runs, 2 instances, a `--volume` directory, 2 ports, 4 invocations, 2 outside events | `TypeOK`, `VolumeLossAuthorised`, `ReportsAloneHold`, `RunningAloneHasVolume` | no overlap or kill loses data without a confirmed reset; without overlap reports are true and left-overs of killed runs never block |
| `stack_overlap` | 2 runs, 4 invocations, 2 outside events | `TypeOK`, `UpSpeaksTrue`, `DownTearsDown` | after anything, an undisturbed up or down does what it reports |
| `dns_fix` | 2 plists, 3 invocations, a reboot or repair | `TypeOK`, `CopiedNotLost`, `RollbackUndoesNuclear`, `CleanFixHarmless` | see the inventory |
| `dns_lost_plist` | 1 invocation | `NothingLost` (refuted) | `cp -a` fails, `rm -f` follows all the same |
| `nginx_overlap` | 2 runs, 2 names, a valid and an invalid vhost, 3 invocations, 2 outside events | `TypeOK`, `AdminVhostKept`, `OnlyGeneratedInstalled`, `ReportsHold` | the marker protects the administrator's vhosts although it is checked long before the write |
| `workstation` | 3 invocations, 1 disturbance; 2 keys, 2 hosts with 2 host keys, 2 Java versions and a line that quotes a marker, 2 domains over 3 days, 2 writable directories, 8 settings files | `TypeOK`, `KeysRecoverable`, `SshReportsHold`, `BlocksFollow`, `CertificatesHold`, `PermsHold`, `RangeHonoured`, `EnvKept` | private keys and an .env outlive every kill; what undisturbed runs report of pairs, known_hosts, modes, certificates and rc blocks is true.  A kill between the emptying of known_hosts or the rc file and its writing loses the file's content: no property says otherwise |
| `services` | 2 invocations, 1 disturbance; 5 ports, 2 containers, a builder, a deadline of 2 polls, 4 process numbers | `TypeOK`, `CleanReportsHold`, `SignalsLand`, `RunsEnd` | what docker-clean and ports report is true, process 1 is spared also when it takes the port between the listings, and every run ends or waits for the user |
| `adguard_ports` | 2 invocations, 1 disturbance, any of 4 ports contested, a fifth target port | `AghReportsHold`, `ResolvRecoverable` | a fix frees the ports or moves AGH away from them although units move between its two scans; a change of ports takes; resolv.conf can be had back |
| `tls_renewal` | 2 domains, 4 invocations, a day that passes | `RenewalAnswerable` (refuted) | a certificate got through a DNS challenge can never be renewed: the container of `renew` has neither the plugin nor the credentials |

A property that is a conjunction (`SshReportsHold`, `BlocksFollow`, ...) names
its parts, each of which is stated, with its own comment, before it; `PROJECT.json`
has a mutant for each part.

**Why the bounds are enough.**  Every hazard of the first six components needs
at most two overlapping runs: a run that holds something stale and another that
makes it so.  Three or four invocations let a run be killed and two others meet
what it left, or two commits be followed by a rollback.  Two seconds let backups
share a name or not; two names, instances or plists let one be worked on while
another stays, or the loop over them be cut in the middle.  `cron_edits` needs
three names so that a cap of two can be overrun by distinct names.  Three runs
of ssh let a rotate die, another finish its work, and a third find the result;
two writable directories and two containers let a plan or a loop be cut between
them; two Java versions let one block stand next to another.  In `services` and
`adguard_ports` two runs are enough for a fix or a change of ports to meet what a
killed one left and for a rollback to follow it, and one disturbance for a unit to
take a port between the two scans (which the behaviours of `services` leave out:
`Contested` is empty there, to keep the product of the three tools small); a process number that is given to another
between two listings needs one process besides process 1 and one more.  Where
the properties are proved as well (section 4) the bounds do not matter.

**Symmetry** is declared for runs, names and jobs where the cfg has them as
model values, no definition chooses among them and no liveness property is
checked (`AtomicAlone` of `cron_edits` is a box over single steps, and symmetric).

**Deadlock** is not checked: a command-line tool that is not run does nothing,
and the bounds on invocations and events end every behaviour.

**Fairness and liveness.**  No background process of shimkit retries or
completes anything, so there is one liveness property: a run that was started
ends or comes to a prompt (`RunsEnd`, in `services`, where there are loops that
might not: the poll for the daemon, the lists worked off item by item, the units to
stop).  It assumes weak fairness of `ServicesStep`, the steps shimkit itself takes:
the operating system schedules the process, and each call it makes returns.  The
second half is an assumption about brew, docker and systemctl and not a guarantee of
the code: `CommandRunner.run` sets no time-out, so a call that hangs hangs the run.
Nothing is assumed of the user (`Answer`, the reply to the prompt of ports, is no
step of shimkit), of other programs, of the daemon, or of time.  The mutant that
forgets to count polls violates it.  The deadline of that poll counts turns of the
loop, a second's sleep and a ping that may itself take ten (`client.py:26`): what is
shown is that the loop ends, not after how many seconds.  Everything else is safety;
"the next run can always complete" is stated as safety (`UpSpeaksTrue`,
`DownTearsDown`, `ReportsAloneHold`).

### Assumptions of the models

* `install` and `crontab FILE` replace their target in one step.
* A file cut short keeps some prefix; the empty one stands for all.
* Users edit crontabs and hosts files line by line, and in a crontab leave the
  marked entries alone.
* In `RunningAloneHasVolume`, different instances have different directories (the
  default directory is named after engine and name).
* The administrator leaves alone, for the few moments a run lasts, the vhost
  names that run works on (`AdminVhostKept`, `OnlyGeneratedInstalled`).  Without
  that, the time between the marker check and the write is open, and both fail.
* The groups of `workstation` and `services` share no state but the crontab; a
  behaviour is of one of them.
* brew, ssh-keygen, certbot and AGH either do what they are asked or fail; a
  kill of shimkit ends ssh-keygen with it but not a container.
* In `services` and `adguard_ports`, one call whose result nobody looks at fails in
  a behaviour; exceptions, and failures that are looked at, are not counted.
* AGH does not start on a yaml that is torn, and `read_ports` may raise on it.
* No unit takes a port that a running AGH has.
* In `workstation`, the accesses to the rc file may fail any number of times.
* `docker volume prune` as the code calls it removes anonymous volumes only (a
  daemon of today), so the model's volumes are anonymous ones.
* A version is a number: how `packaging` orders release candidates, and the
  regular expressions of the detectors, are left out.
* What Docker, nginx, cron and macOS do is external, modelled from how the code
  uses them.

## 4. What is proved

Eight modules hold theorems: `HostsManagerProofs`, `CronManagerProofs`,
`DbManagerProofs`, `LempStackProofs`, `DnsFixerProofs`, `NginxVhostProofs`,
`ServicesProofs` and `WorkstationProofs`.  They hold for any sets of runs, names,
entries, instances, plists, hosts, versions, domains, containers and processes, and
for any bounds on invocations, events and clocks.  `PROJECT.json` lists the theorems
under "theorems"; each module has one lemma to an action under the theorem of its
induction.

* **hosts** — `TypeCorrect`, `NoPhantomLineHolds`, `BackupsAreGenuineHolds` under any
  overlap.  The inductive invariant `IInv` adds that a picked backup stays in place
  (backups are overwritten, never deleted), that what a run read and what it will
  put was authored, that no dry run gets past `Read` (`Provenance`), that the
  present content is one the file has had, and that complete backups exist.  Without
  `Provenance` the step `Install` could write anything.  For one run at a time,
  `SerialInv` says that what a run holds is what the file still says, and `UndoInv`
  that the newest backup is the content before the last commit; from them
  `UndoneAloneHolds`, and `EditsAreAtomicHolds`, the refinement of `AtomicHosts`:
  initial states map to initial states, and every step to a step or a stutter.
  `AtomicAloneHolds` states the same of the specification the run explores.
* **cron** — `TypeCorrect`, `UniqueNamesHolds`, `WithinCapHolds` under any overlap.
  *Every* table about is good — the one installed, those runs are about to load, all
  backups — so it does not matter which one wins.  That `Edited` keeps a table good
  is counted with the library's facts about finite sets.  `AloneInv` is for one run
  at a time and listings that do not fail: what a run is about to load is the edit it
  was asked for, of the crontab as it is (`Intends`), the backup it made or picked is
  the newest, and that is the table the last commit replaced.  From it follow
  `UndoneAloneHolds` and the refinement of `AtomicCron`: `AtomicAloneHolds` of the
  specification the run explores, and, of `CronManager` itself when its constants
  say `~Overlap` and `~ReadMayFail`, `RunsAreAtomic`, `UserLinesKeptHolds` and
  `OneCommandUndoHolds`.
* **db** — `TypeCorrect`, `VolumeLossAuthorisedHolds` for any overlap: a run makes the
  calls of what it was asked (`CallsMatch`), and a reset was confirmed.  For one run
  at a time `RunningAloneHasVolumeHolds` (between the removal of a container and that
  of its directory nothing runs over that directory, since each directory has one
  owner) and `ReportsAloneHoldAlways` (a run knows, at each call, what its earlier
  ones found or left).
* **stack** — `UpSpeaksTrueHolds`, `DownTearsDownHolds` under any overlap.  The
  invariant says where in the order of roles a run is, and, as long as nothing has
  disturbed it, what it has done so far: an up has the network and the roles before
  the present one running, a down has removed the ones before it.
* **dns** — `CopiedNotLostHolds`, `RollbackUndoesNuclearHolds`, `CleanFixHarmlessHolds`,
  for any number of plists.  A run's call belongs to one of the six stages, none past
  the one it is to stop at; plists before the present one are saved or were lost with
  a failed copy, those after it are untouched, and the present one is saved first.
* **nginx** — `AdminVhostKeptHolds`, `OnlyGeneratedInstalledHolds`, assuming
  `~AdminRaces`: past its checks, a run's name has a marked source and no unmarked
  vhost, because other runs only ever install marked ones.  `ReportsHoldAlways` needs
  no such assumption: the reports speak of undisturbed runs.
* **adguard, docker-clean, ports** (`ServicesProofs`, of the composed `ServicesSpec`) —
  `TypeCorrect`, `AghReportsHoldAlways`, `ResolvRecoverableHolds`,
  `CleanReportsHoldAlways`, `SignalsLandHolds`.  (A behaviour of `AghSpec`, which
  `adguard_ports` explores, is one of `ServicesSpec` in which the variables of the other
  two tools stay put.)  `ServicesInv` is the conjunction of an
  invariant for each tool, and a lemma for each says that the steps of the others
  leave it.  For adguard it follows, call by call, what resolv.conf is, what the
  newest copy says, which ports are free, and, while no unit takes a port after the
  second scan, that the ports chosen are free or those to remap to; for docker-clean
  what the items taken so far have left; for ports that nobody gets number 1, that a
  listing with process 1 in it ends the run, and that what was shown is what is
  signalled while nothing happens.

  That runs end is proved up to fairness.  `Rank` is the pair of the phases a run has
  before it (`PhaseOf`) and of the units, steps, containers, polls or processes of
  the present one (`RemainsOf`), ordered lexicographically (`Lower`).  `RunsDescend`:
  each step of shimkit ends the run or lowers the rank, and what else happens (a kill,
  a process that comes, goes or takes over a number, the daemon, the clock) ends it or
  leaves the rank as it is; the user's answer ends it or lowers the rank.
  `RanksAreNatural`: the rank is a pair of naturals, since each phase works through a
  finite set; such pairs do not descend for ever.  It needs `UnitsAreUnits`, that a fix
  stops only units of the conflicts.
* **ssh, java, tls, frameworks, preflight** (`WorkstationProofs`, of the composed
  `WorkstationSpec`) — `TypeCorrect`, `KeysRecoverableHolds`, `SshReportsHoldAlways`,
  `BlocksFollowAlways`, `CertificatesHoldAlways`, `PermsHoldAlways`,
  `RangeHonouredAlways` and, an action property, `EnvKeptAlways`: all the run
  `workstation` checks.  Each part has an invariant of its own:
  * `SshInv`: `KeysAccounted` follows each private key from its place to its backup;
    `RotationKnown` ties a rotation to the second it began in.  `PruneIdempotent`: the
    tags of what prune keeps differ (`PrunedApart`), and of such a text it drops
    nothing (`ApartIsKept`).
  * `TlsInv`: the container a run prepares has what its command line needs, if the
    credentials were named by an absolute path, and certbot's outcome is what it
    reports.  `CertificatesHoldAlways` says of relative paths only that the reports are
    true (section 5 says what becomes of their mounts).
  * `JavaInv`: while no access to the rc file has failed, a run that is about to append
    has seen that the marker is not there, and the user adds no marker line; what uninstall will write is what is left of the
    text it read.  Two lemmas do the work: a block put at the end of a text without
    its marker keeps the markers apart (`BlockAdds`), and the loop that strips a block
    keeps every other line (`StripKeeps`).  `StripUndoesBlock` says more of a file that
    nobody edits between the two: uninstall gives back what install found, blank line
    and all.  (A last line without its newline is outside of the model: the block's
    first newline then ends that line and stays.)
  * `FrameworkInv`, for any list of writable directories: the plan is typed and every
    part of it followed so far has left the modes it should (`PlanFollowed`).
  * `PreflightInv`, for the files of settings that the model has: an undisturbed run
    remembers what the file it read still says.
    What is left is about data: the merge, the schema and the specifiers on one side,
    the documented range on the other (`LoadedIsWanted`, `RangeIsWanted`).

  `WorkstationInv` says that the group of a behaviour keeps its invariant and reports
  of its own commands only (`Of`), and that the variables of the other groups are as
  at the start.  A lemma for each group says that its steps are of the group or at one
  of its labels (`SshSpeaks` and so on); the labels of two groups differ
  (`StepsApart`), so no step of another group is ever taken.  The inductions of the
  first four are also stated of the tool's own specification (`SshInvariance`,
  `TlsInvariance`, `JavaInvariance`, `FrameworkInvariance`).

**Folds.**  `Pruned` (known_hosts), `Strip` and `Others` (the rc file) and the plan of
perms are folds of the community modules, that is, CHOOSEn recursive functions.
`WorkstationProofs` first proves what induction it needs without an operator for a
parameter: `SetInduction` (a set of naturals with 0 and successors has them all, by
the pigeonhole principle), then that a fold over a sequence exists and runs from its
first element to its last (`FoldExists`, `FoldRuns`), and then one invariant for each
loop (`PrunedWell`, `StripWell`).

**Assumptions.**  Bounds are naturals.  `None` is no member of the sets it stands
beside (`*NoneAssumption`, `NoContainerAssumption`).  `UserLines` of a crontab are no
managed entries (they lack the marker).  Process 1 exists, low and high process
numbers are told apart, and there are finitely many of them, as of containers.  The four ports of `AdGuard` differ.  No host is named
`@cert-authority`, no writable directory "src", which is the model's name for the
files outside of them.  The theorems of db for one run at a time assume distinct
directories, and default directories that reset may delete; those of nginx that say
so, `~AdminRaces`.  TLC evaluates the assumptions of the constants on every run.

**What the proofs found.**  In the first form of `AdGuard`, switching the stub off did
not make systemd-resolved write its own resolv.conf anew (`says["run_link"]` in
`StubOff`), over what a rollback had written through the link.  `FixedResolvServes`
fails without it, but only in the third run of a behaviour, and the runs of TLC have two:
the induction step that did not go through showed it.

### What is only model-checked

`RunsEnd`: liveness under fairness is out of the prover's reach.  What is proved of it
is the descent (`RunsDescend`, `RanksAreNatural`); that a run *can* take a step (ENABLED)
and, by fairness, does so, is left to TLC.  Every other property of a passing run is a theorem.
`DeepMerge` recurses in the code; the trees of the model are two levels deep, and it is
written out for those (`Overlaid` is the lower level), since a module with theorems may
reach no RECURSIVE operator.

## 5. Where code and documentation disagree

Three disagreements have a run that exhibits them (`cron_lost_lines`,
`dns_lost_plist`, `tls_renewal`) and are in `PROJECT.json` under
"findings".  Modelling met others; they follow from the models, whose properties
are stated so as to hold beside them:

* hosts: backups are named in naive local time and rollback takes the name that
  sorts last (`manager.py:165`, `252`); after the clock is set back that is not
  the most recent one.
* hosts: a `cp -a` that fails half way is reported as "without a backup" but
  leaves a short file under the newest name, which the next rollback installs
  (`manager.py:258`).
* cron: the listing that `_commit` backs up may fail too; the newest backup is
  then empty and rollback wipes the table (`manager.py:230`).
* db: `up` ignores that `DockerEnv.start` returns False for a container that has
  gone since, and reports "started" (`manager.py:227`); this needs an overlapping
  `down`, which `UpMeansRunning` excludes.
* db, stack: `up` of something that exists reports the port of the request, not
  the published one (`tools/db/manager.py:231`, `tools/stack/manager.py:162`).
* hosts: a commit whose backup failed goes on and says so; a later rollback then undoes
  the commit before it as well (`manager.py:241`; `UndoneAlone` is of commits that
  reported a backup).
* db: a `reset` whose `rmtree` raises has removed the container and leaves what is left
  of its directory for the next `up` to mount (`manager.py:415`, `core/docker.py:394`).
* db: `reset` deletes the default directory only; data under a `--volume` stays
  (`manager.py:408`).  `ResetLeavesNothing` is checked without `--volume`.
* nginx: `remove` looks for the marker in sites-available only; with no file there it
  removes whatever sites-enabled has under the name, also a site of the administrator's
  (`manager.py:235`, `RmSite`), while `docs/tools/web.md:97` says "Same managed-marker
  check protects against removing external vhosts."
* nginx: a `remove` whose reload failed, run again, finds nothing to remove and
  does not reload; nginx goes on serving the vhost (`manager.py:254`).
* nginx: a failing `rm` is only logged, and remove reports success with the file
  in place; `RemovedIsGone` excludes it.
* nginx: root's fallback empties the vhost before it fills it (`manager.py:337`); killed
  in between, it leaves a file without the marker, which `apply` and `remove` of that
  name refuse from then on as somebody else's.
* dns: a rebuild or a cycle that fails in the middle leaves the service without servers
  or the interface down, and the escalation goes on (`fixer.py:85`, `144`).
* dns: when the newest backup directory is empty rollback copies nothing and
  reports success (`fixer.py:277`).
* tls: the webroot is mounted read-only, so certbot cannot write the challenge
  into it (`DnsAnswerable` speaks of the DNS methods only).
* framework: `cron-install` given a relative path, as in
  `docs/tools/framework-laravel.md:103`, installs `cd myshop && php
  myshop/artisan`, which looks for the console in `myshop/myshop`.
* tls: credentials named by a relative path are not in the container: docker is passed
  the path `expanduser`'d and not resolved, refuses it, or makes an empty volume of that
  name (`certbot.py:172`, `179`; `MountOf`), while `docs/tools/tls.md:65` and `115` say
  that the file, or its directory, is mounted.  A relative webroot fares the same
  (`certbot.py:163`).
* java: an `uninstall` that cannot read or write the rc file reports success with its
  block still there (`core/shell.py:159`, `167`, swallowed by `installer.py:50`), while
  `docs/tools/java.md:16` says "Remove the brew package + macOS JVM symlink + rc-file
  block"; `BlocksFollow` is of an rc file that can be read and written.
* java: an `install` that cannot read the rc file takes it for one without the marker
  and may add a second block (`core/shell.py:167`); a line that quotes the marker keeps
  the block from being added at all, and `install` reports success
  (`core/shell.py:166`).
* java, ssh: a run killed between the emptying of the rc file or of known_hosts and its
  writing loses the content (`core/shell.py:157`, `tools/ssh/manager.py:281`); the
  comment over the latter says "Atomic rewrite."
* java: `uninstall` of a version brew has not installed is documented as a no-op
  (`docs/tools/java.md:137`); the code removes the link, fails, and leaves the
  block of the rc file (`installer.py:45`).
* adguard: `docs/tools/adguard.md:102` says "1 | Step failed", but `fix` notes a failed
  `ln` (after its `rm`: no resolv.conf is left) as the error of an outcome, and
  `_emit_outcomes` returns 0 whatever the outcomes hold (`manager.py:376`, `469`).
* adguard: `fix` by a user with cached sudo sees no conflicts, because the
  processes of others are hidden from it; the default port to remap to, 5353,
  may be avahi's (both excluded in `FixFrees`); a second `fix` backs up the
  resolv.conf the first one wrote, and rollback then restores that; after
  rollback resolv.conf names the stub again while the stub stays off; a yaml
  restored under a running AGH is overwritten when that stops; an exception of
  the copy of the yaml leaves AGH stopped; a rollback whose copy is cut off leaves a
  torn yaml and AGH without its ports, and a change of ports killed in its copy a
  torn backup, which the next rollback restores (`manager.py:276`, `330`); a failed
  stop of AGH loses the edit that follows; a port that a unit takes after the second
  scan keeps AGH from starting while `fix` exits 0.
* docker-clean: the prune of the builders marks its outcome applied whatever became of
  each builder, and leaves the error unset when the legacy prune fails
  (`pruner.py:100`), so `nuke` and `prune builders` exit 0, while
  `docs/tools/docker-clean.md:10` lists build-cache failures that are reported as
  success among the bugs that were fixed; `CleanReportsHold` leaves builders out.
* docker-clean: the snippet that `schedule` writes runs `quick --yes`, and quick
  has no such option (`ScheduleFires`, `Parse`); `restart` and `schedule` refuse
  when the daemon is down, because preflight asks it for its version, while
  `tests/test_coverage_v010_final.py:260` says that one "doesn't need a daemon";
  `orphans` exits 0 when one of its two prunes fails, or both (`pruner.py:116`); on macOS
  without the CLI of Desktop a restart may take the dying daemon for the new one.
* ports: a process with a low number that takes the port between the two
  listings is signalled without the token; when `ss` hides the process of a
  socket the row has number 0, and `kill 0` reaches shimkit's own process group
  (`Signal`); a listing that fails is reported as "nothing is holding the port",
  with exit code 0; the message about process 1 suggests a token that is refused.
* ssh: prune takes `@cert-authority` for a host name and may drop a line of
  another authority (`PruneKeepsHosts` speaks of plain host keys).
* framework: an `.env` that somebody makes between the check and the write is
  overwritten (`laravel/manager.py:153`; `EnvKept` is of undisturbed runs), and a kill
  there leaves an empty one that every later run takes for the user's.
* configuration: `config validate` accepts any text for a bound, and a text that is
  no specifier puts every version out of range; a `config edit` killed before it
  has written the template leaves an empty file, which every later command
  refuses as invalid JSON.
* env files (not modelled): `render` is documented as "Round-trippable", but a
  newline in a quoted value and the prefix `export` do not survive.

## 6. What is left

Models to come: the pure text operators of the hosts file and the crontab (parsing and
rendering line by line, including the dangling marker that adopts the user's line
after it), and NO_COLOR in `Preflight`.

## 7. Running it

```
tlc -workers 2 -config hosts_edits.cfg MCHostsManager
tlapm HostsManagerProofs.tla
```

`PROJECT.json` names the module and configuration of every run, the source lines
behind every definition, the hazards of the code, and the mutants.
