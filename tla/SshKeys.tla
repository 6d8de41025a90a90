------------------------------- MODULE SshKeys -------------------------------
(***************************************************************************)
(* `shimkit ssh': making and rotating one key pair, pruning known_hosts,   *)
(* and fixing the modes of ~/.ssh (tools/ssh/manager.py, scanner.py,       *)
(* commands.py).  A key is the number of its generation, 0 for no file.    *)
(* A line of known_hosts is a comment or a host with the blob of its key;  *)
(* a marked one begins with @cert-authority.                               *)
(***************************************************************************)
EXTENDS CliRun, SequencesExt

CONSTANTS
    Hosts,      \* hosts that known_hosts names
    Blobs,      \* their keys
    MaxNow,     \* last second of the clock
    MaxKeys     \* bound on the number of keys made

\* There is a key at first in some behaviours.
ASSUME SshBoundsAssumption == MaxNow \in Nat /\ MaxKeys \in Nat \ {0}

ASSUME SshNamesAssumption == None \notin 0..MaxNow /\ "@cert-authority" \notin Hosts

VARIABLES
    key,      \* the pair in place
    bakPriv,  \* the private keys rotated away, by second
    bakPub,   \* the public keys rotated away, by second
    made,     \* keys made so far
    moved,    \* history: the second at which each key's rotation began, or None
    now,      \* the clock
    known,    \* known_hosts
    lax       \* paths whose mode is laxer than configured

ssh == <<key, bakPriv, bakPub, made, moved, now, known, lax>>

Stamp == 0..MaxNow

Comment == [mark |-> FALSE, host |-> None, blob |-> None]

Line == {Comment} \cup [mark : BOOLEAN, host : Hosts, blob : Blobs]

\* The paths that audit_perms looks at, and one that it does not.
Audited == {"dir", "private", "public", "known_hosts"}
Path == Audited \cup {"other"}

SshGroups == {"ssh_keys", "known_hosts", "perms"}

SshStart ==
    /\ key \in IF group = "ssh_keys"
               THEN {[priv |-> 0, pub |-> 0], [priv |-> 1, pub |-> 1], [priv |-> 1, pub |-> 0]}
               ELSE {[priv |-> 0, pub |-> 0]}
    /\ bakPriv = [t \in Stamp |-> 0]
    /\ bakPub = [t \in Stamp |-> 0]
    /\ made = key.priv
    /\ moved = [k \in 1..MaxKeys |-> None]
    /\ now = 0
    /\ known \in (IF group = "known_hosts"
                  THEN UNION {[1..n -> Line] : n \in 0..3} ELSE {<<>>})
    /\ lax \in (IF group = "perms" THEN SUBSET Path ELSE {{}})
-----------------------------------------------------------------------------
(***************************************************************************)
(* Key pairs.                                                              *)
(***************************************************************************)
AskKeys ==
    /\ \E c \in {"generate", "rotate"}, d \in BOOLEAN :
        Ask("ssh_keys", [cmd |-> c, dry |-> d], IF c = "rotate" THEN "look" ELSE "check")
    /\ UNCHANGED ssh

\* Mutant: the name of the backup has no second in it.
FixedName == 0

BackupName == now

\* keys_rotate up to the first rename.
Look ==
    /\ at = "look"
    /\ IF key.priv = 0 THEN Exit("fail")
       ELSE IF req.dry THEN Exit("ok")
       ELSE Remember("move", [ts |-> BackupName, asked |-> now, old |-> key])
    /\ UNCHANGED ssh

\* A rename replaces what has that name.
MovePriv ==
    /\ at = "move"
    /\ bakPriv' = [bakPriv EXCEPT ![mem.ts] = key.priv]
    /\ moved' = [moved EXCEPT ![key.priv] = mem.asked]
    /\ key' = [key EXCEPT !.priv = 0]
    /\ Goto("move_pub")
    /\ UNCHANGED <<bakPub, made, now, known, lax>>

\* Mutant: the public key is left where it is.
LeavePub ==
    /\ at = "move_pub"
    /\ Goto("check")
    /\ UNCHANGED ssh

\* It was seen before the private key was moved; a rename of nothing raises.
MovePub ==
    /\ at = "move_pub"
    /\ IF mem.old.pub = 0 THEN Goto("check") /\ UNCHANGED <<bakPub, key>>
       ELSE IF key.pub = 0 THEN Exit("fail") /\ UNCHANGED <<bakPub, key>>
       ELSE /\ bakPub' = [bakPub EXCEPT ![mem.ts] = key.pub]
            /\ key' = [key EXCEPT !.pub = 0]
            /\ Goto("check")
    /\ UNCHANGED <<bakPriv, made, moved, now, known, lax>>

\* keys_generate up to ssh-keygen; rotate comes here, too.
Check ==
    /\ at = "check"
    /\ IF key.priv # 0 THEN Exit("fail")
       ELSE IF req.dry THEN Exit("ok")
       ELSE Goto("keygen")
    /\ UNCHANGED ssh

\* ssh-keygen writes the private key; it asks before it replaces one, which is
\* declined here, and may be interrupted at its passphrase prompt.
Keygen ==
    /\ at = "keygen"
    /\ \/ /\ key.priv = 0
          /\ made < MaxKeys
          /\ made' = made + 1
          /\ key' = [key EXCEPT !.priv = made + 1]
          /\ Goto("keygen_pub")
       \/ Exit("fail") /\ UNCHANGED <<key, made>>
    /\ UNCHANGED <<bakPriv, bakPub, moved, now, known, lax>>

\* It replaces a public key that is there.
KeygenPub ==
    /\ at = "keygen_pub"
    /\ \/ key' = [key EXCEPT !.pub = key.priv] /\ Exit("ok")
       \/ Exit("fail") /\ UNCHANGED key
    /\ UNCHANGED <<bakPriv, bakPub, made, moved, now, known, lax>>

\* The user makes a key of that name by hand, or deletes the public one.
KeyByHand ==
    /\ group = "ssh_keys"
    /\ Outside
    /\ \/ /\ key.priv = 0
          /\ made < MaxKeys
          /\ made' = made + 1
          /\ key' = [priv |-> made + 1, pub |-> made + 1]
       \/ key' = [key EXCEPT !.pub = 0] /\ UNCHANGED made
    /\ UNCHANGED <<bakPriv, bakPub, moved, now, known, lax>>

Tick ==
    /\ group = "ssh_keys"
    /\ now < MaxNow
    /\ now' = now + 1
    /\ UNCHANGED <<proc, key, bakPriv, bakPub, made, moved, known, lax>>
-----------------------------------------------------------------------------
(***************************************************************************)
(* known_hosts.                                                            *)
(***************************************************************************)
\* A line is split into three words at most, so that of a marked one the first
\* is the marker and the rest is the type and blob of the key.
Pair(l) == IF l.mark THEN <<"@cert-authority", l.blob>> ELSE <<l.host, l.blob>>

\* Mutant: lines are told apart by their key alone.
BlobOnly(l) == <<"", l.blob>>

Tag(l) == Pair(l)

Drops(out, l) == l # Comment /\ \E i \in DOMAIN out : out[i] # Comment /\ Tag(out[i]) = Tag(l)

Pruned(text) ==
    FoldLeft(LAMBDA out, l : IF Drops(out, l) THEN out ELSE Append(out, l), <<>>, text)

AskPrune ==
    /\ \E d \in BOOLEAN : Ask("known_hosts", [cmd |-> "prune", dry |-> d], "read")
    /\ UNCHANGED ssh

ReadKnown ==
    /\ at = "read"
    /\ IF Pruned(known) = known \/ req.dry THEN Exit("ok")
       ELSE Remember("truncate", known)
    /\ UNCHANGED ssh

\* Mutant: the file is deleted before it is written anew.
Deleted == None

Emptied == <<>>

\* write_text empties the file, then writes what was read before, pruned.
Truncate ==
    /\ at = "truncate"
    /\ known' = Emptied
    /\ Goto("write")
    /\ UNCHANGED <<key, bakPriv, bakPub, made, moved, now, lax>>

WriteKnown ==
    /\ at = "write"
    /\ known' = Pruned(mem)
    /\ Exit("ok")
    /\ UNCHANGED <<key, bakPriv, bakPub, made, moved, now, lax>>

\* ssh records the key of a host it has just met.
SshAppends ==
    /\ group = "known_hosts"
    /\ Len(known) < 3
    /\ Outside
    /\ \E l \in Line \ {Comment} : ~l.mark /\ known' = Append(known, l)
    /\ UNCHANGED <<key, bakPriv, bakPub, made, moved, now, lax>>
-----------------------------------------------------------------------------
(***************************************************************************)
(* Modes.                                                                  *)
(***************************************************************************)
AskFix ==
    /\ \E d \in BOOLEAN : Ask("perms", [cmd |-> "fix", dry |-> d], "audit")
    /\ UNCHANGED ssh

Audit ==
    /\ at = "audit"
    /\ IF lax \cap Audited = {} \/ req.dry THEN Exit("ok")
       ELSE Remember("chmod", [todo |-> lax \cap Audited, failed |-> FALSE])
    /\ UNCHANGED ssh

\* Mutant: a chmod that fails is not counted.
FailureNoted == FALSE

FailureCounts == TRUE

\* One issue after the other, in the order of the directory.
Chmod ==
    /\ at = "chmod"
    /\ IF mem.todo = {}
       THEN Exit(IF mem.failed THEN "fail" ELSE "ok") /\ UNCHANGED lax
       ELSE \E f \in mem.todo :
            \/ /\ lax' = lax \ {f}
               /\ Remember("chmod", [mem EXCEPT !.todo = @ \ {f}])
            \/ /\ Remember("chmod", [todo |-> mem.todo \ {f}, failed |-> FailureCounts])
               /\ UNCHANGED lax
    /\ UNCHANGED <<key, bakPriv, bakPub, made, moved, now, known>>

Loosens ==
    /\ group = "perms"
    /\ Outside
    /\ \E f \in Path : lax' = lax \cup {f}
    /\ UNCHANGED <<key, bakPriv, bakPub, made, moved, now, known>>
-----------------------------------------------------------------------------
SshStep ==
    \/ Look \/ MovePriv \/ MovePub \/ Check \/ Keygen \/ KeygenPub
    \/ ReadKnown \/ Truncate \/ WriteKnown
    \/ Audit \/ Chmod

SshKill == group \in SshGroups /\ Killed /\ UNCHANGED ssh

SshNext ==
    \/ AskKeys \/ AskPrune \/ AskFix
    \/ SshStep \/ SshKill
    \/ KeyByHand \/ Tick \/ SshAppends \/ Loosens

SshVars == <<proc, ssh>>

SshInit == CliInit /\ group \in SshGroups /\ SshStart

SshSpec == SshInit /\ [][SshNext]_SshVars
-----------------------------------------------------------------------------
Key == 0..MaxKeys

SshTypeOK ==
    /\ key \in [priv : Key, pub : Key]
    /\ bakPriv \in [Stamp -> Key]
    /\ bakPub \in [Stamp -> Key]
    /\ made \in Key
    /\ moved \in [1..MaxKeys -> Stamp \cup {None}]
    /\ now \in Stamp
    /\ known \in Seq(Line)
    /\ lax \subseteq Path

Kept(k) == key.priv = k \/ \E t \in Stamp : bakPriv[t] = k

\* "moves the old key to <name>.bak-..." (docs/tools/ssh.md): wherever rotate
\* is killed or fails, a private key once made is in place or in a backup,
\* unless the rotations of two keys began in the same second.
KeysRecoverable ==
    \A k \in 1..made :
        Kept(k) \/ \E j \in 1..made \ {k} : moved[k] # None /\ moved[j] = moved[k]

\* An undisturbed generate or rotate that reports success leaves a matching
\* pair in place, and rotate the whole old pair in the backup.
NewPairOldPair ==
    \A s \in Ended("generate", "ok") \cup Ended("rotate", "ok") :
        /\ key.priv # 0 /\ key.pub = key.priv
        /\ s.req.cmd = "rotate" =>
            /\ bakPriv[s.mem.ts] = s.mem.old.priv
            /\ s.mem.old.pub # 0 => bakPub[s.mem.ts] = s.mem.old.pub

\* The host keys that ssh takes from plain and from marked lines.
Trusts(text, marked) ==
    {<<l.host, l.blob>> : l \in {text[i] : i \in DOMAIN text} \cap
                                [mark : {marked}, host : Hosts, blob : Blobs]}

\* An undisturbed prune drops no plain host key that was trusted, and leaves
\* none twice.
PruneKeepsHosts ==
    \A s \in Ended("prune", "ok") :
        /\ s.mem # Nothing => Trusts(known, FALSE) = Trusts(s.mem, FALSE)
        /\ \A i, j \in DOMAIN known : i # j /\ ~known[i].mark /\ known[i] # Comment => known[i] # known[j]

\* An undisturbed fix that reports success leaves no audited path lax.
FixedMeansTight == \A s \in Ended("fix", "ok") : lax \cap Audited = {}

\* What ssh reports can be believed, of runs that nothing disturbs: a generate
\* or rotate has left a matching pair in place, and rotate the whole old pair in
\* the backup; a prune dropped no plain host key that was trusted and left none
\* twice; a fix left no audited path lax.
SshReportsHold == NewPairOldPair /\ PruneKeepsHosts /\ FixedMeansTight
==============================================================================
