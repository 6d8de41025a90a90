----------------------------- MODULE AtomicHosts -----------------------------
(***************************************************************************)
(* What `shimkit hosts` promises about the hosts file when its runs do not *)
(* overlap: the file changes by whole edits of its current content, by     *)
(* going back to an earlier content, or by a hand edit.  The one exception *)
(* is the direct write used where `install` cannot replace the file: it    *)
(* tears the file and then either mends it or gives up.                    *)
(***************************************************************************)
EXTENDS HostsFile

CONSTANT Requests

VARIABLES
    file,     \* the content of the hosts file
    past,     \* every content the file has had
    intent    \* what a direct write in progress will leave: {c}, or {}

vars == <<file, past, intent>>

Init ==
    /\ file \in Content
    /\ past = {file}
    /\ intent = {}

Becomes(c) ==
    /\ file' = c
    /\ past' = past \cup {c}

Edit ==
    /\ intent = {}
    /\ \E r \in Requests : Becomes(Edited(r, file))
    /\ UNCHANGED intent

\* The backup gone back to may itself be a copy that was cut short.
Restore ==
    /\ intent = {}
    /\ \E c \in past \cup {CutShort} : Becomes(c)
    /\ UNCHANGED intent

HandEdit ==
    /\ intent = {}
    /\ \E l \in Line : Becomes(file \cup {l}) \/ Becomes(file \ {l})
    /\ UNCHANGED intent

Tear ==
    /\ intent = {}
    /\ \E r \in Requests : intent' = {Edited(r, file)}
    /\ Becomes(CutShort)

Mend ==
    /\ intent # {}
    /\ \E c \in intent : Becomes(c)
    /\ intent' = {}

GiveUp ==
    /\ intent # {}
    /\ intent' = {}
    /\ UNCHANGED <<file, past>>

Next == Edit \/ Restore \/ HandEdit \/ Tear \/ Mend \/ GiveUp

Spec == Init /\ [][Next]_vars
==============================================================================
