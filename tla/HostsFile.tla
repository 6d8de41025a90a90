------------------------------ MODULE HostsFile ------------------------------
(***************************************************************************)
(* The data of `shimkit hosts`: what a hosts file holds, what a request    *)
(* asks for and what it turns a file into (tools/hosts/editor.py).         *)
(*                                                                         *)
(* A file is the set of its lines.  A line is either a mapping, the pair   *)
(* <<ip, name>>, or a line of the user that shimkit keeps verbatim (a      *)
(* comment, a blank line).  The order of the lines and the trailing        *)
(* comments are abstracted away: no property here is about them.           *)
(***************************************************************************)
EXTENDS Naturals, FiniteSets

CONSTANTS
    Ips,        \* addresses
    Names,      \* host names
    UserLines,  \* lines that are not mappings
    MaxApply    \* tools.hosts.max_entries_per_apply

ASSUME MaxApplyAssumption == MaxApply \in Nat

Pair == Ips \X Names

Line == Pair \cup UserLines

Content == SUBSET Line

\* A write that was cut short keeps a prefix of the file; the empty prefix
\* stands for all of them.
CutShort == {}

(***************************************************************************)
(* Requests.  `puts' are the mappings a request wants present, `drops' the *)
(* mappings it wants gone.  parse_block_list keeps one mapping per name.   *)
(***************************************************************************)
AddRequest == [kind : {"add"}, puts : {{e} : e \in Pair}, drops : {{}}]

MappingsOf(n) == {e \in Pair : e[2] = n}

RemoveRequest ==
    [kind : {"remove"}, puts : {{}}, drops : {MappingsOf(n) : n \in Names}]

BlockList == {s \in SUBSET Pair : \A e, f \in s : e[2] = f[2] => e = f}

ApplyRequest == [kind : {"apply"}, puts : BlockList, drops : {{}}]

RollbackRequest == [kind : {"rollback"}, puts : {{}}, drops : {{}}]

Request == AddRequest \cup RemoveRequest \cup ApplyRequest \cup RollbackRequest

\* HostsFile.add appends what is missing, HostsFile.remove drops every
\* mapping of the name; all other lines stay.
Edited(r, c) == (c \ r.drops) \cup r.puts

\* apply_list refuses a list with more names than the cap.
OverCap(r) == r.kind = "apply" /\ Cardinality(r.puts) > MaxApply
==============================================================================
