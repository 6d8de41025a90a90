--------------------------- MODULE MCHostsManager ---------------------------
(***************************************************************************)
(* Instances of HostsManager for TLC: one address, two names, one line of  *)
(* the user.  A behaviour is either one of runs that overlap, or one of    *)
(* runs that do not, with a clock that never steps back and more requests. *)
(***************************************************************************)
EXTENDS HostsManager

CONSTANTS a, b, ip, u, p1, p2

TwoRuns == {p1, p2}
RootRun == {p1}

MCIps == {ip}
MCNames == {a, b}
OneName == {a}
MCUserLines == {u}

MapA == {<<ip, a>>}
MapB == {<<ip, b>>}

Ask(k, p, d) == [kind |-> k, puts |-> p, drops |-> d]

\* Every kind of request; the list of two names is over the cap of one.
AllRequests ==
    { Ask("add", MapA, {}), Ask("remove", {}, MapA),
      Ask("apply", MapB, {}), Ask("apply", MapA \cup MapB, {}),
      Ask("rollback", {}, {}) }

\* One request of each effect, for the overlapping runs.
FewRequests ==
    {Ask("add", MapA, {}), Ask("remove", {}, MapA), Ask("rollback", {}, {})}

VARIABLE alone   \* whether the runs of this behaviour do not overlap

Small(c) == c \subseteq MapA \cup UserLines

MCInit ==
    /\ Init
    /\ alone \in BOOLEAN
    /\ alone \/ Small(live)

Overlapping ==
    /\ ~alone
    /\ Next
    /\ now' <= 1
    /\ Small(live')
    /\ \A p \in Procs : req'[p] \in FewRequests
    /\ UNCHANGED alone

Serial ==
    /\ alone
    /\ SerialNext
    /\ now' >= now
    /\ UNCHANGED alone

MCSpec == MCInit /\ [][Overlapping \/ Serial]_<<vars, alone>>

\* Of runs that do not overlap: as long as nothing else has happened, one
\* rollback undoes the last commit that reported a backup.
UndoneAlone == alone => OneCommandUndo

\* Runs that do not overlap implement AtomicHosts: every change of the hosts
\* file is one whole edit of its current content, a return to an earlier one,
\* a hand edit, or the tear and mend of the direct write.
AtomicAlone ==
    Abstract!Init /\ [][alone => [Abstract!Next]_(Abstract!vars)]_(Abstract!vars)
==============================================================================
