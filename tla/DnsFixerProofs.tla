---------------------------- MODULE DnsFixerProofs ----------------------------
(***************************************************************************)
(* Theorems about DnsFixer: for any number of plists, of runs, and of      *)
(* failures, kills, reboots and repairs between them, what the escalation  *)
(* and its rollback promise of the plists and of the network.              *)
(***************************************************************************)
EXTENDS DnsFixer, SequenceTheorems, TLAPS

USE NPlistsAssumption, NoneAssumption

\* The calls of the six steps, and the step each belongs to.
FixCalls == {"flush", "rebuild", "rebuild_clear", "rebuild_set", "uniform", "cycle",
             "cycle_route", "cycle_up", "cycle_on", "vpn", "nuclear", "copy", "remove",
             "bounce", "bounce_up"}

Stage(l) ==
    CASE l = "flush" -> 1
      [] l \in {"rebuild", "rebuild_clear", "rebuild_set"} -> 2
      [] l = "uniform" -> 3
      [] l \in {"cycle", "cycle_route", "cycle_up", "cycle_on"} -> 4
      [] l = "vpn" -> 5
      [] OTHER -> 6

\* A run makes the calls of what it was asked, and none past --stop-at.
CallsMatch ==
    /\ pc \in FixCalls => req \in FixRequest /\ Stage(pc) <= req.stop
    /\ pc = "set" => req = [kind |-> "set"]
    /\ pc = "reset" => req = [kind |-> "reset"]
    /\ pc = "restore" => req = [kind |-> "rollback"]

\* The servers that a fix may leave.
Acceptable == servers \in {before, "profile", "cloudflare"}

\* The interface is down, or the servers are cleared, only between the two halves
\* of a step, as long as no command fails.
HarmlessSoFar ==
    pc \in FixCalls /\ clean =>
        /\ pc \notin {"cycle_route", "cycle_up", "bounce_up"} => up
        /\ pc # "cycle_on"
        /\ pc # "rebuild_set" => Acceptable

\* A plist whose copies all succeeded has one of the user's own in some backup
\* directory, or has never been touched.
SavedOrUntouched ==
    \A i \in Plists \ botched :
        \/ InSomeBackup(i)
        \/ live[i] = "own" /\ \A d \in 1..Len(baks) : baks[d][i] = None

\* The nuclear step has not come to plist i yet, or has not copied it.
Untaken(i) == pc \in {"copy", "remove"} /\ (i > at \/ (i = at /\ pc = "copy"))

\* The newest directory has nothing of the plists it has not come to, and a plist
\* is removed only after it was copied.
CopyFirst ==
    pc \in {"copy", "remove"} =>
        /\ Len(baks) > 0
        /\ \A i \in Plists : Untaken(i) => Newest[i] = None
        /\ pc = "remove" => at \in botched \/ Newest[at] = live[at]

\* What was there before the newest nuclear step is in the newest directory, or
\* still in place.
TakenIsSaved ==
    \A t \in taken :
        /\ Len(baks) > 0
        /\ \A i \in Plists : t[i] # None =>
             IF Untaken(i) THEN live[i] = t[i] ELSE Newest[i] = t[i]

\* A rollback has copied back what it has come to.
RestoredSoFar ==
    pc = "restore" =>
        /\ Len(baks) > 0
        /\ clean => \A i \in Plists : i < at /\ Newest[i] # None => live[i] = Newest[i]

IInv ==
    /\ TypeOK
    /\ CallsMatch
    /\ HarmlessSoFar
    /\ CleanFixHarmless
    /\ SavedOrUntouched
    /\ CopyFirst
    /\ TakenIsSaved
    /\ RestoredSoFar
    /\ RollbackUndoesNuclear
-----------------------------------------------------------------------------
(***************************************************************************)
(* Steps that leave the plists alone.                                      *)
(***************************************************************************)
Saved == SavedOrUntouched /\ CopyFirst /\ TakenIsSaved /\ RestoredSoFar

LEMMA PlistsAlone ==
    ASSUME IInv, UNCHANGED <<live, baks, botched, taken, at>>,
           pc \notin {"copy", "remove"}, pc' \notin {"copy", "remove", "restore"}
    PROVE  Saved'
<1> USE DEF IInv
<1>1. SavedOrUntouched'
  BY DEF SavedOrUntouched, InSomeBackup
<1>2. CopyFirst' /\ RestoredSoFar'
  BY DEF CopyFirst, RestoredSoFar
<1>3. TakenIsSaved'
  BY DEF TakenIsSaved, Untaken, Newest
<1>4. QED
  BY <1>1, <1>2, <1>3 DEF Saved

LEMMA Requests ==
    /\ NoRequest.kind = "none"
    /\ \A r \in FixRequest : /\ r.kind = "fix" /\ r.start \in 1..6 /\ r.stop \in 1..6
                             /\ r.leave \in BOOLEAN /\ r.start <= r.stop
    /\ \A r \in Request : r \in FixRequest \/ r \in [kind : {"set", "reset", "rollback"}]
BY DEF NoRequest, FixRequest, Request

LEMMA KindOfCall ==
    ASSUME IInv, pc # "idle"
    PROVE  /\ req.kind \in {"fix", "set", "reset", "rollback"}
           /\ req.kind = "fix" <=> pc \in FixCalls
BY Requests DEF IInv, CallsMatch, TypeOK, Pcs, FixCalls

\* The run ends.
LEMMA EndKeeps ==
    ASSUME IInv, pc # "idle", NEW result \in {"resolved", "done", "failed"}, End(result),
           req.kind = "fix" /\ clean' => up' /\ Acceptable'
    PROVE  /\ pc' = "idle" /\ req' = NoRequest
           /\ said' \subseteq [kind : {"fix", "set", "reset", "rollback"},
                               result : {"resolved", "done", "restored", "failed"}]
           /\ CallsMatch' /\ HarmlessSoFar'
           /\ CleanFixHarmless' /\ RollbackUndoesNuclear'
<1> DEFINE m == [kind |-> req.kind, result |-> result]
<1>1. pc' = "idle" /\ req' = NoRequest /\ said' = {m}
  BY DEF End, EndSaying
<1>2. m \in [kind : {"fix", "set", "reset", "rollback"},
             result : {"resolved", "done", "restored", "failed"}]
  BY KindOfCall
<1>3. m.kind = req.kind /\ m.result # "restored"
  OBVIOUS
<1> HIDE DEF m
<1>4. CallsMatch' /\ HarmlessSoFar'
  BY <1>1 DEF CallsMatch, HarmlessSoFar, FixCalls
<1>5. CleanFixHarmless'
  BY <1>1, <1>3 DEF CleanFixHarmless, Acceptable
<1>6. RollbackUndoesNuclear'
  BY <1>1, <1>3 DEF RollbackUndoesNuclear
<1>7. QED
  BY <1>1, <1>2, <1>4, <1>5, <1>6

LEMMA SilenceIsTrue ==
    ASSUME said' = {}
    PROVE  CleanFixHarmless' /\ RollbackUndoesNuclear'
BY DEF CleanFixHarmless, RollbackUndoesNuclear

\* The typing of what such a step may change.
NetworkTyped == clean' \in BOOLEAN /\ up' \in BOOLEAN /\ servers' \in Servers

\* A fix that goes on within its step.
LEMMA GoOnKeeps ==
    ASSUME IInv, pc \in FixCalls \ {"copy", "remove"},
           NEW l \in FixCalls \ {"copy", "remove"}, Goto(l), Stage(l) = Stage(pc),
           NetworkTyped, HarmlessSoFar',
           UNCHANGED <<wifi, at, runs, outside, before, botched, taken, live, baks>>
    PROVE  IInv'
<1>1. pc' = l /\ req' = req /\ said' = {} /\ l \in Pcs
  BY DEF Goto, Pcs, FixCalls
<1>2. CallsMatch'
  BY <1>1 DEF IInv, CallsMatch, FixCalls
<1>3. Saved'
  BY <1>1, PlistsAlone DEF FixCalls
<1>4. TypeOK'
  BY <1>1 DEF IInv, TypeOK, NetworkTyped
<1>5. QED
  BY <1>1, <1>2, <1>3, <1>4, SilenceIsTrue DEF IInv, Saved

\* A fix that tests whether names resolve, or escalates without a test.
LEMMA TestKeeps ==
    ASSUME IInv, pc \in FixCalls \ {"copy", "remove"}, NEW n \in 1..6, n = Stage(pc), Test(n),
           NetworkTyped, clean' => up' /\ Acceptable',
           UNCHANGED <<wifi, at, runs, outside, before, botched, taken, live, baks>>
    PROVE  IInv'
<1>1. req \in FixRequest /\ n <= req.stop /\ req.stop \in 1..6
  BY Requests DEF IInv, CallsMatch
<1>2. CASE \/ End("resolved")
           \/ End("failed")
  <2>1. /\ pc' = "idle" /\ req' = NoRequest
        /\ said' \subseteq [kind : {"fix", "set", "reset", "rollback"},
                            result : {"resolved", "done", "restored", "failed"}]
        /\ CallsMatch' /\ HarmlessSoFar'
        /\ CleanFixHarmless' /\ RollbackUndoesNuclear'
    BY <1>2, EndKeeps DEF FixCalls
  <2>2. Saved'
    BY <2>1, PlistsAlone
  <2>3. TypeOK'
    BY <2>1 DEF IInv, TypeOK, NetworkTyped, Pcs
  <2>4. QED
    BY <2>1, <2>2, <2>3 DEF IInv, Saved
<1>3. CASE n # req.stop /\ Goto(Steps[n + 1])
  <2>1. n \in 1..5 /\ n + 1 <= req.stop
    BY <1>1, <1>3
  <2> DEFINE l == Steps[n + 1]
  <2>2. /\ l \in {"rebuild", "uniform", "cycle", "vpn", "nuclear"} /\ Stage(l) = n + 1
    <3>1. n = 1 \/ n = 2 \/ n = 3 \/ n = 4 \/ n = 5
      BY <2>1
    <3>2. QED
      BY <3>1 DEF Steps, Stage
  <2>3. Goto(l)
    BY <1>3
  <2> HIDE DEF l
  <2>4. pc' = l /\ req' = req /\ said' = {}
    BY <2>3 DEF Goto
  <2>5. CallsMatch'
    BY <1>1, <2>1, <2>2, <2>4 DEF CallsMatch, FixCalls
  <2>6. HarmlessSoFar'
    BY <2>2, <2>4 DEF HarmlessSoFar
  <2>7. Saved'
    BY <2>2, <2>4, PlistsAlone
  <2>8. TypeOK'
    BY <2>2, <2>4 DEF IInv, TypeOK, NetworkTyped, Pcs
  <2>9. QED
    BY <2>4, <2>5, <2>6, <2>7, <2>8, SilenceIsTrue DEF IInv, Saved
<1>4. QED
  BY <1>2, <1>3 DEF Test, Escalate

LEMMA EscalateIsTest ==
    ASSUME NEW n \in 1..6, Escalate(n)
    PROVE  Test(n)
BY DEF Test

\* The command of a step fails, and the step ends without a test.
LEMMA EscalateKeeps ==
    ASSUME IInv, pc \in FixCalls \ {"copy", "remove"}, NEW n \in 1..6, n = Stage(pc),
           Escalate(n), NetworkTyped, clean' => up' /\ Acceptable',
           UNCHANGED <<wifi, at, runs, outside, before, botched, taken, live, baks>>
    PROVE  IInv'
<1>1. Test(n)
  BY DEF Test
<1>2. QED
  BY <1>1, TestKeeps

LEMMA Stages ==
    /\ Stage("flush") = 1
    /\ Stage("rebuild") = 2 /\ Stage("rebuild_clear") = 2 /\ Stage("rebuild_set") = 2
    /\ Stage("uniform") = 3
    /\ Stage("cycle") = 4 /\ Stage("cycle_route") = 4
    /\ Stage("cycle_up") = 4 /\ Stage("cycle_on") = 4
    /\ Stage("vpn") = 5
    /\ Stage("nuclear") = 6 /\ Stage("copy") = 6 /\ Stage("remove") = 6
    /\ Stage("bounce") = 6 /\ Stage("bounce_up") = 6
BY DEF Stage

LEMMA Steps1To5 ==
    ASSUME IInv, \/ Flush \/ Rebuild \/ RebuildClear \/ RebuildSet \/ Uniform
                 \/ Cycle \/ CycleRoute \/ CycleUp \/ CycleOn \/ Vpn
    PROVE  IInv'
<1> USE DEF At, Succeeds, Fails
<1>0. clean \in BOOLEAN /\ up \in BOOLEAN /\ servers \in Servers
  BY DEF IInv, TypeOK
<1>a. /\ pc \in FixCalls /\ clean => /\ pc \notin {"cycle_route", "cycle_up", "bounce_up"} => up
                                     /\ pc # "cycle_on"
                                     /\ pc # "rebuild_set" => Acceptable
      /\ {"profile", "dhcp", "cloudflare"} \subseteq Servers
  BY DEF IInv, HarmlessSoFar, Servers
<1>1. CASE Flush
  <2>1. /\ pc = "flush" /\ UNCHANGED <<servers, up>>
        /\ pc \in FixCalls \ {"copy", "remove"} /\ Stage(pc) = 1
        /\ UNCHANGED <<wifi, at, runs, outside, before, botched, taken, live, baks>>
    BY <1>1, Stages DEF Flush, FixCalls
  <2>2. CASE clean' = clean /\ Test(1)
    BY <1>0, <1>a, <2>1, <2>2, TestKeeps DEF NetworkTyped, Acceptable
  <2>3. CASE clean' = FALSE /\ Escalate(1)
    <3>1. NetworkTyped /\ ~clean'
      BY <1>0, <2>1, <2>3 DEF NetworkTyped
    <3>2. QED
      BY <2>1, <2>3, <3>1, EscalateKeeps
  <2>4. QED
    BY <1>1, <2>2, <2>3 DEF Flush
<1>2. CASE Rebuild
  <2>1. /\ pc = "rebuild" /\ up' = up
        /\ pc \in FixCalls \ {"copy", "remove"} /\ Stage(pc) = 2
        /\ UNCHANGED <<wifi, at, runs, outside, before, botched, taken, live, baks>>
    BY <1>2, Stages DEF Rebuild, SetServers, FixCalls
  <2>2. CASE servers' = "profile" /\ clean' = clean /\ Goto("rebuild_clear")
    <3>1. HarmlessSoFar'
      BY <1>a, <2>1, <2>2 DEF HarmlessSoFar, Acceptable, Goto
    <3>2. QED
      BY <1>0, <1>a, <2>1, <2>2, <3>1, GoOnKeeps, Stages DEF NetworkTyped, FixCalls
  <2>3. CASE UNCHANGED servers /\ clean' = FALSE /\ Escalate(2)
    <3>1. NetworkTyped /\ ~clean'
      BY <1>0, <2>1, <2>3 DEF NetworkTyped
    <3>2. QED
      BY <2>1, <2>3, <3>1, EscalateKeeps
  <2>4. QED
    BY <1>2, <2>2, <2>3 DEF Rebuild, SetServers
<1>3. CASE RebuildClear
  <2>1. /\ pc = "rebuild_clear" /\ up' = up
        /\ pc \in FixCalls \ {"copy", "remove"} /\ Stage(pc) = 2
        /\ UNCHANGED <<wifi, at, runs, outside, before, botched, taken, live, baks>>
    BY <1>3, Stages DEF RebuildClear, SetServers, FixCalls
  <2>2. CASE servers' = "dhcp" /\ clean' = clean /\ Goto("rebuild_set")
    <3>1. HarmlessSoFar'
      BY <1>a, <2>1, <2>2 DEF HarmlessSoFar, Acceptable, Goto
    <3>2. QED
      BY <1>0, <1>a, <2>1, <2>2, <3>1, GoOnKeeps, Stages DEF NetworkTyped, FixCalls
  <2>3. CASE UNCHANGED servers /\ clean' = FALSE /\ Escalate(2)
    <3>1. NetworkTyped /\ ~clean'
      BY <1>0, <2>1, <2>3 DEF NetworkTyped
    <3>2. QED
      BY <2>1, <2>3, <3>1, EscalateKeeps
  <2>4. QED
    BY <1>3, <2>2, <2>3 DEF RebuildClear, SetServers
<1>4. CASE RebuildSet
  <2>1. /\ pc = "rebuild_set" /\ up' = up
        /\ pc \in FixCalls \ {"copy", "remove"} /\ Stage(pc) = 2
        /\ UNCHANGED <<wifi, at, runs, outside, before, botched, taken, live, baks>>
    BY <1>4, Stages DEF RebuildSet, SetServers, FixCalls
  <2>2. CASE servers' = "profile" /\ clean' = clean /\ Test(2)
    BY <1>0, <1>a, <2>1, <2>2, TestKeeps DEF NetworkTyped, Acceptable
  <2>3. CASE UNCHANGED servers /\ clean' = FALSE /\ Escalate(2)
    <3>1. NetworkTyped /\ ~clean'
      BY <1>0, <2>1, <2>3 DEF NetworkTyped
    <3>2. QED
      BY <2>1, <2>3, <3>1, EscalateKeeps
  <2>4. QED
    BY <1>4, <2>2, <2>3 DEF RebuildSet, SetServers
<1>5. CASE Uniform
  <2>1. /\ pc = "uniform" /\ up' = up
        /\ pc \in FixCalls \ {"copy", "remove"} /\ Stage(pc) = 3
        /\ UNCHANGED <<wifi, at, runs, outside, before, botched, taken, live, baks>>
    BY <1>5, Stages DEF Uniform, SetServers, FixCalls
  <2>2. CASE servers' = "cloudflare" /\ clean' = clean /\ Test(3)
    BY <1>0, <1>a, <2>1, <2>2, TestKeeps DEF NetworkTyped, Acceptable
  <2>3. CASE UNCHANGED servers /\ clean' = FALSE /\ Escalate(3)
    <3>1. NetworkTyped /\ ~clean'
      BY <1>0, <2>1, <2>3 DEF NetworkTyped
    <3>2. QED
      BY <2>1, <2>3, <3>1, EscalateKeeps
  <2>4. QED
    BY <1>5, <2>2, <2>3 DEF Uniform, SetServers
<1>6. CASE Cycle
  <2>1. /\ pc = "cycle" /\ UNCHANGED servers
        /\ pc \in FixCalls \ {"copy", "remove"} /\ Stage(pc) = 4
        /\ UNCHANGED <<wifi, at, runs, outside, before, botched, taken, live, baks>>
    BY <1>6, Stages DEF Cycle, FixCalls
  <2>2. CASE up' = FALSE /\ clean' = clean /\ Goto(IF wifi THEN "cycle_up" ELSE "cycle_route")
    <3>1. HarmlessSoFar'
      BY <1>a, <2>1, <2>2 DEF HarmlessSoFar, Acceptable, Goto
    <3>2. QED
      BY <1>0, <2>1, <2>2, <3>1, GoOnKeeps, Stages DEF NetworkTyped, FixCalls
  <2>3. CASE UNCHANGED up /\ clean' = FALSE /\ wifi /\ Goto("cycle_on")
    <3>1. HarmlessSoFar'
      BY <2>3 DEF HarmlessSoFar
    <3>2. QED
      BY <1>0, <2>1, <2>3, <3>1, GoOnKeeps, Stages DEF NetworkTyped, FixCalls
  <2>4. CASE UNCHANGED up /\ clean' = FALSE /\ ~wifi /\ Escalate(4)
    <3>1. NetworkTyped /\ ~clean'
      BY <1>0, <2>1, <2>4 DEF NetworkTyped
    <3>2. QED
      BY <2>1, <2>4, <3>1, EscalateKeeps
  <2>5. QED
    BY <1>6, <2>2, <2>3, <2>4 DEF Cycle
<1>7. CASE CycleRoute
  <2>1. /\ pc = "cycle_route" /\ UNCHANGED <<servers, up>>
        /\ pc \in FixCalls \ {"copy", "remove"} /\ Stage(pc) = 4
        /\ UNCHANGED <<wifi, at, runs, outside, before, botched, taken, live, baks>>
    BY <1>7, Stages DEF CycleRoute, FixCalls
  <2>2. CASE clean' = clean /\ Goto("cycle_up")
    <3>1. HarmlessSoFar'
      BY <1>a, <2>1, <2>2 DEF HarmlessSoFar, Acceptable, Goto
    <3>2. QED
      BY <1>0, <2>1, <2>2, <3>1, GoOnKeeps, Stages DEF NetworkTyped, FixCalls
  <2>3. CASE clean' = FALSE /\ Escalate(4)
    <3>1. NetworkTyped /\ ~clean'
      BY <1>0, <2>1, <2>3 DEF NetworkTyped
    <3>2. QED
      BY <2>1, <2>3, <3>1, EscalateKeeps
  <2>4. QED
    BY <1>7, <2>2, <2>3 DEF CycleRoute
<1>8. CASE CycleUp
  <2>1. /\ pc = "cycle_up" /\ UNCHANGED servers
        /\ pc \in FixCalls \ {"copy", "remove"} /\ Stage(pc) = 4
        /\ UNCHANGED <<wifi, at, runs, outside, before, botched, taken, live, baks>>
    BY <1>8, Stages DEF CycleUp, FixCalls
  <2>2. CASE up' = TRUE /\ clean' = clean /\ Test(4)
    BY <1>0, <1>a, <2>1, <2>2, TestKeeps DEF NetworkTyped, Acceptable
  <2>3. CASE UNCHANGED up /\ clean' = FALSE /\ Escalate(4)
    <3>1. NetworkTyped /\ ~clean'
      BY <1>0, <2>1, <2>3 DEF NetworkTyped
    <3>2. QED
      BY <2>1, <2>3, <3>1, EscalateKeeps
  <2>4. QED
    BY <1>8, <2>2, <2>3 DEF CycleUp
<1>9. CASE CycleOn
  <2>1. /\ pc = "cycle_on" /\ UNCHANGED servers /\ Escalate(4) /\ clean' = FALSE /\ up' \in BOOLEAN
        /\ pc \in FixCalls \ {"copy", "remove"} /\ Stage(pc) = 4
        /\ UNCHANGED <<wifi, at, runs, outside, before, botched, taken, live, baks>>
    BY <1>0, <1>9, <1>a, Stages DEF CycleOn, FixCalls
  <2>2. QED
    <3>1. NetworkTyped /\ ~clean'
      BY <1>0, <2>1 DEF NetworkTyped
    <3>2. QED
      BY <2>1, <3>1, EscalateKeeps
<1>10. CASE Vpn
  <2>1. /\ pc = "vpn" /\ UNCHANGED <<servers, up, clean>> /\ Test(5)
        /\ pc \in FixCalls \ {"copy", "remove"} /\ Stage(pc) = 5
        /\ UNCHANGED <<wifi, at, runs, outside, before, botched, taken, live, baks>>
    BY <1>10, Stages DEF Vpn, FixCalls
  <2>2. QED
    BY <1>0, <1>a, <2>1, TestKeeps DEF NetworkTyped, Acceptable
<1>11. QED
  BY <1>1, <1>2, <1>3, <1>4, <1>5, <1>6, <1>7, <1>8, <1>9, <1>10
-----------------------------------------------------------------------------
(***************************************************************************)
(* The nuclear step, and rollback.                                         *)
(***************************************************************************)
\* What a copy leaves in the newest directory.
LEMMA NewestAfterCopy ==
    ASSUME baks \in Seq(Tables), Len(baks) > 0, at \in Plists, NEW x \in Content,
           baks' = [baks EXCEPT ![Len(baks)][at] = x]
    PROVE  /\ baks' \in Seq(Tables)
           /\ Len(baks') = Len(baks)
           /\ \A d \in 1..Len(baks) : \A i \in Plists :
                baks'[d][i] = IF d = Len(baks) /\ i = at THEN x ELSE baks[d][i]
<1> DEFINE b == [baks[Len(baks)] EXCEPT ![at] = x]
<1>1. baks' = [baks EXCEPT ![Len(baks)] = b]
  OBVIOUS
<1>2. Len(baks) \in 1..Len(baks) /\ baks[Len(baks)] \in Tables
  OBVIOUS
<1>3. b \in Tables
  BY <1>2 DEF Tables
<1>4. \A i \in Plists : b[i] = IF i = at THEN x ELSE baks[Len(baks)][i]
  BY <1>2 DEF Tables
<1> HIDE DEF b
<1>5. /\ baks' \in Seq(Tables)
      /\ Len(baks') = Len(baks)
      /\ \A d \in 1..Len(baks) : baks'[d] = IF d = Len(baks) THEN b ELSE baks[d]
  BY <1>1, <1>2, <1>3, ExceptSeq
<1>6. ASSUME NEW d \in 1..Len(baks), NEW i \in Plists
      PROVE  baks'[d][i] = IF d = Len(baks) /\ i = at THEN x ELSE baks[d][i]
  <2>1. CASE d = Len(baks)
    BY <1>4, <1>5, <2>1
  <2>2. CASE d # Len(baks)
    BY <1>5, <2>2
  <2>3. QED
    BY <2>1, <2>2
<1>7. QED
  BY <1>5, <1>6

LEMMA NuclearKeeps == IInv /\ Nuclear => IInv'
<1> SUFFICES ASSUME IInv, Nuclear PROVE IInv'
  OBVIOUS
<1>1. pc = "nuclear" /\ UNCHANGED <<live, network, runs, outside, clean, before, botched>>
  BY DEF Nuclear
<1>2. CASE /\ up
           /\ baks' = Append(baks, [i \in Plists |-> None])
           /\ taken' = {live}
           /\ at' = 1
           /\ Goto("copy")
  <2> DEFINE e == [i \in Plists |-> None]
  <2>1. baks \in Seq(Tables) /\ e \in Tables /\ live \in Tables
    BY DEF IInv, TypeOK, Tables, Content
  <2>2. /\ baks' \in Seq(Tables) /\ Len(baks') = Len(baks) + 1 /\ Len(baks) \in Nat
        /\ \A d \in 1..Len(baks) : baks'[d] = baks[d]
        /\ baks'[Len(baks) + 1] = e
    BY <1>2, <2>1
  <2>3. Newest' = e /\ \A i \in Plists : e[i] = None
    BY <2>2 DEF Newest
  <2> HIDE DEF e
  <2>4. pc' = "copy" /\ req' = req /\ said' = {} /\ at' = 1
    BY <1>2 DEF Goto
  <2>5. TypeOK'
    BY <1>1, <1>2, <2>1, <2>2, <2>4 DEF network, IInv, TypeOK, Pcs, Plists
  <2>6. CallsMatch'
    BY <1>1, <2>4 DEF IInv, CallsMatch, FixCalls, Stage
  <2>7. HarmlessSoFar'
    BY <1>1, <2>4 DEF network, IInv, HarmlessSoFar, FixCalls, Acceptable
  <2>8. SavedOrUntouched'
    <3>1. ASSUME NEW i \in Plists \ botched
          PROVE  \/ InSomeBackup(i)'
                 \/ live[i] = "own" /\ \A d \in 1..Len(baks') : baks'[d][i] = None
      <4>1. CASE InSomeBackup(i)
        BY <2>2, <4>1 DEF InSomeBackup
      <4>2. CASE live[i] = "own" /\ \A d \in 1..Len(baks) : baks[d][i] = None
        <5>1. \A d \in 1..Len(baks') : d \in 1..Len(baks) \/ d = Len(baks) + 1
          BY <2>2
        <5>2. QED
          BY <2>2, <2>3, <4>2, <5>1
      <4>3. QED
        BY <4>1, <4>2 DEF IInv, SavedOrUntouched
    <3>2. QED
      BY <1>1, <3>1 DEF SavedOrUntouched, InSomeBackup
  <2>9. CopyFirst'
    BY <2>2, <2>3, <2>4 DEF CopyFirst
  <2>10. TakenIsSaved'
    BY <1>1, <1>2, <2>2, <2>4 DEF TakenIsSaved, Untaken, Plists
  <2>11. RestoredSoFar'
    BY <2>4 DEF RestoredSoFar
  <2>12. QED
    BY <2>4, <2>5, <2>6, <2>7, <2>8, <2>9, <2>10, <2>11, SilenceIsTrue DEF IInv
<1>3. CASE End("failed") /\ UNCHANGED <<baks, taken, at>>
  <2>1. clean => up /\ Acceptable
    BY <1>1 DEF IInv, HarmlessSoFar, FixCalls
  <2>2. /\ pc' = "idle" /\ req' = NoRequest
        /\ said' \subseteq [kind : {"fix", "set", "reset", "rollback"},
                            result : {"resolved", "done", "restored", "failed"}]
        /\ CallsMatch' /\ HarmlessSoFar'
        /\ CleanFixHarmless' /\ RollbackUndoesNuclear'
    BY <1>1, <1>3, <2>1, EndKeeps DEF network, Acceptable
  <2>3. Saved'
    BY <1>1, <1>3, <2>2, PlistsAlone
  <2>4. TypeOK'
    BY <1>1, <1>3, <2>2 DEF network, IInv, TypeOK, Pcs
  <2>5. QED
    BY <2>2, <2>3, <2>4 DEF IInv, Saved
<1>4. QED
  BY <1>2, <1>3 DEF Nuclear

LEMMA NextPlistTyped ==
    ASSUME IInv, NEW l \in Pcs, NEW done \in Pcs, NextPlist(l, done)
    PROVE  /\ at' \in Plists /\ req' = req /\ said' = {}
           /\ \/ pc' = l /\ at' = at + 1
              \/ pc' = done /\ at' = at /\ at = NPlists
BY DEF IInv, TypeOK, NextPlist, Goto, Plists

LEMMA CopyKeeps == IInv /\ Copy => IInv'
<1> SUFFICES ASSUME IInv, Copy PROVE IInv'
  OBVIOUS
<1>1. /\ pc = "copy" /\ UNCHANGED <<live, network, runs, outside, before>>
      /\ Len(baks) > 0 /\ \A i \in Plists : i >= at => Newest[i] = None
      /\ baks \in Seq(Tables) /\ live \in Tables /\ at \in Plists
  <2>1. pc = "copy" /\ UNCHANGED <<live, network, runs, outside, before>>
    BY DEF Copy
  <2>2. baks \in Seq(Tables) /\ live \in Tables /\ at \in Plists
    BY DEF IInv, TypeOK
  <2>3. Len(baks) > 0 /\ \A i \in Plists : i >= at => Newest[i] = None
    BY <2>1, <2>2 DEF IInv, CopyFirst, Untaken, Plists
  <2>4. QED
    BY <2>1, <2>2, <2>3
<1>2. CASE live[at] = None
  <2>1. NextPlist("copy", "bounce") /\ UNCHANGED <<baks, clean, botched, taken>>
    BY <1>2 DEF Copy
  <2>2. /\ at' \in Plists /\ req' = req /\ said' = {}
        /\ \/ pc' = "copy" /\ at' = at + 1
           \/ pc' = "bounce" /\ at' = at /\ at = NPlists
    BY <2>1, NextPlistTyped DEF Pcs
  <2>3. TypeOK'
    BY <1>1, <2>1, <2>2 DEF network, IInv, TypeOK, Pcs
  <2>4. CallsMatch'
    BY <1>1, <2>2 DEF IInv, CallsMatch, FixCalls, Stage
  <2>5. HarmlessSoFar'
    BY <1>1, <2>1, <2>2 DEF network, IInv, HarmlessSoFar, FixCalls, Acceptable
  <2>6. SavedOrUntouched'
    BY <1>1, <2>1 DEF IInv, SavedOrUntouched, InSomeBackup
  <2>7. CopyFirst'
    BY <1>1, <2>1, <2>2 DEF CopyFirst, Untaken, Newest, Plists
  <2>8. TakenIsSaved'
    <3>1. ASSUME NEW t \in taken, NEW i \in Plists, t[i] # None
          PROVE  IF Untaken(i)' THEN live[i] = t[i] ELSE Newest[i] = t[i]
      <4>1. IF i >= at THEN live[i] = t[i] ELSE Newest[i] = t[i]
        BY <1>1, <3>1 DEF IInv, TakenIsSaved, Untaken, Plists
      <4>2. i # at
        BY <1>2, <3>1, <4>1 DEF Plists
      <4>3. CASE i > at
        <5>1. pc' = "copy" /\ at' = at + 1
          BY <1>1, <2>2, <3>1, <4>3 DEF Plists
        <5>2. Untaken(i)'
          BY <1>1, <3>1, <4>3, <5>1 DEF Untaken, Plists
        <5>3. QED
          BY <1>1, <3>1, <4>1, <4>3, <5>2 DEF Plists
      <4>4. CASE i < at
        <5>1. ~ Untaken(i)'
          BY <1>1, <2>2, <3>1, <4>4 DEF Untaken, Plists
        <5>2. QED
          BY <1>1, <3>1, <4>1, <4>4, <5>1 DEF Plists
      <4>5. QED
        BY <1>1, <3>1, <4>2, <4>3, <4>4 DEF Plists
    <3>2. QED
      BY <1>1, <2>1, <3>1 DEF TakenIsSaved, Newest
  <2>9. RestoredSoFar'
    BY <2>2 DEF RestoredSoFar
  <2>10. QED
    BY <2>2, <2>3, <2>4, <2>5, <2>6, <2>7, <2>8, <2>9, SilenceIsTrue DEF IInv
<1>3. CASE live[at] # None
  <2>1. /\ Goto("remove") /\ at' = at
        /\ \E x \in Content :
             /\ baks' = [baks EXCEPT ![Len(baks)][at] = x]
             /\ \/ x = live[at] /\ clean' = clean /\ UNCHANGED <<botched, taken>>
                \/ clean' = FALSE /\ botched' = botched \cup {at} /\ taken' = {}
    <3>1. live[at] \in Content /\ "short" \in Content
      BY <1>1 DEF Tables, Content
    <3>2. QED
      BY <1>3, <3>1 DEF Copy, Succeeds, Fails
  <2>2. PICK x \in Content :
             /\ baks' = [baks EXCEPT ![Len(baks)][at] = x]
             /\ \/ x = live[at] /\ clean' = clean /\ UNCHANGED <<botched, taken>>
                \/ clean' = FALSE /\ botched' = botched \cup {at} /\ taken' = {}
    BY <2>1
  <2>3. /\ baks' \in Seq(Tables) /\ Len(baks') = Len(baks)
        /\ \A d \in 1..Len(baks) : \A i \in Plists :
             baks'[d][i] = IF d = Len(baks) /\ i = at THEN x ELSE baks[d][i]
    BY <1>1, <2>2, NewestAfterCopy
  <2>4. Len(baks) \in 1..Len(baks)
    BY <1>1
  <2>5. \A i \in Plists : Newest'[i] = IF i = at THEN x ELSE Newest[i]
    BY <2>3, <2>4 DEF Newest
  <2>6. pc' = "remove" /\ req' = req /\ said' = {} /\ at' = at
    BY <2>1 DEF Goto
  <2>7. TypeOK'
    BY <1>1, <2>2, <2>3, <2>6 DEF network, IInv, TypeOK, Pcs
  <2>8. CallsMatch'
    BY <1>1, <2>6 DEF IInv, CallsMatch, FixCalls, Stage
  <2>9. HarmlessSoFar'
    BY <1>1, <2>2, <2>6 DEF network, IInv, HarmlessSoFar, FixCalls, Acceptable
  <2>10. SavedOrUntouched'
    <3>1. ASSUME NEW i \in Plists \ botched'
          PROVE  \/ \E d \in 1..Len(baks) : baks'[d][i] = "own"
                 \/ live[i] = "own" /\ \A d \in 1..Len(baks) : baks'[d][i] = None
      <4>0. i \in Plists \ botched
        BY <2>2
      <4>1. CASE InSomeBackup(i)
        <5>1. PICK d \in 1..Len(baks) : baks[d][i] = "own"
          BY <4>1 DEF InSomeBackup
        <5>2. ~(d = Len(baks) /\ i = at)
          BY <1>1, <5>1 DEF Newest, Plists
        <5>3. baks'[d][i] = "own"
          BY <2>3, <5>1, <5>2
        <5>4. QED
          BY <5>3
      <4>2. CASE live[i] = "own" /\ \A d \in 1..Len(baks) : baks[d][i] = None
        <5>1. CASE i = at
          <6>1. x = "own"
            BY <2>2, <3>1, <4>2, <5>1
          <6>2. QED
            BY <2>3, <2>4, <5>1, <6>1
        <5>2. CASE i # at
          BY <2>3, <4>2, <5>2
        <5>3. QED
          BY <5>1, <5>2
      <4>3. QED
        BY <4>0, <4>1, <4>2 DEF IInv, SavedOrUntouched
    <3>2. QED
      BY <1>1, <2>3, <3>1 DEF SavedOrUntouched, InSomeBackup
  <2>11. CopyFirst'
    <3>1. at \in botched' \/ Newest'[at] = live[at]
      BY <1>1, <2>2, <2>5
    <3>2. ASSUME NEW i \in Plists, Untaken(i)' PROVE Newest'[i] = None
      BY <1>1, <2>5, <2>6, <3>2 DEF Untaken, Plists
    <3>3. QED
      BY <1>1, <2>3, <2>6, <3>1, <3>2 DEF CopyFirst
  <2>12. TakenIsSaved'
    <3>1. ASSUME NEW t \in taken', NEW i \in Plists, t[i] # None
          PROVE  IF Untaken(i)' THEN live[i] = t[i] ELSE Newest'[i] = t[i]
      <4>1. t \in taken /\ x = live[at]
        BY <2>2
      <4>2. IF i >= at THEN live[i] = t[i] ELSE Newest[i] = t[i]
        BY <1>1, <3>1, <4>1 DEF IInv, TakenIsSaved, Untaken, Plists
      <4>3. Untaken(i)' <=> i > at
        BY <1>1, <2>6 DEF Untaken, Plists
      <4>4. QED
        BY <1>1, <2>5, <4>1, <4>2, <4>3 DEF Plists
    <3>2. QED
      BY <1>1, <2>3, <3>1 DEF TakenIsSaved
  <2>13. RestoredSoFar'
    BY <2>6 DEF RestoredSoFar
  <2>14. QED
    BY <2>6, <2>7, <2>8, <2>9, <2>10, <2>11, <2>12, <2>13, SilenceIsTrue DEF IInv
<1>4. QED
  BY <1>2, <1>3

LEMMA RemoveKeeps == IInv /\ Remove => IInv'
<1> SUFFICES ASSUME IInv, Remove PROVE IInv'
  OBVIOUS
<1>1. /\ pc = "remove" /\ UNCHANGED <<baks, network, runs, outside, before, botched>>
      /\ NextPlist("copy", "bounce")
      /\ live \in Tables /\ at \in Plists
  BY DEF Remove, IInv, TypeOK
<1>2. /\ Len(baks) > 0
      /\ at \in botched \/ Newest[at] = live[at]
      /\ \A i \in Plists : i > at => Newest[i] = None
  BY <1>1 DEF IInv, CopyFirst, Untaken, Plists
<1>3. /\ at' \in Plists /\ req' = req /\ said' = {}
      /\ \/ pc' = "copy" /\ at' = at + 1
         \/ pc' = "bounce" /\ at' = at /\ at = NPlists
  BY <1>1, NextPlistTyped DEF Pcs
<1>4. /\ live' \in Tables /\ \A i \in Plists : i # at => live'[i] = live[i]
      /\ clean' \in {clean, FALSE} /\ taken' \in {taken, {}}
      /\ live'[at] # live[at] => live'[at] = None
  <2>1. CASE live' = [live EXCEPT ![at] = None] /\ UNCHANGED <<clean, taken>>
    BY <1>1, <2>1 DEF Tables, Content
  <2>2. CASE UNCHANGED live /\ clean' = FALSE /\ taken' = {}
    BY <1>1, <2>2
  <2>3. QED
    BY <2>1, <2>2 DEF Remove, Fails
<1>5. TypeOK'
  BY <1>1, <1>3, <1>4 DEF network, IInv, TypeOK, Pcs
<1>6. CallsMatch'
  BY <1>1, <1>3 DEF IInv, CallsMatch, FixCalls, Stage
<1>7. HarmlessSoFar'
  BY <1>1, <1>3, <1>4 DEF network, IInv, HarmlessSoFar, FixCalls, Acceptable
<1>8. SavedOrUntouched'
  <2>1. ASSUME NEW i \in Plists \ botched
        PROVE  \/ InSomeBackup(i)
               \/ live'[i] = "own" /\ \A d \in 1..Len(baks) : baks[d][i] = None
    <3>1. CASE i = at /\ live[at] = "own" /\ \A d \in 1..Len(baks) : baks[d][i] = None
      <4>1. Len(baks) \in 1..Len(baks)
        BY <1>2 DEF IInv, TypeOK
      <4>2. QED
        BY <1>2, <2>1, <3>1, <4>1 DEF Newest
    <3>2. QED
      BY <1>4, <2>1, <3>1 DEF IInv, SavedOrUntouched
  <2>2. QED
    BY <1>1, <2>1 DEF SavedOrUntouched, InSomeBackup
<1>9. CopyFirst'
  BY <1>1, <1>2, <1>3 DEF CopyFirst, Untaken, Newest, Plists
<1>10. TakenIsSaved'
  <2>1. ASSUME NEW t \in taken', NEW i \in Plists, t[i] # None
        PROVE  IF Untaken(i)' THEN live'[i] = t[i] ELSE Newest[i] = t[i]
    <3>1. t \in taken
      BY <1>4
    <3>2. IF i > at THEN live[i] = t[i] ELSE Newest[i] = t[i]
      BY <1>1, <2>1, <3>1 DEF IInv, TakenIsSaved, Untaken, Plists
    <3>3. Untaken(i)' => i > at
      BY <1>1, <1>3 DEF Untaken, Plists
    <3>4. i > at => Untaken(i)' /\ i # at
      BY <1>1, <1>3 DEF Untaken, Plists
    <3>5. QED
      BY <1>4, <3>2, <3>3, <3>4
  <2>2. QED
    BY <1>1, <1>2, <2>1 DEF TakenIsSaved, Newest
<1>11. RestoredSoFar'
  BY <1>3 DEF RestoredSoFar
<1>12. QED
  BY <1>3, <1>5, <1>6, <1>7, <1>8, <1>9, <1>10, <1>11, SilenceIsTrue DEF IInv

LEMMA BounceKeeps == IInv /\ (Bounce \/ BounceUp) => IInv'
<1> SUFFICES ASSUME IInv, Bounce \/ BounceUp PROVE IInv'
  OBVIOUS
<1>0. clean \in BOOLEAN /\ up \in BOOLEAN /\ servers \in Servers
  BY DEF IInv, TypeOK
<1>1. CASE Bounce
  <2>1. /\ pc = "bounce" /\ UNCHANGED servers /\ Goto("bounce_up")
        /\ pc \in FixCalls \ {"copy", "remove"} /\ Stage(pc) = 6
        /\ UNCHANGED <<wifi, at, runs, outside, before, botched, taken, live, baks>>
        /\ clean' \in {clean, FALSE} /\ up' \in {up, FALSE}
    BY <1>1, Stages DEF Bounce, At, FixCalls, Succeeds, Fails
  <2>2. NetworkTyped
    BY <1>0, <2>1 DEF NetworkTyped
  <2>3. HarmlessSoFar'
    BY <2>1 DEF IInv, HarmlessSoFar, Goto, FixCalls, Acceptable
  <2>4. Stage("bounce_up") = Stage(pc) /\ "bounce_up" \in FixCalls \ {"copy", "remove"}
    BY <2>1, Stages DEF FixCalls
  <2>5. QED
    BY <2>1, <2>2, <2>3, <2>4, GoOnKeeps
<1>2. CASE BounceUp
  <2>1. /\ pc = "bounce_up" /\ UNCHANGED servers /\ Test(6)
        /\ pc \in FixCalls \ {"copy", "remove"} /\ Stage(pc) = 6
        /\ UNCHANGED <<wifi, at, runs, outside, before, botched, taken, live, baks>>
        /\ (clean' = clean /\ up' = TRUE) \/ (clean' = FALSE /\ up' = up)
    BY <1>2, Stages DEF BounceUp, At, FixCalls, Succeeds, Fails
  <2>2. NetworkTyped
    BY <1>0, <2>1 DEF NetworkTyped
  <2>3. clean' => up' /\ Acceptable'
    BY <2>1 DEF IInv, HarmlessSoFar, FixCalls, Acceptable
  <2>4. QED
    BY <2>1, <2>2, <2>3, TestKeeps
<1>3. QED
  BY <1>1, <1>2

LEMMA SetKeeps == IInv /\ (Set \/ Reset) => IInv'
<1> SUFFICES ASSUME IInv, Set \/ Reset PROVE IInv'
  OBVIOUS
<1>1. /\ pc \in {"set", "reset"}
      /\ UNCHANGED <<wifi, at, runs, outside, before, botched, taken, live, baks, up>>
      /\ servers' \in {servers, "own", "dhcp"} /\ clean' \in {clean, FALSE}
      /\ End("done") \/ End("failed")
  BY DEF Set, Reset, At, Succeeds, Fails
<1>2. req.kind # "fix"
  BY <1>1, KindOfCall DEF FixCalls
<1>3. /\ pc' = "idle" /\ req' = NoRequest
      /\ said' \subseteq [kind : {"fix", "set", "reset", "rollback"},
                          result : {"resolved", "done", "restored", "failed"}]
      /\ CallsMatch' /\ HarmlessSoFar'
      /\ CleanFixHarmless' /\ RollbackUndoesNuclear'
  BY <1>1, <1>2, EndKeeps
<1>4. Saved'
  BY <1>1, <1>3, PlistsAlone
<1>5. TypeOK'
  BY <1>1, <1>3 DEF IInv, TypeOK, Pcs, Servers
<1>6. QED
  BY <1>3, <1>4, <1>5 DEF IInv, Saved

LEMMA RestoreKeeps == IInv /\ Restore => IInv'
<1> SUFFICES ASSUME IInv, Restore PROVE IInv'
  OBVIOUS
<1>1. /\ pc = "restore" /\ UNCHANGED <<baks, network, runs, outside, before, botched, taken>>
      /\ live \in Tables /\ at \in Plists /\ clean \in BOOLEAN
      /\ req = [kind |-> "rollback"]
      /\ Len(baks) > 0 /\ baks \in Seq(Tables)
      /\ clean => \A i \in Plists : i < at /\ Newest[i] # None => live[i] = Newest[i]
  BY DEF Restore, IInv, TypeOK, CallsMatch, RestoredSoFar
<1>2. Newest \in Tables /\ Len(baks) \in 1..Len(baks)
  BY <1>1 DEF Newest
<1>3. /\ live' \in Tables /\ \A i \in Plists : i # at => live'[i] = live[i]
      /\ Newest[at] = None => live'[at] = live[at]
      /\ clean' \in BOOLEAN
      /\ clean' => clean /\ (Newest[at] # None => live'[at] = Newest[at])
  <2>1. CASE Newest[at] # None /\ live' = [live EXCEPT ![at] = "short"] /\ clean' = FALSE
    BY <1>1, <2>1 DEF Tables, Content
  <2>2. CASE Newest[at] = None /\ live' = live /\ clean' = clean
    BY <1>1, <2>2
  <2>3. CASE Newest[at] # None /\ live' = [live EXCEPT ![at] = Newest[at]] /\ clean' = clean
    BY <1>1, <1>2, <2>3 DEF Tables
  <2>4. QED
    BY <2>1, <2>2, <2>3 DEF Restore, Succeeds, Fails
<1>4. SavedOrUntouched'
  <2>1. ASSUME NEW i \in Plists \ botched, live[i] = "own",
               \A d \in 1..Len(baks) : baks[d][i] = None
        PROVE  live'[i] = "own"
    BY <1>2, <1>3, <2>1 DEF Newest
  <2>2. QED
    BY <1>1, <2>1 DEF IInv, SavedOrUntouched, InSomeBackup
<1>5. \A i \in Plists : i <= at /\ clean' /\ Newest[i] # None => live'[i] = Newest[i]
  BY <1>1, <1>3 DEF Plists
<1>6. \A t \in taken : \A i \in Plists : t[i] # None => Newest[i] = t[i]
  BY <1>1 DEF IInv, TakenIsSaved, Untaken
<1>7. Newest' = Newest
  BY <1>1 DEF Newest
<1>8. CASE at < NPlists
  <2>1. at' = at + 1 /\ pc' = "restore" /\ said' = {} /\ req' = req
    BY <1>8 DEF Restore, Goto
  <2>2. TypeOK'
    BY <1>1, <1>3, <1>8, <2>1 DEF network, IInv, TypeOK, Pcs, Plists
  <2>3. CallsMatch' /\ HarmlessSoFar' /\ CopyFirst'
    BY <1>1, <2>1 DEF CallsMatch, HarmlessSoFar, CopyFirst, FixCalls
  <2>4. TakenIsSaved'
    BY <1>1, <1>6, <1>7, <2>1 DEF TakenIsSaved, Untaken
  <2>5. RestoredSoFar'
    BY <1>1, <1>5, <1>7, <2>1 DEF RestoredSoFar, Plists
  <2>6. QED
    BY <1>4, <2>1, <2>2, <2>3, <2>4, <2>5, SilenceIsTrue DEF IInv
<1>9. CASE ~(at < NPlists)
  <2>1. at' = at /\ End(IF clean' THEN "restored" ELSE "failed")
    BY <1>9 DEF Restore
  <2> DEFINE m == [kind |-> "rollback", result |-> IF clean' THEN "restored" ELSE "failed"]
  <2>2. pc' = "idle" /\ req' = NoRequest /\ said' = {m}
    BY <1>1, <2>1 DEF End, EndSaying
  <2>3. m \in [kind : {"fix", "set", "reset", "rollback"},
               result : {"resolved", "done", "restored", "failed"}]
    OBVIOUS
  <2>4. m.kind = "rollback" /\ (m.result = "restored" => clean')
    OBVIOUS
  <2> HIDE DEF m
  <2>5. TypeOK'
    BY <1>1, <1>3, <2>1, <2>2, <2>3 DEF network, IInv, TypeOK, Pcs
  <2>6. CallsMatch' /\ HarmlessSoFar' /\ CopyFirst' /\ RestoredSoFar'
    BY <2>2 DEF CallsMatch, HarmlessSoFar, CopyFirst, RestoredSoFar, FixCalls
  <2>7. TakenIsSaved'
    BY <1>1, <1>6, <1>7, <2>2 DEF TakenIsSaved, Untaken
  <2>8. CleanFixHarmless'
    BY <2>2, <2>4 DEF CleanFixHarmless
  <2>9. RollbackUndoesNuclear'
    <3>1. \A i \in Plists : i <= at
      BY <1>1, <1>9 DEF Plists
    <3>2. ASSUME NEW s \in said', s.result = "restored", NEW t \in taken, NEW i \in Plists,
                 t[i] # None
          PROVE  live'[i] = t[i]
      BY <1>5, <1>6, <2>2, <2>4, <3>1, <3>2
    <3>3. QED
      BY <1>1, <3>2 DEF RollbackUndoesNuclear
  <2>10. QED
    BY <1>4, <2>5, <2>6, <2>7, <2>8, <2>9 DEF IInv
<1>10. QED
  BY <1>8, <1>9
-----------------------------------------------------------------------------
LEMMA KillKeeps == IInv /\ Kill => IInv'
<1> SUFFICES ASSUME IInv, Kill PROVE IInv'
  OBVIOUS
<1>1. /\ pc' = "idle" /\ req' = NoRequest /\ said' = {}
      /\ taken' = IF pc \in {"copy", "remove"} THEN {} ELSE taken
      /\ UNCHANGED <<live, baks, network, at, runs, outside, clean, before, botched>>
  BY DEF Kill, EndSaying
<1>2. TypeOK'
  BY <1>1 DEF network, IInv, TypeOK, Pcs
<1>3. CallsMatch' /\ HarmlessSoFar' /\ CopyFirst' /\ RestoredSoFar'
  BY <1>1 DEF CallsMatch, HarmlessSoFar, CopyFirst, RestoredSoFar, FixCalls
<1>4. SavedOrUntouched'
  BY <1>1 DEF IInv, SavedOrUntouched, InSomeBackup
<1>5. TakenIsSaved'
  BY <1>1 DEF IInv, TakenIsSaved, Untaken, Newest
<1>6. QED
  BY <1>1, <1>2, <1>3, <1>4, <1>5, SilenceIsTrue DEF IInv

LEMMA InvokeKeeps == IInv /\ Invoke => IInv'
<1> SUFFICES ASSUME IInv, Invoke PROVE IInv'
  OBVIOUS
<1>1. /\ pc = "idle" /\ runs' = runs + 1 /\ at' = 1 /\ clean' = TRUE /\ before' = servers
      /\ said' = {} /\ UNCHANGED <<live, baks, network, outside, botched, taken>>
  BY DEF Invoke
<1>2. PICK r \in Request :
        /\ r.kind = "fix" => up /\ (r.start = 6 => r.leave)
        /\ r.kind = "rollback" => baks # <<>>
        /\ req' = r
        /\ pc' = CASE r.kind = "fix" -> Steps[r.start]
                   [] r.kind = "rollback" -> "restore"
                   [] OTHER -> r.kind
  BY DEF Invoke
<1>3. \/ /\ r \in FixRequest /\ up
         /\ pc' \in {"flush", "rebuild", "uniform", "cycle", "vpn", "nuclear"}
         /\ Stage(pc') <= r.stop
      \/ r = [kind |-> "set"] /\ pc' = "set"
      \/ r = [kind |-> "reset"] /\ pc' = "reset"
      \/ r = [kind |-> "rollback"] /\ pc' = "restore" /\ Len(baks) > 0
  <2>1. CASE r \in FixRequest
    <3>1. /\ r.kind = "fix" /\ r.start \in 1..6 /\ r.stop \in 1..6 /\ r.start <= r.stop
      BY <2>1, Requests
    <3>2. pc' = Steps[r.start] /\ up
      BY <1>2, <3>1
    <3>3. r.start = 1 \/ r.start = 2 \/ r.start = 3 \/ r.start = 4 \/ r.start = 5 \/ r.start = 6
      BY <3>1
    <3>4. /\ pc' \in {"flush", "rebuild", "uniform", "cycle", "vpn", "nuclear"}
          /\ Stage(pc') = r.start
      BY <3>2, <3>3, Stages DEF Steps
    <3>5. QED
      BY <2>1, <3>1, <3>2, <3>4
  <2>2. CASE r \in [kind : {"set", "reset", "rollback"}]
    <3>1. r = [kind |-> r.kind] /\ r.kind \in {"set", "reset", "rollback"}
      BY <2>2
    <3>2. baks # <<>> => Len(baks) > 0
      BY DEF IInv, TypeOK
    <3>3. CASE r.kind = "set"
      BY <1>2, <3>1, <3>3
    <3>4. CASE r.kind = "reset"
      BY <1>2, <3>1, <3>4
    <3>5. CASE r.kind = "rollback"
      BY <1>2, <3>1, <3>2, <3>5
    <3>6. QED
      BY <3>1, <3>3, <3>4, <3>5
  <2>3. QED
    BY <2>1, <2>2, Requests
<1>4. pc' \in Pcs /\ pc' \notin {"copy", "remove"}
  BY <1>3 DEF Pcs
<1>5. TypeOK'
  BY <1>1, <1>2, <1>4 DEF network, IInv, TypeOK, Plists
<1>6. CallsMatch'
  BY <1>2, <1>3 DEF CallsMatch, FixCalls
<1>7. HarmlessSoFar'
  BY <1>1, <1>3 DEF network, HarmlessSoFar, FixCalls, Acceptable
<1>8. SavedOrUntouched'
  BY <1>1 DEF IInv, SavedOrUntouched, InSomeBackup
<1>9. CopyFirst' /\ TakenIsSaved'
  BY <1>1, <1>4 DEF IInv, CopyFirst, TakenIsSaved, Untaken, Newest
<1>10. RestoredSoFar'
  BY <1>1, <1>3 DEF RestoredSoFar, Plists
<1>11. QED
  BY <1>1, <1>5, <1>6, <1>7, <1>8, <1>9, <1>10, SilenceIsTrue DEF IInv

LEMMA RepairKeeps == IInv /\ Repair => IInv'
<1> SUFFICES ASSUME IInv, Repair PROVE IInv'
  OBVIOUS
<1>1. /\ pc = "idle" /\ outside' = outside + 1 /\ up' = TRUE /\ said' = {}
      /\ UNCHANGED <<baks, servers, wifi, pc, req, at, runs, history>>
      /\ live' \in {live, [i \in Plists |-> IF live[i] = None THEN "fresh" ELSE live[i]]}
  BY DEF Repair
<1>2. live' \in Tables /\ \A i \in Plists : live[i] = "own" => live'[i] = "own"
  BY <1>1 DEF IInv, TypeOK, Tables, Content
<1>3. TypeOK'
  BY <1>1, <1>2 DEF history, IInv, TypeOK
<1>4. CallsMatch' /\ HarmlessSoFar' /\ CopyFirst' /\ RestoredSoFar'
  BY <1>1 DEF CallsMatch, HarmlessSoFar, CopyFirst, RestoredSoFar, FixCalls, IInv
<1>5. SavedOrUntouched'
  BY <1>1, <1>2 DEF history, IInv, SavedOrUntouched, InSomeBackup
<1>6. TakenIsSaved'
  BY <1>1 DEF history, IInv, TakenIsSaved, Untaken, Newest
<1>7. QED
  BY <1>1, <1>3, <1>4, <1>5, <1>6, SilenceIsTrue DEF IInv

LEMMA InitIInv == Init => IInv
<1> SUFFICES ASSUME Init PROVE IInv
  OBVIOUS
<1>1. TypeOK
  BY DEF Init, TypeOK, Tables, Content, Servers, Pcs, Plists
<1>2. /\ CallsMatch /\ HarmlessSoFar /\ CleanFixHarmless /\ CopyFirst /\ TakenIsSaved
      /\ RestoredSoFar /\ RollbackUndoesNuclear
  BY DEF Init, CallsMatch, HarmlessSoFar, CleanFixHarmless, CopyFirst, TakenIsSaved,
     RestoredSoFar, RollbackUndoesNuclear, FixCalls
<1>3. SavedOrUntouched
  BY DEF Init, SavedOrUntouched
<1>4. QED
  BY <1>1, <1>2, <1>3 DEF IInv

LEMMA NextIInv == IInv /\ [Next]_vars => IInv'
<1>1. IInv /\ UNCHANGED vars => IInv'
  BY DEF vars, network, history, IInv, TypeOK, CallsMatch, HarmlessSoFar, Acceptable,
     CleanFixHarmless, SavedOrUntouched, InSomeBackup, CopyFirst, Untaken, Newest,
     TakenIsSaved, RestoredSoFar, RollbackUndoesNuclear
<1>2. QED
  BY <1>1, Steps1To5, NuclearKeeps, CopyKeeps, RemoveKeeps, BounceKeeps, SetKeeps,
     RestoreKeeps, KillKeeps, InvokeKeeps, RepairKeeps DEF Next

THEOREM Invariance == Spec => []IInv
BY InitIInv, NextIInv, PTL DEF Spec

\* The plists, the backup directories, the network, and what the run remembers
\* keep their types, for any number of plists and runs.
THEOREM TypeCorrect == Spec => []TypeOK
<1>1. IInv => TypeOK
  BY DEF IInv
<1>2. QED
  BY <1>1, Invariance, PTL

\* However many plists, nuclear steps, reboots, kills and failed rollbacks there
\* are, the user loses no plist whose copies all succeeded.
THEOREM CopiedNotLostHolds == Spec => []CopiedNotLost
<1>1. IInv => CopiedNotLost
  BY DEF IInv, SavedOrUntouched, CopiedNotLost
<1>2. QED
  BY <1>1, Invariance, PTL

\* For any number of plists, a rollback that reports success undoes the newest
\* nuclear step.
THEOREM RollbackUndoesNuclearHolds == Spec => []RollbackUndoesNuclear
<1>1. IInv => RollbackUndoesNuclear
  BY DEF IInv
<1>2. QED
  BY <1>1, Invariance, PTL

\* In whichever step it ends, a fix none of whose commands failed leaves the
\* interface up, and the servers it found or those of a profile.
THEOREM CleanFixHarmlessHolds == Spec => []CleanFixHarmless
<1>1. IInv => CleanFixHarmless
  BY DEF IInv
<1>2. QED
  BY <1>1, Invariance, PTL
==============================================================================
