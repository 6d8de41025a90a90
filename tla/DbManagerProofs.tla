--------------------------- MODULE DbManagerProofs ---------------------------
(***************************************************************************)
(* Theorems about DbManager: data is lost only to a confirmed reset, for   *)
(* any number of overlapping runs; and without overlap what is reported is *)
(* true, and no database runs over a directory that is gone.               *)
(***************************************************************************)
EXTENDS MCDbManager, TLAPS

USE VolumesAssumption, NoneAssumption, NoContainerAssumption

UpCalls == {"find", "mkdir", "create", "begin", "start"}

\* A run makes the calls of what it was asked, and a reset was confirmed.
CallsMatch(p) ==
    /\ pc[p] \in UpCalls => req[p].kind = "up"
    /\ pc[p] = "mkdir" => req[p].vol # None
    /\ pc[p] \in {"stop", "remove"} => req[p].kind \in {"down", "reset"}
    /\ pc[p] = "remove_volume" => req[p].kind = "reset"
    /\ req[p].kind = "reset" => req[p].id \in authorised

IInv ==
    /\ TypeOK
    /\ \A p \in Procs : CallsMatch(p)
    /\ VolumeLossAuthorised

LEMMA RequestKinds ==
    ASSUME NEW r \in {NoRequest} \cup Request
    PROVE  /\ r.kind = "up" => /\ r.id \in Ids /\ r.port \in Ports
                               /\ r.vol \in Volume /\ r.dry \in BOOLEAN
           /\ r.kind \in {"down", "reset"} => r.id \in Ids
           /\ r.kind # "none" => r \in Request
BY DEF NoRequest, Request

\* A run that ends keeps the variables it resets good.
LEMMA EndKeeps ==
    ASSUME IInv, NEW p \in Procs, NEW r, EndSaying(p, r), UNCHANGED authorised
    PROVE  /\ pc' \in [Procs -> Pcs]
           /\ req' \in [Procs -> {NoRequest} \cup Request]
           /\ \A q \in Procs : CallsMatch(q)'
           /\ said' = r
<1>1. pc' \in [Procs -> Pcs] /\ req' \in [Procs -> {NoRequest} \cup Request]
  BY DEF IInv, TypeOK, EndSaying, Pcs
<1>2. ASSUME NEW q \in Procs PROVE CallsMatch(q)'
  BY DEF IInv, TypeOK, EndSaying, CallsMatch, NoRequest, UpCalls
<1>3. QED
  BY <1>1, <1>2 DEF EndSaying

\* A run that goes on to a call that fits what it was asked keeps them good.
LEMMA GotoKeeps ==
    ASSUME IInv, NEW p \in Procs, NEW l \in Pcs, Goto(p, l), UNCHANGED authorised,
           l \in UpCalls => req[p].kind = "up",
           l = "mkdir" => req[p].vol # None,
           l \in {"stop", "remove"} => req[p].kind \in {"down", "reset"},
           l = "remove_volume" => req[p].kind = "reset"
    PROVE  /\ pc' \in [Procs -> Pcs]
           /\ req' \in [Procs -> {NoRequest} \cup Request]
           /\ \A q \in Procs : CallsMatch(q)'
           /\ said' = {}
<1>1. pc' \in [Procs -> Pcs] /\ req' \in [Procs -> {NoRequest} \cup Request]
  BY DEF IInv, TypeOK, Goto
<1>2. ASSUME NEW q \in Procs PROVE CallsMatch(q)'
  BY DEF IInv, TypeOK, Goto, CallsMatch, UpCalls
<1>3. QED
  BY <1>1, <1>2 DEF Goto

LEMMA MessagesTyped ==
    ASSUME IInv, NEW p \in Procs, pc[p] # "idle"
    PROVE  /\ req[p].id \in Ids
           /\ req[p].kind \in {"up", "down", "reset"}
           /\ [action |-> "failed", id |-> req[p].id, kind |-> req[p].kind] \in Message
           /\ \A a \in {"removed", "reset"} :
                [action |-> a, id |-> req[p].id] \in Message
           /\ pc[p] \in UpCalls => \A a \in {"created", "started", "already_running"} :
                [action |-> a, id |-> req[p].id, port |-> req[p].port] \in Message
<1>1. req[p].kind \in {"up", "down", "reset"}
  BY DEF IInv, TypeOK, CallsMatch, UpCalls, Pcs
<1>2. req[p].id \in Ids /\ (req[p].kind = "up" => req[p].port \in Ports)
  BY <1>1, RequestKinds DEF IInv, TypeOK
<1>3. QED
  BY <1>1, <1>2 DEF Message, IInv, CallsMatch

\* The last words of a run are a message, and its end disturbs no other.
LEMMA LastWords ==
    ASSUME IInv, NEW p \in Procs, pc[p] # "idle", UNCHANGED authorised,
           \/ Fail(p) \/ EndQuietly(p)
           \/ \E a \in {"removed", "reset"} : ReportBare(p, a)
           \/ /\ pc[p] \in UpCalls
              /\ \E a \in {"created", "started", "already_running"} : Report(p, a)
    PROVE  /\ pc' \in [Procs -> Pcs]
           /\ req' \in [Procs -> {NoRequest} \cup Request]
           /\ \A q \in Procs : CallsMatch(q)'
           /\ said' \subseteq Message
<1>1. PICK r : EndSaying(p, r) /\ r \subseteq Message
  <2>1. CASE Fail(p)
    <3> DEFINE m == [action |-> "failed", id |-> req[p].id, kind |-> req[p].kind]
    <3>1. EndSaying(p, {m})
      BY <2>1 DEF Fail
    <3>2. m \in Message
      BY MessagesTyped
    <3> HIDE DEF m
    <3>3. QED
      BY <3>1, <3>2
  <2>2. CASE EndQuietly(p)
    BY <2>2 DEF EndQuietly
  <2>3. CASE \E a \in {"removed", "reset"} : ReportBare(p, a)
    <3> PICK a \in {"removed", "reset"} : ReportBare(p, a)
      BY <2>3
    <3> DEFINE m == [action |-> a, id |-> req[p].id]
    <3>1. EndSaying(p, {m})
      BY DEF ReportBare
    <3>2. m \in Message
      BY MessagesTyped
    <3> HIDE DEF m
    <3>3. QED
      BY <3>1, <3>2
  <2>4. CASE /\ pc[p] \in UpCalls
             /\ \E a \in {"created", "started", "already_running"} : Report(p, a)
    <3> PICK a \in {"created", "started", "already_running"} : Report(p, a)
      BY <2>4
    <3> DEFINE m == [action |-> a, id |-> req[p].id, port |-> req[p].port]
    <3>1. EndSaying(p, {m})
      BY DEF Report
    <3>2. m \in Message
      BY <2>4, MessagesTyped
    <3> HIDE DEF m
    <3>3. QED
      BY <3>1, <3>2
  <2>5. QED
    BY <2>1, <2>2, <2>3, <2>4
<1>2. QED
  BY <1>1, EndKeeps

\* What the daemon does to a container leaves a table of containers.
LEMMA DaemonTyped ==
    ASSUME IInv, NEW i \in Ids
    PROVE  /\ Stopped(cont, i) \in [Ids -> {None} \cup Container]
           /\ Removed(cont, i) \in [Ids -> {None} \cup Container]
           /\ Exists(cont, i) => /\ Started(cont, i) \in [Ids -> {None} \cup Container]
                                 /\ cont[i].vol \in Volume
BY DEF IInv, TypeOK, Stopped, Removed, Started, Exists, IsRunning, Container, Statuses

LEMMA DaemonStartsKeeps ==
    ASSUME IInv, NEW p \in Procs, NEW a \in {"created", "started"}, pc[p] \in UpCalls,
           Exists(cont, req[p].id), DaemonStarts(p, req[p].id, a), UNCHANGED authorised
    PROVE  /\ cont' \in [Ids -> {None} \cup Container]
           /\ vols \subseteq vols' /\ vols' \subseteq Vols
           /\ pc' \in [Procs -> Pcs]
           /\ req' \in [Procs -> {NoRequest} \cup Request]
           /\ \A q \in Procs : CallsMatch(q)'
           /\ said' \subseteq Message
<1>1. pc[p] # "idle"
  BY DEF UpCalls
<1>2. req[p].id \in Ids
  BY <1>1, MessagesTyped
<1>3. CASE MayStart(cont, req[p].id, foreign)
  <2>1. /\ cont' = Started(cont, req[p].id)
        /\ vols' = vols \cup ({cont[req[p].id].vol} \ {None})
        /\ Report(p, a)
    BY <1>3 DEF DaemonStarts
  <2>2. QED
    BY <1>1, <1>2, <2>1, LastWords, DaemonTyped DEF IInv, TypeOK, Volume
<1>4. CASE ~MayStart(cont, req[p].id, foreign)
  <2>1. /\ Fail(p)
        /\ UNCHANGED <<cont, vols>>
    BY <1>4 DEF DaemonStarts
  <2>2. QED
    BY <1>1, <2>1, LastWords DEF IInv, TypeOK
<1>5. QED
  BY <1>3, <1>4
-----------------------------------------------------------------------------
LEMMA InitIInv == Init => IInv
<1>1. Init => TypeOK
  BY DEF Init, TypeOK, Pcs
<1>2. Init => \A p \in Procs : CallsMatch(p)
  <2>1. NoRequest.kind = "none"
    BY DEF NoRequest
  <2>2. Init => \A p \in Procs : pc[p] = "idle" /\ req[p] = NoRequest
    BY DEF Init
  <2>3. QED
    BY <2>1, <2>2 DEF CallsMatch, UpCalls
<1>3. Init => VolumeLossAuthorised
  BY DEF Init, VolumeLossAuthorised
<1>4. QED
  BY <1>1, <1>2, <1>3 DEF IInv

LEMMA NextIInv == IInv /\ [Next]_vars => IInv'
<1> SUFFICES ASSUME IInv, [Next]_vars
             PROVE  IInv'
  OBVIOUS
<1> USE DEF run
<1>1. ASSUME NEW p \in Procs, Invoke(p) PROVE IInv'
  <2> PICK r \in Request :
        /\ pc' = [pc EXCEPT ![p] = FirstCall(r)]
        /\ req' = [req EXCEPT ![p] = r]
        /\ authorised' = IF r.kind = "reset" THEN authorised \cup {r.id} ELSE authorised
    BY <1>1 DEF Invoke
  <2>1. r.kind \in {"up", "down", "reset"} /\ r.id \in Ids
    BY DEF Request
  <2>2. TypeOK'
    BY <1>1, <2>1 DEF Invoke, IInv, TypeOK, FirstCall, Pcs
  <2>3. ASSUME NEW q \in Procs PROVE CallsMatch(q)'
    <3>1. CASE q = p
      BY <2>1, <3>1 DEF IInv, TypeOK, CallsMatch, FirstCall, UpCalls
    <3>2. CASE q # p
      BY <2>1, <3>2 DEF IInv, TypeOK, CallsMatch
    <3>3. QED
      BY <3>1, <3>2
  <2>4. VolumeLossAuthorised'
    BY <1>1 DEF Invoke, IInv, VolumeLossAuthorised
  <2>5. QED
    BY <2>2, <2>3, <2>4 DEF IInv
<1>2. ASSUME NEW p \in Procs, Find(p) PROVE IInv'
  <2>1. pc[p] = "find" /\ req[p].kind = "up" /\ UNCHANGED <<cont, vols, foreign, runs, outside, authorised, owned>>
    BY <1>2 DEF Find, IInv, CallsMatch, UpCalls
  <2>2. \/ Report(p, "already_running")
        \/ EndQuietly(p)
        \/ Goto(p, "start")
        \/ Goto(p, "create")
        \/ Goto(p, "mkdir") /\ req[p].vol # None
    BY <1>2 DEF Find, NeedsDir
  <2>3. /\ pc' \in [Procs -> Pcs]
        /\ req' \in [Procs -> {NoRequest} \cup Request]
        /\ \A q \in Procs : CallsMatch(q)'
        /\ said' \subseteq Message
    <3>1. CASE Report(p, "already_running") \/ EndQuietly(p)
      BY <2>1, <3>1, LastWords DEF UpCalls
    <3>2. CASE Goto(p, "start")
      BY <2>1, <3>2, GotoKeeps DEF Pcs
    <3>3. CASE Goto(p, "create")
      BY <2>1, <3>3, GotoKeeps DEF Pcs
    <3>4. CASE Goto(p, "mkdir") /\ req[p].vol # None
      BY <2>1, <3>4, GotoKeeps DEF Pcs
    <3>5. QED
      BY <2>2, <3>1, <3>2, <3>3, <3>4
  <2>4. QED
    BY <2>1, <2>3 DEF IInv, TypeOK, VolumeLossAuthorised
<1>3. ASSUME NEW p \in Procs, MkDir(p) PROVE IInv'
  <2>1. pc[p] = "mkdir" /\ req[p].kind = "up" /\ req[p].vol # None /\ req[p].id \in Ids
    BY <1>3, MessagesTyped DEF MkDir, IInv, CallsMatch, UpCalls
  <2>2. req[p].vol \in Vols
    BY <2>1, RequestKinds DEF IInv, TypeOK, Volume
  <2>3. /\ pc' \in [Procs -> Pcs]
        /\ req' \in [Procs -> {NoRequest} \cup Request]
        /\ \A q \in Procs : CallsMatch(q)'
        /\ said' = {}
    BY <1>3, <2>1, GotoKeeps DEF MkDir, Pcs
  <2>4. TypeOK'
    BY <1>3, <2>1, <2>2, <2>3 DEF MkDir, IInv, TypeOK
  <2>5. VolumeLossAuthorised'
    BY <1>3, <2>1 DEF MkDir, IInv, TypeOK, VolumeLossAuthorised
  <2>6. QED
    BY <2>3, <2>4, <2>5 DEF IInv
<1>4. ASSUME NEW p \in Procs, Create(p) PROVE IInv'
  <2>1. /\ pc[p] = "create" /\ req[p].kind = "up" /\ req[p].id \in Ids
        /\ UNCHANGED <<vols, foreign, runs, outside, authorised, owned>>
    BY <1>4, MessagesTyped DEF Create, IInv, CallsMatch, UpCalls
  <2>2. CASE Exists(cont, req[p].id)
    <3>1. /\ Fail(p)
          /\ UNCHANGED cont
      BY <1>4, <2>2 DEF Create
    <3>2. QED
      BY <2>1, <3>1, LastWords DEF IInv, TypeOK, VolumeLossAuthorised
  <2>3. CASE ~Exists(cont, req[p].id)
    <3> DEFINE c == [status |-> "created", port |-> req[p].port, vol |-> req[p].vol, by |-> p]
    <3>1. cont' = [cont EXCEPT ![req[p].id] = c] /\ Goto(p, "begin")
      BY <1>4, <2>3 DEF Create, Created
    <3>2. c \in Container
      BY <2>1, RequestKinds DEF Container, Statuses, IInv, TypeOK
    <3>3. cont' \in [Ids -> {None} \cup Container]
      BY <2>1, <3>1, <3>2 DEF IInv, TypeOK
    <3>4. QED
      BY <2>1, <3>1, <3>3, GotoKeeps DEF IInv, TypeOK, VolumeLossAuthorised, Pcs
  <2>4. QED
    BY <2>2, <2>3
<1>5. ASSUME NEW p \in Procs, Begin(p) PROVE IInv'
  <2>1. pc[p] = "begin" /\ UNCHANGED <<foreign, runs, outside, authorised, owned>>
    BY <1>5 DEF Begin
  <2>2. CASE IsMine(cont, req[p].id, p)
    <3>1. Exists(cont, req[p].id) /\ DaemonStarts(p, req[p].id, "created")
      BY <1>5, <2>2 DEF Begin, IsMine
    <3>2. QED
      BY <2>1, <3>1, DaemonStartsKeeps DEF UpCalls, IInv, TypeOK, VolumeLossAuthorised
  <2>3. CASE ~IsMine(cont, req[p].id, p)
    <3>1. /\ Fail(p)
          /\ UNCHANGED <<cont, vols>>
      BY <1>5, <2>3 DEF Begin
    <3>2. QED
      BY <2>1, <3>1, LastWords DEF IInv, TypeOK, VolumeLossAuthorised
  <2>4. QED
    BY <2>2, <2>3
<1>6. ASSUME NEW p \in Procs, Start(p) PROVE IInv'
  <2>1. pc[p] = "start" /\ UNCHANGED <<foreign, runs, outside, authorised, owned>>
    BY <1>6 DEF Start
  <2>2. CASE Exists(cont, req[p].id)
    <3>1. DaemonStarts(p, req[p].id, "started")
      BY <1>6, <2>2 DEF Start
    <3>2. QED
      BY <2>1, <2>2, <3>1, DaemonStartsKeeps DEF UpCalls, IInv, TypeOK, VolumeLossAuthorised
  <2>3. CASE ~Exists(cont, req[p].id)
    <3>1. /\ Report(p, "started")
          /\ UNCHANGED <<cont, vols>>
      BY <1>6, <2>3 DEF Start
    <3>2. QED
      BY <2>1, <3>1, LastWords DEF UpCalls, IInv, TypeOK, VolumeLossAuthorised
  <2>4. QED
    BY <2>2, <2>3
<1>7. ASSUME NEW p \in Procs, Stop(p) PROVE IInv'
  <2>1. pc[p] = "stop" /\ req[p].kind \in {"down", "reset"} /\ req[p].id \in Ids
    BY <1>7, MessagesTyped DEF Stop, IInv, CallsMatch
  <2>2. QED
    BY <1>7, <2>1, GotoKeeps, DaemonTyped DEF Stop, IInv, TypeOK, VolumeLossAuthorised, Pcs, UpCalls
<1>8. ASSUME NEW p \in Procs, Remove(p) PROVE IInv'
  <2>1. /\ pc[p] = "remove" /\ req[p].kind \in {"down", "reset"} /\ req[p].id \in Ids
        /\ UNCHANGED <<vols, foreign, runs, outside, authorised, owned>>
    BY <1>8, MessagesTyped DEF Remove, IInv, CallsMatch
  <2>2. /\ cont' \in {cont, Removed(cont, req[p].id)}
        /\ \/ Fail(p)
           \/ ReportBare(p, "removed")
           \/ Goto(p, "remove_volume") /\ req[p].kind = "reset"
    BY <1>8 DEF Remove
  <2>3. cont' \in [Ids -> {None} \cup Container]
    BY <2>1, <2>2, DaemonTyped DEF IInv, TypeOK
  <2>4. /\ pc' \in [Procs -> Pcs]
        /\ req' \in [Procs -> {NoRequest} \cup Request]
        /\ \A q \in Procs : CallsMatch(q)'
        /\ said' \subseteq Message
    <3>1. CASE Fail(p)
      BY <2>1, <3>1, LastWords
    <3>2. CASE ReportBare(p, "removed")
      BY <2>1, <3>2, LastWords
    <3>3. CASE Goto(p, "remove_volume") /\ req[p].kind = "reset"
      BY <2>1, <3>3, GotoKeeps DEF Pcs, UpCalls
    <3>4. QED
      BY <2>2, <3>1, <3>2, <3>3
  <2>5. QED
    BY <2>1, <2>3, <2>4 DEF IInv, TypeOK, VolumeLossAuthorised
<1>9. ASSUME NEW p \in Procs, RemoveVolume(p) PROVE IInv'
  <2>1. /\ pc[p] = "remove_volume" /\ req[p].kind = "reset"
        /\ req[p].id \in Ids /\ req[p].id \in authorised
    BY <1>9, MessagesTyped DEF RemoveVolume, IInv, CallsMatch
  <2>2. /\ pc' \in [Procs -> Pcs]
        /\ req' \in [Procs -> {NoRequest} \cup Request]
        /\ \A q \in Procs : CallsMatch(q)'
        /\ said' \subseteq Message
    BY <1>9, <2>1, LastWords DEF RemoveVolume
  <2>3. TypeOK'
    BY <1>9, <2>1, <2>2 DEF RemoveVolume, IInv, TypeOK
  <2>4. VolumeLossAuthorised'
    BY <1>9, <2>1 DEF RemoveVolume, IInv, TypeOK, VolumeLossAuthorised
  <2>5. QED
    BY <2>2, <2>3, <2>4 DEF IInv
<1>10. ASSUME NEW p \in Procs, Kill(p) PROVE IInv'
  BY <1>10, LastWords DEF Kill, Idle, IInv, TypeOK, VolumeLossAuthorised
<1>11. ASSUME Environment PROVE IInv'
  <2>1. /\ cont' \in [Ids -> {None} \cup Container]
        /\ vols \subseteq vols' /\ vols' \subseteq Vols
        /\ foreign' \subseteq Ports
    BY <1>11, DaemonTyped DEF Environment, OtherProgramTakes, OtherProgramReleases,
       StopsBehind, StartsBehind, IInv, TypeOK, Volume
  <2>2. outside' = outside + 1 /\ said' = {} /\ UNCHANGED <<run, runs, authorised, owned>>
    BY <1>11 DEF Environment, OtherProgramTakes, OtherProgramReleases, StopsBehind,
       StartsBehind, Outside
  <2>3. QED
    BY <2>1, <2>2 DEF IInv, TypeOK, CallsMatch, VolumeLossAuthorised
<1>12. CASE UNCHANGED vars
  BY <1>12 DEF vars, IInv, TypeOK, CallsMatch, VolumeLossAuthorised
<1>13. QED
  BY <1>1, <1>2, <1>3, <1>4, <1>5, <1>6, <1>7, <1>8, <1>9, <1>10, <1>11, <1>12
  DEF Next, Step

\* Type correctness: requests, containers and messages stay what they are.
THEOREM TypeCorrect == Spec => []TypeOK
<1>1. IInv => TypeOK
  BY DEF IInv
<1>2. QED
  BY InitIInv, NextIInv, <1>1, PTL DEF Spec

\* Data is lost only to a confirmed reset of the instance whose default
\* directory it is, for any number of overlapping runs killed anywhere.
THEOREM VolumeLossAuthorisedHolds == Spec => []VolumeLossAuthorised
<1>1. IInv => VolumeLossAuthorised
  BY DEF IInv
<1>2. QED
  BY InitIInv, NextIInv, <1>1, PTL DEF Spec
-----------------------------------------------------------------------------
\* No --volume and no other instance names the default directory of one.
DistinctVolumes ==
    /\ \A i, j \in Ids : i # j => DefaultVolume[i] # DefaultVolume[j]
    /\ \A i \in Ids : DefaultVolume[i] \notin CustomVols

OneAtATime == \A p, q \in Procs : ~Idle(p) /\ ~Idle(q) => p = q

\* Containers, and those about to be made, use a directory they may use.
UseOwn ==
    /\ \A i \in Ids : Exists(cont, i) => cont[i].vol \in MayUse(i)
    /\ \A p \in Procs : req[p].kind = "up" => req[p].vol \in MayUse(req[p].id)

\* When reset comes to the directory, the container is gone and stays so.
GoneBeforeVolume ==
    \A p \in Procs : pc[p] = "remove_volume" => ~Exists(cont, req[p].id)

SerialIInv == IInv /\ OneAtATime /\ UseOwn /\ GoneBeforeVolume /\ RunningHasVolume

\* What a step of run p may do, for the parts of SerialIInv on other runs.
LEMMA StepIsLocal ==
    ASSUME IInv, NEW p \in Procs, Step(p)
    PROVE  /\ ~Idle(p)
           /\ \A q \in Procs : q # p => pc'[q] = pc[q] /\ req'[q] = req[q]
           /\ req'[p] \in {req[p], NoRequest}
           /\ pc'[p] = "remove_volume" => pc[p] = "remove" /\ req'[p] = req[p]
<1>1. \/ \E l : Goto(p, l) /\ (l = "remove_volume" => pc[p] = "remove")
      \/ \E r : EndSaying(p, r)
  BY DEF Step, Find, MkDir, Create, Begin, Start, Stop, Remove, RemoveVolume, Kill,
     DaemonStarts, Report, ReportBare, Fail, EndQuietly
<1>2. ~Idle(p)
  BY DEF Step, Find, MkDir, Create, Begin, Start, Stop, Remove, RemoveVolume, Kill, Idle
<1>3. QED
  BY <1>1, <1>2 DEF Goto, EndSaying, IInv, TypeOK

LEMMA OneAtATimeStep ==
    ASSUME IInv, OneAtATime, [SerialNext]_vars
    PROVE  OneAtATime'
<1> USE DEF OneAtATime, Idle
<1>1. ASSUME NEW p \in Procs, \A q \in Procs : Idle(q), Invoke(p) PROVE OneAtATime'
  BY <1>1 DEF Invoke, IInv, TypeOK
<1>2. ASSUME NEW p \in Procs, Step(p) PROVE OneAtATime'
  BY <1>2, StepIsLocal
<1>3. ASSUME Environment PROVE OneAtATime'
  BY <1>3 DEF Environment, OtherProgramTakes, OtherProgramReleases, StopsBehind,
     StartsBehind, Outside, run
<1>4. CASE UNCHANGED vars
  BY <1>4 DEF vars, run
<1>5. QED
  BY <1>1, <1>2, <1>3, <1>4 DEF SerialNext

\* The containers a step of run p leaves: as before but for at most the one it
\* works on, which is new, gone, or the same with another status.
LEMMA ContainersAfterStep ==
    ASSUME IInv, NEW p \in Procs, Step(p), NEW i \in Ids
    PROVE  \/ cont'[i] = cont[i]
           \/ cont'[i] = None
           \/ /\ cont[i] # None /\ cont'[i] # None
              /\ cont'[i].vol = cont[i].vol
              /\ cont'[i].status = "running" => cont[i].vol \in vols' \cup {None}
           \/ /\ pc[p] = "create" /\ i = req[p].id
              /\ cont'[i].vol = req[p].vol /\ cont'[i].status # "running"
<1> USE DEF Exists, IsRunning, Stopped, Removed, Started, Created
<1>1. cont \in [Ids -> {None} \cup Container]
  BY DEF IInv, TypeOK
<1>2. CASE Find(p) \/ MkDir(p) \/ RemoveVolume(p) \/ Kill(p)
  BY <1>2 DEF Find, MkDir, RemoveVolume, Kill
<1>3. CASE Create(p)
  BY <1>1, <1>3 DEF Create
<1>4. CASE Begin(p)
  BY <1>1, <1>4 DEF Begin, DaemonStarts, Container, IsMine
<1>5. CASE Start(p)
  BY <1>1, <1>5 DEF Start, DaemonStarts, Container
<1>6. CASE Stop(p)
  BY <1>1, <1>6 DEF Stop, Container
<1>7. CASE Remove(p)
  BY <1>1, <1>7 DEF Remove
<1>8. QED
  BY <1>2, <1>3, <1>4, <1>5, <1>6, <1>7 DEF Step

\* Nothing behind shimkit's back makes a container or removes a directory
\* that is in use.
LEMMA ContainersAfterEnvironment ==
    ASSUME IInv, Environment, NEW i \in Ids
    PROVE  /\ cont[i] = None => cont'[i] = None
           /\ vols \subseteq vols'
           /\ cont[i] # None =>
                /\ cont'[i].vol = cont[i].vol
                /\ cont'[i].status = "running" =>
                     \/ cont[i].status = "running"
                     \/ cont[i].vol \in vols' \cup {None}
<1>1. cont \in [Ids -> {None} \cup Container]
  BY DEF IInv, TypeOK
<1>2. QED
  BY <1>1 DEF Environment, OtherProgramTakes, OtherProgramReleases, StopsBehind,
     StartsBehind, Outside, Container, Exists, IsRunning, Stopped, Started

\* Only reset's last call takes a directory away.
LEMMA VolumesAfterStep ==
    ASSUME IInv, NEW p \in Procs, Step(p), NEW v \in vols
    PROVE  \/ v \in vols'
           \/ pc[p] = "remove_volume" /\ v = DefaultVolume[req[p].id] /\ cont' = cont
<1>1. CASE RemoveVolume(p)
  BY <1>1 DEF RemoveVolume
<1>2. CASE ~RemoveVolume(p)
  BY <1>2 DEF Step, Find, MkDir, Create, Begin, Start, Stop, Remove, Kill, DaemonStarts
<1>3. QED
  BY <1>1, <1>2

LEMMA SerialStep ==
    ASSUME DistinctVolumes, SerialIInv, IInv', [SerialNext]_vars
    PROVE  UseOwn' /\ GoneBeforeVolume' /\ RunningHasVolume'
<1> USE DEF Exists, IsRunning
<1>1. ASSUME NEW p \in Procs, Invoke(p), \A q \in Procs : Idle(q)
      PROVE  UseOwn' /\ GoneBeforeVolume' /\ RunningHasVolume'
  <2>1. UNCHANGED <<cont, vols>>
    BY <1>1 DEF Invoke
  <2>2. PICK r \in Request :
          /\ r.kind = "up" => r.vol \in MayUse(r.id)
          /\ pc' = [pc EXCEPT ![p] = FirstCall(r)]
          /\ req' = [req EXCEPT ![p] = r]
    BY <1>1 DEF Invoke
  <2>3. UseOwn'
    BY <2>1, <2>2 DEF SerialIInv, UseOwn, IInv, TypeOK
  <2>4. GoneBeforeVolume'
    BY <1>1, <2>2 DEF SerialIInv, GoneBeforeVolume, IInv, TypeOK, Idle, FirstCall
  <2>5. QED
    BY <2>1, <2>3, <2>4 DEF SerialIInv, RunningHasVolume
<1>2. ASSUME NEW p \in Procs, Step(p)
      PROVE  UseOwn' /\ GoneBeforeVolume' /\ RunningHasVolume'
  <2>1. IInv /\ ~Idle(p) /\ req[p].id \in Ids
    BY <1>2, StepIsLocal, MessagesTyped DEF SerialIInv, Idle
  <2>2. UseOwn'
    <3>1. ASSUME NEW i \in Ids, cont'[i] # None PROVE cont'[i].vol \in MayUse(i)
      <4>1. pc[p] = "create" => req[p].kind = "up"
        BY <2>1 DEF IInv, CallsMatch, UpCalls
      <4>2. QED
        BY <1>2, <2>1, <3>1, <4>1, ContainersAfterStep DEF SerialIInv, UseOwn
    <3>2. ASSUME NEW q \in Procs, req'[q].kind = "up"
          PROVE  req'[q].vol \in MayUse(req'[q].id)
      BY <1>2, <2>1, <3>2, StepIsLocal DEF SerialIInv, UseOwn, NoRequest
    <3>3. QED
      BY <3>1, <3>2 DEF UseOwn, MayUse
  <2>3. GoneBeforeVolume'
    <3>1. ASSUME NEW q \in Procs, pc'[q] = "remove_volume" PROVE cont'[req'[q].id] = None
      <4>1. q = p
        BY <1>2, <2>1, <3>1, StepIsLocal DEF SerialIInv, OneAtATime, Idle
      <4>2. pc[p] = "remove" /\ req'[p] = req[p]
        BY <1>2, <2>1, <3>1, <4>1, StepIsLocal
      <4>3. Remove(p) /\ pc'[p] # "idle"
        BY <1>2, <3>1, <4>1, <4>2 DEF Step, Find, MkDir, Create, Begin, Start, Stop,
           RemoveVolume, Kill, EndQuietly, EndSaying, IInv, TypeOK, SerialIInv
      <4>4. cont' = Removed(cont, req[p].id)
        BY <2>1, <4>3 DEF Remove, Fail, EndSaying, IInv, TypeOK
      <4>5. QED
        BY <2>1, <4>1, <4>2, <4>4 DEF Removed, IInv, TypeOK
    <3>2. QED
      BY <3>1 DEF GoneBeforeVolume
  <2>4. RunningHasVolume'
    <3>1. ASSUME NEW i \in Ids, cont'[i] # None, cont'[i].status = "running",
                 cont'[i].vol # None
          PROVE  cont'[i].vol \in vols'
      <4>1. CASE cont'[i] = cont[i]
        <5>1. cont[i].vol \in vols /\ cont[i].vol \in MayUse(i)
          BY <3>1, <4>1 DEF SerialIInv, RunningHasVolume, UseOwn
        <5>2. CASE pc[p] = "remove_volume" /\ cont[i].vol = DefaultVolume[req[p].id]
          <6>1. i # req[p].id
            BY <3>1, <4>1, <5>2 DEF SerialIInv, GoneBeforeVolume
          <6>2. QED
            BY <2>1, <3>1, <4>1, <5>1, <5>2, <6>1 DEF DistinctVolumes, MayUse
        <5>3. QED
          BY <1>2, <2>1, <4>1, <5>1, <5>2, VolumesAfterStep
      <4>2. QED
        BY <1>2, <2>1, <3>1, <4>1, ContainersAfterStep
    <3>2. QED
      BY <3>1 DEF RunningHasVolume
  <2>5. QED
    BY <2>2, <2>3, <2>4
<1>3. ASSUME Environment
      PROVE  UseOwn' /\ GoneBeforeVolume' /\ RunningHasVolume'
  <2>1. UNCHANGED run /\ IInv
    BY <1>3 DEF Environment, OtherProgramTakes, OtherProgramReleases, StopsBehind,
       StartsBehind, Outside, SerialIInv
  <2>2. UseOwn'
    BY <1>3, <2>1, ContainersAfterEnvironment DEF SerialIInv, UseOwn, run, MayUse
  <2>3. GoneBeforeVolume'
    <3>1. \A p \in Procs : pc[p] = "remove_volume" => req[p].id \in Ids
      BY <2>1, MessagesTyped
    <3>2. QED
      BY <1>3, <2>1, <3>1, ContainersAfterEnvironment DEF SerialIInv, GoneBeforeVolume, run
  <2>4. RunningHasVolume'
    BY <1>3, <2>1, ContainersAfterEnvironment DEF SerialIInv, RunningHasVolume
  <2>5. QED
    BY <2>2, <2>3, <2>4
<1>4. CASE UNCHANGED vars
  BY <1>4 DEF vars, run, SerialIInv, UseOwn, GoneBeforeVolume, RunningHasVolume, MayUse
<1>5. QED
  BY <1>1, <1>2, <1>3, <1>4 DEF SerialNext

LEMMA SerialIInvInvariant ==
    ASSUME DistinctVolumes
    PROVE  /\ Init => SerialIInv
           /\ SerialIInv /\ [SerialNext]_vars => SerialIInv'
<1>1. Init => SerialIInv
  BY InitIInv DEF Init, SerialIInv, OneAtATime, Idle, UseOwn, NoRequest, Exists,
     GoneBeforeVolume, RunningHasVolume, IsRunning
<1>2. ASSUME SerialIInv, [SerialNext]_vars PROVE SerialIInv'
  <2>1. [Next]_vars
    BY <1>2 DEF SerialNext, Next
  <2>2. IInv'
    BY <1>2, <2>1, NextIInv DEF SerialIInv
  <2>3. QED
    BY <1>2, <2>2, OneAtATimeStep, SerialStep DEF SerialIInv
<1>3. QED
  BY <1>1, <1>2

\* With one run at a time, killed anywhere, and directories that are distinct,
\* no database ever runs over a directory that a reset deleted.
THEOREM RunningHasVolumeHolds ==
    ASSUME DistinctVolumes
    PROVE  SerialSpec => []RunningHasVolume
<1>1. /\ Init => SerialIInv
      /\ SerialIInv /\ [SerialNext]_vars => SerialIInv'
  BY SerialIInvInvariant
<1>2. SerialIInv => RunningHasVolume
  BY DEF SerialIInv
<1>3. QED
  BY <1>1, <1>2, PTL DEF SerialSpec
-----------------------------------------------------------------------------
(***************************************************************************)
(* What the runs report, when they do not overlap.                         *)
(***************************************************************************)
\* What a run found out about its container is still so at its next call.
Knows(p) ==
    /\ pc[p] \in {"mkdir", "create", "remove_volume"} => ~Exists(cont, req[p].id)
    /\ pc[p] = "begin" => IsMine(cont, req[p].id, p)
    /\ pc[p] = "start" => Exists(cont, req[p].id)

AloneIInv ==
    /\ IInv
    /\ OneAtATime
    /\ \A p \in Procs : Knows(p)

\* A container with another status is still that container.
LEMMA NewStatus ==
    ASSUME NEW r \in Container, NEW s \in Statuses
    PROVE  /\ [r EXCEPT !.status = s] \in Container
           /\ [r EXCEPT !.status = s] # None
           /\ [r EXCEPT !.status = s].status = s
           /\ [r EXCEPT !.status = s].by = r.by
<1>1. /\ [r EXCEPT !.status = s] \in Container
      /\ [r EXCEPT !.status = s].status = s
      /\ [r EXCEPT !.status = s].by = r.by
  BY DEF Container
<1>2. QED
  BY <1>1, NoContainerAssumption

\* The daemon starts and stops containers; it makes, removes and replaces none.
LEMMA SameContainers ==
    ASSUME IInv, NEW i \in Ids, NEW n \in Ids, Exists(cont, i)
    PROVE  /\ IsRunning(Started(cont, i), i)
           /\ \A c \in {Started(cont, i), Stopped(cont, i)} :
                /\ Exists(c, n) <=> Exists(cont, n)
                /\ Exists(cont, n) => c[n].by = cont[n].by
<1>1. cont \in [Ids -> {None} \cup Container] /\ cont[i] \in Container
  BY DEF IInv, TypeOK, Exists
<1>2. ASSUME NEW s \in Statuses, NEW c, c = [cont EXCEPT ![i] = [cont[i] EXCEPT !.status = s]]
      PROVE  /\ c[i] # None /\ c[i].status = s
             /\ Exists(c, n) <=> Exists(cont, n)
             /\ Exists(cont, n) => c[n].by = cont[n].by
  <2>1. c[i] = [cont[i] EXCEPT !.status = s]
    BY <1>1, <1>2
  <2>2. n # i => c[n] = cont[n]
    BY <1>1, <1>2
  <2>3. c[i] # None /\ c[i].status = s /\ c[i].by = cont[i].by
    BY <1>1, <2>1, NewStatus
  <2>4. QED
    BY <1>1, <2>2, <2>3 DEF Exists
<1>3. Started(cont, i) = [cont EXCEPT ![i] = [cont[i] EXCEPT !.status = "running"]]
  BY DEF Started
<1>4. \/ Stopped(cont, i) = cont
      \/ Stopped(cont, i) = [cont EXCEPT ![i] = [cont[i] EXCEPT !.status = "exited"]]
  BY DEF Stopped
<1>5. "running" \in Statuses /\ "exited" \in Statuses
  BY DEF Statuses
<1>6. QED
  BY <1>2, <1>3, <1>4, <1>5 DEF IsRunning, Exists

\* Nothing behind shimkit's back makes, removes or replaces a container.
LEMMA EnvironmentKeepsContainers ==
    ASSUME IInv, Environment, NEW i \in Ids
    PROVE  /\ Exists(cont', i) <=> Exists(cont, i)
           /\ Exists(cont, i) => cont'[i].by = cont[i].by
<1>1. \/ cont' = cont
      \/ \E n \in Ids : Exists(cont, n) /\ cont' \in {Started(cont, n), Stopped(cont, n)}
  BY DEF Environment, OtherProgramTakes, OtherProgramReleases, StopsBehind,
     StartsBehind, IsRunning
<1>2. QED
  BY <1>1, SameContainers

LEMMA KnowsStep ==
    ASSUME IInv, NEW p \in Procs, Knows(p), Step(p)
    PROVE  Knows(p)'
<1> USE DEF Knows, IInv, TypeOK, Pcs
<1>0. pc[p] # "idle" => req[p].id \in Ids
  BY MessagesTyped
<1>1. CASE Find(p)
  <2>1. CASE Sees(cont, req[p].id)
    BY <1>1, <2>1 DEF Find, Sees, Report, EndQuietly, EndSaying, Goto
  <2>2. CASE ~Sees(cont, req[p].id)
    BY <1>1, <2>2 DEF Find, Sees, EndQuietly, EndSaying, Goto
  <2>3. QED
    BY <2>1, <2>2
<1>2. CASE MkDir(p)
  BY <1>2 DEF MkDir, Goto
<1>3. CASE Create(p)
  <2>1. CASE Exists(cont, req[p].id)
    BY <1>3, <2>1 DEF Create, Fail, EndSaying
  <2>2. CASE ~Exists(cont, req[p].id)
    <3> DEFINE c == [status |-> "created", port |-> req[p].port, vol |-> req[p].vol, by |-> p]
    <3>1. cont' = [cont EXCEPT ![req[p].id] = c] /\ Goto(p, "begin") /\ pc[p] = "create"
      BY <1>3, <2>2 DEF Create, Created
    <3>2. c \in Container /\ c.by = p
      BY <1>0, <3>1, RequestKinds DEF Container, Statuses, CallsMatch, UpCalls
    <3>3. cont'[req[p].id] # None /\ cont'[req[p].id].by = p
      <4>1. cont'[req[p].id] = c
        BY <1>0, <3>1
      <4> HIDE DEF c
      <4>2. QED
        BY <3>2, <4>1
    <3>4. pc'[p] = "begin" /\ req' = req
      BY <3>1 DEF Goto
    <3>5. QED
      BY <3>3, <3>4 DEF IsMine, Exists
  <2>3. QED
    BY <2>1, <2>2
<1>4. CASE Begin(p) \/ Start(p) \/ Kill(p) \/ RemoveVolume(p)
  BY <1>4 DEF Begin, Start, Kill, RemoveVolume, DaemonStarts, Report, ReportBare, Fail,
     EndQuietly, EndSaying
<1>5. CASE Stop(p)
  BY <1>5 DEF Stop, Goto
<1>6. CASE Remove(p)
  BY <1>0, <1>6 DEF Remove, Goto, Fail, ReportBare, EndSaying, Removed, Exists
<1>7. QED
  BY <1>1, <1>2, <1>3, <1>4, <1>5, <1>6 DEF Step

LEMMA AloneStep ==
    ASSUME AloneIInv, [SerialNext]_vars
    PROVE  AloneIInv'
<1>1. IInv'
  <2>1. [Next]_vars
    BY DEF SerialNext, Next
  <2>2. QED
    BY <2>1, NextIInv DEF AloneIInv
<1>2. OneAtATime'
  BY OneAtATimeStep DEF AloneIInv
<1>3. ASSUME NEW q \in Procs PROVE Knows(q)'
  <2>1. ASSUME NEW p \in Procs, \A r \in Procs : Idle(r), Invoke(p)
        PROVE  Knows(q)'
    BY <2>1 DEF Invoke, Idle, Knows, FirstCall, AloneIInv, IInv, TypeOK
  <2>2. ASSUME NEW p \in Procs, Step(p)
        PROVE  Knows(q)'
    <3>1. CASE q = p
      BY <2>2, <3>1, KnowsStep DEF AloneIInv
    <3>2. CASE q # p
      BY <2>2, <3>2, StepIsLocal DEF AloneIInv, OneAtATime, Idle, Knows
    <3>3. QED
      BY <3>1, <3>2
  <2>3. CASE Environment
    <3>1. UNCHANGED run
      BY <2>3 DEF Environment, OtherProgramTakes, OtherProgramReleases, StopsBehind,
         StartsBehind, Outside
    <3>2. pc[q] # "idle" => req[q].id \in Ids
      BY MessagesTyped DEF AloneIInv
    <3>3. QED
      BY <2>3, <3>1, <3>2, EnvironmentKeepsContainers DEF run, Knows, AloneIInv, IsMine
  <2>4. CASE UNCHANGED vars
    BY <2>4 DEF vars, run, Knows, AloneIInv
  <2>5. QED
    BY <2>1, <2>2, <2>3, <2>4 DEF SerialNext
<1>4. QED
  BY <1>1, <1>2, <1>3 DEF AloneIInv

\* Reports hold that are not about an `up', a failure or a reset.
LEMMA NothingToExplain ==
    ASSUME \A s \in said' : s.action = "removed"
    PROVE  UpMeansRunning' /\ FailuresExplained' /\ ResetLeavesNothing'
BY DEF UpMeansRunning, SaidUp, FailuresExplained, ResetLeavesNothing

\* An `up' may report what it likes of a container that runs.
LEMMA UpExplained ==
    ASSUME NEW p \in Procs, NEW a \in {"created", "started", "already_running"},
           Report(p, a), IsRunning(cont', req[p].id)
    PROVE  UpMeansRunning' /\ FailuresExplained' /\ ResetLeavesNothing'
<1> DEFINE m == [action |-> a, id |-> req[p].id, port |-> req[p].port]
<1>1. said' = {m} /\ m.id = req[p].id /\ m.action = a
  BY DEF Report, EndSaying
<1>2. UpMeansRunning'
  BY <1>1 DEF UpMeansRunning
<1>3. FailuresExplained' /\ ResetLeavesNothing'
  BY <1>1 DEF FailuresExplained, ResetLeavesNothing
<1>4. QED
  BY <1>2, <1>3

\* A failure is explained by what keeps the container from starting, or by
\* what started it.
LEMMA FailureExplained ==
    ASSUME NEW p \in Procs, Fail(p),
           \/ /\ req[p].kind = "up"
              /\ Exists(cont', req[p].id)
              /\ ~MayStart(cont', req[p].id, foreign')
           \/ req[p].kind = "down" /\ IsRunning(cont', req[p].id)
    PROVE  UpMeansRunning' /\ FailuresExplained' /\ ResetLeavesNothing'
<1> DEFINE m == [action |-> "failed", id |-> req[p].id, kind |-> req[p].kind]
<1>1. /\ said' = {m} /\ m.id = req[p].id /\ m.action = "failed" /\ m.kind = req[p].kind
  BY DEF Fail, EndSaying
<1>2. UpMeansRunning' /\ ResetLeavesNothing'
  BY <1>1 DEF UpMeansRunning, SaidUp, ResetLeavesNothing
<1>3. FailuresExplained'
  <2>1. CASE req[p].kind = "up"
    BY <1>1, <2>1 DEF FailuresExplained
  <2>2. CASE req[p].kind = "down"
    BY <1>1, <2>2 DEF FailuresExplained
  <2>3. QED
    BY <2>1, <2>2
<1>4. QED
  BY <1>2, <1>3

\* A container that could start runs, and one that could not is there.
LEMMA DaemonExplained ==
    ASSUME IInv, NEW p \in Procs, NEW a \in {"created", "started"},
           req[p].id \in Ids, req[p].kind = "up", Exists(cont, req[p].id),
           DaemonStarts(p, req[p].id, a), foreign' = foreign
    PROVE  UpMeansRunning' /\ FailuresExplained' /\ ResetLeavesNothing'
<1>1. CASE MayStart(cont, req[p].id, foreign)
  <2>1. cont' = Started(cont, req[p].id) /\ Report(p, a)
    BY <1>1 DEF DaemonStarts
  <2>2. IsRunning(cont', req[p].id)
    BY <2>1, SameContainers
  <2>3. QED
    BY <2>1, <2>2, UpExplained
<1>2. CASE ~MayStart(cont, req[p].id, foreign)
  <2>1. Fail(p) /\ cont' = cont
    BY <1>2 DEF DaemonStarts
  <2>2. Exists(cont', req[p].id) /\ ~MayStart(cont', req[p].id, foreign')
    BY <1>2, <2>1
  <2>3. QED
    BY <2>1, <2>2, FailureExplained
<1>3. QED
  BY <1>1, <1>2

\* No directory but its own is ever made for an instance.
OnlyOwnDirectory ==
    /\ \A i \in Ids : owned[i] \subseteq {DefaultVolume[i]}
    /\ \A p \in Procs :
         req[p].kind = "up" => req[p].vol \in {None, DefaultVolume[req[p].id]}

LEMMA ReportsStep ==
    ASSUME IInv, NEW p \in Procs, Knows(p), Step(p)
    PROVE  /\ UpMeansRunning' /\ FailuresExplained'
           /\ OnlyOwnDirectory /\ (\A i \in Ids : DefaultVolume[i] \in Guarded) => ResetLeavesNothing'
<1>0. pc[p] # "idle" => req[p].id \in Ids
  BY MessagesTyped
<1>1. CASE Find(p)
  <2>1. pc[p] = "find" /\ cont' = cont
    BY <1>1 DEF Find
  <2>2. CASE Report(p, "already_running")
    <3>1. CASE Sees(cont, req[p].id) /\ AlreadyUp(cont, req[p].id)
      BY <2>1, <2>2, <3>1, UpExplained DEF AlreadyUp
    <3>2. CASE ~(Sees(cont, req[p].id) /\ AlreadyUp(cont, req[p].id))
      <4>1. said' = {}
        BY <1>1, <3>2 DEF Find, EndQuietly, EndSaying, Goto
      <4>2. QED
        BY <4>1, NothingToExplain
    <3>3. QED
      BY <3>1, <3>2
  <2>3. CASE ~Report(p, "already_running")
    <3>1. said' = {}
      BY <1>1, <2>3 DEF Find, EndQuietly, EndSaying, Goto
    <3>2. QED
      BY <3>1, NothingToExplain
  <2>4. QED
    BY <2>2, <2>3
<1>2. CASE MkDir(p) \/ Stop(p) \/ Kill(p)
  <2>1. said' = {}
    BY <1>2 DEF MkDir, Stop, Kill, Goto, EndQuietly, EndSaying
  <2>2. QED
    BY <2>1, NothingToExplain
<1>3. CASE Create(p)
  <2>1. said' = {}
    BY <1>3 DEF Create, Knows, Goto
  <2>2. QED
    BY <2>1, NothingToExplain
<1>4. CASE Begin(p)
  <2>1. /\ Exists(cont, req[p].id)
        /\ DaemonStarts(p, req[p].id, "created")
        /\ foreign' = foreign
        /\ pc[p] = "begin"
    BY <1>4 DEF Begin, Knows, IsMine
  <2>2. req[p].kind = "up"
    BY <2>1 DEF IInv, CallsMatch, UpCalls
  <2>3. QED
    BY <1>0, <2>1, <2>2, DaemonExplained
<1>5. CASE Start(p)
  <2>1. /\ Exists(cont, req[p].id)
        /\ DaemonStarts(p, req[p].id, "started")
        /\ foreign' = foreign
        /\ pc[p] = "start"
    BY <1>5 DEF Start, Knows
  <2>2. req[p].kind = "up"
    BY <2>1 DEF IInv, CallsMatch, UpCalls
  <2>3. QED
    BY <1>0, <2>1, <2>2, DaemonExplained
<1>6. CASE Remove(p)
  <2>1. CASE req[p].kind = "down" /\ IsRunning(cont, req[p].id)
    <3>1. Fail(p) /\ cont' = cont
      BY <1>6, <2>1 DEF Remove
    <3>2. QED
      BY <2>1, <3>1, FailureExplained
  <2>2. CASE ~(req[p].kind = "down" /\ IsRunning(cont, req[p].id))
    <3>1. \/ said' = {}
          \/ said' = {[action |-> "removed", id |-> req[p].id]}
      BY <1>6, <2>2 DEF Remove, Goto, ReportBare, EndSaying
    <3>2. QED
      BY <3>1, NothingToExplain
  <2>3. QED
    BY <2>1, <2>2
<1>7. CASE RemoveVolume(p)
  <2>0. cont' = cont /\ req[p].id \in Ids /\ ~Exists(cont, req[p].id)
    BY <1>0, <1>7 DEF RemoveVolume, Knows
  <2>1. CASE /\ owned' = [owned EXCEPT ![req[p].id] = @ \cap vols']
             /\ vols' = vols \ ({DefaultVolume[req[p].id]} \cap Guarded)
             /\ ReportBare(p, "reset")
    <3>1. said' = {[action |-> "reset", id |-> req[p].id]}
      BY <2>1 DEF ReportBare, EndSaying
    <3>2. UpMeansRunning' /\ FailuresExplained'
      BY <3>1 DEF UpMeansRunning, SaidUp, FailuresExplained
    <3>3. ASSUME OnlyOwnDirectory, \A i \in Ids : DefaultVolume[i] \in Guarded
          PROVE  ResetLeavesNothing'
      <4>1. owned'[req[p].id] = owned[req[p].id] \cap (vols \ {DefaultVolume[req[p].id]})
        BY <2>0, <2>1, <3>3 DEF IInv, TypeOK
      <4>2. owned'[req[p].id] = {}
        BY <2>0, <3>3, <4>1 DEF OnlyOwnDirectory
      <4>3. QED
        BY <2>0, <3>1, <4>2 DEF ResetLeavesNothing, Exists
    <3>4. QED
      BY <3>2, <3>3
  <2>2. CASE DefaultVolume[req[p].id] \in vols \cap Guarded /\ Fail(p) /\ UNCHANGED <<vols, owned>>
    <3>1. req[p].kind = "reset"
      BY <1>0, <1>7 DEF RemoveVolume, IInv, CallsMatch
    <3>2. said' = {[action |-> "failed", id |-> req[p].id, kind |-> "reset"]}
      BY <2>2, <3>1 DEF Fail, EndSaying
    <3>3. QED
      BY <2>0, <2>2, <3>2 DEF UpMeansRunning, SaidUp, FailuresExplained, ResetLeavesNothing, Exists
  <2>3. QED
    BY <1>7, <2>1, <2>2 DEF RemoveVolume
<1>8. QED
  BY <1>1, <1>2, <1>3, <1>4, <1>5, <1>6, <1>7 DEF Step

\* A step that is not a run's says nothing; when nothing happens at all, what
\* was said stays true.
LEMMA ReportsKept ==
    ASSUME AloneIInv, UpMeansRunning, FailuresExplained, [SerialNext]_vars
    PROVE  UpMeansRunning' /\ FailuresExplained'
<1>1. ASSUME NEW p \in Procs, Step(p)
      PROVE  UpMeansRunning' /\ FailuresExplained'
  BY <1>1, ReportsStep DEF AloneIInv
<1>2. CASE said' = {}
  BY <1>2, NothingToExplain
<1>3. CASE UNCHANGED vars
  BY <1>3 DEF vars, UpMeansRunning, FailuresExplained
<1>4. ASSUME NEW p \in Procs, Invoke(p)
      PROVE  said' = {}
  BY <1>4 DEF Invoke
<1>5. ASSUME Environment
      PROVE  said' = {}
  BY <1>5 DEF Environment, OtherProgramTakes, OtherProgramReleases, StopsBehind,
     StartsBehind, Outside
<1>6. QED
  BY <1>1, <1>2, <1>3, <1>4, <1>5 DEF SerialNext

LEMMA AloneInitially == Init => AloneIInv /\ UpMeansRunning /\ FailuresExplained
BY InitIInv DEF Init, AloneIInv, OneAtATime, Idle, Knows, UpMeansRunning, FailuresExplained

\* Of any number of runs one after the other, killed anywhere, with ports and
\* containers that come and go behind shimkit's back: an `up' that reports an
\* action left its container running, and every failure has its cause.
THEOREM UpReportsHold == SerialSpec => [](UpMeansRunning /\ FailuresExplained)
<1> DEFINE Inv == AloneIInv /\ UpMeansRunning /\ FailuresExplained
<1>1. Init => Inv
  BY AloneInitially
<1>2. Inv /\ [SerialNext]_vars => Inv'
  BY AloneStep, ReportsKept
<1>3. QED
  BY <1>1, <1>2, PTL DEF SerialSpec
-----------------------------------------------------------------------------
(***************************************************************************)
(* The behaviours the model checker is given.                              *)
(***************************************************************************)
\* The default directories are where reset may delete.
DefaultsGuarded == \A i \in Ids : DefaultVolume[i] \in Guarded

MCInv ==
    /\ IInv
    /\ alone =>
        /\ AloneIInv
        /\ UpMeansRunning /\ FailuresExplained /\ ResetLeavesNothing
        /\ OnlyOwnDirectory
        /\ SerialIInv

LEMMA OnlyOwnStep ==
    ASSUME IInv, OnlyOwnDirectory, [SerialNext]_vars,
           \A p \in Procs : ~AsksForDirectory(req'[p])
    PROVE  OnlyOwnDirectory'
<1>1. ASSUME NEW p \in Procs, Invoke(p)
      PROVE  OnlyOwnDirectory'
  <2>1. owned' = owned
    BY <1>1 DEF Invoke
  <2>2. PICK r \in Request :
          /\ r.kind = "up" => r.vol \in MayUse(r.id)
          /\ req' = [req EXCEPT ![p] = r]
    BY <1>1 DEF Invoke
  <2>3. req'[p] = r /\ \A q \in Procs : q # p => req'[q] = req[q]
    BY <2>2 DEF IInv, TypeOK
  <2>4. r.kind = "up" => r.vol \in {None, DefaultVolume[r.id]}
    BY <2>2, <2>3 DEF AsksForDirectory, MayUse
  <2>5. QED
    BY <2>1, <2>3, <2>4 DEF OnlyOwnDirectory
<1>2. ASSUME NEW p \in Procs, Step(p)
      PROVE  OnlyOwnDirectory'
  <2>1. \A q \in Procs : q # p => req'[q] = req[q]
    BY <1>2, StepIsLocal
  <2>2. req'[p] \in {req[p], NoRequest}
    BY <1>2, StepIsLocal
  <2>3. \A q \in Procs :
          req'[q].kind = "up" => req'[q].vol \in {None, DefaultVolume[req'[q].id]}
    BY <2>1, <2>2 DEF OnlyOwnDirectory, NoRequest
  <2>4. \A i \in Ids : owned'[i] \subseteq {DefaultVolume[i]}
    <3>1. CASE MkDir(p)
      <4>1. req[p].kind = "up" /\ req[p].vol # None
        BY <3>1 DEF MkDir, IInv, CallsMatch, UpCalls
      <4>2. req[p].vol = DefaultVolume[req[p].id]
        BY <4>1 DEF OnlyOwnDirectory
      <4>3. QED
        BY <3>1, <4>2 DEF MkDir, OnlyOwnDirectory, IInv, TypeOK
    <3>2. CASE RemoveVolume(p)
      BY <3>2 DEF RemoveVolume, OnlyOwnDirectory, IInv, TypeOK
    <3>3. CASE ~MkDir(p) /\ ~RemoveVolume(p)
      <4>1. owned' = owned
        BY <1>2, <3>3 DEF Step, Find, Create, Begin, Start, Stop, Remove, Kill
      <4>2. QED
        BY <4>1 DEF OnlyOwnDirectory
    <3>4. QED
      BY <3>1, <3>2, <3>3
  <2>5. QED
    BY <2>3, <2>4 DEF OnlyOwnDirectory
<1>3. CASE Environment
  BY <1>3 DEF Environment, OtherProgramTakes, OtherProgramReleases, StopsBehind,
     StartsBehind, Outside, run, OnlyOwnDirectory
<1>4. CASE UNCHANGED vars
  BY <1>4 DEF vars, run, OnlyOwnDirectory
<1>5. QED
  BY <1>1, <1>2, <1>3, <1>4 DEF SerialNext

LEMMA ResetReportsKept ==
    ASSUME AloneIInv, OnlyOwnDirectory, ResetLeavesNothing, DefaultsGuarded, [SerialNext]_vars
    PROVE  ResetLeavesNothing'
<1>1. ASSUME NEW p \in Procs, Step(p)
      PROVE  ResetLeavesNothing'
  BY <1>1, ReportsStep DEF AloneIInv, DefaultsGuarded
<1>2. CASE said' = {}
  BY <1>2, NothingToExplain
<1>3. CASE UNCHANGED vars
  BY <1>3 DEF vars, ResetLeavesNothing
<1>4. ASSUME NEW p \in Procs, Invoke(p)
      PROVE  said' = {}
  BY <1>4 DEF Invoke
<1>5. ASSUME Environment
      PROVE  said' = {}
  BY <1>5 DEF Environment, OtherProgramTakes, OtherProgramReleases, StopsBehind,
     StartsBehind, Outside
<1>6. QED
  BY <1>1, <1>2, <1>3, <1>4, <1>5 DEF SerialNext

LEMMA MCInvariance ==
    ASSUME DistinctVolumes, DefaultsGuarded
    PROVE  MCSpec => []MCInv
<1>1. MCInit => MCInv
  <2> SUFFICES ASSUME MCInit PROVE MCInv
    OBVIOUS
  <2>1. IInv /\ SerialIInv /\ AloneIInv /\ UpMeansRunning /\ FailuresExplained
    BY InitIInv, SerialIInvInvariant, AloneInitially DEF MCInit
  <2>2. ResetLeavesNothing /\ OnlyOwnDirectory
    BY DEF MCInit, Init, ResetLeavesNothing, OnlyOwnDirectory, NoRequest
  <2>3. QED
    BY <2>1, <2>2 DEF MCInv
<1>2. MCInv /\ [Overlapping \/ Serial]_<<vars, alone>> => MCInv'
  <2> SUFFICES ASSUME MCInv, [Overlapping \/ Serial]_<<vars, alone>>
               PROVE  MCInv'
    OBVIOUS
  <2>1. IInv'
    BY NextIInv DEF MCInv, Overlapping, Serial, SerialNext, Next
  <2>2. SUFFICES ASSUME alone'
                 PROVE  MCInv'
    BY <2>1 DEF MCInv
  <2>3. alone /\ [SerialNext]_vars
    BY <2>2 DEF Overlapping, Serial
  <2>4. AloneIInv' /\ UpMeansRunning' /\ FailuresExplained' /\ ResetLeavesNothing'
    BY <2>3, AloneStep, ReportsKept, ResetReportsKept DEF MCInv
  <2>5. SerialIInv'
    BY <2>3, SerialIInvInvariant DEF MCInv
  <2>6. OnlyOwnDirectory'
    <3>1. CASE Serial
      BY <2>3, <3>1, OnlyOwnStep DEF MCInv, Serial
    <3>2. CASE ~Serial
      <4>1. UNCHANGED vars
        BY <2>3, <3>2 DEF Overlapping
      <4>2. QED
        BY <2>3, <4>1 DEF MCInv, vars, run, OnlyOwnDirectory
    <3>3. QED
      BY <3>1, <3>2
  <2>7. QED
    BY <2>1, <2>4, <2>5, <2>6 DEF MCInv
<1>3. QED
  BY <1>1, <1>2, PTL DEF MCSpec

\* Of runs that do not overlap and use default directories, as the program
\* lays them out: what `up', `down' and `reset' report is so.
THEOREM ReportsAloneHoldAlways ==
    ASSUME DistinctVolumes, DefaultsGuarded
    PROVE  MCSpec => []ReportsAloneHold
<1>1. MCInv => ReportsAloneHold
  BY DEF MCInv, ReportsAloneHold
<1>2. QED
  BY <1>1, MCInvariance, PTL

\* Of the same behaviours: no database runs over a directory that is gone.
THEOREM RunningAloneHasVolumeHolds ==
    ASSUME DistinctVolumes, DefaultsGuarded
    PROVE  MCSpec => []RunningAloneHasVolume
<1>1. MCInv => RunningAloneHasVolume
  BY DEF MCInv, SerialIInv, RunningAloneHasVolume
<1>2. QED
  BY <1>1, MCInvariance, PTL
==============================================================================
