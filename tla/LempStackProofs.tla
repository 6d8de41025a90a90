--------------------------- MODULE LempStackProofs ---------------------------
(***************************************************************************)
(* Theorems about LempStack: for any number of overlapping and killed runs *)
(* and whatever happens behind their back, a run that nothing disturbs can *)
(* be believed.                                                            *)
(***************************************************************************)
EXTENDS LempStack, SequenceTheorems, TLAPS

USE NoneAssumption

\* The calls of up that are about a role, and those of down.
UpCalls == {"find", "create", "begin", "start"}

DownCalls == {"stop", "remove"}

\* Run p is at the k-th role of o.
AtRole(p, o, k) == left[p] = SubSeq(o, k, 3)

\* A run makes the calls of what it was asked, role by role.
CallsMatch(p) ==
    /\ pc[p] \in {"network", "make_network"} \cup UpCalls =>
         req[p] \in Request /\ req[p].kind = "up"
    /\ pc[p] \in {"remove_network"} \cup DownCalls => req[p] \in Request /\ req[p].kind = "down"
    /\ pc[p] \in {"network", "make_network"} => AtRole(p, UpOrder, 1)
    /\ pc[p] \in UpCalls => \E k \in 1..3 : AtRole(p, UpOrder, k)
    /\ pc[p] \in DownCalls => \E k \in 1..3 : AtRole(p, DownOrder, k)

\* Only nginx publishes a port.
PortsOnNginx == \A r \in Roles : Exists(cont, r) /\ r # "nginx" => cont[r].port = None

\* What a run that nothing disturbed has done so far is still so: the roles an
\* `up' has dealt with run on the network, those a `down' has dealt with are gone,
\* and what was seen when the last call returned holds.
Progress(p) ==
    undisturbed[p] =>
        /\ pc[p] = "make_network" => ~net
        /\ pc[p] \in UpCalls =>
             /\ net
             /\ \A k \in 1..3 : AtRole(p, UpOrder, k) =>
                    \A i \in 1..(k - 1) : IsRunning(cont, UpOrder[i])
        /\ pc[p] = "begin" => IsMine(cont, Role(p), p)
        /\ pc[p] = "create" => ~Exists(cont, Role(p))
        /\ pc[p] = "start" => Exists(cont, Role(p))
        /\ pc[p] \in DownCalls =>
             \A k \in 1..3 : AtRole(p, DownOrder, k) =>
                 \A i \in 1..(k - 1) : ~Exists(cont, DownOrder[i])
        /\ pc[p] = "remove_network" => \A r \in Roles : ~Exists(cont, r)

IInv ==
    /\ TypeOK
    /\ PortsOnNginx
    /\ \A p \in Procs : CallsMatch(p) /\ Progress(p)
    /\ UpSpeaksTrue
    /\ DownTearsDown
-----------------------------------------------------------------------------
(***************************************************************************)
(* The roles that are left, in order.                                      *)
(***************************************************************************)
LEMMA Orders ==
    ASSUME NEW o \in {UpOrder, DownOrder}
    PROVE  /\ o \in Seq(Roles)
           /\ Len(o) = 3
           /\ o[1] \in Roles /\ o[2] \in Roles /\ o[3] \in Roles
           /\ \A r \in Roles : r = o[1] \/ r = o[2] \/ r = o[3]
           /\ o[1] # o[2] /\ o[1] # o[3] /\ o[2] # o[3]
<1>1. CASE o = UpOrder
  BY <1>1 DEF UpOrder, Roles
<1>2. CASE o = DownOrder
  BY <1>2 DEF DownOrder, Roles
<1>3. QED
  BY <1>1, <1>2

LEMMA RolesLeft ==
    ASSUME NEW o \in {UpOrder, DownOrder}, NEW k \in 1..3
    PROVE  /\ SubSeq(o, k, 3) \in Left
           /\ SubSeq(o, k + 1, 3) \in Left
           /\ Head(SubSeq(o, k, 3)) = o[k] /\ o[k] \in Roles
           /\ Tail(SubSeq(o, k, 3)) = SubSeq(o, k + 1, 3)
           /\ Len(SubSeq(o, k, 3)) = 4 - k
<1>1. o \in Seq(Roles) /\ Len(o) = 3
  BY Orders
<1>2. k \in 1..4 /\ k + 1 \in 1..4
  OBVIOUS
<1>3. SubSeq(o, k, 3) \in Left /\ SubSeq(o, k + 1, 3) \in Left
  BY <1>2 DEF Left
<1>4. Head(SubSeq(o, k, 3)) = o[k] /\ Tail(SubSeq(o, k, 3)) = SubSeq(o, k + 1, 3)
  BY <1>1, HeadTailOfSubSeq
<1>5. Len(SubSeq(o, k, 3)) = 4 - k
  BY <1>1, SubSeqProperties
<1>6. QED
  BY <1>1, <1>3, <1>4, <1>5, Orders

LEMMA WholeAndNone ==
    /\ SubSeq(UpOrder, 1, 3) = UpOrder /\ SubSeq(DownOrder, 1, 3) = DownOrder
    /\ UpOrder \in Left /\ DownOrder \in Left
    /\ <<>> \in Left
<1>1. SubSeq(UpOrder, 1, 3) = UpOrder /\ SubSeq(DownOrder, 1, 3) = DownOrder
  BY Orders, SubSeqFull
<1>2. SubSeq(UpOrder, 4, 3) = <<>>
  BY Orders, SubSeqEmpty
<1>3. QED
  BY <1>1, <1>2 DEF Left

\* A run is at one role at a time, and goes on to the next one.
LEMMA AtOneRole ==
    ASSUME NEW p \in Procs, NEW o \in {UpOrder, DownOrder}, NEW j \in 1..3, NEW k \in 1..3,
           AtRole(p, o, j), AtRole(p, o, k)
    PROVE  j = k
BY RolesLeft DEF AtRole

LEMMA RoleOf ==
    ASSUME NEW p \in Procs, NEW o \in {UpOrder, DownOrder}, NEW k \in 1..3, AtRole(p, o, k)
    PROVE  /\ Role(p) = o[k] /\ Role(p) \in Roles
           /\ AtLast(p) <=> k = 3
           /\ DropRole(left[p]) = SubSeq(o, k + 1, 3)
BY RolesLeft DEF AtRole, Role, AtLast, DropRole
-----------------------------------------------------------------------------
(***************************************************************************)
(* How a run goes on, and how it ends.                                     *)
(***************************************************************************)
\* All that IInv says but of the daemon.
RunsKept ==
    /\ pc' \in [Procs -> Pcs]
    /\ req' \in [Procs -> {NoRequest} \cup Request]
    /\ left' \in [Procs -> Left]
    /\ undisturbed' \in [Procs -> BOOLEAN]
    /\ said' \subseteq [req : Request, ok : BOOLEAN, undisturbed : BOOLEAN]
    /\ \A q \in Procs : CallsMatch(q)' /\ Progress(q)'
    /\ UpSpeaksTrue'
    /\ DownTearsDown'

\* A run that is disturbed has nothing to show for its progress.
LEMMA DisturbedKeeps ==
    ASSUME IInv, NEW p \in Procs, Disturb(p)
    PROVE  /\ undisturbed' \in [Procs -> BOOLEAN]
           /\ undisturbed'[p] = undisturbed[p]
           /\ \A q \in Procs \ {p} : Progress(q)'
BY DEF IInv, TypeOK, Disturb, Progress

LEMMA SilenceIsTrue ==
    ASSUME said' = {}
    PROVE  UpSpeaksTrue' /\ DownTearsDown'
BY DEF UpSpeaksTrue, UpBringsAllUp, UpFailuresExplained, DownTearsDown

\* A run that goes on with the same role.
LEMMA GotoKeeps ==
    ASSUME IInv, NEW p \in Procs, NEW l \in Pcs, Goto(p, l), UNCHANGED left,
           CallsMatch(p)', Progress(p)'
    PROVE  RunsKept
<1>1. /\ pc' \in [Procs -> Pcs]
      /\ req' \in [Procs -> {NoRequest} \cup Request]
      /\ left' \in [Procs -> Left]
      /\ said' = {}
  BY DEF IInv, TypeOK, Goto
<1>2. ASSUME NEW q \in Procs \ {p} PROVE CallsMatch(q)'
  BY DEF IInv, TypeOK, Goto, CallsMatch, AtRole
<1>3. undisturbed' \in [Procs -> BOOLEAN] /\ \A q \in Procs \ {p} : Progress(q)'
  BY DisturbedKeeps DEF Goto
<1>4. \A q \in Procs : CallsMatch(q)' /\ Progress(q)'
  BY <1>2, <1>3
<1>5. QED
  BY <1>1, <1>3, <1>4, SilenceIsTrue DEF RunsKept

\* A run that goes on with what follows a role.
LEMMA NextRoleKeeps ==
    ASSUME IInv, NEW p \in Procs, NEW l \in Pcs, NextRole(p, l), DropRole(left[p]) \in Left,
           CallsMatch(p)', Progress(p)'
    PROVE  RunsKept
<1>1. /\ pc' \in [Procs -> Pcs]
      /\ req' \in [Procs -> {NoRequest} \cup Request]
      /\ left' \in [Procs -> Left]
      /\ said' = {}
  BY DEF IInv, TypeOK, NextRole, Goto
<1>2. ASSUME NEW q \in Procs \ {p} PROVE CallsMatch(q)'
  BY DEF IInv, TypeOK, NextRole, Goto, CallsMatch, AtRole
<1>3. undisturbed' \in [Procs -> BOOLEAN] /\ \A q \in Procs \ {p} : Progress(q)'
  BY DisturbedKeeps DEF NextRole, Goto
<1>4. \A q \in Procs : CallsMatch(q)' /\ Progress(q)'
  BY <1>2, <1>3
<1>5. QED
  BY <1>1, <1>3, <1>4, SilenceIsTrue DEF RunsKept

\* A run that ends leaves no run undisturbed.
LEMMA EndKeeps ==
    ASSUME IInv, NEW p \in Procs, NEW r, EndSaying(p, r)
    PROVE  /\ pc' \in [Procs -> Pcs]
           /\ req' \in [Procs -> {NoRequest} \cup Request]
           /\ left' \in [Procs -> Left]
           /\ undisturbed' \in [Procs -> BOOLEAN]
           /\ \A q \in Procs : CallsMatch(q)' /\ Progress(q)'
           /\ said' = r
<1>1. /\ pc' \in [Procs -> Pcs]
      /\ req' \in [Procs -> {NoRequest} \cup Request]
      /\ left' \in [Procs -> Left]
      /\ undisturbed' \in [Procs -> BOOLEAN]
      /\ said' = r
  BY WholeAndNone DEF IInv, TypeOK, EndSaying, Pcs
<1>2. ASSUME NEW q \in Procs PROVE CallsMatch(q)'
  <2>1. CASE q = p
    BY <2>1 DEF IInv, TypeOK, EndSaying, CallsMatch, UpCalls, DownCalls
  <2>2. CASE q # p
    BY <2>2 DEF IInv, TypeOK, EndSaying, CallsMatch, AtRole
  <2>3. QED
    BY <2>1, <2>2
<1>3. ASSUME NEW q \in Procs PROVE Progress(q)'
  BY DEF EndSaying, Progress
<1>4. QED
  BY <1>1, <1>2, <1>3

\* The two ways a run can be believed.
AllUp == \A r \in Roles : IsRunning(cont, r)

Explained ==
    \/ Exists(cont, "nginx") /\ cont["nginx"].port \in foreign
    \/ \E r \in Roles : Exists(cont, r) /\ ~cont[r].on

TornDown == ~net /\ \A r \in Roles : ~Exists(cont, r)

LEMMA ReportKeeps ==
    ASSUME IInv, NEW p \in Procs, NEW ok \in BOOLEAN, Report(p, ok), req[p] \in Request,
           undisturbed[p] /\ req[p].kind = "up" => IF ok THEN AllUp' ELSE Explained',
           undisturbed[p] /\ req[p].kind = "down" => ok /\ TornDown'
    PROVE  RunsKept
<1> DEFINE m == [req |-> req[p], ok |-> ok, undisturbed |-> undisturbed[p]]
<1>1. EndSaying(p, {m})
  BY DEF Report
<1>2. m \in [req : Request, ok : BOOLEAN, undisturbed : BOOLEAN]
  BY DEF IInv, TypeOK
<1>3. m.req = req[p] /\ m.ok = ok /\ m.undisturbed = undisturbed[p]
  OBVIOUS
<1> HIDE DEF m
<1>4. said' = {m}
  BY <1>1, EndKeeps
<1>5. UpSpeaksTrue' /\ DownTearsDown'
  BY <1>3, <1>4 DEF UpSpeaksTrue, UpBringsAllUp, UpFailuresExplained, DownTearsDown,
     Undisturbed, AllUp, Explained, TornDown
<1>6. QED
  BY <1>1, <1>2, <1>4, <1>5, EndKeeps DEF RunsKept

\* An `up' that has brought up a role goes on to the next one, or has them all.
LEMMA UpNextKeeps ==
    ASSUME IInv, NEW p \in Procs, pc[p] \in UpCalls, UpNext(p), UNCHANGED net,
           \A r \in Roles : IsRunning(cont, r) => IsRunning(cont, r)',
           undisturbed[p] => cont'[Role(p)] # None /\ cont'[Role(p)].status = "running"
    PROVE  RunsKept
<1>1. PICK k \in 1..3 : AtRole(p, UpOrder, k)
  BY DEF IInv, CallsMatch
<1>2. /\ Role(p) = UpOrder[k]
      /\ AtLast(p) <=> k = 3
      /\ DropRole(left[p]) = SubSeq(UpOrder, k + 1, 3)
  BY <1>1, RoleOf
<1>3. req[p] \in Request /\ req[p].kind = "up"
  BY DEF IInv, CallsMatch
<1>4. undisturbed[p] => net /\ \A i \in 1..k : IsRunning(cont, UpOrder[i])'
  <2>1. undisturbed[p] => net /\ \A i \in 1..(k - 1) : IsRunning(cont, UpOrder[i])
    BY <1>1 DEF IInv, Progress
  <2>2. \A i \in 1..3 : UpOrder[i] \in Roles
    BY RolesLeft
  <2>3. undisturbed[p] => IsRunning(cont, UpOrder[k])'
    BY <1>2 DEF IsRunning, Exists
  <2>4. \A i \in 1..k : i = k \/ i \in 1..(k - 1)
    OBVIOUS
  <2>5. QED
    BY <2>1, <2>2, <2>3, <2>4
<1>5. CASE AtLast(p)
  <2>1. undisturbed[p] => AllUp'
    BY <1>2, <1>4, <1>5, Orders DEF AllUp
  <2>2. Report(p, TRUE)
    BY <1>5 DEF UpNext
  <2>3. QED
    BY <1>3, <2>1, <2>2, ReportKeeps
<1>6. CASE ~AtLast(p)
  <2>1. NextRole(p, "find")
    BY <1>6 DEF UpNext
  <2>2. k + 1 \in 1..3 /\ DropRole(left[p]) \in Left
    BY <1>2, <1>6, RolesLeft
  <2>3. /\ pc'[p] = "find" /\ req'[p] = req[p] /\ left'[p] = SubSeq(UpOrder, k + 1, 3)
        /\ undisturbed'[p] = undisturbed[p]
    BY <1>2, <2>1, DisturbedKeeps DEF NextRole, Goto, IInv, TypeOK
  <2>4. CallsMatch(p)'
    BY <1>3, <2>2, <2>3 DEF CallsMatch, AtRole, UpCalls, DownCalls
  <2>5. Progress(p)'
    <3>1. ASSUME NEW j \in 1..3, AtRole(p, UpOrder, j)' PROVE j = k + 1
      BY <2>2, <2>3, <3>1, RolesLeft DEF AtRole
    <3>2. (k + 1) - 1 = k
      OBVIOUS
    <3>3. QED
      BY <1>4, <2>3, <3>1, <3>2 DEF Progress, UpCalls, DownCalls
  <2>6. QED
    BY <2>1, <2>2, <2>4, <2>5, NextRoleKeeps DEF Pcs
<1>7. QED
  BY <1>5, <1>6

\* A `down' that is done with a role goes on to the next one, or to the network.
LEMMA DownNextKeeps ==
    ASSUME IInv, NEW p \in Procs, pc[p] \in DownCalls, DownNext(p),
           \A r \in Roles : Exists(cont, r)' => Exists(cont, r),
           ~Exists(cont', Role(p))
    PROVE  RunsKept
<1>1. PICK k \in 1..3 : AtRole(p, DownOrder, k)
  BY DEF IInv, CallsMatch
<1>2. /\ Role(p) = DownOrder[k]
      /\ AtLast(p) <=> k = 3
      /\ DropRole(left[p]) = SubSeq(DownOrder, k + 1, 3)
      /\ DropRole(left[p]) \in Left
  BY <1>1, RoleOf, RolesLeft
<1>3. req[p] \in Request /\ req[p].kind = "down"
  BY DEF IInv, CallsMatch
<1>4. undisturbed[p] => \A i \in 1..k : ~Exists(cont, DownOrder[i])'
  <2>1. undisturbed[p] => \A i \in 1..(k - 1) : ~Exists(cont, DownOrder[i])
    BY <1>1 DEF IInv, Progress
  <2>2. \A i \in 1..3 : DownOrder[i] \in Roles
    BY RolesLeft
  <2>3. ~Exists(cont, DownOrder[k])'
    BY <1>2 DEF Exists
  <2>4. \A i \in 1..k : i = k \/ i \in 1..(k - 1)
    OBVIOUS
  <2>5. QED
    BY <2>1, <2>2, <2>3, <2>4
<1> DEFINE l == IF AtLast(p) THEN "remove_network" ELSE "stop"
<1>5. /\ NextRole(p, l)
      /\ pc'[p] = l /\ req'[p] = req[p] /\ left'[p] = SubSeq(DownOrder, k + 1, 3)
      /\ undisturbed'[p] = undisturbed[p]
  BY <1>2, DisturbedKeeps DEF DownNext, NextRole, Goto, IInv, TypeOK
<1>6. CallsMatch(p)'
  BY <1>2, <1>3, <1>5 DEF CallsMatch, AtRole, UpCalls, DownCalls
<1>7. Progress(p)'
  <2>1. CASE AtLast(p)
    BY <1>2, <1>4, <1>5, <2>1, Orders DEF Progress, UpCalls, DownCalls
  <2>2. CASE ~AtLast(p)
    <3>1. k + 1 \in 1..3 /\ (k + 1) - 1 = k
      BY <1>2, <2>2
    <3>2. ASSUME NEW j \in 1..3, AtRole(p, DownOrder, j)' PROVE j = k + 1
      BY <1>5, <3>1, <3>2, RolesLeft DEF AtRole
    <3>3. QED
      BY <1>4, <1>5, <2>2, <3>1, <3>2 DEF Progress, UpCalls, DownCalls
  <2>3. QED
    BY <2>1, <2>2
<1>8. l \in Pcs
  BY DEF Pcs
<1> HIDE DEF l
<1>9. QED
  BY <1>2, <1>5, <1>6, <1>7, <1>8, NextRoleKeeps
-----------------------------------------------------------------------------
(***************************************************************************)
(* What the daemon does to a container.                                    *)
(***************************************************************************)
ContainersKept == cont' \in [Roles -> {None} \cup Container] /\ PortsOnNginx'

LEMMA DaemonKeeps ==
    ASSUME IInv, NEW r \in Roles,
           \/ UNCHANGED cont
           \/ cont' = Stopped(cont, r)
           \/ cont' = Removed(cont, r)
           \/ Exists(cont, r) /\ cont' = Started(cont, r)
    PROVE  ContainersKept
<1> USE DEF IInv, TypeOK, Exists, PortsOnNginx, ContainersKept
<1>1. CASE UNCHANGED cont
  BY <1>1
<1>2. CASE cont' = Stopped(cont, r)
  BY <1>2 DEF Stopped, IsRunning, Container, Statuses
<1>3. CASE cont' = Removed(cont, r)
  BY <1>3 DEF Removed
<1>4. CASE Exists(cont, r) /\ cont' = Started(cont, r)
  BY <1>4 DEF Started, Container, Statuses
<1>5. QED
  BY <1>1, <1>2, <1>3, <1>4

\* What keeps a container from starting is its network, or its port.
LEMMA CannotStart ==
    ASSUME IInv, NEW r \in Roles, Exists(cont, r), ~CanStart(r)
    PROVE  Explained
<1>1. CASE ~cont[r].on
  BY <1>1 DEF Explained
<1>2. CASE cont[r].on
  <2>1. ~IsRunning(cont, r) /\ cont[r].port \in PortsOf(cont) \cup foreign
    BY <1>2 DEF CanStart, MayStart
  <2>2. cont[r].port # None
    BY <2>1 DEF PortsOf, IInv, TypeOK
  <2>3. r = "nginx"
    BY <2>2 DEF IInv, PortsOnNginx
  <2>4. DOMAIN cont = Roles
    BY DEF IInv, TypeOK
  <2>5. ASSUME cont[r].port \in PortsOf(cont) PROVE FALSE
    <3>1. PICK n \in Roles : IsRunning(cont, n) /\ cont[n].port = cont[r].port
      BY <2>4, <2>5 DEF PortsOf
    <3>2. n = "nginx"
      BY <2>2, <3>1 DEF IInv, PortsOnNginx, IsRunning
    <3>3. QED
      BY <2>1, <2>3, <3>1, <3>2
  <2>6. QED
    BY <2>1, <2>3, <2>5 DEF Explained
<1>3. QED
  BY <1>1, <1>2

\* A run that begins or starts the container of its role.
LEMMA DaemonStartsKeeps ==
    ASSUME IInv, NEW p \in Procs, pc[p] \in UpCalls, Exists(cont, Role(p)),
           DaemonStarts(p, Role(p)), UNCHANGED <<net, foreign>>
    PROVE  RunsKept /\ ContainersKept
<1>1. Role(p) \in Roles /\ req[p] \in Request /\ req[p].kind = "up"
  BY RoleOf DEF IInv, CallsMatch
<1>2. CASE CanStart(Role(p))
  <2>1. cont' = Started(cont, Role(p)) /\ UpNext(p)
    BY <1>2 DEF DaemonStarts
  <2>2. /\ cont' \in [Roles -> {None} \cup Container]
        /\ PortsOnNginx'
    BY <1>1, <2>1, DaemonKeeps DEF ContainersKept
  <2>3. cont'[Role(p)].status = "running" /\ cont'[Role(p)] # None
    BY <1>1, <2>1 DEF Started, IInv, TypeOK, Exists, Container, Statuses
  <2>4. \A r \in Roles : IsRunning(cont, r) => IsRunning(cont, r)'
    BY <1>1, <2>1, <2>3 DEF Started, IsRunning, Exists, IInv, TypeOK
  <2>5. QED
    BY <2>1, <2>2, <2>3, <2>4, UpNextKeeps DEF ContainersKept
<1>3. CASE ~CanStart(Role(p))
  <2>1. Fail(p) /\ UNCHANGED cont
    BY <1>3 DEF DaemonStarts
  <2>2. Explained'
    BY <1>1, <1>3, <2>1, CannotStart DEF Explained, Exists
  <2>3. RunsKept
    BY <1>1, <2>1, <2>2, ReportKeeps DEF Fail
  <2>4. QED
    BY <1>1, <2>1, <2>3, DaemonKeeps
<1>4. QED
  BY <1>2, <1>3
-----------------------------------------------------------------------------
LEMMA InitIInv == Init => IInv
<1> SUFFICES ASSUME Init PROVE IInv
  OBVIOUS
<1>1. TypeOK
  BY WholeAndNone DEF Init, TypeOK, Pcs
<1>2. PortsOnNginx
  BY DEF Init, PortsOnNginx, Exists
<1>3. \A p \in Procs : CallsMatch(p) /\ Progress(p)
  BY DEF Init, CallsMatch, Progress, UpCalls, DownCalls
<1>4. UpSpeaksTrue /\ DownTearsDown
  BY DEF Init, UpSpeaksTrue, UpBringsAllUp, UpFailuresExplained, DownTearsDown
<1>5. QED
  BY <1>1, <1>2, <1>3, <1>4 DEF IInv

LEMMA InvokeKeeps ==
    ASSUME IInv, NEW p \in Procs, Invoke(p)
    PROVE  RunsKept
<1>1. PICK r \in Request :
        /\ req' = [req EXCEPT ![p] = r]
        /\ pc' = [pc EXCEPT ![p] = IF r.kind = "up" THEN "network" ELSE "stop"]
        /\ left' = [left EXCEPT ![p] = IF r.kind = "up" THEN UpOrder ELSE DownOrder]
  BY DEF Invoke
<1>2. r.kind \in {"up", "down"}
  BY DEF Request
<1>3. /\ pc' \in [Procs -> Pcs]
      /\ req' \in [Procs -> {NoRequest} \cup Request]
      /\ left' \in [Procs -> Left]
      /\ undisturbed' \in [Procs -> BOOLEAN]
      /\ said' = {}
  BY <1>1, WholeAndNone DEF Invoke, IInv, TypeOK, Pcs
<1>4. ASSUME NEW q \in Procs PROVE CallsMatch(q)'
  <2>1. CASE q = p
    <3>1. CASE r.kind = "up"
      BY <1>1, <2>1, <3>1, WholeAndNone
         DEF IInv, TypeOK, CallsMatch, AtRole, UpCalls, DownCalls
    <3>2. CASE r.kind = "down"
      BY <1>1, <2>1, <3>2, WholeAndNone
         DEF IInv, TypeOK, CallsMatch, AtRole, UpCalls, DownCalls
    <3>3. QED
      BY <1>2, <3>1, <3>2
  <2>2. CASE q # p
    BY <1>1, <2>2 DEF IInv, TypeOK, CallsMatch, AtRole
  <2>3. QED
    BY <2>1, <2>2
<1>5. ASSUME NEW q \in Procs PROVE Progress(q)'
  <2>1. CASE q = p
    <3>1. CASE r.kind = "up"
      BY <1>1, <2>1, <3>1 DEF IInv, TypeOK, Progress, UpCalls, DownCalls
    <3>2. CASE r.kind = "down"
      <4>1. pc'[q] = "stop" /\ AtRole(q, DownOrder, 1)'
        BY <1>1, <2>1, <3>2, WholeAndNone DEF IInv, TypeOK, AtRole
      <4>2. ASSUME NEW k \in 1..3, AtRole(q, DownOrder, k)' PROVE k = 1
        BY <4>1, <4>2, RolesLeft DEF AtRole
      <4>3. QED
        BY <4>1, <4>2 DEF Progress, UpCalls, DownCalls
    <3>3. QED
      BY <1>2, <3>1, <3>2
  <2>2. CASE q # p
    BY <2>2 DEF Invoke, IInv, TypeOK, Progress
  <2>3. QED
    BY <2>1, <2>2
<1>6. QED
  BY <1>3, <1>4, <1>5, SilenceIsTrue DEF RunsKept

LEMMA StepKeeps ==
    ASSUME IInv, NEW p \in Procs, Step(p)
    PROVE  RunsKept /\ ContainersKept /\ net' \in BOOLEAN
<1> USE DEF UpCalls, DownCalls
<1>0. ASSUME NEW r \in Roles, UNCHANGED cont PROVE ContainersKept
  BY <1>0, DaemonKeeps
<1>a. "db" \in Roles
  BY DEF Roles
<1>1. CASE GetNetwork(p)
  <2>1. /\ pc[p] = "network" /\ UNCHANGED <<cont, net, foreign, left>>
        /\ req[p] \in Request /\ req[p].kind = "up" /\ AtRole(p, UpOrder, 1)
    BY <1>1 DEF GetNetwork, IInv, CallsMatch
  <2>2. Goto(p, IF net THEN "find" ELSE "make_network")
    BY <1>1 DEF GetNetwork
  <2>3. /\ pc'[p] = (IF net THEN "find" ELSE "make_network") /\ req'[p] = req[p]
        /\ left'[p] = left[p]
    BY <2>1, <2>2 DEF Goto, IInv, TypeOK
  <2>4. CallsMatch(p)'
    BY <2>1, <2>3 DEF CallsMatch, AtRole
  <2>5. Progress(p)'
    <3>1. ASSUME NEW k \in 1..3, AtRole(p, UpOrder, k)' PROVE k = 1
      BY <2>1, <2>3, <3>1, AtOneRole DEF AtRole
    <3>2. QED
      BY <2>1, <2>3, <3>1 DEF Progress
  <2>6. RunsKept
    BY <2>1, <2>2, <2>4, <2>5, GotoKeeps DEF Pcs
  <2>7. QED
    BY <1>0, <1>a, <2>1, <2>6 DEF IInv, TypeOK
<1>2. CASE MakeNetwork(p)
  <2>1. /\ pc[p] = "make_network" /\ UNCHANGED <<cont, foreign>> /\ net' = TRUE
        /\ req[p] \in Request /\ req[p].kind = "up" /\ AtRole(p, UpOrder, 1)
    BY <1>2 DEF MakeNetwork, IInv, CallsMatch
  <2>2. CASE net
    <3>1. Fail(p) /\ ~undisturbed[p]
      BY <1>2, <2>1, <2>2 DEF MakeNetwork, IInv, Progress
    <3>2. RunsKept
      BY <2>1, <3>1, ReportKeeps DEF Fail
    <3>3. QED
      BY <1>0, <1>a, <2>1, <3>2
  <2>3. CASE ~net
    <3>1. Goto(p, "find") /\ UNCHANGED left
      BY <1>2, <2>3 DEF MakeNetwork
    <3>2. pc'[p] = "find" /\ req'[p] = req[p] /\ left'[p] = left[p]
      BY <3>1 DEF Goto, IInv, TypeOK
    <3>3. CallsMatch(p)'
      BY <2>1, <3>2 DEF CallsMatch, AtRole
    <3>4. Progress(p)'
      <4>1. ASSUME NEW k \in 1..3, AtRole(p, UpOrder, k)' PROVE k = 1
        BY <2>1, <3>2, <4>1, AtOneRole DEF AtRole
      <4>2. QED
        BY <2>1, <3>2, <4>1 DEF Progress
    <3>5. RunsKept
      BY <3>1, <3>3, <3>4, GotoKeeps DEF Pcs
    <3>6. QED
      BY <1>0, <1>a, <2>1, <3>5
  <2>4. QED
    BY <2>2, <2>3
<1>3. CASE Find(p)
  <2>1. /\ pc[p] = "find" /\ UNCHANGED <<cont, net, foreign>>
        /\ req[p] \in Request /\ req[p].kind = "up" /\ \E k \in 1..3 : AtRole(p, UpOrder, k)
    BY <1>3 DEF Find, IInv, CallsMatch
  <2>2. CASE AlreadyUp(cont, Role(p))
    <3>1. UpNext(p)
      BY <1>3, <2>2 DEF Find
    <3>2. cont'[Role(p)] # None /\ cont'[Role(p)].status = "running"
      BY <2>1, <2>2 DEF AlreadyUp, IsRunning, Exists
    <3>3. \A r \in Roles : IsRunning(cont, r) => IsRunning(cont, r)'
      BY <2>1 DEF IsRunning, Exists
    <3>4. RunsKept
      BY <2>1, <3>1, <3>2, <3>3, UpNextKeeps
    <3>5. QED
      BY <1>0, <1>a, <2>1, <3>4 DEF IInv, TypeOK
  <2>3. CASE ~AlreadyUp(cont, Role(p))
    <3> DEFINE l == IF Sees(cont, Role(p)) THEN "start" ELSE "create"
    <3>1. Goto(p, l) /\ UNCHANGED left
      BY <1>3, <2>3 DEF Find
    <3>2. pc'[p] = l /\ req'[p] = req[p] /\ left' = left /\ undisturbed'[p] = undisturbed[p]
      BY <3>1, DisturbedKeeps DEF Goto, IInv, TypeOK
    <3>3. CallsMatch(p)'
      BY <2>1, <3>2 DEF CallsMatch, AtRole
    <3>4. Progress(p)'
      <4>1. /\ Role(p)' = Role(p)
            /\ l = "start" => Exists(cont, Role(p))'
            /\ l = "create" => ~Exists(cont, Role(p))'
        BY <2>1, <3>2 DEF Role, Sees, Exists
      <4>2. undisturbed[p] =>
              /\ net
              /\ \A k \in 1..3 : AtRole(p, UpOrder, k) =>
                    \A i \in 1..(k - 1) : IsRunning(cont, UpOrder[i])'
        BY <2>1 DEF IInv, Progress, IsRunning, Exists
      <4>3. l \in {"start", "create"}
        OBVIOUS
      <4> HIDE DEF l
      <4>4. QED
        BY <2>1, <3>2, <4>1, <4>2, <4>3 DEF Progress, AtRole
    <3>5. RunsKept
      BY <3>1, <3>3, <3>4, GotoKeeps DEF Pcs
    <3>6. QED
      BY <1>0, <1>a, <2>1, <3>5 DEF IInv, TypeOK
  <2>4. QED
    BY <2>2, <2>3
<1>4. CASE Create(p)
  <2>1. /\ pc[p] = "create" /\ UNCHANGED <<net, foreign>>
        /\ req[p] \in Request /\ req[p].kind = "up" /\ \E k \in 1..3 : AtRole(p, UpOrder, k)
    BY <1>4 DEF Create, IInv, CallsMatch
  <2>2. CASE Exists(cont, Role(p))
    <3>1. Fail(p) /\ UNCHANGED cont /\ ~undisturbed[p]
      BY <1>4, <2>1, <2>2 DEF Create, IInv, Progress
    <3>2. RunsKept
      BY <2>1, <3>1, ReportKeeps DEF Fail
    <3>3. QED
      BY <1>0, <1>a, <2>1, <3>1, <3>2 DEF IInv, TypeOK
  <2>3. CASE ~Exists(cont, Role(p))
    <3> DEFINE c == [status |-> "created",
                     port |-> IF Role(p) = "nginx" THEN req[p].port ELSE None,
                     on |-> net, by |-> p]
    <3>1. cont' = [cont EXCEPT ![Role(p)] = c] /\ Goto(p, "begin") /\ UNCHANGED left
      BY <1>4, <2>3 DEF Create, Created
    <3>2. req[p].port \in Ports
      BY <2>1 DEF Request
    <3>3. c \in Container
      BY <2>1, <3>2 DEF Container, Statuses, IInv, TypeOK
    <3>4. c # None
      BY <3>3
    <3>5. Role(p) \in Roles
      BY <2>1, RoleOf
    <3>6. c.by = p /\ (Role(p) # "nginx" => c.port = None)
      OBVIOUS
    <3> HIDE DEF c
    <3>7. ContainersKept
      BY <3>1, <3>3, <3>4, <3>5, <3>6 DEF ContainersKept, IInv, TypeOK, PortsOnNginx, Exists
    <3>8. /\ pc'[p] = "begin" /\ req'[p] = req[p] /\ left' = left
          /\ undisturbed'[p] = undisturbed[p]
      BY <3>1, DisturbedKeeps DEF Goto, IInv, TypeOK
    <3>9. CallsMatch(p)'
      BY <2>1, <3>8 DEF CallsMatch, AtRole
    <3>10. cont'[Role(p)] = c /\ Role(p)' = Role(p)
      BY <3>1, <3>5, <3>8 DEF IInv, TypeOK, Role
    <3>11. \A r \in Roles : IsRunning(cont, r) => IsRunning(cont, r)'
      BY <2>3, <3>1, <3>5 DEF IInv, TypeOK, IsRunning, Exists
    <3>12. Progress(p)'
      <4>1. \A i \in 1..3 : UpOrder[i] \in Roles
        BY RolesLeft
      <4>2. undisturbed[p] =>
              /\ net
              /\ \A k \in 1..3 : AtRole(p, UpOrder, k) =>
                    \A i \in 1..(k - 1) : IsRunning(cont, UpOrder[i])'
        BY <2>1, <3>11, <4>1 DEF IInv, Progress
      <4>3. QED
        BY <2>1, <3>4, <3>6, <3>8, <3>10, <4>2 DEF Progress, AtRole, IsMine, Exists
    <3>13. RunsKept
      BY <3>1, <3>9, <3>12, GotoKeeps DEF Pcs
    <3>14. QED
      BY <2>1, <3>7, <3>13 DEF IInv, TypeOK
  <2>4. QED
    BY <2>2, <2>3
<1>5. CASE Begin(p)
  <2>1. /\ pc[p] = "begin" /\ UNCHANGED <<net, foreign>> /\ req[p] \in Request
    BY <1>5 DEF Begin, IInv, CallsMatch
  <2>2. CASE IsMine(cont, Role(p), p)
    <3>1. Exists(cont, Role(p)) /\ DaemonStarts(p, Role(p))
      BY <1>5, <2>2 DEF Begin, IsMine
    <3>2. QED
      BY <2>1, <3>1, DaemonStartsKeeps DEF IInv, TypeOK
  <2>3. CASE ~IsMine(cont, Role(p), p)
    <3>1. Fail(p) /\ UNCHANGED cont /\ ~undisturbed[p]
      BY <1>5, <2>1, <2>3 DEF Begin, IInv, Progress
    <3>2. RunsKept
      BY <2>1, <3>1, ReportKeeps DEF Fail
    <3>3. QED
      BY <1>0, <1>a, <2>1, <3>1, <3>2 DEF IInv, TypeOK
  <2>4. QED
    BY <2>2, <2>3
<1>6. CASE Start(p)
  <2>1. pc[p] = "start" /\ UNCHANGED <<net, foreign>>
    BY <1>6 DEF Start
  <2>2. CASE Exists(cont, Role(p))
    <3>1. DaemonStarts(p, Role(p))
      BY <1>6, <2>2 DEF Start
    <3>2. QED
      BY <2>1, <2>2, <3>1, DaemonStartsKeeps DEF IInv, TypeOK
  <2>3. CASE ~Exists(cont, Role(p))
    <3>1. UpNext(p) /\ UNCHANGED cont /\ ~undisturbed[p]
      BY <1>6, <2>1, <2>3 DEF Start, IInv, Progress
    <3>2. \A r \in Roles : IsRunning(cont, r) => IsRunning(cont, r)'
      BY <3>1 DEF IsRunning, Exists
    <3>3. RunsKept
      BY <2>1, <3>1, <3>2, UpNextKeeps
    <3>4. QED
      BY <1>0, <1>a, <2>1, <3>1, <3>3 DEF IInv, TypeOK
  <2>4. QED
    BY <2>2, <2>3
<1>7. CASE Stop(p)
  <2>1. /\ pc[p] = "stop" /\ UNCHANGED <<net, foreign>>
        /\ req[p] \in Request /\ req[p].kind = "down" /\ \E k \in 1..3 : AtRole(p, DownOrder, k)
    BY <1>7 DEF Stop, IInv, CallsMatch
  <2>2. Role(p) \in Roles
    BY <2>1, RoleOf
  <2>3. CASE Removable(cont, Role(p))
    <3>1. cont' = Stopped(cont, Role(p)) /\ Goto(p, "remove") /\ UNCHANGED left
      BY <1>7, <2>3 DEF Stop
    <3>2. ContainersKept
      BY <2>2, <3>1, DaemonKeeps
    <3>3. /\ pc'[p] = "remove" /\ req'[p] = req[p] /\ left' = left
          /\ undisturbed'[p] = undisturbed[p]
      BY <3>1, DisturbedKeeps DEF Goto, IInv, TypeOK
    <3>4. CallsMatch(p)'
      BY <2>1, <3>3 DEF CallsMatch, AtRole
    <3>5. \A r \in Roles : ~Exists(cont, r) => ~Exists(cont, r)'
      BY <2>2, <3>1 DEF Stopped, IsRunning, Exists, IInv, TypeOK
    <3>6. Progress(p)'
      <4>1. \A i \in 1..3 : DownOrder[i] \in Roles
        BY RolesLeft
      <4>2. undisturbed[p] =>
              \A k \in 1..3 : AtRole(p, DownOrder, k) =>
                  \A i \in 1..(k - 1) : ~Exists(cont, DownOrder[i])'
        BY <2>1, <3>5, <4>1 DEF IInv, Progress
      <4>3. QED
        BY <3>3, <4>2 DEF Progress, AtRole
    <3>7. RunsKept
      BY <3>1, <3>4, <3>6, GotoKeeps DEF Pcs
    <3>8. QED
      BY <2>1, <3>2, <3>7 DEF IInv, TypeOK
  <2>4. CASE ~Removable(cont, Role(p))
    <3>1. UNCHANGED cont /\ DownNext(p)
      BY <1>7, <2>4 DEF Stop
    <3>2. ~Exists(cont', Role(p)) /\ \A r \in Roles : Exists(cont, r)' => Exists(cont, r)
      BY <2>4, <3>1 DEF Removable, Exists
    <3>3. RunsKept
      BY <2>1, <3>1, <3>2, DownNextKeeps
    <3>4. QED
      BY <1>0, <1>a, <2>1, <3>1, <3>3 DEF IInv, TypeOK
  <2>5. QED
    BY <2>3, <2>4
<1>8. CASE Remove(p)
  <2>1. /\ pc[p] = "remove" /\ UNCHANGED <<net, foreign>>
        /\ cont' = Removed(cont, Role(p)) /\ DownNext(p)
        /\ \E k \in 1..3 : AtRole(p, DownOrder, k)
    BY <1>8 DEF Remove, IInv, CallsMatch
  <2>2. Role(p) \in Roles
    BY <2>1, RoleOf
  <2>3. ~Exists(cont', Role(p)) /\ \A r \in Roles : Exists(cont, r)' => Exists(cont, r)
    BY <2>1, <2>2 DEF Removed, Exists, IInv, TypeOK
  <2>4. RunsKept
    BY <2>1, <2>3, DownNextKeeps
  <2>5. QED
    BY <2>1, <2>2, <2>4, DaemonKeeps DEF IInv, TypeOK
<1>9. CASE RemoveNetwork(p)
  <2>1. /\ pc[p] = "remove_network" /\ UNCHANGED foreign
        /\ req[p] \in Request /\ req[p].kind = "down"
    BY <1>9 DEF RemoveNetwork, IInv, CallsMatch
  <2>2. CASE net /\ ~NetworkIdle
    <3>1. Fail(p) /\ UNCHANGED <<cont, net>> /\ ~undisturbed[p]
      BY <1>9, <2>1, <2>2 DEF RemoveNetwork, IInv, Progress, NetworkIdle, IsRunning
    <3>2. RunsKept
      BY <2>1, <3>1, ReportKeeps DEF Fail
    <3>3. QED
      BY <1>0, <1>a, <3>1, <3>2 DEF IInv, TypeOK
  <2>3. CASE ~(net /\ ~NetworkIdle)
    <3>1. /\ net' = FALSE
          /\ cont' = [r \in Roles |->
               IF Exists(cont, r) THEN [cont[r] EXCEPT !.on = FALSE] ELSE None]
          /\ Report(p, TRUE)
      BY <1>9, <2>3 DEF RemoveNetwork
    <3>2. ASSUME NEW r \in Roles
          PROVE  /\ cont'[r] \in {None} \cup Container
                 /\ cont'[r] # None => Exists(cont, r) /\ cont'[r].port = cont[r].port
      <4>1. CASE Exists(cont, r)
        <5>1. cont'[r] = [cont[r] EXCEPT !.on = FALSE] /\ cont[r] \in Container
          BY <3>1, <4>1 DEF IInv, TypeOK, Exists
        <5>2. QED
          BY <4>1, <5>1 DEF Container
      <4>2. CASE ~Exists(cont, r)
        BY <3>1, <4>2
      <4>3. QED
        BY <4>1, <4>2
    <3>3. ContainersKept
      BY <3>1, <3>2 DEF ContainersKept, PortsOnNginx, Exists, IInv
    <3>4. undisturbed[p] => TornDown'
      BY <2>1, <3>1, <3>2 DEF IInv, Progress, TornDown, Exists
    <3>5. RunsKept
      BY <2>1, <3>1, <3>4, ReportKeeps
    <3>6. QED
      BY <3>1, <3>3, <3>5
  <2>4. QED
    BY <2>2, <2>3
<1>10. CASE Kill(p)
  <2>1. EndSaying(p, {}) /\ UNCHANGED <<cont, net>>
    BY <1>10 DEF Kill
  <2>2. RunsKept
    BY <2>1, EndKeeps, SilenceIsTrue DEF RunsKept
  <2>3. QED
    BY <1>0, <1>a, <2>1, <2>2 DEF IInv, TypeOK
<1>11. QED
  BY <1>1, <1>2, <1>3, <1>4, <1>5, <1>6, <1>7, <1>8, <1>9, <1>10 DEF Step

LEMMA OutsideKeeps ==
    ASSUME IInv, Outside
    PROVE  RunsKept /\ net' \in BOOLEAN
<1>1. /\ pc' \in [Procs -> Pcs]
      /\ req' \in [Procs -> {NoRequest} \cup Request]
      /\ left' \in [Procs -> Left]
      /\ undisturbed' \in [Procs -> BOOLEAN]
      /\ said' = {}
      /\ net' \in BOOLEAN
  BY DEF Outside, IInv, TypeOK
<1>2. \A q \in Procs : CallsMatch(q)' /\ Progress(q)'
  BY DEF Outside, IInv, CallsMatch, AtRole, Progress
<1>3. QED
  BY <1>1, <1>2, SilenceIsTrue DEF RunsKept

LEMMA NextIInv == IInv /\ [Next]_vars => IInv'
<1> SUFFICES ASSUME IInv, [Next]_vars PROVE IInv'
  OBVIOUS
<1>1. ASSUME RunsKept, ContainersKept, net' \in BOOLEAN, foreign' \subseteq Ports,
             runs' \in Nat, outside' \in Nat
      PROVE  IInv'
  BY <1>1 DEF RunsKept, ContainersKept, IInv, TypeOK
<1>2. "db" \in Roles
  BY DEF Roles
<1>3. ASSUME NEW p \in Procs, Invoke(p) PROVE IInv'
  <2>1. /\ UNCHANGED <<cont, net, foreign, outside>> /\ runs' = runs + 1
    BY <1>3 DEF Invoke
  <2>2. ContainersKept
    BY <1>2, <2>1, DaemonKeeps
  <2>3. RunsKept
    BY <1>3, InvokeKeeps
  <2>4. QED
    BY <1>1, <2>1, <2>2, <2>3 DEF IInv, TypeOK
<1>4. ASSUME NEW p \in Procs, Step(p) PROVE IInv'
  <2>1. UNCHANGED <<foreign, runs, outside>>
    BY <1>4 DEF Step, GetNetwork, MakeNetwork, Find, Create, Begin, Start, Stop, Remove,
       RemoveNetwork, Kill
  <2>2. RunsKept /\ ContainersKept /\ net' \in BOOLEAN
    BY <1>4, StepKeeps
  <2>3. QED
    BY <1>1, <2>1, <2>2 DEF IInv, TypeOK
<1>5. ASSUME NEW t \in Ports, OtherProgramTakes(t) \/ OtherProgramReleases(t) PROVE IInv'
  <2>1. /\ Outside /\ UNCHANGED <<cont, runs>> /\ outside' = outside + 1
        /\ foreign' \subseteq Ports
    BY <1>5 DEF OtherProgramTakes, OtherProgramReleases, Outside, IInv, TypeOK
  <2>2. ContainersKept
    BY <1>2, <2>1, DaemonKeeps
  <2>3. QED
    BY <1>1, <2>1, <2>2, OutsideKeeps DEF IInv, TypeOK
<1>6. ASSUME NEW r \in Roles, StopsBehind(r) \/ StartsBehind(r) PROVE IInv'
  <2>1. /\ Outside /\ UNCHANGED <<foreign, runs>> /\ outside' = outside + 1
        /\ cont' = Stopped(cont, r) \/ (Exists(cont, r) /\ cont' = Started(cont, r))
    BY <1>6 DEF StopsBehind, StartsBehind, Outside
  <2>2. ContainersKept
    BY <2>1, DaemonKeeps
  <2>3. QED
    BY <1>1, <2>1, <2>2, OutsideKeeps DEF IInv, TypeOK
<1>7. CASE UNCHANGED vars
  BY <1>7 DEF vars, run, IInv, TypeOK, PortsOnNginx, Exists, CallsMatch, AtRole, Progress,
     IsRunning, IsMine, Role, UpSpeaksTrue, UpBringsAllUp, UpFailuresExplained, DownTearsDown,
     Undisturbed
<1>8. QED
  BY <1>3, <1>4, <1>5, <1>6, <1>7 DEF Next

THEOREM Invariance == Spec => []IInv
BY InitIInv, NextIInv, PTL DEF Spec

\* The daemon's table, the network, and what the runs remember keep their types,
\* for any number of overlapping runs on any ports.
THEOREM TypeCorrect == Spec => []TypeOK
<1>1. IInv => TypeOK
  BY DEF IInv
<1>2. QED
  BY <1>1, Invariance, PTL

\* For any number of overlapping and killed runs, an `up' that nothing disturbs
\* can be believed: a success has all three containers running, and a failure has
\* a cause that up does not see to.
THEOREM UpSpeaksTrueHolds == Spec => []UpSpeaksTrue
<1>1. IInv => UpSpeaksTrue
  BY DEF IInv
<1>2. QED
  BY <1>1, Invariance, PTL

\* For any number of overlapping and killed runs, a `down' that nothing disturbs
\* succeeds and leaves no container and no network.
THEOREM DownTearsDownHolds == Spec => []DownTearsDown
<1>1. IInv => DownTearsDown
  BY DEF IInv
<1>2. QED
  BY <1>1, Invariance, PTL
==============================================================================
