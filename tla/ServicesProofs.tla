---------------------------- MODULE ServicesProofs ----------------------------
(***************************************************************************)
(* Theorems about adguard, docker-clean and ports, as MCServices composes  *)
(* them: for any number of runs one after the other, killed anywhere, and  *)
(* for any ports, containers, builders, processes and disturbances.        *)
(***************************************************************************)
EXTENDS MCServices, SequenceTheorems, FiniteSetTheorems, TLAPS

USE PidAssumption, PortsNoneAssumption
-----------------------------------------------------------------------------
(***************************************************************************)
(* ports kill.                                                             *)
(***************************************************************************)
PortsAt == {"list", "prompt", "list_again", "signal"}

\* Process 1 is there, and no other process is taken for it.
PortsState ==
    /\ table \in [Pid -> Process \cup {None}]
    /\ born \in 1..MaxBorn
    /\ holds \subseteq {table[p] : p \in Pid} \ {None}
    /\ table[1] = Init1
    /\ \A p \in Pid \ {1} : table[p] # Init1

\* As long as nothing has disturbed the run, it was shown what a listing shows.
ShownIsListed ==
    at \in {"prompt", "list_again", "signal"} /\ calm => mem.shown = Rows(req.lsof)

\* What has become of the rows so far: a row without a process is still to do,
\* and the others were signalled or refused the signal.
SignalsSoFar ==
    at = "signal" =>
        /\ DOMAIN mem = {"shown", "todo", "meant", "hit", "bounced", "failed"}
        /\ mem.todo \subseteq Pid \cup {0}
        /\ 1 \notin mem.todo
        /\ mem.hit \subseteq Process
        /\ Init1 \notin mem.hit
        /\ mem.failed \in BOOLEAN /\ (mem.bounced # {} => mem.failed)
        /\ calm =>
            /\ mem.todo \subseteq mem.shown
            /\ 0 \in mem.shown => 0 \in mem.todo
            /\ mem.hit = {table[p] : p \in mem.shown \ mem.todo}

PortsRun ==
    /\ at # "idle" => at \in PortsAt /\ req.cmd = "kill"
    /\ \A s \in said : s.req.cmd = "kill"
    /\ at = "idle" \/ req.dry \in BOOLEAN
    /\ at = "signal" => ~req.dry
    /\ ShownIsListed
    /\ SignalsSoFar

PortsInv == PortsState /\ (group = "ports" => PortsRun)

LEMMA PortsInitially == PortsStart /\ CliInit /\ group \in {"adguard", "docker", "ports"} => PortsInv
<1> SUFFICES ASSUME PortsStart, CliInit, group \in {"adguard", "docker", "ports"}
             PROVE  PortsInv
  OBVIOUS
<1>1. table = [p \in Pid |-> IF p = 1 THEN Init1 ELSE None] /\ born = 1 /\ holds \subseteq {Init1}
  BY DEF PortsStart
<1>2. 1 \in Pid /\ 1 \in 1..MaxBorn /\ Init1 \in Process
  BY DEF Pid, Process, Init1
<1>3. PortsState
  BY <1>1, <1>2 DEF PortsState
<1>4. QED
  BY <1>3 DEF PortsInv, PortsRun, CliInit, ShownIsListed, SignalsSoFar

LEMMA AskKillKeeps ==
    ASSUME PortsInv, AskKill
    PROVE  PortsInv' /\ group = "ports" /\ said' = {}
<1>1. /\ group = "ports" /\ group' = group /\ at' = "list" /\ said' = {}
      /\ req'.cmd = "kill" /\ req'.dry \in BOOLEAN
      /\ UNCHANGED ports
  BY DEF AskKill, Starts
<1>2. PortsState'
  BY <1>1 DEF ports, PortsInv, PortsState
<1>3. QED
  BY <1>1, <1>2 DEF PortsInv, PortsRun, PortsAt, ShownIsListed, SignalsSoFar

\* A run that ends says what it was asked, or nothing.
LEMMA PortsEnd ==
    ASSUME PortsInv, group = "ports", at # "idle", UNCHANGED ports, NEW code,
           Exit(code) \/ Ends({})
    PROVE  PortsInv'
<1>1. /\ group' = group /\ at' = "idle"
      /\ \A s \in said' : s.req = req
  BY DEF Exit, Ends
<1>2. PortsState'
  BY DEF ports, PortsInv, PortsState
<1>3. \A s \in said' : s.req.cmd = "kill"
  BY <1>1 DEF PortsInv, PortsRun
<1>4. QED
  BY <1>1, <1>2, <1>3 DEF PortsInv, PortsRun, ShownIsListed, SignalsSoFar

LEMMA ListShownKeeps ==
    ASSUME PortsInv, group = "ports", ListShown
    PROVE  PortsInv'
<1>1. at = "list" /\ UNCHANGED ports
  BY DEF ListShown
<1>2. CASE \E code \in {"nothing", "fail"} : Exit(code)
  BY <1>1, <1>2, PortsEnd
<1>3. CASE \E l \in {"list_again", "prompt"}, rows \in Listed : rows # {} /\ Remember(l, [shown |-> rows])
  <2>1. PICK l \in {"list_again", "prompt"}, rows \in Listed :
          rows # {} /\ Remember(l, [shown |-> rows])
    BY <1>3
  <2>2. mem'.shown = Rows(req.lsof)
    BY <2>1 DEF Listed, Remember
  <2>3. Rows(req.lsof)' = Rows(req.lsof)
    BY <1>1, <2>1 DEF Remember, ports, Rows, Seen
  <2>4. PortsState'
    BY <1>1 DEF ports, PortsInv, PortsState
  <2>5. QED
    BY <1>1, <2>1, <2>2, <2>3, <2>4
    DEF Remember, PortsInv, PortsRun, PortsAt, ShownIsListed, SignalsSoFar
<1>4. QED
  BY <1>1, <1>2, <1>3 DEF ListShown

LEMMA AnswerKeeps ==
    ASSUME PortsInv, group = "ports", Answer
    PROVE  PortsInv'
<1>1. at = "prompt" /\ UNCHANGED ports
  BY DEF Answer
<1>2. CASE Exit("fail")
  BY <1>1, <1>2, PortsEnd
<1>3. CASE Goto("list_again")
  <2>1. Rows(req.lsof)' = Rows(req.lsof)
    BY <1>1, <1>3 DEF Goto, Remember, ports, Rows, Seen
  <2>2. PortsState'
    BY <1>1 DEF ports, PortsInv, PortsState
  <2>3. QED
    BY <1>1, <1>3, <2>1, <2>2
    DEF Goto, Remember, PortsInv, PortsRun, PortsAt, ShownIsListed, SignalsSoFar
<1>4. QED
  BY <1>2, <1>3 DEF Answer

\* The rows of a listing are numbers; those that are none of a process are 0.
LEMMA RowsShape ==
    ASSUME NEW l
    PROVE  /\ Rows(l) \subseteq Pid \cup {0}
           /\ \A p \in Rows(l) \ {0} : table[p] \in holds /\ Seen(p)
BY DEF Rows

LEMMA ListAgainKeeps ==
    ASSUME PortsInv, group = "ports", ListAgain
    PROVE  PortsInv'
<1>1. at = "list_again" /\ UNCHANGED ports
  BY DEF ListAgain
<1>2. CASE \E code \in {"nothing", "fail", "ok"} : Exit(code)
  BY <1>1, <1>2, PortsEnd
<1>3. CASE ~\E code \in {"nothing", "fail", "ok"} : Exit(code)
  <2>1. PICK rows \in Listed :
          /\ rows # {} /\ (\A p \in rows : ~Never(p)) /\ ~req.dry
          /\ Remember("signal", [shown |-> mem.shown, todo |-> rows, meant |-> Meant(rows),
                                 hit |-> {}, bounced |-> {}, failed |-> FALSE])
    BY <1>3 DEF ListAgain
  <2>2. rows = Rows(req.lsof)
    BY <2>1 DEF Listed
  <2>3. rows \subseteq Pid \cup {0} /\ 1 \notin rows
    BY <2>1, <2>2, RowsShape DEF Never
  <2>4. /\ DOMAIN mem' = {"shown", "todo", "meant", "hit", "bounced", "failed"}
        /\ mem'.shown = mem.shown /\ mem'.todo = rows /\ mem'.hit = {}
        /\ mem'.bounced = {} /\ mem'.failed = FALSE
        /\ at' = "signal" /\ said' = {} /\ UNCHANGED <<group, req, calm>>
    BY <2>1 DEF Remember
  <2>5. Rows(req.lsof)' = Rows(req.lsof)
    BY <1>1, <2>4 DEF ports, Rows, Seen
  <2>6. PortsState'
    BY <1>1 DEF ports, PortsInv, PortsState
  <2>7. calm => mem.shown = rows
    BY <1>1, <2>2 DEF PortsInv, PortsRun, ShownIsListed
  <2>8. SignalsSoFar'
    BY <2>3, <2>4, <2>7 DEF SignalsSoFar
  <2>9. ShownIsListed'
    BY <2>2, <2>4, <2>5, <2>7 DEF ShownIsListed
  <2>10. QED
    BY <1>1, <2>1, <2>4, <2>6, <2>8, <2>9 DEF PortsInv, PortsRun, PortsAt
<1>4. QED
  BY <1>2, <1>3

\* A signal goes to the process that has the number now.
LEMMA SignalKeeps ==
    ASSUME PortsInv, group = "ports", Signal
    PROVE  PortsInv'
<1>1. at = "signal" /\ UNCHANGED ports
  BY DEF Signal
<1>2. PICK p \in mem.todo :
        IF p = 0 THEN Killed
        ELSE IF table[p] # None /\ ~May(p)
        THEN Remember("signal", [mem EXCEPT !.todo = @ \ {p}, !.failed = AnyFailed(TRUE),
                                            !.bounced = @ \cup {p}])
        ELSE Remember("signal", [mem EXCEPT !.todo = @ \ {p}, !.failed = AnyFailed(FALSE),
                                            !.hit = @ \cup ({table[p]} \ {None})])
  BY DEF Signal
<1>3. CASE p = 0
  <2>1. Ends({}) /\ at # "idle"
    BY <1>1, <1>2, <1>3 DEF Killed
  <2>2. QED
    BY <1>1, <2>1, PortsEnd
<1>4. CASE p # 0
  <2>1. p \in Pid \ {1} /\ table[p] \in Process \cup {None} /\ table[p] # Init1
    BY <1>1, <1>4 DEF PortsInv, PortsState, PortsRun, SignalsSoFar
  <2>2. calm => table[p] \in holds /\ Seen(p) /\ table[p] # None
    BY <1>1, <1>4, RowsShape DEF PortsInv, PortsState, PortsRun, SignalsSoFar, ShownIsListed
  <2>3. PortsState' /\ UNCHANGED <<table, holds, sudoer>>
    BY <1>1 DEF ports, PortsInv, PortsState
  <2>4. /\ at' = "signal" /\ said' = {} /\ UNCHANGED <<group, req, calm>>
    BY <1>2, <1>4 DEF Remember
  <2>5. ShownIsListed'
    <3>1. mem'.shown = mem.shown
      BY <1>1, <1>2, <1>4 DEF Remember, PortsInv, PortsRun, SignalsSoFar
    <3>2. Rows(req.lsof)' = Rows(req.lsof)
      BY <2>3, <2>4 DEF Rows, Seen
    <3>3. QED
      BY <1>1, <2>4, <3>1, <3>2 DEF PortsInv, PortsRun, ShownIsListed
  <2>6. SignalsSoFar'
    <3>1. CASE table[p] # None /\ ~May(p)
      <4>1. mem' = [mem EXCEPT !.todo = @ \ {p}, !.failed = AnyFailed(TRUE),
                               !.bounced = @ \cup {p}]
        BY <1>2, <1>4, <3>1 DEF Remember
      <4>2. ~calm
        BY <2>2, <3>1 DEF Seen, May
      <4>3. /\ DOMAIN mem = {"shown", "todo", "meant", "hit", "bounced", "failed"}
            /\ mem.todo \subseteq Pid \cup {0} /\ 1 \notin mem.todo /\ mem.hit \subseteq Process
            /\ Init1 \notin mem.hit
        BY <1>1 DEF PortsInv, PortsRun, SignalsSoFar
      <4>4. /\ DOMAIN mem' = DOMAIN mem /\ mem'.todo = mem.todo \ {p} /\ mem'.failed = TRUE
            /\ mem'.hit = mem.hit
        BY <4>1, <4>3 DEF AnyFailed
      <4>5. QED
        BY <2>4, <4>2, <4>3, <4>4 DEF SignalsSoFar
    <3>2. CASE ~(table[p] # None /\ ~May(p))
      <4>1. mem' = [mem EXCEPT !.todo = @ \ {p}, !.failed = AnyFailed(FALSE),
                               !.hit = @ \cup ({table[p]} \ {None})]
        BY <1>2, <1>4, <3>2 DEF Remember
      <4>2. /\ DOMAIN mem' = DOMAIN mem /\ mem'.todo = mem.todo \ {p}
            /\ mem'.failed = mem.failed
            /\ mem'.hit = mem.hit \cup ({table[p]} \ {None})
            /\ mem'.bounced = mem.bounced /\ mem'.shown = mem.shown
        BY <1>1, <4>1 DEF PortsInv, PortsRun, SignalsSoFar, AnyFailed
      <4>3. /\ DOMAIN mem = {"shown", "todo", "meant", "hit", "bounced", "failed"}
            /\ mem.todo \subseteq Pid \cup {0} /\ 1 \notin mem.todo /\ mem.hit \subseteq Process
            /\ Init1 \notin mem.hit /\ mem.failed \in BOOLEAN
            /\ (mem.bounced # {} => mem.failed)
            /\ calm => /\ mem.todo \subseteq mem.shown
                       /\ 0 \in mem.shown => 0 \in mem.todo
                       /\ mem.hit = {table[q] : q \in mem.shown \ mem.todo}
        BY <1>1 DEF PortsInv, PortsRun, SignalsSoFar
      <4>4. calm => mem'.hit = {table[q] : q \in mem'.shown \ mem'.todo}
        <5>1. calm => mem'.hit = mem.hit \cup {table[p]}
          BY <2>2, <4>2
        <5>2. calm => mem'.shown \ mem'.todo = (mem.shown \ mem.todo) \cup {p}
          BY <1>2, <4>2, <4>3
        <5>3. QED
          BY <4>3, <5>1, <5>2
      <4>5. QED
        BY <1>4, <2>1, <2>3, <2>4, <4>2, <4>3, <4>4 DEF SignalsSoFar
    <3>3. QED
      BY <3>1, <3>2
  <2>7. QED
    BY <1>1, <2>3, <2>4, <2>5, <2>6 DEF PortsInv, PortsRun, PortsAt
<1>5. QED
  BY <1>3, <1>4

\* What other processes do leaves the table well formed.
LEMMA TableKept ==
    ASSUME PortsState, group = "ports", Spawns \/ Dies \/ Recycled \/ InitListens
    PROVE  PortsState'
<1>1. 1 \in Pid /\ born \in 1..MaxBorn
  BY DEF PortsState, Pid
<1>2. ASSUME NEW p \in LowPids \cup HighPids, NEW one \in (Process \ {Init1}) \cup {None},
             table' = [table EXCEPT ![p] = one], born' \in 1..MaxBorn,
             holds' \subseteq (holds \ {table[p]}) \cup ({one} \ {None})
      PROVE  PortsState'
  <2>1. p \in Pid \ {1}
    BY DEF Pid
  <2>2. /\ table' \in [Pid -> Process \cup {None}] /\ table'[1] = Init1
        /\ \A q \in Pid \ {1} : table'[q] # Init1
    <3>1. Init1 # None
      <4>1. Init1 \in Process
        BY DEF Init1, Process
      <4>2. QED
        BY <4>1
    <3>2. QED
      BY <1>1, <1>2, <2>1, <3>1 DEF PortsState
  <2>3. ASSUME NEW h \in holds' PROVE h \in {table'[q] : q \in Pid} \ {None}
    <3>1. CASE h \in {one} \ {None}
      BY <1>2, <2>1, <3>1 DEF PortsState
    <3>2. CASE h \in holds \ {table[p]}
      <4>1. PICK q \in Pid : h = table[q] /\ h # None
        BY <3>2 DEF PortsState
      <4>2. q # p /\ table'[q] = table[q]
        BY <1>2, <3>2, <4>1 DEF PortsState
      <4>3. QED
        BY <4>1, <4>2
    <3>3. QED
      BY <1>2, <3>1, <3>2
  <2>4. QED
    BY <1>2, <2>2, <2>3 DEF PortsState
<1>3. ASSUME NEW b \in BOOLEAN, born < MaxBorn
      PROVE  [no |-> born + 1, rootly |-> b] \in Process \ {Init1} /\ born + 1 \in 1..MaxBorn
  BY <1>1, <1>3 DEF Process, Init1
<1>4. CASE Spawns
  <2>1. PICK p \in LowPids \cup HighPids, rootly \in BOOLEAN, takes \in BOOLEAN :
          /\ table[p] = None
          /\ table' = [table EXCEPT ![p] = [no |-> born + 1, rootly |-> rootly]]
          /\ holds' = holds \cup (IF takes THEN {[no |-> born + 1, rootly |-> rootly]} ELSE {})
    BY <1>4 DEF Spawns
  <2>2. None \notin holds /\ born < MaxBorn /\ born' = born + 1
    BY <1>4 DEF PortsState, Spawns
  <2>3. [no |-> born + 1, rootly |-> rootly] \in Process \ {Init1} /\ born + 1 \in 1..MaxBorn
    BY <1>3, <2>2
  <2> DEFINE one == [no |-> born + 1, rootly |-> rootly]
  <2> HIDE DEF one
  <2>4. one \in Process \ {Init1} /\ table' = [table EXCEPT ![p] = one]
        /\ holds' \subseteq (holds \ {table[p]}) \cup ({one} \ {None})
    BY <2>1, <2>2, <2>3, PortsNoneAssumption DEF one
  <2>5. QED
    BY <1>2, <2>2, <2>3, <2>4
<1>5. CASE Dies
  <2>1. PICK p \in LowPids \cup HighPids :
          table' = [table EXCEPT ![p] = None] /\ holds' = holds \ {table[p]}
    BY <1>5 DEF Dies
  <2>2. born' = born
    BY <1>5 DEF Dies
  <2>3. QED
    BY <1>1, <1>2, <2>1, <2>2
<1>6. CASE Recycled
  <2>1. PICK p \in LowPids \cup HighPids, rootly \in BOOLEAN :
          /\ table' = [table EXCEPT ![p] = [no |-> born + 1, rootly |-> rootly]]
          /\ holds' = holds \ {table[p]}
    BY <1>6 DEF Recycled
  <2>2. born < MaxBorn /\ born' = born + 1
    BY <1>6 DEF Recycled
  <2>3. [no |-> born + 1, rootly |-> rootly] \in Process \ {Init1} /\ born + 1 \in 1..MaxBorn
    BY <1>3, <2>2
  <2>4. QED
    BY <1>2, <2>1, <2>2, <2>3
<1>7. CASE InitListens
  <2>1. UNCHANGED <<table, born>> /\ holds' \subseteq holds \cup {Init1}
    BY <1>7 DEF InitListens
  <2>2. Init1 \in {table[p] : p \in Pid} \ {None}
    <3>1. Init1 \in Process
      BY DEF Init1, Process
    <3>2. QED
      BY <1>1, <3>1 DEF PortsState
  <2>3. QED
    BY <2>1, <2>2 DEF PortsState
<1>8. QED
  BY <1>4, <1>5, <1>6, <1>7

LEMMA PortsOutsideKeeps ==
    ASSUME PortsInv, group = "ports", Spawns \/ Dies \/ Recycled \/ InitListens
    PROVE  PortsInv'
<1>1. PortsState'
  BY TableKept DEF PortsInv
<1>2. /\ said' = {} /\ UNCHANGED <<group, at, req, mem>>
      /\ at = "idle" \/ calm' = FALSE
  BY DEF Spawns, Dies, Recycled, InitListens, Aside, Idle, Elapses, Outside
<1>3. QED
  BY <1>1, <1>2 DEF PortsInv, PortsRun, ShownIsListed, SignalsSoFar

LEMMA PortsNextKeeps ==
    ASSUME PortsInv, group = "ports", PortsNext
    PROVE  PortsInv'
<1>1. CASE AskKill
  BY <1>1, AskKillKeeps
<1>2. CASE ListShown \/ Answer \/ ListAgain \/ Signal
  BY <1>2, ListShownKeeps, AnswerKeeps, ListAgainKeeps, SignalKeeps
<1>3. CASE Sent
  <2>1. at = "signal" /\ UNCHANGED ports /\ \E code \in {"ok", "fail"} : Exit(code)
    BY <1>3 DEF Sent
  <2>2. QED
    BY <2>1, PortsEnd
<1>4. CASE PortsKilled
  BY <1>4, PortsEnd DEF PortsKilled, Killed, Idle
<1>5. CASE Spawns \/ Dies \/ Recycled \/ InitListens
  BY <1>5, PortsOutsideKeeps
<1>6. QED
  BY <1>1, <1>2, <1>3, <1>4, <1>5 DEF PortsNext, PortsStep

LEMMA SaysNothing == said' = {} => SentToHolders'
BY DEF SentToHolders

\* The last words of a kill, from what the run has found out.
LEMMA SentStep ==
    ASSUME PortsInv, group = "ports", PortsNext
    PROVE  SentToHolders'
<1>1. CASE \E code \in {"nothing", "fail"} : Exit(code)
  BY <1>1 DEF Exit, Ends, SentToHolders
<1>2. CASE ListAgain /\ Exit("ok")
  <2>1. CASE req.dry
    BY <1>2, <2>1 DEF Exit, Ends, SentToHolders
  <2>2. CASE ~req.dry
    <3>1. at' = "idle" /\ said' # {}
      BY <1>2 DEF Exit, Ends
    <3>2. CASE said' = {[req |-> req, exit |-> "fail", calm |-> calm, mem |-> mem]}
      BY <3>2 DEF SentToHolders
    <3>3. CASE said' = {[req |-> req, exit |-> "nothing", calm |-> calm, mem |-> mem]}
      BY <3>3 DEF SentToHolders
    <3>4. QED
      BY <1>2, <2>2, <3>1, <3>2, <3>3 DEF ListAgain, Remember, Exit, Ends
  <2>3. QED
    BY <2>1, <2>2
<1>3. CASE Sent /\ ~mem.failed
  <2>1. /\ at = "signal" /\ mem.todo = {} /\ UNCHANGED <<table, holds>>
        /\ said' = {[req |-> req, exit |-> "ok", calm |-> calm, mem |-> mem]}
    BY <1>3 DEF Sent, ports, Exit, Ends
  <2>2. mem.bounced = {}
    BY <1>3, <2>1 DEF PortsInv, PortsRun, SignalsSoFar
  <2>3. calm => mem.hit = {table[p] : p \in mem.shown} /\ mem.hit \subseteq holds
    <3>1. calm => mem.shown = Rows(req.lsof) /\ 0 \notin mem.shown
                  /\ mem.hit = {table[p] : p \in mem.shown \ {}}
      BY <2>1 DEF PortsInv, PortsRun, SignalsSoFar, ShownIsListed
    <3>2. QED
      BY <3>1, RowsShape
  <2>4. QED
    BY <2>1, <2>2, <2>3 DEF SentToHolders
<1>4. CASE said' = {}
  BY <1>4, SaysNothing
<1>5. QED
  <2>1. CASE AskKill \/ PortsKilled \/ Spawns \/ Dies \/ Recycled \/ InitListens \/ Signal
    <3>1. said' = {}
      BY <2>1 DEF AskKill, Starts, PortsKilled, Spawns, Dies, Recycled, InitListens, Signal, Killed,
         Ends, Aside, Elapses, Outside, Remember
    <3>2. QED
      BY <1>4, <3>1
  <2>2. CASE ListShown
    <3>1. said' = {} \/ \E code \in {"nothing", "fail"} : Exit(code)
      BY <2>2 DEF ListShown, Remember
    <3>2. QED
      BY <1>1, <1>4, <3>1
  <2>3. CASE Answer
    BY <1>1, <1>4, <2>3 DEF Answer, Goto, Remember
  <2>4. CASE ListAgain
    <3>1. \/ said' = {}
          \/ \E code \in {"nothing", "fail"} : Exit(code)
          \/ Exit("ok")
      BY <2>4 DEF ListAgain, Remember
    <3>2. QED
      BY <1>1, <1>2, <1>4, <2>4, <3>1
  <2>5. CASE Sent
    <3>1. CASE mem.failed
      <4>1. Exit("fail")
        BY <2>5, <3>1 DEF Sent
      <4>2. QED
        BY <1>1, <4>1
    <3>2. QED
      BY <1>3, <2>5, <3>1
  <2>6. QED
    BY <2>1, <2>2, <2>3, <2>4, <2>5 DEF PortsNext, PortsStep
-----------------------------------------------------------------------------
(***************************************************************************)
(* docker-clean.                                                           *)
(***************************************************************************)
CleanAt == {"boot", "parse", "step", "each", "schedule", "compose_down", "restart", "poll"}
StepCmd == {"stop_all", "quick", "nuke", "prune_images", "prune_volumes", "prune_networks",
            "prune_builders", "orphans"}
CleanCmd == StepCmd \cup {"compose_down", "restart", "schedule"}

Prunes == {"images", "volumes", "networks"}

\* The steps that a quick or a nuke has still to take.
Quick5 == <<"stop", "remove", "images", "volumes", "networks">>
Quick4 == <<"remove", "images", "volumes", "networks">>
Quick3 == <<"images", "volumes", "networks">>
Quick2 == <<"volumes", "networks">>
Quick1 == <<"networks">>
Nuke6 == <<"stop", "remove", "images", "volumes", "networks", "builders">>
Nuke5 == <<"remove", "images", "volumes", "networks", "builders">>
Nuke4 == <<"images", "volumes", "networks", "builders">>
Nuke3 == <<"volumes", "networks", "builders">>
Nuke2 == <<"networks", "builders">>
Nuke1 == <<"builders">>

\* What may be left to do of each command.
Left(c) ==
    CASE c = "quick" -> {Quick5, Quick4, Quick3, Quick2, Quick1, <<>>}
      [] c = "nuke" -> {Nuke6, Nuke5, Nuke4, Nuke3, Nuke2, Nuke1, <<>>}
      [] c = "stop_all" -> {<<"stop">>, <<>>}
      [] c = "prune_images" -> {<<"images">>, <<>>}
      [] c = "prune_volumes" -> {<<"volumes">>, <<>>}
      [] c = "prune_networks" -> {<<"networks">>, <<>>}
      [] c = "prune_builders" -> {<<"builders">>, <<>>}
      [] c = "orphans" -> {<<"dangling", "volumes">>, <<"volumes">>, <<>>}

AfterNetworks == {<<>>, Nuke1}
AfterVolumes == {Quick1, Nuke2} \cup AfterNetworks
AfterImages == {Quick2, Nuke3} \cup AfterVolumes
AfterRemove == {Quick3, Nuke4} \cup AfterImages

CleanState ==
    /\ ctr \in [Containers -> {"running", "exited", None}]
    /\ image \in [Containers -> {"tagged", "dangling", None}]
    /\ volume \subseteq Containers /\ net \subseteq Containers
    /\ cache \subseteq Builders
    /\ daemon \in {"up", "starting", "stopping", "down"}

\* What an undisturbed quick or nuke that noted no failure has cleaned so far.
CleanedSoFar ==
    (req.cmd \in {"quick", "nuke"} /\ calm /\ mem.noted = {}) =>
        /\ mem.todo \in AfterRemove => Existing = {}
        /\ mem.todo \in AfterImages => \A c \in Containers : image[c] = None
        /\ mem.todo \in AfterVolumes => volume = {}
        /\ mem.todo \in AfterNetworks => net = {}
        /\ req.cmd = "nuke" /\ mem.todo = <<>> => cache = {}
        /\ at = "each" /\ Step = "remove" => Existing \subseteq mem.list

InSteps ==
    at \in {"step", "each"} =>
        /\ DOMAIN mem = {"todo", "list", "errors", "noted"}
        /\ req.cmd \in StepCmd
        /\ mem.todo \in Left(req.cmd)
        /\ at = "each" => mem.todo # <<>> /\ Step \in {"stop", "remove"} /\ mem.list \subseteq Containers
        /\ req.cmd # "orphans" => mem.noted \cap Prunes \subseteq mem.errors
        /\ CleanedSoFar

\* The poll of a restart waits for a daemon that is on its way up.
InPoll ==
    at = "poll" =>
        /\ mem \in 0..VerifyTimeout
        /\ req.cmd = "restart"
        /\ calm /\ req.place # "mac" => daemon \in {"starting", "up"}

CleanRun ==
    /\ at # "idle" => at \in CleanAt /\ req.cmd \in CleanCmd
    /\ at \in {"compose_down", "restart", "schedule"} => req.cmd = at
    /\ \A s \in said : s.req.cmd \in CleanCmd
    /\ InSteps
    /\ InPoll

CleanInv == CleanState /\ (group = "docker" => CleanRun)

LEMMA QuickIs == QuickSteps = Quick5
<1> DEFINE S == {"stop", "remove", "images", "volumes", "networks"}
<1>1. Clearing \in Seq(S) /\ Len(Clearing) = 2
  BY DEF Clearing
<1>2. Pruning \in Seq(S) /\ Len(Pruning) = 3
  BY DEF Pruning
<1>3. Quick5 \in Seq(S) /\ Len(Quick5) = 5
  BY DEF Quick5
<1> HIDE DEF S
<1>4. /\ QuickSteps \in Seq(S)
      /\ Len(QuickSteps) = 5
      /\ \A i \in 1..5 : QuickSteps[i] = IF i <= 2 THEN Clearing[i] ELSE Pruning[i - 2]
  <2>1. /\ Clearing \o Pruning \in Seq(S)
        /\ Len(Clearing \o Pruning) = Len(Clearing) + Len(Pruning)
        /\ \A i \in 1..Len(Clearing) + Len(Pruning) : (Clearing \o Pruning)[i] =
              IF i <= Len(Clearing) THEN Clearing[i] ELSE Pruning[i - Len(Clearing)]
    <3>1. Clearing \in Seq(S)
      BY <1>1
    <3>2. Pruning \in Seq(S)
      BY <1>2
    <3>3. QED
      BY <3>1, <3>2, ConcatProperties, Zenon
  <2>2. QED
    BY <1>1, <1>2, <2>1 DEF QuickSteps
<1>5. \A i \in 1..5 : i \in {1, 2, 3, 4, 5}
  OBVIOUS
<1>6. \A i \in 1..5 : QuickSteps[i] = Quick5[i]
  BY <1>4, <1>5 DEF Clearing, Pruning, Quick5
<1>7. QED
  BY <1>3, <1>4, <1>6, SeqEqual

LEMMA NukeIs == QuickSteps \o <<"builders">> = Nuke6
<1> DEFINE S == {"stop", "remove", "images", "volumes", "networks", "builders"}
           last == <<"builders">>
<1>1. Quick5 \in Seq(S) /\ Len(Quick5) = 5
  BY DEF Quick5
<1>2. last \in Seq(S) /\ Len(last) = 1
  OBVIOUS
<1>3. Nuke6 \in Seq(S) /\ Len(Nuke6) = 6
  BY DEF Nuke6
<1> HIDE DEF S
<1>4. /\ Quick5 \o last \in Seq(S)
      /\ Len(Quick5 \o last) = 6
      /\ \A i \in 1..6 : (Quick5 \o last)[i] = IF i <= 5 THEN Quick5[i] ELSE last[i - 5]
  <2> HIDE DEF last
  <2>1. /\ Quick5 \o last \in Seq(S)
        /\ Len(Quick5 \o last) = Len(Quick5) + Len(last)
        /\ \A i \in 1..Len(Quick5) + Len(last) : (Quick5 \o last)[i] =
              IF i <= Len(Quick5) THEN Quick5[i] ELSE last[i - Len(Quick5)]
    <3>1. Quick5 \in Seq(S)
      BY <1>1
    <3>2. last \in Seq(S)
      BY <1>2
    <3>3. QED
      BY <3>1, <3>2, ConcatProperties, Zenon
  <2>2. QED
    BY <1>1, <1>2, <2>1
<1>5. \A i \in 1..6 : i \in {1, 2, 3, 4, 5, 6}
  OBVIOUS
<1>6. \A i \in 1..6 : (Quick5 \o last)[i] = Nuke6[i]
  BY <1>4, <1>5 DEF Quick5, Nuke6
<1>7. Quick5 \o last = Nuke6
  <2> HIDE DEF last
  <2>1. QED
    BY <1>3, <1>4, <1>6, SeqEqual
<1>8. QED
  BY <1>7, QuickIs

\* A command begins with all of its steps.
LEMMA StepsFit ==
    ASSUME NEW c \in StepCmd
    PROVE  /\ Steps(c) \in Left(c)
           /\ c \in {"quick", "nuke"} => Steps(c) \notin AfterRemove /\ Steps(c) # <<>>
<1>1. CASE c = "quick"
  <2>1. Steps(c) = Quick5
    BY <1>1, QuickIs DEF Steps
  <2>2. Quick5 \notin AfterRemove /\ Quick5 # <<>>
    BY DEF AfterRemove, AfterImages, AfterVolumes, AfterNetworks,
       Quick5, Quick3, Quick2, Quick1, Nuke4, Nuke3, Nuke2, Nuke1
  <2>3. QED
    BY <1>1, <2>1, <2>2 DEF Left
<1>2. CASE c = "nuke"
  <2>1. Steps(c) = Nuke6
    BY <1>2, NukeIs DEF Steps
  <2>2. Nuke6 \notin AfterRemove /\ Nuke6 # <<>>
    BY DEF AfterRemove, AfterImages, AfterVolumes, AfterNetworks,
       Nuke6, Quick3, Quick2, Quick1, Nuke4, Nuke3, Nuke2, Nuke1
  <2>3. QED
    BY <1>2, <2>1, <2>2 DEF Left
<1>3. CASE c \notin {"quick", "nuke"}
  BY <1>3 DEF StepCmd, Steps, Left
<1>4. QED
  BY <1>1, <1>2, <1>3

\* One step leaves the steps after it, which each clean something of their own.
LEMMA TailFits ==
    ASSUME NEW c \in StepCmd, NEW t \in Left(c), t # <<>>
    PROVE  Tail(t) \in Left(c)
<1>1. CASE c = "quick"
  <2>1. t \in {Quick5, Quick4, Quick3, Quick2, Quick1}
    BY <1>1 DEF Left
  <2>2. Tail(t) \in {Quick4, Quick3, Quick2, Quick1, <<>>}
    <3>1. Tail(Quick5) = Quick4
      BY DEF Quick5, Quick4
    <3>2. Tail(Quick4) = Quick3
      BY DEF Quick4, Quick3
    <3>3. Tail(Quick3) = Quick2
      BY DEF Quick3, Quick2
    <3>4. Tail(Quick2) = Quick1
      BY DEF Quick2, Quick1
    <3>5. Tail(Quick1) = <<>>
      BY DEF Quick1
    <3>6. QED
      BY <2>1, <3>1, <3>2, <3>3, <3>4, <3>5
  <2>3. QED
    BY <1>1, <2>2 DEF Left
<1>2. CASE c = "nuke"
  <2>1. t \in {Nuke6, Nuke5, Nuke4, Nuke3, Nuke2, Nuke1}
    BY <1>2 DEF Left
  <2>2. Tail(t) \in {Nuke5, Nuke4, Nuke3, Nuke2, Nuke1, <<>>}
    <3>1. Tail(Nuke6) = Nuke5
      BY DEF Nuke6, Nuke5
    <3>2. Tail(Nuke5) = Nuke4
      BY DEF Nuke5, Nuke4
    <3>3. Tail(Nuke4) = Nuke3
      BY DEF Nuke4, Nuke3
    <3>4. Tail(Nuke3) = Nuke2
      BY DEF Nuke3, Nuke2
    <3>5. Tail(Nuke2) = Nuke1
      BY DEF Nuke2, Nuke1
    <3>6. Tail(Nuke1) = <<>>
      BY DEF Nuke1
    <3>7. QED
      BY <2>1, <3>1, <3>2, <3>3, <3>4, <3>5, <3>6
  <2>3. QED
    BY <1>2, <2>2 DEF Left
<1>3. CASE c = "orphans"
  <2>1. Tail(<<"dangling", "volumes">>) = <<"volumes">> /\ Tail(<<"volumes">>) = <<>>
    OBVIOUS
  <2>2. t \in {<<"dangling", "volumes">>, <<"volumes">>}
    BY <1>3 DEF Left
  <2>3. QED
    BY <1>3, <2>1, <2>2 DEF Left
<1>4. CASE c \notin {"quick", "nuke", "orphans"}
  <2>1. PICK x \in {"stop", "images", "volumes", "networks", "builders"} :
          Left(c) = {<<x>>, <<>>}
    BY <1>4 DEF StepCmd, Left
  <2>2. Tail(<<x>>) = <<>>
    OBVIOUS
  <2>3. QED
    BY <2>1, <2>2
<1>5. QED
  BY <1>1, <1>2, <1>3, <1>4

\* The steps of a quick or nuke, each with what comes before it and after it.
LEMMA StageBy ==
    ASSUME NEW c \in {"quick", "nuke"}, NEW t \in Left(c), t # <<>>
    PROVE  /\ Tail(t) \in AfterRemove => Head(t) = "remove" \/ t \in AfterRemove
           /\ Tail(t) \in AfterImages => t \in AfterRemove /\ (Head(t) = "images" \/ t \in AfterImages)
           /\ Tail(t) \in AfterVolumes => t \in AfterRemove /\ (Head(t) = "volumes" \/ t \in AfterVolumes)
           /\ Tail(t) \in AfterNetworks => t \in AfterRemove /\ (Head(t) = "networks" \/ t \in AfterNetworks)
           /\ c = "nuke" /\ Tail(t) = <<>> => Head(t) = "builders"
           /\ t \in AfterRemove => Head(t) \notin {"stop", "remove"}
           /\ t \in AfterImages => t \in AfterRemove
           /\ t \in AfterVolumes => t \in AfterRemove
           /\ t \in AfterNetworks => t \in AfterRemove
<1> USE DEF AfterRemove, AfterImages, AfterVolumes, AfterNetworks
<1>1. CASE c = "quick"
  <2>1. t \in {Quick5, Quick4, Quick3, Quick2, Quick1}
    BY <1>1 DEF Left
  <2> USE DEF Quick5, Quick4, Quick3, Quick2, Quick1, Nuke4, Nuke3, Nuke2, Nuke1
  <2>2. CASE t = Quick5
    BY <1>1, <2>2
  <2>3. CASE t = Quick4
    BY <1>1, <2>3
  <2>4. CASE t = Quick3
    BY <1>1, <2>4
  <2>5. CASE t = Quick2
    BY <1>1, <2>5
  <2>6. CASE t = Quick1
    BY <1>1, <2>6
  <2>7. QED
    BY <2>1, <2>2, <2>3, <2>4, <2>5, <2>6
<1>2. CASE c = "nuke"
  <2>1. t \in {Nuke6, Nuke5, Nuke4, Nuke3, Nuke2, Nuke1}
    BY <1>2 DEF Left
  <2> USE DEF Nuke6, Nuke5, Nuke4, Nuke3, Nuke2, Nuke1, Quick3, Quick2, Quick1
  <2>2. CASE t = Nuke6
    BY <1>2, <2>2
  <2>3. CASE t = Nuke5
    BY <1>2, <2>3
  <2>4. CASE t = Nuke4
    BY <1>2, <2>4
  <2>5. CASE t = Nuke3
    BY <1>2, <2>5
  <2>6. CASE t = Nuke2
    BY <1>2, <2>6
  <2>7. CASE t = Nuke1
    BY <1>2, <2>7
  <2>8. QED
    BY <2>1, <2>2, <2>3, <2>4, <2>5, <2>6, <2>7
<1>3. QED
  BY <1>1, <1>2

LEMMA EmptyIsLast ==
    <<>> \in AfterRemove /\ <<>> \in AfterImages /\ <<>> \in AfterVolumes /\ <<>> \in AfterNetworks
BY DEF AfterRemove, AfterImages, AfterVolumes, AfterNetworks

LEMMA CleanInitially == CleanStart /\ CliInit => CleanInv
<1> SUFFICES ASSUME CleanStart, CliInit PROVE CleanInv
  OBVIOUS
<1>1. CleanState
  BY DEF CleanStart, CleanState
<1>2. QED
  BY <1>1 DEF CleanInv, CleanRun, CliInit, InSteps, InPoll

\* A run of docker-clean ends, in whatever state it leaves docker.
LEMMA CleanEnd ==
    ASSUME CleanRun, at # "idle", CleanState', NEW code, Exit(code) \/ Ends({})
    PROVE  CleanInv' /\ group' = group
<1>1. /\ group' = group /\ at' = "idle"
      /\ \A s \in said' : s.req = req
  BY DEF Exit, Ends
<1>2. \A s \in said' : s.req.cmd \in CleanCmd
  BY <1>1 DEF CleanRun
<1>3. QED
  BY <1>1, <1>2 DEF CleanInv, CleanRun, InSteps, InPoll

LEMMA CleanAskKeeps ==
    ASSUME CleanInv,
           \/ AskAtOnce \/ AskPruning \/ AskComposeDown \/ AskRestart \/ AskSchedule \/ ScheduleFires
    PROVE  CleanInv' /\ group = "docker" /\ said' = {}
<1>1. /\ group = "docker" /\ group' = group /\ said' = {} /\ UNCHANGED docker
      /\ at' \in {"idle", "boot", "parse"}
      /\ at' # "idle" => req'.cmd \in CleanCmd
  BY DEF AskAtOnce, AskPruning, AskComposeDown, AskRestart, AskSchedule, ScheduleFires,
     Ask, Starts, Refused, Idle, Job, CleanCmd, StepCmd
<1>2. CleanState'
  BY <1>1 DEF docker, CleanInv, CleanState
<1>3. QED
  BY <1>1, <1>2 DEF CleanInv, CleanRun, CleanAt, InSteps, InPoll

LEMMA BootKeeps ==
    ASSUME CleanInv, group = "docker", Boot
    PROVE  CleanInv'
<1>1. at = "boot" /\ UNCHANGED docker /\ CleanRun
  BY DEF Boot, CleanInv
<1>2. CleanState'
  BY <1>1 DEF docker, CleanInv, CleanState
<1>3. CASE \E code \in {"unavailable", "ok"} : Exit(code)
  BY <1>1, <1>2, <1>3, CleanEnd
<1>4. CASE req.cmd \in {"compose_down", "restart", "schedule"} /\ Goto(req.cmd)
  BY <1>1, <1>2, <1>4
  DEF Goto, Remember, CleanInv, CleanRun, CleanAt, InSteps, InPoll
<1>5. CASE /\ req.cmd \notin {"compose_down", "restart", "schedule"}
           /\ Remember("step", Begun(Steps(req.cmd)))
  <2>1. req.cmd \in StepCmd
    BY <1>1, <1>5 DEF CleanRun, CleanCmd
  <2>2. /\ Steps(req.cmd) \in Left(req.cmd)
        /\ req.cmd \in {"quick", "nuke"} => Steps(req.cmd) \notin AfterRemove /\ Steps(req.cmd) # <<>>
    BY <2>1, StepsFit
  <2>3. /\ at' = "step" /\ said' = {} /\ UNCHANGED <<group, req, calm>>
        /\ mem' = [todo |-> Steps(req.cmd), list |-> {}, errors |-> {}, noted |-> {}]
    BY <1>5 DEF Remember, Begun
  <2>4. /\ DOMAIN mem' = {"todo", "list", "errors", "noted"}
        /\ mem'.todo = Steps(req.cmd) /\ mem'.noted = {} /\ mem'.errors = {}
    BY <2>3
  <2>5. CleanedSoFar'
    BY <2>2, <2>3, <2>4
    DEF CleanedSoFar, AfterRemove, AfterImages, AfterVolumes
  <2>6. InSteps'
    BY <2>1, <2>2, <2>3, <2>4, <2>5 DEF InSteps
  <2>7. QED
    BY <1>1, <1>2, <2>3, <2>6 DEF CleanInv, CleanRun, CleanAt, InPoll
<1>6. QED
  BY <1>3, <1>4, <1>5 DEF Boot

LEMMA ParseKeeps ==
    ASSUME CleanInv, group = "docker", Parse \/ NoToken \/ EmitSchedule \/ EmitSteps
    PROVE  CleanInv'
<1>1. CleanState'
  BY DEF Parse, NoToken, EmitSchedule, EmitSteps, docker, CleanInv, CleanState
<1>2. at # "idle" /\ \E code \in {"usage", "fail", "ok"} : Exit(code)
  BY DEF Parse, NoToken, EmitSchedule, EmitSteps
<1>3. QED
  BY <1>1, <1>2, CleanEnd DEF CleanInv

\* The containers are listed: those that exist, to be removed.
LEMMA ListKeeps ==
    ASSUME CleanInv, group = "docker", List
    PROVE  CleanInv'
<1>1. /\ at = "step" /\ mem.todo # <<>> /\ Step \in {"stop", "remove"}
      /\ UNCHANGED docker /\ CleanRun
  BY DEF List, CleanInv
<1>2. CleanState'
  BY <1>1 DEF docker, CleanInv, CleanState
<1>3. CASE Exit("exception")
  BY <1>1, <1>2, <1>3, CleanEnd
<1>4. CASE Remember("each", [mem EXCEPT !.list = IF Step = "stop" THEN Running ELSE Existing])
  <2>1. /\ DOMAIN mem = {"todo", "list", "errors", "noted"}
        /\ req.cmd \in StepCmd /\ mem.todo \in Left(req.cmd)
        /\ req.cmd # "orphans" => mem.noted \cap Prunes \subseteq mem.errors
        /\ CleanedSoFar
    BY <1>1 DEF CleanRun, InSteps
  <2>2. /\ at' = "each" /\ said' = {} /\ UNCHANGED <<group, req, calm>>
        /\ DOMAIN mem' = DOMAIN mem /\ mem'.todo = mem.todo /\ mem'.errors = mem.errors
        /\ mem'.noted = mem.noted /\ mem'.list = IF Step = "stop" THEN Running ELSE Existing
    BY <1>4, <2>1 DEF Remember
  <2>3. Existing' = Existing /\ UNCHANGED <<image, volume, net, cache>>
    BY <1>1 DEF docker, Existing
  <2>4. Step' = Step /\ mem'.list \subseteq Containers
    BY <2>2 DEF Step, Running, Existing
  <2>5. CleanedSoFar'
    BY <1>1, <2>1, <2>2, <2>3, <2>4 DEF CleanedSoFar
  <2>6. InSteps'
    BY <1>1, <2>1, <2>2, <2>4, <2>5 DEF InSteps
  <2>7. QED
    BY <1>1, <1>2, <2>2, <2>6 DEF CleanInv, CleanRun, CleanAt, InPoll
<1>5. QED
  BY <1>3, <1>4 DEF List

LEMMA EachKeeps ==
    ASSUME CleanInv, group = "docker", Each
    PROVE  CleanInv'
<1>1. /\ at = "each" /\ UNCHANGED <<image, volume, net, cache, daemon, snippet>>
      /\ CleanRun /\ CleanState
  BY DEF Each, CleanInv
<1>2. PICK c \in mem.list :
        \/ /\ ctr' = [ctr EXCEPT ![c] = IF Step = "remove" \/ @ = None THEN None ELSE "exited"]
           /\ Remember("each", [mem EXCEPT !.list = @ \ {c}])
        \/ /\ Remember("each", [mem EXCEPT !.list = @ \ {c}, !.noted = @ \cup {Step}])
           /\ UNCHANGED ctr
  BY DEF Each
<1>3. /\ DOMAIN mem = {"todo", "list", "errors", "noted"}
      /\ req.cmd \in StepCmd /\ mem.todo \in Left(req.cmd) /\ mem.todo # <<>>
      /\ Step \in {"stop", "remove"} /\ mem.list \subseteq Containers
      /\ req.cmd # "orphans" => mem.noted \cap Prunes \subseteq mem.errors
      /\ CleanedSoFar
  BY <1>1 DEF CleanRun, InSteps
<1>4. /\ at' = "each" /\ said' = {} /\ UNCHANGED <<group, req, calm>>
      /\ DOMAIN mem' = DOMAIN mem /\ mem'.todo = mem.todo /\ mem'.errors = mem.errors
      /\ mem'.list = mem.list \ {c}
  BY <1>2, <1>3 DEF Remember
<1>5. \/ /\ ctr' = [ctr EXCEPT ![c] = IF Step = "remove" \/ @ = None THEN None ELSE "exited"]
         /\ mem'.noted = mem.noted
      \/ mem'.noted = mem.noted \cup {Step} /\ ctr' = ctr
  BY <1>2, <1>3 DEF Remember
<1>6. Step' = Step
  BY <1>4 DEF Step
<1>7. CleanState' /\ Existing' \subseteq Existing
  BY <1>1, <1>3, <1>5 DEF CleanState, Existing
<1>8. mem'.noted = mem.noted /\ Step = "remove" => Existing' \subseteq Existing \ {c} \/ mem.noted # {}
  BY <1>1, <1>3, <1>5 DEF CleanState, Existing
<1>9. CleanedSoFar'
  <2>1. SUFFICES ASSUME req.cmd \in {"quick", "nuke"}, calm, mem'.noted = {}
                 PROVE  /\ mem.todo \in AfterRemove => Existing' = {}
                        /\ mem.todo \in AfterImages => \A d \in Containers : image[d] = None
                        /\ mem.todo \in AfterVolumes => volume = {}
                        /\ mem.todo \in AfterNetworks => net = {}
                        /\ Step = "remove" => Existing' \subseteq mem.list \ {c}
    BY <1>1, <1>3, <1>4, <1>6 DEF CleanedSoFar
  <2>2. mem.noted = {} /\ mem'.noted = mem.noted
    BY <1>5, <2>1
  <2>3. QED
    BY <1>1, <1>3, <1>7, <1>8, <2>1, <2>2 DEF CleanedSoFar
<1>10. req.cmd # "orphans" => mem'.noted \cap Prunes \subseteq mem'.errors
  BY <1>3, <1>4, <1>5 DEF Prunes
<1>11. InSteps'
  BY <1>3, <1>4, <1>6, <1>9, <1>10 DEF InSteps
<1>12. QED
  BY <1>1, <1>4, <1>7, <1>11 DEF CleanInv, CleanRun, CleanAt, InPoll

\* A step is done: what it noted, and what it cleaned.
LEMMA SteppedKeeps ==
    ASSUME CleanInv, group = "docker", at \in {"step", "each"}, mem.todo # <<>>,
           NEW failed \in BOOLEAN, Stepped(failed), CleanState',
           Existing' = Existing,
           \A c \in Containers : image[c] = None => image'[c] = None,
           volume' \subseteq volume, net' \subseteq net, cache' \subseteq cache,
           Step = "remove" /\ ~failed => at = "each" /\ mem.list = {},
           Step = "images" /\ ~failed => \A c \in Containers : ctr[c] = None => image'[c] = None,
           Step = "volumes" /\ ~failed => volume' \subseteq Existing,
           Step = "networks" /\ ~failed => net' \subseteq Existing,
           Step = "builders" /\ ~failed => cache' = {}
    PROVE  CleanInv'
<1>1. /\ DOMAIN mem = {"todo", "list", "errors", "noted"}
      /\ req.cmd \in StepCmd /\ mem.todo \in Left(req.cmd)
      /\ req.cmd # "orphans" => mem.noted \cap Prunes \subseteq mem.errors
      /\ CleanedSoFar /\ CleanRun
  BY DEF CleanInv, CleanRun, InSteps
<1>2. /\ at' = "step" /\ said' = {} /\ UNCHANGED <<group, req, calm>>
      /\ DOMAIN mem' = DOMAIN mem /\ mem'.todo = Tail(mem.todo)
      /\ mem'.errors = mem.errors \cup Errors(failed)
      /\ mem'.noted = mem.noted \cup (IF failed THEN {Step} ELSE {})
  BY <1>1 DEF Stepped, Remember, AllErrors
<1>3. mem'.todo \in Left(req.cmd)
  BY <1>1, <1>2, TailFits
<1>4. req.cmd # "orphans" => mem'.noted \cap Prunes \subseteq mem'.errors
  BY <1>1, <1>2 DEF Errors, Prunes
<1>5. CleanedSoFar'
  <2>1. SUFFICES ASSUME req.cmd \in {"quick", "nuke"}, calm, mem.noted = {}, ~failed
                 PROVE  /\ Tail(mem.todo) \in AfterRemove => Existing = {}
                        /\ Tail(mem.todo) \in AfterImages => \A c \in Containers : image'[c] = None
                        /\ Tail(mem.todo) \in AfterVolumes => volume' = {}
                        /\ Tail(mem.todo) \in AfterNetworks => net' = {}
                        /\ req.cmd = "nuke" /\ Tail(mem.todo) = <<>> => cache' = {}
    BY <1>2 DEF CleanedSoFar
  <2>2. /\ mem.todo \in AfterRemove => Existing = {}
        /\ mem.todo \in AfterImages => \A c \in Containers : image[c] = None
        /\ mem.todo \in AfterVolumes => volume = {}
        /\ mem.todo \in AfterNetworks => net = {}
        /\ at = "each" /\ Step = "remove" => Existing \subseteq mem.list
    BY <1>1, <2>1 DEF CleanedSoFar
  <2>3. /\ Tail(mem.todo) \in AfterRemove => Step = "remove" \/ mem.todo \in AfterRemove
        /\ Tail(mem.todo) \in AfterImages =>
             mem.todo \in AfterRemove /\ (Step = "images" \/ mem.todo \in AfterImages)
        /\ Tail(mem.todo) \in AfterVolumes =>
             mem.todo \in AfterRemove /\ (Step = "volumes" \/ mem.todo \in AfterVolumes)
        /\ Tail(mem.todo) \in AfterNetworks =>
             mem.todo \in AfterRemove /\ (Step = "networks" \/ mem.todo \in AfterNetworks)
        /\ req.cmd = "nuke" /\ Tail(mem.todo) = <<>> => Step = "builders"
    BY <1>1, <2>1, StageBy DEF Step
  <2>4. Existing = {} => \A c \in Containers : ctr[c] = None
    BY DEF Existing
  <2>5. QED
    BY <2>1, <2>2, <2>3, <2>4
<1>6. InSteps'
  BY <1>1, <1>2, <1>3, <1>4, <1>5 DEF InSteps
<1>7. QED
  BY <1>1, <1>2, <1>6 DEF CleanInv, CleanRun, CleanAt, InPoll

LEMMA EachDoneKeeps ==
    ASSUME CleanInv, group = "docker", EachDone
    PROVE  CleanInv'
<1>1. at = "each" /\ mem.list = {} /\ Stepped(FALSE) /\ UNCHANGED docker
  BY DEF EachDone
<1>2. mem.todo # <<>> /\ Step \in {"stop", "remove"}
  BY <1>1 DEF CleanInv, CleanRun, InSteps
<1>3. CleanState' /\ Existing' = Existing
  BY <1>1 DEF docker, CleanInv, CleanState, Existing
<1>4. QED
  BY <1>1, <1>2, <1>3, SteppedKeeps DEF docker

LEMMA PruneKeeps ==
    ASSUME CleanInv, group = "docker", Prune
    PROVE  CleanInv'
<1>1. /\ at = "step" /\ mem.todo # <<>> /\ Step \in {"images", "dangling", "volumes", "networks"}
      /\ UNCHANGED <<ctr, cache, daemon, snippet>>
  BY DEF Prune
<1>2. Existing' = Existing /\ Running \subseteq Existing
  BY <1>1, CleanNoneAssumption DEF Existing, Running
<1>3. CASE Stepped(TRUE) /\ UNCHANGED <<image, volume, net>>
  <2>1. CleanState'
    BY <1>1, <1>3 DEF CleanInv, CleanState
  <2>2. QED
    BY <1>1, <1>2, <1>3, <2>1, SteppedKeeps
<1>4. CASE /\ image' = IF Step \in {"images", "dangling"} THEN PrunedImages(Step) ELSE image
           /\ volume' = IF Step = "volumes" THEN volume \cap Existing ELSE volume
           /\ net' = IF Step = "networks" THEN net \cap Running ELSE net
           /\ Stepped(FALSE)
  <2>1. CleanState'
    BY <1>1, <1>4 DEF CleanInv, CleanState, PrunedImages
  <2>2. \A c \in Containers : image[c] = None => image'[c] = None
    BY <1>4 DEF PrunedImages
  <2>3. Step = "images" => \A c \in Containers : ctr[c] = None => image'[c] = None
    BY <1>4 DEF PrunedImages
  <2>4. volume' \subseteq volume /\ net' \subseteq net /\ cache' \subseteq cache
    BY <1>1, <1>4
  <2>5. /\ Step = "volumes" => volume' \subseteq Existing
        /\ Step = "networks" => net' \subseteq Existing
    BY <1>2, <1>4
  <2>6. QED
    BY <1>1, <1>2, <1>4, <2>1, <2>2, <2>3, <2>4, <2>5, SteppedKeeps
<1>5. QED
  BY <1>3, <1>4 DEF Prune

LEMMA PruneBuildersKeeps ==
    ASSUME CleanInv, group = "docker", PruneBuilders
    PROVE  CleanInv'
<1>1. /\ at = "step" /\ mem.todo # <<>> /\ Step = "builders"
      /\ UNCHANGED <<ctr, image, volume, net, daemon, snippet>>
  BY DEF PruneBuilders
<1>2. PICK failed \in BOOLEAN : Stepped(failed) /\ cache' \subseteq cache /\ (~failed => cache' = {})
  BY DEF PruneBuilders
<1>3. CleanState' /\ Existing' = Existing
  BY <1>1, <1>2 DEF CleanInv, CleanState, Existing
<1>4. QED
  BY <1>1, <1>2, <1>3, SteppedKeeps

LEMMA ComposeDownKeeps ==
    ASSUME CleanInv, group = "docker", ComposeDown
    PROVE  CleanInv'
<1>1. at = "compose_down" /\ UNCHANGED <<image, cache, daemon, snippet>>
      /\ \E code \in {"ok", "fail"} : Exit(code)
  BY DEF ComposeDown
<1>2. CleanState'
  BY <1>1 DEF ComposeDown, CleanInv, CleanState
<1>3. QED
  BY <1>1, <1>2, CleanEnd DEF CleanInv

LEMMA RestartKeeps ==
    ASSUME CleanInv, group = "docker", Restart
    PROVE  CleanInv'
<1>1. at = "restart" /\ UNCHANGED <<ctr, image, volume, net, cache, snippet>> /\ CleanRun
  BY DEF Restart, CleanInv
<1>2. CleanState'
  BY <1>1 DEF Restart, CleanInv, CleanState
<1>3. CASE \E code \in {"ok", "noperm", "fail"} : Exit(code)
  BY <1>1, <1>2, <1>3, CleanEnd
<1>4. CASE Remember("poll", 0) /\ (req.place # "mac" => daemon' = "starting")
  <2>1. /\ at' = "poll" /\ mem' = 0 /\ said' = {} /\ UNCHANGED <<group, req, calm>>
    BY <1>4 DEF Remember
  <2>2. InPoll'
    BY <1>1, <1>4, <2>1, VerifyAssumption DEF InPoll, CleanRun
  <2>3. QED
    BY <1>1, <1>2, <2>1, <2>2 DEF CleanInv, CleanRun, CleanAt, InSteps
<1>5. QED
  BY <1>3, <1>4 DEF Restart

LEMMA PollKeeps ==
    ASSUME CleanInv, group = "docker", Poll
    PROVE  CleanInv'
<1>1. at = "poll" /\ UNCHANGED docker /\ CleanRun
  BY DEF Poll, CleanInv
<1>2. CleanState'
  BY <1>1 DEF docker, CleanInv, CleanState
<1>3. CASE \E code \in {"ok", "fail"} : Exit(code)
  BY <1>1, <1>2, <1>3, CleanEnd
<1>4. CASE mem # Deadline /\ Remember("poll", Counted(mem))
  <2>1. /\ at' = "poll" /\ mem' = mem + 1 /\ said' = {} /\ UNCHANGED <<group, req, calm, daemon>>
    BY <1>1, <1>4 DEF Remember, Counted, docker
  <2>2. InPoll'
    BY <1>1, <1>4, <2>1, VerifyAssumption DEF InPoll, CleanRun, Deadline
  <2>3. QED
    BY <1>1, <1>2, <2>1, <2>2 DEF CleanInv, CleanRun, CleanAt, InSteps
<1>5. QED
  BY <1>3, <1>4 DEF Poll

\* The daemon comes up, or goes on going down; it may die; the user may start
\* a container, which disturbs the run.
LEMMA CleanOutsideKeeps ==
    ASSUME CleanInv, group = "docker", DaemonMoves \/ DaemonDies \/ StartsContainer
    PROVE  CleanInv'
<1>1. CleanState'
  BY DEF DaemonMoves, DaemonDies, StartsContainer, CleanInv, CleanState
<1>2. said' = {} /\ UNCHANGED <<group, at, req, mem>>
  BY DEF DaemonMoves, DaemonDies, StartsContainer, Elapses, Outside
<1>3. CASE DaemonMoves
  <2>1. /\ UNCHANGED <<ctr, image, volume, net, cache, calm>>
        /\ daemon \in {"starting", "up"} => daemon' = "up"
    BY <1>3 DEF DaemonMoves, Elapses
  <2>2. InSteps'
    BY <1>2, <2>1 DEF CleanInv, CleanRun, InSteps, CleanedSoFar, Existing, Step
  <2>3. InPoll'
    BY <1>2, <2>1 DEF CleanInv, CleanRun, InPoll
  <2>4. QED
    BY <1>1, <1>2, <2>2, <2>3 DEF CleanInv, CleanRun
<1>4. CASE DaemonDies \/ StartsContainer
  <2>1. calm' = FALSE
    BY <1>4 DEF DaemonDies, StartsContainer, Outside
  <2>2. ~calm'
    BY <2>1
  <2>3. InSteps' /\ InPoll'
    BY <1>2, <2>2 DEF CleanInv, CleanRun, InSteps, CleanedSoFar, InPoll, Step
  <2>4. QED
    BY <1>1, <1>2, <2>3 DEF CleanInv, CleanRun
<1>5. QED
  BY <1>3, <1>4

LEMMA CleanNextKeeps ==
    ASSUME CleanInv, group = "docker", CleanNext
    PROVE  CleanInv'
<1>1. CASE AskAtOnce \/ AskPruning \/ AskComposeDown \/ AskRestart \/ AskSchedule \/ ScheduleFires
  BY <1>1, CleanAskKeeps
<1>2. CASE Boot
  BY <1>2, BootKeeps
<1>3. CASE Parse \/ NoToken \/ EmitSchedule \/ EmitSteps
  BY <1>3, ParseKeeps
<1>4. CASE List \/ Each \/ EachDone \/ Prune \/ PruneBuilders
  BY <1>4, ListKeeps, EachKeeps, EachDoneKeeps, PruneKeeps, PruneBuildersKeeps
<1>5. CASE ComposeDown \/ Restart \/ Poll
  BY <1>5, ComposeDownKeeps, RestartKeeps, PollKeeps
<1>6. CASE CleanKill
  <2>1. at # "idle" /\ Ends({}) /\ UNCHANGED docker
    BY <1>6 DEF CleanKill, Killed, Idle
  <2>2. CleanState'
    BY <2>1 DEF docker, CleanInv, CleanState
  <2>3. QED
    BY <2>1, <2>2, CleanEnd DEF CleanInv
<1>7. CASE DaemonMoves \/ DaemonDies \/ StartsContainer
  BY <1>7, CleanOutsideKeeps
<1>8. QED
  BY <1>1, <1>2, <1>3, <1>4, <1>5, <1>6, <1>7 DEF CleanNext, CleanStep

\* Nothing is said, or that it failed.
LEMMA CleanSaysNoSuccess ==
    ASSUME said' = {} \/ \E code : code # "ok" /\ Exit(code)
    PROVE  CleanReportsHold'
BY DEF Exit, Ends, Ended, CleanReportsHold, CleanedOut, PruneFailsAloud, RestartedIsUp

LEMMA EmitStepsReports ==
    ASSUME CleanInv, group = "docker", EmitSteps
    PROVE  CleanReportsHold'
<1>1. /\ at = "step" /\ mem.todo = <<>> /\ UNCHANGED <<ctr, image, volume, net, cache, daemon>>
      /\ Exit(IF mem.errors = {} THEN "ok" ELSE "fail")
  BY DEF EmitSteps, docker
<1>2. CASE mem.errors # {}
  <2>1. Exit("fail")
    BY <1>1, <1>2
  <2>2. QED
    BY <2>1, CleanSaysNoSuccess
<1>3. CASE mem.errors = {}
  <2>1. said' = {[req |-> req, exit |-> "ok", calm |-> calm, mem |-> mem]}
    BY <1>1, <1>3 DEF Exit, Ends
  <2>2. /\ req.cmd \in StepCmd
        /\ req.cmd # "orphans" => mem.noted \cap Prunes = {}
        /\ CleanedSoFar
    BY <1>1, <1>3 DEF CleanInv, CleanRun, InSteps
  <2>3. (req.cmd \in {"quick", "nuke"} /\ calm /\ mem.noted = {}) =>
          /\ Existing = {} /\ volume = {} /\ net = {}
          /\ \A c \in Containers : image[c] = None
          /\ req.cmd = "nuke" => cache = {}
    BY <1>1, <2>2, EmptyIsLast DEF CleanedSoFar
  <2>4. Existing' = Existing
    BY <1>1 DEF Existing
  <2>5. CleanedOut'
    BY <1>1, <2>1, <2>3, <2>4 DEF CleanedOut, Ended
  <2>6. PruneFailsAloud'
    BY <2>1, <2>2 DEF PruneFailsAloud, Prunes
  <2>7. RestartedIsUp'
    BY <2>1, <2>2 DEF RestartedIsUp, Ended, StepCmd
  <2>8. QED
    BY <2>5, <2>6, <2>7 DEF CleanReportsHold
<1>4. QED
  BY <1>2, <1>3

\* What docker-clean says of a step it has just taken holds in the new state.
LEMMA CleanReportsStep ==
    ASSUME CleanInv, group = "docker", CleanNext
    PROVE  CleanReportsHold'
<1>1. CASE \/ AskAtOnce \/ AskPruning \/ AskComposeDown \/ AskRestart \/ AskSchedule
           \/ ScheduleFires \/ CleanKill \/ DaemonMoves \/ DaemonDies \/ StartsContainer
  <2>1. said' = {}
    BY <1>1 DEF AskAtOnce, AskPruning, AskComposeDown, AskRestart, AskSchedule, ScheduleFires,
       Ask, Starts, Refused, CleanKill, Killed, Ends, DaemonMoves, DaemonDies, StartsContainer,
       Elapses, Outside
  <2>2. QED
    BY <2>1, CleanSaysNoSuccess
<1>2. CASE Each \/ EachDone \/ Prune \/ PruneBuilders
  <2>1. said' = {}
    BY <1>2 DEF Each, EachDone, Prune, PruneBuilders, Stepped, Remember
  <2>2. QED
    BY <2>1, CleanSaysNoSuccess
<1>3. CASE Parse \/ NoToken \/ List
  <2>1. said' = {} \/ \E code \in {"usage", "fail", "exception"} : Exit(code)
    BY <1>3 DEF Parse, NoToken, List, Remember
  <2>2. QED
    BY <2>1, CleanSaysNoSuccess
<1>4. CASE EmitSteps
  BY <1>4, EmitStepsReports
<1>5. CASE Boot
  <2>1. CASE Answers /\ req.dry
    <3>1. said' = {[req |-> req, exit |-> "ok", calm |-> calm, mem |-> mem]}
      BY <1>5, <2>1 DEF Boot, Exit, Ends
    <3>2. QED
      BY <2>1, <3>1 DEF CleanReportsHold, CleanedOut, PruneFailsAloud, RestartedIsUp, Ended
  <2>2. CASE ~(Answers /\ req.dry)
    <3>1. said' = {} \/ Exit("unavailable")
      BY <1>5, <2>2 DEF Boot, Goto, Remember
    <3>2. QED
      BY <3>1, CleanSaysNoSuccess
  <2>3. QED
    BY <2>1, <2>2
<1>6. CASE EmitSchedule \/ ComposeDown
  <2>1. req.cmd \in {"schedule", "compose_down"} /\ \E code : Exit(code)
    BY <1>6 DEF EmitSchedule, ComposeDown, CleanInv, CleanRun
  <2>2. \A s \in said' : s.req.cmd \in {"schedule", "compose_down"}
    BY <2>1 DEF Exit, Ends
  <2>3. QED
    BY <2>2 DEF CleanReportsHold, CleanedOut, PruneFailsAloud, RestartedIsUp, Ended
<1>7. CASE Restart
  <2>1. at = "restart" /\ req.cmd = "restart"
    BY <1>7 DEF Restart, CleanInv, CleanRun
  <2>2. CASE daemon' = "up" /\ Exit("ok")
    <3>1. said' = {[req |-> req, exit |-> "ok", calm |-> calm, mem |-> mem]}
      BY <2>2 DEF Exit, Ends
    <3>2. QED
      BY <2>1, <2>2, <3>1 DEF CleanReportsHold, CleanedOut, PruneFailsAloud, RestartedIsUp, Ended
  <2>3. CASE said' = {} \/ \E code \in {"noperm", "fail"} : Exit(code)
    BY <2>3, CleanSaysNoSuccess
  <2>4. QED
    BY <1>7, <2>2, <2>3 DEF Restart, Remember
<1>8. CASE Poll
  <2>1. at = "poll" /\ req.cmd = "restart" /\ UNCHANGED daemon
        /\ (calm /\ req.place # "mac" => daemon \in {"starting", "up"})
    BY <1>8 DEF Poll, CleanInv, CleanRun, InPoll, docker
  <2>2. CASE Back /\ Exit("ok")
    <3>1. said' = {[req |-> req, exit |-> "ok", calm |-> calm, mem |-> mem]}
      BY <2>2 DEF Exit, Ends
    <3>2. calm /\ req.place # "mac" => daemon' = "up"
      BY <2>1, <2>2 DEF Back, Answers
    <3>3. QED
      BY <2>1, <3>1, <3>2 DEF CleanReportsHold, CleanedOut, PruneFailsAloud, RestartedIsUp, Ended
  <2>3. CASE said' = {} \/ Exit("fail")
    BY <2>3, CleanSaysNoSuccess
  <2>4. QED
    BY <1>8, <2>2, <2>3 DEF Poll, Remember
<1>9. QED
  BY <1>1, <1>2, <1>3, <1>4, <1>5, <1>6, <1>7, <1>8 DEF CleanNext, CleanStep
-----------------------------------------------------------------------------
(***************************************************************************)
(* adguard.                                                                *)
(***************************************************************************)
AghCmd == {"adguard_fix", "ports_set", "rollback", "service"}

ResolvAt == {"stub_off", "back_up", "rm_resolv", "ln_resolv", "static", "nm"}
FixAt == {"scan", "units", "restart_agh"} \cup ResolvAt
SetAt == {"ports_set", "stop_agh", "copy_yaml", "fill_copy", "edit_yaml", "start_agh"}
AghAt == FixAt \cup SetAt \cup {"service", "roll_yaml", "fill_yaml", "roll_resolv"}

TopOf(bak, t) == t \in Taken(bak) /\ \A u \in Taken(bak) : u <= t

\* The newest backup is no later than the clock.
Stacked(bak) ==
    /\ \A t \in Taken(bak) : t <= stamp
    /\ Taken(bak) # {} => \E t \in AghStamp : TopOf(bak, t)

\* What was removed is in the newest backup.
Recover ==
    (link = None /\ before # None /\ smooth) =>
        \E t \in AghStamp : TopOf(bakResolv, t) /\ bakResolv[t] = before

AghState ==
    /\ AghTypeOK
    /\ stamp \in AghStamp
    /\ host.bound => link = "file"
    /\ agh.up => Free(agh.ports, holder)
    /\ ~host.resolved => link = "file" /\ says["file"] # "stub" /\ Taken(bakResolv) = {}
    /\ Stacked(bakResolv) /\ Stacked(bakYaml)
    /\ Recover

\* Which command a step belongs to.
Belongs ==
    /\ at # "idle" => at \in AghAt
    /\ at \in FixAt => req.cmd = "adguard_fix"
    /\ at \in SetAt => req.cmd \in {"adguard_fix", "ports_set"}
    /\ at \in SetAt /\ req.cmd = "ports_set" => req.ports \in PortPair
    /\ at = "service" => req.cmd = "service" /\ req.action \in {"start", "stop", "restart"}
    /\ at \in {"roll_yaml", "fill_yaml", "roll_resolv"} => req.cmd = "rollback"
    /\ at = "fill_yaml" => Taken(bakYaml) # {}
    /\ at \in ResolvAt => host.resolved
    /\ at = "ln_resolv" => ~host.bound

\* A fix knows the ports it found, or chose.
Carries ==
    (at \in ResolvAt \cup {"units"} \cup SetAt /\ req.cmd = "adguard_fix") =>
        "ports" \in DOMAIN mem /\ "todo" \in DOMAIN mem /\ mem.ports \in PortPair

\* resolv.conf, before it is removed, was backed up; what systemd-resolved
\* wrote when it started anew is there to link to.
Backed ==
    /\ (at = "rm_resolv" /\ calm /\ smooth /\ link # None) => bakResolv[stamp] = says[link]
    /\ (at \in {"back_up", "rm_resolv", "ln_resolv"} /\ smooth) => says["run_link"] = "resolved"

\* After that part of a fix, resolv.conf serves.
Served ==
    (/\ at \in {"nm", "units", "restart_agh"} \cup SetAt
     /\ req.cmd = "adguard_fix" /\ req.flag # "remap_only" /\ calm /\ smooth) =>
        link # None /\ says[link] # "stub"

\* The yaml is edited with AGH stopped, and start_agh knows whether it was.
Edited ==
    /\ (at \in {"copy_yaml", "fill_copy", "edit_yaml", "start_agh"} /\ smooth) => ~agh.up
    /\ at = "start_agh" =>
        /\ mem.edited \in BOOLEAN
        /\ mem.edited => yaml = Asked
        /\ ~mem.edited /\ req.cmd = "adguard_fix" => ~smooth

\* Nobody has the ports of y, but for those that fix moves AGH to.
Fits(y) ==
    /\ holder[y.dns] = None \/ y.dns = RemapDns
    /\ holder[y.http] = None \/ y.http = RemapHttp

\* A fix that sees all conflicts chooses ports that nobody has, but for those to
\* remap to, as long as no unit takes one after it has looked.
Chosen ==
    (at \in SetAt /\ req.cmd = "adguard_fix" /\ host.root /\ settled) => Fits(mem.ports)

Restartable ==
    (at = "restart_agh" /\ smooth /\ host.root /\ settled) =>
        agh.up \/ yaml = Torn \/ Fits(yaml)

AghSaid == \A s \in said : s.req.cmd \in AghCmd

AghRun ==
    /\ Belongs /\ Carries /\ Backed /\ Served /\ Edited /\ Chosen /\ Restartable
    /\ AghSaid

AghInv == AghState /\ (group = "adguard" => AghRun)

LEMMA AghPortsTyped ==
    /\ FirstPorts \in PortPair /\ RemapDns \in AghPort /\ RemapHttp \in AghPort
    /\ AghPort \subseteq TargetPort
BY DEF FirstPorts, PortPair, AghPort, TargetPort

LEMMA AghInitially == AghStart /\ CliInit => AghInv
<1> SUFFICES ASSUME AghStart, CliInit PROVE AghInv
  OBVIOUS
<1>1. /\ stamp = 0 /\ stamp \in AghStamp /\ before = None
      /\ Taken(bakResolv) = {} /\ Taken(bakYaml) = {}
      /\ bakResolv \in [AghStamp -> Server \cup {None}] /\ bakYaml \in [AghStamp -> PortPair \cup {Torn, None}]
  BY AghPortsAssumption DEF AghStart, Taken, AghStamp
<1>2. Stacked(bakResolv) /\ Stacked(bakYaml) /\ Recover
  BY <1>1 DEF Stacked, Recover
<1>3. holder \in [TargetPort -> Unit \cup {None}]
  <2>1. PICK f \in {<<>>, One(DnsPort, "systemd-resolved"),
                    Two(DnsPort, "systemd-resolved", HttpPort, "other"),
                    One(DnsPort, "dnsmasq"), One(DnsPort, "pihole-FTL"),
                    Two(DnsPort, "other", RemapDns, "other")}
                   \cup {One(p, "dnsmasq") : p \in OtherPorts} : holder = Held(f)
    BY DEF AghStart
  <2>2. \A p \in DOMAIN f : f[p] \in Unit
    <3>1. CASE \E q \in OtherPorts : f = One(q, "dnsmasq")
      <4>1. PICK q \in OtherPorts : f = One(q, "dnsmasq")
        BY <3>1
      <4>2. QED
        BY <4>1 DEF One, Unit
    <3>2. CASE f \in {<<>>, One(DnsPort, "systemd-resolved"),
                       Two(DnsPort, "systemd-resolved", HttpPort, "other"),
                       One(DnsPort, "dnsmasq"), One(DnsPort, "pihole-FTL"),
                       Two(DnsPort, "other", RemapDns, "other")}
      BY <3>2 DEF One, Two, Unit
    <3>3. QED
      BY <2>1, <3>1, <3>2
  <2>3. QED
    BY <2>1, <2>2 DEF Held
<1>4. agh \in [up : BOOLEAN, ports : PortPair] /\ yaml \in PortPair \cup {Torn} /\ (agh.up => Free(agh.ports, holder))
  BY AghPortsTyped DEF AghStart, Free
<1>5. /\ link \in {None, "file", "stub_link", "run_link"} /\ (host.bound => link = "file")
      /\ says \in [{"file", "stub_link", "run_link"} -> Server]
      /\ nm \in {"inactive", "manages", "off"}
  BY DEF AghStart, Server
<1>6. ~host.resolved => link = "file" /\ says["file"] # "stub"
  <2>1. stub = (holder[DnsPort] = "systemd-resolved")
    BY DEF AghStart
  <2>2. group # "adguard" => holder = Held(<<>>)
    BY DEF AghStart
  <2>3. group # "adguard" => holder[DnsPort] = None
    BY <2>2 DEF Held, AghPort, TargetPort
  <2>4. group # "adguard" => ~stub
    BY <2>1, <2>3, AghNoneAssumption DEF Unit
  <2>5. group = "adguard" => host.resolved = stub
    BY DEF AghStart
  <2>6. ~host.resolved => ~stub
    BY <2>4, <2>5
  <2>7. ~stub => link = "file" /\ says["file"] = "network"
    BY DEF AghStart
  <2>8. QED
    BY <2>6, <2>7
<1>7. AghState
  BY <1>1, <1>2, <1>3, <1>4, <1>5, <1>6 DEF AghState, AghTypeOK
<1>8. at = "idle" /\ said = {}
  BY DEF CliInit
<1>9. AghRun
  BY <1>8 DEF AghRun, Belongs, Carries, Backed, Served, Edited, Chosen, Restartable, AghSaid,
     AghAt, FixAt, SetAt, ResolvAt
<1>10. QED
  BY <1>7, <1>9 DEF AghInv

LEMMA AghStill ==
    ASSUME AghState, UNCHANGED adguard
    PROVE  AghState'
<1>1. UNCHANGED <<holder, host, link, says, bakResolv, agh, yaml, bakYaml, stamp, smooth, settled, before, nm>>
  BY DEF adguard
<1>2. AghTypeOK'
  BY <1>1 DEF AghState, AghTypeOK
<1>3. Stacked(bakResolv)' /\ Stacked(bakYaml)'
  BY <1>1 DEF AghState, Stacked, TopOf, Taken
<1>4. Recover'
  BY <1>1 DEF AghState, Recover, TopOf, Taken
<1>5. QED
  BY <1>1, <1>2, <1>3, <1>4 DEF AghState, Taken, Free

\* Between two runs nothing is said of a run.
LEMMA AghAtRest ==
    ASSUME AghState', at' = "idle", AghSaid'
    PROVE  AghInv'
BY DEF AghInv, AghRun, Belongs, Carries, Backed, Served, Edited, Chosen, Restartable,
   AghAt, FixAt, SetAt, ResolvAt

LEMMA AghEnd ==
    ASSUME AghRun, at # "idle", AghState', NEW code, Exit(code) \/ Ends({})
    PROVE  AghInv' /\ group' = group
<1>1. /\ group' = group /\ at' = "idle"
      /\ \A s \in said' : s.req = req
  BY DEF Exit, Ends
<1>2. req.cmd \in AghCmd
  BY DEF AghRun, Belongs, AghAt, AghCmd
<1>3. QED
  BY <1>1, <1>2, AghAtRest DEF AghSaid

LEMMA AghAskKeeps ==
    ASSUME AghInv, AskFixPorts \/ AskPortsSet \/ AskRollbackAgh \/ AskService
    PROVE  AghInv' /\ group = "adguard" /\ said' = {}
<1>1. /\ group = "adguard" /\ group' = group /\ said' = {} /\ UNCHANGED adguard /\ at = "idle"
      /\ \/ at' = "idle"
         \/ at' = "scan" /\ req'.cmd = "adguard_fix"
         \/ at' = "ports_set" /\ req'.cmd = "ports_set" /\ req'.ports \in PortPair
         \/ at' = "roll_yaml" /\ req'.cmd = "rollback"
         \/ /\ at' = "service" /\ req'.cmd = "service"
            /\ req'.action \in {"start", "stop", "restart"}
  <2>1. CASE AskPortsSet
    <3>1. [dns |-> RemapDns, http |-> HttpPort] \in PortPair
      BY DEF PortPair, AghPort
    <3>2. QED
      BY <2>1, <3>1, AghPortsTyped DEF AskPortsSet, Ask, Starts, Refused, Idle
  <2>2. QED
    BY <2>1 DEF AskFixPorts, AskRollbackAgh, AskService, Starts, Idle
<1>2. AghState'
  BY <1>1, AghStill DEF AghInv
<1>3. AghSaid'
  BY <1>1 DEF AghSaid
<1>4. CASE at' = "idle"
  BY <1>1, <1>2, <1>3, <1>4, AghAtRest
<1>5. CASE at' # "idle"
  BY <1>1, <1>2, <1>3, <1>5
  DEF AghInv, AghRun, Belongs, Carries, Backed, Served, Edited, Chosen, Restartable,
      AghAt, FixAt, SetAt, ResolvAt
<1>6. QED
  BY <1>1, <1>4, <1>5

LEMMA TopIsNewest ==
    ASSUME NEW bak, NEW t \in AghStamp, TopOf(bak, t)
    PROVE  Newest(bak) = t /\ t \in Taken(bak)
<1>1. Taken(bak) \subseteq Nat
  BY AghPortsAssumption DEF Taken, AghStamp
<1>2. t \in Taken(bak) /\ \A u \in Taken(bak) : u <= t
  BY DEF TopOf
<1>3. Newest(bak) \in Taken(bak) /\ \A u \in Taken(bak) : u <= Newest(bak)
  BY <1>2 DEF Newest
<1>4. QED
  BY <1>1, <1>2, <1>3

\* A backup of this second is the newest.
LEMMA PutOnTop ==
    ASSUME NEW S, NEW bak \in [AghStamp -> S], NEW s \in AghStamp,
           \A t \in Taken(bak) : t <= s, NEW v, v # None
    PROVE  /\ TopOf([bak EXCEPT ![s] = v], s)
           /\ \A t \in Taken([bak EXCEPT ![s] = v]) : t <= s
BY AghPortsAssumption DEF TopOf, Taken, AghStamp

\* A step that leaves everything but what the run knows.
LEMMA ScanPortsKeeps ==
    ASSUME AghInv, group = "adguard", ScanPorts
    PROVE  AghInv'
<1>1. at = "scan" /\ UNCHANGED adguard /\ AghRun /\ AghState
  BY DEF ScanPorts, AghInv
<1>2. AghState'
  BY <1>1, AghStill
<1>3. CASE Exit("ok") \/ Exit("exception")
  BY <1>1, <1>2, <1>3, AghEnd
<1>4. CASE ~(Exit("ok") \/ Exit("exception"))
  <2>1. Remember(IF req.flag # "remap_only" /\ host.resolved THEN "stub_off" ELSE "units",
                 [todo |-> {c.unit : c \in Conflicts(Configured(yaml))}, ports |-> Configured(yaml)])
    BY <1>4 DEF ScanPorts
  <2>2. /\ at' = IF req.flag # "remap_only" /\ host.resolved THEN "stub_off" ELSE "units"
        /\ said' = {} /\ UNCHANGED <<group, req, calm>>
    BY <2>1 DEF Remember
  <2>3. "ports" \in DOMAIN mem' /\ "todo" \in DOMAIN mem' /\ mem'.ports \in PortPair
    BY <1>1, <2>1, AghPortsTyped DEF Remember, AghState, AghTypeOK, Configured
  <2>4. req.cmd = "adguard_fix"
    BY <1>1 DEF AghRun, Belongs, FixAt
  <2>5. Belongs' /\ Carries'
    BY <1>1, <2>2, <2>3, <2>4 DEF Belongs, Carries, AghAt, FixAt, SetAt, ResolvAt, adguard
  <2>6. Served'
    <3>1. CASE req.flag = "remap_only" \/ host.resolved
      BY <2>2, <3>1 DEF Served, SetAt
    <3>2. CASE ~host.resolved
      BY <1>1, <3>2, AghNoneAssumption DEF Served, AghState, adguard
    <3>3. QED
      BY <3>1, <3>2
  <2>7. Backed' /\ Edited' /\ Chosen' /\ Restartable'
    BY <2>2 DEF Backed, Edited, Chosen, Restartable, SetAt
  <2>8. QED
    BY <1>2, <2>2, <2>5, <2>6, <2>7 DEF AghInv, AghRun, AghSaid
<1>5. QED
  BY <1>3, <1>4

\* A step of a fix from one label to another, that leaves what the run knows.
LEMMA GoesOn ==
    ASSUME AghRun, at \in ResolvAt, NEW l \in ResolvAt \cup {"units"}, Goto(l),
           UNCHANGED host, l = "ln_resolv" => ~host.bound
    PROVE  /\ at' = l /\ said' = {} /\ UNCHANGED <<group, req, mem, calm>>
           /\ Belongs' /\ Carries' /\ AghSaid' /\ Edited' /\ Chosen' /\ Restartable'
<1>1. /\ at' = l /\ said' = {} /\ UNCHANGED <<group, req, mem, calm>>
  BY DEF Goto, Remember
<1>2. req.cmd = "adguard_fix" /\ host.resolved
  BY DEF AghRun, Belongs, FixAt
<1>3. Carries'
  BY <1>1, <1>2 DEF Carries, AghRun
<1>4. Belongs'
  BY <1>1, <1>2 DEF Belongs, AghAt, FixAt, SetAt, ResolvAt
<1>5. QED
  BY <1>1, <1>3, <1>4 DEF AghSaid, Edited, Chosen, Restartable, ResolvAt, SetAt

\* The listeners a step ends leave the others as they were.
LEMMA FreedStaysFree ==
    ASSUME AghState, NEW ports2 \in PortPair, Free(ports2, holder),
           \A p \in TargetPort : holder'[p] \in {holder[p], None}
    PROVE  Free(ports2, holder')
BY AghPortsTyped DEF Free, PortPair

\* What is in the backups and the yaml, when a step leaves them alone.
LEMMA StackedStill ==
    ASSUME AghState, UNCHANGED <<bakResolv, bakYaml, stamp>>
    PROVE  /\ Stacked(bakResolv)' /\ Stacked(bakYaml)'
           /\ Taken(bakResolv)' = Taken(bakResolv)
BY DEF AghState, Stacked, TopOf, Taken

LEMMA StubOffKeeps ==
    ASSUME AghInv, group = "adguard", StubOff
    PROVE  AghInv'
<1>1. /\ at = "stub_off" /\ Goto("back_up") /\ AghRun /\ AghState
      /\ UNCHANGED <<nm, host, mode, link, agh, yaml, bakResolv, bakYaml, stamp, before, settled>>
  BY DEF StubOff, AghInv
<1>2. /\ at' = "back_up" /\ said' = {} /\ UNCHANGED <<group, req, mem, calm>>
      /\ Belongs' /\ Carries' /\ AghSaid' /\ Edited' /\ Chosen' /\ Restartable'
  BY <1>1, GoesOn DEF ResolvAt
<1>3. host.resolved
  BY <1>1 DEF AghRun, Belongs, ResolvAt
<1>4. /\ \/ /\ holder' = [holder EXCEPT ![DnsPort] = IF @ = "systemd-resolved" THEN None ELSE @]
            /\ says' = [says EXCEPT !["run_link"] = "resolved"]
         \/ UNCHANGED <<holder, says>> /\ smooth' = FALSE
      /\ smooth' => smooth
  BY DEF StubOff, Ignored
<1>5. AghTypeOK' /\ \A p \in TargetPort : holder'[p] \in {holder[p], None}
  BY <1>1, <1>4 DEF AghState, AghTypeOK, Server
<1>6. agh.up => Free(agh.ports, holder')
  BY <1>1, <1>5, FreedStaysFree DEF AghState, AghTypeOK
<1>7. Recover' /\ Stacked(bakResolv)' /\ Stacked(bakYaml)'
  BY <1>1, <1>4 DEF AghState, Recover, Stacked, TopOf, Taken
<1>9. AghState'
  BY <1>1, <1>3, <1>5, <1>6, <1>7, StackedStill DEF AghState
<1>10. Backed'
  BY <1>1, <1>2, <1>4 DEF Backed, AghState, AghTypeOK
<1>11. Served'
  BY <1>2 DEF Served, SetAt
<1>12. QED
  BY <1>2, <1>9, <1>10, <1>11 DEF AghInv, AghRun

LEMMA BackUpResolvKeeps ==
    ASSUME AghInv, group = "adguard", BackUpResolv
    PROVE  AghInv'
<1>1. /\ at = "back_up" /\ AghRun /\ AghState
      /\ UNCHANGED <<holder, stub, nm, host, mode, link, says, agh, yaml, bakYaml, stamp, before, settled>>
      /\ smooth' => smooth
  BY DEF BackUpResolv, AghInv, Ignored
<1>2. PICK l \in {"rm_resolv", "static"} : Goto(l)
  BY DEF BackUpResolv
<1>3. /\ at' = l /\ said' = {} /\ UNCHANGED <<group, req, mem, calm>>
      /\ Belongs' /\ Carries' /\ AghSaid' /\ Edited' /\ Chosen' /\ Restartable'
  BY <1>1, <1>2, GoesOn DEF ResolvAt
<1>4. host.resolved
  BY <1>1 DEF AghRun, Belongs, ResolvAt
<1>5. CASE link # None /\ bakResolv' = [bakResolv EXCEPT ![stamp] = BacksUp]
  <2>1. says[link] \in Server /\ says[link] # None
    BY <1>1, <1>5, AghNoneAssumption DEF AghState, AghTypeOK
  <2>2. AghTypeOK'
    BY <1>1, <1>5, <2>1 DEF AghState, AghTypeOK, BacksUp
  <2>3. /\ bakResolv \in [AghStamp -> Server \cup {None}] /\ stamp \in AghStamp
        /\ \A t \in Taken(bakResolv) : t <= stamp
    BY <1>1 DEF AghState, AghTypeOK, Stacked
  <2>4. TopOf(bakResolv', stamp) /\ \A t \in Taken(bakResolv') : t <= stamp
    BY <1>5, <2>1, <2>3, PutOnTop DEF BacksUp
  <2>5. Stacked(bakResolv)'
    BY <1>1, <2>3, <2>4 DEF Stacked, TopOf, Taken
  <2>6. Stacked(bakYaml)'
    BY <1>1 DEF AghState, Stacked, TopOf, Taken
  <2>7. AghState'
    BY <1>1, <1>4, <1>5, <2>2, <2>5, <2>6 DEF AghState, Recover, Free
  <2>8. Backed'
    BY <1>1, <1>3, <1>5, <2>3 DEF Backed, AghRun, BacksUp
  <2>9. Served'
    BY <1>3 DEF Served, SetAt
  <2>10. QED
    BY <1>3, <2>7, <2>8, <2>9 DEF AghInv, AghRun
<1>6. CASE Ignored(link # None) /\ UNCHANGED bakResolv
  <2>1. AghTypeOK' /\ Stacked(bakResolv)' /\ Stacked(bakYaml)' /\ Recover'
    BY <1>1, <1>6 DEF AghState, AghTypeOK, Stacked, Recover, TopOf, Taken
  <2>2. AghState'
    BY <1>1, <1>4, <1>6, <2>1 DEF AghState, Free
  <2>3. link # None => ~smooth'
    BY <1>6 DEF Ignored
  <2>4. Backed' /\ Served'
    BY <1>1, <1>3, <2>3 DEF Backed, Served, AghRun, SetAt
  <2>5. QED
    BY <1>3, <2>2, <2>4 DEF AghInv, AghRun
<1>7. QED
  BY <1>5, <1>6 DEF BackUpResolv

LEMMA RmResolvKeeps ==
    ASSUME AghInv, group = "adguard", RmResolv
    PROVE  AghInv'
<1>1. /\ at = "rm_resolv" /\ AghRun /\ AghState
      /\ UNCHANGED <<holder, stub, nm, host, mode, says, bakResolv, agh, yaml, bakYaml, stamp, smooth, settled>>
  BY DEF RmResolv, AghInv
<1>2. host.resolved
  BY <1>1 DEF AghRun, Belongs, ResolvAt
<1>3. Stacked(bakResolv)' /\ Stacked(bakYaml)'
  BY <1>1, StackedStill
<1>4. CASE host.bound
  <2>1. Goto("static") /\ UNCHANGED <<link, before>>
    BY <1>4 DEF RmResolv
  <2>2. /\ at' = "static" /\ said' = {} /\ UNCHANGED <<group, req, mem, calm>>
        /\ Belongs' /\ Carries' /\ AghSaid' /\ Edited' /\ Chosen' /\ Restartable'
    BY <1>1, <2>1, GoesOn DEF ResolvAt
  <2>3. AghState'
    BY <1>1, <1>3, <2>1 DEF AghState, AghTypeOK, Free, Recover, TopOf, Taken
  <2>4. Backed' /\ Served'
    BY <2>2 DEF Backed, Served, SetAt
  <2>5. QED
    BY <2>2, <2>3, <2>4 DEF AghInv, AghRun
<1>5. CASE ~host.bound
  <2>1. /\ link' = None /\ Goto("ln_resolv")
        /\ before' = IF link = None THEN before ELSE IF calm THEN says[link] ELSE None
    BY <1>5 DEF RmResolv
  <2>2. /\ at' = "ln_resolv" /\ said' = {} /\ UNCHANGED <<group, req, mem, calm>>
        /\ Belongs' /\ Carries' /\ AghSaid' /\ Edited' /\ Chosen' /\ Restartable'
    BY <1>1, <1>5, <2>1, GoesOn DEF ResolvAt
  <2>3. Recover'
    <3>1. CASE link = None
      BY <1>1, <2>1, <3>1 DEF AghState, Recover, TopOf, Taken
    <3>2. CASE link # None /\ calm /\ smooth
      <4>1. bakResolv[stamp] = says[link] /\ says[link] # None /\ stamp \in AghStamp
        BY <1>1, <3>2, AghNoneAssumption DEF AghRun, Backed, AghState, AghTypeOK
      <4>2. TopOf(bakResolv, stamp)
        BY <1>1, <4>1 DEF TopOf, Taken, AghState, Stacked
      <4>3. TopOf(bakResolv', stamp) /\ bakResolv'[stamp] = before' /\ stamp \in AghStamp
        BY <1>1, <2>1, <3>2, <4>1, <4>2 DEF TopOf, Taken
      <4>4. QED
        BY <4>3 DEF Recover
    <3>3. CASE link # None /\ ~(calm /\ smooth)
      <4>1. before' = None \/ ~smooth'
        BY <1>1, <2>1, <3>3
      <4>2. QED
        BY <4>1 DEF Recover
    <3>4. QED
      BY <3>1, <3>2, <3>3
  <2>4. AghState'
    BY <1>1, <1>2, <1>3, <1>5, <2>1, <2>3 DEF AghState, AghTypeOK, Free
  <2>5. Backed' /\ Served'
    BY <1>1, <2>2 DEF AghRun, Backed, Served, SetAt
  <2>6. QED
    BY <2>2, <2>4, <2>5 DEF AghInv, AghRun
<1>6. QED
  BY <1>4, <1>5

LEMMA LnResolvKeeps ==
    ASSUME AghInv, group = "adguard", LnResolv
    PROVE  AghInv'
<1>1. /\ at = "ln_resolv" /\ AghRun /\ AghState /\ Goto("nm")
      /\ UNCHANGED <<holder, stub, nm, host, mode, says, bakResolv, agh, yaml, bakYaml, stamp, before, settled>>
      /\ link' \in {None, "run_link"} /\ (smooth' => smooth /\ link' # None)
  BY DEF LnResolv, AghInv, Ignored, ResolvTarget
<1>2. host.resolved /\ ~host.bound
  BY <1>1 DEF AghRun, Belongs, ResolvAt
<1>3. /\ at' = "nm" /\ said' = {} /\ UNCHANGED <<group, req, mem, calm>>
      /\ Belongs' /\ Carries' /\ AghSaid' /\ Edited' /\ Chosen' /\ Restartable'
  BY <1>1, GoesOn DEF ResolvAt
<1>4. Stacked(bakResolv)' /\ Stacked(bakYaml)' /\ Recover'
  BY <1>1, StackedStill DEF Recover
<1>5. AghState'
  BY <1>1, <1>2, <1>4 DEF AghState, AghTypeOK, Free
<1>6. Backed' /\ Served'
  BY <1>1, <1>3 DEF AghRun, Backed, Served
<1>7. QED
  BY <1>3, <1>5, <1>6 DEF AghInv, AghRun

LEMMA StaticResolvKeeps ==
    ASSUME AghInv, group = "adguard", StaticResolv
    PROVE  AghInv'
<1>1. /\ at = "static" /\ AghRun /\ AghState /\ Goto("nm")
      /\ UNCHANGED <<holder, stub, nm, host, mode, bakResolv, agh, yaml, bakYaml, stamp, before, settled>>
  BY DEF StaticResolv, AghInv
<1>2. host.resolved
  BY <1>1 DEF AghRun, Belongs, ResolvAt
<1>3. /\ at' = "nm" /\ said' = {} /\ UNCHANGED <<group, req, mem, calm>>
      /\ Belongs' /\ Carries' /\ AghSaid' /\ Edited' /\ Chosen' /\ Restartable'
  BY <1>1, GoesOn DEF ResolvAt
<1>4. host.bound => link = "file"
  BY <1>1 DEF AghState
<1>5. \/ link' = "file" /\ says' = [says EXCEPT !["file"] = "agh"] /\ (smooth' => smooth)
      \/ UNCHANGED <<link, says>> /\ smooth' = FALSE
  BY <1>4 DEF StaticResolv, Ignored, Fails
<1>6. AghTypeOK'
  BY <1>1, <1>5 DEF AghState, AghTypeOK, Server
<1>7. Stacked(bakResolv)' /\ Stacked(bakYaml)' /\ Recover'
  <2>1. link' = "file" \/ ~smooth'
    BY <1>5
  <2>2. QED
    BY <1>1, <2>1, StackedStill, AghNoneAssumption DEF Recover
<1>8. AghState'
  BY <1>1, <1>2, <1>5, <1>6, <1>7 DEF AghState, Free
<1>9. Backed' /\ Served'
  <2>1. smooth' => link' = "file" /\ says'[link'] = "agh"
    BY <1>1, <1>5 DEF AghState, AghTypeOK
  <2>2. QED
    BY <1>3, <2>1, AghNoneAssumption DEF Backed, Served
<1>10. QED
  BY <1>3, <1>8, <1>9 DEF AghInv, AghRun

LEMMA ManageNetworkKeeps ==
    ASSUME AghInv, group = "adguard", ManageNetwork
    PROVE  AghInv'
<1>1. /\ at = "nm" /\ AghRun /\ AghState /\ Goto("units")
      /\ UNCHANGED <<holder, stub, host, mode, link, says, bakResolv, agh, yaml, bakYaml, stamp, before, settled>>
      /\ nm' \in {nm, "off"} /\ (smooth' => smooth)
  BY DEF ManageNetwork, AghInv, Ignored
<1>2. host.resolved
  BY <1>1 DEF AghRun, Belongs, ResolvAt
<1>3. /\ at' = "units" /\ said' = {} /\ UNCHANGED <<group, req, mem, calm>>
      /\ Belongs' /\ Carries' /\ AghSaid' /\ Edited' /\ Chosen' /\ Restartable'
  BY <1>1, GoesOn DEF ResolvAt
<1>4. Stacked(bakResolv)' /\ Stacked(bakYaml)' /\ Recover'
  BY <1>1, StackedStill DEF AghState, Recover, TopOf, Taken
<1>5. AghState'
  BY <1>1, <1>2, <1>4 DEF AghState, AghTypeOK, Free
<1>6. Backed' /\ Served'
  BY <1>1, <1>3 DEF AghRun, Backed, Served
<1>7. QED
  BY <1>3, <1>5, <1>6 DEF AghInv, AghRun

LEMMA StopUnitKeeps ==
    ASSUME AghInv, group = "adguard", StopUnit
    PROVE  AghInv'
<1>1. /\ at = "units" /\ AghRun /\ AghState
      /\ UNCHANGED <<stub, nm, host, mode, link, says, bakResolv, agh, yaml, bakYaml, stamp, before, settled>>
      /\ smooth' => smooth
  BY DEF StopUnit, AghInv, Ignored
<1>2. req.cmd = "adguard_fix"
  BY <1>1 DEF AghRun, Belongs, FixAt
<1>3. PICK u \in mem.todo :
        /\ Remember("units", [mem EXCEPT !.todo = @ \ {u}])
        /\ \/ holder' = [p \in TargetPort |-> IF holder[p] = u THEN None ELSE holder[p]]
           \/ UNCHANGED holder
  BY DEF StopUnit
<1>4. /\ at' = "units" /\ said' = {} /\ UNCHANGED <<group, req, calm>>
      /\ mem' = [mem EXCEPT !.todo = @ \ {u}]
  BY <1>3 DEF Remember
<1>5. holder' \in [TargetPort -> Unit \cup {None}] /\ \A p \in TargetPort : holder'[p] \in {holder[p], None}
  BY <1>1, <1>3 DEF AghState, AghTypeOK
<1>6. AghTypeOK'
  BY <1>1, <1>5 DEF AghState, AghTypeOK
<1>7. agh.up => Free(agh.ports, holder')
  BY <1>1, <1>5, FreedStaysFree DEF AghState, AghTypeOK
<1>8. Stacked(bakResolv)' /\ Stacked(bakYaml)' /\ Recover'
  BY <1>1, StackedStill DEF AghState, Recover, TopOf, Taken
<1>9. AghState'
  BY <1>1, <1>5, <1>6, <1>7, <1>8, AghPortsTyped, StackedStill DEF AghState
<1>10. Carries'
  BY <1>1, <1>2, <1>4 DEF AghRun, Carries
<1>11. Belongs'
  BY <1>1, <1>4 DEF AghRun, Belongs, AghAt, FixAt, SetAt, ResolvAt
<1>12. Served'
  BY <1>1, <1>4 DEF AghRun, Served, SetAt
<1>13. Backed' /\ Edited' /\ Chosen' /\ Restartable' /\ AghSaid'
  BY <1>4 DEF Backed, Edited, Chosen, Restartable, AghSaid, SetAt
<1>14. QED
  BY <1>9, <1>10, <1>11, <1>12, <1>13 DEF AghInv, AghRun

\* Who sees no conflict as root sees that nobody listens.
LEMMA BlockedSeen ==
    ASSUME AghState, NEW p \in PortPair, host.root
    PROVE  /\ p.dns \notin Blocked(p) => holder[p.dns] = None
           /\ p.http \notin Blocked(p) => holder[p.http] = None
<1>1. p.dns \in TargetPort /\ p.http \in TargetPort
  BY AghPortsTyped DEF PortPair
<1>2. holder[p.dns] \in Unit \cup {None} /\ holder[p.http] \in Unit \cup {None}
  BY <1>1 DEF AghState, AghTypeOK
<1>3. ASSUME NEW q \in {p.dns, p.http}, holder[q] \in Unit
      PROVE  q \in Blocked(p)
  <2> DEFINE c == [port |-> q, unit |-> holder[q]]
  <2>1. c \in Conflicts(p) /\ c.port = q
    BY <1>3 DEF Conflicts
  <2>2. QED
    BY <2>1 DEF Blocked
<1>4. QED
  BY <1>2, <1>3

\* The ports that fix chooses, as root, nobody has, but for those to remap to.
LEMMA RemappedFit ==
    ASSUME AghState, NEW p \in PortPair
    PROVE  Remapped(p) \in PortPair /\ (host.root => Fits(Remapped(p)))
<1>1. Remapped(p) \in PortPair
  BY AghPortsTyped DEF Remapped, PortPair
<1>2. ASSUME host.root PROVE Fits(Remapped(p))
  BY <1>2, BlockedSeen DEF Remapped, Fits
<1>3. QED
  BY <1>1, <1>2

LEMMA ConfiguredTyped ==
    ASSUME AghState
    PROVE  Configured(yaml) \in PortPair /\ (yaml # Torn => Configured(yaml) = yaml)
BY AghPortsTyped DEF AghState, AghTypeOK, Configured

LEMMA CleanupOnlyKeeps ==
    ASSUME AghInv, group = "adguard", CleanupOnly
    PROVE  AghInv'
<1>1. at = "units" /\ Exit("ok") /\ UNCHANGED adguard /\ AghRun /\ AghState
  BY DEF CleanupOnly, AghInv
<1>2. QED
  BY <1>1, AghStill, AghEnd

LEMMA RescanKeeps ==
    ASSUME AghInv, group = "adguard", Rescan
    PROVE  AghInv'
<1>1. /\ at = "units" /\ AghRun /\ AghState
      /\ UNCHANGED <<holder, stub, nm, host, mode, link, says, bakResolv, agh, yaml, bakYaml, stamp, smooth, before>>
  BY DEF Rescan, AghInv
<1>2. AghState'
  <2>1. Stacked(bakResolv)' /\ Stacked(bakYaml)' /\ Recover'
    BY <1>1, StackedStill DEF AghState, Recover, TopOf, Taken
  <2>2. AghTypeOK'
    BY <1>1 DEF AghState, AghTypeOK
  <2>3. QED
    BY <1>1, <2>1, <2>2, StackedStill DEF AghState, Free
<1>3. req.cmd = "adguard_fix"
  BY <1>1 DEF AghRun, Belongs, FixAt
<1>4. CASE Exit("exception")
  BY <1>1, <1>2, <1>4, AghEnd
<1>5. CASE Blocked(Configured(yaml)) = {} /\ Goto("restart_agh")
  <2>1. /\ at' = "restart_agh" /\ said' = {} /\ UNCHANGED <<group, req, mem, calm>>
    BY <1>5 DEF Goto, Remember
  <2>2. host.root => yaml = Torn \/ Fits(yaml)
    BY <1>1, <1>5, BlockedSeen, ConfiguredTyped DEF Fits
  <2>3. Restartable'
    BY <1>1, <2>2 DEF Restartable, Fits
  <2>4. Belongs'
    BY <1>3, <2>1 DEF Belongs, AghAt, FixAt, SetAt, ResolvAt
  <2>5. Served'
    BY <1>1, <2>1 DEF AghRun, Served
  <2>6. Carries' /\ Backed' /\ Edited' /\ Chosen' /\ AghSaid'
    BY <2>1 DEF Carries, Backed, Edited, Chosen, AghSaid, SetAt, ResolvAt
  <2>7. QED
    BY <1>2, <2>3, <2>4, <2>5, <2>6 DEF AghInv, AghRun
<1>6. CASE Remember("ports_set", [mem EXCEPT !.ports = Remapped(Configured(yaml))])
  <2>1. /\ at' = "ports_set" /\ said' = {} /\ UNCHANGED <<group, req, calm>>
        /\ mem' = [mem EXCEPT !.ports = Remapped(Configured(yaml))]
    BY <1>6 DEF Remember
  <2>2. "ports" \in DOMAIN mem /\ "todo" \in DOMAIN mem
    BY <1>1, <1>3 DEF AghRun, Carries
  <2>3. /\ "ports" \in DOMAIN mem' /\ "todo" \in DOMAIN mem'
        /\ mem'.ports = Remapped(Configured(yaml))
    BY <2>1, <2>2
  <2>4. mem'.ports \in PortPair /\ (host.root => Fits(mem'.ports))
    BY <1>1, <2>3, ConfiguredTyped, RemappedFit
  <2>5. Chosen'
    BY <1>1, <2>4 DEF Chosen, Fits
  <2>6. Carries'
    BY <2>3, <2>4 DEF Carries
  <2>7. Belongs'
    BY <1>3, <2>1 DEF Belongs, AghAt, FixAt, SetAt, ResolvAt
  <2>8. Served'
    BY <1>1, <2>1 DEF AghRun, Served
  <2>9. Backed' /\ Edited' /\ Restartable' /\ AghSaid'
    BY <2>1 DEF Backed, Edited, Restartable, AghSaid
  <2>10. QED
    BY <1>2, <2>5, <2>6, <2>7, <2>8, <2>9 DEF AghInv, AghRun
<1>7. QED
  BY <1>4, <1>5, <1>6 DEF Rescan

\* The ports a change is about.
LEMMA AskedTyped ==
    ASSUME AghRun, at \in SetAt
    PROVE  /\ Asked \in PortPair
           /\ req.cmd \in {"adguard_fix", "ports_set"}
           /\ req.cmd = "adguard_fix" => Asked = mem.ports
BY DEF AghRun, Belongs, Carries, Asked

\* What a change of the ports does to AGH leaves the rest as it was.
LEMMA AghTouched ==
    ASSUME AghState, agh' \in [up : BOOLEAN, ports : PortPair], yaml' \in PortPair \cup {Torn},
           agh'.up => Free(agh'.ports, holder),
           UNCHANGED <<holder, nm, host, link, says, bakResolv, bakYaml, stamp, before, settled>>,
           smooth' => smooth
    PROVE  AghState'
<1>1. Stacked(bakResolv)' /\ Stacked(bakYaml)' /\ Recover'
  BY StackedStill DEF AghState, Recover, TopOf, Taken
<1>2. AghTypeOK'
  BY DEF AghState, AghTypeOK
<1>3. QED
  BY <1>1, <1>2, StackedStill DEF AghState, Free

\* From one step of a change to the next: what does not depend on AGH.
LEMMA SetGoesOn ==
    ASSUME AghRun, at \in SetAt, NEW l \in SetAt \ {"start_agh"}, Goto(l),
           UNCHANGED <<holder, host, link, says, settled>>, smooth' => smooth
    PROVE  /\ at' = l /\ said' = {} /\ UNCHANGED <<group, req, mem, calm>>
           /\ Belongs' /\ Carries' /\ AghSaid' /\ Backed' /\ Served' /\ Chosen' /\ Restartable'
<1>1. /\ at' = l /\ said' = {} /\ UNCHANGED <<group, req, mem, calm>>
  BY DEF Goto, Remember
<1>2. /\ req.cmd \in {"adguard_fix", "ports_set"}
      /\ req.cmd = "ports_set" => req.ports \in PortPair
  BY DEF AghRun, Belongs
<1>3. Belongs'
  BY <1>1, <1>2 DEF Belongs, AghAt, FixAt, SetAt, ResolvAt
<1>4. Carries'
  BY <1>1 DEF AghRun, Carries
<1>5. Served'
  BY <1>1 DEF AghRun, Served
<1>6. Chosen'
  BY <1>1 DEF AghRun, Chosen, Fits
<1>7. Backed' /\ Restartable' /\ AghSaid'
  BY <1>1 DEF Backed, Restartable, AghSaid, SetAt
<1>8. QED
  BY <1>1, <1>3, <1>4, <1>5, <1>6, <1>7

\* A fix whose change of the ports is done restarts AGH; of itself the change
\* ends the run.
LEMMA SetIsDone ==
    ASSUME AghRun, at \in SetAt, NEW code, AghState',
           IF req.cmd = "ports_set" THEN Exit(code) ELSE Goto("restart_agh"),
           UNCHANGED <<holder, host, link, says, settled>>, smooth' => smooth,
           (req.cmd = "adguard_fix" /\ smooth' /\ host.root /\ settled) =>
               agh'.up \/ yaml' = Torn \/ Fits(yaml')
    PROVE  AghInv'
<1>1. CASE req.cmd = "ports_set"
  <2>1. at # "idle" /\ Exit(code)
    BY <1>1 DEF SetAt
  <2>2. QED
    BY <2>1, AghEnd
<1>2. CASE req.cmd # "ports_set"
  <2>1. req.cmd = "adguard_fix"
    BY <1>2 DEF AghRun, Belongs
  <2>2. /\ at' = "restart_agh" /\ said' = {} /\ UNCHANGED <<group, req, mem, calm>>
    BY <1>2 DEF Goto, Remember
  <2>3. Restartable'
    BY <2>1 DEF Restartable, Fits
  <2>4. Belongs'
    BY <2>1, <2>2 DEF Belongs, AghAt, FixAt, SetAt, ResolvAt
  <2>5. Served'
    BY <2>2 DEF AghRun, Served
  <2>6. Carries' /\ Backed' /\ Edited' /\ Chosen' /\ AghSaid'
    BY <2>2 DEF Carries, Backed, Edited, Chosen, AghSaid, SetAt, ResolvAt
  <2>7. QED
    BY <2>3, <2>4, <2>5, <2>6 DEF AghInv, AghRun
<1>3. QED
  BY <1>1, <1>2

LEMMA ByApiKeeps ==
    ASSUME AghInv, group = "adguard", ByApi
    PROVE  AghInv'
<1>1. /\ at = "ports_set" /\ at \in SetAt /\ AghRun /\ AghState
      /\ UNCHANGED <<holder, stub, nm, host, mode, link, says, bakResolv, bakYaml, stamp, smooth, before, settled>>
  BY DEF ByApi, AghInv, SetAt
<1>2. CASE req.dry
  <2>1. Exit("ok") /\ UNCHANGED adguard
    BY <1>1, <1>2 DEF ByApi, adguard
  <2>2. QED
    BY <1>1, <2>1, AghStill, AghEnd
<1>3. CASE /\ agh.up /\ Free(Asked, holder) /\ agh' = [agh EXCEPT !.ports = Asked]
           /\ yaml' = Asked /\ PortsDone
  <2>1. agh' \in [up : BOOLEAN, ports : PortPair] /\ agh'.up /\ agh'.ports = Asked /\ yaml' \in PortPair
    BY <1>1, <1>3, AskedTyped DEF AghState, AghTypeOK
  <2>2. AghState'
    BY <1>1, <1>3, <2>1, AghTouched
  <2>3. QED
    BY <1>1, <1>3, <2>1, <2>2, SetIsDone DEF PortsDone
<1>4. CASE Goto("stop_agh") /\ UNCHANGED <<agh, yaml>>
  <2>1. AghState'
    BY <1>1, <1>4, AghStill DEF adguard
  <2>2. /\ at' = "stop_agh" /\ Belongs' /\ Carries' /\ AghSaid' /\ Backed' /\ Served' /\ Chosen'
        /\ Restartable'
    BY <1>1, <1>4, SetGoesOn DEF SetAt
  <2>3. Edited'
    BY <2>2 DEF Edited
  <2>4. QED
    BY <2>1, <2>2, <2>3 DEF AghInv, AghRun
<1>5. QED
  BY <1>2, <1>3, <1>4 DEF ByApi, YamlPathBegins

LEMMA StopAghKeeps ==
    ASSUME AghInv, group = "adguard", StopAgh
    PROVE  AghInv'
<1>1. /\ at = "stop_agh" /\ at \in SetAt /\ AghRun /\ AghState /\ Goto("copy_yaml")
      /\ UNCHANGED <<holder, stub, nm, host, mode, link, says, bakResolv, bakYaml, stamp, before, settled>>
      /\ smooth' => smooth
  BY DEF StopAgh, AghInv, SetAt, Ignored
<1>2. \/ agh' = [agh EXCEPT !.up = FALSE] /\ yaml' = Stopped(yaml)
      \/ smooth' = FALSE /\ UNCHANGED <<agh, yaml>>
  BY DEF StopAgh, Ignored
<1>3. /\ agh' \in [up : BOOLEAN, ports : PortPair] /\ yaml' \in PortPair \cup {Torn}
      /\ agh'.up => Free(agh'.ports, holder)
      /\ smooth' => ~agh'.up
  BY <1>1, <1>2 DEF AghState, AghTypeOK, Stopped
<1>4. AghState'
  BY <1>1, <1>3, AghTouched
<1>5. /\ at' = "copy_yaml" /\ Belongs' /\ Carries' /\ AghSaid' /\ Backed' /\ Served' /\ Chosen'
      /\ Restartable'
  BY <1>1, SetGoesOn DEF SetAt
<1>6. Edited'
  BY <1>3, <1>5 DEF Edited
<1>7. QED
  BY <1>4, <1>5, <1>6 DEF AghInv, AghRun

\* A backup of the yaml of this second, whatever it says.
LEMMA BackedUpYaml ==
    ASSUME AghState, NEW v \in PortPair \cup {Torn}, bakYaml' = [bakYaml EXCEPT ![stamp] = v],
           UNCHANGED <<holder, nm, host, link, says, bakResolv, agh, yaml, stamp, smooth, before>>
    PROVE  AghState'
<1>1. v # None
  BY AghNoneAssumption
<1>2. /\ bakYaml \in [AghStamp -> PortPair \cup {Torn, None}] /\ stamp \in AghStamp
      /\ \A t \in Taken(bakYaml) : t <= stamp
  BY DEF AghState, AghTypeOK, Stacked
<1>3. TopOf(bakYaml', stamp) /\ \A t \in Taken(bakYaml') : t <= stamp
  BY <1>1, <1>2, PutOnTop
<1>4. Stacked(bakYaml)'
  BY <1>2, <1>3 DEF Stacked, TopOf, Taken
<1>5. AghTypeOK'
  BY <1>2 DEF AghState, AghTypeOK
<1>6. Stacked(bakResolv)' /\ Recover' /\ Taken(bakResolv)' = Taken(bakResolv)
  BY DEF AghState, Stacked, Recover, TopOf, Taken
<1>7. QED
  BY <1>4, <1>5, <1>6 DEF AghState, Free

LEMMA CopyYamlKeeps ==
    ASSUME AghInv, group = "adguard", CopyYaml \/ FillCopy
    PROVE  AghInv'
<1>1. /\ at \in {"copy_yaml", "fill_copy"} /\ at \in SetAt /\ at # "idle" /\ AghRun /\ AghState
      /\ UNCHANGED <<holder, stub, nm, host, mode, link, says, bakResolv, agh, yaml, stamp, smooth,
                     before, settled>>
  BY DEF CopyYaml, FillCopy, AghInv, SetAt
<1>2. CASE Exit("exception") /\ UNCHANGED bakYaml
  <2>1. AghState'
    BY <1>1, <1>2, AghStill DEF adguard
  <2>2. QED
    BY <1>1, <1>2, <2>1, AghEnd
<1>3. ASSUME NEW v \in {Torn, yaml}, NEW l \in {"fill_copy", "edit_yaml"},
             bakYaml' = [bakYaml EXCEPT ![stamp] = v], Goto(l)
      PROVE  AghInv'
  <2>1. v \in PortPair \cup {Torn}
    BY <1>1 DEF AghState, AghTypeOK
  <2>2. AghState'
    BY <1>1, <1>3, <2>1, BackedUpYaml
  <2>3. /\ at' = l /\ Belongs' /\ Carries' /\ AghSaid' /\ Backed' /\ Served' /\ Chosen'
        /\ Restartable'
    BY <1>1, <1>3, SetGoesOn DEF SetAt
  <2>4. Edited'
    BY <1>1, <2>3 DEF AghRun, Edited
  <2>5. QED
    BY <2>2, <2>3, <2>4 DEF AghInv, AghRun
<1>4. QED
  BY <1>2, <1>3 DEF CopyYaml, FillCopy

LEMMA EditYamlKeeps ==
    ASSUME AghInv, group = "adguard", EditYaml
    PROVE  AghInv'
<1>1. /\ at = "edit_yaml" /\ at \in SetAt /\ AghRun /\ AghState
      /\ UNCHANGED <<holder, stub, nm, host, mode, link, says, bakResolv, agh, bakYaml, stamp, before, settled>>
      /\ smooth' => smooth
  BY DEF EditYaml, AghInv, SetAt, Ignored
<1>2. PICK e \in BOOLEAN :
        /\ Remember("start_agh", [edited |-> e, ports |-> Asked, todo |-> {}])
        /\ e => yaml' = Asked
        /\ ~e => Ignored(req.cmd # "ports_set") /\ yaml' = yaml
  BY DEF EditYaml
<1>3. /\ Asked \in PortPair /\ req.cmd \in {"adguard_fix", "ports_set"}
      /\ req.cmd = "adguard_fix" => Asked = mem.ports
  BY <1>1, AskedTyped
<1>4. /\ at' = "start_agh" /\ said' = {} /\ UNCHANGED <<group, req, calm>>
      /\ "ports" \in DOMAIN mem' /\ "todo" \in DOMAIN mem' /\ mem'.ports = Asked /\ mem'.edited = e
  BY <1>2 DEF Remember
<1>5. yaml' \in PortPair \cup {Torn}
  BY <1>1, <1>2, <1>3 DEF AghState, AghTypeOK
<1>6. AghState'
  BY <1>1, <1>5, AghTouched DEF AghState, AghTypeOK
<1>7. Belongs'
  BY <1>1, <1>4 DEF AghRun, Belongs, AghAt, FixAt, SetAt, ResolvAt
<1>8. Carries'
  BY <1>3, <1>4 DEF Carries
<1>9. Asked' = Asked
  BY <1>4 DEF Asked
<1>10. Edited'
  <2>1. smooth' => ~agh'.up
    BY <1>1 DEF AghRun, Edited
  <2>2. ~e /\ req.cmd = "adguard_fix" => ~smooth'
    BY <1>2 DEF Ignored
  <2>3. QED
    BY <1>2, <1>4, <1>9, <2>1, <2>2 DEF Edited
<1>11. Chosen'
  BY <1>1, <1>3, <1>4 DEF AghRun, Chosen, Fits
<1>12. Served'
  BY <1>1, <1>4 DEF AghRun, Served
<1>13. Backed' /\ Restartable' /\ AghSaid'
  BY <1>4 DEF Backed, Restartable, AghSaid
<1>14. QED
  BY <1>6, <1>7, <1>8, <1>10, <1>11, <1>12, <1>13 DEF AghInv, AghRun

\* AGH as it starts: on ports that nobody has, and not with a torn yaml.
LEMMA StartedIsFree ==
    ASSUME AghState, NEW y \in PortPair \cup {Torn}
    PROVE  /\ Started(y) \in [up : BOOLEAN, ports : PortPair]
           /\ Started(y).up => Free(Started(y).ports, holder)
           /\ Restarted(y) \in [up : BOOLEAN, ports : PortPair]
           /\ Restarted(y).up => Free(Restarted(y).ports, holder)
           /\ y # Torn => Restarted(y).ports = y /\ (Restarted(y).up <=> Free(y, holder))
           /\ ~agh.up => Started(y) = Restarted(y)
           /\ Stopped(y) \in PortPair \cup {Torn}
<1>1. agh \in [up : BOOLEAN, ports : PortPair] /\ (agh.up => Free(agh.ports, holder))
  BY DEF AghState, AghTypeOK
<1>2. CASE y = Torn
  BY <1>1, <1>2 DEF Started, Restarted, Stopped
<1>3. CASE y # Torn
  <2>1. y \in PortPair /\ Restarted(y) = [up |-> Free(y, holder), ports |-> y]
    BY <1>3 DEF Restarted
  <2>2. Free(y, holder) \in BOOLEAN
    BY DEF Free
  <2>3. QED
    BY <1>1, <1>3, <2>1, <2>2 DEF Started, Stopped
<1>4. QED
  BY <1>2, <1>3

LEMMA StartAghKeeps ==
    ASSUME AghInv, group = "adguard", StartAgh
    PROVE  AghInv'
<1>1. /\ at = "start_agh" /\ at \in SetAt /\ AghRun /\ AghState
      /\ UNCHANGED <<holder, stub, nm, host, mode, link, says, bakResolv, yaml, bakYaml, stamp, before, settled>>
      /\ smooth' => smooth
  BY DEF StartAgh, AghInv, SetAt, Ignored
<1>2. \/ agh' = Started(yaml)
      \/ agh' = agh /\ ~smooth'
  BY DEF StartAgh, Ignored
<1>3. yaml \in PortPair \cup {Torn} /\ agh \in [up : BOOLEAN, ports : PortPair]
  BY <1>1 DEF AghState, AghTypeOK
<1>4. AghState'
  BY <1>1, <1>2, <1>3, StartedIsFree, AghTouched DEF AghState
<1>5. \E code : IF req.cmd = "ports_set" THEN Exit(code) ELSE Goto("restart_agh")
  BY DEF StartAgh, PortsDone, PortsFailed
<1>6. ASSUME req.cmd = "adguard_fix", smooth', host.root, settled
      PROVE  Fits(yaml')
  <2>1. mem.edited /\ yaml = Asked
    BY <1>1, <1>6 DEF AghRun, Edited
  <2>2. yaml' = mem.ports
    BY <1>1, <1>6, <2>1 DEF Asked
  <2>3. QED
    BY <1>1, <1>6, <2>2 DEF AghRun, Chosen
<1>7. QED
  BY <1>1, <1>4, <1>5, <1>6, SetIsDone

LEMMA RestartAghKeeps ==
    ASSUME AghInv, group = "adguard", RestartAgh
    PROVE  AghInv'
<1>1. /\ at = "restart_agh" /\ AghRun /\ AghState /\ Exit("ok")
      /\ UNCHANGED <<holder, stub, nm, host, mode, link, says, bakResolv, bakYaml, stamp, before, settled>>
      /\ smooth' => smooth
  BY DEF RestartAgh, AghInv, Ignored
<1>2. \/ yaml' = Stopped(yaml) /\ agh' = Restarted(Stopped(yaml))
      \/ UNCHANGED <<agh, yaml>>
  BY DEF RestartAgh
<1>3. yaml \in PortPair \cup {Torn} /\ agh \in [up : BOOLEAN, ports : PortPair] /\ Stopped(yaml) \in PortPair \cup {Torn}
  BY <1>1, StartedIsFree DEF AghState, AghTypeOK
<1>4. AghState'
  BY <1>1, <1>2, <1>3, StartedIsFree, AghTouched DEF AghState
<1>5. QED
  BY <1>1, <1>4, AghEnd

LEMMA ServiceKeeps ==
    ASSUME AghInv, group = "adguard", Service
    PROVE  AghInv'
<1>1. /\ at = "service" /\ AghRun /\ AghState /\ \E code : Exit(code)
      /\ UNCHANGED <<holder, stub, nm, host, mode, link, says, bakResolv, bakYaml, stamp, smooth, before, settled>>
  BY DEF Service, AghInv
<1>2. yaml \in PortPair \cup {Torn} /\ agh \in [up : BOOLEAN, ports : PortPair] /\ Stopped(yaml) \in PortPair \cup {Torn}
  BY <1>1, StartedIsFree DEF AghState, AghTypeOK
<1>3. CASE UNCHANGED <<agh, yaml>>
  <2>1. AghState'
    BY <1>1, <1>3, AghStill DEF adguard
  <2>2. QED
    BY <1>1, <2>1, AghEnd
<1>4. CASE req.action = "start" /\ yaml' = yaml /\ agh' = Started(yaml)
  <2>1. AghState'
    BY <1>1, <1>2, <1>4, StartedIsFree, AghTouched
  <2>2. QED
    BY <1>1, <2>1, AghEnd
<1>5. CASE req.action = "stop" /\ yaml' = Stopped(yaml) /\ agh' = [agh EXCEPT !.up = FALSE]
  <2>1. agh' \in [up : BOOLEAN, ports : PortPair] /\ ~agh'.up
    BY <1>2, <1>5
  <2>2. AghState'
    BY <1>1, <1>2, <1>5, <2>1, AghTouched
  <2>3. QED
    BY <1>1, <2>2, AghEnd
<1>6. CASE req.action = "restart" /\ yaml' = Stopped(yaml) /\ agh' = Restarted(Stopped(yaml))
  <2>1. AghState'
    BY <1>1, <1>2, <1>6, StartedIsFree, AghTouched
  <2>2. QED
    BY <1>1, <2>1, AghEnd
<1>7. req.action \in {"start", "stop", "restart"}
  BY <1>1 DEF AghRun, Belongs
<1>8. QED
  BY <1>3, <1>4, <1>5, <1>6, <1>7 DEF Service

LEMMA RollYamlKeeps ==
    ASSUME AghInv, group = "adguard", RollYaml \/ FillYaml
    PROVE  AghInv'
<1>1. /\ at \in {"roll_yaml", "fill_yaml"} /\ at # "idle" /\ AghRun /\ AghState
      /\ UNCHANGED <<holder, stub, nm, host, mode, link, says, bakResolv, agh, bakYaml, stamp, smooth,
                     before, settled>>
  BY DEF RollYaml, FillYaml, AghInv
<1>2. yaml' \in PortPair \cup {Torn}
  <2>1. CASE yaml' \in {yaml, Torn}
    BY <1>1, <2>1 DEF AghState, AghTypeOK
  <2>2. CASE FillYaml /\ yaml' = bakYaml[Newest(bakYaml)]
    <3>1. Taken(bakYaml) # {}
      BY <1>1, <2>2 DEF FillYaml, AghRun, Belongs
    <3>2. PICK t \in AghStamp : TopOf(bakYaml, t)
      BY <1>1, <3>1 DEF AghState, Stacked
    <3>3. yaml' = bakYaml[t] /\ bakYaml[t] # None
      BY <2>2, <3>2, TopIsNewest DEF Taken
    <3>4. QED
      BY <1>1, <3>3 DEF AghState, AghTypeOK
  <2>3. QED
    BY <2>1, <2>2 DEF RollYaml, FillYaml
<1>3. AghState'
  BY <1>1, <1>2, AghTouched DEF AghState, AghTypeOK
<1>4. CASE Exit("exception")
  BY <1>1, <1>3, <1>4, AghEnd
<1>5. ASSUME NEW l \in {"fill_yaml", "roll_resolv"}, at' = l, said' = {}, UNCHANGED <<group, req, calm>>,
             l = "fill_yaml" => Taken(bakYaml) # {}
      PROVE  AghInv'
  <2>1. req.cmd = "rollback" /\ Taken(bakYaml)' = Taken(bakYaml)
    BY <1>1 DEF AghRun, Belongs, Taken
  <2>2. Belongs'
    BY <1>5, <2>1 DEF Belongs, AghAt, FixAt, SetAt, ResolvAt
  <2>3. Carries' /\ Backed' /\ Served' /\ Chosen' /\ AghSaid'
    BY <1>5 DEF Carries, Backed, Served, Chosen, AghSaid, SetAt, ResolvAt
  <2>4. Edited' /\ Restartable'
    BY <1>5 DEF Edited, Restartable
  <2>5. QED
    BY <1>3, <2>2, <2>3, <2>4 DEF AghInv, AghRun
<1>6. QED
  BY <1>4, <1>5 DEF RollYaml, FillYaml, Goto, Remember

LEMMA RollResolvKeeps ==
    ASSUME AghInv, group = "adguard", RollResolv
    PROVE  AghInv'
<1>1. /\ at = "roll_resolv" /\ AghRun /\ AghState /\ \E code : Exit(code)
      /\ UNCHANGED <<holder, stub, nm, host, mode, bakResolv, agh, yaml, bakYaml, stamp, before, settled>>
  BY DEF RollResolv, AghInv
<1>2. CASE UNCHANGED <<link, says>> /\ (smooth' => smooth)
  <2>1. AghState'
    BY <1>1, <1>2, AghTouched DEF AghState, AghTypeOK
  <2>2. QED
    BY <1>1, <2>1, AghEnd
<1>3. CASE /\ Taken(bakResolv) # {}
           /\ link' = IF link = None THEN "file" ELSE link
           /\ says' = [says EXCEPT ![link'] = bakResolv[Newest(bakResolv)]]
  <2>1. PICK t \in AghStamp : TopOf(bakResolv, t)
    BY <1>1, <1>3 DEF AghState, Stacked
  <2>2. says' = [says EXCEPT ![link'] = bakResolv[t]] /\ bakResolv[t] \in Server
    BY <1>1, <1>3, <2>1, TopIsNewest DEF Taken, AghState, AghTypeOK
  <2>3. link' \in {"file", "stub_link", "run_link"}
    BY <1>1, <1>3 DEF AghState, AghTypeOK
  <2>4. AghTypeOK'
    BY <1>1, <2>2, <2>3 DEF AghState, AghTypeOK
  <2>5. Recover'
    BY <2>3, AghNoneAssumption DEF Recover
  <2>6. host.resolved
    BY <1>1, <1>3 DEF AghState
  <2>7. host.bound => link' = "file"
    BY <1>1, <1>3, AghNoneAssumption DEF AghState
  <2>8. AghState'
    BY <1>1, <2>4, <2>5, <2>6, <2>7, StackedStill DEF AghState, Free
  <2>9. QED
    BY <1>1, <2>8, AghEnd
<1>4. QED
  BY <1>2, <1>3 DEF RollResolv, Ignored

LEMMA LinkEventKeeps ==
    ASSUME AghInv, group = "adguard", LinkEvent
    PROVE  AghInv'
<1>1. /\ said' = {} /\ UNCHANGED <<group, at, req, mem>> /\ ~calm' /\ AghRun /\ AghState
      /\ link' = "file" /\ says' = [says EXCEPT !["file"] = "network"]
      /\ UNCHANGED <<holder, stub, nm, host, mode, bakResolv, agh, yaml, bakYaml, stamp, smooth, before, settled>>
  <2>1. calm' = FALSE
    BY DEF LinkEvent, Outside
  <2>2. QED
    BY <2>1 DEF LinkEvent, Outside, AghInv
<1>2. AghTypeOK' /\ says'["file"] = "network"
  BY <1>1 DEF AghState, AghTypeOK, Server
<1>3. Recover'
  BY <1>1, AghNoneAssumption DEF Recover
<1>4. AghState'
  BY <1>1, <1>2, <1>3, StackedStill DEF AghState, Free
<1>5. Belongs' /\ Carries'
  BY <1>1 DEF AghRun, Belongs, Carries, Taken
<1>6. Backed'
  BY <1>1 DEF AghRun, Backed, AghState, AghTypeOK
<1>7. Asked' = Asked
  BY <1>1 DEF Asked
<1>8. Edited' /\ Chosen' /\ Restartable'
  BY <1>1, <1>7 DEF AghRun, Edited, Chosen, Restartable, Fits
<1>9. QED
  BY <1>1, <1>4, <1>5, <1>6, <1>8 DEF AghInv, AghRun, Served, AghSaid

\* A port that a unit lets go of fits; one that it takes unsettles.
LEMMA UnitMovesKeeps ==
    ASSUME AghInv, group = "adguard", UnitMoves
    PROVE  AghInv'
<1>1. /\ said' = {} /\ UNCHANGED <<group, at, req, mem>> /\ ~calm' /\ AghRun /\ AghState
      /\ UNCHANGED <<stub, nm, host, mode, link, says, bakResolv, agh, yaml, bakYaml, stamp, smooth, before>>
  <2>1. calm' = FALSE
    BY DEF UnitMoves, Outside
  <2>2. QED
    BY <2>1 DEF UnitMoves, Outside, AghInv
<1>2. PICK p \in Contested :
        \/ /\ holder[p] = None
           /\ agh.up => p \notin {agh.ports.dns, agh.ports.http}
           /\ holder' = [holder EXCEPT ![p] = "other"]
           /\ settled' = FALSE
        \/ /\ holder' = [holder EXCEPT ![p] = None]
           /\ UNCHANGED settled
  BY DEF UnitMoves
<1>3. p \in TargetPort /\ holder \in [TargetPort -> Unit \cup {None}]
  BY <1>1, AghPortsAssumption DEF TargetPort, AghPort, AghState, AghTypeOK
<1>4. /\ holder' \in [TargetPort -> Unit \cup {None}]
      /\ \A q \in TargetPort : q # p => holder'[q] = holder[q]
      /\ settled' => settled /\ holder'[p] = None
  <2>1. CASE holder' = [holder EXCEPT ![p] = "other"] /\ settled' = FALSE
    BY <1>3, <2>1 DEF Unit
  <2>2. CASE holder' = [holder EXCEPT ![p] = None] /\ settled' = settled
    BY <1>3, <2>2
  <2>3. QED
    BY <1>2, <2>1, <2>2
<1>5. agh.up => Free(agh.ports, holder')
  <2>1. agh.ports.dns \in TargetPort /\ agh.ports.http \in TargetPort
    BY <1>1, AghPortsTyped DEF AghState, AghTypeOK, PortPair
  <2>2. agh.up => p \notin {agh.ports.dns, agh.ports.http} \/ holder'[p] = None
    BY <1>2, <1>3
  <2>3. QED
    BY <1>1, <1>4, <2>1, <2>2 DEF AghState, Free
<1>6. AghTypeOK'
  BY <1>1, <1>4 DEF AghState, AghTypeOK
<1>7. Stacked(bakResolv)' /\ Stacked(bakYaml)' /\ Recover'
  BY <1>1, StackedStill DEF AghState, Recover, TopOf, Taken
<1>8. AghState'
  BY <1>1, <1>5, <1>6, <1>7, StackedStill DEF AghState
<1>9. ASSUME NEW y \in PortPair, Fits(y), settled' PROVE Fits(y)'
  BY <1>4, <1>9, AghPortsTyped DEF Fits, PortPair
<1>10. Belongs' /\ Carries' /\ Backed'
  BY <1>1 DEF AghRun, Belongs, Carries, Backed, Taken
<1>11. Edited'
  BY <1>1 DEF AghRun, Edited, Asked
<1>12. Chosen'
  <2>1. SUFFICES ASSUME at \in SetAt, req.cmd = "adguard_fix", host.root, settled'
                 PROVE  Fits(mem.ports)'
    BY <1>1 DEF Chosen
  <2>2. mem.ports \in PortPair /\ Fits(mem.ports)
    BY <1>1, <1>4, <2>1 DEF AghRun, Carries, Chosen
  <2>3. QED
    BY <1>1, <1>9, <2>1, <2>2 DEF Fits
<1>13. Restartable'
  <2>1. SUFFICES ASSUME at = "restart_agh", smooth, host.root, settled', ~agh.up, yaml # Torn
                 PROVE  Fits(yaml)'
    BY <1>1 DEF Restartable
  <2>2. yaml \in PortPair /\ Fits(yaml)
    BY <1>1, <1>4, <2>1 DEF AghRun, Restartable, AghState, AghTypeOK
  <2>3. QED
    BY <1>1, <1>9, <2>1, <2>2 DEF Fits
<1>14. QED
  BY <1>1, <1>8, <1>10, <1>11, <1>12, <1>13 DEF AghInv, AghRun, Served, AghSaid

LEMMA SecondPassesKeeps ==
    ASSUME AghInv, group = "adguard", SecondPasses
    PROVE  AghInv'
<1>1. /\ at = "idle" /\ at' = at /\ said' = {} /\ UNCHANGED group /\ AghState
      /\ stamp < MaxStamp /\ stamp' = stamp + 1
      /\ UNCHANGED <<holder, stub, nm, host, mode, link, says, bakResolv, agh, yaml, bakYaml, smooth, before, settled>>
  BY DEF SecondPasses, Idle, Elapses, AghInv
<1>2. stamp' \in AghStamp
  BY <1>1, AghPortsAssumption DEF AghState, AghStamp
<1>3. ASSUME NEW bak, Stacked(bak)
      PROVE  \A t \in Taken(bak) : t <= stamp'
  BY <1>1, <1>3, AghPortsAssumption DEF Stacked, Taken, AghState, AghStamp
<1>4. Stacked(bakResolv)' /\ Stacked(bakYaml)' /\ Taken(bakResolv)' = Taken(bakResolv)
  BY <1>1, <1>3 DEF AghState, Stacked, TopOf, Taken
<1>5. Recover' /\ AghTypeOK'
  BY <1>1 DEF AghState, AghTypeOK, Recover, TopOf, Taken
<1>6. AghState'
  BY <1>1, <1>2, <1>4, <1>5 DEF AghState, Free
<1>7. QED
  BY <1>1, <1>6, AghAtRest DEF AghSaid

LEMMA AghNextKeeps ==
    ASSUME AghInv, group = "adguard", AghNext
    PROVE  AghInv'
<1>1. CASE AskFixPorts \/ AskPortsSet \/ AskRollbackAgh \/ AskService
  BY <1>1, AghAskKeeps
<1>2. CASE ScanPorts \/ StubOff \/ BackUpResolv \/ RmResolv \/ LnResolv \/ StaticResolv \/ ManageNetwork
  BY <1>2, ScanPortsKeeps, StubOffKeeps, BackUpResolvKeeps, RmResolvKeeps, LnResolvKeeps,
     StaticResolvKeeps, ManageNetworkKeeps
<1>3. CASE \/ StopUnit \/ CleanupOnly \/ Rescan \/ ByApi \/ StopAgh \/ CopyYaml \/ FillCopy
           \/ EditYaml \/ StartAgh
  BY <1>3, StopUnitKeeps, CleanupOnlyKeeps, RescanKeeps, ByApiKeeps, StopAghKeeps, CopyYamlKeeps, EditYamlKeeps,
     StartAghKeeps
<1>4. CASE RestartAgh \/ Service \/ RollYaml \/ FillYaml \/ RollResolv
  BY <1>4, RestartAghKeeps, ServiceKeeps, RollYamlKeeps, RollResolvKeeps
<1>5. CASE AghKill
  <2>1. at # "idle" /\ Ends({}) /\ UNCHANGED adguard /\ AghRun /\ AghState
    BY <1>5 DEF AghKill, Killed, Idle, AghInv
  <2>2. QED
    BY <2>1, AghStill, AghEnd
<1>6. CASE LinkEvent \/ UnitMoves \/ SecondPasses
  BY <1>6, LinkEventKeeps, UnitMovesKeeps, SecondPassesKeeps
<1>7. QED
  BY <1>1, <1>2, <1>3, <1>4, <1>5, <1>6 DEF AghNext, AghStep

\* Nothing is said, or not that something worked, or by a dry run, or of what the
\* reports are not about.
LEMMA AghSaysNoSuccess ==
    ASSUME \/ said' = {}
           \/ \E code : code # "ok" /\ Exit(code)
           \/ \E code : Exit(code) /\ (req.dry \/ req.cmd \notin {"ports_set", "adguard_fix"})
    PROVE  AghReportsHold'
BY DEF Exit, Ends, Ended, AghReportsHold, PortsSetTake, FixFrees, FixedResolvServes

LEMMA PortsSetReports ==
    ASSUME Exit("ok"), req.cmd = "ports_set",
           smooth' => yaml' = req.ports /\ (agh'.up => agh'.ports = req.ports)
    PROVE  AghReportsHold'
<1>1. said' = {[req |-> req, exit |-> "ok", calm |-> calm, mem |-> mem]}
  BY DEF Exit, Ends
<1>2. QED
  BY <1>1 DEF Ended, AghReportsHold, PortsSetTake, FixFrees, FixedResolvServes

LEMMA FixReports ==
    ASSUME Exit("ok"), req.cmd = "adguard_fix",
           (smooth' /\ settled' /\ host'.root /\ yaml' # Torn /\ req.flag # "cleanup_only") =>
               \/ agh'.up /\ Free(agh'.ports, holder') /\ agh'.ports = yaml'
               \/ yaml'.dns = RemapDns /\ holder'[RemapDns] # None
               \/ yaml'.http = RemapHttp /\ holder'[RemapHttp] # None,
           (smooth' /\ calm /\ req.flag # "remap_only") => link' # None /\ says'[link'] # "stub"
    PROVE  AghReportsHold'
<1>1. said' = {[req |-> req, exit |-> "ok", calm |-> calm, mem |-> mem]}
  BY DEF Exit, Ends
<1>2. PortsSetTake'
  BY <1>1 DEF Ended, PortsSetTake
<1>3. FixFrees'
  BY <1>1 DEF Ended, FixFrees, Free
<1>4. FixedResolvServes'
  BY <1>1 DEF Ended, FixedResolvServes
<1>5. QED
  BY <1>2, <1>3, <1>4 DEF AghReportsHold

\* What adguard says of a step it has just taken holds in the new state.
LEMMA AghReportsStep ==
    ASSUME AghInv, group = "adguard", AghNext
    PROVE  AghReportsHold'
<1>1. CASE \/ AskFixPorts \/ AskPortsSet \/ AskRollbackAgh \/ AskService
           \/ AghKill \/ LinkEvent \/ UnitMoves \/ SecondPasses
  <2>1. said' = {}
    BY <1>1 DEF AskFixPorts, AskPortsSet, AskRollbackAgh, AskService, Ask, Starts, Refused,
       AghKill, Killed, Ends, LinkEvent, UnitMoves, Outside, SecondPasses, Elapses
  <2>2. QED
    BY <2>1, AghSaysNoSuccess
<1>2. CASE StubOff \/ BackUpResolv \/ RmResolv \/ LnResolv \/ StaticResolv \/ ManageNetwork
  <2>1. said' = {}
    BY <1>2 DEF StubOff, BackUpResolv, RmResolv, LnResolv, StaticResolv, ManageNetwork, Goto, Remember
  <2>2. QED
    BY <2>1, AghSaysNoSuccess
<1>3. CASE \/ StopUnit \/ Rescan \/ StopAgh \/ CopyYaml \/ FillCopy \/ EditYaml \/ RollYaml
           \/ FillYaml
  <2>1. said' = {} \/ Exit("exception")
    BY <1>3 DEF StopUnit, Rescan, StopAgh, CopyYaml, FillCopy, EditYaml, RollYaml, FillYaml, Goto,
       Remember
  <2>2. QED
    BY <2>1, AghSaysNoSuccess
<1>4. CASE ScanPorts
  <2>1. said' = {} \/ (Exit("ok") /\ req.dry) \/ Exit("exception")
    BY <1>4 DEF ScanPorts, Remember
  <2>2. QED
    BY <2>1, AghSaysNoSuccess
<1>5. CASE CleanupOnly
  <2>1. /\ at = "units" /\ UNCHANGED adguard /\ req.cmd = "adguard_fix" /\ req.flag = "cleanup_only"
        /\ Exit("ok")
    BY <1>5 DEF CleanupOnly, AghInv, AghRun, Belongs, FixAt
  <2>2. (smooth /\ calm /\ req.flag # "remap_only") => link # None /\ says[link] # "stub"
    BY <2>1 DEF AghInv, AghRun, Served
  <2>3. QED
    BY <2>1, <2>2, FixReports DEF adguard
<1>6. CASE ByApi
  <2>1. at = "ports_set" /\ AghRun /\ AghState
    BY <1>6 DEF ByApi, AghInv
  <2>2. CASE said' = {} \/ (req.dry /\ Exit("ok"))
    BY <2>2, AghSaysNoSuccess
  <2>3. CASE req.cmd = "ports_set" /\ Exit("ok") /\ agh' = [agh EXCEPT !.ports = Asked] /\ yaml' = Asked
    <3>1. yaml' = req.ports /\ agh'.ports = req.ports
      BY <2>1, <2>3 DEF AghState, AghTypeOK, Asked
    <3>2. QED
      BY <2>3, <3>1, PortsSetReports
  <2>4. QED
    BY <1>6, <2>2, <2>3 DEF ByApi, PortsDone, Goto, Remember
<1>7. CASE StartAgh
  <2>1. at = "start_agh" /\ AghRun /\ AghState /\ yaml' = yaml
    BY <1>7 DEF StartAgh, AghInv
  <2>2. CASE said' = {} \/ Exit("fail")
    BY <2>2, AghSaysNoSuccess
  <2>3. CASE mem.edited /\ req.cmd = "ports_set" /\ Exit("ok")
    <3>1. yaml = req.ports /\ (smooth => ~agh.up) /\ yaml \in PortPair /\ yaml # Torn
      BY <2>1, <2>3, AghNoneAssumption DEF AghRun, Belongs, SetAt, Edited, Asked, AghState, AghTypeOK
    <3>2. smooth' => smooth /\ agh' = Started(yaml)
      BY <1>7 DEF StartAgh, Ignored
    <3>3. smooth' => agh'.ports = yaml
      BY <2>1, <3>1, <3>2, StartedIsFree
    <3>4. QED
      BY <2>1, <2>3, <3>1, <3>3, PortsSetReports
  <2>4. QED
    BY <1>7, <2>2, <2>3 DEF StartAgh, PortsDone, PortsFailed, Goto, Remember
<1>8. CASE RestartAgh
  <2>1. /\ at = "restart_agh" /\ AghRun /\ AghState /\ Exit("ok")
        /\ UNCHANGED <<holder, host, link, says, settled>>
        /\ smooth' => smooth /\ yaml' = Stopped(yaml) /\ agh' = Restarted(Stopped(yaml))
    BY <1>8 DEF RestartAgh, AghInv, Ignored
  <2>2. req.cmd = "adguard_fix"
    BY <2>1 DEF AghRun, Belongs, FixAt
  <2>3. (smooth' /\ calm /\ req.flag # "remap_only") => link' # None /\ says'[link'] # "stub"
    BY <2>1, <2>2 DEF AghRun, Served
  <2>4. ASSUME smooth', host.root, settled, yaml' # Torn
        PROVE  \/ agh'.up /\ Free(agh'.ports, holder) /\ agh'.ports = yaml'
               \/ yaml'.dns = RemapDns /\ holder[RemapDns] # None
               \/ yaml'.http = RemapHttp /\ holder[RemapHttp] # None
    <3>1. /\ yaml' \in PortPair /\ yaml' = Stopped(yaml)
          /\ agh'.ports = yaml' /\ (agh'.up <=> Free(yaml', holder))
      BY <2>1, <2>4, StartedIsFree DEF AghState, AghTypeOK
    <3>2. CASE agh.up
      BY <2>1, <2>4, <3>1, <3>2 DEF Stopped, AghState
    <3>3. CASE ~agh.up
      <4>1. yaml' = yaml /\ Fits(yaml)
        BY <2>1, <2>4, <3>1, <3>3 DEF Stopped, AghRun, Restartable
      <4>2. QED
        BY <3>1, <4>1 DEF Fits, Free
    <3>4. QED
      BY <3>2, <3>3
  <2>5. QED
    BY <2>1, <2>2, <2>3, <2>4, FixReports
<1>9. CASE Service \/ RollResolv
  <2>1. req.cmd \in {"service", "rollback"}
    BY <1>9 DEF Service, RollResolv, AghInv, AghRun, Belongs
  <2>2. \E code : Exit(code)
    BY <1>9 DEF Service, RollResolv
  <2>3. QED
    BY <2>1, <2>2, AghSaysNoSuccess
<1>10. QED
  BY <1>1, <1>2, <1>3, <1>4, <1>5, <1>6, <1>7, <1>8, <1>9 DEF AghNext, AghStep

LEMMA RecoverIsRecoverable == AghInv => ResolvRecoverable
<1> SUFFICES ASSUME AghInv, link = None, before # None, smooth
             PROVE  Taken(bakResolv) # {} /\ bakResolv[Newest(bakResolv)] = before
  BY DEF ResolvRecoverable
<1>1. PICK t \in AghStamp : TopOf(bakResolv, t) /\ bakResolv[t] = before
  BY DEF AghInv, AghState, Recover
<1>2. QED
  BY <1>1, TopIsNewest
-----------------------------------------------------------------------------
(***************************************************************************)
(* The three together.                                                     *)
(***************************************************************************)
ServicesInv ==
    /\ group \in {"adguard", "docker", "ports"}
    /\ AghInv /\ CleanInv /\ PortsInv

LEMMA ServicesInitially == ServicesInit => ServicesInv
BY AghInitially, CleanInitially, PortsInitially DEF ServicesInit, ServicesInv

\* Each label is of one group of commands.
LEMMA LabelsApart ==
    ASSUME ServicesInv
    PROVE  /\ at \in AghAt => group = "adguard"
           /\ at \in CleanAt => group = "docker"
           /\ at \in PortsAt => group = "ports"
<1> USE DEF AghAt, FixAt, SetAt, ResolvAt, CleanAt, PortsAt
<1>1. CASE group = "adguard"
  BY <1>1 DEF ServicesInv, AghInv, AghRun, Belongs
<1>2. CASE group = "docker"
  BY <1>2 DEF ServicesInv, CleanInv, CleanRun
<1>3. CASE group = "ports"
  BY <1>3 DEF ServicesInv, PortsInv, PortsRun
<1>4. QED
  BY <1>1, <1>2, <1>3 DEF ServicesInv

LEMMA AghIsItself ==
    ASSUME ServicesInv, AghNext
    PROVE  group = "adguard" /\ group' = group
<1>1. CASE \/ AskFixPorts \/ AskPortsSet \/ AskRollbackAgh \/ AskService
           \/ AghKill \/ LinkEvent \/ UnitMoves \/ SecondPasses
  BY <1>1 DEF AskFixPorts, AskPortsSet, AskRollbackAgh, AskService, Ask, Starts, Refused,
     AghKill, Killed, Ends, LinkEvent, UnitMoves, Outside, SecondPasses, Elapses
<1>2. CASE AghStep
  <2>1. at \in AghAt
    BY <1>2 DEF AghStep, ScanPorts, StubOff, BackUpResolv, RmResolv, LnResolv, StaticResolv,
       ManageNetwork, StopUnit, CleanupOnly, Rescan, ByApi, StopAgh, CopyYaml, FillCopy, EditYaml,
       StartAgh, RestartAgh, Service, RollYaml, FillYaml, RollResolv, AghAt, FixAt, SetAt, ResolvAt
  <2>2. (StubOff \/ BackUpResolv \/ RmResolv \/ LnResolv \/ StaticResolv \/ ManageNetwork) => group' = group
    BY DEF StubOff, BackUpResolv, RmResolv, LnResolv, StaticResolv, ManageNetwork, Goto, Remember
  <2>3. (ScanPorts \/ StopUnit \/ CleanupOnly \/ Rescan \/ RestartAgh \/ Service) => group' = group
    BY DEF ScanPorts, StopUnit, CleanupOnly, Rescan, RestartAgh, Service, Exit, Ends, Goto, Remember
  <2>4. (ByApi \/ StopAgh \/ CopyYaml \/ FillCopy \/ EditYaml \/ StartAgh) => group' = group
    BY DEF ByApi, StopAgh, CopyYaml, FillCopy, EditYaml, StartAgh, PortsDone, PortsFailed,
       Exit, Ends, Goto, Remember
  <2>5. (RollYaml \/ FillYaml \/ RollResolv) => group' = group
    BY DEF RollYaml, FillYaml, RollResolv, Exit, Ends, Goto, Remember
  <2>6. QED
    BY <1>2, <2>1, <2>2, <2>3, <2>4, <2>5, LabelsApart DEF AghStep
<1>3. QED
  BY <1>1, <1>2 DEF AghNext

LEMMA CleanIsItself ==
    ASSUME ServicesInv, CleanNext
    PROVE  group = "docker" /\ group' = group
<1>1. CASE \/ AskAtOnce \/ AskPruning \/ AskComposeDown \/ AskRestart \/ AskSchedule
           \/ ScheduleFires \/ CleanKill \/ DaemonMoves \/ DaemonDies \/ StartsContainer
  BY <1>1 DEF AskAtOnce, AskPruning, AskComposeDown, AskRestart, AskSchedule, ScheduleFires,
     Ask, Starts, Refused, CleanKill, Killed, Ends, DaemonMoves, DaemonDies, StartsContainer,
     Elapses, Outside
<1>2. CASE CleanStep
  <2>1. at \in CleanAt
    BY <1>2 DEF CleanStep, Parse, EmitSchedule, Boot, NoToken, List, Each, EachDone, Prune,
       PruneBuilders, EmitSteps, ComposeDown, Restart, Poll, CleanAt
  <2>2. (Parse \/ EmitSchedule \/ Boot \/ NoToken \/ List \/ EmitSteps) => group' = group
    BY DEF Parse, EmitSchedule, Boot, NoToken, List, EmitSteps, Exit, Ends, Goto, Remember
  <2>3. (Each \/ EachDone \/ Prune \/ PruneBuilders) => group' = group
    BY DEF Each, EachDone, Prune, PruneBuilders, Stepped, Remember
  <2>4. (ComposeDown \/ Restart \/ Poll) => group' = group
    BY DEF ComposeDown, Restart, Poll, Exit, Ends, Remember
  <2>5. QED
    BY <1>2, <2>1, <2>2, <2>3, <2>4, LabelsApart DEF CleanStep
<1>3. QED
  BY <1>1, <1>2 DEF CleanNext

LEMMA PortsIsItself ==
    ASSUME ServicesInv, PortsNext
    PROVE  group = "ports" /\ group' = group
<1>1. CASE AskKill \/ PortsKilled \/ Spawns \/ Dies \/ Recycled \/ InitListens
  BY <1>1 DEF AskKill, Starts, PortsKilled, Killed, Ends, Spawns, Dies, Recycled, InitListens,
     Aside, Elapses, Outside
<1>2. CASE Answer \/ PortsStep
  <2>1. at \in PortsAt
    BY <1>2 DEF PortsStep, ListShown, Answer, ListAgain, Signal, Sent, PortsAt
  <2>2. Killed => group' = group
    BY DEF Killed, Ends
  <2>3. \A code : Exit(code) => group' = group
    BY DEF Exit, Ends
  <2>4. \A label, value : Remember(label, value) => group' = group
    BY DEF Remember
  <2>5. (ListShown \/ Answer \/ ListAgain \/ Sent) => group' = group
    BY ONLY <2>3, <2>4, Zenon DEF ListShown, Answer, ListAgain, Sent, Goto
  <2>6. Signal => group' = group
    BY ONLY <2>2, <2>4, Zenon DEF Signal
  <2>7. group' = group
    BY ONLY <1>2, <2>5, <2>6, Zenon DEF PortsStep
  <2>8. group = "ports"
    BY ONLY ServicesInv, <2>1, LabelsApart, Zenon
  <2>9. QED
    BY ONLY <2>7, <2>8, Zenon
<1>3. QED
  BY <1>1, <1>2 DEF PortsNext

\* A tool that is not in use stays as it was.
LEMMA AghAside ==
    ASSUME AghInv, group # "adguard", UNCHANGED <<group, adguard>>
    PROVE  AghInv'
BY AghStill DEF AghInv

LEMMA CleanAside ==
    ASSUME CleanInv, group # "docker", UNCHANGED <<group, docker>>
    PROVE  CleanInv'
BY DEF CleanInv, CleanState, docker

LEMMA PortsAside ==
    ASSUME PortsInv, group # "ports", UNCHANGED <<group, ports>>
    PROVE  PortsInv'
BY DEF PortsInv, PortsState, ports

LEMMA ServicesStill ==
    ASSUME ServicesInv, UNCHANGED ServicesVars
    PROVE  ServicesInv'
<1>1. UNCHANGED <<proc, adguard, docker, ports>>
  BY DEF ServicesVars
<1>2. UNCHANGED <<group, at, req, mem, said, calm>>
  BY <1>1 DEF proc
<1>3. AghInv'
  <2>1. AghState'
    BY <1>1, AghStill DEF ServicesInv, AghInv
  <2>2. UNCHANGED <<holder, host, link, says, bakResolv, bakYaml, agh, yaml, stamp, smooth, settled>>
    BY <1>1 DEF adguard
  <2>3. Asked' = Asked
    BY <1>2 DEF Asked
  <2>4. group = "adguard" => AghRun'
    <3>1. SUFFICES ASSUME AghRun PROVE AghRun'
      BY DEF ServicesInv, AghInv
    <3>2. Belongs'
      BY <3>1, <1>2, <2>2 DEF AghRun, Belongs
    <3>3. Carries' /\ AghSaid'
      BY <3>1, <1>2 DEF AghRun, Carries, AghSaid
    <3>4. Backed' /\ Served'
      BY <3>1, <1>2, <2>2 DEF AghRun, Backed, Served
    <3>5. Edited'
      BY <3>1, <1>2, <2>2, <2>3 DEF AghRun, Edited
    <3>6. Chosen' /\ Restartable'
      BY <3>1, <1>2, <2>2 DEF AghRun, Chosen, Restartable, Fits
    <3>7. QED
      BY <3>2, <3>3, <3>4, <3>5, <3>6 DEF AghRun
  <2>5. QED
    BY <1>2, <2>1, <2>4 DEF AghInv
<1>4. CleanInv'
  <2>1. CleanState'
    BY <1>1 DEF ServicesInv, CleanInv, CleanState, docker
  <2>2. group = "docker" => CleanRun'
    BY <1>1, <1>2 DEF ServicesInv, CleanInv, CleanRun, InSteps, InPoll, CleanedSoFar, Step,
       Existing, docker
  <2>3. QED
    BY <1>2, <2>1, <2>2 DEF CleanInv
<1>5. PortsInv'
  <2>1. PortsState'
    BY <1>1 DEF ServicesInv, PortsInv, PortsState, ports
  <2>2. group = "ports" => PortsRun'
    BY <1>1, <1>2 DEF ServicesInv, PortsInv, PortsRun, ShownIsListed, SignalsSoFar, Rows, Seen, ports
  <2>3. QED
    BY <1>2, <2>1, <2>2 DEF PortsInv
<1>6. QED
  BY <1>2, <1>3, <1>4, <1>5 DEF ServicesInv

LEMMA ServicesNextKeeps ==
    ASSUME ServicesInv, ServicesNext
    PROVE  ServicesInv'
<1>1. CASE AghNext /\ UNCHANGED <<docker, ports>>
  <2>1. group = "adguard" /\ group' = group
    BY <1>1, AghIsItself
  <2>2. QED
    BY <1>1, <2>1, AghNextKeeps, CleanAside, PortsAside DEF ServicesInv
<1>2. CASE CleanNext /\ UNCHANGED <<adguard, ports>>
  <2>1. group = "docker" /\ group' = group
    BY <1>2, CleanIsItself
  <2>2. QED
    BY <1>2, <2>1, CleanNextKeeps, AghAside, PortsAside DEF ServicesInv
<1>3. CASE PortsNext /\ UNCHANGED <<adguard, docker>>
  <2>1. group = "ports" /\ group' = group
    BY <1>3, PortsIsItself
  <2>2. QED
    BY <1>3, <2>1, PortsNextKeeps, AghAside, CleanAside DEF ServicesInv
<1>4. QED
  BY <1>1, <1>2, <1>3 DEF ServicesNext

THEOREM ServicesInvariance == ServicesSpec => []ServicesInv
<1>1. ServicesInit => ServicesInv
  BY ServicesInitially
<1>2. ServicesInv /\ [ServicesNext]_ServicesVars => ServicesInv'
  BY ServicesNextKeeps, ServicesStill
<1>3. QED
  BY <1>1, <1>2, PTL DEF ServicesSpec

\* What the reports are about, none of which another tool says anything of.
Reports == AghReportsHold /\ CleanReportsHold /\ SentToHolders

LEMMA ReportsInitially == CliInit => Reports
BY DEF CliInit, Reports, AghReportsHold, PortsSetTake, FixFrees, FixedResolvServes,
   CleanReportsHold, CleanedOut, PruneFailsAloud, RestartedIsUp, SentToHolders, Ended

LEMMA OthersSay ==
    /\ (\A s \in said : s.req.cmd \notin {"ports_set", "adguard_fix"}) => AghReportsHold
    /\ (\A s \in said : s.req.cmd \notin {"quick", "nuke", "prune_images", "prune_volumes",
                                          "prune_networks", "restart"}) => CleanReportsHold
    /\ (\A s \in said : s.req.cmd # "kill") => SentToHolders
<1>1. (\A s \in said : s.req.cmd \notin {"ports_set", "adguard_fix"}) => AghReportsHold
  BY DEF Ended, AghReportsHold, PortsSetTake, FixFrees, FixedResolvServes
<1>2. (\A s \in said : s.req.cmd \notin {"quick", "nuke", "prune_images", "prune_volumes",
                                         "prune_networks", "restart"}) => CleanReportsHold
  BY DEF Ended, CleanReportsHold, CleanedOut, PruneFailsAloud, RestartedIsUp
<1>3. (\A s \in said : s.req.cmd # "kill") => SentToHolders
  BY DEF SentToHolders
<1>4. QED
  BY <1>1, <1>2, <1>3

LEMMA SaidOf ==
    ASSUME ServicesInv
    PROVE  /\ group = "adguard" => \A s \in said : s.req.cmd \in AghCmd
           /\ group = "docker" => \A s \in said : s.req.cmd \in CleanCmd
           /\ group = "ports" => \A s \in said : s.req.cmd = "kill"
BY DEF ServicesInv, AghInv, AghRun, AghSaid, CleanInv, CleanRun, PortsInv, PortsRun

\* The tools that are not in use say nothing that could be wrong.
Quiet ==
    /\ group # "adguard" => AghReportsHold
    /\ group # "docker" => CleanReportsHold
    /\ group # "ports" => SentToHolders

LEMMA QuietOthers ==
    ASSUME ServicesInv
    PROVE  Quiet
<1> USE DEF Quiet
<1>1. CASE group = "adguard"
  <2>1. \A s \in said : s.req.cmd \in AghCmd
    BY <1>1, SaidOf
  <2>2. CleanReportsHold /\ SentToHolders
    BY <2>1, OthersSay DEF AghCmd
  <2>3. QED
    BY <1>1, <2>2
<1>2. CASE group = "docker"
  <2>1. \A s \in said : s.req.cmd \in CleanCmd
    BY <1>2, SaidOf
  <2>2. AghReportsHold /\ SentToHolders
    BY <2>1, OthersSay DEF CleanCmd, StepCmd
  <2>3. QED
    BY <1>2, <2>2
<1>3. CASE group = "ports"
  <2>1. \A s \in said : s.req.cmd = "kill"
    BY <1>3, SaidOf
  <2>2. AghReportsHold /\ CleanReportsHold
    BY <2>1, OthersSay
  <2>3. QED
    BY <1>3, <2>2
<1>4. QED
  BY <1>1, <1>2, <1>3 DEF ServicesInv


LEMMA ReportsStep ==
    ASSUME ServicesInv, Quiet', ServicesNext
    PROVE  Reports'
<1>1. CASE AghNext /\ UNCHANGED <<docker, ports>>
  <2>1. group = "adguard" /\ group' = group
    BY <1>1, AghIsItself
  <2>2. AghReportsHold'
    BY <1>1, <2>1, AghReportsStep DEF ServicesInv
  <2>3. QED
    BY <2>1, <2>2 DEF Reports, Quiet
<1>2. CASE CleanNext /\ UNCHANGED <<adguard, ports>>
  <2>1. group = "docker" /\ group' = group
    BY <1>2, CleanIsItself
  <2>2. CleanReportsHold'
    BY <1>2, <2>1, CleanReportsStep DEF ServicesInv
  <2>3. QED
    BY <2>1, <2>2 DEF Reports, Quiet
<1>3. CASE PortsNext /\ UNCHANGED <<adguard, docker>>
  <2>1. group = "ports" /\ group' = group
    BY <1>3, PortsIsItself
  <2>2. SentToHolders'
    BY <1>3, <2>1, SentStep DEF ServicesInv
  <2>3. QED
    BY <2>1, <2>2 DEF Reports, Quiet
<1>4. QED
  BY <1>1, <1>2, <1>3 DEF ServicesNext

LEMMA ReportsStill ==
    ASSUME Reports, UNCHANGED ServicesVars
    PROVE  Reports'
<1>1. UNCHANGED <<proc, adguard, docker, ports>>
  BY DEF ServicesVars
<1>2. AghReportsHold'
  BY <1>1 DEF Reports, AghReportsHold, PortsSetTake, FixFrees, FixedResolvServes, Ended, Free,
     proc, adguard
<1>3. CleanReportsHold'
  BY <1>1 DEF Reports, CleanReportsHold, CleanedOut, PruneFailsAloud, RestartedIsUp, Ended,
     Existing, proc, docker
<1>4. SentToHolders'
  BY <1>1 DEF Reports, SentToHolders, proc, ports
<1>5. QED
  BY <1>2, <1>3, <1>4 DEF Reports

LEMMA ReportsAlways == ServicesSpec => []Reports
<1>1. ServicesInit => Reports
  BY ReportsInitially DEF ServicesInit
<1>2. ServicesInv => Quiet
  BY QuietOthers
<1>3. ServicesInv /\ Quiet' /\ Reports /\ [ServicesNext]_ServicesVars => Reports'
  BY ReportsStep, ReportsStill
<1>4. QED
  BY <1>1, <1>2, <1>3, ServicesInvariance, PTL DEF ServicesSpec

\* Every variable of the three tools keeps its type, for any number of runs; a
\* restart of docker polls no longer than configured.
THEOREM TypeCorrect == ServicesSpec => []TypeOK
<1>1. ServicesInv => TypeOK
  <2> SUFFICES ASSUME ServicesInv PROVE TypeOK
    OBVIOUS
  <2>1. AghTypeOK
    BY DEF ServicesInv, AghInv, AghState
  <2>2. at = "poll" => group = "docker"
    BY LabelsApart DEF CleanAt
  <2>3. CleanTypeOK
    BY <2>2 DEF ServicesInv, CleanInv, CleanState, CleanRun, InPoll, CleanTypeOK
  <2>4. at = "signal" => group = "ports"
    BY LabelsApart DEF PortsAt
  <2>5. PortsTypeOK
    BY <2>4 DEF ServicesInv, PortsInv, PortsState, PortsRun, SignalsSoFar, PortsTypeOK
  <2>6. QED
    BY <2>1, <2>3, <2>5 DEF TypeOK
<1>2. QED
  BY <1>1, ServicesInvariance, PTL

\* What adguard reports can be believed, of runs none of whose calls fails: an
\* undisturbed change of the ports is in the yaml and in the AGH that runs; a fix
\* has freed the ports or moved AGH away, whatever units did up to its second
\* scan; and an undisturbed fix has left a resolv.conf that serves.
THEOREM AghReportsHoldAlways == ServicesSpec => []AghReportsHold
<1>1. Reports => AghReportsHold
  BY DEF Reports
<1>2. QED
  BY <1>1, ReportsAlways, PTL

\* While resolv.conf is missing, wherever a run was killed, the newest backup
\* says what it said.
THEOREM ResolvRecoverableHolds == ServicesSpec => []ResolvRecoverable
<1>1. ServicesInv => ResolvRecoverable
  BY RecoverIsRecoverable DEF ServicesInv
<1>2. QED
  BY <1>1, ServicesInvariance, PTL

\* What docker-clean reports can be believed: an undisturbed quick or nuke that
\* noted no failure left nothing of what it cleans; a prune of images, volumes or
\* networks that failed is not taken for a success (of builders and orphans this
\* is not claimed, and is not so); and after an undisturbed restart on Linux or
\* with the CLI of Desktop, a daemon reported back is up.
THEOREM CleanReportsHoldAlways == ServicesSpec => []CleanReportsHold
<1>1. Reports => CleanReportsHold
  BY DEF Reports
<1>2. QED
  BY <1>1, ReportsAlways, PTL

\* The signals of a kill land where they were meant to: never on process 1, also
\* when it takes the port between the two listings; a success means that no
\* process refused the signal and, if nothing disturbed the run, that each one
\* shown was reached.
THEOREM SignalsLandHolds == ServicesSpec => []SignalsLand
<1>1. ServicesInv /\ Reports => SignalsLand
  <2> SUFFICES ASSUME ServicesInv, Reports PROVE SignalsLand
    OBVIOUS
  <2>1. at = "signal" => group = "ports"
    BY LabelsApart DEF PortsAt
  <2>2. InitIsSpared
    BY <2>1 DEF ServicesInv, PortsInv, PortsRun, SignalsSoFar, InitIsSpared
  <2>3. QED
    BY <2>2 DEF Reports, SignalsLand
<1>2. QED
  BY <1>1, ServicesInvariance, ReportsAlways, PTL
-----------------------------------------------------------------------------
(***************************************************************************)
(* How far a run is from its end: a phase, and what remains of the loop    *)
(* that the phase is.  Each step of shimkit ends the run or lowers the     *)
(* pair, in the order of pairs of naturals, and nothing else raises it.    *)
(* So a run that does not end comes to a state in which shimkit has no     *)
(* step to take, or in which it is not scheduled: that there is a step,    *)
(* but at a prompt, and fairness are the rest of RunsEnd, which TLC checks *)
(* and the provers cannot express.                                         *)
(***************************************************************************)
PhaseOf(l, m) ==
    CASE l = "scan" -> 16
      [] l = "stub_off" -> 15
      [] l = "back_up" -> 14
      [] l = "rm_resolv" -> 13
      [] l \in {"ln_resolv", "static"} -> 12
      [] l = "nm" -> 11
      [] l = "units" -> 10
      [] l = "boot" -> 9
      [] l = "ports_set" -> 7
      [] l = "stop_agh" -> 6
      [] l = "copy_yaml" -> 5
      [] l \in {"fill_copy", "list"} -> 4
      [] l \in {"edit_yaml", "prompt", "roll_yaml"} -> 3
      [] l \in {"start_agh", "fill_yaml", "list_again"} -> 2
      [] l \in {"restart_agh", "service", "roll_resolv", "signal"} -> 1
      [] l \in {"parse", "schedule", "compose_down", "restart"} -> 1
      [] l \in {"step", "each"} -> Len(m.todo)
      [] OTHER -> 0

RemainsOf(l, m) ==
    CASE l = "step" -> Cardinality(Containers) + 1
      [] l = "each" -> Cardinality(m.list)
      [] l \in {"units", "signal"} -> Cardinality(m.todo)
      [] l = "poll" -> VerifyTimeout - m
      [] OTHER -> 0

RankOf(l, m) == <<PhaseOf(l, m), RemainsOf(l, m)>>

Rank == RankOf(at, mem)

Lower(s, r) == s[1] < r[1] \/ (s[1] = r[1] /\ s[2] < r[2])

\* A fix takes up each unit once.
UnitsAreUnits ==
    at \in ResolvAt \cup {"units"} => "todo" \in DOMAIN mem /\ mem.todo \subseteq Unit

LEMMA LowerPhase ==
    ASSUME NEW l, NEW m, NEW k, NEW n, PhaseOf(l, m) < PhaseOf(k, n)
    PROVE  Lower(RankOf(l, m), RankOf(k, n))
BY DEF Lower, RankOf

LEMMA LowerRemains ==
    ASSUME NEW l, NEW m, NEW k, NEW n,
           PhaseOf(l, m) = PhaseOf(k, n), RemainsOf(l, m) < RemainsOf(k, n)
    PROVE  Lower(RankOf(l, m), RankOf(k, n))
BY DEF Lower, RankOf

\* One element fewer of a finite set.
LEMMA OneFewer ==
    ASSUME NEW S, IsFiniteSet(S), NEW x \in S
    PROVE  Cardinality(S \ {x}) < Cardinality(S)
<1>1. Cardinality(S \ {x}) = Cardinality(S) - 1 /\ Cardinality(S) \in Nat
  BY FS_RemoveElement, FS_CardinalityType
<1>2. QED
  BY <1>1

LEMMA UnitsFinite == IsFiniteSet(Unit)
<1> DEFINE one == {"systemd-resolved"} two == one \cup {"dnsmasq"} three == two \cup {"pihole-FTL"}
<1>1. IsFiniteSet({})
  BY FS_EmptySet
<1>2. IsFiniteSet({} \cup {"systemd-resolved"})
  BY <1>1, FS_AddElement
<1>3. IsFiniteSet(one \cup {"dnsmasq"})
  BY <1>2, FS_AddElement
<1>4. IsFiniteSet(two \cup {"pihole-FTL"})
  BY <1>3, FS_AddElement
<1>5. IsFiniteSet(three \cup {"other"})
  BY <1>4, FS_AddElement
<1>6. three \cup {"other"} = Unit
  BY DEF Unit
<1>7. QED
  BY <1>5, <1>6

LEMMA PidsFinite == IsFiniteSet(Pid \cup {0})
<1>1. IsFiniteSet(LowPids \cup HighPids)
  BY FinitePidsAssumption, FS_Union
<1>2. IsFiniteSet((LowPids \cup HighPids) \cup {1})
  BY <1>1, FS_AddElement
<1>3. IsFiniteSet(((LowPids \cup HighPids) \cup {1}) \cup {0})
  BY <1>2, FS_AddElement
<1>4. ((LowPids \cup HighPids) \cup {1}) \cup {0} = Pid \cup {0}
  BY DEF Pid
<1>5. QED
  BY <1>3, <1>4

\* The phases of adguard follow one another; only the loop over the units stays
\* in its own.
LEMMA AghStepDescends ==
    ASSUME UnitsAreUnits, AghStep
    PROVE  at' = "idle" \/ Lower(RankOf(at', mem'), RankOf(at, mem))
<1>1. ASSUME at' = "idle" \/ PhaseOf(at', mem') < PhaseOf(at, mem)
      PROVE  at' = "idle" \/ Lower(RankOf(at', mem'), RankOf(at, mem))
  BY <1>1, LowerPhase
<1>2. CASE ScanPorts \/ StubOff \/ BackUpResolv \/ RmResolv \/ LnResolv \/ StaticResolv \/ ManageNetwork
  <2>1. \/ at' = "idle"
        \/ at = "scan" /\ at' \in {"stub_off", "units"}
        \/ at = "stub_off" /\ at' = "back_up"
        \/ at = "back_up" /\ at' \in {"rm_resolv", "static"}
        \/ at = "rm_resolv" /\ at' \in {"static", "ln_resolv"}
        \/ at \in {"ln_resolv", "static"} /\ at' = "nm"
        \/ at = "nm" /\ at' = "units"
    BY <1>2 DEF ScanPorts, StubOff, BackUpResolv, RmResolv, LnResolv, StaticResolv, ManageNetwork,
       Goto, Remember, Exit, Ends
  <2>2. QED
    BY <1>1, <2>1 DEF PhaseOf
<1>3. CASE StopUnit
  <2>1. PICK u \in mem.todo : Remember("units", [mem EXCEPT !.todo = @ \ {u}])
    BY <1>3 DEF StopUnit
  <2>2. at = "units" /\ at' = "units"
    BY <1>3, <2>1 DEF StopUnit, Remember
  <2>3. IsFiniteSet(mem.todo)
    BY <2>2, UnitsFinite, FS_Subset DEF UnitsAreUnits
  <2>4. mem' = [mem EXCEPT !.todo = @ \ {u}]
    BY <2>1 DEF Remember
  <2>5. mem'.todo = mem.todo \ {u}
    BY <2>2, <2>4 DEF UnitsAreUnits
  <2>6. RemainsOf(at', mem') < RemainsOf(at, mem)
    BY <2>2, <2>3, <2>5, OneFewer DEF RemainsOf
  <2>7. PhaseOf(at', mem') = PhaseOf(at, mem)
    BY <2>2 DEF PhaseOf
  <2>8. QED
    BY <2>6, <2>7, LowerRemains
<1>4. CASE CleanupOnly \/ Rescan \/ RestartAgh \/ Service \/ RollYaml \/ FillYaml \/ RollResolv
  <2>1. \/ at' = "idle"
        \/ at = "units" /\ at' \in {"restart_agh", "ports_set"}
        \/ at = "roll_yaml" /\ at' \in {"fill_yaml", "roll_resolv"}
        \/ at = "fill_yaml" /\ at' = "roll_resolv"
    BY <1>4 DEF CleanupOnly, Rescan, RestartAgh, Service, RollYaml, FillYaml, RollResolv,
       Goto, Remember, Exit, Ends
  <2>2. QED
    BY <1>1, <2>1 DEF PhaseOf
<1>5. CASE ByApi \/ StopAgh \/ CopyYaml \/ FillCopy \/ EditYaml \/ StartAgh
  <2>1. \/ at' = "idle"
        \/ at = "ports_set" /\ at' \in {"restart_agh", "stop_agh"}
        \/ at = "stop_agh" /\ at' = "copy_yaml"
        \/ at = "copy_yaml" /\ at' = "fill_copy"
        \/ at = "fill_copy" /\ at' = "edit_yaml"
        \/ at = "edit_yaml" /\ at' = "start_agh"
        \/ at = "start_agh" /\ at' = "restart_agh"
    BY <1>5 DEF ByApi, StopAgh, CopyYaml, FillCopy, EditYaml, StartAgh, PortsDone, PortsFailed,
       YamlPathBegins, Goto, Remember, Exit, Ends
  <2>2. QED
    BY <1>1, <2>1 DEF PhaseOf
<1>6. QED
  BY <1>2, <1>3, <1>4, <1>5 DEF AghStep

\* What is left to do of a command is a sequence, no longer than that of a nuke.
LEMMA LeftShort ==
    ASSUME NEW c \in StepCmd, NEW t \in Left(c)
    PROVE  /\ Len(t) \in 0..6
           /\ t # <<>> => Len(Tail(t)) < Len(t)
<1> DEFINE Short(x, n) == Len(x) = n /\ Len(Tail(x)) = n - 1
<1>1. Short(Quick5, 5)
  BY DEF Quick5
<1>2. Short(Quick4, 4)
  BY DEF Quick4
<1>3. Short(Quick3, 3)
  BY DEF Quick3
<1>4. Short(Quick2, 2)
  BY DEF Quick2
<1>5. Short(Quick1, 1)
  BY DEF Quick1
<1>6. Short(Nuke6, 6)
  BY DEF Nuke6
<1>7. Short(Nuke5, 5)
  BY DEF Nuke5
<1>8. Short(Nuke4, 4)
  BY DEF Nuke4
<1>9. Short(Nuke3, 3)
  BY DEF Nuke3
<1>10. Short(Nuke2, 2)
  BY DEF Nuke2
<1>11. Short(Nuke1, 1)
  BY DEF Nuke1
<1>12. \A k : Short(<<k>>, 1)
  OBVIOUS
<1>13. Short(<<"dangling", "volumes">>, 2) /\ Len(<<>>) = 0
  OBVIOUS
<1>14. t = <<>> \/ \E n \in 1..6 : Short(t, n)
  <2>1. CASE c = "quick"
    <3>1. t \in {<<>>, Quick5, Quick4, Quick3, Quick2, Quick1}
      BY <2>1 DEF Left
    <3>2. QED
      BY <3>1, <1>1, <1>2, <1>3, <1>4, <1>5
  <2>2. CASE c = "nuke"
    <3>1. t \in {<<>>, Nuke6, Nuke5, Nuke4, Nuke3, Nuke2, Nuke1}
      BY <2>2 DEF Left
    <3>2. QED
      BY <3>1, <1>6, <1>7, <1>8, <1>9, <1>10, <1>11
  <2>3. CASE c \notin {"quick", "nuke"}
    <3>1. t = <<>> \/ t = <<"dangling", "volumes">> \/ \E k : t = <<k>>
      BY <2>3 DEF StepCmd, Left
    <3>2. QED
      BY <3>1, <1>12, <1>13
  <2>4. QED
    BY <2>1, <2>2, <2>3
<1>15. QED
  BY <1>14, <1>13

\* One step of a command leaves fewer of them.
LEMMA SteppedDescends ==
    ASSUME CleanInv, group = "docker", at \in {"step", "each"}, mem.todo # <<>>,
           NEW failed \in BOOLEAN, Stepped(failed)
    PROVE  Lower(RankOf(at', mem'), RankOf(at, mem))
<1>1. DOMAIN mem = {"todo", "list", "errors", "noted"} /\ req.cmd \in StepCmd
      /\ mem.todo \in Left(req.cmd)
  BY DEF CleanInv, CleanRun, InSteps
<1>2. at' = "step" /\ mem'.todo = Tail(mem.todo)
  BY <1>1 DEF Stepped, Remember
<1>3. Len(Tail(mem.todo)) < Len(mem.todo)
  BY <1>1, LeftShort
<1>4. PhaseOf(at', mem') < PhaseOf(at, mem)
  BY <1>2, <1>3 DEF PhaseOf
<1>5. QED
  BY <1>4, LowerPhase

\* docker-clean: each step leaves fewer steps, and within one that goes through
\* the containers each call leaves fewer of them.
LEMMA CleanStepDescends ==
    ASSUME CleanInv, group = "docker", CleanStep
    PROVE  at' = "idle" \/ Lower(RankOf(at', mem'), RankOf(at, mem))
<1>1. InSteps /\ InPoll
  BY DEF CleanInv, CleanRun
<1>2. CASE Parse \/ EmitSchedule \/ NoToken \/ EmitSteps \/ ComposeDown
  BY <1>2 DEF Parse, EmitSchedule, NoToken, EmitSteps, ComposeDown, Exit, Ends
<1>3. CASE Boot
  <2>1. at = "boot"
    BY <1>3 DEF Boot
  <2>2. CASE at' \in {"compose_down", "restart", "schedule"}
    <3>1. PhaseOf(at', mem') < PhaseOf(at, mem)
      BY <2>1, <2>2 DEF PhaseOf
    <3>2. QED
      BY <3>1, LowerPhase
  <2>3. CASE req.cmd \in StepCmd /\ Remember("step", Begun(Steps(req.cmd)))
    <3>1. at' = "step" /\ mem'.todo = Steps(req.cmd)
      BY <2>3 DEF Remember, Begun
    <3>2. Len(Steps(req.cmd)) \in 0..6
      BY <2>3, StepsFit, LeftShort
    <3>3. PhaseOf(at', mem') < PhaseOf(at, mem)
      <4>1. PhaseOf(at, mem) = 9
        BY <2>1 DEF PhaseOf
      <4>2. PhaseOf(at', mem') = Len(Steps(req.cmd))
        BY <3>1 DEF PhaseOf
      <4>3. \A n \in 0..6 : n < 9
        OBVIOUS
      <4>4. QED
        BY ONLY <3>2, <4>1, <4>2, <4>3, Zenon
    <3>4. QED
      BY <3>3, LowerPhase
  <2>4. req.cmd \in CleanCmd
    BY <2>1 DEF CleanInv, CleanRun
  <2>5. QED
    BY <1>3, <2>2, <2>3, <2>4 DEF Boot, CleanCmd, Goto, Remember, Exit, Ends
<1>4. CASE List
  <2>1. CASE Exit("exception")
    BY <2>1 DEF Exit, Ends
  <2>2. CASE Remember("each", [mem EXCEPT !.list = IF Step = "stop" THEN Running ELSE Existing])
    <3>1. at = "step" /\ at' = "each"
          /\ mem' = [mem EXCEPT !.list = IF Step = "stop" THEN Running ELSE Existing]
      BY <1>4, <2>2 DEF List, Remember
    <3>2. mem'.todo = mem.todo /\ mem'.list \in {Running, Existing}
      BY <1>1, <3>1 DEF InSteps
    <3>3. mem'.list \subseteq Containers
      BY <3>2 DEF Running, Existing
    <3>4. /\ Cardinality(mem'.list) <= Cardinality(Containers)
          /\ Cardinality(mem'.list) \in Nat /\ Cardinality(Containers) \in Nat
      BY <3>3, ContainersAssumption, FS_Subset, FS_CardinalityType
    <3>5. RemainsOf(at', mem') < RemainsOf(at, mem)
      BY <3>1, <3>4 DEF RemainsOf
    <3>6. PhaseOf(at', mem') = PhaseOf(at, mem)
      BY <3>1, <3>2 DEF PhaseOf
    <3>7. QED
      BY <3>5, <3>6, LowerRemains
  <2>3. QED
    BY <1>4, <2>1, <2>2 DEF List
<1>5. CASE Each
  <2>1. at = "each" /\ DOMAIN mem = {"todo", "list", "errors", "noted"} /\ mem.list \subseteq Containers
    BY <1>1, <1>5 DEF Each, InSteps
  <2>2. PICK c \in mem.list :
          /\ at' = "each"
          /\ \/ mem' = [mem EXCEPT !.list = @ \ {c}]
             \/ mem' = [mem EXCEPT !.list = @ \ {c}, !.noted = @ \cup {Step}]
    BY <1>5 DEF Each, Remember
  <2>3. mem'.todo = mem.todo /\ mem'.list = mem.list \ {c}
    BY <2>1, <2>2
  <2>4. RemainsOf(at', mem') < RemainsOf(at, mem)
    BY <2>1, <2>2, <2>3, ContainersAssumption, FS_Subset, OneFewer DEF RemainsOf
  <2>5. PhaseOf(at', mem') = PhaseOf(at, mem)
    BY <2>1, <2>2, <2>3 DEF PhaseOf
  <2>6. QED
    BY <2>4, <2>5, LowerRemains
<1>6. CASE EachDone
  BY <1>1, <1>6, SteppedDescends DEF EachDone, InSteps
<1>7. CASE Prune \/ PruneBuilders
  BY <1>7, SteppedDescends DEF Prune, PruneBuilders
<1>8. CASE Restart
  <2>1. at = "restart" /\ at' \in {"idle", "poll"}
    BY <1>8 DEF Restart, Remember, Exit, Ends
  <2>2. at' = "poll" => PhaseOf(at', mem') < PhaseOf(at, mem)
    BY <2>1 DEF PhaseOf
  <2>3. QED
    BY <2>1, <2>2, LowerPhase
<1>9. CASE Poll
  <2>1. at = "poll" /\ mem \in 0..VerifyTimeout
    BY <1>1, <1>9 DEF Poll, InPoll
  <2>2. at' = "idle" \/ (at' = "poll" /\ mem' = mem + 1)
    BY <1>9 DEF Poll, Counted, Remember, Exit, Ends
  <2>3. at' = "poll" => RemainsOf(at', mem') < RemainsOf(at, mem)
    BY <2>1, <2>2, VerifyAssumption DEF RemainsOf
  <2>4. at' = "poll" => PhaseOf(at', mem') = PhaseOf(at, mem)
    BY <2>1 DEF PhaseOf
  <2>5. QED
    BY <2>2, <2>3, <2>4, LowerRemains
<1>10. QED
  BY <1>2, <1>3, <1>4, <1>5, <1>6, <1>7, <1>8, <1>9 DEF CleanStep

\* ports kill: after the two listings each signal leaves fewer rows.
LEMMA PortsStepDescends ==
    ASSUME PortsInv, group = "ports", PortsStep
    PROVE  at' = "idle" \/ Lower(RankOf(at', mem'), RankOf(at, mem))
<1>1. CASE ListShown \/ ListAgain \/ Sent
  <2>1. \/ at' = "idle"
        \/ at = "list" /\ at' \in {"list_again", "prompt"}
        \/ at = "list_again" /\ at' = "signal"
    BY <1>1 DEF ListShown, ListAgain, Sent, Goto, Remember, Exit, Ends
  <2>2. at' = "idle" \/ PhaseOf(at', mem') < PhaseOf(at, mem)
    BY <2>1 DEF PhaseOf
  <2>3. QED
    BY <2>2, LowerPhase
<1>2. CASE Signal
  <2>1. at = "signal" /\ "todo" \in DOMAIN mem /\ mem.todo \subseteq Pid \cup {0}
    BY <1>2 DEF Signal, PortsInv, PortsRun, SignalsSoFar
  <2>2. CASE Killed
    BY <2>2 DEF Killed, Ends
  <2>3. CASE \E p \in mem.todo : at' = "signal" /\ mem'.todo = mem.todo \ {p}
    <3>1. RemainsOf(at', mem') < RemainsOf(at, mem)
      BY <2>1, <2>3, PidsFinite, FS_Subset, OneFewer DEF RemainsOf
    <3>2. PhaseOf(at', mem') = PhaseOf(at, mem)
      BY <2>1, <2>3 DEF PhaseOf
    <3>3. QED
      BY <3>1, <3>2, LowerRemains
  <2>4. QED
    BY <1>2, <2>1, <2>2, <2>3 DEF Signal, Remember
<1>3. QED
  BY <1>1, <1>2 DEF PortsStep

\* The user's answer ends the run or takes it past the prompt; what else happens
\* ends it or leaves it where it is.
LEMMA OthersLeaveRank ==
    ASSUME ServicesNext, ~Idle, ~ServicesStep
    PROVE  \/ at' = "idle"
           \/ at = "prompt" /\ at' = "list_again"
           \/ at' = at /\ mem' = mem
<1>1. CASE AghNext /\ UNCHANGED <<docker, ports>>
  <2>1. AghKill \/ LinkEvent \/ UnitMoves \/ SecondPasses
    BY <1>1 DEF AghNext, ServicesStep, AskFixPorts, AskPortsSet, AskRollbackAgh, AskService,
       Ask, Starts, Refused
  <2>2. QED
    BY <2>1 DEF AghKill, Killed, Ends, LinkEvent, UnitMoves, Outside, SecondPasses
<1>2. CASE CleanNext /\ UNCHANGED <<adguard, ports>>
  <2>1. CleanKill \/ DaemonMoves \/ DaemonDies \/ StartsContainer
    BY <1>2 DEF CleanNext, ServicesStep, AskAtOnce, AskPruning, AskComposeDown, AskRestart,
       AskSchedule, ScheduleFires, Ask, Starts, Refused
  <2>2. QED
    BY <2>1 DEF CleanKill, Killed, Ends, DaemonMoves, DaemonDies, StartsContainer, Outside, Elapses
<1>3. CASE PortsNext /\ UNCHANGED <<adguard, docker>>
  <2>1. Answer \/ PortsKilled \/ Spawns \/ Dies \/ Recycled \/ InitListens
    BY <1>3 DEF PortsNext, ServicesStep, AskKill, Starts
  <2>2. QED
    BY <2>1 DEF Answer, Goto, Remember, Exit, PortsKilled, Killed, Ends, Spawns, Dies, Recycled,
       InitListens, Aside, Outside, Elapses
<1>4. QED
  BY <1>1, <1>2, <1>3 DEF ServicesNext

\* A fix learns of its units from the conflicts, and takes them up one by one.
LEMMA UnitsStay ==
    ASSUME ServicesInv, ServicesInv', UnitsAreUnits, [ServicesNext]_ServicesVars
    PROVE  UnitsAreUnits'
<1>1. CASE AghNext
  <2>1. CASE ScanPorts
    <3>1. \/ at' = "idle"
          \/ mem' = [todo |-> {c.unit : c \in Conflicts(Configured(yaml))}, ports |-> Configured(yaml)]
      BY <2>1 DEF ScanPorts, Exit, Ends, Remember
    <3>2. \A c \in Conflicts(Configured(yaml)) : c.unit \in Unit
      BY DEF Conflicts
    <3>3. QED
      BY <3>1, <3>2 DEF UnitsAreUnits, ResolvAt
  <2>2. CASE StubOff \/ BackUpResolv \/ RmResolv \/ LnResolv \/ StaticResolv \/ ManageNetwork
    <3>1. at \in ResolvAt /\ mem' = mem
      BY <2>2 DEF StubOff, BackUpResolv, RmResolv, LnResolv, StaticResolv, ManageNetwork, ResolvAt,
         Goto, Remember
    <3>2. QED
      BY <3>1 DEF UnitsAreUnits
  <2>3. CASE StopUnit
    <3>1. at = "units" /\ \E u \in mem.todo : mem' = [mem EXCEPT !.todo = @ \ {u}]
      BY <2>3 DEF StopUnit, Remember
    <3>2. QED
      BY <3>1 DEF UnitsAreUnits
  <2>4. CASE \/ CleanupOnly \/ Rescan \/ ByApi \/ StopAgh \/ CopyYaml \/ FillCopy \/ EditYaml
             \/ StartAgh \/ RestartAgh \/ Service \/ RollYaml \/ FillYaml \/ RollResolv
    <3>1. at' \notin ResolvAt \cup {"units"}
      BY <2>4 DEF CleanupOnly, Rescan, ByApi, StopAgh, CopyYaml, FillCopy, EditYaml, StartAgh,
         RestartAgh, Service, RollYaml, FillYaml, RollResolv, PortsDone, PortsFailed, YamlPathBegins, Goto, Remember, Exit, Ends, ResolvAt
    <3>2. QED
      BY <3>1 DEF UnitsAreUnits
  <2>5. CASE AskFixPorts \/ AskPortsSet \/ AskRollbackAgh \/ AskService
    <3>1. at = "idle" /\ at' \in {"idle", "scan", "ports_set", "roll_yaml", "service"}
      BY <2>5 DEF AskFixPorts, AskPortsSet, AskRollbackAgh, AskService, Ask, Starts, Refused, Idle
    <3>2. QED
      BY <3>1 DEF UnitsAreUnits, ResolvAt
  <2>6. CASE AghKill \/ LinkEvent \/ UnitMoves \/ SecondPasses
    <3>1. at' = "idle" \/ (at' = at /\ mem' = mem)
      BY <2>6 DEF AghKill, Killed, Ends, LinkEvent, UnitMoves, Outside, SecondPasses, Elapses
    <3>2. QED
      BY <3>1 DEF UnitsAreUnits, ResolvAt
  <2>7. QED
    BY <1>1, <2>1, <2>2, <2>3, <2>4, <2>5, <2>6 DEF AghNext, AghStep
<1>2. CASE CleanNext \/ PortsNext
  <2>1. at' = "idle" \/ at' \in CleanAt \cup PortsAt
    BY <1>2, CleanIsItself, PortsIsItself DEF ServicesInv, CleanInv, CleanRun, PortsInv, PortsRun
  <2>2. QED
    BY <2>1 DEF UnitsAreUnits, ResolvAt, CleanAt, PortsAt
<1>3. CASE UNCHANGED ServicesVars
  BY <1>3 DEF ServicesVars, proc, UnitsAreUnits
<1>4. QED
  BY <1>1, <1>2, <1>3 DEF ServicesNext

LEMMA StepDescends ==
    ASSUME ServicesInv, UnitsAreUnits, ServicesNext, ServicesStep
    PROVE  at' = "idle" \/ Lower(RankOf(at', mem'), RankOf(at, mem))
<1>1. CASE AghStep
  BY <1>1, AghStepDescends
<1>2. CASE CleanStep
  <2>1. group = "docker"
    BY <1>2, CleanIsItself DEF CleanNext
  <2>2. QED
    BY <1>2, <2>1, CleanStepDescends DEF ServicesInv
<1>3. CASE PortsStep
  <2>1. group = "ports"
    BY <1>3, PortsIsItself DEF PortsNext
  <2>2. QED
    BY <1>3, <2>1, PortsStepDescends DEF ServicesInv
<1>4. QED
  BY <1>1, <1>2, <1>3 DEF ServicesStep

LEMMA UnitsInvariance == ServicesSpec => []UnitsAreUnits
<1>1. ServicesInit => UnitsAreUnits
  BY DEF ServicesInit, CliInit, UnitsAreUnits, ResolvAt
<1>2. ServicesInv /\ ServicesInv' /\ UnitsAreUnits /\ [ServicesNext]_ServicesVars => UnitsAreUnits'
  BY UnitsStay
<1>3. QED
  BY <1>1, <1>2, ServicesInvariance, PTL DEF ServicesSpec

\* Of the runs of adguard, docker-clean and ports: each step of shimkit, and the
\* user's answer, ends the run or lowers its rank, and whatever else happens ends
\* it or leaves the rank.
THEOREM RunsDescend ==
    ServicesSpec =>
        [][~Idle => \/ Idle'
                    \/ Lower(Rank', Rank)
                    \/ ~ServicesStep /\ Rank' = Rank]_ServicesVars
<1>1. ServicesInv /\ UnitsAreUnits /\ [ServicesNext]_ServicesVars =>
        [~Idle => \/ Idle'
                  \/ Lower(Rank', Rank)
                  \/ ~ServicesStep /\ Rank' = Rank]_ServicesVars
  <2> SUFFICES ASSUME ServicesInv, UnitsAreUnits, ServicesNext, ~Idle
               PROVE  \/ Idle'
                      \/ Lower(Rank', Rank)
                      \/ ~ServicesStep /\ Rank' = Rank
    OBVIOUS
  <2>1. Rank' = RankOf(at', mem') /\ Rank = RankOf(at, mem)
    BY DEF Rank, RankOf, PhaseOf, RemainsOf
  <2>2. CASE ServicesStep
    BY <2>1, <2>2, StepDescends DEF Idle
  <2>3. CASE ~ServicesStep
    <3>1. CASE at = "prompt" /\ at' = "list_again"
      <4>1. PhaseOf(at', mem') < PhaseOf(at, mem)
        BY <3>1 DEF PhaseOf
      <4>2. QED
        BY <2>1, <4>1, LowerPhase
    <3>2. QED
      BY <2>1, <2>3, <3>1, OthersLeaveRank DEF Idle
  <2>4. QED
    BY <2>2, <2>3
<1>2. QED
  BY <1>1, ServicesInvariance, UnitsInvariance, PTL DEF ServicesSpec

\* A rank is a pair of naturals.
THEOREM RanksAreNatural == ServicesSpec => [](Rank \in Nat \X Nat)
<1>1. ServicesInv /\ UnitsAreUnits => Rank \in Nat \X Nat
  <2> SUFFICES ASSUME ServicesInv, UnitsAreUnits
               PROVE  PhaseOf(at, mem) \in Nat /\ RemainsOf(at, mem) \in Nat
    BY DEF Rank, RankOf
  <2>1. CASE at \in {"step", "each"}
    <3>1. InSteps
      BY <2>1, LabelsApart DEF ServicesInv, CleanAt, CleanInv, CleanRun
    <3>2. Len(mem.todo) \in Nat
      BY <2>1, <3>1, LeftShort DEF InSteps
    <3>3. Cardinality(Containers) + 1 \in Nat
      BY ContainersAssumption, FS_CardinalityType
    <3>4. at = "each" => Cardinality(mem.list) \in Nat
      BY <3>1, ContainersAssumption, FS_Subset, FS_CardinalityType DEF InSteps
    <3>5. QED
      BY <2>1, <3>2, <3>3, <3>4 DEF PhaseOf, RemainsOf
  <2>2. CASE at = "units"
    <3>1. Cardinality(mem.todo) \in Nat
      BY <2>2, UnitsFinite, FS_Subset, FS_CardinalityType DEF UnitsAreUnits
    <3>2. QED
      BY <2>2, <3>1 DEF PhaseOf, RemainsOf
  <2>3. CASE at = "signal"
    <3>1. mem.todo \subseteq Pid \cup {0}
      BY <2>3, LabelsApart DEF ServicesInv, PortsAt, PortsInv, PortsRun, SignalsSoFar
    <3>2. Cardinality(mem.todo) \in Nat
      BY <3>1, PidsFinite, FS_Subset, FS_CardinalityType
    <3>3. QED
      BY <2>3, <3>2 DEF PhaseOf, RemainsOf
  <2>4. CASE at = "poll"
    <3>1. mem \in 0..VerifyTimeout
      BY <2>4, LabelsApart DEF ServicesInv, CleanAt, CleanInv, CleanRun, InPoll
    <3>2. QED
      BY <2>4, <3>1, VerifyAssumption DEF PhaseOf, RemainsOf
  <2>5. CASE at \notin {"step", "each", "units", "signal", "poll"}
    BY <2>5 DEF PhaseOf, RemainsOf
  <2>6. QED
    BY <2>1, <2>2, <2>3, <2>4, <2>5
<1>2. QED
  BY <1>1, ServicesInvariance, UnitsInvariance, PTL DEF ServicesSpec
==============================================================================
