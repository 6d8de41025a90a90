------------------------- MODULE HostsManagerProofs -------------------------
(***************************************************************************)
(* Theorems about HostsManager, for any number of overlapping runs, any    *)
(* set of addresses, names and requests, and a clock that may step back:   *)
(* what holds under any overlap, then what one run at a time promises,     *)
(* that it implements AtomicHosts among it.                                *)
(***************************************************************************)
EXTENDS MCHostsManager, TLAPS

USE NoneAssumption, MaxNowAssumption, RequestsAssumption

LEMMA RequestShape ==
    \A r \in Request : r.puts \in Content /\ r.drops \in Content
BY DEF Request, AddRequest, RemoveRequest, ApplyRequest, RollbackRequest,
       BlockList, MappingsOf, Content, Line, Pair

\* An edit of a file is a file.
LEMMA EditedIsContent ==
    ASSUME NEW r \in Request, NEW c \in Content
    PROVE  Edited(r, c) \in Content
BY RequestShape DEF Edited, Content

LEMMA NoRequestIsRequest == NoRequest \in Request
BY DEF NoRequest, Request, RollbackRequest

LEMMA CutShortIsContent == CutShort \in Content
BY DEF CutShort, Content

\* Adding or overwriting one backup keeps the table of backups well formed.
LEMMA CopyKeepsTable ==
    ASSUME DOMAIN baks \subseteq Stamp, baks \in [DOMAIN baks -> Content],
           now \in Stamp, NEW c \in Content, Copy(c)
    PROVE  /\ DOMAIN baks' \subseteq Stamp
           /\ baks' \in [DOMAIN baks' -> Content]
BY DEF Copy

\* A run that ends leaves well-typed variables behind.
LEMMA ForgetKeepsTypes ==
    ASSUME TypeOK, NEW p \in Procs, Forget(p)
    PROVE  /\ req' \in [Procs -> Request]
           /\ dry' \in [Procs -> BOOLEAN]
           /\ snap' \in [Procs -> Content]
           /\ bak' \in [Procs -> Stamp \cup {None}]
BY NoRequestIsRequest DEF TypeOK, Forget, Content
-----------------------------------------------------------------------------
\* Types are kept by every step, given that a picked backup exists.
LEMMA TypeStep ==
    ASSUME TypeOK, PickedExists, [Next]_vars
    PROVE  TypeOK'
<1>1. ASSUME NEW p \in Procs, Invoke(p)
      PROVE  TypeOK'
  BY <1>1, RequestShape
  DEF Invoke, TypeOK, Goto, Pcs, Content
<1>2. ASSUME NEW p \in Procs, Read(p)
      PROVE  TypeOK'
  BY <1>2, ForgetKeepsTypes DEF Read, End, TypeOK, Goto, Pcs, ghosts
<1>3. ASSUME NEW p \in Procs, BackUp(p)
      PROVE  TypeOK'
  <2>1. DOMAIN baks' \subseteq Stamp /\ baks' \in [DOMAIN baks' -> Content]
    BY <1>3, CopyKeepsTable, CutShortIsContent DEF BackUp, TypeOK
  <2>2. QED
    BY <1>3, <2>1 DEF BackUp, TypeOK, Goto, Pcs
<1>4. ASSUME NEW p \in Procs, Install(p)
      PROVE  TypeOK'
  <2>1. Edited(req[p], snap[p]) \in Content
    BY EditedIsContent DEF TypeOK
  <2>2. CASE Installed(p) /\ Becomes(Edited(req[p], snap[p])) /\ Committed(p)
    BY <1>4, <2>1, <2>2, ForgetKeepsTypes
    DEF Install, Installed, Detach, Becomes, Committed, TypeOK, Pcs
  <2>3. CASE p \in Root /\ Goto(p, "open")
              /\ UNCHANGED <<live, held, undo, req, dry, snap, bak>>
    BY <1>4, <2>3 DEF Install, Goto, TypeOK, Pcs
  <2>4. CASE End(p) /\ UNCHANGED <<live, held, undo>>
    BY <1>4, <2>4, ForgetKeepsTypes DEF Install, End, Goto, TypeOK, Pcs
  <2>5. QED
    BY <1>4, <2>2, <2>3, <2>4 DEF Install
<1>5. ASSUME NEW p \in Procs, OpenDirect(p)
      PROVE  TypeOK'
  <2>1. CASE End(p)
    BY <1>5, <2>1, ForgetKeepsTypes
    DEF OpenDirect, End, Goto, Becomes, Committed, CutShort, Content, TypeOK, Pcs
  <2>2. CASE Goto(p, "write")
    BY <1>5, <2>2
    DEF OpenDirect, End, Forget, Goto, Becomes, Committed, CutShort, Content,
        TypeOK, Pcs
  <2>3. QED
    BY <1>5, <2>1, <2>2 DEF OpenDirect
<1>6. ASSUME NEW p \in Procs, WriteDirect(p)
      PROVE  TypeOK'
  <2>1. Edited(req[p], snap[p]) \in Content
    BY EditedIsContent DEF TypeOK
  <2>2. QED
    BY <1>6, <2>1, ForgetKeepsTypes
    DEF WriteDirect, End, Goto, Becomes, TypeOK, Pcs
<1>7. ASSUME NEW p \in Procs, Pick(p)
      PROVE  TypeOK'
  BY <1>7, ForgetKeepsTypes DEF Pick, End, Goto, TypeOK, Pcs, ghosts
<1>8. ASSUME NEW p \in Procs, Restore(p)
      PROVE  TypeOK'
  <2>1. baks[bak[p]] \in Content
    BY <1>8 DEF Restore, PickedExists, TypeOK
  <2>2. CASE Installed(p)
    BY <1>8, <2>1, <2>2, ForgetKeepsTypes, CutShortIsContent
    DEF Restore, Installed, Detach, Becomes, End, Goto, TypeOK, Pcs, Content
  <2>3. CASE End(p) /\ UNCHANGED <<live, held, undo>>
    BY <1>8, <2>3, ForgetKeepsTypes DEF Restore, End, Goto, TypeOK, Pcs
  <2>4. QED
    BY <1>8, <2>2, <2>3 DEF Restore
<1>9. ASSUME NEW p \in Procs, Kill(p)
      PROVE  TypeOK'
  BY <1>9, ForgetKeepsTypes DEF Kill, End, Goto, TypeOK, Pcs, ghosts
<1>10. CASE HandEdit
  BY <1>10 DEF HandEdit, Becomes, TypeOK, run, Content
<1>11. CASE Tick \/ SetBack
  BY <1>11 DEF Tick, SetBack, TypeOK, run, ghosts, Stamp
<1>12. CASE UNCHANGED vars
  BY <1>12 DEF TypeOK, vars, run, ghosts
<1>13. QED
  BY <1>1, <1>2, <1>3, <1>4, <1>5, <1>6, <1>7, <1>8, <1>9, <1>10, <1>11,
     <1>12 DEF Next, Step

\* A backup is never removed, so one that was picked is there when installed.
LEMMA PickedStep ==
    ASSUME TypeOK, PickedExists, [Next]_vars
    PROVE  PickedExists'
<1>1. ASSUME NEW p \in Procs, Step(p), ~Pick(p)
      PROVE  PickedExists'
  <2>1. DOMAIN baks \subseteq DOMAIN baks'
    BY <1>1 DEF Step, Invoke, Read, BackUp, Copy, Install, OpenDirect,
        WriteDirect, Restore, Kill, ghosts
  <2>2. \A q \in Procs : pc'[q] = "restore" => pc[q] = "restore" /\ bak'[q] = bak[q]
    BY <1>1 DEF Step, Invoke, Read, BackUp, Install, Installed, Detach,
        OpenDirect, WriteDirect, Restore, Kill, End, Forget, Goto, TypeOK
  <2>3. QED
    BY <2>1, <2>2 DEF PickedExists
<1>2. ASSUME NEW p \in Procs, Pick(p)
      PROVE  PickedExists'
  BY <1>2 DEF Pick, SortsLast, End, Forget, Goto, PickedExists, TypeOK
<1>3. CASE HandEdit \/ Tick \/ SetBack \/ UNCHANGED vars
  BY <1>3 DEF HandEdit, Tick, SetBack, vars, run, PickedExists
<1>4. QED
  BY <1>1, <1>2, <1>3 DEF Next
-----------------------------------------------------------------------------
\* Every variable keeps its type: in particular every backup is a complete
\* file or the empty prefix of one, named after a second of the clock.
THEOREM TypeCorrect == Spec => []TypeOK
<1>1. Init => TypeOK /\ PickedExists
  BY NoRequestIsRequest DEF Init, TypeOK, PickedExists, Stamp, Pcs, Content
<1>2. TypeOK /\ PickedExists /\ [Next]_vars => TypeOK' /\ PickedExists'
  BY TypeStep, PickedStep
<1>3. QED
  BY <1>1, <1>2, PTL DEF Spec
-----------------------------------------------------------------------------
\* Reading off what an edit can contain.
LEMMA EditedWithin ==
    ASSUME NEW r, NEW c, NEW s, c \subseteq s, r.puts \subseteq s
    PROVE  Edited(r, c) \subseteq s
BY DEF Edited

\* Lines are only ever added to `authored'.
LEMMA AuthoredGrows == [Next]_vars => authored \subseteq authored'
<1>1. ASSUME NEW p \in Procs, Invoke(p) PROVE authored \subseteq authored'
  BY <1>1, Zenon DEF Invoke
<1>2. ASSUME NEW p \in Procs, Step(p), ~Invoke(p) PROVE authored' = authored
  BY <1>2 DEF Step, Read, BackUp, Install, OpenDirect, WriteDirect, Pick, Restore, Kill, ghosts
<1>3. HandEdit => authored \subseteq authored'
  BY DEF HandEdit
<1>4. Tick \/ SetBack \/ UNCHANGED vars => authored' = authored
  BY DEF Tick, SetBack, vars, ghosts
<1>5. QED
  BY <1>1, <1>2, <1>3, <1>4 DEF Next

\* What a run remembers was authored, and a run that commits is no dry run.
LEMMA ProvenanceStep ==
    ASSUME IInv, [Next]_vars
    PROVE  Provenance'
<1> USE DEF IInv, Provenance
<1>1. ASSUME NEW p \in Procs, Invoke(p)
      PROVE  Provenance'
  BY <1>1 DEF Invoke, Goto, TypeOK, Committing, Idle
<1>2. ASSUME NEW p \in Procs, Read(p)
      PROVE  Provenance'
  BY <1>2 DEF Read, Goto, End, Forget, NoRequest, NoPhantomLine, TypeOK,
    Committing, ghosts
<1>3. ASSUME NEW p \in Procs,
             BackUp(p) \/ Install(p) \/ OpenDirect(p) \/ WriteDirect(p)
               \/ Pick(p) \/ Restore(p) \/ Kill(p)
      PROVE  Provenance'
  <2>1. authored' = authored
    BY <1>3 DEF BackUp, Install, OpenDirect, WriteDirect, Pick, Restore, Kill,
      ghosts
  <2>2. \A q \in Procs :
          \/ snap'[q] = {} /\ req'[q] = NoRequest /\ pc'[q] = "idle"
          \/ snap'[q] = snap[q] /\ req'[q] = req[q] /\ dry'[q] = dry[q]
             /\ (pc'[q] \in Committing => pc[q] \in Committing)
    BY <1>3 DEF BackUp, Install, Installed, Detach, OpenDirect, WriteDirect,
      Pick, Restore, Kill, End, Forget, Goto, TypeOK, Committing
  <2>3. QED
    BY <2>1, <2>2 DEF Committing, NoRequest
<1>4. CASE HandEdit \/ Tick \/ SetBack \/ UNCHANGED vars
  BY <1>4, AuthoredGrows DEF HandEdit, Tick, SetBack, run, vars, ghosts
<1>5. QED
  BY <1>1, <1>2, <1>3, <1>4 DEF Next, Step

\* No line without an author reaches the file or a backup.
LEMMA NoPhantomStep ==
    ASSUME IInv, [Next]_vars
    PROVE  NoPhantomLine'
<1> USE DEF IInv, NoPhantomLine
<1>1. ASSUME NEW p \in Procs, BackUp(p)
      PROVE  NoPhantomLine'
  BY <1>1 DEF BackUp, Copy, CutShort
<1>2. ASSUME NEW p \in Procs, Install(p) \/ OpenDirect(p) \/ WriteDirect(p)
      PROVE  NoPhantomLine'
  <2>1. CASE pc[p] \in Committing
    <3>1. Edited(req[p], snap[p]) \subseteq authored
      BY <2>1, EditedWithin DEF Provenance
    <3>2. QED
      BY <1>2, <3>1 DEF Install, OpenDirect, WriteDirect, Becomes, CutShort
  <2>2. QED
    BY <1>2, <2>1 DEF Install, OpenDirect, WriteDirect, Committing
<1>3. ASSUME NEW p \in Procs, Restore(p)
      PROVE  NoPhantomLine'
  BY <1>3 DEF Restore, Becomes, PickedExists
<1>4. ASSUME NEW p \in Procs, Invoke(p) \/ Read(p) \/ Pick(p) \/ Kill(p)
      PROVE  NoPhantomLine'
  BY <1>4, AuthoredGrows DEF Invoke, Read, Pick, Kill, ghosts
<1>5. CASE HandEdit
  BY <1>5 DEF HandEdit, Becomes, TypeOK, Content
<1>6. CASE Tick \/ SetBack \/ UNCHANGED vars
  BY <1>6 DEF Tick, SetBack, vars, ghosts
<1>7. QED
  BY <1>1, <1>2, <1>3, <1>4, <1>5, <1>6 DEF Next, Step

\* The live file is in its own history, and complete backups come from there.
LEMMA GenuineStep ==
    ASSUME IInv, [Next]_vars
    PROVE  /\ live' \in held'
           /\ whole' \subseteq DOMAIN baks'
           /\ BackupsAreGenuine'
<1> USE DEF IInv, BackupsAreGenuine
<1>1. ASSUME NEW p \in Procs, BackUp(p)
      PROVE  /\ live' \in held'
             /\ whole' \subseteq DOMAIN baks'
             /\ BackupsAreGenuine'
  BY <1>1 DEF BackUp, Copy
<1>2. ASSUME NEW p \in Procs, Step(p), ~BackUp(p)
      PROVE  /\ live' \in held' /\ held \subseteq held'
             /\ UNCHANGED <<baks, whole>>
  BY <1>2 DEF Step, Invoke, Read, Install, OpenDirect, WriteDirect, Pick,
    Restore, Kill, Becomes, ghosts
<1>3. CASE HandEdit \/ Tick \/ SetBack \/ UNCHANGED vars
  BY <1>3 DEF HandEdit, Becomes, Tick, SetBack, vars, ghosts
<1>4. QED
  BY <1>1, <1>2, <1>3 DEF Next

\* The inductive invariant.
LEMMA Inductive == Spec => []IInv
<1>1. Init => IInv
  BY NoRequestIsRequest
  DEF Init, IInv, TypeOK, PickedExists, NoPhantomLine, Provenance, NoRequest,
      BackupsAreGenuine, Stamp, Pcs, Content
<1>2. IInv /\ [Next]_vars => IInv'
  BY TypeStep, PickedStep, ProvenanceStep, NoPhantomStep, GenuineStep DEF IInv
<1>3. QED
  BY <1>1, <1>2, PTL DEF Spec

\* No dry run, refused prompt or missing token ever puts a line into the hosts
\* file or into a backup, however runs, crashes and rollbacks overlap.
THEOREM NoPhantomLineHolds == Spec => []NoPhantomLine
BY Inductive, PTL DEF IInv

\* Every backup that was copied to the end holds a content the file had.
THEOREM BackupsAreGenuineHolds == Spec => []BackupsAreGenuine
BY Inductive, PTL DEF IInv
-----------------------------------------------------------------------------
(***************************************************************************)
(* Runs that do not overlap.                                               *)
(***************************************************************************)
OneAtATime == \A p, q \in Procs : ~Idle(p) /\ ~Idle(q) => p = q

\* A run alone finds the file as it read it, until it writes; a backup has a
\* content the file had, unless it was cut short.
ReadsCurrent ==
    /\ \A p \in Procs : pc[p] \in {"backup", "install", "open"} => snap[p] = live
    /\ \A p \in Procs : ~Idle(p) => req[p] \in Requests
    /\ \A t \in DOMAIN baks : baks[t] \in held \cup {CutShort}

SerialInv == IInv /\ OneAtATime /\ ReadsCurrent

\* With a clock that does not step back, the newest backup is the last one made:
\* the one a commit is about to report, or the one its undo rests on.
UndoInv ==
    /\ \A t \in DOMAIN baks : t <= now
    /\ \A p \in Procs : pc[p] \in {"idle", "read", "backup"} => bak[p] = None
    /\ \A p \in Procs : pc[p] \in {"install", "open"} /\ bak[p] # None =>
         SortsLast(bak[p]) /\ baks[bak[p]] = live
    /\ OneCommandUndo

\* What any step of a run leaves of the other runs, and of who is there.
LEMMA StepAlone ==
    ASSUME IInv, OneAtATime, NEW p \in Procs, Alone(p), Step(p)
    PROVE  /\ OneAtATime'
           /\ \A q \in Procs \ {p} : pc'[q] = "idle" /\ bak'[q] = bak[q] /\ snap'[q] = snap[q]
<1>1. \A q \in Procs \ {p} : pc'[q] = pc[q] /\ bak'[q] = bak[q] /\ snap'[q] = snap[q]
  BY DEF Step, Invoke, Read, BackUp, Install, Installed, OpenDirect, WriteDirect, Pick, Restore,
         Kill, End, Goto, Forget, Detach, Alone, Idle, IInv, TypeOK
<1>2. QED
  BY <1>1 DEF OneAtATime, Alone, Idle

LEMMA ReadsStep ==
    ASSUME SerialInv, SerialNext, IInv'
    PROVE  OneAtATime' /\ ReadsCurrent'
<1> USE DEF Idle
<1>1. ASSUME NEW p \in Procs, Alone(p), Step(p)
      PROVE  OneAtATime' /\ ReadsCurrent'
  <2>1. /\ OneAtATime'
        /\ \A q \in Procs \ {p} : pc'[q] = "idle"
    BY <1>1, StepAlone DEF SerialInv
  <2>2. pc'[p] \in {"backup", "install", "open"} => snap'[p] = live'
    BY <1>1 DEF SerialInv, IInv, TypeOK, ReadsCurrent, Step, Invoke, Read, BackUp, Install,
       Installed, OpenDirect, WriteDirect, Pick, Restore, Kill, End, Goto, Forget, Detach
  <2>3. pc'[p] # "idle" => req'[p] \in Requests
    BY <1>1 DEF SerialInv, IInv, TypeOK, ReadsCurrent, Step, Invoke, Read, BackUp, Install,
       Installed, OpenDirect, WriteDirect, Pick, Restore, Kill, End, Goto, Forget, Detach
  <2>4. held \subseteq held'
    BY <1>1 DEF Step, Invoke, Read, BackUp, Install, OpenDirect, WriteDirect, Pick, Restore, Kill,
       Becomes, ghosts
  <2>5. ASSUME NEW t \in DOMAIN baks' PROVE baks'[t] \in held' \cup {CutShort}
    <3>1. CASE BackUp(p)
      BY <3>1 DEF SerialInv, IInv, ReadsCurrent, BackUp, Copy
    <3>2. CASE ~BackUp(p)
      <4>1. baks' = baks
        BY <1>1, <3>2 DEF Step, Invoke, Read, Install, OpenDirect, WriteDirect, Pick, Restore, Kill
      <4>2. QED
        BY <2>4, <4>1 DEF SerialInv, ReadsCurrent
    <3>3. QED
      BY <3>1, <3>2
  <2>6. QED
    BY <2>1, <2>2, <2>3, <2>5 DEF ReadsCurrent
<1>2. CASE (\A p \in Procs : Idle(p)) /\ HandEdit
  BY <1>2 DEF HandEdit, Becomes, run, SerialInv, OneAtATime, ReadsCurrent
<1>3. CASE Tick \/ SetBack
  BY <1>3 DEF Tick, SetBack, run, ghosts, SerialInv, OneAtATime, ReadsCurrent
<1>4. QED
  BY <1>1, <1>2, <1>3 DEF SerialNext

LEMMA SerialInvInitially == Init => SerialInv
<1>1. Init => IInv
  BY NoRequestIsRequest
  DEF Init, IInv, TypeOK, PickedExists, NoPhantomLine, Provenance, NoRequest,
      BackupsAreGenuine, Stamp, Pcs, Content
<1>2. QED
  BY <1>1 DEF Init, SerialInv, OneAtATime, ReadsCurrent, Idle

LEMMA SerialInvStep ==
    ASSUME SerialInv, [SerialNext]_vars
    PROVE  SerialInv'
<1>1. [Next]_vars
  BY DEF SerialNext, Next
<1>2. IInv'
  BY <1>1, TypeStep, PickedStep, ProvenanceStep, NoPhantomStep, GenuineStep DEF IInv, SerialInv
<1>3. CASE UNCHANGED vars
  BY <1>2, <1>3 DEF vars, run, ghosts, SerialInv, OneAtATime, ReadsCurrent, Idle
<1>4. QED
  BY <1>2, <1>3, ReadsStep DEF SerialInv
-----------------------------------------------------------------------------
(***************************************************************************)
(* One rollback undoes the last commit that reported a backup.             *)
(***************************************************************************)
\* A backup made now is the newest, and the older ones are what they were.
LEMMA CopyIsNewest ==
    ASSUME IInv, UndoInv, NEW c, Copy(c), now' = now
    PROVE  SortsLast(now)' /\ baks'[now] = c /\ \A t \in DOMAIN baks' : t <= now'
BY DEF Copy, SortsLast, UndoInv, IInv, TypeOK, Stamp

LEMMA UndoKept ==
    ASSUME OneCommandUndo, baks' = baks, undo' \in {undo, {}}
    PROVE  OneCommandUndo'
BY DEF OneCommandUndo, SortsLast

\* A commit rests on the backup it made.
LEMMA UndoAfterCommit ==
    ASSUME IInv, UndoInv, NEW p \in Procs, pc[p] \in {"install", "open"}, Committed(p), baks' = baks
    PROVE  OneCommandUndo'
<1>1. CASE bak[p] = None
  BY <1>1 DEF Committed, OneCommandUndo
<1>2. CASE bak[p] # None
  <2>1. bak[p] \in Stamp /\ SortsLast(bak[p]) /\ baks[bak[p]] = live /\ undo' = {live}
    BY <1>2 DEF Committed, UndoInv, IInv, TypeOK
  <2>2. QED
    BY <2>1 DEF OneCommandUndo, SortsLast
<1>3. QED
  BY <1>1, <1>2

LEMMA UndoStep ==
    ASSUME SerialInv, UndoInv, SerialNext, now' >= now
    PROVE  UndoInv'
<1> USE DEF SerialInv
<1>1. ASSUME NEW p \in Procs, Alone(p), Step(p)
      PROVE  UndoInv'
  <2>0. now' = now
    BY <1>1 DEF Step, Invoke, Read, BackUp, Install, OpenDirect, WriteDirect, Pick, Restore, Kill
  <2>1. \A q \in Procs \ {p} : pc'[q] = "idle" /\ bak'[q] = bak[q] /\ pc[q] = "idle"
    BY <1>1, StepAlone DEF Alone, Idle
  <2>2. /\ pc'[p] \in {"idle", "read", "backup"} => bak'[p] = None
        /\ \A q \in Procs : pc'[q] \in {"idle", "read", "backup"} => bak'[q] = None
    <3>1. pc'[p] \in {"idle", "read", "backup"} => bak'[p] = None
      BY <1>1 DEF UndoInv, IInv, TypeOK, Step, Invoke, Idle, Read, BackUp, Install, Installed,
         OpenDirect, WriteDirect, Pick, Restore, Kill, End, Goto, Forget, Detach
    <3>2. QED
      BY <2>1, <3>1 DEF UndoInv
  <2>3. ASSUME \A t \in DOMAIN baks' : t <= now',
               pc'[p] \in {"install", "open"} /\ bak'[p] # None =>
                   SortsLast(bak[p])' /\ baks'[bak'[p]] = live',
               OneCommandUndo'
        PROVE  UndoInv'
    BY <2>1, <2>2, <2>3 DEF UndoInv
  <2>4. CASE BackUp(p)
    <3>1. OneCommandUndo'
      BY <2>4 DEF BackUp, OneCommandUndo
    <3>2. \A t \in DOMAIN baks' : t <= now'
      BY <2>0, <2>4, CopyIsNewest DEF BackUp, UndoInv
    <3>3. ASSUME pc'[p] \in {"install", "open"}, bak'[p] # None
          PROVE  SortsLast(bak[p])' /\ baks'[bak'[p]] = live'
      <4>1. bak[p] = None
        BY <2>4 DEF BackUp, UndoInv
      <4>2. Copy(live) /\ bak'[p] = now /\ live' = live
        BY <2>4, <3>3, <4>1 DEF BackUp, IInv, TypeOK
      <4>3. SortsLast(now)' /\ baks'[now] = live
        BY <2>0, <4>2, CopyIsNewest
      <4>4. QED
        BY <2>0, <4>2, <4>3 DEF SortsLast
    <3>4. QED
      BY <2>3, <3>1, <3>2, <3>3
  <2>5. CASE ~BackUp(p)
    <3>1. baks' = baks
      BY <1>1, <2>5 DEF Step, Invoke, Read, Install, OpenDirect, WriteDirect, Pick, Restore, Kill
    <3>2. \A t \in DOMAIN baks' : t <= now'
      BY <2>0, <3>1 DEF UndoInv
    <3>3. OneCommandUndo'
      <4>1. CASE undo' \in {undo, {}}
        BY <3>1, <4>1, UndoKept DEF UndoInv
      <4>2. CASE pc[p] \in {"install", "open"} /\ Committed(p)
        BY <3>1, <4>2, UndoAfterCommit
      <4>3. QED
        BY <1>1, <2>5, <4>1, <4>2 DEF Step, Invoke, Read, Install, OpenDirect, WriteDirect, Pick,
           Restore, Kill, ghosts
    <3>4. ASSUME pc'[p] \in {"install", "open"}, bak'[p] # None
          PROVE  SortsLast(bak[p])' /\ baks'[bak'[p]] = live'
      <4>1. pc[p] = "install" /\ bak'[p] = bak[p] /\ live' = live
        BY <1>1, <2>5, <3>4 DEF Step, Invoke, Read, Install, Installed, Detach, OpenDirect, Idle,
           WriteDirect, Pick, Restore, Kill, End, Goto, Forget, IInv, TypeOK
      <4>2. SortsLast(bak[p]) /\ baks[bak[p]] = live
        BY <3>4, <4>1 DEF UndoInv
      <4>3. QED
        BY <3>1, <4>1, <4>2 DEF SortsLast
    <3>5. QED
      BY <2>3, <3>2, <3>3, <3>4
  <2>6. QED
    BY <2>4, <2>5
<1>2. CASE (\A p \in Procs : Idle(p)) /\ HandEdit
  <2>1. undo' = {} /\ UNCHANGED <<baks, now, pc, bak>>
    BY <1>2 DEF HandEdit, run
  <2>2. QED
    BY <1>2, <2>1 DEF UndoInv, OneCommandUndo, Idle
<1>3. CASE Tick \/ SetBack
  <2>1. now' \in Nat /\ now \in Nat /\ UNCHANGED <<live, baks, pc, bak, undo>>
    BY <1>3 DEF Tick, SetBack, run, ghosts, IInv, TypeOK, Stamp
  <2>2. \A t \in DOMAIN baks : t \in Nat
    BY DEF IInv, TypeOK, Stamp
  <2>3. QED
    BY <2>1, <2>2 DEF UndoInv, OneCommandUndo, SortsLast
<1>4. QED
  BY <1>1, <1>2, <1>3 DEF SerialNext

LEMMA UndoInvInitially == Init => UndoInv
BY DEF Init, UndoInv, OneCommandUndo

LEMMA UndoInvStep ==
    ASSUME SerialInv, UndoInv, [SerialNext]_vars, now' >= now \/ UNCHANGED vars
    PROVE  UndoInv'
<1>1. CASE UNCHANGED vars
  BY <1>1 DEF vars, run, ghosts, UndoInv, OneCommandUndo, SortsLast
<1>2. QED
  BY <1>1, UndoStep

\* As long as nothing else has happened, one rollback undoes the last commit that
\* reported a backup, of runs that do not overlap under a clock that does not
\* step back.
THEOREM UndoneAloneHolds == MCSpec => []UndoneAlone
<1> DEFINE Inv == alone => SerialInv /\ UndoInv
<1>1. MCInit => Inv
  BY SerialInvInitially, UndoInvInitially DEF MCInit
<1>2. Inv /\ [Overlapping \/ Serial]_<<vars, alone>> => Inv'
  <2> SUFFICES ASSUME Inv, [Overlapping \/ Serial]_<<vars, alone>>, alone'
               PROVE  SerialInv' /\ UndoInv'
    OBVIOUS
  <2>1. alone /\ [SerialNext]_vars /\ (now' >= now \/ UNCHANGED vars)
    BY DEF Overlapping, Serial
  <2>2. QED
    BY <2>1, SerialInvStep, UndoInvStep
<1>3. Inv => UndoneAlone
  BY DEF UndoInv, UndoneAlone
<1>4. QED
  BY <1>1, <1>2, <1>3, PTL DEF MCSpec
-----------------------------------------------------------------------------
(***************************************************************************)
(* Runs that do not overlap implement AtomicHosts: what the direct write   *)
(* in progress will leave is the intent, and each step of a run is one     *)
(* change of the file, or none.                                            *)
(***************************************************************************)
LEMMA TheOneChosen ==
    ASSUME NEW f, NEW p \in Procs, f[p] = "write", \A q \in Procs \ {p} : f[q] # "write"
    PROVE  (CHOOSE q \in Procs : f[q] = "write") = p
OBVIOUS

\* The two modules share the data of HostsFile.
LEMMA SameData ==
    /\ \A r, c : Abstract!Edited(r, c) = Edited(r, c)
    /\ Abstract!CutShort = CutShort
    /\ Abstract!Line = Line
    /\ Abstract!Content = Content
BY DEF Abstract!Edited, Edited, Abstract!CutShort, CutShort, Abstract!Line, Line, Abstract!Pair,
       Pair, Abstract!Content, Content

LEMMA NobodyWrites ==
    /\ (\A p \in Procs : pc[p] # "write") => Intent = {}
    /\ (\A p \in Procs : pc'[p] # "write") => Intent' = {}
BY DEF Intent

LEMMA SomebodyWrites ==
    ASSUME NEW p \in Procs, pc[p] = "write", \A q \in Procs \ {p} : pc[q] # "write"
    PROVE  Intent = {Edited(req[p], snap[p])}
<1>1. (CHOOSE q \in Procs : pc[q] = "write") = p
  BY TheOneChosen
<1>2. QED
  BY <1>1 DEF Intent

LEMMA SomebodyWritesNext ==
    ASSUME NEW p \in Procs, pc'[p] = "write", \A q \in Procs \ {p} : pc'[q] # "write"
    PROVE  Intent' = {Edited(req'[p], snap'[p])}
<1>1. (CHOOSE q \in Procs : pc'[q] = "write") = p
  BY TheOneChosen
<1>2. Intent' = {Edited(req'[CHOOSE q \in Procs : pc'[q] = "write"],
                        snap'[CHOOSE q \in Procs : pc'[q] = "write"])}
  BY DEF Intent, Edited
<1>3. QED
  BY <1>1, <1>2

\* A step of a run that leaves the file alone, and is no direct write.
LEMMA NothingHappens ==
    ASSUME UNCHANGED <<live, held>>, \A q \in Procs : pc[q] # "write" /\ pc'[q] # "write"
    PROVE  UNCHANGED (Abstract!vars)
BY NobodyWrites DEF Abstract!vars

LEMMA StepImplements ==
    ASSUME SerialInv, NEW p \in Procs, Alone(p), Step(p)
    PROVE  [Abstract!Next]_(Abstract!vars)
<1> USE DEF SerialInv
<1>1. \A q \in Procs \ {p} : pc[q] = "idle" /\ pc'[q] = "idle"
  BY StepAlone DEF Alone, Idle
<1>2. CASE Invoke(p) \/ Read(p) \/ BackUp(p) \/ Pick(p)
  BY <1>1, <1>2, NothingHappens
     DEF Invoke, Idle, Read, BackUp, Pick, End, Goto, ghosts, IInv, TypeOK
<1>3. CASE Install(p)
  <2>1. \A q \in Procs : pc[q] # "write" /\ pc'[q] # "write"
    BY <1>1, <1>3 DEF Install, Installed, Detach, Goto, End, IInv, TypeOK
  <2>2. CASE UNCHANGED <<live, held>>
    BY <2>1, <2>2, NothingHappens
  <2>3. CASE Becomes(Edited(req[p], snap[p]))
    <3>1. snap[p] = live /\ req[p] \in Requests
      BY <1>3 DEF Install, ReadsCurrent, Idle
    <3>2. Abstract!Becomes(Edited(req[p], live))
      BY <2>3, <3>1 DEF Becomes, Abstract!Becomes
    <3>3. Abstract!Edit
      BY <2>1, <3>1, <3>2, NobodyWrites, SameData DEF Abstract!Edit
    <3>4. QED
      BY <3>3 DEF Abstract!Next
  <2>4. QED
    BY <1>3, <2>2, <2>3 DEF Install
<1>4. CASE OpenDirect(p)
  <2>1. \A q \in Procs : pc[q] # "write"
    BY <1>1, <1>4 DEF OpenDirect
  <2>2. CASE End(p) /\ UNCHANGED <<live, held, undo>>
    BY <1>1, <2>1, <2>2, NothingHappens DEF End, Goto, IInv, TypeOK
  <2>3. CASE Goto(p, "write") /\ Becomes(CutShort) /\ UNCHANGED <<req, dry, snap, bak>>
    <3>1. snap[p] = live /\ req[p] \in Requests
      BY <1>4 DEF OpenDirect, ReadsCurrent, Idle
    <3>2. pc'[p] = "write" /\ \A q \in Procs \ {p} : pc'[q] # "write"
      BY <1>1, <2>3 DEF Goto, IInv, TypeOK
    <3>3. Intent' = {Edited(req'[p], snap'[p])}
      BY <3>2, SomebodyWritesNext
    <3>4. Intent' = {Edited(req[p], live)}
      BY <2>3, <3>1, <3>3
    <3>5. Intent = {} /\ Abstract!Becomes(CutShort)
      BY <2>1, <2>3, NobodyWrites DEF Becomes, Abstract!Becomes
    <3>6. Abstract!Tear
      BY <3>1, <3>4, <3>5, SameData DEF Abstract!Tear
    <3>7. QED
      BY <3>6 DEF Abstract!Next
  <2>4. QED
    BY <1>4, <2>2, <2>3 DEF OpenDirect
<1>5. CASE WriteDirect(p) \/ Kill(p)
  <2>1. \A q \in Procs : pc'[q] # "write"
    BY <1>1, <1>5 DEF WriteDirect, Kill, End, Goto, IInv, TypeOK
  <2>2. CASE pc[p] # "write"
    <3>1. UNCHANGED <<live, held>>
      BY <1>5, <2>2 DEF WriteDirect, Kill, ghosts
    <3>2. QED
      BY <1>1, <2>1, <2>2, <3>1, NothingHappens
  <2>3. CASE pc[p] = "write"
    <3>1. Intent = {Edited(req[p], snap[p])} /\ Intent' = {}
      BY <1>1, <2>1, <2>3, SomebodyWrites, NobodyWrites
    <3>2. CASE Becomes(Edited(req[p], snap[p]))
      <4>1. Abstract!Mend
        BY <3>1, <3>2 DEF Becomes, Abstract!Becomes, Abstract!Mend
      <4>2. QED
        BY <4>1 DEF Abstract!Next
    <3>3. CASE UNCHANGED <<live, held>>
      <4>1. Abstract!GiveUp
        BY <3>1, <3>3 DEF Abstract!GiveUp
      <4>2. QED
        BY <4>1 DEF Abstract!Next
    <3>4. QED
      BY <1>5, <3>2, <3>3 DEF WriteDirect, Kill, ghosts
  <2>4. QED
    BY <2>2, <2>3
<1>6. CASE Restore(p)
  <2>1. \A q \in Procs : pc[q] # "write" /\ pc'[q] # "write"
    BY <1>1, <1>6 DEF Restore, Installed, Detach, Goto, End, IInv, TypeOK
  <2>2. CASE UNCHANGED <<live, held>>
    BY <2>1, <2>2, NothingHappens
  <2>3. CASE Becomes(baks[bak[p]])
    <3>1. baks[bak[p]] \in held \cup {CutShort}
      BY <1>6 DEF Restore, ReadsCurrent, IInv, PickedExists
    <3>2. Abstract!Restore
      BY <2>1, <2>3, <3>1, NobodyWrites, SameData DEF Becomes, Abstract!Becomes, Abstract!Restore
    <3>3. QED
      BY <3>2 DEF Abstract!Next
  <2>4. QED
    BY <1>6, <2>2, <2>3 DEF Restore
<1>7. QED
  BY <1>2, <1>3, <1>4, <1>5, <1>6 DEF Step

LEMMA SerialNextImplements ==
    ASSUME SerialInv, [SerialNext]_vars
    PROVE  [Abstract!Next]_(Abstract!vars)
<1>1. CASE (\A p \in Procs : Idle(p)) /\ HandEdit
  <2>1. Intent = {} /\ Intent' = {}
    BY <1>1, NobodyWrites DEF HandEdit, Idle, run
  <2>2. Abstract!HandEdit
    BY <1>1, <2>1, SameData DEF HandEdit, Becomes, Abstract!HandEdit, Abstract!Becomes
  <2>3. QED
    BY <2>2 DEF Abstract!Next
<1>2. CASE Tick \/ SetBack \/ UNCHANGED vars
  BY <1>2 DEF Tick, SetBack, vars, run, ghosts, Intent, Abstract!vars
<1>3. QED
  BY <1>1, <1>2, StepImplements DEF SerialNext

LEMMA InitImplements == Init => Abstract!Init
BY NobodyWrites, SameData DEF Init, Abstract!Init

\* Without overlap, whoever is killed where, whatever fails, and even if the clock
\* steps back, every change of the hosts file is one that AtomicHosts allows.
THEOREM EditsAreAtomicHolds == SerialSpec => EditsAreAtomic
<1>1. Init => SerialInv /\ Abstract!Init
  BY SerialInvInitially, InitImplements
<1>2. SerialInv /\ [SerialNext]_vars => SerialInv' /\ [Abstract!Next]_(Abstract!vars)
  BY SerialInvStep, SerialNextImplements
<1>3. QED
  BY <1>1, <1>2, PTL DEF SerialSpec, EditsAreAtomic, Abstract!Spec

\* The same in the behaviours the run checks, which are of both kinds.
THEOREM AtomicAloneHolds == MCSpec => AtomicAlone
<1> DEFINE Inv == alone => SerialInv
<1>1. MCInit => Inv /\ Abstract!Init
  BY SerialInvInitially, InitImplements DEF MCInit
<1>2. Inv /\ [Overlapping \/ Serial]_<<vars, alone>>
        => Inv' /\ [alone => [Abstract!Next]_(Abstract!vars)]_(Abstract!vars)
  <2> SUFFICES ASSUME Inv, [Overlapping \/ Serial]_<<vars, alone>>
               PROVE  Inv' /\ (alone => [Abstract!Next]_(Abstract!vars))
    OBVIOUS
  <2>1. alone' = alone /\ (alone => [SerialNext]_vars)
    BY DEF Overlapping, Serial
  <2>2. QED
    BY <2>1, SerialInvStep, SerialNextImplements
<1>3. QED
  BY <1>1, <1>2, PTL DEF MCSpec, AtomicAlone
==============================================================================
