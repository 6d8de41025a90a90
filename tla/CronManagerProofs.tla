-------------------------- MODULE CronManagerProofs --------------------------
(***************************************************************************)
(* Theorems about CronManager: for any number of overlapping runs, and     *)
(* with a `crontab -l' that may fail, names stay unique and the cap holds; *)
(* of runs that do not overlap, the user's lines stay and a commit can be  *)
(* undone.                                                                 *)
(***************************************************************************)
EXTENDS MCCronManager, FiniteSetTheorems, TLAPS

USE BoundsAssumption, NoneAssumption

\* What every table the program reads, stores or loads satisfies.
Good(c) == UniqueIn(c) /\ Cardinality(Managed(c)) <= MaxManaged

\* A picked backup is still there when it is loaded.
PickedExists ==
    \A p \in Procs : pc[p] = "restore" => bak[p] \in DOMAIN baks

IInv ==
    /\ TypeOK
    /\ PickedExists
    /\ Good(tab)
    /\ \A t \in DOMAIN baks : Good(baks[t])
    /\ \A p \in Procs : Good(new[p])

LEMMA EntriesFinite == \A c : IsFiniteSet(Managed(c))
<1>1. IsFiniteSet(Entry)
  BY FiniteAssumption, FS_Product DEF Entry
<1>2. QED
  BY <1>1, FS_Subset DEF Managed

LEMMA EmptyGood == Good({}) /\ {} \in Content
<1>1. Managed({}) = {}
  BY DEF Managed
<1>2. Cardinality({}) = 0
  BY FS_EmptySet
<1>3. QED
  BY <1>1, <1>2 DEF Good, UniqueIn, Named, Content

\* A table with the same managed entries is as good.
LEMMA SameManaged ==
    ASSUME NEW c, NEW d, Good(c), Managed(d) = Managed(c)
    PROVE  Good(d)
BY DEF Good, UniqueIn, Named

\* The checks of add, made on the table that is edited, are all it takes.
LEMMA EditedGood ==
    ASSUME NEW r \in Request, NEW c \in Content, Good(c),
           MayAdd(r, c) \/ MayRemove(r, c)
    PROVE  Good(Edited(r, c)) /\ Edited(r, c) \in Content
<1>1. CASE MayAdd(r, c)
  <2> DEFINE e == <<r.name, r.job>>
  <2>1. r.kind = "add" /\ r.name \in Names /\ r.job \in Jobs
    BY <1>1 DEF MayAdd, Request
  <2>2. e \in Entry
    BY <2>1 DEF Entry
  <2>3. Edited(r, c) = c \cup {e}
    BY <2>1 DEF Edited
  <2>4. Managed(Edited(r, c)) = Managed(c) \cup {e}
    BY <2>2, <2>3 DEF Managed
  <2>5. /\ Cardinality(Managed(c)) \in Nat
        /\ Cardinality(Managed(c) \cup {e}) \in
             {Cardinality(Managed(c)), Cardinality(Managed(c)) + 1}
    <3>1. IsFiniteSet(Managed(c))
      BY EntriesFinite
    <3>2. Cardinality(Managed(c)) \in Nat
      BY <3>1, FS_CardinalityType
    <3>3. Cardinality(Managed(c) \cup {e}) =
            IF e \in Managed(c) THEN Cardinality(Managed(c))
                                ELSE Cardinality(Managed(c)) + 1
      BY <3>1, FS_AddElement
    <3>4. QED
      BY <3>2, <3>3
  <2>6. Cardinality(Managed(Edited(r, c))) <= MaxManaged
    BY <1>1, <2>4, <2>5 DEF MayAdd
  <2>7. UniqueIn(Edited(r, c))
    BY <1>1, <2>1, <2>4 DEF Good, UniqueIn, Named, MayAdd
  <2>8. QED
    BY <2>2, <2>3, <2>6, <2>7 DEF Good, Content
<1>2. CASE MayRemove(r, c)
  <2>1. Edited(r, c) = c \ Named(c, r.name)
    BY <1>2 DEF MayRemove, Edited
  <2>2. Managed(Edited(r, c)) \subseteq Managed(c)
    BY <2>1 DEF Managed
  <2>3. Cardinality(Managed(Edited(r, c))) <= Cardinality(Managed(c))
    BY <2>2, EntriesFinite, FS_Subset
  <2>4. Cardinality(Managed(Edited(r, c))) <= MaxManaged
    BY <2>3, EntriesFinite, FS_CardinalityType DEF Good
  <2>5. UniqueIn(Edited(r, c))
    BY <2>2 DEF Good, UniqueIn, Named
  <2>6. QED
    BY <2>1, <2>4, <2>5 DEF Good, Content
<1>3. QED
  BY <1>1, <1>2

\* A run that ends, for whatever reason, keeps the variables it resets good.
LEMMA EndKeeps ==
    ASSUME IInv, NEW p \in Procs, End(p)
    PROVE  /\ pc' \in [Procs -> Pcs]
           /\ req' \in [Procs -> Request]
           /\ dry' \in [Procs -> BOOLEAN]
           /\ new' \in [Procs -> Content]
           /\ bak' \in [Procs -> Stamp \cup {None}]
           /\ \A q \in Procs : Good(new'[q])
           /\ \A q \in Procs : pc'[q] = "restore" => pc[q] = "restore" /\ bak'[q] = bak[q]
BY EmptyGood DEF IInv, TypeOK, End, Goto, Pcs, NoRequest, Request

\* Whatever a backup ends up holding, the others stay.
LEMMA StoreKeeps ==
    ASSUME IInv, NEW c \in Content, Good(c), Store(c)
    PROVE  /\ DOMAIN baks \subseteq DOMAIN baks'
           /\ DOMAIN baks' \subseteq Stamp
           /\ baks' \in [DOMAIN baks' -> Content]
           /\ \A t \in DOMAIN baks' : Good(baks'[t])
BY DEF IInv, TypeOK, Store

\* A listing is the crontab or, when it fails, the empty one.
LEMMA ListingGood ==
    ASSUME IInv, NEW c \in Listing
    PROVE  c \in Content /\ Good(c)
BY EmptyGood DEF IInv, TypeOK, Listing, CutShort
-----------------------------------------------------------------------------
LEMMA InitGood == Init => IInv
BY EmptyGood
DEF Init, IInv, TypeOK, PickedExists, Good, Stamp, Pcs, NoRequest, Request

LEMMA Inductive ==
    ASSUME IInv, [Next]_vars
    PROVE  IInv'
<1>1. ASSUME NEW p \in Procs, Invoke(p)
      PROVE  IInv'
  BY <1>1 DEF Invoke, IInv, TypeOK, PickedExists, Goto, Pcs
<1>2. ASSUME NEW p \in Procs, Read(p)
      PROVE  IInv'
  <2>1. CASE End(p)
    BY <1>2, <2>1, EndKeeps DEF Read, IInv, TypeOK, PickedExists
  <2>2. CASE ~End(p)
    <3>1. PICK c \in Listing :
            /\ MayAdd(req[p], c) \/ MayRemove(req[p], c)
            /\ Goto(p, "backup")
            /\ new' = [new EXCEPT ![p] = Edited(req[p], c)]
            /\ UNCHANGED <<req, dry, bak>>
      BY <1>2, <2>2 DEF Read
    <3>2. Good(Edited(req[p], c)) /\ Edited(req[p], c) \in Content
      BY <3>1, ListingGood, EditedGood DEF IInv, TypeOK
    <3>3. QED
      BY <1>2, <3>1, <3>2 DEF Read, IInv, TypeOK, PickedExists, Goto, Pcs
  <2>3. QED
    BY <2>1, <2>2
<1>3. ASSUME NEW p \in Procs, BackUp(p)
      PROVE  IInv'
  <2>1. CASE dry[p]
    BY <1>3, <2>1, EndKeeps DEF BackUp, IInv, TypeOK, PickedExists
  <2>2. CASE ~dry[p]
    <3>1. \/ UNCHANGED baks
          \/ \E c \in Content : Good(c) /\ Store(c)
      BY <1>3, <2>2, ListingGood, EmptyGood DEF BackUp, CutShort
    <3>2. /\ DOMAIN baks \subseteq DOMAIN baks'
          /\ DOMAIN baks' \subseteq Stamp
          /\ baks' \in [DOMAIN baks' -> Content]
          /\ \A t \in DOMAIN baks' : Good(baks'[t])
      BY <3>1, StoreKeeps DEF IInv, TypeOK
    <3>3. QED
      BY <1>3, <2>2, <3>2 DEF BackUp, Goto, IInv, TypeOK, PickedExists, Pcs
  <2>3. QED
    BY <2>1, <2>2 DEF IInv, TypeOK
<1>4. ASSUME NEW p \in Procs, Load(p)
      PROVE  IInv'
  BY <1>4, EndKeeps DEF Load, IInv, TypeOK, PickedExists
<1>5. ASSUME NEW p \in Procs, Pick(p)
      PROVE  IInv'
  <2>1. CASE End(p)
    BY <1>5, <2>1, EndKeeps DEF Pick, IInv, TypeOK, PickedExists
  <2>2. CASE ~End(p)
    BY <1>5, <2>2 DEF Pick, SortsLast, Goto, IInv, TypeOK, PickedExists, Pcs
  <2>3. QED
    BY <2>1, <2>2
<1>6. ASSUME NEW p \in Procs, Restore(p)
      PROVE  IInv'
  BY <1>6, EndKeeps DEF Restore, IInv, TypeOK, PickedExists
<1>7. ASSUME NEW p \in Procs, Kill(p)
      PROVE  IInv'
  BY <1>7, EndKeeps DEF Kill, IInv, TypeOK, PickedExists
<1>8. CASE HandEdit
  <2>1. Managed(tab') = Managed(tab)
    BY <1>8, UserLinesAssumption DEF HandEdit, Managed, Entry
  <2>2. Good(tab')
    BY <2>1, SameManaged DEF IInv
  <2>3. QED
    BY <1>8, <2>2 DEF HandEdit, IInv, TypeOK, PickedExists, run, Content
<1>9. CASE Tick
  BY <1>9 DEF Tick, IInv, TypeOK, PickedExists, run, Stamp
<1>10. CASE UNCHANGED vars
  BY <1>10 DEF vars, run, IInv, TypeOK, PickedExists
<1>11. QED
  BY <1>1, <1>2, <1>3, <1>4, <1>5, <1>6, <1>7, <1>8, <1>9, <1>10
  DEF Next, Step

LEMMA Invariance == Spec => []IInv
<1>1. IInv /\ [Next]_vars => IInv'
  BY Inductive
<1>2. QED
  BY <1>1, InitGood, PTL DEF Spec

\* Every variable keeps its type.
THEOREM TypeCorrect == Spec => []TypeOK
BY Invariance, PTL DEF IInv

\* However many adds overlap, no name is ever given twice.
THEOREM UniqueNamesHolds == Spec => []UniqueNames
<1>1. IInv => UniqueNames
  BY DEF IInv, Good, UniqueNames
<1>2. QED
  BY Invariance, <1>1, PTL

\* However many adds race for the last place, the cap is never exceeded.
THEOREM WithinCapHolds == Spec => []WithinCap
<1>1. IInv => WithinCap
  BY DEF IInv, Good, WithinCap
<1>2. QED
  BY Invariance, <1>1, PTL
-----------------------------------------------------------------------------
(***************************************************************************)
(* Runs that do not overlap, with a `crontab -l' that does what it says.   *)
(***************************************************************************)
OneAtATime == \A p, q \in Procs : ~Idle(p) /\ ~Idle(q) => p = q

\* What a run is about to load is the edit it was asked for, of the crontab.
Intends(p) ==
    /\ MayAdd(req[p], tab) \/ MayRemove(req[p], tab)
    /\ new[p] = Edited(req[p], tab)

\* What the run that is alive knows of the crontab is still so when it loads.
\* The newest backup is the last one made: the one this run is about to report,
\* or the one its undo rests on.
AloneInv ==
    /\ OneAtATime
    /\ \A t \in DOMAIN baks : t <= now
    /\ \A p \in Procs : pc[p] \in {"idle", "read", "backup"} => bak[p] = None
    /\ \A p \in Procs : pc[p] \in {"backup", "load"} => Intends(p)
    /\ \A p \in Procs : pc[p] = "restore" => SortsLast(bak[p])
    /\ \A p \in Procs :
         pc[p] = "load" /\ bak[p] # None => SortsLast(bak[p]) /\ baks[bak[p]] = tab
    /\ OneCommandUndo

MCInv == IInv /\ (alone => AloneInv)

\* No edit of managed entries touches a line of the user.
LEMMA EditKeepsLines ==
    ASSUME NEW r \in Request, NEW c \in Content
    PROVE  Edited(r, c) \cap UserLines = c \cap UserLines
<1>1. Named(c, r.name) \cap UserLines = {}
  BY UserLinesAssumption DEF Named, Managed, Entry
<1>2. r.kind = "add" => <<r.name, r.job>> \in Entry
  BY DEF Request, Entry
<1>3. QED
  BY <1>1, <1>2, UserLinesAssumption DEF Edited, Entry

\* A backup made now is the newest, and the older ones are what they were.
LEMMA StoreIsNewest ==
    ASSUME IInv, AloneInv, NEW c, Store(c), now' = now
    PROVE  SortsLast(now)' /\ baks'[now] = c /\ \A t \in DOMAIN baks' : t <= now'
BY DEF Store, SortsLast, AloneInv, IInv, TypeOK, Stamp

LEMMA IntendsKept ==
    ASSUME NEW p \in Procs, Intends(p),
           req'[p] = req[p], new'[p] = new[p], tab' = tab
    PROVE  Intends(p)'
<1>1. MayAdd(req[p], tab)' <=> MayAdd(req[p], tab)
  BY DEF MayAdd, Named, Managed
<1>2. MayRemove(req[p], tab)' <=> MayRemove(req[p], tab)
  BY DEF MayRemove, Named, Managed
<1>3. Edited(req[p], tab)' = Edited(req[p], tab)
  BY DEF Edited, Named, Managed
<1>4. QED
  BY <1>1, <1>2, <1>3 DEF Intends

LEMMA UndoKept ==
    ASSUME OneCommandUndo, baks' = baks, undo' \in {undo, {}}
    PROVE  OneCommandUndo'
BY DEF OneCommandUndo, SortsLast

\* A commit rests on the backup it made.
LEMMA UndoAfterLoad ==
    ASSUME IInv, AloneInv, NEW p \in Procs, Load(p)
    PROVE  OneCommandUndo'
<1>1. CASE undo' \in {undo, {}}
  BY <1>1, UndoKept DEF Load, AloneInv
<1>2. CASE undo' \notin {undo, {}}
  <2>1. undo' = {tab} /\ bak[p] # None /\ pc[p] = "load" /\ baks' = baks
    BY <1>2 DEF Load
  <2>2. bak[p] \in Stamp /\ SortsLast(bak[p]) /\ baks[bak[p]] = tab
    BY <2>1 DEF AloneInv, IInv, TypeOK
  <2>3. QED
    BY <2>1, <2>2 DEF OneCommandUndo, SortsLast
<1>3. QED
  BY <1>1, <1>2

\* The one run that is alive is the one that steps; the others stay idle.
LEMMA StepAlone ==
    ASSUME IInv, OneAtATime, NEW p \in Procs, Step(p),
           AllIdle \/ (runs' = runs /\ handEdits' = handEdits)
    PROVE  /\ \A q \in Procs \ {p} : pc[q] = "idle" /\ pc'[q] = "idle" /\ bak'[q] = bak[q]
           /\ OneAtATime'
<1>1. \A q \in Procs \ {p} : pc'[q] = pc[q] /\ bak'[q] = bak[q]
  BY DEF Step, Invoke, Read, BackUp, Load, Pick, Restore, Kill, End, Goto, IInv, TypeOK
<1>2. CASE Invoke(p)
  <2>1. runs' # runs
    BY <1>2 DEF Invoke, IInv, TypeOK
  <2>2. QED
    BY <1>1, <2>1 DEF AllIdle, Idle, OneAtATime
<1>3. CASE ~Invoke(p)
  <2>1. ~Idle(p)
    BY <1>3 DEF Step, Read, BackUp, Load, Pick, Restore, Kill, Idle
  <2>2. QED
    BY <1>1, <2>1 DEF Idle, OneAtATime
<1>4. QED
  BY <1>2, <1>3

\* What a run knows stays so while the crontab, the backups and the runs stay.
LEMMA AloneKept ==
    ASSUME AloneInv, UNCHANGED <<tab, baks, run, undo>>, \A t \in DOMAIN baks : t <= now'
    PROVE  AloneInv'
<1>1. \A p \in Procs : pc'[p] \in {"backup", "load"} => Intends(p)'
  BY IntendsKept DEF AloneInv, run
<1>2. QED
  BY <1>1 DEF run, AloneInv, OneAtATime, OneCommandUndo, SortsLast, Idle

LEMMA AloneStep ==
    ASSUME IInv, AloneInv, Next, ListedRight,
           AllIdle \/ (runs' = runs /\ handEdits' = handEdits)
    PROVE  AloneInv'
<1>1. ASSUME NEW p \in Procs, Step(p)
      PROVE  AloneInv'
  <2>1. /\ \A q \in Procs \ {p} : pc[q] = "idle" /\ pc'[q] = "idle" /\ bak'[q] = bak[q]
        /\ OneAtATime'
    BY <1>1, StepAlone DEF AloneInv
  <2>2. now' = now
    BY <1>1 DEF Step, Invoke, Read, BackUp, Load, Pick, Restore, Kill
  <2>3. pc'[p] \in {"idle", "read", "backup"} => bak'[p] = None
    BY <1>1 DEF AloneInv, IInv, TypeOK, Step, Invoke, Read, BackUp, Load, Pick, Restore,
       Kill, End, Goto, Idle
  <2>4. pc'[p] \in {"backup", "load"} => Intends(p)'
    <3>1. CASE Read(p)
      <4>1. tab' = tab /\ pc[p] = "read"
        BY <3>1 DEF Read
      <4>2. pc'[p] = "load" => FALSE
        BY <3>1 DEF Read, Goto, End, IInv, TypeOK
      <4>3. pc'[p] = "backup" => req'[p] = req[p]
        BY <3>1, <4>1 DEF Read, Goto, End, IInv, TypeOK
      <4>4. QED
        BY <4>1, <4>2, <4>3
           DEF ListedRight, Intends, Edited, MayAdd, MayRemove, Named, Managed
    <3>2. CASE ~Read(p)
      <4>1. pc'[p] \in {"backup", "load"} =>
               /\ pc[p] \in {"backup", "load"}
               /\ req'[p] = req[p] /\ new'[p] = new[p] /\ tab' = tab
        BY <1>1, <3>2 DEF IInv, TypeOK, Step, Invoke, BackUp, Load, Pick, Restore, Kill,
           End, Goto, Idle
      <4>2. QED
        BY <4>1, IntendsKept DEF AloneInv
    <3>3. QED
      BY <3>1, <3>2
  <2>5. ASSUME \A t \in DOMAIN baks' : t <= now',
               pc'[p] = "load" /\ bak'[p] # None =>
                   SortsLast(bak[p])' /\ baks'[bak'[p]] = tab',
               OneCommandUndo'
        PROVE  AloneInv'
    <3>1. pc'[p] = "restore" => SortsLast(bak[p])'
      BY <1>1 DEF Step, Invoke, Read, BackUp, Load, Pick, Restore, Kill, End, Goto, Idle,
         SortsLast, AloneInv, IInv, TypeOK
    <3>2. QED
      BY <2>1, <2>3, <2>4, <2>5, <3>1 DEF AloneInv
  <2>6. CASE BackUp(p)
    <3>1. CASE dry[p]
      <4>1. baks' = baks /\ undo' = undo /\ pc'[p] = "idle"
        BY <2>6, <3>1 DEF BackUp, End, Goto, IInv, TypeOK
      <4>2. QED
        BY <4>1, <2>2, <2>5, UndoKept DEF AloneInv
    <3>2. CASE ~dry[p]
      <4>1. OneCommandUndo'
        BY <2>6, <3>2 DEF BackUp, OneCommandUndo
      <4>2. \A t \in DOMAIN baks' : t <= now'
        BY <2>2, <2>6, <3>2, StoreIsNewest DEF BackUp, AloneInv
      <4>3. ASSUME bak'[p] # None
            PROVE  SortsLast(bak[p])' /\ baks'[bak'[p]] = tab'
        <5>1. pc[p] = "backup" /\ bak[p] = None /\ tab' = tab
          BY <2>6 DEF BackUp, AloneInv
        <5>2. /\ bak' = [bak EXCEPT ![p] = now]
              /\ \E c \in Listing : Store(c)
          BY <2>6, <3>2, <4>3, <5>1 DEF BackUp
        <5>3. bak'[p] = now
          BY <5>2 DEF IInv, TypeOK
        <5>4. SortsLast(now)'
          BY <2>2, <5>2, StoreIsNewest
        <5>5. baks'[now] = tab
          BY <4>3, <5>1 DEF ListedRight
        <5>6. QED
          BY <2>2, <5>1, <5>3, <5>4, <5>5 DEF SortsLast
      <4>4. QED
        BY <4>1, <4>2, <4>3, <2>5
    <3>3. QED
      BY <3>1, <3>2
  <2>7. CASE Load(p)
    <3>1. pc'[p] = "idle" /\ baks' = baks
      BY <2>7 DEF Load, End, Goto, IInv, TypeOK
    <3>2. QED
      BY <2>7, <3>1, <2>2, <2>5, UndoAfterLoad DEF AloneInv
  <2>8. CASE Invoke(p) \/ Read(p) \/ Pick(p) \/ Restore(p) \/ Kill(p)
    <3>1. baks' = baks /\ undo' \in {undo, {}}
      BY <2>8 DEF Invoke, Read, Pick, Restore, Kill
    <3>2. pc'[p] # "load"
      BY <2>8 DEF Invoke, Read, Pick, Restore, Kill, End, Goto, Idle, IInv, TypeOK
    <3>3. QED
      BY <3>1, <3>2, <2>2, <2>5, UndoKept DEF AloneInv
  <2>9. QED
    BY <1>1, <2>6, <2>7, <2>8 DEF Step
<1>2. CASE HandEdit
  <2>1. AllIdle
    BY <1>2 DEF HandEdit, IInv, TypeOK
  <2>2. OneCommandUndo'
    BY <1>2 DEF HandEdit, OneCommandUndo
  <2>3. QED
    BY <1>2, <2>1, <2>2 DEF HandEdit, run, AloneInv, OneAtATime, AllIdle, Idle
<1>3. CASE Tick
  <2>1. \A t \in DOMAIN baks : t <= now'
    BY <1>3 DEF Tick, AloneInv, IInv, TypeOK, Stamp
  <2>2. QED
    BY <1>3, <2>1, AloneKept DEF Tick
<1>4. QED
  BY <1>1, <1>2, <1>3 DEF Next

LEMMA AloneInvariance == MCSpec => []MCInv
<1>1. MCInit => MCInv
  <2> SUFFICES ASSUME MCInit PROVE MCInv
    OBVIOUS
  <2>1. IInv
    BY InitGood DEF MCInit
  <2>2. AloneInv
    BY DEF MCInit, Init, AloneInv, OneAtATime, OneCommandUndo, Idle
  <2>3. QED
    BY <2>1, <2>2 DEF MCInv
<1>2. MCInv /\ [Overlapping \/ Serial]_<<vars, alone>> => MCInv'
  <2> SUFFICES ASSUME MCInv, [Overlapping \/ Serial]_<<vars, alone>>
               PROVE  MCInv'
    OBVIOUS
  <2>1. IInv'
    BY Inductive DEF MCInv, Overlapping, Serial
  <2>2. CASE Serial
    BY <2>1, <2>2, AloneStep DEF Serial, MCInv
  <2>3. CASE Overlapping
    BY <2>1, <2>3 DEF Overlapping, MCInv
  <2>4. CASE UNCHANGED <<vars, alone>>
    BY <2>1, <2>4, AloneKept DEF vars, MCInv, AloneInv
  <2>5. QED
    BY <2>2, <2>3, <2>4
<1>3. QED
  BY <1>1, <1>2, PTL DEF MCSpec

\* Of runs that do not overlap: one rollback undoes the last commit that reported
\* a backup, as long as nothing else has happened.
THEOREM UndoneAloneHolds == MCSpec => []UndoneAlone
<1>1. MCInv => UndoneAlone
  BY DEF MCInv, AloneInv, UndoneAlone
<1>2. QED
  BY <1>1, AloneInvariance, PTL
-----------------------------------------------------------------------------
(***************************************************************************)
(* Runs that do not overlap implement AtomicCron: the load of an add, a    *)
(* remove or a rollback is one change of the crontab, the backup before it *)
(* one copy, and every other step of a run changes nothing.                *)
(***************************************************************************)
Copies == {baks[t] : t \in DOMAIN baks}

LEMMA SameCardinality ==
    ASSUME NEW S
    PROVE  Abstract!Cardinality(S) = Cardinality(S)
BY DEF Abstract!Cardinality, Cardinality

LEMMA EntriesNamed ==
    ASSUME NEW n \in Names, NEW c
    PROVE  /\ Named(c, n) = c \cap Abstract!Entries(n)
           /\ c \ Named(c, n) = c \ Abstract!Entries(n)
BY DEF Named, Managed, Entry, Abstract!Entries

\* A copy is added, or takes the place of another.
LEMMA StoreCopies ==
    ASSUME NEW c, Store(c)
    PROVE  Copies' \subseteq Copies \cup {c}
BY DEF Store, Copies

\* What a backup in progress leaves.
LEMMA BackUpImplements ==
    ASSUME IInv, AloneInv, ListedRight, NEW p \in Procs, BackUp(p)
    PROVE  [Abstract!Next]_(Abstract!vars)
<1>1. CASE dry[p]
  BY <1>1 DEF BackUp, Abstract!vars
<1>2. CASE ~dry[p]
  <2>1. undo' = {} /\ tab' = tab
    BY <1>2 DEF BackUp
  <2>2. Copies' \subseteq Copies \cup {tab, {}}
    <3>1. CASE \E c \in Listing : Store(c)
      BY <3>1, StoreCopies DEF Listing, CutShort
    <3>2. CASE Store(CutShort)
      BY <3>2, StoreCopies DEF CutShort
    <3>3. CASE UNCHANGED baks
      BY <3>3 DEF Copies
    <3>4. QED
      BY <1>2, <3>1, <3>2, <3>3 DEF BackUp
  <2>3. Abstract!Copy
    BY <2>1, <2>2 DEF Abstract!Copy, Copies
  <2>4. QED
    BY <2>3 DEF Abstract!Next
<1>3. QED
  BY <1>1, <1>2

LEMMA LoadImplements ==
    ASSUME IInv, AloneInv, NEW p \in Procs, Load(p)
    PROVE  [Abstract!Next]_(Abstract!vars)
<1>1. CASE UNCHANGED <<tab, undo>>
  BY <1>1 DEF Load, Abstract!vars
<1>2. CASE /\ tab' = new[p]
           /\ undo' = IF bak[p] = None THEN {} ELSE {tab}
  <2>1. baks' = baks /\ pc[p] = "load" /\ req[p] \in Request
    BY DEF Load, IInv, TypeOK
  <2>2. Intends(p)
    BY <2>1 DEF AloneInv
  <2>3. undo' \in {{}, {tab}} /\ undo' \subseteq Copies
    BY <1>2, <2>1 DEF AloneInv, SortsLast, Copies
  <2>4. Abstract!Commit(Edited(req[p], tab))
    BY <1>2, <2>1, <2>2, <2>3 DEF Intends, Abstract!Commit, Copies
  <2>5. CASE MayAdd(req[p], tab)
    <3>1. req[p].name \in Names /\ req[p].job \in Jobs
      BY <2>1, <2>5 DEF MayAdd, Request
    <3>2. Edited(req[p], tab) = tab \cup {<<req[p].name, req[p].job>>}
      BY <2>5 DEF MayAdd, Edited
    <3>3. tab \cap Abstract!Entries(req[p].name) = {}
      BY <2>5, <3>1, EntriesNamed DEF MayAdd
    <3>4. Cardinality(tab \cap (Names \X Jobs)) < MaxManaged
      BY <2>5 DEF MayAdd, Managed, Entry
    <3>5. Abstract!Add
      <4>1. Abstract!Commit(tab \cup {<<req[p].name, req[p].job>>})
        BY <2>4, <3>2 DEF Abstract!Commit
      <4>2. QED
        BY <3>1, <3>3, <3>4, <4>1, SameCardinality DEF Abstract!Add
    <3>6. QED
      BY <3>5 DEF Abstract!Next
  <2>6. CASE MayRemove(req[p], tab)
    <3>1. req[p].name \in Names /\ req[p].kind # "add"
      BY <2>1, <2>6 DEF MayRemove, Request
    <3>2. Abstract!Remove
      BY <2>4, <2>6, <3>1, EntriesNamed DEF MayRemove, Edited, Abstract!Remove
    <3>3. QED
      BY <3>2 DEF Abstract!Next
  <2>7. QED
    BY <2>2, <2>5, <2>6 DEF Intends
<1>3. QED
  BY <1>1, <1>2 DEF Load

\* Two backups cannot both be the newest, so the one picked is the one the last
\* commit rests on.
LEMMA RestoreImplements ==
    ASSUME IInv, AloneInv, NEW p \in Procs, Restore(p)
    PROVE  [Abstract!Next]_(Abstract!vars)
<1>1. CASE UNCHANGED <<tab, undo>>
  BY <1>1 DEF Restore, Abstract!vars
<1>2. CASE tab' = baks[bak[p]] /\ undo' = {}
  <2>1. baks' = baks /\ SortsLast(bak[p])
    BY DEF Restore, AloneInv
  <2>2. baks[bak[p]] \in Copies
    BY <2>1 DEF SortsLast, Copies
  <2>3. ASSUME NEW c \in undo
        PROVE  baks[bak[p]] = c
    <3>1. PICK t \in Stamp : SortsLast(t) /\ baks[t] = c
      BY DEF AloneInv, OneCommandUndo
    <3>2. t = bak[p]
      BY <2>1, <3>1 DEF SortsLast, IInv, TypeOK, Stamp
    <3>3. QED
      BY <3>1, <3>2
  <2>4. Abstract!Restore
    BY <1>2, <2>1, <2>2, <2>3 DEF Abstract!Restore, Copies
  <2>5. QED
    BY <2>4 DEF Abstract!Next
<1>3. QED
  BY <1>1, <1>2 DEF Restore

LEMMA AloneImplements ==
    ASSUME IInv, AloneInv, ListedRight, Next
    PROVE  [Abstract!Next]_(Abstract!vars)
<1>1. ASSUME NEW p \in Procs, Invoke(p) \/ Read(p) \/ Pick(p) \/ Kill(p)
      PROVE  UNCHANGED (Abstract!vars)
  BY <1>1 DEF Invoke, Read, Pick, Kill, Abstract!vars
<1>2. CASE HandEdit
  <2>1. Abstract!HandEdit
    BY <1>2 DEF HandEdit, Abstract!HandEdit
  <2>2. QED
    BY <2>1 DEF Abstract!Next
<1>3. CASE Tick
  BY <1>3 DEF Tick, Abstract!vars
<1>4. QED
  BY <1>1, <1>2, <1>3, BackUpImplements, LoadImplements, RestoreImplements DEF Next, Step

LEMMA InitImplements == Init => Abstract!Init
BY DEF Init, Content, Entry, Abstract!Init

\* In the behaviours the run checks, which are of both kinds: without overlap,
\* whoever is killed where, each change of the crontab is one of AtomicCron.
THEOREM AtomicAloneHolds == MCSpec => AtomicAlone
<1>1. MCInit => Abstract!Init
  BY InitImplements DEF MCInit
<1>2. MCInv /\ [Overlapping \/ Serial]_<<vars, alone>>
        => [alone => [Abstract!Next]_(Abstract!vars)]_(Abstract!vars)
  <2> SUFFICES ASSUME MCInv, [Overlapping \/ Serial]_<<vars, alone>>, alone
               PROVE  [Abstract!Next]_(Abstract!vars)
    OBVIOUS
  <2>1. CASE Serial
    BY <2>1, AloneImplements DEF Serial, MCInv
  <2>2. CASE UNCHANGED <<vars, alone>>
    BY <2>2 DEF vars, Abstract!vars
  <2>3. QED
    BY <2>1, <2>2 DEF Overlapping
<1>3. QED
  BY <1>1, <1>2, AloneInvariance, PTL DEF MCSpec, AtomicAlone
-----------------------------------------------------------------------------
(***************************************************************************)
(* The same of the specification itself, if its constants say that runs do *)
(* not overlap and that `crontab -l' does not fail.                        *)
(***************************************************************************)
LEMMA ListsRight ==
    ASSUME ~ReadMayFail, IInv, AloneInv, Next
    PROVE  ListedRight
<1> SUFFICES ASSUME NEW p \in Procs
             PROVE  /\ pc[p] = "read" /\ pc'[p] = "backup" =>
                          /\ MayAdd(req[p], tab) \/ MayRemove(req[p], tab)
                          /\ new'[p] = Edited(req[p], tab)
                    /\ pc[p] = "backup" /\ bak'[p] # None =>
                          now \in DOMAIN baks' /\ baks'[now] = tab
  BY DEF ListedRight
<1> USE DEF IInv, TypeOK
<1>1. CASE ~\E q \in Procs : Step(q)
  BY <1>1 DEF Next, HandEdit, Tick, run, AloneInv
<1>2. ASSUME NEW q \in Procs, Step(q), q # p
      PROVE  pc'[p] = pc[p] /\ bak'[p] = bak[p]
  BY <1>2 DEF Step, Invoke, Read, BackUp, Load, Pick, Restore, Kill, End, Goto
<1>3. CASE Step(p)
  <2>1. CASE Read(p)
    <3>1. pc[p] = "read" /\ Listing = {tab}
      BY <2>1 DEF Read, Listing
    <3>2. QED
      BY <2>1, <3>1 DEF Read, Goto, End
  <2>2. CASE BackUp(p)
    <3>1. pc[p] = "backup" /\ bak[p] = None /\ Listing = {tab}
      BY <2>2 DEF BackUp, Listing, AloneInv
    <3>2. bak'[p] # None => Store(tab)
      BY <2>2, <3>1 DEF BackUp, End
    <3>3. QED
      BY <3>1, <3>2 DEF Store
  <2>3. CASE ~Read(p) /\ ~BackUp(p)
    BY <1>3, <2>3 DEF Step, Invoke, Load, Pick, Restore, Kill, End, Goto, Idle
  <2>4. QED
    BY <2>1, <2>2, <2>3
<1>4. QED
  BY <1>1, <1>2, <1>3 DEF AloneInv

LEMMA QuietInvariance ==
    ASSUME ~Overlap, ~ReadMayFail
    PROVE  Spec => [](IInv /\ AloneInv)
<1>1. Init => IInv /\ AloneInv
  BY InitGood DEF Init, AloneInv, OneAtATime, OneCommandUndo, Idle
<1>2. ASSUME IInv, AloneInv, Next
      PROVE  AllIdle \/ (runs' = runs /\ handEdits' = handEdits)
  BY <1>2 DEF Next, Step, Invoke, Read, BackUp, Load, Pick, Restore, Kill, HandEdit, Tick
<1>3. IInv /\ AloneInv /\ [Next]_vars => IInv' /\ AloneInv'
  <2>1. IInv /\ AloneInv /\ UNCHANGED vars => AloneInv'
    BY AloneKept DEF vars, AloneInv
  <2>2. QED
    BY <1>2, <2>1, Inductive, AloneStep, ListsRight
<1>4. QED
  BY <1>1, <1>3, PTL DEF Spec

\* Without overlap, and with listings that do not fail, no add and no remove is
\* about to lose a line of the user.
THEOREM UserLinesKeptHolds ==
    ASSUME ~Overlap, ~ReadMayFail
    PROVE  Spec => []UserLinesKept
<1>1. IInv /\ AloneInv => UserLinesKept
  BY EditKeepsLines DEF IInv, TypeOK, AloneInv, Intends, UserLinesKept
<1>2. QED
  BY <1>1, QuietInvariance, PTL

\* Without overlap, and with listings that do not fail, one rollback undoes the
\* last commit that reported a backup.
THEOREM OneCommandUndoHolds ==
    ASSUME ~Overlap, ~ReadMayFail
    PROVE  Spec => []OneCommandUndo
<1>1. AloneInv => OneCommandUndo
  BY DEF AloneInv
<1>2. QED
  BY <1>1, QuietInvariance, PTL

\* Without overlap, and with listings that do not fail, the runs implement
\* AtomicCron.
THEOREM RunsAreAtomic ==
    ASSUME ~Overlap, ~ReadMayFail
    PROVE  Spec => Abstract!Spec
<1>1. Init => Abstract!Init
  BY InitImplements
<1>2. IInv /\ AloneInv /\ [Next]_vars => [Abstract!Next]_(Abstract!vars)
  <2>1. UNCHANGED vars => UNCHANGED (Abstract!vars)
    BY DEF vars, Abstract!vars
  <2>2. QED
    BY <2>1, ListsRight, AloneImplements
<1>3. QED
  BY <1>1, <1>2, QuietInvariance, PTL DEF Spec, Abstract!Spec
==============================================================================
