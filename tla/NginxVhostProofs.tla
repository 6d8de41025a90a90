-------------------------- MODULE NginxVhostProofs --------------------------
(***************************************************************************)
(* Theorems about NginxVhost: for any number of overlapping runs on any    *)
(* names, the marker protects the administrator's vhosts, as long as the   *)
(* administrator leaves a name alone that a run works on.                  *)
(***************************************************************************)
EXTENDS NginxVhost, TLAPS

USE VhostAssumption

ApplyCalls == {"check_source", "stage", "install", "write", "link"}

RemoveCalls == {"rm_site", "rm_avail"}

\* The calls after the target's marker was looked at.
Replacing == {"stage", "install", "write", "rm_site", "rm_avail"}

\* A run makes the calls of what it was asked.
CallsMatch(p) ==
    /\ pc[p] \in ApplyCalls => req[p].kind = "apply"
    /\ pc[p] \in RemoveCalls => req[p].kind = "remove"
    /\ pc[p] # "idle" => req[p] \in Request

\* What a run has checked is still true when it acts on it.
StillMayReplace(p) == pc[p] \in Replacing => avail[Name(p)] # External

StillMayApply(p) ==
    /\ req[p].kind = "apply" /\ pc[p] \in {"check_avail", "stage", "install"} =>
         source[Name(p)] # External
    /\ staged[p] # External

\* What holds whoever races with whom.
Typed == TypeOK /\ \A p \in Procs : CallsMatch(p)

IInv ==
    /\ Typed
    /\ \A p \in Procs : StillMayReplace(p) /\ StillMayApply(p)
    /\ AdminVhostKept
    /\ OnlyGeneratedInstalled

LEMMA Requests ==
    ASSUME NEW r \in Request
    PROVE  r.kind \in {"apply", "remove"} /\ r.name \in Names
BY DEF Request

THEOREM Initially == Init => IInv
<1> SUFFICES ASSUME Init PROVE IInv
  OBVIOUS
<1>1. TypeOK
  BY DEF Init, TypeOK, Vhost, File, Body, Sites, Pcs
<1>2. ASSUME NEW p \in Procs
      PROVE  CallsMatch(p) /\ StillMayReplace(p) /\ StillMayApply(p)
  BY DEF Init, CallsMatch, StillMayReplace, StillMayApply, ApplyCalls, RemoveCalls,
         Replacing, NoRequest
<1>3. QED
  BY <1>1, <1>2 DEF IInv, Typed, Init, AdminVhostKept, OnlyGeneratedInstalled

\* A run that goes on to another call, and leaves the files alone.
LEMMA GotoKeeps ==
    ASSUME Typed, NEW p \in Procs, NEW l \in Pcs \ {"idle"}, Goto(p, l), ~Idle(p),
           l \in ApplyCalls => req[p].kind = "apply",
           l \in RemoveCalls => req[p].kind = "remove"
    PROVE  /\ pc' \in [Procs -> Pcs]
           /\ req' \in [Procs -> {NoRequest} \cup Request]
           /\ undisturbed' \in [Procs -> BOOLEAN]
           /\ runs' \in Nat /\ outside' \in Nat /\ said' = {}
           /\ \A q \in Procs : CallsMatch(q)'
<1>1. ASSUME NEW q \in Procs PROVE CallsMatch(q)'
  BY DEF Typed, TypeOK, Goto, Idle, CallsMatch, ApplyCalls, RemoveCalls
<1>2. undisturbed' \in [Procs -> BOOLEAN]
  BY DEF Typed, TypeOK, Goto, Disturb
<1>3. QED
  BY <1>1, <1>2 DEF Typed, TypeOK, Goto

\* A run that ends.
LEMMA EndKeeps ==
    ASSUME Typed, NEW p \in Procs, NEW r, EndSaying(p, r)
    PROVE  /\ pc' \in [Procs -> Pcs]
           /\ req' \in [Procs -> {NoRequest} \cup Request]
           /\ staged' \in [Procs -> File]
           /\ rms' \in [Procs -> SUBSET Outcomes]
           /\ undisturbed' \in [Procs -> BOOLEAN]
           /\ runs' \in Nat /\ outside' \in Nat /\ said' = r
           /\ \A q \in Procs : CallsMatch(q)'
<1>1. ASSUME NEW q \in Procs PROVE CallsMatch(q)'
  BY DEF Typed, TypeOK, EndSaying, CallsMatch, ApplyCalls, RemoveCalls
<1>2. undisturbed' \in [Procs -> BOOLEAN]
  BY DEF Typed, TypeOK, EndSaying
<1>3. pc' \in [Procs -> Pcs] /\ req' \in [Procs -> {NoRequest} \cup Request]
  BY DEF Typed, TypeOK, EndSaying, Pcs
<1>4. staged' \in [Procs -> File] /\ rms' \in [Procs -> SUBSET Outcomes]
  BY DEF Typed, TypeOK, EndSaying, File
<1>5. QED
  BY <1>1, <1>2, <1>3, <1>4 DEF Typed, TypeOK, EndSaying

\* The last words of a run are typed.
LEMMA LastWords ==
    ASSUME Typed, NEW p \in Procs, ~Idle(p), NEW result \in Results,
           NEW done \in SUBSET Outcomes, Report(p, result, done)
    PROVE  /\ said' \subseteq [req : Request, result : Results, rm : SUBSET Outcomes,
                               undisturbed : BOOLEAN]
           /\ \E r : EndSaying(p, r)
<1> DEFINE m == [req |-> req[p], result |-> result, rm |-> done,
                 undisturbed |-> undisturbed[p]]
<1>1. EndSaying(p, {m})
  BY DEF Report
<1>2. req[p] \in Request /\ undisturbed[p] \in BOOLEAN
  BY DEF Typed, TypeOK, CallsMatch, Idle
<1>3. m \in [req : Request, result : Results, rm : SUBSET Outcomes, undisturbed : BOOLEAN]
  BY <1>2
<1> HIDE DEF m
<1>4. said' = {m}
  BY <1>1 DEF EndSaying
<1>5. QED
  BY <1>1, <1>3, <1>4

\* While the files, and the other runs' temporary files, stay as they are, what
\* runs have checked stays true of those that do not move on.
LEMMA ReportStep ==
    ASSUME IInv, NEW p \in Procs, ~Idle(p), NEW result \in Results,
           NEW done \in SUBSET Outcomes, Report(p, result, done),
           UNCHANGED <<source, avail, site, harm>>, served' \in [Names -> Vhost]
    PROVE  IInv'
<1>1. PICK r : EndSaying(p, r)
  BY LastWords DEF IInv
<1>2. said' \subseteq [req : Request, result : Results, rm : SUBSET Outcomes,
                       undisturbed : BOOLEAN]
  BY LastWords DEF IInv
<1>3. TypeOK'
  BY <1>1, <1>2, EndKeeps DEF IInv, Typed, TypeOK
<1>4. ASSUME NEW q \in Procs PROVE StillMayReplace(q)' /\ StillMayApply(q)'
  BY <1>1 DEF IInv, Typed, TypeOK, EndSaying, StillMayReplace, StillMayApply, Name,
              Replacing, NoRequest
<1>5. QED
  BY <1>1, <1>3, <1>4, EndKeeps DEF IInv, Typed, AdminVhostKept, OnlyGeneratedInstalled

LEMMA EndStep ==
    ASSUME IInv, NEW p \in Procs, ~Idle(p), NEW result \in Results, End(p, result),
           UNCHANGED <<source, avail, site, harm>>, served' \in [Names -> Vhost]
    PROVE  IInv'
<1>1. rms[p] \in SUBSET Outcomes
  BY DEF IInv, Typed, TypeOK
<1>2. QED
  BY <1>1, ReportStep DEF End

LEMMA KillStep ==
    ASSUME IInv, NEW p \in Procs, Kill(p)
    PROVE  IInv'
<1>1. EndSaying(p, {}) /\ UNCHANGED <<files, harm>>
  BY DEF Kill
<1>2. TypeOK'
  BY <1>1, EndKeeps DEF IInv, Typed, TypeOK, files
<1>3. ASSUME NEW q \in Procs PROVE StillMayReplace(q)' /\ StillMayApply(q)'
  BY <1>1 DEF IInv, Typed, TypeOK, EndSaying, StillMayReplace, StillMayApply, Name,
              Replacing, NoRequest, files
<1>4. QED
  BY <1>1, <1>2, <1>3, EndKeeps DEF IInv, Typed, AdminVhostKept, OnlyGeneratedInstalled, files

LEMMA InvokeStep ==
    ASSUME IInv, NEW p \in Procs, Invoke(p)
    PROVE  IInv'
<1>1. PICK r \in Request :
        /\ req' = [req EXCEPT ![p] = r]
        /\ pc' = [pc EXCEPT ![p] = IF r.kind = "apply" THEN "check_source" ELSE "check_avail"]
  BY DEF Invoke
<1>2. r.kind \in {"apply", "remove"} /\ r.name \in Names
  BY Requests
<1>3. undisturbed' \in [Procs -> BOOLEAN]
  BY DEF Invoke, Idle
<1>4. pc' \in [Procs -> Pcs] /\ req' \in [Procs -> {NoRequest} \cup Request]
  BY <1>1 DEF IInv, Typed, TypeOK, Pcs
<1>5. TypeOK'
  BY <1>3, <1>4 DEF IInv, Typed, TypeOK, Invoke, files
<1>6. ASSUME NEW q \in Procs
      PROVE  CallsMatch(q)' /\ StillMayReplace(q)' /\ StillMayApply(q)'
  <2>1. CASE q = p
    BY <1>1, <1>2, <2>1 DEF IInv, Typed, TypeOK, Invoke, files, CallsMatch, StillMayReplace,
       StillMayApply, Name, ApplyCalls, RemoveCalls, Replacing
  <2>2. CASE q # p
    BY <1>1, <2>2 DEF IInv, Typed, TypeOK, Invoke, files, CallsMatch, StillMayReplace,
       StillMayApply, Name, ApplyCalls, RemoveCalls, Replacing
  <2>3. QED
    BY <2>1, <2>2
<1>7. QED
  BY <1>5, <1>6 DEF IInv, Typed, Invoke, AdminVhostKept, OnlyGeneratedInstalled

LEMMA CheckSourceStep ==
    ASSUME IInv, NEW p \in Procs, CheckSource(p)
    PROVE  IInv'
<1> USE DEF Idle
<1>1. CASE MayApply(source[Name(p)])
  <2>1. Goto(p, "check_avail") /\ UNCHANGED <<files, staged, rms, harm>>
    BY <1>1 DEF CheckSource
  <2>2. TypeOK' /\ \A q \in Procs : CallsMatch(q)'
    BY <2>1, GotoKeeps DEF CheckSource, IInv, Typed, TypeOK, files, Pcs, ApplyCalls, RemoveCalls
  <2>3. ASSUME NEW q \in Procs PROVE StillMayReplace(q)' /\ StillMayApply(q)'
    BY <1>1, <2>1 DEF CheckSource, IInv, Typed, TypeOK, Goto, files, StillMayReplace,
       StillMayApply, Name, Replacing, MayApply, Marked
  <2>4. QED
    BY <2>1, <2>2, <2>3 DEF IInv, Typed, AdminVhostKept, OnlyGeneratedInstalled
<1>2. CASE ~MayApply(source[Name(p)])
  BY <1>2, EndStep DEF CheckSource, files, Results, IInv, Typed, TypeOK
<1>3. QED
  BY <1>1, <1>2

LEMMA CheckAvailStep ==
    ASSUME IInv, NEW p \in Procs, CheckAvail(p)
    PROVE  IInv'
<1> USE DEF Idle
<1>1. CASE MayReplace(avail[Name(p)])
  <2>0. req[p].kind \in {"apply", "remove"}
    BY Requests DEF CheckAvail, IInv, Typed, CallsMatch
  <2>1. PICK l \in {"stage", "rm_site"} :
          /\ Goto(p, l)
          /\ (l = "stage") <=> (req[p].kind = "apply")
    BY <1>1 DEF CheckAvail
  <2>2. UNCHANGED <<files, staged, rms, harm>>
    BY <1>1 DEF CheckAvail
  <2>3. TypeOK' /\ \A q \in Procs : CallsMatch(q)'
    BY <2>0, <2>1, <2>2, GotoKeeps
       DEF CheckAvail, IInv, Typed, TypeOK, files, Pcs, ApplyCalls, RemoveCalls
  <2>4. avail[Name(p)] # External
    BY <1>1 DEF MayReplace, Marked
  <2>5. ASSUME NEW q \in Procs PROVE StillMayReplace(q)' /\ StillMayApply(q)'
    <3>1. CASE q = p
      BY <2>0, <2>1, <2>2, <2>4, <3>1 DEF CheckAvail, IInv, Typed, TypeOK, Goto, files,
         StillMayReplace, StillMayApply, Name, Replacing
    <3>2. CASE q # p
      BY <2>1, <2>2, <3>2 DEF IInv, Typed, TypeOK, Goto, files, StillMayReplace,
         StillMayApply, Name, Replacing
    <3>3. QED
      BY <3>1, <3>2
  <2>6. QED
    BY <2>2, <2>3, <2>5 DEF IInv, Typed, AdminVhostKept, OnlyGeneratedInstalled
<1>2. CASE ~MayReplace(avail[Name(p)])
  BY <1>2, EndStep DEF CheckAvail, files, Results, IInv, Typed, TypeOK
<1>3. QED
  BY <1>1, <1>2

LEMMA StageStep ==
    ASSUME IInv, NEW p \in Procs, Stage(p)
    PROVE  IInv'
<1> USE DEF Idle
<1>1. CASE source[Name(p)] = None
  BY <1>1, EndStep DEF Stage, files, Results, IInv, Typed, TypeOK
<1>2. CASE source[Name(p)] # None
  <2>1. /\ staged' = [staged EXCEPT ![p] = source[Name(p)]]
        /\ Goto(p, "install")
        /\ UNCHANGED <<files, rms, harm>>
    BY <1>2 DEF Stage
  <2>2. req[p] \in Request /\ req[p].kind = "apply"
    BY DEF Stage, IInv, Typed, CallsMatch, ApplyCalls
  <2>3. source[Name(p)] \in File \ {External}
    BY <2>2, Requests DEF Stage, IInv, Typed, TypeOK, StillMayApply, Name
  <2>4. TypeOK' /\ \A q \in Procs : CallsMatch(q)'
    BY <2>1, <2>2, <2>3, GotoKeeps
       DEF Stage, IInv, Typed, TypeOK, files, Pcs, ApplyCalls, RemoveCalls
  <2>5. ASSUME NEW q \in Procs PROVE StillMayReplace(q)' /\ StillMayApply(q)'
    <3>1. CASE q = p
      BY <2>1, <2>3, <3>1 DEF Stage, IInv, Typed, TypeOK, Goto, files,
         StillMayReplace, StillMayApply, Name, Replacing
    <3>2. CASE q # p
      BY <2>1, <3>2 DEF IInv, Typed, TypeOK, Goto, files, StillMayReplace,
         StillMayApply, Name, Replacing
    <3>3. QED
      BY <3>1, <3>2
  <2>6. QED
    BY <2>1, <2>4, <2>5 DEF IInv, Typed, AdminVhostKept, OnlyGeneratedInstalled, files
<1>3. QED
  BY <1>1, <1>2

\* A run that replaces its vhost by another that is not the administrator's.
LEMMA PutsStep ==
    ASSUME IInv, NEW p \in Procs, ~Idle(p), req[p] \in Request, req[p].kind = "apply",
           avail[Name(p)] # External, NEW b \in Vhost \ {External}, Puts(p, b),
           NEW l \in {"write", "link"}, Goto(p, l), UNCHANGED <<source, site, served, rms>>,
           staged' \in [Procs -> File], \A q \in Procs : staged'[q] # External
    PROVE  IInv'
<1>1. Name(p) \in Names /\ l \in Pcs \ {"idle"} /\ l \notin RemoveCalls
  BY Requests DEF Name, Pcs, RemoveCalls
<1>2. harm' = harm /\ avail' = [avail EXCEPT ![Name(p)] = b]
  BY DEF Puts
<1>3. avail' \in [Names -> Vhost]
  BY <1>1, <1>2 DEF IInv, Typed, TypeOK
<1>4. TypeOK' /\ \A q \in Procs : CallsMatch(q)'
  BY <1>1, <1>2, <1>3, GotoKeeps DEF IInv, Typed, TypeOK
<1>5. ASSUME NEW q \in Procs PROVE StillMayReplace(q)'
  <2>1. CASE q = p
    BY <1>1, <1>2, <2>1 DEF IInv, Typed, TypeOK, Goto, StillMayReplace, Name
  <2>2. CASE q # p /\ pc[q] \in Replacing
    <3>1. Name(q) \in Names /\ req'[q] = req[q]
      BY <2>2, Requests DEF IInv, Typed, CallsMatch, Replacing, Name, Goto
    <3>2. avail'[Name(q)] = External => avail[Name(q)] = External
      BY <1>1, <1>2, <3>1 DEF IInv, Typed, TypeOK
    <3>3. QED
      BY <2>2, <3>1, <3>2 DEF IInv, Typed, StillMayReplace, Name
  <2>3. CASE q # p /\ pc[q] \notin Replacing
    BY <2>3 DEF IInv, Typed, TypeOK, Goto, StillMayReplace
  <2>4. QED
    BY <2>1, <2>2, <2>3
<1>6. ASSUME NEW q \in Procs PROVE StillMayApply(q)'
  BY DEF IInv, Typed, TypeOK, Goto, StillMayApply, Name
<1>7. QED
  BY <1>2, <1>4, <1>5, <1>6 DEF IInv, Typed, AdminVhostKept, OnlyGeneratedInstalled

LEMMA InstallStep ==
    ASSUME IInv, NEW p \in Procs, Install(p)
    PROVE  IInv'
<1> USE DEF Idle
<1>0. /\ req[p] \in Request /\ req[p].kind = "apply" /\ Name(p) \in Names
      /\ staged[p] \in File \ {External} /\ source[Name(p)] \in File \ {External}
      /\ avail[Name(p)] # External /\ ~Idle(p)
      /\ Empty \in Vhost \ {External} /\ File \subseteq Vhost
  BY Requests DEF Install, IInv, Typed, TypeOK, CallsMatch, StillMayApply, StillMayReplace, Name,
                  ApplyCalls, Replacing, Vhost
<1>1. UNCHANGED <<source, site, served>>
  BY DEF Install
<1>2. ASSUME NEW q \in Procs PROVE staged[q] # External
  BY DEF IInv, StillMayApply
<1>3. CASE Puts(p, staged[p]) /\ Goto(p, "link") /\ UNCHANGED <<staged, rms>>
  BY <1>0, <1>1, <1>2, <1>3, PutsStep DEF IInv, Typed, TypeOK
<1>4. CASE /\ staged' = [staged EXCEPT ![p] = source[Name(p)]]
           /\ Puts(p, Empty) /\ Goto(p, "write") /\ UNCHANGED rms
  <2>1. staged' \in [Procs -> File] /\ \A q \in Procs : staged'[q] # External
    BY <1>0, <1>2, <1>4 DEF IInv, Typed, TypeOK
  <2>2. QED
    BY <1>0, <1>1, <1>4, <2>1, PutsStep
<1>5. CASE End(p, "failed") /\ UNCHANGED <<avail, harm>>
  BY <1>0, <1>1, <1>5, EndStep DEF Results, IInv, Typed, TypeOK
<1>6. QED
  BY <1>3, <1>4, <1>5 DEF Install

LEMMA WriteStep ==
    ASSUME IInv, NEW p \in Procs, Write(p)
    PROVE  IInv'
<1> USE DEF Idle
<1>0. /\ req[p] \in Request /\ req[p].kind = "apply" /\ Name(p) \in Names
      /\ staged[p] \in Vhost \ {External} /\ staged \in [Procs -> File]
      /\ avail[Name(p)] # External /\ ~Idle(p)
  BY Requests DEF Write, IInv, Typed, TypeOK, CallsMatch, StillMayApply, StillMayReplace, Name,
                  ApplyCalls, Replacing, Vhost
<1>1. UNCHANGED <<source, site, served>>
  BY DEF Write
<1>2. ASSUME NEW q \in Procs PROVE staged[q] # External
  BY DEF IInv, StillMayApply
<1>3. CASE Puts(p, staged[p]) /\ Goto(p, "link") /\ UNCHANGED <<staged, rms>>
  BY <1>0, <1>1, <1>2, <1>3, PutsStep
<1>4. CASE UNCHANGED <<avail, harm>> /\ Goto(p, "link") /\ UNCHANGED <<staged, rms>>
  <2>1. TypeOK' /\ \A q \in Procs : CallsMatch(q)'
    BY <1>0, <1>1, <1>4, GotoKeeps DEF IInv, Typed, TypeOK, Pcs, ApplyCalls, RemoveCalls
  <2>2. ASSUME NEW q \in Procs PROVE StillMayReplace(q)' /\ StillMayApply(q)'
    BY <1>1, <1>4 DEF IInv, Typed, TypeOK, Goto, StillMayReplace, StillMayApply, Replacing, Name
  <2>3. QED
    BY <1>4, <2>1, <2>2 DEF IInv, Typed, AdminVhostKept, OnlyGeneratedInstalled
<1>5. CASE End(p, "failed") /\ UNCHANGED <<avail, harm>>
  BY <1>0, <1>1, <1>5, EndStep DEF Results, IInv, Typed, TypeOK
<1>6. QED
  BY <1>3, <1>4, <1>5 DEF Write

LEMMA LinkStep ==
    ASSUME IInv, NEW p \in Procs, Link(p)
    PROVE  IInv'
<1> USE DEF Idle
<1>1. CASE /\ site' = [site EXCEPT ![Name(p)] = "link"]
           /\ Goto(p, "reload")
           /\ UNCHANGED <<staged, rms>>
  <2>1. UNCHANGED <<source, avail, served, harm>>
    BY DEF Link
  <2>2. site' \in [Names -> Sites]
    BY <1>1 DEF IInv, Typed, TypeOK, Sites
  <2>3. TypeOK' /\ \A q \in Procs : CallsMatch(q)'
    BY <1>1, <2>1, <2>2, GotoKeeps DEF Link, IInv, Typed, TypeOK, Pcs, ApplyCalls, RemoveCalls
  <2>4. ASSUME NEW q \in Procs PROVE StillMayReplace(q)' /\ StillMayApply(q)'
    BY <1>1, <2>1 DEF IInv, Typed, TypeOK, Goto, StillMayReplace, StillMayApply, Replacing, Name
  <2>5. QED
    BY <2>1, <2>3, <2>4 DEF IInv, Typed, AdminVhostKept, OnlyGeneratedInstalled
<1>2. CASE End(p, "failed") /\ UNCHANGED site
  BY <1>2, EndStep DEF Link, Results, IInv, Typed, TypeOK
<1>3. QED
  BY <1>1, <1>2 DEF Link

LEMMA RmDoneTyped ==
    ASSUME IInv, NEW p \in Procs, NEW outcomes \in SUBSET Outcomes, RmDone(p, outcomes)
    PROVE  rms' \in [Procs -> SUBSET Outcomes]
BY DEF IInv, Typed, TypeOK, RmDone

LEMMA RmSiteStep ==
    ASSUME IInv, NEW p \in Procs, RmSite(p)
    PROVE  IInv'
<1> USE DEF Idle
<1>0. {"ok"} \in SUBSET Outcomes /\ {"failed"} \in SUBSET Outcomes
  BY DEF Outcomes
<1>a. rms' \in [Procs -> SUBSET Outcomes]
  BY <1>0, RmDoneTyped DEF RmSite, DropSite, IInv, Typed, TypeOK
<1>1. /\ Goto(p, "rm_avail")
      /\ site' \in [Names -> Sites]
      /\ UNCHANGED <<source, avail, served, harm, staged>>
  BY DEF RmSite, DropSite, IInv, Typed, TypeOK, Sites
<1>2. harm' \subseteq Harms
  BY <1>1 DEF IInv, Typed, TypeOK
<1>3. req[p].kind = "remove"
  BY DEF RmSite, IInv, Typed, CallsMatch, RemoveCalls
<1>4. TypeOK' /\ \A q \in Procs : CallsMatch(q)'
  BY <1>a, <1>1, <1>2, <1>3, GotoKeeps DEF RmSite, IInv, Typed, TypeOK, Pcs, ApplyCalls, RemoveCalls
<1>5. ASSUME NEW q \in Procs PROVE StillMayReplace(q)' /\ StillMayApply(q)'
  BY <1>1 DEF RmSite, IInv, Typed, TypeOK, Goto, StillMayReplace, StillMayApply, Replacing, Name
<1>6. QED
  BY <1>1, <1>4, <1>5 DEF IInv, Typed, AdminVhostKept, OnlyGeneratedInstalled

LEMMA RmAvailStep ==
    ASSUME IInv, NEW p \in Procs, RmAvail(p)
    PROVE  IInv'
<1> USE DEF Idle
<1>0. /\ req[p] \in Request /\ req[p].kind = "remove" /\ Name(p) \in Names
      /\ avail[Name(p)] # External
  BY Requests DEF RmAvail, IInv, Typed, CallsMatch, StillMayReplace, Name, RemoveCalls, Replacing
<1>1. /\ avail' \in {avail, [avail EXCEPT ![Name(p)] = None]}
      /\ UNCHANGED <<source, site, served, harm>>
  BY <1>0 DEF RmAvail
<1>2. /\ avail' \in [Names -> Vhost]
      /\ \A n \in Names : avail'[n] = External => avail[n] = External
  BY <1>0, <1>1 DEF IInv, Typed, TypeOK, File, Vhost
<1>3. CASE /\ Goto(p, "reload")
           /\ rms' \in [Procs -> SUBSET Outcomes]
           /\ UNCHANGED staged
  <2>1. TypeOK' /\ \A q \in Procs : CallsMatch(q)'
    BY <1>0, <1>1, <1>2, <1>3, GotoKeeps
       DEF RmAvail, IInv, Typed, TypeOK, Pcs, ApplyCalls, RemoveCalls
  <2>2. ASSUME NEW q \in Procs PROVE StillMayReplace(q)' /\ StillMayApply(q)'
    <3>1. StillMayReplace(q)'
      <4>1. CASE q = p
        BY <1>3, <4>1 DEF IInv, Typed, TypeOK, Goto, StillMayReplace, Replacing
      <4>2. CASE q # p /\ pc[q] \in Replacing
        <5>1. Name(q) \in Names /\ req'[q] = req[q]
          BY <1>3, <4>2, Requests DEF IInv, Typed, CallsMatch, Replacing, Name, Goto
        <5>2. QED
          BY <1>2, <4>2, <5>1 DEF IInv, Typed, StillMayReplace, Name
      <4>3. CASE q # p /\ pc[q] \notin Replacing
        BY <1>3, <4>3 DEF IInv, Typed, TypeOK, Goto, StillMayReplace
      <4>4. QED
        BY <4>1, <4>2, <4>3
    <3>2. StillMayApply(q)'
      BY <1>1, <1>3 DEF IInv, Typed, TypeOK, Goto, StillMayApply, Name
    <3>3. QED
      BY <3>1, <3>2
  <2>3. QED
    BY <1>1, <2>1, <2>2 DEF IInv, Typed, AdminVhostKept, OnlyGeneratedInstalled
<1>4. ASSUME NEW done \in SUBSET Outcomes, Report(p, "nothing", done), avail' = avail
      PROVE  IInv'
  BY <1>1, <1>4, ReportStep DEF RmAvail, Results, IInv, Typed, TypeOK
<1>5. ASSUME NEW outcomes \in SUBSET Outcomes, RmNext(p, outcomes),
             avail' = avail \/ "ok" \in outcomes
      PROVE  IInv'
  <2>1. rms[p] \in SUBSET Outcomes
    BY DEF IInv, Typed, TypeOK
  <2>2. CASE "ok" \in rms[p] \cup outcomes
    BY <1>3, <1>5, <2>2, RmDoneTyped DEF RmNext
  <2>3. CASE "ok" \notin rms[p] \cup outcomes
    BY <1>4, <1>5, <2>1, <2>3 DEF RmNext
  <2>4. QED
    BY <2>2, <2>3
<1>6. {"ok"} \in SUBSET Outcomes /\ {"failed"} \in SUBSET Outcomes /\ {} \in SUBSET Outcomes
  BY DEF Outcomes
<1>7. QED
  BY <1>5, <1>6 DEF RmAvail

LEMMA ReloadStep ==
    ASSUME IInv, NEW p \in Procs, Reload(p)
    PROVE  IInv'
<1>1. served' \in [Names -> Vhost]
  BY DEF Reload, Loaded, Found, IInv, Typed, TypeOK, Vhost, File, Body
<1>2. QED
  BY <1>1, EndStep DEF Reload, Results, Idle

\* The administrator, who leaves a name alone that a run works on.
LEMMA AdminStep ==
    ASSUME ~AdminRaces, IInv, NEW n \in Names,
           WritesSource(n) \/ WritesVhost(n) \/ WritesSite(n)
    PROVE  IInv'
<1>1. /\ Outside(n)
      /\ source' \in [Names -> File] /\ avail' \in [Names -> Vhost]
      /\ site' \in [Names -> Sites] /\ served' = served
      /\ \A k \in Names \ {n} : source'[k] = source[k] /\ avail'[k] = avail[k]
  BY DEF WritesSource, WritesVhost, WritesSite, IInv, Typed, TypeOK, Vhost, File, Body
<1>2. undisturbed' \in [Procs -> BOOLEAN]
  BY <1>1 DEF Outside
<1>3. TypeOK'
  BY <1>1, <1>2 DEF IInv, Typed, TypeOK, Outside
<1>4. ASSUME NEW q \in Procs
      PROVE  CallsMatch(q)' /\ StillMayReplace(q)' /\ StillMayApply(q)'
  <2>1. UNCHANGED <<pc, req, staged>>
    BY <1>1 DEF Outside
  <2>2. CASE pc[q] = "idle"
    BY <2>1, <2>2 DEF IInv, Typed, CallsMatch, StillMayReplace, StillMayApply, Name,
       ApplyCalls, RemoveCalls, Replacing
  <2>3. CASE pc[q] # "idle"
    <3>1. Name(q) \in Names \ {n}
      BY <1>1, <2>3, Requests DEF Outside, Busy, Idle, IInv, Typed, CallsMatch, Name
    <3>2. source'[Name(q)] = source[Name(q)] /\ avail'[Name(q)] = avail[Name(q)]
      BY <1>1, <3>1
    <3>3. QED
      BY <2>1, <3>2 DEF IInv, Typed, CallsMatch, StillMayReplace, StillMayApply, Name
  <2>4. QED
    BY <2>2, <2>3
<1>5. QED
  BY <1>1, <1>3, <1>4 DEF IInv, Typed, Outside, AdminVhostKept, OnlyGeneratedInstalled

\* The inductive invariant: what a run has checked stays true until it acts.
THEOREM Inductive ==
    ASSUME ~AdminRaces
    PROVE  Spec => []IInv
<1>1. IInv /\ [Next]_vars => IInv'
  <2> SUFFICES ASSUME IInv, [Next]_vars PROVE IInv'
    OBVIOUS
  <2>1. ASSUME NEW p \in Procs, Invoke(p) PROVE IInv'
    BY <2>1, InvokeStep
  <2>2. ASSUME NEW p \in Procs, Step(p) PROVE IInv'
    BY <2>2, CheckSourceStep, CheckAvailStep, StageStep, InstallStep,
       WriteStep, LinkStep, RmSiteStep, RmAvailStep, ReloadStep, KillStep DEF Step
  <2>3. ASSUME NEW n \in Names, WritesSource(n) \/ WritesVhost(n) \/ WritesSite(n)
        PROVE  IInv'
    BY <2>3, AdminStep
  <2>4. CASE UNCHANGED vars
    BY <2>4 DEF vars, files, run, IInv, Typed, TypeOK, CallsMatch, StillMayReplace,
       StillMayApply, Name, AdminVhostKept, OnlyGeneratedInstalled
  <2>5. QED
    BY <2>1, <2>2, <2>3, <2>4 DEF Next
<1>2. QED
  BY Initially, <1>1, PTL DEF Spec

\* apply and remove never overwrite or remove a vhost without the marker.
THEOREM AdminVhostKeptHolds ==
    ASSUME ~AdminRaces
    PROVE  Spec => []AdminVhostKept
<1>1. IInv => AdminVhostKept
  BY DEF IInv, Typed
<1>2. QED
  BY <1>1, Inductive, PTL

\* apply installs only what `generate' made, although it reads it twice.
THEOREM OnlyGeneratedInstalledHolds ==
    ASSUME ~AdminRaces
    PROVE  Spec => []OnlyGeneratedInstalled
<1>1. IInv => OnlyGeneratedInstalled
  BY DEF IInv, Typed
<1>2. QED
  BY <1>1, Inductive, PTL

-----------------------------------------------------------------------------
(***************************************************************************)
(* What a run that nothing disturbs may rely on.  Other runs, killed ones  *)
(* among them, and an administrator who races may have left anything.      *)
(***************************************************************************)
\* What it was given, and installed, is still there; what it took away is not.
Installs(p) ==
    /\ pc[p] \in {"check_avail", "stage", "install", "write", "link", "reload"} =>
         Marked(source[Name(p)])
    /\ pc[p] \in {"install", "write"} => staged[p] = source[Name(p)]
    /\ pc[p] = "write" => avail[Name(p)] = Empty
    /\ pc[p] \in {"link", "reload"} => avail[Name(p)] = source[Name(p)]
    /\ pc[p] = "reload" => site[Name(p)] = "link"

Removes(p) ==
    "failed" \notin rms[p] =>
        /\ pc[p] \in {"rm_avail", "reload"} => site[Name(p)] = "none"
        /\ pc[p] = "reload" => avail[Name(p)] = None

Relies(p) ==
    undisturbed[p] =>
        /\ req[p].kind = "apply" => Installs(p)
        /\ req[p].kind = "remove" => Removes(p)

RInv == Typed /\ (\A p \in Procs : Relies(p)) /\ ReportsHold

LEMMA Silence == said' = {} => ReportsHold'
BY DEF ReportsHold, AppliedIsServed, RemovedIsGone

LEMMA Disturbed ==
    ASSUME Typed, NEW p \in Procs, Disturb(p), NEW q \in Procs, q # p
    PROVE  Relies(q)'
BY DEF Disturb, Relies, Typed, TypeOK

\* A run that ends, and one that says no more than that something failed.
LEMMA Over ==
    ASSUME Typed, NEW p \in Procs, NEW r, EndSaying(p, r)
    PROVE  \A q \in Procs : Relies(q)'
BY DEF EndSaying, Relies, Typed, TypeOK

LEMMA NoSuccess ==
    ASSUME NEW p \in Procs, NEW result, result \notin {"done", "nothing"}, End(p, result)
    PROVE  ReportsHold'
<1>1. \A s \in said' : s.result = result
  BY DEF End, Report, EndSaying
<1>2. QED
  BY <1>1 DEF ReportsHold, AppliedIsServed, RemovedIsGone

LEMMA EndTyped ==
    ASSUME Typed, NEW p \in Procs, ~Idle(p), NEW result \in Results,
           NEW done \in SUBSET Outcomes, Report(p, result, done),
           source' \in [Names -> File], avail' \in [Names -> Vhost], site' \in [Names -> Sites],
           served' \in [Names -> Vhost], harm' \subseteq Harms
    PROVE  Typed' /\ \A q \in Procs : Relies(q)'
<1>1. PICK r : EndSaying(p, r)
  BY LastWords
<1>2. said' \subseteq [req : Request, result : Results, rm : SUBSET Outcomes, undisturbed : BOOLEAN]
  BY LastWords
<1>3. QED
  BY <1>1, <1>2, EndKeeps, Over DEF Typed, TypeOK

\* A run that ends without a success.
LEMMA Fails ==
    ASSUME RInv, NEW p \in Procs, ~Idle(p), NEW result \in {"refused", "failed"}, End(p, result),
           UNCHANGED <<source, avail, site, served, harm>>
    PROVE  RInv'
<1>1. rms[p] \in SUBSET Outcomes /\ result \in Results
  BY DEF RInv, Typed, TypeOK, Results
<1>2. Typed' /\ \A q \in Procs : Relies(q)'
  BY <1>1, EndTyped DEF End, RInv, Typed, TypeOK
<1>3. QED
  BY <1>2, NoSuccess DEF RInv

\* A run that goes on.
LEMMA GoesOn ==
    ASSUME RInv, NEW p \in Procs, NEW l \in Pcs \ {"idle"}, Goto(p, l), ~Idle(p),
           l \in ApplyCalls => req[p].kind = "apply",
           l \in RemoveCalls => req[p].kind = "remove",
           source' \in [Names -> File], avail' \in [Names -> Vhost], site' \in [Names -> Sites],
           served' = served, harm' \subseteq Harms,
           staged' \in [Procs -> File], rms' \in [Procs -> SUBSET Outcomes],
           Relies(p)'
    PROVE  RInv'
<1>1. Typed'
  BY GotoKeeps DEF RInv, Typed, TypeOK
<1>2. ASSUME NEW q \in Procs PROVE Relies(q)'
  BY Disturbed DEF RInv, Goto
<1>3. ReportsHold'
  BY Silence DEF Goto
<1>4. QED
  BY <1>1, <1>2, <1>3 DEF RInv

LEMMA RAfterInvoke ==
    ASSUME RInv, NEW p \in Procs, Invoke(p)
    PROVE  RInv'
<1>1. PICK r \in Request :
        /\ req' = [req EXCEPT ![p] = r]
        /\ pc' = [pc EXCEPT ![p] = IF r.kind = "apply" THEN "check_source" ELSE "check_avail"]
  BY DEF Invoke
<1>2. r.kind \in {"apply", "remove"} /\ r.name \in Names
  BY Requests
<1>3. undisturbed' \in [Procs -> BOOLEAN] /\ said' = {}
  BY DEF Invoke, Idle
<1>4. pc' \in [Procs -> Pcs] /\ req' \in [Procs -> {NoRequest} \cup Request]
  BY <1>1 DEF RInv, Typed, TypeOK, Pcs
<1>5. TypeOK'
  BY <1>3, <1>4 DEF RInv, Typed, TypeOK, Invoke, files
<1>6. ASSUME NEW q \in Procs PROVE CallsMatch(q)' /\ Relies(q)'
  <2>1. CASE q = p
    BY <1>1, <1>2, <2>1 DEF RInv, Typed, TypeOK, CallsMatch, Relies, Installs, Removes,
       ApplyCalls, RemoveCalls
  <2>2. CASE q # p
    BY <1>1, <1>3, <2>2 DEF RInv, Typed, TypeOK, Invoke, CallsMatch, Relies,
       ApplyCalls, RemoveCalls
  <2>3. QED
    BY <2>1, <2>2
<1>7. QED
  BY <1>3, <1>5, <1>6, Silence DEF RInv, Typed

LEMMA RAfterChecks ==
    ASSUME RInv, NEW p \in Procs, CheckSource(p) \/ CheckAvail(p) \/ Stage(p)
    PROVE  RInv'
<1> USE DEF Idle
<1>0. /\ ~Idle(p) /\ req[p] \in Request /\ req[p].kind \in {"apply", "remove"}
      /\ pc[p] \in {"check_source", "stage"} => req[p].kind = "apply"
  BY Requests DEF CheckSource, CheckAvail, Stage, RInv, Typed, CallsMatch, ApplyCalls
<1>1. UNCHANGED <<source, avail, site, served, harm>>
  BY DEF CheckSource, CheckAvail, Stage, files
<1>2. CASE End(p, "refused") \/ End(p, "failed")
  BY <1>0, <1>1, <1>2, Fails
<1>3. CASE /\ pc[p] = "check_source" /\ MayApply(source[Name(p)]) /\ Goto(p, "check_avail")
           /\ UNCHANGED <<staged, rms>>
  <2>1. Relies(p)'
    BY <1>0, <1>1, <1>3 DEF RInv, Typed, TypeOK, Goto, Disturb, Relies, Installs, MayApply, Name
  <2>2. QED
    BY <1>0, <1>1, <1>3, <2>1, GoesOn DEF RInv, Typed, TypeOK, Pcs, ApplyCalls, RemoveCalls
<1>4. CASE /\ pc[p] = "check_avail" /\ UNCHANGED <<staged, rms>>
           /\ Goto(p, IF req[p].kind = "apply" THEN "stage" ELSE "rm_site")
  <2>1. Relies(p)'
    BY <1>0, <1>1, <1>4 DEF RInv, Typed, TypeOK, Goto, Disturb, Relies, Installs, Removes, Name
  <2>2. QED
    BY <1>0, <1>1, <1>4, <2>1, GoesOn DEF RInv, Typed, TypeOK, Pcs, ApplyCalls, RemoveCalls
<1>5. CASE /\ pc[p] = "stage" /\ Goto(p, "install") /\ UNCHANGED rms
           /\ staged' = [staged EXCEPT ![p] = source[Name(p)]]
  <2>1. Relies(p)'
    BY <1>0, <1>1, <1>5 DEF RInv, Typed, TypeOK, Goto, Disturb, Relies, Installs, Name
  <2>2. Name(p) \in Names /\ staged' \in [Procs -> File]
    BY <1>0, <1>5, Requests DEF RInv, Typed, TypeOK, Name
  <2>3. QED
    BY <1>0, <1>1, <1>5, <2>1, <2>2, GoesOn DEF RInv, Typed, TypeOK, Pcs, ApplyCalls, RemoveCalls
<1>6. QED
  BY <1>2, <1>3, <1>4, <1>5 DEF CheckSource, CheckAvail, Stage

LEMMA RAfterInstall ==
    ASSUME RInv, NEW p \in Procs, Install(p) \/ Write(p) \/ Link(p)
    PROVE  RInv'
<1> USE DEF Idle
<1>0. ~Idle(p) /\ req[p] \in Request /\ req[p].kind = "apply" /\ Name(p) \in Names
  BY Requests DEF Install, Write, Link, RInv, Typed, CallsMatch, ApplyCalls, Name
<1>1. CASE End(p, "failed") /\ UNCHANGED <<source, avail, site, served, harm>>
  BY <1>0, <1>1, Fails
<1>2. ASSUME NEW b \in Vhost, Puts(p, b), NEW l \in {"write", "link"}, Goto(p, l),
             staged' \in [Procs -> File], UNCHANGED <<rms, source, site, served>>,
             undisturbed[p] => Marked(source[Name(p)]),
             undisturbed[p] /\ l = "link" => b = source[Name(p)],
             undisturbed[p] /\ l = "write" => b = Empty /\ staged'[p] = source[Name(p)]
      PROVE  RInv'
  <2>1. avail' = [avail EXCEPT ![Name(p)] = b] /\ harm' \subseteq Harms
    BY <1>2 DEF Puts, RInv, Typed, TypeOK, Harms
  <2>2. Relies(p)'
    BY <1>0, <1>2, <2>1 DEF RInv, Typed, TypeOK, Goto, Disturb, Relies, Installs, Name
  <2>3. avail' \in [Names -> Vhost]
    BY <1>0, <2>1, <1>2 DEF RInv, Typed, TypeOK
  <2>4. QED
    BY <1>0, <1>2, <2>1, <2>2, <2>3, GoesOn DEF RInv, Typed, TypeOK, Pcs, ApplyCalls, RemoveCalls
<1>3. CASE /\ pc[p] = "link" /\ site' = [site EXCEPT ![Name(p)] = "link"] /\ Goto(p, "reload")
           /\ UNCHANGED <<staged, rms, source, avail, served, harm>>
  <2>1. Relies(p)'
    BY <1>0, <1>3 DEF RInv, Typed, TypeOK, Goto, Disturb, Relies, Installs, Name
  <2>2. site' \in [Names -> Sites]
    BY <1>3 DEF RInv, Typed, TypeOK, Sites
  <2>3. QED
    BY <1>0, <1>3, <2>1, <2>2, GoesOn DEF RInv, Typed, TypeOK, Pcs, ApplyCalls, RemoveCalls
<1>4. staged \in [Procs -> File] /\ source[Name(p)] \in File /\ Empty \in Vhost /\ File \subseteq Vhost
  BY <1>0 DEF RInv, Typed, TypeOK, Vhost
<1>5. CASE Install(p)
  <2>1. undisturbed[p] => Marked(source[Name(p)]) /\ staged[p] = source[Name(p)]
    BY <1>0, <1>5 DEF Install, RInv, Relies, Installs
  <2>2. UNCHANGED <<source, site, served>>
    BY <1>5 DEF Install
  <2>3. CASE Puts(p, staged[p]) /\ Goto(p, "link") /\ UNCHANGED <<staged, rms>>
    BY <1>2, <1>4, <2>1, <2>2, <2>3
  <2>4. CASE /\ staged' = [staged EXCEPT ![p] = source[Name(p)]]
             /\ Puts(p, Empty) /\ Goto(p, "write") /\ UNCHANGED rms
    BY <1>2, <1>4, <2>1, <2>2, <2>4
  <2>5. QED
    BY <1>1, <1>5, <2>2, <2>3, <2>4 DEF Install
<1>6. CASE Write(p)
  <2>1. undisturbed[p] => /\ Marked(source[Name(p)]) /\ staged[p] = source[Name(p)]
                          /\ avail[Name(p)] = Empty
    BY <1>0, <1>6 DEF Write, RInv, Relies, Installs
  <2>2. UNCHANGED <<source, site, served>> /\ pc[p] = "write"
    BY <1>6 DEF Write
  <2>3. CASE Puts(p, staged[p]) /\ Goto(p, "link") /\ UNCHANGED <<staged, rms>>
    BY <1>2, <1>4, <2>1, <2>2, <2>3
  <2>4. CASE /\ avail[Name(p)] # Empty /\ UNCHANGED <<avail, harm>>
             /\ Goto(p, "link") /\ UNCHANGED <<staged, rms>>
    <3>1. Relies(p)'
      BY <2>1, <2>4 DEF Goto, Disturb, Relies, RInv, Typed, TypeOK
    <3>2. QED
      BY <1>0, <2>2, <2>4, <3>1, GoesOn DEF RInv, Typed, TypeOK, Pcs, ApplyCalls, RemoveCalls
  <2>5. QED
    BY <1>1, <1>6, <2>2, <2>3, <2>4 DEF Write
<1>7. QED
  BY <1>1, <1>3, <1>5, <1>6 DEF Link

LEMMA RmDoneSays ==
    ASSUME Typed, NEW p \in Procs, NEW outcomes \in SUBSET Outcomes, RmDone(p, outcomes)
    PROVE  rms' \in [Procs -> SUBSET Outcomes] /\ rms'[p] = rms[p] \cup outcomes
BY DEF Typed, TypeOK, RmDone

LEMMA RAfterRmSite ==
    ASSUME RInv, NEW p \in Procs, RmSite(p)
    PROVE  RInv'
<1> USE DEF Idle
<1>0. ~Idle(p) /\ req[p] \in Request /\ req[p].kind = "remove" /\ Name(p) \in Names
  BY Requests DEF RmSite, RInv, Typed, CallsMatch, RemoveCalls, Name
<1>1. {"ok"} \in SUBSET Outcomes /\ {"failed"} \in SUBSET Outcomes
  BY DEF Outcomes
<1>2. /\ rms' \in [Procs -> SUBSET Outcomes]
      /\ site' \in [Names -> Sites]
      /\ "failed" \notin rms'[p] => site'[Name(p)] = "none"
  <2>1. CASE site[Name(p)] # "none" /\ DropSite(p)
    BY <1>0, <1>1, <2>1, RmDoneSays DEF DropSite, RInv, Typed, TypeOK, Sites
  <2>2. CASE RmDone(p, {"failed"}) /\ UNCHANGED site
    BY <1>1, <2>2, RmDoneSays DEF RInv, Typed, TypeOK
  <2>3. CASE site[Name(p)] = "none" /\ UNCHANGED <<site, rms>>
    BY <2>3 DEF RInv, Typed, TypeOK
  <2>4. QED
    BY <2>1, <2>2, <2>3 DEF RmSite
<1>3. Goto(p, "rm_avail") /\ UNCHANGED <<source, avail, served, staged>>
  BY DEF RmSite
<1>4. harm' \subseteq Harms
  BY DEF RmSite, RInv, Typed, TypeOK
<1>5. Relies(p)'
  BY <1>0, <1>2, <1>3 DEF RInv, Typed, TypeOK, Goto, Relies, Removes, Name
<1>6. QED
  BY <1>0, <1>2, <1>3, <1>4, <1>5, GoesOn DEF RInv, Typed, TypeOK, Pcs, ApplyCalls, RemoveCalls

LEMMA RAfterRmAvail ==
    ASSUME RInv, NEW p \in Procs, RmAvail(p)
    PROVE  RInv'
<1> USE DEF Idle
<1>0. /\ ~Idle(p) /\ pc[p] = "rm_avail" /\ req[p] \in Request /\ req[p].kind = "remove"
      /\ Name(p) \in Names
  BY Requests DEF RmAvail, RInv, Typed, CallsMatch, RemoveCalls, Name
<1>1. PICK outcomes \in SUBSET Outcomes :
        /\ RmNext(p, outcomes)
        /\ "failed" \notin outcomes => avail'[Name(p)] = None
        /\ avail' \in [Names -> Vhost]
  <2>1. {"ok"} \in SUBSET Outcomes /\ {"failed"} \in SUBSET Outcomes /\ {} \in SUBSET Outcomes
    BY DEF Outcomes
  <2>2. avail \in [Names -> Vhost] /\ [avail EXCEPT ![Name(p)] = None] \in [Names -> Vhost]
    BY DEF RInv, Typed, TypeOK, Vhost, File
  <2>3. QED
    BY <1>0, <2>1, <2>2 DEF RmAvail
<1>2. UNCHANGED <<source, site, served>> /\ harm' \subseteq Harms
  BY DEF RmAvail, RInv, Typed, TypeOK, Harms
<1>3. site' = site /\ site \in [Names -> Sites]
  BY <1>2 DEF RInv, Typed, TypeOK
<1>4. rms[p] \in SUBSET Outcomes
  BY DEF RInv, Typed, TypeOK
<1>5. CASE "ok" \in rms[p] \cup outcomes
  <2>1. Goto(p, "reload") /\ RmDone(p, outcomes) /\ UNCHANGED staged
    BY <1>1, <1>5 DEF RmNext
  <2>2. rms' \in [Procs -> SUBSET Outcomes] /\ rms'[p] = rms[p] \cup outcomes
    BY <2>1, RmDoneSays DEF RInv
  <2>3. Relies(p)'
    BY <1>0, <1>1, <1>3, <2>1, <2>2
       DEF RInv, Typed, TypeOK, Goto, Disturb, Relies, Removes, Name
  <2>4. QED
    BY <1>0, <1>1, <1>2, <1>3, <2>1, <2>2, <2>3, GoesOn
       DEF RInv, Typed, TypeOK, Pcs, ApplyCalls, RemoveCalls
<1>6. CASE "ok" \notin rms[p] \cup outcomes
  <2>1. Report(p, "nothing", rms[p] \cup outcomes)
    BY <1>1, <1>6 DEF RmNext
  <2>2. Typed' /\ \A q \in Procs : Relies(q)'
    BY <1>0, <1>1, <1>2, <1>3, <1>4, <2>1, EndTyped DEF RInv, Typed, TypeOK, Results
  <2>3. said' = {[req |-> req[p], result |-> "nothing", rm |-> rms[p] \cup outcomes,
                  undisturbed |-> undisturbed[p]]}
    BY <2>1 DEF Report, EndSaying
  <2>4. ASSUME undisturbed[p], "failed" \notin rms[p] \cup outcomes
        PROVE  site'[Name(p)] = "none" /\ avail'[Name(p)] = None
    BY <1>0, <1>1, <1>3, <2>4 DEF RInv, Relies, Removes
  <2>5. ReportsHold'
    BY <1>0, <2>3, <2>4 DEF ReportsHold, AppliedIsServed, RemovedIsGone, Undisturbed, Name
  <2>6. QED
    BY <2>2, <2>5 DEF RInv
<1>7. QED
  BY <1>5, <1>6

LEMMA RAfterReload ==
    ASSUME RInv, NEW p \in Procs, Reload(p)
    PROVE  RInv'
<1> USE DEF Idle
<1>0. /\ ~Idle(p) /\ pc[p] = "reload" /\ req[p] \in Request /\ req[p].kind \in {"apply", "remove"}
      /\ Name(p) \in Names
  BY Requests DEF Reload, RInv, Typed, CallsMatch, Name
<1>1. UNCHANGED <<source, avail, site, harm>>
  BY DEF Reload
<1>2. CASE End(p, "failed") /\ served' = served
  BY <1>0, <1>1, <1>2, Fails
<1>3. CASE served' = Loaded /\ End(p, "done")
  <2>1. served' \in [Names -> Vhost]
    BY <1>3 DEF Loaded, Found, RInv, Typed, TypeOK, Vhost, File, Body
  <2>2. Typed' /\ \A q \in Procs : Relies(q)'
    BY <1>0, <1>1, <1>3, <2>1, EndTyped DEF End, RInv, Typed, TypeOK, Results
  <2>3. said' = {[req |-> req[p], result |-> "done", rm |-> rms[p],
                  undisturbed |-> undisturbed[p]]}
    BY <1>3 DEF End, Report, EndSaying
  <2>4. ASSUME undisturbed[p], req[p].kind = "apply"
        PROVE  served'[Name(p)] = source[Name(p)] /\ Marked(source[Name(p)])
    BY <1>0, <1>3, <2>4 DEF RInv, Relies, Installs, Loaded, Found
  <2>5. ASSUME undisturbed[p], req[p].kind = "remove", "failed" \notin rms[p]
        PROVE  site[Name(p)] = "none" /\ avail[Name(p)] = None
    BY <1>0, <2>5 DEF RInv, Relies, Removes
  <2>6. AppliedIsServed'
    BY <1>1, <2>3, <2>4 DEF AppliedIsServed, Undisturbed, Name
  <2>7. RemovedIsGone'
    BY <1>1, <2>3, <2>5 DEF RemovedIsGone, Undisturbed, Name
  <2>8. QED
    BY <2>2, <2>6, <2>7 DEF RInv, ReportsHold
<1>4. QED
  BY <1>2, <1>3 DEF Reload

LEMMA RAfterKill ==
    ASSUME RInv, NEW p \in Procs, Kill(p)
    PROVE  RInv'
<1>1. EndSaying(p, {}) /\ UNCHANGED <<source, avail, site, served, harm>>
  BY DEF Kill, files
<1>2. Typed'
  BY <1>1, EndKeeps DEF RInv, Typed, TypeOK
<1>3. QED
  BY <1>1, <1>2, Over, Silence DEF RInv, EndSaying

LEMMA RAfterAdmin ==
    ASSUME RInv, NEW n \in Names, WritesSource(n) \/ WritesVhost(n) \/ WritesSite(n)
    PROVE  RInv'
<1>1. /\ Outside(n)
      /\ source' \in [Names -> File] /\ avail' \in [Names -> Vhost]
      /\ site' \in [Names -> Sites] /\ served' = served
  BY DEF WritesSource, WritesVhost, WritesSite, RInv, Typed, TypeOK, Vhost, File, Body
<1>2. undisturbed' = [p \in Procs |-> FALSE] /\ said' = {} /\ UNCHANGED <<pc, req, staged, rms, harm, runs>>
      /\ outside' = outside + 1
  BY <1>1 DEF Outside
<1>3. TypeOK'
  BY <1>1, <1>2 DEF RInv, Typed, TypeOK
<1>4. ASSUME NEW q \in Procs PROVE CallsMatch(q)' /\ Relies(q)'
  BY <1>2 DEF RInv, Typed, CallsMatch, Relies
<1>5. QED
  BY <1>2, <1>3, <1>4, Silence DEF RInv, Typed

THEOREM Reliable == Spec => []RInv
<1>1. Init => RInv
  <2> SUFFICES ASSUME Init PROVE RInv
    OBVIOUS
  <2>1. Typed
    BY DEF Init, Typed, TypeOK, Vhost, File, Body, Sites, Pcs, CallsMatch, ApplyCalls, RemoveCalls
  <2>2. QED
    BY <2>1 DEF Init, RInv, Relies, ReportsHold, AppliedIsServed, RemovedIsGone
<1>2. RInv /\ [Next]_vars => RInv'
  <2> SUFFICES ASSUME RInv, [Next]_vars PROVE RInv'
    OBVIOUS
  <2>1. ASSUME NEW p \in Procs, Invoke(p) \/ Step(p) PROVE RInv'
    BY <2>1, RAfterInvoke, RAfterChecks, RAfterInstall, RAfterRmSite, RAfterRmAvail, RAfterReload,
       RAfterKill DEF Step
  <2>2. ASSUME NEW n \in Names, WritesSource(n) \/ WritesVhost(n) \/ WritesSite(n)
        PROVE  RInv'
    BY <2>2, RAfterAdmin
  <2>3. CASE UNCHANGED vars
    BY <2>3 DEF vars, files, run, RInv, Typed, TypeOK, CallsMatch, Relies, Installs, Removes, Name,
       ReportsHold, AppliedIsServed, RemovedIsGone
  <2>4. QED
    BY <2>1, <2>2, <2>3 DEF Next
<1>3. QED
  BY <1>1, <1>2, PTL DEF Spec

\* Every variable keeps its type, whoever races with whom.
THEOREM TypeCorrect == Spec => []TypeOK
<1>1. RInv => TypeOK
  BY DEF RInv, Typed
<1>2. QED
  BY <1>1, Reliable, PTL

\* A success that nothing disturbs can be believed, whatever overlapping and
\* killed runs and a racing administrator left behind.
THEOREM ReportsHoldAlways == Spec => []ReportsHold
<1>1. RInv => ReportsHold
  BY DEF RInv
<1>2. QED
  BY <1>1, Reliable, PTL
=============================================================================
