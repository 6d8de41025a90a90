--------------------------- MODULE WorkstationProofs ---------------------------
(***************************************************************************)
(* Proofs about the commands for the files of one user: each part states   *)
(* the inductive invariant of one module that MCWorkstation composes; the  *)
(* last one puts them together, and has the theorems of WorkstationSpec.   *)
(***************************************************************************)
EXTENDS MCWorkstation, FiniteSetTheorems, SequenceTheorems, TLAPS

(***************************************************************************)
(* Induction without an operator for a parameter: a set of naturals that   *)
(* has 0 and with each of its elements the next one has them all, since    *)
(* otherwise the successor would map a finite part of it one to one into   *)
(* a smaller set.                                                          *)
(***************************************************************************)
LEMMA SetInduction ==
    ASSUME NEW S, 0 \in S, \A i \in Nat : i \in S => i + 1 \in S
    PROVE  Nat \subseteq S
<1> SUFFICES ASSUME NEW m \in Nat, m \notin S PROVE FALSE
  OBVIOUS
<1> DEFINE A == S \cap (0..m)
           B == A \ {0}
           f == [i \in A |-> i + 1]
<1>1. IsFiniteSet(0..m) /\ A \in SUBSET (0..m)
  BY FS_Interval
<1>2. IsFiniteSet(A)
  BY <1>1, FS_Subset
<1>3. Cardinality(A) \in Nat
  BY <1>2, FS_CardinalityType
<1>4. 0 \in A
  OBVIOUS
<1>5. IsFiniteSet(B) /\ Cardinality(B) = Cardinality(A) - 1
  <2> HIDE DEF A
  <2> QED
    BY <1>2, <1>4, FS_RemoveElement
<1>6. f \in [A -> B]
  <2>1. ASSUME NEW i \in A PROVE i + 1 \in B
    OBVIOUS
  <2>2. QED
    BY <2>1
<1>7. Cardinality(B) < Cardinality(A)
  BY <1>3, <1>5
<1> HIDE DEF B, f
<1>8. PICK x, y \in A : x # y /\ f[x] = f[y]
  <2> HIDE DEF A
  <2> QED
    BY <1>2, <1>5, <1>6, <1>7, FS_PigeonHole
<1>9. QED
  BY <1>8 DEF f

LEMMA MaxOfSome ==
    ASSUME NEW n \in Nat, NEW s \in SUBSET (1..n), s # {}
    PROVE  Max(s) \in s /\ \A y \in s : Max(s) >= y
<1> DEFINE HasMax(t) == \E x \in t : \A y \in t : x >= y
           S == {i \in Nat : \A t \in SUBSET (1..i) : t # {} => HasMax(t)}
<1>1. 0 \in S
  <2>1. \A t \in SUBSET (1..0) : t = {}
    OBVIOUS
  <2>2. QED
    BY <2>1
<1>2. ASSUME NEW i \in Nat, i \in S PROVE i + 1 \in S
  <2>1. ASSUME NEW t \in SUBSET (1..(i + 1)), t # {} PROVE HasMax(t)
    <3>1. CASE i + 1 \in t
      BY <3>1
    <3>2. CASE i + 1 \notin t
      <4>1. t \in SUBSET (1..i)
        BY <3>2
      <4>2. QED
        BY <1>2, <2>1, <4>1
    <3>3. QED
      BY <3>1, <3>2
  <2>2. QED
    BY <2>1
<1>3. Nat \subseteq S
  <2> HIDE DEF S
  <2> QED
    BY <1>1, <1>2, SetInduction
<1>4. HasMax(s)
  BY <1>3
<1>5. QED
  BY <1>4 DEF Max

\* A fold over the numbers from 1 to n, the largest last, as Folds.tla writes it
\* with a recursive function of the sets of them.
FoldsSets(f, A, base, n, G) ==
    /\ f \in [SUBSET (1..n) -> A]
    /\ \A s \in SUBSET (1..n) :
        f[s] = IF s = {} THEN base ELSE G[Max(s)][f[s \ {Max(s)}]]

\* Its values for the numbers up to each of them.
FoldsUp(g, last, A, base, n, G) ==
    /\ g \in [0..n -> A]
    /\ g[0] = base
    /\ \A i \in 1..n : g[i] = G[i][g[i - 1]]
    /\ g[n] = last

\* Such a function exists.
LEMMA FoldExists ==
    ASSUME NEW A, NEW base \in A, NEW n \in Nat, NEW G \in [1..n -> [A -> A]]
    PROVE  \E f : FoldsSets(f, A, base, n, G)
<1> DEFINE Small(m) == {s \in SUBSET (1..n) : Cardinality(s) <= m}
           Folds1(f, m) == \A s \in Small(m) :
                f[s] = IF s = {} THEN base ELSE G[Max(s)][f[s \ {Max(s)}]]
           S == {m \in Nat : \E f \in [Small(m) -> A] : Folds1(f, m)}
<1>0. \A s \in SUBSET (1..n) :
        /\ IsFiniteSet(s) /\ Cardinality(s) \in Nat /\ Cardinality(s) <= n
        /\ s # {} => /\ Max(s) \in 1..n /\ Cardinality(s \ {Max(s)}) = Cardinality(s) - 1
  <2> SUFFICES ASSUME NEW s \in SUBSET (1..n)
               PROVE  /\ IsFiniteSet(s) /\ Cardinality(s) \in Nat /\ Cardinality(s) <= n
                      /\ s # {} => /\ Max(s) \in 1..n
                                   /\ Cardinality(s \ {Max(s)}) = Cardinality(s) - 1
    OBVIOUS
  <2>1. IsFiniteSet(1..n) /\ Cardinality(1..n) = n
    BY FS_Interval
  <2>2. IsFiniteSet(s) /\ Cardinality(s) <= n
    <3> DEFINE I == 1..n
    <3>1. IsFiniteSet(I) /\ Cardinality(I) = n /\ s \in SUBSET I
      BY <2>1
    <3> HIDE DEF I
    <3>2. QED
      BY <3>1, FS_Subset
  <2>3. s # {} => Max(s) \in s
    BY MaxOfSome
  <2>4. s # {} => Cardinality(s \ {Max(s)}) = Cardinality(s) - 1
    BY <2>2, <2>3, FS_RemoveElement
  <2>5. QED
    BY <2>2, <2>3, <2>4, FS_CardinalityType
<1>1. 0 \in S
  <2>1. ASSUME NEW s \in Small(0) PROVE s = {}
    <3>1. s \in SUBSET (1..n) /\ Cardinality(s) <= 0
      OBVIOUS
    <3> HIDE DEF Small
    <3>2. IsFiniteSet(s) /\ Cardinality(s) \in Nat
      BY <1>0, <3>1
    <3>3. Cardinality(s) = 0
      BY <3>1, <3>2
    <3>4. QED
      BY <3>2, <3>3, FS_EmptySet
  <2>2. Folds1([s \in Small(0) |-> base], 0)
    BY <2>1
  <2>3. QED
    BY <2>2
<1>2. ASSUME NEW m \in Nat, m \in S PROVE m + 1 \in S
  <2>1. PICK f \in [Small(m) -> A] : Folds1(f, m)
    BY <1>2
  <2> DEFINE g == [s \in Small(m + 1) |->
                    IF s = {} THEN base ELSE G[Max(s)][f[s \ {Max(s)}]]]
  <2>2. ASSUME NEW s \in Small(m + 1), s # {} PROVE s \ {Max(s)} \in Small(m) /\ Max(s) \in 1..n
    <3>1. s \in SUBSET (1..n) /\ Cardinality(s) <= m + 1
      BY <2>2
    <3> DEFINE t == s \ {Max(s)}
    <3>2. Max(s) \in 1..n /\ Cardinality(t) = Cardinality(s) - 1 /\ Cardinality(s) \in Nat
      <4> HIDE DEF Small
      <4> QED
        BY <1>0, <2>2, <3>1
    <3>3. Cardinality(t) <= m /\ t \in SUBSET (1..n)
      <4>1. t \in SUBSET (1..n)
        BY <3>1
      <4> HIDE DEF Small, t
      <4>2. QED
        BY <3>1, <3>2, <4>1
    <3>4. t \in Small(m)
      <4> HIDE DEF t
      <4> QED
        BY <3>3
    <3>5. QED
      BY <3>2, <3>4
  <2>3. g \in [Small(m + 1) -> A]
    BY <1>0, <2>1, <2>2
  <2>4. ASSUME NEW s \in Small(m) PROVE s \in Small(m + 1) /\ g[s] = f[s]
    <3>1. s \in SUBSET (1..n) /\ Cardinality(s) <= m
      OBVIOUS
    <3>2. Cardinality(s) <= m + 1
      <4>1. Cardinality(s) \in Nat
        <5> HIDE DEF Small
        <5> QED
          BY <1>0, <3>1
      <4> DEFINE k == Cardinality(s)
      <4>2. k \in Nat /\ k <= m
        BY <3>1, <4>1
      <4> HIDE DEF k
      <4>3. k <= m + 1
        BY <4>2
      <4>4. QED
        BY <4>3 DEF k
    <3>3. s \in Small(m + 1)
      BY <3>1, <3>2
    <3> HIDE DEF Small
    <3>4. QED
      BY <2>1, <3>3
  <2>5. Folds1(g, m + 1)
    BY <2>2, <2>4
  <2> HIDE DEF g, Folds1, Small
  <2>6. QED
    BY <2>3, <2>5
<1>3. Nat \subseteq S
  <2> HIDE DEF S
  <2> QED
    BY <1>1, <1>2, SetInduction
<1>4. PICK f \in [Small(n) -> A] : Folds1(f, n)
  BY <1>3
<1>5. Small(n) = SUBSET (1..n)
  BY <1>0
<1>6. QED
  BY <1>4, <1>5 DEF FoldsSets

\* Its values for the initial segments follow one another.
LEMMA FoldRuns ==
    ASSUME NEW A, NEW base \in A, NEW n \in Nat, NEW G \in [1..n -> [A -> A]], NEW c,
           c[{}] = base,
           \A s \in SUBSET (1..n) : s # {} /\ c[s \ {Max(s)}] \in A
                => c[s] = G[Max(s)][c[s \ {Max(s)}]]
    PROVE  \E g : FoldsUp(g, c[1..n], A, base, n, G)
<1>1. ASSUME NEW i \in 1..n, c[1..(i - 1)] \in A
      PROVE  c[1..i] = G[i][c[1..(i - 1)]] /\ c[1..i] \in A
  <2>1. i \in Nat /\ (1..i) \in SUBSET (1..n) /\ (1..i) # {}
    <3>1. i \in Nat /\ i \in 1..i
      OBVIOUS
    <3>2. (1..i) \in SUBSET (1..n)
      OBVIOUS
    <3>3. QED
      BY <3>1, <3>2
  <2>2. Max(1..i) = i
    <3>1. Max(1..i) \in 1..i /\ \A y \in 1..i : Max(1..i) >= y
      BY <2>1, MaxOfSome
    <3>2. QED
      BY <2>1, <3>1
  <2>3. (1..i) \ {i} = 1..(i - 1)
    BY <2>1
  <2>4. c[1..i] = G[i][c[1..(i - 1)]]
    BY <1>1, <2>1, <2>2, <2>3
  <2>5. QED
    BY <1>1, <2>4
<1> DEFINE S == {i \in Nat : i \in 0..n => c[1..i] \in A}
<1>2. 1..0 = {}
  OBVIOUS
<1>3. 0 \in S
  BY <1>2
<1>4. ASSUME NEW i \in Nat, i \in S PROVE i + 1 \in S
  <2>1. CASE i + 1 \in 0..n
    <3>1. c[1..i] \in A /\ i + 1 \in 1..n /\ (i + 1) - 1 = i
      BY <1>4, <2>1
    <3>2. c[1..(i + 1)] \in A
      BY <1>1, <3>1
    <3>3. QED
      BY <3>2
  <2>2. QED
    BY <2>1
<1>5. Nat \subseteq S
  <2> HIDE DEF S
  <2> QED
    BY <1>3, <1>4, SetInduction
<1> DEFINE g == [i \in 0..n |-> c[1..i]]
<1>6. \A i \in 0..n : c[1..i] \in A
  BY <1>5
<1>7. g \in [0..n -> A] /\ g[0] = base /\ g[n] = c[1..n]
  BY <1>2, <1>6
<1>8. ASSUME NEW i \in 1..n PROVE g[i] = G[i][g[i - 1]]
  <2>1. i - 1 \in 0..n /\ i \in 0..n
    OBVIOUS
  <2>2. g[i] = c[1..i] /\ g[i - 1] = c[1..(i - 1)]
    BY <2>1
  <2> HIDE DEF g
  <2>3. QED
    BY <1>1, <1>6, <2>1, <2>2
<1> HIDE DEF g
<1>9. QED
  BY <1>7, <1>8 DEF FoldsUp
-----------------------------------------------------------------------------
(***************************************************************************)
(* ssh.                                                                    *)
(***************************************************************************)
KeySteps == {"look", "move", "move_pub", "check", "keygen", "keygen_pub"}
HostSteps == {"read", "truncate", "write"}
ModeSteps == {"audit", "chmod"}

\* A run is at a step of its own group, with a request of that group.
SshAtGroup ==
    /\ group \in SshGroups
    /\ at \in {"idle"} \cup KeySteps \cup HostSteps \cup ModeSteps
    /\ at \in KeySteps => group = "ssh_keys" /\ req \in [cmd : {"generate", "rotate"}, dry : BOOLEAN]
    /\ at \in HostSteps => group = "known_hosts" /\ req \in [cmd : {"prune"}, dry : BOOLEAN]
    /\ at \in ModeSteps => group = "perms" /\ req \in [cmd : {"fix"}, dry : BOOLEAN]

\* A key that is no longer in place was moved, to the backup of a second that
\* has one; the backup of a second is of a key moved in it.
KeysAccounted ==
    /\ key.priv <= made
    /\ key.priv # 0 => moved[key.priv] = None
    /\ \A k \in 1..MaxKeys : k > made => moved[k] = None
    /\ \A k \in 1..made : k = key.priv \/ (moved[k] \in Stamp /\ bakPriv[moved[k]] # 0)
    /\ \A t \in Stamp : bakPriv[t] # 0 => bakPriv[t] <= made /\ moved[bakPriv[t]] = t

\* What rotate remembers, from its look to its end.
Rotation == [ts : Stamp, asked : Stamp, old : [priv : Key \ {0}, pub : Key]]

Rotating == at \in {"move", "move_pub"} \/ (at \in {"check", "keygen", "keygen_pub"} /\ req.cmd = "rotate" /\ ~req.dry)

RotationKnown ==
    /\ at \in {"move", "move_pub"} => req.cmd = "rotate" /\ ~req.dry
    /\ at \in {"keygen", "keygen_pub"} => ~req.dry
    /\ Rotating => mem \in Rotation /\ mem.ts = mem.asked
    /\ at = "move" => key.priv # 0 /\ (calm => key = mem.old)
    /\ at = "move_pub" /\ calm => key.pub = mem.old.pub
    /\ at = "keygen_pub" => key.priv # 0
    /\ Rotating /\ at # "move" /\ calm => bakPriv[mem.ts] = mem.old.priv
    /\ Rotating /\ at \notin {"move", "move_pub"} /\ calm /\ mem.old.pub # 0 => bakPub[mem.ts] = mem.old.pub

\* Nothing but a rotate looks for a key first.
LookIsRotate == at = "look" => req.cmd = "rotate"

\* What is still lax, of the paths audited, is still to be set right.
LaxListed ==
    at = "chmod" =>
        /\ mem \in [todo : SUBSET Path, failed : BOOLEAN]
        /\ calm /\ ~mem.failed => lax \cap Audited \subseteq mem.todo

\* What is to be written, pruned, is what was read.
TextRead ==
    /\ at \in {"idle", "read"} => mem = Nothing
    /\ at \in {"truncate", "write"} => mem \in Seq(Line)

SshInv ==
    /\ SshTypeOK /\ SshAtGroup
    /\ KeysAccounted /\ LookIsRotate /\ RotationKnown
    /\ LaxListed /\ TextRead

\* One line after the other, with the lines kept so far.
KeptOf(text, g) ==
    /\ g \in [0..Len(text) -> Seq(Line)]
    /\ g[0] = <<>>
    /\ \A i \in 1..Len(text) :
        g[i] = IF Drops(g[i - 1], text[i]) THEN g[i - 1] ELSE Append(g[i - 1], text[i])
    /\ Pruned(text) = g[Len(text)]

LEMMA PrunedFolds ==
    ASSUME NEW text \in Seq(Line)
    PROVE  \E g : KeptOf(text, g)
<1> DEFINE n == Len(text)
           D == DOMAIN text
           Folds1(f) == f = [s \in SUBSET D |->
                IF s = {} THEN <<>>
                ELSE IF Drops(f[s \ {Max(s)}], text[Max(s)])
                     THEN f[s \ {Max(s)}] ELSE Append(f[s \ {Max(s)}], text[Max(s)])]
           c == CHOOSE f : Folds1(f)
           Step(x, i) == IF Drops(x, text[i]) THEN x ELSE Append(x, text[i])
           G == [i \in 1..n |-> [x \in Seq(Line) |-> Step(x, i)]]
<1>1. Pruned(text) = c[D]
  BY DEF Pruned, FoldLeft, MapThenFoldSet
<1>2. D = 1..n /\ n \in Nat /\ \A i \in 1..n : text[i] \in Line
  BY LenProperties
<1>3. <<>> \in Seq(Line)
  OBVIOUS
<1>4. \A i \in 1..n, x \in Seq(Line) : Step(x, i) \in Seq(Line)
  BY <1>2, AppendProperties
<1>5. /\ G \in [1..n -> [Seq(Line) -> Seq(Line)]]
      /\ \A i \in 1..n, x \in Seq(Line) : G[i][x] = Step(x, i)
  <2> HIDE DEF Step, n
  <2> QED
    BY <1>4
<1>6. PICK f \in [SUBSET (1..n) -> Seq(Line)] : \A s \in SUBSET (1..n) :
            f[s] = IF s = {} THEN <<>> ELSE G[Max(s)][f[s \ {Max(s)}]]
  <2> DEFINE A == Seq(Line)
             base == <<>>
  <2>1. n \in Nat /\ base \in A /\ G \in [1..n -> [A -> A]]
    BY <1>2, <1>3, <1>5
  <2> HIDE DEF G, n, A, base
  <2>2. PICK f : FoldsSets(f, A, base, n, G)
    BY <2>1, FoldExists
  <2>3. QED
    BY <2>2 DEF FoldsSets, A, base
<1>7. ASSUME NEW s \in SUBSET (1..n), s # {}
      PROVE  Max(s) \in 1..n /\ s \ {Max(s)} \in SUBSET (1..n)
  <2> HIDE DEF n
  <2> QED
    BY <1>2, <1>7, MaxOfSome
<1>8. Folds1(f)
  <2>1. ASSUME NEW s \in SUBSET (1..n), s # {}
        PROVE  f[s] = Step(f[s \ {Max(s)}], Max(s))
    <3> HIDE DEF G, n, Step
    <3> QED
      BY <1>5, <1>6, <1>7, <2>1
  <2>2. f[{}] = <<>>
    BY <1>6
  <2> HIDE DEF n, G
  <2>3. QED
    BY <1>2, <1>6, <2>1, <2>2
<1>9. Folds1(c)
  BY <1>8
<1>10. \A s \in SUBSET (1..n) : c[s] = IF s = {} THEN <<>> ELSE Step(c[s \ {Max(s)}], Max(s))
  <2> HIDE DEF c, n
  <2> QED
    BY <1>2, <1>9
<1>11. PICK g \in [0..n -> Seq(Line)] :
            /\ g[0] = <<>>
            /\ \A i \in 1..n : g[i] = G[i][g[i - 1]]
            /\ g[n] = c[1..n]
  <2>1. c[{}] = <<>>
    <3> HIDE DEF c, n
    <3> QED
      BY <1>10
  <2>2. \A s \in SUBSET (1..n) : s # {} /\ c[s \ {Max(s)}] \in Seq(Line)
            => c[s] = G[Max(s)][c[s \ {Max(s)}]]
    <3> HIDE DEF c, n, G, Step
    <3> QED
      BY <1>5, <1>7, <1>10
  <2> DEFINE A == Seq(Line)
             base == <<>>
  <2>3. n \in Nat /\ base \in A /\ G \in [1..n -> [A -> A]] /\ c[{}] = base
    BY <1>2, <1>3, <1>5, <2>1
  <2>4. \A s \in SUBSET (1..n) : s # {} /\ c[s \ {Max(s)}] \in A
            => c[s] = G[Max(s)][c[s \ {Max(s)}]]
    BY <2>2
  <2> HIDE DEF c, n, G, A, base
  <2>5. PICK g : FoldsUp(g, c[1..n], A, base, n, G)
    BY <2>3, <2>4, FoldRuns
  <2>6. QED
    BY <2>5 DEF FoldsUp, A, base
<1>12. \A i \in 1..n : g[i] = Step(g[i - 1], i)
  <2> HIDE DEF G, n, Step
  <2>1. \A i \in 1..n : g[i - 1] \in Seq(Line)
    BY <1>2, <1>11
  <2>2. QED
    BY <1>5, <1>11, <2>1
<1>13. Pruned(text) = g[n]
  <2> HIDE DEF c
  <2> QED
    BY <1>1, <1>2, <1>11
<1>14. QED
  BY <1>11, <1>12, <1>13 DEF KeptOf

Plain == [mark : {FALSE}, host : Hosts, blob : Blobs]

\* What pruning must not change of a text: which plain lines are among its
\* first ones, and, of what is kept, that none is there twice.
PrunedWell(out, text, n) ==
    /\ \A l \in Plain : (\E j \in DOMAIN out : out[j] = l) <=> (\E j \in 1..n : text[j] = l)
    /\ \A j, k \in DOMAIN out : j # k /\ ~out[j].mark /\ out[j] # Comment => out[j] # out[k]

\* A plain line that is dropped is there already, since no host is named like
\* the marker.
LEMMA DroppedIsThere ==
    ASSUME NEW out \in Seq(Line), NEW l \in Plain, Drops(out, l)
    PROVE  \E j \in DOMAIN out : out[j] = l
<1>1. PICK j \in DOMAIN out : out[j] # Comment /\ Tag(out[j]) = Tag(l)
  BY DEF Drops
<1>2. out[j] \in [mark : BOOLEAN, host : Hosts, blob : Blobs]
  BY <1>1 DEF Line
<1>3. ~ l.mark /\ Tag(l) = <<l.host, l.blob>> /\ l.host \in Hosts
  BY DEF Plain, Tag, Pair
<1>4. ~ out[j].mark
  BY <1>1, <1>2, <1>3, SshNamesAssumption DEF Tag, Pair
<1>5. out[j].host = l.host /\ out[j].blob = l.blob
  BY <1>1, <1>3, <1>4 DEF Tag, Pair
<1>6. out[j] = l
  <2>1. out[j].mark = FALSE /\ l.mark = FALSE
    BY <1>2, <1>4 DEF Plain
  <2>2. l \in [mark : BOOLEAN, host : Hosts, blob : Blobs]
    BY DEF Plain
  <2>3. QED
    BY <1>2, <1>5, <2>1, <2>2
<1>7. QED
  BY <1>6

LEMMA PrunedStep ==
    ASSUME NEW text \in Seq(Line), NEW n \in Nat, n + 1 \in 1..Len(text),
           NEW out \in Seq(Line), PrunedWell(out, text, n)
    PROVE  PrunedWell(IF Drops(out, text[n + 1]) THEN out ELSE Append(out, text[n + 1]), text, n + 1)
<1> DEFINE l == text[n + 1]
<1>1. l \in Line
  OBVIOUS
<1>2. \A j : j \in 1..(n + 1) <=> j \in 1..n \/ j = n + 1
  OBVIOUS
<1>3. CASE Drops(out, l)
  <2>1. ASSUME NEW p \in Plain
        PROVE  (\E j \in DOMAIN out : out[j] = p) <=> (\E j \in 1..(n + 1) : text[j] = p)
    <3>1. p = l => \E j \in DOMAIN out : out[j] = p
      BY <1>3, DroppedIsThere
    <3>2. QED
      BY <1>2, <3>1 DEF PrunedWell
  <2>2. QED
    BY <1>3, <2>1 DEF PrunedWell
<1>4. CASE ~ Drops(out, l)
  <2> DEFINE m == Len(out)
             new == Append(out, l)
  <2>1. /\ m \in Nat /\ DOMAIN out = 1..m /\ DOMAIN new = 1..(m + 1)
        /\ new[m + 1] = l /\ \A j \in 1..m : new[j] = out[j]
    BY <1>1, AppendProperties, LenProperties
  <2> HIDE DEF new, m
  <2>2. \A j : j \in DOMAIN new <=> j \in DOMAIN out \/ j = m + 1
    BY <2>1
  <2>3. \A p \in Plain : (\E j \in DOMAIN new : new[j] = p) <=> (\E j \in 1..(n + 1) : text[j] = p)
    BY <1>2, <2>1, <2>2 DEF PrunedWell
  <2>4. ASSUME l # Comment PROVE \A j \in DOMAIN out : out[j] # l
    BY <1>4, <2>4 DEF Drops
  <2>5. ASSUME NEW j \in DOMAIN new, NEW k \in DOMAIN new, j # k, ~new[j].mark, new[j] # Comment
        PROVE  new[j] # new[k]
    <3>1. CASE j \in DOMAIN out /\ k \in DOMAIN out
      BY <2>1, <2>5, <3>1 DEF PrunedWell
    <3>2. CASE j = m + 1
      BY <2>1, <2>2, <2>4, <2>5, <3>2
    <3>3. CASE k = m + 1
      BY <2>1, <2>2, <2>4, <2>5, <3>3
    <3>4. QED
      BY <2>2, <2>5, <3>1, <3>2, <3>3
  <2>6. PrunedWell(new, text, n + 1)
    BY <2>3, <2>5 DEF PrunedWell
  <2>7. QED
    BY <1>4, <2>6 DEF new
<1>5. QED
  BY <1>3, <1>4

LEMMA PrunedKeepsHosts ==
    ASSUME NEW text \in Seq(Line)
    PROVE  /\ Pruned(text) \in Seq(Line)
           /\ PrunedWell(Pruned(text), text, Len(text))
<1>1. PICK g : KeptOf(text, g)
  BY PrunedFolds
<1> DEFINE S == {i \in Nat : i \in 0..Len(text) => PrunedWell(g[i], text, i)}
<1>2. 0 \in S
  <2>1. g[0] = <<>> /\ DOMAIN <<>> = {} /\ 1..0 = {}
    BY <1>1 DEF KeptOf
  <2>2. QED
    BY <2>1 DEF PrunedWell
<1>3. ASSUME NEW i \in Nat, i \in S PROVE i + 1 \in S
  <2>1. CASE i + 1 \in 0..Len(text)
    <3>1. i \in 0..Len(text) /\ i + 1 \in 1..Len(text) /\ (i + 1) - 1 = i
      BY <2>1
    <3>2. /\ g[i] \in Seq(Line) /\ PrunedWell(g[i], text, i)
          /\ g[i + 1] = IF Drops(g[i], text[i + 1]) THEN g[i] ELSE Append(g[i], text[i + 1])
      BY <1>1, <1>3, <3>1 DEF KeptOf
    <3>3. PrunedWell(g[i + 1], text, i + 1)
      BY <3>1, <3>2, PrunedStep
    <3>4. QED
      BY <3>3
  <2>2. QED
    BY <2>1
<1>4. Nat \subseteq S
  <2> HIDE DEF S
  <2> QED
    BY <1>2, <1>3, SetInduction
<1>5. Len(text) \in S
  BY <1>4, LenProperties
<1>6. QED
  BY <1>1, <1>5, LenProperties DEF KeptOf

\* Of what is kept, no two lines have the same tag.
TagsApart(out) ==
    \A j, k \in DOMAIN out :
        j # k /\ out[j] # Comment /\ out[k] # Comment => Tag(out[j]) # Tag(out[k])

LEMMA TagsStayApart ==
    ASSUME NEW out \in Seq(Line), NEW l \in Line, TagsApart(out), ~ Drops(out, l)
    PROVE  TagsApart(Append(out, l))
<1> DEFINE m == Len(out)
           new == Append(out, l)
<1>1. /\ m \in Nat /\ DOMAIN out = 1..m /\ DOMAIN new = 1..(m + 1)
      /\ new[m + 1] = l /\ \A j \in 1..m : new[j] = out[j]
  BY AppendProperties, LenProperties
<1>2. \A j : j \in 1..(m + 1) <=> j \in 1..m \/ j = m + 1
  BY <1>1
<1> HIDE DEF new, m
<1>3. l # Comment => \A j \in DOMAIN out : out[j] # Comment => Tag(out[j]) # Tag(l)
  BY DEF Drops
<1>4. ASSUME NEW j \in DOMAIN new, NEW k \in DOMAIN new,
             j # k, new[j] # Comment, new[k] # Comment
      PROVE  Tag(new[j]) # Tag(new[k])
  <2>1. CASE j \in DOMAIN out /\ k \in DOMAIN out
    BY <1>1, <1>4, <2>1 DEF TagsApart
  <2>2. CASE j = m + 1
    BY <1>1, <1>2, <1>3, <1>4, <2>2
  <2>3. CASE k = m + 1
    BY <1>1, <1>2, <1>3, <1>4, <2>3
  <2>4. QED
    BY <1>1, <1>2, <1>4, <2>1, <2>2, <2>3
<1>5. TagsApart(new)
  BY <1>4 DEF TagsApart
<1>6. QED
  BY <1>5 DEF new

LEMMA PrunedApart ==
    ASSUME NEW text \in Seq(Line)
    PROVE  TagsApart(Pruned(text))
<1>1. PICK g : KeptOf(text, g)
  BY PrunedFolds
<1> DEFINE S == {i \in Nat : i \in 0..Len(text) => TagsApart(g[i])}
<1>2. 0 \in S
  <2>1. DOMAIN g[0] = {}
    BY <1>1 DEF KeptOf
  <2>2. QED
    BY <2>1 DEF TagsApart
<1>3. ASSUME NEW i \in Nat, i \in S PROVE i + 1 \in S
  <2> SUFFICES ASSUME i + 1 \in 0..Len(text) PROVE TagsApart(g[i + 1])
    OBVIOUS
  <2>1. i \in 0..Len(text) /\ i + 1 \in 1..Len(text) /\ (i + 1) - 1 = i
    BY LenProperties
  <2>2. /\ g[i] \in Seq(Line) /\ TagsApart(g[i]) /\ text[i + 1] \in Line
        /\ g[i + 1] = IF Drops(g[i], text[i + 1]) THEN g[i] ELSE Append(g[i], text[i + 1])
    BY <1>1, <1>3, <2>1 DEF KeptOf
  <2>3. QED
    BY <2>2, TagsStayApart
<1>4. Nat \subseteq S
  <2> HIDE DEF S
  <2> QED
    BY <1>2, <1>3, SetInduction
<1>5. Len(text) \in S
  BY <1>4, LenProperties
<1>6. QED
  BY <1>1, <1>5, LenProperties DEF KeptOf

\* Prune drops nothing of a text whose tags differ: line by line, what it has
\* kept is what it has read.
LEMMA ApartIsKept ==
    ASSUME NEW text \in Seq(Line), TagsApart(text)
    PROVE  Pruned(text) = text
<1>1. PICK g : KeptOf(text, g)
  BY PrunedFolds
<1> DEFINE n == Len(text)
           Same(i) == Len(g[i]) = i /\ \A j \in 1..i : g[i][j] = text[j]
           S == {i \in Nat : i \in 0..n => Same(i)}
<1>2. n \in Nat /\ DOMAIN text = 1..n
  BY LenProperties
<1>3. 0 \in S
  BY <1>1 DEF KeptOf
<1>4. ASSUME NEW i \in Nat, i \in S PROVE i + 1 \in S
  <2> SUFFICES ASSUME i + 1 \in 0..n PROVE Same(i + 1)
    OBVIOUS
  <2> DEFINE out == g[i]
             l == text[i + 1]
  <2>1. i \in 0..n /\ i + 1 \in 1..n /\ (i + 1) - 1 = i
    BY <1>2
  <2>2. /\ out \in Seq(Line) /\ Len(out) = i /\ \A j \in 1..i : out[j] = text[j]
        /\ l \in Line /\ g[i + 1] = IF Drops(out, l) THEN out ELSE Append(out, l)
    <3>1. Same(i)
      BY <1>4, <2>1
    <3>2. g[i] \in Seq(Line) /\ text[i + 1] \in Line
      BY <1>1, <1>2, <2>1 DEF KeptOf
    <3>3. g[i + 1] = IF Drops(g[i], text[i + 1]) THEN g[i] ELSE Append(g[i], text[i + 1])
      BY <1>1, <2>1 DEF KeptOf
    <3>4. QED
      BY <3>1, <3>2, <3>3
  <2>3. \A j \in 1..i : j \in DOMAIN text /\ i + 1 \in DOMAIN text /\ j # i + 1
    BY <1>2, <2>1
  <2>4. ~ Drops(out, l)
    <3> HIDE DEF n, S
    <3>1. DOMAIN out = 1..i
      BY <2>2, LenProperties
    <3>2. QED
      BY <2>2, <2>3, <3>1 DEF Drops, TagsApart
  <2>5. /\ g[i + 1] = Append(out, l) /\ Len(Append(out, l)) = i + 1
        /\ Append(out, l)[i + 1] = l /\ \A j \in 1..i : Append(out, l)[j] = out[j]
    BY <2>2, <2>4, AppendProperties
  <2>6. \A j \in 1..(i + 1) : j \in 1..i \/ j = i + 1
    OBVIOUS
  <2> HIDE DEF out, l
  <2>7. \A j \in 1..(i + 1) : g[i + 1][j] = text[j]
    BY <2>2, <2>5, <2>6 DEF l
  <2>8. QED
    BY <2>5, <2>7
<1>5. Nat \subseteq S
  <2> HIDE DEF S
  <2> QED
    BY <1>3, <1>4, SetInduction
<1>6. Same(n) /\ g[n] \in Seq(Line) /\ Pruned(text) = g[n]
  BY <1>1, <1>2, <1>5 DEF KeptOf
<1>7. DOMAIN g[n] = DOMAIN text
  BY <1>2, <1>6, LenProperties
<1>8. g[n] = text
  BY <1>2, <1>6, <1>7, SeqEqual
<1>9. QED
  BY <1>6, <1>8

\* `ssh known-hosts prune' is idempotent: of what it has written it finds nothing
\* to remove, so a second run leaves the file alone.
THEOREM PruneIdempotent ==
    ASSUME NEW text \in Seq(Line)
    PROVE  Pruned(Pruned(text)) = Pruned(text)
BY PrunedKeepsHosts, PrunedApart, ApartIsKept

\* A step that reports nothing, or no success, keeps what the reports say.
LEMMA SshSilence == said' = {} => SshReportsHold'
BY DEF SshReportsHold, NewPairOldPair, PruneKeepsHosts, FixedMeansTight, Ended

LEMMA SshNoSuccess ==
    ASSUME NEW code, Exit(code), code # "ok" \/ req.dry
    PROVE  SshReportsHold'
<1>1. \A s \in said' : s.exit # "ok" \/ s.req.dry
  BY DEF Exit, Ends
<1>2. QED
  BY <1>1 DEF SshReportsHold, NewPairOldPair, PruneKeepsHosts, FixedMeansTight, Ended

LEMMA NotOfPrune == (\A s \in said' : s.req.cmd # "prune") => PruneKeepsHosts'
BY DEF PruneKeepsHosts, Ended

LEMMA SshReportsUntouched ==
    ASSUME SshReportsHold, UNCHANGED <<said, key, bakPriv, bakPub, known, lax>>
    PROVE  SshReportsHold'
<1>1. \A c, e : Ended(c, e)' = Ended(c, e)
  BY DEF Ended
<1>2. NewPairOldPair'
  BY <1>1 DEF SshReportsHold, NewPairOldPair
<1>3. FixedMeansTight'
  BY <1>1 DEF SshReportsHold, FixedMeansTight
<1>4. Trusts(known, FALSE)' = Trusts(known, FALSE)
  BY DEF Trusts
<1>5. \A s : Trusts(s.mem, FALSE)' = Trusts(s.mem, FALSE)
  BY DEF Trusts
<1>6. PruneKeepsHosts'
  BY <1>1, <1>4, <1>5 DEF SshReportsHold, PruneKeepsHosts
<1>7. QED
  BY <1>2, <1>3, <1>6 DEF SshReportsHold

LEMMA NoKeyTyped == 0 \in Key
BY SshBoundsAssumption DEF Key

\* A run that ends leaves nothing to keep but what it did to the state.
LEMMA SshIdleKeeps ==
    ASSUME SshInv, at' = "idle", mem' = Nothing, group' = group
    PROVE  SshAtGroup' /\ LookIsRotate' /\ RotationKnown' /\ LaxListed' /\ TextRead'
BY DEF SshInv, TextRead, LookIsRotate, SshAtGroup, RotationKnown, Rotating, LaxListed, KeySteps, HostSteps, ModeSteps

LEMMA KeysUntouched ==
    ASSUME KeysAccounted, UNCHANGED <<key, bakPriv, made, moved>>
    PROVE  KeysAccounted'
BY DEF KeysAccounted

LEMMA SshInitially == SshInit => SshInv /\ SshReportsHold
<1> SUFFICES ASSUME SshInit PROVE SshInv /\ SshReportsHold
  OBVIOUS
<1> USE SshBoundsAssumption, SshNamesAssumption
<1>1. /\ at = "idle" /\ said = {} /\ group \in SshGroups
      /\ key \in {[priv |-> 0, pub |-> 0], [priv |-> 1, pub |-> 1], [priv |-> 1, pub |-> 0]}
      /\ made = key.priv /\ now = 0
      /\ bakPriv = [t \in Stamp |-> 0] /\ bakPub = [t \in Stamp |-> 0]
      /\ moved = [k \in 1..MaxKeys |-> None]
  BY DEF SshInit, CliInit, SshStart
<1>2. known \in Seq(Line) /\ lax \subseteq Path
  <2>1. <<>> \in Seq(Line)
    OBVIOUS
  <2>2. UNION {[1..n -> Line] : n \in 0..3} \subseteq Seq(Line)
    <3>1. ASSUME NEW n \in 0..3, NEW s \in [1..n -> Line] PROVE s \in Seq(Line)
      BY IsASeq
    <3>2. QED
      BY <3>1
  <2>3. QED
    BY <2>1, <2>2 DEF SshInit, SshStart
<1>3. SshTypeOK
  BY <1>1, <1>2 DEF SshTypeOK, Key, Stamp
<1>4. SshAtGroup
  BY <1>1 DEF SshAtGroup, KeySteps, HostSteps, ModeSteps
<1>5. KeysAccounted
  <2>1. made \in {0, 1} /\ key.priv = made
    BY <1>1
  <2>2. \A k \in 1..MaxKeys : moved[k] = None
    BY <1>1
  <2>3. \A t \in Stamp : bakPriv[t] = 0
    BY <1>1
  <2>4. QED
    BY <2>1, <2>2, <2>3 DEF KeysAccounted
<1>6. LookIsRotate /\ RotationKnown /\ LaxListed /\ TextRead
  BY <1>1 DEF SshInit, CliInit, TextRead, LookIsRotate, RotationKnown, Rotating, LaxListed
<1>7. SshReportsHold
  BY <1>1 DEF SshReportsHold, NewPairOldPair, PruneKeepsHosts, FixedMeansTight, Ended
<1>8. QED
  BY <1>3, <1>4, <1>5, <1>6, <1>7 DEF SshInv

LEMMA SshAskKeeps == SshInv /\ (AskKeys \/ AskPrune \/ AskFix) => SshInv' /\ SshReportsHold'
<1> SUFFICES ASSUME SshInv, AskKeys \/ AskPrune \/ AskFix PROVE SshInv' /\ SshReportsHold'
  OBVIOUS
<1>1. at = "idle" /\ said' = {} /\ UNCHANGED ssh /\ UNCHANGED <<group, mem>>
  BY DEF AskKeys, AskPrune, AskFix, Ask, Starts, Refused, Idle
<1>2. \/ at' = "idle" /\ UNCHANGED req
      \/ at' \in {"look", "check"} /\ group = "ssh_keys" /\ req' \in [cmd : {"generate", "rotate"}, dry : BOOLEAN]
         /\ (at' = "check" <=> req'.cmd = "generate")
      \/ at' = "read" /\ group = "known_hosts" /\ req' \in [cmd : {"prune"}, dry : BOOLEAN]
      \/ at' = "audit" /\ group = "perms" /\ req' \in [cmd : {"fix"}, dry : BOOLEAN]
  <2>1. CASE AskKeys
    BY <2>1 DEF AskKeys, Ask, Starts, Refused, Idle
  <2>2. CASE AskPrune
    BY <2>2 DEF AskPrune, Ask, Starts, Refused, Idle
  <2>3. CASE AskFix
    BY <2>3 DEF AskFix, Ask, Starts, Refused, Idle
  <2>4. QED
    BY <2>1, <2>2, <2>3
<1>3. SshTypeOK' /\ KeysAccounted'
  BY <1>1, KeysUntouched DEF SshInv, SshTypeOK, ssh
<1>4. SshAtGroup'
  BY <1>1, <1>2 DEF SshInv, SshAtGroup, KeySteps, HostSteps, ModeSteps
<1>5. LookIsRotate' /\ RotationKnown'
  BY <1>1, <1>2 DEF LookIsRotate, RotationKnown, Rotating
<1>6. LaxListed' /\ TextRead'
  BY <1>1, <1>2 DEF SshInv, LaxListed, TextRead, SshAtGroup
<1>7. QED
  BY <1>1, <1>3, <1>4, <1>5, <1>6, SshSilence DEF SshInv

LEMMA LookKeeps == SshInv /\ Look => SshInv' /\ SshReportsHold'
<1> SUFFICES ASSUME SshInv, Look PROVE SshInv' /\ SshReportsHold'
  OBVIOUS
<1>1. /\ at = "look" /\ UNCHANGED ssh /\ UNCHANGED group
      /\ key \in [priv : Key, pub : Key] /\ now \in Stamp
  BY DEF Look, Exit, Ends, Remember, SshInv, SshTypeOK
<1>2. SshTypeOK' /\ KeysAccounted'
  BY <1>1, KeysUntouched DEF SshInv, SshTypeOK, ssh
<1>3. CASE Exit("fail") \/ (req.dry /\ Exit("ok"))
  <2>1. at' = "idle" /\ mem' = Nothing
    BY <1>3 DEF Exit, Ends
  <2>2. SshReportsHold'
    BY <1>3, SshNoSuccess
  <2>3. QED
    BY <1>1, <1>2, <2>1, <2>2, SshIdleKeeps DEF SshInv
<1>4. CASE /\ key.priv # 0 /\ ~ req.dry
           /\ Remember("move", [ts |-> now, asked |-> now, old |-> key])
  <2>1. /\ at' = "move" /\ req' = req /\ said' = {} /\ calm' = calm
        /\ mem' = [ts |-> now, asked |-> now, old |-> key]
    BY <1>4 DEF Remember
  <2>2. SshAtGroup'
    BY <1>1, <2>1 DEF SshInv, SshAtGroup, KeySteps, HostSteps, ModeSteps
  <2>3. req.cmd = "rotate"
    BY <1>1 DEF SshInv, LookIsRotate
  <2>4. mem' \in Rotation
    BY <1>1, <1>4, <2>1 DEF Rotation
  <2>5. RotationKnown'
    BY <1>1, <1>4, <2>1, <2>3, <2>4 DEF RotationKnown, Rotating, ssh
  <2>6. QED
    BY <1>2, <2>1, <2>2, <2>5, SshSilence DEF SshInv, LaxListed, TextRead, LookIsRotate
<1>5. QED
  BY <1>3, <1>4 DEF Look, BackupName

LEMMA MovePrivKeeps == SshInv /\ MovePriv => SshInv' /\ SshReportsHold'
<1> SUFFICES ASSUME SshInv, MovePriv PROVE SshInv' /\ SshReportsHold'
  OBVIOUS
<1> USE SshBoundsAssumption, SshNamesAssumption
<1>1. /\ at = "move" /\ at' = "move_pub" /\ said' = {}
      /\ UNCHANGED <<group, req, calm, mem, bakPub, made, now, known, lax>>
  BY DEF MovePriv, Goto, Remember
<1>2. /\ key' = [key EXCEPT !.priv = 0]
      /\ bakPriv' = [bakPriv EXCEPT ![mem.ts] = key.priv]
      /\ moved' = [moved EXCEPT ![key.priv] = mem.ts]
      /\ mem \in Rotation /\ req.cmd = "rotate" /\ ~ req.dry
      /\ key.priv # 0 /\ (calm => key = mem.old)
  BY <1>1 DEF MovePriv, SshInv, RotationKnown, Rotating
<1>3. /\ key \in [priv : Key, pub : Key] /\ bakPriv \in [Stamp -> Key]
      /\ made \in Key /\ moved \in [1..MaxKeys -> Stamp \cup {None}]
      /\ mem.ts \in Stamp /\ key.priv \in 1..MaxKeys
  BY <1>2 DEF SshInv, SshTypeOK, Rotation, Key
<1>4. SshTypeOK'
  <2>1. key' \in [priv : Key, pub : Key]
    BY <1>2, <1>3 DEF Key
  <2>2. bakPriv' \in [Stamp -> Key]
    BY <1>2, <1>3 DEF Key
  <2>3. moved' \in [1..MaxKeys -> Stamp \cup {None}]
    BY <1>2, <1>3
  <2>4. QED
    BY <1>1, <2>1, <2>2, <2>3 DEF SshInv, SshTypeOK
<1>5. SshAtGroup'
  BY <1>1 DEF SshInv, SshAtGroup, KeySteps, HostSteps, ModeSteps
<1>6. KeysAccounted'
  <2> DEFINE k0 == key.priv
             t0 == mem.ts
  <2>1. /\ key'.priv = 0 /\ made' = made
        /\ moved'[k0] = t0 /\ \A k \in 1..MaxKeys : k # k0 => moved'[k] = moved[k]
        /\ bakPriv'[t0] = k0 /\ \A t \in Stamp : t # t0 => bakPriv'[t] = bakPriv[t]
    BY <1>1, <1>2, <1>3
  <2>2. k0 <= made /\ moved[k0] = None /\ k0 \in 1..MaxKeys /\ t0 \in Stamp /\ None \notin Stamp
    BY <1>2, <1>3 DEF SshInv, KeysAccounted, Stamp
  <2>3. made \in Nat /\ made <= MaxKeys
    BY <1>3 DEF Key
  <2> HIDE DEF k0, t0
  <2>4. \A k \in 1..MaxKeys : k > made => moved'[k] = None
    BY <2>1, <2>2, <2>3 DEF SshInv, KeysAccounted
  <2>5. ASSUME NEW k \in 1..made PROVE moved'[k] \in Stamp /\ bakPriv'[moved'[k]] # 0
    <3>1. CASE k = k0
      BY <3>1, <2>1, <2>2
    <3>2. CASE k # k0
      <4>1. moved[k] \in Stamp /\ bakPriv[moved[k]] # 0 /\ moved'[k] = moved[k]
        BY <3>2, <2>1, <2>2, <2>3 DEF SshInv, KeysAccounted, k0
      <4>2. QED
        BY <4>1, <2>1, <2>2
    <3>3. QED
      BY <3>1, <3>2
  <2>6. ASSUME NEW t \in Stamp, bakPriv'[t] # 0 PROVE bakPriv'[t] <= made /\ moved'[bakPriv'[t]] = t
    <3>1. CASE t = t0
      BY <3>1, <2>1, <2>2
    <3>2. CASE t # t0
      <4>1. bakPriv'[t] = bakPriv[t] /\ bakPriv[t] <= made /\ moved[bakPriv[t]] = t
        BY <3>2, <2>1, <2>6 DEF SshInv, KeysAccounted
      <4>2. bakPriv[t] \in 1..MaxKeys /\ bakPriv[t] # k0
        BY <4>1, <1>3, <2>2, <2>6 DEF Key
      <4>3. QED
        BY <4>1, <4>2, <2>1
    <3>3. QED
      BY <3>1, <3>2
  <2>7. QED
    BY <2>1, <2>2, <2>3, <2>4, <2>5, <2>6 DEF KeysAccounted
<1>7. RotationKnown'
  <2>1. key'.pub = key.pub /\ bakPriv'[mem.ts] = key.priv
    BY <1>2, <1>3
  <2>2. QED
    BY <1>1, <1>2, <2>1 DEF SshInv, RotationKnown, Rotating
<1>8. QED
  BY <1>1, <1>4, <1>5, <1>6, <1>7, SshSilence DEF SshInv, LaxListed, TextRead, LookIsRotate

LEMMA MovePubKeeps == SshInv /\ MovePub => SshInv' /\ SshReportsHold'
<1> SUFFICES ASSUME SshInv, MovePub PROVE SshInv' /\ SshReportsHold'
  OBVIOUS
<1>1. /\ at = "move_pub" /\ UNCHANGED <<group, bakPriv, made, moved, now, known, lax>>
      /\ key \in [priv : Key, pub : Key] /\ bakPub \in [Stamp -> Key]
      /\ mem \in Rotation /\ req.cmd = "rotate" /\ ~ req.dry
      /\ calm => key.pub = mem.old.pub /\ bakPriv[mem.ts] = mem.old.priv
  BY DEF MovePub, Goto, Remember, Exit, Ends, SshInv, SshTypeOK, RotationKnown, Rotating
<1>2. /\ key' \in [priv : Key, pub : Key] /\ key'.priv = key.priv
      /\ bakPub' \in [Stamp -> Key]
  <2>1. CASE UNCHANGED <<bakPub, key>>
    BY <1>1, <2>1
  <2>2. CASE /\ bakPub' = [bakPub EXCEPT ![mem.ts] = key.pub]
             /\ key' = [key EXCEPT !.pub = 0]
    BY <1>1, <2>2, NoKeyTyped
  <2>3. QED
    BY <2>1, <2>2 DEF MovePub, Goto, Exit
<1>3. SshTypeOK'
  BY <1>1, <1>2 DEF SshInv, SshTypeOK
<1>4. KeysAccounted'
  BY <1>1, <1>2 DEF SshInv, KeysAccounted
<1>5. CASE Exit("fail")
  <2>1. at' = "idle" /\ mem' = Nothing
    BY <1>5 DEF Exit, Ends
  <2>2. QED
    BY <1>1, <1>3, <1>4, <1>5, <2>1, SshIdleKeeps, SshNoSuccess DEF SshInv
<1>6. CASE Goto("check") /\ (mem.old.pub # 0 /\ calm => bakPub'[mem.ts] = mem.old.pub)
  <2>1. at' = "check" /\ said' = {} /\ UNCHANGED <<req, mem, calm>>
    BY <1>6 DEF Goto, Remember
  <2>2. SshAtGroup'
    BY <1>1, <2>1 DEF SshInv, SshAtGroup, KeySteps, HostSteps, ModeSteps
  <2>3. RotationKnown'
    BY <1>1, <1>6, <2>1 DEF SshInv, RotationKnown, Rotating
  <2>4. QED
    BY <1>3, <1>4, <2>1, <2>2, <2>3, SshSilence DEF SshInv, LaxListed, TextRead, LookIsRotate
<1>7. QED
  <2>1. CASE mem.old.pub = 0
    BY <1>6, <2>1 DEF MovePub
  <2>2. CASE mem.old.pub # 0 /\ key.pub = 0
    BY <1>5, <2>2 DEF MovePub
  <2>3. CASE mem.old.pub # 0 /\ key.pub # 0
    <3>1. Goto("check") /\ bakPub' = [bakPub EXCEPT ![mem.ts] = key.pub]
      BY <2>3 DEF MovePub
    <3>2. bakPub'[mem.ts] = key.pub
      BY <1>1, <3>1 DEF Rotation
    <3>3. QED
      BY <1>1, <1>6, <3>1, <3>2
  <2>4. QED
    BY <2>1, <2>2, <2>3

LEMMA CheckKeeps == SshInv /\ Check => SshInv' /\ SshReportsHold'
<1> SUFFICES ASSUME SshInv, Check PROVE SshInv' /\ SshReportsHold'
  OBVIOUS
<1>1. at = "check" /\ UNCHANGED ssh /\ UNCHANGED group
  BY DEF Check, Exit, Ends, Goto, Remember
<1>2. SshTypeOK' /\ KeysAccounted'
  BY <1>1, KeysUntouched DEF SshInv, SshTypeOK, ssh
<1>3. CASE Exit("fail") \/ (req.dry /\ Exit("ok"))
  <2>1. at' = "idle" /\ mem' = Nothing
    BY <1>3 DEF Exit, Ends
  <2>2. SshReportsHold'
    BY <1>3, SshNoSuccess
  <2>3. QED
    BY <1>1, <1>2, <2>1, <2>2, SshIdleKeeps DEF SshInv
<1>4. CASE ~ req.dry /\ Goto("keygen")
  <2>1. at' = "keygen" /\ said' = {} /\ UNCHANGED <<req, mem, calm>>
    BY <1>4 DEF Goto, Remember
  <2>2. SshAtGroup'
    BY <1>1, <2>1 DEF SshInv, SshAtGroup, KeySteps, HostSteps, ModeSteps
  <2>3. RotationKnown'
    BY <1>1, <1>4, <2>1 DEF SshInv, RotationKnown, Rotating, ssh
  <2>4. QED
    BY <1>2, <2>1, <2>2, <2>3, SshSilence DEF SshInv, LaxListed, TextRead, LookIsRotate
<1>5. QED
  BY <1>3, <1>4 DEF Check

\* A new key has the next number.
LEMMA NewKeyAccounted ==
    ASSUME SshTypeOK, KeysAccounted, key.priv = 0, made < MaxKeys,
           made' = made + 1, key'.priv = made + 1, UNCHANGED <<bakPriv, moved>>
    PROVE  KeysAccounted' /\ made' \in Key
<1> USE SshBoundsAssumption, SshNamesAssumption
<1>1. made \in Nat /\ MaxKeys \in Nat /\ made' \in 1..MaxKeys /\ made' = made + 1
  BY DEF SshTypeOK, Key
<1>2. moved[made'] = None /\ \A k \in 1..MaxKeys : k > made' => moved[k] = None
  BY <1>1 DEF KeysAccounted
<1>3. \A k \in 1..made' : k = made' \/ k \in 1..made
  BY <1>1
<1>4. \A k \in 1..made' : k = made' \/ (moved[k] \in Stamp /\ bakPriv[moved[k]] # 0)
  BY <1>1, <1>3 DEF KeysAccounted
<1>5. \A t \in Stamp : bakPriv[t] # 0 => bakPriv[t] <= made' /\ moved[bakPriv[t]] = t
  BY <1>1 DEF KeysAccounted, SshTypeOK, Key
<1>6. QED
  BY <1>1, <1>2, <1>4, <1>5 DEF KeysAccounted, Key

LEMMA KeygenKeeps == SshInv /\ Keygen => SshInv' /\ SshReportsHold'
<1> SUFFICES ASSUME SshInv, Keygen PROVE SshInv' /\ SshReportsHold'
  OBVIOUS
<1>1. /\ at = "keygen" /\ UNCHANGED <<group, bakPriv, bakPub, moved, now, known, lax>>
      /\ key \in [priv : Key, pub : Key]
  BY DEF Keygen, Goto, Remember, Exit, Ends, SshInv, SshTypeOK
<1>2. CASE Exit("fail") /\ UNCHANGED <<key, made>>
  <2>1. at' = "idle" /\ mem' = Nothing
    BY <1>2 DEF Exit, Ends
  <2>2. SshReportsHold'
    BY <1>2, SshNoSuccess
  <2>3. SshTypeOK' /\ KeysAccounted'
    BY <1>1, <1>2, KeysUntouched DEF SshInv, SshTypeOK
  <2>4. QED
    BY <1>1, <2>1, <2>2, <2>3, SshIdleKeeps DEF SshInv
<1>3. CASE /\ key.priv = 0 /\ made < MaxKeys /\ made' = made + 1
           /\ key' = [key EXCEPT !.priv = made + 1] /\ Goto("keygen_pub")
  <2>1. at' = "keygen_pub" /\ said' = {} /\ UNCHANGED <<req, mem, calm>>
    BY <1>3 DEF Goto, Remember
  <2>2. key'.priv = made + 1 /\ key'.pub = key.pub
    BY <1>1, <1>3
  <2>3. KeysAccounted' /\ made' \in Key
    BY <1>1, <1>3, <2>2, NewKeyAccounted DEF SshInv
  <2>4. SshTypeOK'
    <3>1. key' \in [priv : Key, pub : Key]
      BY <1>1, <1>3, <2>3
    <3>2. QED
      BY <1>1, <2>3, <3>1 DEF SshInv, SshTypeOK
  <2>5. SshAtGroup'
    BY <1>1, <2>1 DEF SshInv, SshAtGroup, KeySteps, HostSteps, ModeSteps
  <2>6. key'.priv # 0
    BY <2>2 DEF SshInv, SshTypeOK, Key
  <2>7. RotationKnown'
    BY <1>1, <2>1, <2>6 DEF SshInv, RotationKnown, Rotating
  <2>8. QED
    BY <2>1, <2>3, <2>4, <2>5, <2>7, SshSilence DEF SshInv, LaxListed, TextRead, LookIsRotate
<1>4. QED
  BY <1>2, <1>3 DEF Keygen

LEMMA KeygenPubKeeps == SshInv /\ KeygenPub => SshInv' /\ SshReportsHold'
<1> SUFFICES ASSUME SshInv, KeygenPub PROVE SshInv' /\ SshReportsHold'
  OBVIOUS
<1>1. /\ at = "keygen_pub" /\ at' = "idle" /\ mem' = Nothing
      /\ UNCHANGED <<group, bakPriv, bakPub, made, moved, now, known, lax>>
      /\ key \in [priv : Key, pub : Key] /\ key.priv # 0
  BY DEF KeygenPub, Exit, Ends, SshInv, SshTypeOK, RotationKnown
<1>2. key' \in [priv : Key, pub : Key] /\ key'.priv = key.priv
  BY <1>1 DEF KeygenPub
<1>3. SshTypeOK'
  BY <1>1, <1>2 DEF SshInv, SshTypeOK
<1>4. KeysAccounted'
  BY <1>1, <1>2 DEF SshInv, KeysAccounted
<1>5. SshReportsHold'
  <2>1. CASE Exit("fail")
    BY <2>1, SshNoSuccess
  <2>2. CASE key' = [key EXCEPT !.pub = key.priv] /\ Exit("ok")
    <3>1. key'.pub = key.priv
      BY <1>1, <2>2
    <3>2. said' = {[req |-> req, exit |-> "ok", calm |-> calm, mem |-> mem]}
      BY <2>2 DEF Exit, Ends
    <3>3. req.cmd \in {"generate", "rotate"}
      BY <1>1 DEF SshInv, SshAtGroup, KeySteps
    <3>4. FixedMeansTight' /\ PruneKeepsHosts'
      <4>1. FixedMeansTight'
        BY <3>2, <3>3 DEF FixedMeansTight, Ended
      <4>2. QED
        BY <3>2, <3>3, <4>1, NotOfPrune
    <3>5. NewPairOldPair'
      BY <1>1, <1>2, <3>1, <3>2, <3>3 DEF NewPairOldPair, Ended, SshInv, RotationKnown, Rotating
    <3>6. QED
      BY <3>4, <3>5 DEF SshReportsHold
  <2>3. QED
    BY <2>1, <2>2 DEF KeygenPub
<1>6. QED
  BY <1>1, <1>3, <1>4, <1>5, SshIdleKeeps DEF SshInv

LEMMA ReadKnownKeeps == SshInv /\ ReadKnown => SshInv' /\ SshReportsHold'
<1> SUFFICES ASSUME SshInv, ReadKnown PROVE SshInv' /\ SshReportsHold'
  OBVIOUS
<1>1. at = "read" /\ mem = Nothing /\ known \in Seq(Line) /\ UNCHANGED ssh /\ UNCHANGED group
  BY DEF ReadKnown, Exit, Ends, Remember, SshInv, TextRead, SshTypeOK
<1>2. SshTypeOK' /\ KeysAccounted'
  BY <1>1, KeysUntouched DEF SshInv, SshTypeOK, ssh
<1>3. CASE (Pruned(known) = known \/ req.dry) /\ Exit("ok")
  <2>1. /\ at' = "idle" /\ mem' = Nothing
        /\ said' = {[req |-> req, exit |-> "ok", calm |-> calm, mem |-> mem]}
    BY <1>3 DEF Exit, Ends
  <2>2. SshReportsHold'
    <3>1. CASE req.dry
      BY <1>3, <3>1, SshNoSuccess
    <3>2. CASE ~ req.dry
      <4>1. PrunedWell(known, known, Len(known))
        BY <1>1, <1>3, <3>2, PrunedKeepsHosts
      <4>2. \A j, k \in DOMAIN known :
                j # k /\ ~known[j].mark /\ known[j] # Comment => known[j] # known[k]
        BY <4>1 DEF PrunedWell
      <4>3. req.cmd = "prune"
        BY <1>1 DEF SshInv, SshAtGroup, HostSteps
      <4>4. NewPairOldPair' /\ FixedMeansTight'
        BY <2>1, <4>3 DEF NewPairOldPair, FixedMeansTight, Ended
      <4>5. PruneKeepsHosts'
        <5>1. \A s \in Ended("prune", "ok")' : s.mem = Nothing
          BY <1>1, <2>1 DEF Ended
        <5>2. known' = known
          BY <1>1 DEF ssh
        <5>3. QED
          BY <4>2, <5>1, <5>2 DEF PruneKeepsHosts
      <4>6. QED
        BY <4>4, <4>5 DEF SshReportsHold
    <3>3. QED
      BY <3>1, <3>2
  <2>3. QED
    BY <1>1, <1>2, <2>1, <2>2, SshIdleKeeps DEF SshInv
<1>4. CASE Remember("truncate", known)
  <2>1. at' = "truncate" /\ said' = {} /\ UNCHANGED req /\ mem' = known
    BY <1>4 DEF Remember
  <2>2. SshAtGroup'
    BY <1>1, <2>1 DEF SshInv, SshAtGroup, KeySteps, HostSteps, ModeSteps
  <2>3. QED
    BY <1>1, <1>2, <2>1, <2>2, SshSilence
    DEF SshInv, LaxListed, TextRead, LookIsRotate, RotationKnown, Rotating
<1>5. QED
  BY <1>3, <1>4 DEF ReadKnown

LEMMA TruncateKeeps == SshInv /\ Truncate => SshInv' /\ SshReportsHold'
<1> SUFFICES ASSUME SshInv, Truncate PROVE SshInv' /\ SshReportsHold'
  OBVIOUS
<1>1. /\ at = "truncate" /\ at' = "write" /\ said' = {} /\ known' = <<>>
      /\ UNCHANGED <<group, req, mem, key, bakPriv, bakPub, made, moved, now, lax>>
  BY DEF Truncate, Emptied, Goto, Remember
<1>2. SshTypeOK' /\ KeysAccounted'
  BY <1>1, KeysUntouched DEF SshInv, SshTypeOK
<1>3. SshAtGroup'
  BY <1>1 DEF SshInv, SshAtGroup, KeySteps, HostSteps, ModeSteps
<1>4. QED
  BY <1>1, <1>2, <1>3, SshSilence
  DEF SshInv, LaxListed, TextRead, LookIsRotate, RotationKnown, Rotating

\* Pruning keeps what is trusted of the plain lines.
LEMMA PrunedTrusts ==
    ASSUME NEW text \in Seq(Line)
    PROVE  Trusts(Pruned(text), FALSE) = Trusts(text, FALSE)
<1> DEFINE out == Pruned(text)
           Of(t) == {t[i] : i \in DOMAIN t} \cap Plain
<1>1. out \in Seq(Line) /\ PrunedWell(out, text, Len(text))
  BY PrunedKeepsHosts
<1>2. DOMAIN text = 1..Len(text)
  BY LenProperties
<1>3. Of(out) = Of(text)
  <2> HIDE DEF out
  <2> QED
    BY <1>1, <1>2 DEF PrunedWell
<1>4. \A t : Trusts(t, FALSE) = {<<l.host, l.blob>> : l \in Of(t)}
  BY DEF Trusts, Plain
<1> HIDE DEF out, Of
<1>5. QED
  BY <1>3, <1>4 DEF out

LEMMA WriteKnownKeeps == SshInv /\ WriteKnown => SshInv' /\ SshReportsHold'
<1> SUFFICES ASSUME SshInv, WriteKnown PROVE SshInv' /\ SshReportsHold'
  OBVIOUS
<1>1. /\ at = "write" /\ at' = "idle" /\ mem' = Nothing /\ mem \in Seq(Line)
      /\ known' = Pruned(mem) /\ req.cmd = "prune"
      /\ said' = {[req |-> req, exit |-> "ok", calm |-> calm, mem |-> mem]}
      /\ UNCHANGED <<group, key, bakPriv, bakPub, made, moved, now, lax>>
  BY DEF WriteKnown, Exit, Ends, SshInv, TextRead, SshAtGroup, HostSteps
<1>2. known' \in Seq(Line) /\ PrunedWell(known', mem, Len(mem))
  BY <1>1, PrunedKeepsHosts
<1>3. SshTypeOK' /\ KeysAccounted'
  BY <1>1, <1>2, KeysUntouched DEF SshInv, SshTypeOK
<1>4. NewPairOldPair' /\ FixedMeansTight'
  BY <1>1 DEF NewPairOldPair, FixedMeansTight, Ended
<1>5. Trusts(known', FALSE) = Trusts(mem, FALSE)
  BY <1>1, PrunedTrusts
<1>6. PruneKeepsHosts'
  <2>1. \A j, k \in DOMAIN known' :
            j # k /\ ~known'[j].mark /\ known'[j] # Comment => known'[j] # known'[k]
    BY <1>2 DEF PrunedWell
  <2>2. \A s \in Ended("prune", "ok")' : s.mem = mem
    BY <1>1 DEF Ended
  <2>3. Trusts(known, FALSE)' = Trusts(known', FALSE)
    BY DEF Trusts
  <2>4. QED
    BY <1>5, <2>1, <2>2, <2>3 DEF PruneKeepsHosts
<1>7. QED
  BY <1>1, <1>3, <1>4, <1>6, SshIdleKeeps DEF SshInv, SshReportsHold

LEMMA AuditKeeps == SshInv /\ Audit => SshInv' /\ SshReportsHold'
<1> SUFFICES ASSUME SshInv, Audit PROVE SshInv' /\ SshReportsHold'
  OBVIOUS
<1>1. at = "audit" /\ UNCHANGED ssh /\ UNCHANGED group /\ req.cmd = "fix"
  BY DEF Audit, Exit, Ends, Remember, SshInv, SshAtGroup, ModeSteps
<1>2. SshTypeOK' /\ KeysAccounted'
  BY <1>1, KeysUntouched DEF SshInv, SshTypeOK, ssh
<1>3. CASE (lax \cap Audited = {} \/ req.dry) /\ Exit("ok")
  <2>1. /\ at' = "idle" /\ mem' = Nothing
        /\ said' = {[req |-> req, exit |-> "ok", calm |-> calm, mem |-> mem]}
    BY <1>3 DEF Exit, Ends
  <2>2. SshReportsHold'
    <3>1. CASE req.dry
      BY <1>3, <3>1, SshNoSuccess
    <3>2. CASE lax \cap Audited = {}
      <4>1. lax' = lax
        BY <1>1 DEF ssh
      <4>2. FixedMeansTight'
        BY <3>2, <4>1 DEF FixedMeansTight
      <4>3. NewPairOldPair'
        BY <1>1, <2>1 DEF NewPairOldPair, Ended
      <4>4. QED
        BY <1>1, <2>1, <4>2, <4>3, NotOfPrune DEF SshReportsHold
    <3>3. QED
      BY <1>3, <3>1, <3>2
  <2>3. QED
    BY <1>1, <1>2, <2>1, <2>2, SshIdleKeeps DEF SshInv
<1>4. CASE Remember("chmod", [todo |-> lax \cap Audited, failed |-> FALSE])
  <2>1. /\ at' = "chmod" /\ said' = {} /\ UNCHANGED req
        /\ mem' = [todo |-> lax \cap Audited, failed |-> FALSE]
    BY <1>4 DEF Remember
  <2>2. SshAtGroup'
    BY <1>1, <2>1 DEF SshInv, SshAtGroup, KeySteps, HostSteps, ModeSteps
  <2>3. LaxListed'
    BY <1>1, <2>1 DEF SshInv, SshTypeOK, LaxListed, ssh
  <2>4. QED
    BY <1>2, <2>1, <2>2, <2>3, SshSilence DEF SshInv, TextRead, LookIsRotate, RotationKnown, Rotating
<1>5. QED
  BY <1>3, <1>4 DEF Audit

LEMMA ChmodKeeps == SshInv /\ Chmod => SshInv' /\ SshReportsHold'
<1> SUFFICES ASSUME SshInv, Chmod PROVE SshInv' /\ SshReportsHold'
  OBVIOUS
<1>1. /\ at = "chmod" /\ UNCHANGED <<group, key, bakPriv, bakPub, made, moved, now, known>>
      /\ mem \in [todo : SUBSET Path, failed : BOOLEAN] /\ req.cmd = "fix"
      /\ calm /\ ~mem.failed => lax \cap Audited \subseteq mem.todo
  BY DEF Chmod, Exit, Ends, Remember, SshInv, LaxListed, SshAtGroup, ModeSteps
<1>2. lax' \subseteq lax
  BY <1>1 DEF Chmod
<1>3. SshTypeOK' /\ KeysAccounted'
  BY <1>1, <1>2, KeysUntouched DEF SshInv, SshTypeOK
<1>4. CASE mem.todo = {} /\ UNCHANGED lax /\ Exit(IF mem.failed THEN "fail" ELSE "ok")
  <2>1. /\ at' = "idle" /\ mem' = Nothing
        /\ said' = {[req |-> req, exit |-> IF mem.failed THEN "fail" ELSE "ok",
                     calm |-> calm, mem |-> mem]}
    BY <1>4 DEF Exit, Ends
  <2>2. SshReportsHold'
    <3>1. FixedMeansTight'
      BY <1>1, <1>4, <2>1 DEF FixedMeansTight, Ended
    <3>2. NewPairOldPair'
      BY <1>1, <2>1 DEF NewPairOldPair, Ended
    <3>3. QED
      BY <1>1, <2>1, <3>1, <3>2, NotOfPrune DEF SshReportsHold
  <2>3. QED
    BY <1>1, <1>3, <2>1, <2>2, SshIdleKeeps DEF SshInv
<1>5. CASE \E f \in mem.todo :
            \/ lax' = lax \ {f} /\ Remember("chmod", [mem EXCEPT !.todo = @ \ {f}])
            \/ Remember("chmod", [todo |-> mem.todo \ {f}, failed |-> TRUE])
  <2>1. /\ at' = "chmod" /\ said' = {} /\ UNCHANGED <<req, calm>>
        /\ mem' \in [todo : SUBSET Path, failed : BOOLEAN]
        /\ \/ mem'.failed
           \/ \E f \in mem.todo : lax' = lax \ {f} /\ mem'.todo = mem.todo \ {f} /\ mem'.failed = mem.failed
    <3>1. PICK f \in mem.todo :
            \/ lax' = lax \ {f} /\ Remember("chmod", [mem EXCEPT !.todo = @ \ {f}])
            \/ Remember("chmod", [todo |-> mem.todo \ {f}, failed |-> TRUE])
      BY <1>5
    <3>2. at' = "chmod" /\ said' = {} /\ UNCHANGED <<req, calm>>
      BY <3>1 DEF Remember
    <3>3. CASE lax' = lax \ {f} /\ mem' = [mem EXCEPT !.todo = @ \ {f}]
      BY <1>1, <3>2, <3>3
    <3>4. CASE mem' = [todo |-> mem.todo \ {f}, failed |-> TRUE]
      BY <1>1, <3>2, <3>4
    <3>5. QED
      BY <3>1, <3>3, <3>4 DEF Remember
  <2>2. SshAtGroup'
    BY <1>1, <2>1 DEF SshInv, SshAtGroup, KeySteps, HostSteps, ModeSteps
  <2>3. LaxListed'
    BY <1>1, <2>1 DEF LaxListed
  <2>4. QED
    BY <1>3, <2>1, <2>2, <2>3, SshSilence DEF SshInv, TextRead, LookIsRotate, RotationKnown, Rotating
<1>6. QED
  BY <1>4, <1>5 DEF Chmod, FailureCounts

LEMMA SshKillKeeps == SshInv /\ SshKill => SshInv' /\ SshReportsHold'
<1> SUFFICES ASSUME SshInv, SshKill PROVE SshInv' /\ SshReportsHold'
  OBVIOUS
<1>1. at' = "idle" /\ mem' = Nothing /\ said' = {} /\ UNCHANGED ssh /\ UNCHANGED group
  BY DEF SshKill, Killed, Ends
<1>2. SshTypeOK' /\ KeysAccounted'
  BY <1>1, KeysUntouched DEF SshInv, SshTypeOK, ssh
<1>3. QED
  BY <1>1, <1>2, SshIdleKeeps, SshSilence DEF SshInv

\* What happens outside of shimkit leaves the run where it was, disturbed.
LEMMA SshOutsideKeeps ==
    ASSUME SshInv, Outside
    PROVE  SshAtGroup' /\ LookIsRotate' /\ TextRead' /\ SshReportsHold'
<1>1. said' = {} /\ UNCHANGED <<group, at, req, mem>>
  BY DEF Outside
<1>2. QED
  BY <1>1, SshSilence DEF SshInv, SshAtGroup, LookIsRotate, TextRead

LEMMA KeyByHandKeeps == SshInv /\ KeyByHand => SshInv' /\ SshReportsHold'
<1> SUFFICES ASSUME SshInv, KeyByHand PROVE SshInv' /\ SshReportsHold'
  OBVIOUS
<1>1. /\ Outside /\ calm' = FALSE /\ UNCHANGED <<group, at, req, mem>>
      /\ UNCHANGED <<bakPriv, bakPub, moved, now, known, lax>>
      /\ key \in [priv : Key, pub : Key] /\ made \in Key
  BY DEF KeyByHand, Outside, SshInv, SshTypeOK
<1>2. ~ calm'
  BY <1>1
<1>3. /\ KeysAccounted' /\ made' \in Key /\ key' \in [priv : Key, pub : Key]
      /\ key.priv # 0 => key'.priv # 0
  <2>1. CASE key' = [key EXCEPT !.pub = 0] /\ UNCHANGED made
    <3>1. key'.priv = key.priv /\ key' \in [priv : Key, pub : Key]
      BY <1>1, <2>1, NoKeyTyped
    <3>2. QED
      BY <1>1, <2>1, <3>1 DEF SshInv, KeysAccounted
  <2>2. CASE /\ key.priv = 0 /\ made < MaxKeys /\ made' = made + 1
             /\ key' = [priv |-> made + 1, pub |-> made + 1]
    <3>1. key'.priv = made + 1 /\ key'.pub = made'
      BY <2>2
    <3>2. KeysAccounted' /\ made' \in Key
      BY <1>1, <2>2, <3>1, NewKeyAccounted DEF SshInv
    <3>3. QED
      BY <2>2, <3>2
  <2>3. QED
    BY <2>1, <2>2 DEF KeyByHand
<1>4. SshTypeOK'
  BY <1>1, <1>3 DEF SshInv, SshTypeOK
<1>5. RotationKnown' /\ LaxListed'
  BY <1>1, <1>2, <1>3 DEF SshInv, RotationKnown, Rotating, LaxListed
<1>6. QED
  BY <1>1, <1>3, <1>4, <1>5, SshOutsideKeeps DEF SshInv

LEMMA TickKeeps == SshInv /\ SshReportsHold /\ Tick => SshInv' /\ SshReportsHold'
<1> SUFFICES ASSUME SshInv, SshReportsHold, Tick PROVE SshInv' /\ SshReportsHold'
  OBVIOUS
<1> USE SshBoundsAssumption
<1>1. /\ UNCHANGED <<group, at, req, mem, said, calm>>
      /\ UNCHANGED <<key, bakPriv, bakPub, made, moved, known, lax>>
      /\ now' \in Stamp
  BY DEF Tick, proc, SshInv, SshTypeOK, Stamp
<1>2. SshTypeOK' /\ KeysAccounted' /\ SshAtGroup' /\ LookIsRotate' /\ TextRead' /\ LaxListed'
  BY <1>1, KeysUntouched DEF SshInv, SshTypeOK, SshAtGroup, LookIsRotate, TextRead, LaxListed
<1>3. RotationKnown'
  BY <1>1 DEF SshInv, RotationKnown, Rotating
<1>4. SshReportsHold'
  BY <1>1, SshReportsUntouched
<1>5. QED
  BY <1>2, <1>3, <1>4 DEF SshInv

LEMMA SshAppendsKeeps == SshInv /\ SshAppends => SshInv' /\ SshReportsHold'
<1> SUFFICES ASSUME SshInv, SshAppends PROVE SshInv' /\ SshReportsHold'
  OBVIOUS
<1>1. /\ Outside /\ calm' = FALSE /\ UNCHANGED <<group, at, req, mem>>
      /\ UNCHANGED <<key, bakPriv, bakPub, made, moved, now, lax>> /\ known' \in Seq(Line)
  BY DEF SshAppends, Outside, SshInv, SshTypeOK
<1>2. ~ calm'
  BY <1>1
<1>3. SshTypeOK' /\ KeysAccounted'
  BY <1>1, KeysUntouched DEF SshInv, SshTypeOK
<1>4. RotationKnown' /\ LaxListed'
  BY <1>1, <1>2 DEF SshInv, RotationKnown, Rotating, LaxListed
<1>5. QED
  BY <1>1, <1>3, <1>4, SshOutsideKeeps DEF SshInv

LEMMA LoosensKeeps == SshInv /\ Loosens => SshInv' /\ SshReportsHold'
<1> SUFFICES ASSUME SshInv, Loosens PROVE SshInv' /\ SshReportsHold'
  OBVIOUS
<1>1. /\ Outside /\ calm' = FALSE /\ UNCHANGED <<group, at, req, mem>>
      /\ UNCHANGED <<key, bakPriv, bakPub, made, moved, now, known>> /\ lax' \subseteq Path
  BY DEF Loosens, Outside, SshInv, SshTypeOK
<1>2. ~ calm'
  BY <1>1
<1>3. SshTypeOK' /\ KeysAccounted'
  BY <1>1, KeysUntouched DEF SshInv, SshTypeOK
<1>4. RotationKnown' /\ LaxListed'
  BY <1>1, <1>2 DEF SshInv, RotationKnown, Rotating, LaxListed
<1>5. QED
  BY <1>1, <1>3, <1>4, SshOutsideKeeps DEF SshInv

LEMMA SshInductive == SshInv /\ SshReportsHold /\ [SshNext]_SshVars => SshInv' /\ SshReportsHold'
<1> SUFFICES ASSUME SshInv, SshReportsHold, [SshNext]_SshVars
             PROVE  SshInv' /\ SshReportsHold'
  OBVIOUS
<1>1. CASE AskKeys \/ AskPrune \/ AskFix
  BY <1>1, SshAskKeeps
<1>2. CASE Look \/ MovePriv \/ MovePub \/ Check \/ Keygen \/ KeygenPub
  BY <1>2, LookKeeps, MovePrivKeeps, MovePubKeeps, CheckKeeps, KeygenKeeps, KeygenPubKeeps
<1>3. CASE ReadKnown \/ Truncate \/ WriteKnown \/ Audit \/ Chmod
  BY <1>3, ReadKnownKeeps, TruncateKeeps, WriteKnownKeeps, AuditKeeps, ChmodKeeps
<1>4. CASE SshKill \/ KeyByHand \/ Tick \/ SshAppends \/ Loosens
  BY <1>4, SshKillKeeps, KeyByHandKeeps, TickKeeps, SshAppendsKeeps, LoosensKeeps
<1>5. CASE UNCHANGED SshVars
  <2>1. UNCHANGED <<group, at, req, mem, said, calm>>
    BY <1>5 DEF SshVars, proc
  <2>2. UNCHANGED <<key, bakPriv, bakPub, made, moved, now, known, lax>>
    BY <1>5 DEF SshVars, ssh
  <2>3. SshInv'
    BY <2>1, <2>2, KeysUntouched
    DEF SshInv, SshTypeOK, SshAtGroup, LookIsRotate, TextRead, LaxListed, RotationKnown, Rotating
  <2>4. SshReportsHold'
    BY <2>1, <2>2, SshReportsUntouched
  <2>5. QED
    BY <2>3, <2>4
<1>6. QED
  BY <1>1, <1>2, <1>3, <1>4, <1>5 DEF SshNext, SshStep

LEMMA BackupsKnown == SshInv => KeysRecoverable
<1> SUFFICES ASSUME SshInv, NEW k \in 1..made, ~ Kept(k)
             PROVE  \E j \in 1..made \ {k} : moved[k] # None /\ moved[j] = moved[k]
  BY DEF KeysRecoverable
<1>1. moved[k] \in Stamp /\ bakPriv[moved[k]] # 0
  BY DEF SshInv, KeysAccounted, Kept
<1> DEFINE j == bakPriv[moved[k]]
<1>2. j # 0 /\ j <= made /\ moved[j] = moved[k] /\ j # k
  BY <1>1 DEF SshInv, KeysAccounted, Kept
<1>3. j \in 1..made
  BY <1>1, <1>2, SshBoundsAssumption DEF SshInv, SshTypeOK, Key
<1>4. QED
  BY <1>1, <1>2, <1>3, SshNamesAssumption DEF Stamp

\* The inductive invariant of ssh, and with it what its runs report.
THEOREM SshInvariance == SshSpec => [](SshInv /\ SshReportsHold)
<1>1. SshInit => SshInv /\ SshReportsHold
  BY SshInitially
<1>2. SshInv /\ SshReportsHold /\ [SshNext]_SshVars => SshInv' /\ SshReportsHold'
  BY SshInductive
<1>3. QED
  BY <1>1, <1>2, PTL DEF SshSpec

-----------------------------------------------------------------------------
(***************************************************************************)
(* tls.                                                                    *)
(***************************************************************************)
TlsJobEntry == [name |-> JobName, job |-> "renew"]

TlsRenewals == [cmd : {"renew"}, dry : BOOLEAN, domain : Domains \cup {None}, force : BOOLEAN]
TlsRevokes == [cmd : {"revoke"}, dry : BOOLEAN, domain : Domains]
TlsJobs == [cmd : {"cron_install"}, dry : BOOLEAN, valid : BOOLEAN]

\* The request a run has at each of its steps; the container of a request is
\* the one for an acceptable one.
TlsAtStep ==
    /\ group = "tls"
    /\ at \in {"idle", "request", "renew", "revoke", "add_job", "certbot"}
    /\ at = "request" => req \in Request
    /\ at = "renew" => req \in TlsRenewals
    /\ at = "revoke" => req \in TlsRevokes
    /\ at = "add_job" => req \in TlsJobs
    /\ at = "certbot" =>
        /\ mem \in Box
        /\ \/ req \in Request /\ Acceptable(req) /\ mem = BoxOf(req)
           \/ req \in TlsRenewals
           \/ req \in TlsRevokes /\ ~req.dry

TlsState ==
    /\ live \in [Domains -> Cert \cup {None}]
    /\ day \in 0..MaxDay
    /\ \A e \in entries : e = TlsJobEntry

TlsReports == RequestedIsLive /\ RenewedIsFresh

TlsInv == TlsState /\ TlsAtStep /\ TlsReports

LEMMA TlsSilence == said' = {} => TlsReports'
BY DEF TlsReports, RequestedIsLive, RenewedIsFresh, Ended

LEMMA TlsNoSuccess ==
    ASSUME \A s \in said' : s.exit # "ok" \/ s.req.dry \/ s.req.cmd \notin {"request", "renew"}
    PROVE  TlsReports'
BY DEF TlsReports, RequestedIsLive, RenewedIsFresh, Ended

LEMMA TlsInitially == TlsInit => TlsInv
<1> SUFFICES ASSUME TlsInit PROVE TlsInv
  OBVIOUS
<1>1. TlsState
  BY TlsBoundsAssumption DEF TlsInit, EntriesInit, TlsStart, TlsState
<1>2. TlsAtStep
  BY DEF TlsInit, CliInit, TlsAtStep
<1>3. TlsReports
  BY DEF TlsInit, CliInit, TlsReports, RequestedIsLive, RenewedIsFresh, Ended
<1>4. QED
  BY <1>1, <1>2, <1>3 DEF TlsInv

LEMMA TlsAskKeeps == TlsInv /\ (AskRequest \/ AskRenew \/ JobFires \/ AskRevoke \/ AskJob) => TlsInv'
<1> SUFFICES ASSUME TlsInv, AskRequest \/ AskRenew \/ JobFires \/ AskRevoke \/ AskJob
             PROVE  TlsInv'
  OBVIOUS
<1>1. said' = {} /\ UNCHANGED tls /\ UNCHANGED group
  BY DEF AskRequest, AskRenew, JobFires, AskRevoke, AskJob, Ask, Starts, Refused
<1>2. \/ at' = "idle"
      \/ at' = "request" /\ req' \in Request
      \/ at' = "renew" /\ req' \in TlsRenewals
      \/ at' = "revoke" /\ req' \in TlsRevokes
      \/ at' = "add_job" /\ req' \in TlsJobs
  <2>1. CASE AskRequest
    BY <2>1 DEF AskRequest, Ask, Starts, Refused, Idle
  <2>2. CASE AskRenew \/ JobFires
    <3>1. ASSUME NEW dry \in BOOLEAN, NEW d \in Domains \cup {None}, NEW force \in BOOLEAN
          PROVE  Renewal(dry, d, force) \in TlsRenewals
      BY DEF Renewal, TlsRenewals
    <3>2. CASE AskRenew
      BY <3>1, <3>2 DEF AskRenew, Ask, Starts, Refused, Idle
    <3>3. CASE JobFires
      BY <3>1, <3>3 DEF JobFires, Starts
    <3>4. QED
      BY <2>2, <3>2, <3>3
  <2>3. CASE AskRevoke
    BY <2>3 DEF AskRevoke, Ask, Starts, Refused, Idle, TlsRevokes
  <2>4. CASE AskJob
    BY <2>4 DEF AskJob, Ask, Starts, Refused, Idle, TlsJobs
  <2>5. QED
    BY <2>1, <2>2, <2>3, <2>4
<1>3. TlsState'
  BY <1>1 DEF TlsInv, TlsState, tls
<1>4. TlsAtStep'
  BY <1>1, <1>2 DEF TlsInv, TlsAtStep
<1>5. QED
  BY <1>1, <1>3, <1>4, TlsSilence DEF TlsInv

\* A run that fails, or a dry one, leaves nothing to keep but the state.
LEMMA TlsFails ==
    ASSUME TlsInv, TlsState', NEW code, Exit(code),
           code # "ok" \/ req.dry \/ req.cmd \notin {"request", "renew"}
    PROVE  TlsInv'
<1>1. \A s \in said' : s.exit = code /\ s.req = req
  BY DEF Exit, Ends
<1>2. TlsReports'
  BY <1>1, TlsNoSuccess
<1>3. at' = "idle" /\ group' = group
  BY DEF Exit, Ends
<1>4. TlsAtStep'
  BY <1>3 DEF TlsInv, TlsAtStep
<1>5. QED
  BY <1>2, <1>4 DEF TlsInv

\* The container of a run begins its work.
LEMMA TlsGoesToCertbot ==
    ASSUME TlsInv, NEW box \in Box, Remember("certbot", box), UNCHANGED tls,
           \/ req \in Request /\ Acceptable(req) /\ box = BoxOf(req)
           \/ req \in TlsRenewals
           \/ req \in TlsRevokes /\ ~req.dry
    PROVE  TlsInv'
<1>1. at' = "certbot" /\ mem' = box /\ said' = {} /\ UNCHANGED <<group, req>>
  BY DEF Remember
<1>2. TlsState'
  BY DEF TlsInv, TlsState, tls
<1>3. TlsAtStep'
  BY <1>1 DEF TlsInv, TlsAtStep
<1>4. QED
  BY <1>1, <1>2, <1>3, TlsSilence DEF TlsInv

LEMMA BoxOfTyped ==
    ASSUME NEW r \in Request, Acceptable(r)
    PROVE  /\ BoxOf(r) \in Box /\ r.domain \in Domains /\ r.method \in Method
           /\ r.method # "webroot" /\ r.given \notin {"other.ini"} \cup Relative
                => CanAnswer(BoxOf(r), r.method)
<1>1. r.method \in Method /\ r.domain \in Domains
  BY DEF Request, Acceptable, Method
<1>2. r.given \in {"webroot_ro", "cloudflare.ini", "other.ini"} \cup Relative
  BY DEF Request, Acceptable
<1>3. BoxOf(r) \in Box
  <2>1. MountOf(r) \in Mount
    BY <1>2 DEF MountOf, Mount, Relative
  <2>2. QED
    BY <1>1, <2>1 DEF BoxOf, Box
<1>4. ASSUME r.method # "webroot", r.given \notin {"other.ini"} \cup Relative
      PROVE  CanAnswer(BoxOf(r), r.method)
  <2>1. r.given = "cloudflare.ini" /\ r.given \notin Relative
    BY <1>4 DEF Request, Acceptable
  <2>2. MountOf(r) = Needed(r.method)
    BY <1>1, <1>4, <2>1 DEF MountOf, Needed, Method
  <2>3. QED
    BY <2>2 DEF CanAnswer, BoxOf
<1>5. QED
  BY <1>1, <1>3, <1>4

LEMMA TlsPrepareKeeps == TlsInv /\ (Prepare \/ PrepareRenewal \/ PrepareRevoke) => TlsInv'
<1> SUFFICES ASSUME TlsInv, Prepare \/ PrepareRenewal \/ PrepareRevoke PROVE TlsInv'
  OBVIOUS
<1>1. UNCHANGED tls
  BY DEF Prepare, PrepareRenewal, PrepareRevoke
<1>2. TlsState'
  BY <1>1 DEF TlsInv, TlsState, tls
<1>3. CASE Prepare
  <2>1. req \in Request
    BY <1>3 DEF Prepare, TlsInv, TlsAtStep
  <2>2. CASE Acceptable(req) /\ Remember("certbot", BoxOf(req))
    BY <1>1, <2>1, <2>2, BoxOfTyped, TlsGoesToCertbot
  <2>3. CASE Exit("fail")
    BY <1>2, <2>3, TlsFails
  <2>4. QED
    BY <1>3, <2>2, <2>3 DEF Prepare
<1> DEFINE plain == [image |-> "webroot", mounts |-> {}]
<1>4. plain \in Box
  BY DEF Box, Method
<1>5. CASE PrepareRenewal
  BY <1>1, <1>4, <1>5, TlsGoesToCertbot DEF PrepareRenewal, TlsInv, TlsAtStep
<1>6. CASE PrepareRevoke
  <2>1. req \in TlsRevokes /\ req.cmd = "revoke"
    BY <1>6 DEF PrepareRevoke, TlsInv, TlsAtStep, TlsRevokes
  <2>2. CASE Exit("fail") \/ Exit("ok")
    BY <1>2, <2>1, <2>2, TlsFails
  <2>3. CASE ~ req.dry /\ Remember("certbot", plain)
    BY <1>1, <1>4, <2>1, <2>3, TlsGoesToCertbot
  <2>4. QED
    BY <1>6, <2>2, <2>3 DEF PrepareRevoke
<1>7. QED
  BY <1>3, <1>5, <1>6

LEMMA TlsAddJobKeeps == TlsInv /\ AddJob => TlsInv'
<1> SUFFICES ASSUME TlsInv, AddJob PROVE TlsInv'
  OBVIOUS
<1>1. req.cmd = "cron_install" /\ UNCHANGED <<live, day>>
  BY DEF AddJob, TlsInv, TlsAtStep, TlsJobs
<1>2. entries' \in {entries, entries \cup {TlsJobEntry}} /\ (Exit("ok") \/ Exit("fail"))
  BY DEF AddJob, AddEntry, TlsJobEntry
<1>3. TlsState'
  BY <1>1, <1>2 DEF TlsInv, TlsState
<1>4. QED
  BY <1>1, <1>2, <1>3, TlsFails

\* A certificate issued today is not due.
LEMMA IssuedAreFresh ==
    ASSUME NEW ds \in SUBSET Domains, NEW m, \A d \in ds : m[d] \in Method, TlsState
    PROVE  /\ Issued(ds, m) \in [Domains -> Cert \cup {None}]
           /\ \A d \in ds : /\ Issued(ds, m)[d] # None
                            /\ ~ (day + Window >= Issued(ds, m)[d].until)
           /\ \A d \in Domains \ ds : Issued(ds, m)[d] = live[d]
<1> USE TlsBoundsAssumption
<1>1. ASSUME NEW d \in ds
      PROVE  /\ [method |-> m[d], until |-> day + Life] \in Cert
             /\ Issued(ds, m)[d] = [method |-> m[d], until |-> day + Life]
             /\ Issued(ds, m)[d].until = day + Life
             /\ ~ (day + Window >= day + Life)
  BY DEF TlsState, Cert, Issued
<1>2. \A d \in Domains \ ds : Issued(ds, m)[d] = live[d]
  BY DEF Issued
<1>3. Issued(ds, m) \in [Domains -> Cert \cup {None}]
  BY <1>1 DEF Issued, TlsState
<1>4. \A d \in ds : Issued(ds, m)[d] # None
  BY <1>1, TlsNoneAssumption
<1>5. QED
  BY <1>1, <1>2, <1>3, <1>4

LEMMA CertbotRequest ==
    ASSUME TlsInv, at = "certbot", req \in Request, NEW o \in Outcomes,
           live' = o.live, UNCHANGED <<day, entries>>
    PROVE  /\ TlsState'
           /\ o.ok /\ ~req.dry => live'[req.domain] # None
                                  /\ ~ (day + Window >= live'[req.domain].until)
<1>1. /\ req.cmd = "request" /\ req.domain \in Domains /\ req.method \in Method
      /\ TlsState
  <2>1. req.cmd = "request"
    BY DEF Request
  <2>2. Acceptable(req)
    BY <2>1 DEF TlsInv, TlsAtStep, TlsRenewals, TlsRevokes
  <2>3. QED
    BY <2>1, <2>2, BoxOfTyped DEF TlsInv
<1> DEFINE m == [d \in Domains |-> req.method]
           new == Issued({req.domain}, m)
<1>2. \/ o.live = live /\ ~o.ok
      \/ o.live = live /\ ~req.dry /\ live[req.domain] # None /\ ~Due(req.domain)
      \/ o.live = live /\ req.dry
      \/ o.live = new /\ ~req.dry
  <2>1. Outcomes \subseteq
            {[live |-> live, ok |-> FALSE]}
            \cup (IF ~req.dry /\ live[req.domain] # None /\ ~Due(req.domain)
                  THEN {[live |-> live, ok |-> TRUE]} ELSE {})
            \cup {[live |-> IF req.dry THEN live ELSE new, ok |-> TRUE]}
    BY <1>1 DEF Outcomes
  <2> HIDE DEF new
  <2>2. QED
    BY <2>1
<1>3. /\ new \in [Domains -> Cert \cup {None}]
      /\ new[req.domain] # None /\ ~ (day + Window >= new[req.domain].until)
  <2>1. {req.domain} \in SUBSET Domains /\ \A d \in {req.domain} : m[d] \in Method
    BY <1>1
  <2> HIDE DEF m
  <2>2. QED
    BY <1>1, <2>1, IssuedAreFresh
<1> HIDE DEF new
<1>4. TlsState'
  BY <1>1, <1>2, <1>3 DEF TlsState
<1>5. ASSUME o.ok, ~req.dry
      PROVE  live'[req.domain] # None /\ ~ (day + Window >= live'[req.domain].until)
  <2>1. CASE o.live = live /\ live[req.domain] # None /\ ~Due(req.domain)
    BY <2>1 DEF Due
  <2>2. CASE o.live = new
    BY <1>3, <2>2
  <2>3. QED
    BY <1>2, <1>5, <2>1, <2>2
<1>6. QED
  BY <1>4, <1>5

LEMMA CertbotRenews ==
    ASSUME TlsInv, at = "certbot", req \in TlsRenewals, NEW o \in Outcomes,
           live' = o.live, UNCHANGED <<day, entries>>
    PROVE  /\ TlsState'
           /\ o.ok /\ ~req.dry => \A d \in Domains : req.domain \in {None, d} => ~ Due(d)'
<1>1. req.cmd = "renew" /\ TlsState
  BY DEF TlsRenewals, TlsInv
<1>2. CASE o = [live |-> live, ok |-> FALSE]
  BY <1>1, <1>2 DEF TlsState
<1>3. CASE o # [live |-> live, ok |-> FALSE]
  <2>1. PICK ds \in SUBSET {d \in Selected : CanAnswer(mem, live[d].method)} :
            o = [live |-> IF req.dry THEN live ELSE Issued(ds, [d \in ds |-> live[d].method]),
                 ok |-> ds = Selected /\ (req.domain = None \/ live[req.domain] # None)]
    BY <1>1, <1>3 DEF Outcomes
  <2> DEFINE m == [d \in ds |-> live[d].method]
             new == Issued(ds, m)
  <2>2. ds \in SUBSET Domains /\ \A d \in ds : m[d] \in Method
    BY <1>1, <2>1 DEF Selected, TlsState, Cert
  <2>3. /\ new \in [Domains -> Cert \cup {None}]
        /\ \A d \in ds : new[d] # None /\ ~ (day + Window >= new[d].until)
        /\ \A d \in Domains \ ds : new[d] = live[d]
    <3> HIDE DEF m
    <3> QED
      BY <1>1, <2>2, IssuedAreFresh
  <2>4. live' = (IF req.dry THEN live ELSE new) /\ (o.ok => ds = Selected)
    BY <2>1
  <2> HIDE DEF new
  <2>5. TlsState'
    BY <1>1, <2>3, <2>4 DEF TlsState
  <2>6. ASSUME o.ok, ~req.dry, NEW d \in Domains, req.domain \in {None, d}
        PROVE  ~ Due(d)'
    <3>1. CASE d \in ds
      BY <2>3, <2>4, <2>6, <3>1 DEF Due
    <3>2. CASE d \notin ds
      <4>1. ~ Due(d)
        BY <2>4, <2>6, <3>2 DEF Selected, Due
      <4>2. QED
        BY <2>3, <2>4, <2>6, <3>2, <4>1 DEF Due
    <3>3. QED
      BY <3>1, <3>2
  <2>7. QED
    BY <2>5, <2>6
<1>4. QED
  BY <1>2, <1>3

LEMMA CertbotRevokes ==
    ASSUME TlsInv, at = "certbot", req \in TlsRevokes, NEW o \in Outcomes,
           live' = o.live, UNCHANGED <<day, entries>>
    PROVE  TlsState'
<1>1. req.cmd = "revoke" /\ TlsState
  BY DEF TlsRevokes, TlsInv
<1>2. o.live \in {live, [live EXCEPT ![req.domain] = None]}
  BY <1>1 DEF Outcomes
<1>3. QED
  BY <1>1, <1>2 DEF TlsState

\* The container leaves the state well formed, whoever still looks at it.
LEMMA CertbotLeavesState ==
    ASSUME TlsInv, at = "certbot", NEW o \in Outcomes, live' = o.live, UNCHANGED <<day, entries>>
    PROVE  TlsState'
BY CertbotRequest, CertbotRenews, CertbotRevokes DEF TlsInv, TlsAtStep

LEMMA CertbotKeeps == TlsInv /\ Certbot => TlsInv'
<1> SUFFICES ASSUME TlsInv, Certbot PROVE TlsInv'
  OBVIOUS
<1>1. PICK o \in Outcomes : live' = o.live /\ (Exit(Emit(o)) \/ Exit("fail"))
  BY DEF Certbot
<1>2. at = "certbot" /\ UNCHANGED <<day, entries>>
  BY DEF Certbot
<1>3. TlsState'
  BY <1>1, <1>2, CertbotLeavesState
<1>4. CASE Exit("fail") \/ req.dry \/ req.cmd \notin {"request", "renew"} \/ ~o.ok
  BY <1>1, <1>3, <1>4, TlsFails DEF Emit
<1>5. CASE Exit("ok") /\ ~req.dry /\ req.cmd \in {"request", "renew"} /\ o.ok
  <2>1. /\ at' = "idle" /\ group' = group
        /\ said' = {[req |-> req, exit |-> "ok", calm |-> calm, mem |-> mem]}
    BY <1>5 DEF Exit, Ends
  <2>2. CASE req.cmd = "request"
    <3>1. req \in Request
      BY <1>2, <2>2 DEF TlsInv, TlsAtStep, TlsRenewals, TlsRevokes
    <3>2. live'[req.domain] # None /\ ~ (day + Window >= live'[req.domain].until)
      BY <1>1, <1>2, <1>5, <3>1, CertbotRequest
    <3>3. RequestedIsLive'
      BY <1>2, <2>1, <3>2 DEF RequestedIsLive, Ended, Due
    <3>4. RenewedIsFresh'
      BY <2>1, <2>2 DEF RenewedIsFresh, Ended
    <3>5. QED
      BY <1>3, <2>1, <3>3, <3>4 DEF TlsInv, TlsAtStep, TlsReports
  <2>3. CASE req.cmd = "renew"
    <3>1. req \in TlsRenewals
      BY <1>2, <2>3 DEF TlsInv, TlsAtStep, Request, TlsRevokes
    <3>2. \A d \in Domains : req.domain \in {None, d} => ~ Due(d)'
      BY <1>1, <1>2, <1>5, <3>1, CertbotRenews
    <3>3. RenewedIsFresh'
      BY <2>1, <3>2 DEF RenewedIsFresh, Ended, Due
    <3>4. RequestedIsLive'
      BY <2>1, <2>3 DEF RequestedIsLive, Ended
    <3>5. QED
      BY <1>3, <2>1, <3>3, <3>4 DEF TlsInv, TlsAtStep, TlsReports
  <2>4. QED
    BY <1>5, <2>2, <2>3
<1>6. QED
  BY <1>1, <1>4, <1>5 DEF Emit

LEMMA TlsKillKeeps == TlsInv /\ TlsKill => TlsInv'
<1> SUFFICES ASSUME TlsInv, TlsKill PROVE TlsInv'
  OBVIOUS
<1>1. /\ at' = "idle" /\ said' = {} /\ UNCHANGED <<group, day, entries>>
      /\ live' \in IF at = "certbot" THEN {o.live : o \in Outcomes} ELSE {live}
  BY DEF TlsKill, Killed, Ends
<1>2. TlsState'
  <2>1. CASE at = "certbot"
    <3>1. PICK o \in Outcomes : live' = o.live
      BY <1>1, <2>1
    <3>2. QED
      BY <1>1, <2>1, <3>1, CertbotLeavesState
  <2>2. CASE at # "certbot"
    BY <1>1, <2>2 DEF TlsInv, TlsState
  <2>3. QED
    BY <2>1, <2>2
<1>3. QED
  BY <1>1, <1>2, TlsSilence DEF TlsInv, TlsAtStep

LEMMA TlsElseKeeps == TlsInv /\ (DayPasses \/ DropsJob) => TlsInv'
<1> SUFFICES ASSUME TlsInv, DayPasses \/ DropsJob PROVE TlsInv'
  OBVIOUS
<1>1. /\ said' = {} /\ UNCHANGED <<group, at, req, mem, live>>
      /\ day' \in 0..MaxDay /\ entries' \subseteq entries
  BY TlsBoundsAssumption
  DEF DayPasses, DropsJob, Elapses, Outside, DropEntry, TlsInv, TlsState
<1>2. TlsState' /\ TlsAtStep'
  BY <1>1 DEF TlsInv, TlsState, TlsAtStep
<1>3. QED
  BY <1>1, <1>2, TlsSilence DEF TlsInv

LEMMA TlsPromises == TlsInv => TlsTypeOK /\ CertificatesHold
<1> SUFFICES ASSUME TlsInv PROVE TlsTypeOK /\ CertificatesHold
  OBVIOUS
<1>1. DnsAnswerable
  <2> SUFFICES ASSUME at = "certbot", req.cmd = "request", req.method # "webroot",
                      req.given \notin {"other.ini"} \cup Relative
               PROVE  CanAnswer(mem, req.method)
    BY DEF DnsAnswerable
  <2>1. req \in Request /\ Acceptable(req) /\ mem = BoxOf(req)
    BY DEF TlsInv, TlsAtStep, TlsRenewals, TlsRevokes
  <2>2. QED
    BY <2>1, BoxOfTyped
<1>2. TlsTypeOK
  BY DEF TlsInv, TlsState, TlsAtStep, TlsTypeOK, TlsJobEntry
<1>3. QED
  BY <1>1, <1>2 DEF TlsInv, TlsReports, CertificatesHold

LEMMA TlsInductive == TlsInv /\ [TlsNext]_TlsVars => TlsInv'
<1> SUFFICES ASSUME TlsInv, [TlsNext]_TlsVars PROVE TlsInv'
  OBVIOUS
<1>1. CASE AskRequest \/ AskRenew \/ JobFires \/ AskRevoke \/ AskJob
  BY <1>1, TlsAskKeeps
<1>2. CASE Prepare \/ PrepareRenewal \/ PrepareRevoke \/ AddJob \/ Certbot
  BY <1>2, TlsPrepareKeeps, TlsAddJobKeeps, CertbotKeeps
<1>3. CASE TlsKill \/ DayPasses \/ DropsJob
  BY <1>3, TlsKillKeeps, TlsElseKeeps
<1>4. CASE UNCHANGED TlsVars
  <2>1. UNCHANGED <<group, at, req, mem, said, live, day, entries>>
    BY <1>4 DEF TlsVars, proc, tls
  <2>2. QED
    BY <2>1
    DEF TlsInv, TlsState, TlsAtStep, TlsReports, RequestedIsLive, RenewedIsFresh, Ended, Due
<1>5. QED
  BY <1>1, <1>2, <1>3, <1>4 DEF TlsNext, TlsStep

\* The inductive invariant of tls.
THEOREM TlsInvariance == TlsSpec => []TlsInv
<1>1. TlsInv /\ [TlsNext]_TlsVars => TlsInv'
  BY TlsInductive
<1>2. QED
  BY <1>1, TlsInitially, PTL DEF TlsSpec

-----------------------------------------------------------------------------
(***************************************************************************)
(* java.                                                                   *)
(***************************************************************************)
JavaRequest ==
    [cmd : {"install", "reinstall", "uninstall", "upgrade", "switch"}, version : Versions, dry : {FALSE}]

OneEach(text) == \A i, j \in DOMAIN text : i # j /\ text[i][1] = "marker" => text[i] # text[j]

\* A run is at a step of its command; what it is about to remove it has read,
\* and what it is about to append is not there, unless the file was not readable.
JavaAtStep ==
    /\ group = "java"
    /\ at \in {"idle", "brew", "link", "marker", "append",
               "unlink", "uninstall", "read_rc", "truncate_rc", "write_rc"}
    /\ at # "idle" => req \in JavaRequest
    /\ at \in {"unlink", "uninstall", "read_rc", "truncate_rc", "write_rc"} <=> at # "idle" /\ req.cmd = "uninstall"
    /\ at = "link" => req.cmd \in {"install", "reinstall", "upgrade"}
    /\ at \in {"marker", "append"} => req.cmd \in {"install", "reinstall"}
    /\ at \in {"link", "marker", "append"} => req.version \in pkgs
    /\ at \in {"read_rc", "truncate_rc", "write_rc"} => req.version \notin pkgs
    /\ at \in {"truncate_rc", "write_rc"} => mem \in Seq(RcLine) /\ (rcWell => OneEach(mem))
    /\ at \notin {"truncate_rc", "write_rc"} => mem = Nothing
    /\ at = "append" /\ rcWell => ~HasLine(rc, req.version)

JavaInv ==
    /\ JavaTypeOK /\ JavaAtStep
    /\ OneBlockEach /\ InstalledHasBlock /\ UninstallTakesItsBlock

Stripped == [out : Seq(RcLine), skip : 0..2]

\* One line after the other, with what the loop has kept, and is to skip.
StripOf(text, v, g) ==
    /\ g \in [0..Len(text) -> Stripped]
    /\ g[0] = [out |-> <<>>, skip |-> 0]
    /\ \A i \in 1..Len(text) : g[i] = StripLine(g[i - 1], text[i], v)
    /\ Strip(text, v) = g[Len(text)].out

\* The lines of the user's, of blocks and blank ones.
LEMMA RcLineShape ==
    /\ Blank \in RcLine /\ Blank[1] = "blank"
    /\ \A v \in Versions : /\ Marker(v) \in RcLine /\ Marker(v)[1] = "marker" /\ Marker(v)[2] = v
                           /\ <<"path", v>> \in RcLine /\ <<"home", v>> \in RcLine
    /\ \A u \in OwnLines : Own(u) \in RcLine /\ Own(u)[1] = "own"
    /\ \A l \in RcLine : l[1] = "marker" => \E v \in Versions : l = Marker(v)
BY DEF RcLine, Blank, Marker, Own

LEMMA FrontOf ==
    ASSUME NEW A, NEW s \in Seq(A), s # <<>>
    PROVE  /\ Front(s) \in Seq(A) /\ Len(Front(s)) = Len(s) - 1
           /\ \A i \in 1..(Len(s) - 1) : Front(s)[i] = s[i]
           /\ s = Append(Front(s), Last(s)) /\ Last(s) \in A
<1>1. Len(s) \in Nat /\ Len(s) > 0 /\ Last(s) \in A
  BY DEF Last
<1>2. /\ Front(s) \in Seq(A) /\ Len(Front(s)) = Len(s) - 1
      /\ \A i \in 1..(Len(s) - 1) : Front(s)[i] = s[i]
  <2> DEFINE m == Len(s) - 1
  <2>1. m \in 0..Len(s) /\ 1 \in 1..(m + 1)
    BY <1>1
  <2>2. /\ SubSeq(s, 1, m) \in Seq(A)
        /\ Len(SubSeq(s, 1, m)) = IF 1 <= m THEN m - 1 + 1 ELSE 0
        /\ \A i \in 1..(m - 1 + 1) : SubSeq(s, 1, m)[i] = s[1 + i - 1]
    <3> HIDE DEF m
    <3>1. QED
      BY <2>1, SubSeqProperties
  <2>3. m \in Nat /\ (1 <= m \/ m = 0) /\ m - 1 + 1 = m
    <3>1. m \in Nat
      BY <1>1
    <3> HIDE DEF m
    <3>2. QED
      BY <3>1
  <2>4. Len(SubSeq(s, 1, m)) = m
    <3> HIDE DEF m
    <3>1. QED
      BY <2>2, <2>3
  <2>5. \A i \in 1..m : SubSeq(s, 1, m)[i] = s[i]
    <3> HIDE DEF m
    <3>1. \A i \in 1..m : 1 + i - 1 = i
      BY <2>3
    <3>2. QED
      BY <2>2, <2>3, <3>1
  <2>6. QED
    BY <2>2, <2>4, <2>5 DEF Front
<1>3. Append(Front(s), Last(s)) \in Seq(A) /\ Len(Append(Front(s), Last(s))) = Len(s)
  BY <1>1, <1>2
<1>4. \A i \in 1..Len(s) : Append(Front(s), Last(s))[i] = s[i]
  BY <1>1, <1>2 DEF Last
<1>5. QED
  BY <1>1, <1>2, <1>3, <1>4, SeqEqual

LEMMA FrontOfAppend ==
    ASSUME NEW A, NEW s \in Seq(A), NEW x \in A
    PROVE  Append(s, x) # <<>> /\ Last(Append(s, x)) = x /\ Front(Append(s, x)) = s
<1> DEFINE t == Append(s, x)
           n == Len(s)
<1>1. n \in Nat /\ t \in Seq(A) /\ Len(t) = n + 1 /\ t[n + 1] = x /\ \A i \in 1..n : t[i] = s[i]
  BY AppendProperties, LenProperties
<1>2. t # <<>>
  BY <1>1
<1> HIDE DEF t
<1>3. /\ Front(t) \in Seq(A) /\ Len(Front(t)) = Len(t) - 1
      /\ \A i \in 1..(Len(t) - 1) : Front(t)[i] = t[i]
  BY <1>1, <1>2, FrontOf
<1>4. Len(t) - 1 = n
  BY <1>1
<1>5. Front(t) = s
  BY <1>1, <1>3, <1>4, SeqEqual
<1>6. QED
  BY <1>1, <1>2, <1>5 DEF Last, t

LEMMA StripLineTyped ==
    ASSUME NEW s \in Stripped, NEW l \in RcLine, NEW v \in Versions
    PROVE  StripLine(s, l, v) \in Stripped
<1>1. s.out \in Seq(RcLine) /\ s.skip \in 0..2
  BY DEF Stripped
<1>2. CASE s.skip > 0
  BY <1>1, <1>2 DEF Stripped, StripLine
<1>3. CASE ~(s.skip > 0) /\ l = Marker(v)
  <2>1. s.out # <<>> => Front(s.out) \in Seq(RcLine)
    BY <1>1, FrontOf
  <2>2. QED
    BY <1>1, <1>3, <2>1 DEF Stripped, StripLine, BlockLines
<1>4. CASE ~(s.skip > 0) /\ l # Marker(v)
  <2>1. Append(s.out, l) \in Seq(RcLine)
    BY <1>1
  <2>2. StripLine(s, l, v) = [s EXCEPT !.out = Append(s.out, l)]
    BY <1>4 DEF StripLine
  <2>3. QED
    BY <1>1, <2>1, <2>2 DEF Stripped
<1>5. QED
  BY <1>2, <1>3, <1>4

LEMMA StripFolds ==
    ASSUME NEW text \in Seq(RcLine), NEW v \in Versions
    PROVE  \E g : StripOf(text, v, g)
<1> DEFINE n == Len(text)
           D == DOMAIN text
           base == [out |-> <<>>, skip |-> 0]
           Folds1(f) == f = [s \in SUBSET D |->
                IF s = {} THEN base ELSE StripLine(f[s \ {Max(s)}], text[Max(s)], v)]
           c == CHOOSE f : Folds1(f)
           Step(x, i) == StripLine(x, text[i], v)
           G == [i \in 1..n |-> [x \in Stripped |-> Step(x, i)]]
<1>1. Strip(text, v) = c[D].out
  BY DEF Strip, FoldLeft, MapThenFoldSet
<1>2. D = 1..n /\ n \in Nat /\ \A i \in 1..n : text[i] \in RcLine
  BY LenProperties
<1>3. base \in Stripped
  BY DEF Stripped
<1>4. \A i \in 1..n, x \in Stripped : Step(x, i) \in Stripped
  BY <1>2, StripLineTyped
<1>5. /\ G \in [1..n -> [Stripped -> Stripped]]
      /\ \A i \in 1..n, x \in Stripped : G[i][x] = Step(x, i)
  <2> HIDE DEF Step, n
  <2> QED
    BY <1>4
<1> HIDE DEF base
<1>6. PICK f \in [SUBSET (1..n) -> Stripped] : \A s \in SUBSET (1..n) :
            f[s] = IF s = {} THEN base ELSE G[Max(s)][f[s \ {Max(s)}]]
  <2>1. n \in Nat /\ base \in Stripped /\ G \in [1..n -> [Stripped -> Stripped]]
    BY <1>2, <1>3, <1>5
  <2> HIDE DEF G, n
  <2>2. PICK f : FoldsSets(f, Stripped, base, n, G)
    BY <2>1, FoldExists
  <2>3. QED
    BY <2>2 DEF FoldsSets
<1>7. ASSUME NEW s \in SUBSET (1..n), s # {}
      PROVE  Max(s) \in 1..n /\ s \ {Max(s)} \in SUBSET (1..n)
  <2> HIDE DEF n
  <2> QED
    BY <1>2, <1>7, MaxOfSome
<1>8. Folds1(f)
  <2>1. ASSUME NEW s \in SUBSET (1..n), s # {}
        PROVE  f[s] = Step(f[s \ {Max(s)}], Max(s))
    <3> HIDE DEF G, n, Step
    <3> QED
      BY <1>5, <1>6, <1>7, <2>1
  <2>2. f[{}] = base
    BY <1>6
  <2> HIDE DEF n, G
  <2>3. QED
    BY <1>2, <1>6, <2>1, <2>2
<1>9. Folds1(c)
  BY <1>8
<1>10. \A s \in SUBSET (1..n) : c[s] = IF s = {} THEN base ELSE Step(c[s \ {Max(s)}], Max(s))
  <2> HIDE DEF c, n
  <2> QED
    BY <1>2, <1>9
<1>11. PICK g \in [0..n -> Stripped] :
            /\ g[0] = base
            /\ \A i \in 1..n : g[i] = G[i][g[i - 1]]
            /\ g[n] = c[1..n]
  <2>1. c[{}] = base
    <3> HIDE DEF c, n
    <3> QED
      BY <1>10
  <2>2. \A s \in SUBSET (1..n) : s # {} /\ c[s \ {Max(s)}] \in Stripped
            => c[s] = G[Max(s)][c[s \ {Max(s)}]]
    <3> HIDE DEF c, n, G, Step
    <3> QED
      BY <1>5, <1>7, <1>10
  <2>3. n \in Nat /\ base \in Stripped /\ G \in [1..n -> [Stripped -> Stripped]]
    BY <1>2, <1>3, <1>5
  <2> HIDE DEF c, n, G
  <2>4. PICK g : FoldsUp(g, c[1..n], Stripped, base, n, G)
    BY <2>1, <2>2, <2>3, FoldRuns
  <2>5. QED
    BY <2>4 DEF FoldsUp
<1>12. \A i \in 1..n : g[i] = Step(g[i - 1], i)
  <2> HIDE DEF G, n, Step
  <2>1. \A i \in 1..n : g[i - 1] \in Stripped
    BY <1>2, <1>11
  <2>2. QED
    BY <1>5, <1>11, <2>1
<1>13. Strip(text, v) = g[n].out
  <2> HIDE DEF c
  <2> QED
    BY <1>1, <1>2, <1>11
<1>14. QED
  BY <1>11, <1>12, <1>13 DEF StripOf, base

OthersOf(text, v, g) ==
    /\ g \in [0..Len(text) -> Seq(RcLine)]
    /\ g[0] = <<>>
    /\ \A i \in 1..Len(text) :
        g[i] = IF text[i][1] # "blank" /\ text[i][2] # v THEN Append(g[i - 1], text[i]) ELSE g[i - 1]
    /\ Others(text, v) = g[Len(text)]

LEMMA OthersFolds ==
    ASSUME NEW text \in Seq(RcLine), NEW v \in Versions
    PROVE  \E g : OthersOf(text, v, g)
<1> DEFINE n == Len(text)
           D == DOMAIN text
           A == Seq(RcLine)
           Step(x, i) == IF text[i][1] # "blank" /\ text[i][2] # v THEN Append(x, text[i]) ELSE x
           Folds1(f) == f = [s \in SUBSET D |->
                IF s = {} THEN <<>> ELSE Step(f[s \ {Max(s)}], Max(s))]
           c == CHOOSE f : Folds1(f)
           G == [i \in 1..n |-> [x \in A |-> Step(x, i)]]
           base == <<>>
<1>1. Others(text, v) = c[D]
  BY DEF Others, FoldLeft, MapThenFoldSet
<1>2. D = 1..n /\ n \in Nat /\ \A i \in 1..n : text[i] \in RcLine
  BY LenProperties
<1>3. base \in A
  OBVIOUS
<1>4. \A i \in 1..n, x \in A : Step(x, i) \in A
  BY <1>2, AppendProperties
<1>5. /\ G \in [1..n -> [A -> A]]
      /\ \A i \in 1..n, x \in A : G[i][x] = Step(x, i)
  <2> HIDE DEF Step, n, A
  <2> QED
    BY <1>4
<1> HIDE DEF A
<1>6. PICK f \in [SUBSET (1..n) -> A] : \A s \in SUBSET (1..n) :
            f[s] = IF s = {} THEN base ELSE G[Max(s)][f[s \ {Max(s)}]]
  <2>1. n \in Nat /\ base \in A /\ G \in [1..n -> [A -> A]]
    BY <1>2, <1>3, <1>5
  <2> HIDE DEF G, n, base
  <2>2. PICK f : FoldsSets(f, A, base, n, G)
    BY <2>1, FoldExists
  <2>3. QED
    BY <2>2 DEF FoldsSets
<1>7. ASSUME NEW s \in SUBSET (1..n), s # {}
      PROVE  Max(s) \in 1..n /\ s \ {Max(s)} \in SUBSET (1..n)
  <2> HIDE DEF n
  <2> QED
    BY <1>2, <1>7, MaxOfSome
<1>8. Folds1(f)
  <2>1. ASSUME NEW s \in SUBSET (1..n), s # {}
        PROVE  f[s] = Step(f[s \ {Max(s)}], Max(s))
    <3> HIDE DEF G, n, Step
    <3> QED
      BY <1>5, <1>6, <1>7, <2>1
  <2>2. f[{}] = <<>>
    BY <1>6
  <2> HIDE DEF n, G, Step
  <2>3. QED
    BY <1>2, <1>6, <2>1, <2>2
<1>9. Folds1(c)
  <2> HIDE DEF Folds1
  <2> QED
    BY <1>8
<1>10. \A s \in SUBSET (1..n) : c[s] = IF s = {} THEN base ELSE Step(c[s \ {Max(s)}], Max(s))
  <2> HIDE DEF c, n, Step
  <2> QED
    BY <1>2, <1>9
<1>11. PICK g \in [0..n -> A] :
            /\ g[0] = base
            /\ \A i \in 1..n : g[i] = G[i][g[i - 1]]
            /\ g[n] = c[1..n]
  <2>1. c[{}] = base
    <3> HIDE DEF c, n, Step, base
    <3> QED
      BY <1>10
  <2>2. \A s \in SUBSET (1..n) : s # {} /\ c[s \ {Max(s)}] \in A
            => c[s] = G[Max(s)][c[s \ {Max(s)}]]
    <3> HIDE DEF c, n, G, Step
    <3> QED
      BY <1>5, <1>7, <1>10
  <2>3. n \in Nat /\ base \in A /\ G \in [1..n -> [A -> A]]
    BY <1>2, <1>3, <1>5
  <2> HIDE DEF c, n, G, base
  <2>4. PICK g : FoldsUp(g, c[1..n], A, base, n, G)
    BY <2>1, <2>2, <2>3, FoldRuns
  <2>5. QED
    BY <2>4 DEF FoldsUp
<1>12. \A i \in 1..n : g[i] = Step(g[i - 1], i)
  <2> HIDE DEF G, n, Step
  <2>1. \A i \in 1..n : g[i - 1] \in A
    BY <1>2, <1>11
  <2>2. QED
    BY <1>5, <1>11, <2>1
<1>13. Others(text, v) = g[n]
  <2> HIDE DEF c
  <2> QED
    BY <1>1, <1>2, <1>11
<1>14. QED
  BY <1>11, <1>12, <1>13 DEF OthersOf, A

\* The other lines of a text with one line more.
LEMMA OthersStep ==
    ASSUME NEW s \in Seq(RcLine), NEW l \in RcLine, NEW v \in Versions
    PROVE  Others(Append(s, l), v) =
                IF l[1] # "blank" /\ l[2] # v THEN Append(Others(s, v), l) ELSE Others(s, v)
<1> DEFINE t == Append(s, l)
           n == Len(s)
<1>1. /\ t \in Seq(RcLine) /\ n \in Nat /\ Len(t) = n + 1
      /\ t[n + 1] = l /\ \A i \in 1..n : t[i] = s[i]
  OBVIOUS
<1> HIDE DEF t
<1>2. PICK g : OthersOf(s, v, g)
  BY OthersFolds
<1>3. PICK h : OthersOf(t, v, h)
  BY <1>1, OthersFolds
<1> DEFINE S == {i \in Nat : i \in 0..n => h[i] = g[i]}
<1>4. 0 \in S
  BY <1>2, <1>3 DEF OthersOf
<1>5. ASSUME NEW i \in Nat, i \in S PROVE i + 1 \in S
  <2> SUFFICES ASSUME i + 1 \in 0..n PROVE h[i + 1] = g[i + 1]
    OBVIOUS
  <2> DEFINE k == i + 1
  <2>1. k \in 1..n /\ k \in 1..(n + 1) /\ k - 1 = i /\ i \in 0..n
    BY <1>1
  <2>2. h[i] = g[i] /\ t[k] = s[k]
    BY <1>1, <1>5, <2>1
  <2> HIDE DEF k, n
  <2>3. g[k] = IF s[k][1] # "blank" /\ s[k][2] # v THEN Append(g[i], s[k]) ELSE g[i]
    BY <1>2, <2>1 DEF OthersOf, n
  <2>4. h[k] = IF t[k][1] # "blank" /\ t[k][2] # v THEN Append(h[i], t[k]) ELSE h[i]
    BY <1>1, <1>3, <2>1 DEF OthersOf
  <2>5. QED
    BY <2>2, <2>3, <2>4 DEF k
<1>6. Nat \subseteq S
  <2> HIDE DEF S
  <2> QED
    BY <1>4, <1>5, SetInduction
<1>7. h[n] = g[n] /\ g[n] = Others(s, v) /\ h[n + 1] = Others(t, v)
  BY <1>1, <1>2, <1>3, <1>6 DEF OthersOf
<1>8. h[n + 1] = IF t[n + 1][1] # "blank" /\ t[n + 1][2] # v THEN Append(h[n], t[n + 1]) ELSE h[n]
  <2>1. n + 1 \in 1..Len(t) /\ (n + 1) - 1 = n
    BY <1>1
  <2> HIDE DEF n
  <2>2. QED
    BY <1>3, <2>1 DEF OthersOf
<1>9. QED
  BY <1>1, <1>7, <1>8 DEF t

LEMMA OthersOfNone == ASSUME NEW v \in Versions PROVE Others(<<>>, v) = <<>>
<1>1. <<>> \in Seq(RcLine) /\ Len(<<>>) = 0
  OBVIOUS
<1>2. PICK g : OthersOf(<<>>, v, g)
  BY <1>1, OthersFolds
<1>3. QED
  BY <1>1, <1>2 DEF OthersOf

\* After i lines of the text: nothing of v is kept but what no block brought,
\* and of every other version what there was.
StripWell(text, v, s, i) ==
    /\ \A j \in DOMAIN s.out : s.out[j] # Marker(v) /\ \E k \in 1..i : s.out[j] = text[k]
    /\ OneEach(text) => OneEach(s.out)
    /\ WholeBlocks(text, v) =>
        /\ s.skip = 2 => i \in DOMAIN text /\ text[i] = Marker(v)
        /\ s.skip = 1 => i - 1 \in DOMAIN text /\ text[i - 1] = Marker(v)
        /\ Others(s.out, v) = Others(SubSeq(text, 1, i), v)

LEMMA PrefixGrows ==
    ASSUME NEW A, NEW s \in Seq(A), NEW i \in Nat, i + 1 \in 1..Len(s)
    PROVE  /\ SubSeq(s, 1, i) \in Seq(A)
           /\ SubSeq(s, 1, i + 1) = Append(SubSeq(s, 1, i), s[i + 1])
<1> DEFINE a == SubSeq(s, 1, i)
           b == SubSeq(s, 1, i + 1)
<1>1. ASSUME NEW m \in Nat, m <= Len(s)
      PROVE  /\ SubSeq(s, 1, m) \in Seq(A) /\ Len(SubSeq(s, 1, m)) = m
             /\ \A k \in 1..m : SubSeq(s, 1, m)[k] = s[k]
  <2>1. 1 \in Int /\ m \in Int /\ \A k \in 1..m : s[k] \in A
    BY <1>1
  <2>2. /\ SubSeq(s, 1, m) \in Seq(A)
        /\ Len(SubSeq(s, 1, m)) = IF 1 <= m THEN m - 1 + 1 ELSE 0
        /\ \A k \in 1..(m - 1 + 1) : SubSeq(s, 1, m)[k] = s[1 + k - 1]
    BY <2>1, SubSeqProperties
  <2>3. (1 <= m \/ m = 0) /\ m - 1 + 1 = m /\ \A k \in 1..m : 1 + k - 1 = k
    BY <1>1
  <2>4. QED
    BY <2>2, <2>3
<1>2. a \in Seq(A) /\ Len(a) = i /\ \A k \in 1..i : a[k] = s[k]
  BY <1>1
<1>3. b \in Seq(A) /\ Len(b) = i + 1 /\ \A k \in 1..(i + 1) : b[k] = s[k]
  BY <1>1
<1>4. s[i + 1] \in A
  OBVIOUS
<1> HIDE DEF a, b
<1>5. Append(a, s[i + 1]) \in Seq(A) /\ Len(Append(a, s[i + 1])) = i + 1
  BY <1>2, <1>4
<1>6. \A k \in 1..(i + 1) : Append(a, s[i + 1])[k] = s[k]
  BY <1>2, <1>4
<1>7. b = Append(a, s[i + 1])
  BY <1>3, <1>5, <1>6, SeqEqual
<1>8. QED
  BY <1>2, <1>7 DEF a, b

LEMMA OneEachFront ==
    ASSUME NEW s \in Seq(RcLine), s # <<>>
    PROVE  (OneEach(s) => OneEach(Front(s))) /\ \A j \in DOMAIN Front(s) : j \in DOMAIN s /\ Front(s)[j] = s[j]
<1>1. /\ Front(s) \in Seq(RcLine) /\ Len(Front(s)) = Len(s) - 1
      /\ \A i \in 1..(Len(s) - 1) : Front(s)[i] = s[i]
  BY FrontOf
<1>2. DOMAIN Front(s) = 1..(Len(s) - 1) /\ Len(s) \in Nat
  BY <1>1
<1>3. \A j \in DOMAIN Front(s) : j \in DOMAIN s /\ Front(s)[j] = s[j]
  BY <1>1, <1>2
<1>4. QED
  BY <1>3 DEF OneEach

LEMMA OneEachAppend ==
    ASSUME NEW s \in Seq(RcLine), NEW l \in RcLine, OneEach(s),
           l[1] = "marker" => \A j \in DOMAIN s : s[j] # l
    PROVE  OneEach(Append(s, l))
<1> DEFINE t == Append(s, l)
<1>1. /\ DOMAIN t = 1..(Len(s) + 1) /\ Len(s) \in Nat /\ DOMAIN s = 1..Len(s)
      /\ t[Len(s) + 1] = l /\ \A i \in 1..Len(s) : t[i] = s[i]
  OBVIOUS
<1> HIDE DEF t
<1>2. ASSUME NEW i \in DOMAIN t, NEW j \in DOMAIN t, i # j, t[i][1] = "marker" PROVE t[i] # t[j]
  <2>1. CASE i = Len(s) + 1
    <3>1. j \in DOMAIN s
      BY <1>1, <1>2, <2>1
    <3>2. QED
      BY <1>1, <1>2, <2>1, <3>1
  <2>2. CASE j = Len(s) + 1
    <3>1. i \in DOMAIN s
      BY <1>1, <1>2, <2>2
    <3>2. QED
      BY <1>1, <1>2, <2>2, <3>1
  <2>3. CASE i # Len(s) + 1 /\ j # Len(s) + 1
    <3>1. i \in DOMAIN s /\ j \in DOMAIN s
      BY <1>1, <2>3
    <3>2. QED
      BY <1>1, <1>2, <3>1 DEF OneEach
  <2>4. QED
    BY <2>1, <2>2, <2>3
<1>3. QED
  BY <1>2 DEF OneEach, t

LEMMA StripStep ==
    ASSUME NEW text \in Seq(RcLine), NEW v \in Versions, NEW s \in Stripped,
           NEW i \in Nat, i + 1 \in 1..Len(text), StripWell(text, v, s, i)
    PROVE  StripWell(text, v, StripLine(s, text[i + 1], v), i + 1)
<1> DEFINE l == text[i + 1]
           r == StripLine(s, l, v)
           P == SubSeq(text, 1, i)
           Q == SubSeq(text, 1, i + 1)
<1>1. s.out \in Seq(RcLine) /\ s.skip \in 0..2 /\ l \in RcLine
  BY DEF Stripped
<1>2. Q = Append(P, l) /\ P \in Seq(RcLine)
  BY PrefixGrows
<1>3. Others(Q, v) = IF l[1] # "blank" /\ l[2] # v THEN Append(Others(P, v), l) ELSE Others(P, v)
  <2> HIDE DEF l, P, Q
  <2> QED
    BY <1>1, <1>2, OthersStep
<1>4. \A k \in 1..i : k \in 1..(i + 1)
  OBVIOUS
<1>5. i + 1 \in DOMAIN text /\ (i + 1) - 1 = i
  OBVIOUS
<1>6. CASE s.skip > 0
  <2>1. r.out = s.out /\ r.skip = s.skip - 1
    BY <1>1, <1>6 DEF StripLine, Stripped
  <2>2. ASSUME WholeBlocks(text, v)
        PROVE  /\ r.skip = 2 => FALSE
               /\ r.skip = 1 => i \in DOMAIN text /\ text[i] = Marker(v)
               /\ l[2] = v
    <3>1. CASE s.skip = 2
      <4>1. i \in DOMAIN text /\ text[i] = Marker(v)
        BY <2>2, <3>1 DEF StripWell
      <4>2. l = <<"path", v>>
        BY <2>2, <4>1 DEF WholeBlocks
      <4>3. QED
        BY <2>1, <3>1, <4>1, <4>2
    <3>2. CASE s.skip = 1
      <4>1. i - 1 \in DOMAIN text /\ text[i - 1] = Marker(v)
        BY <2>2, <3>2 DEF StripWell
      <4>2. (i - 1) + 2 = i + 1
        OBVIOUS
      <4>3. l = <<"home", v>>
        BY <2>2, <4>1, <4>2 DEF WholeBlocks
      <4>4. QED
        BY <2>1, <3>2, <4>3
    <3>3. QED
      BY <1>1, <1>6, <3>1, <3>2
  <2> HIDE DEF l, r, P, Q
  <2>3. ASSUME WholeBlocks(text, v) PROVE Others(r.out, v) = Others(Q, v)
    BY <1>3, <2>1, <2>2, <2>3 DEF StripWell, P
  <2>4. StripWell(text, v, r, i + 1)
    BY <1>4, <1>5, <2>1, <2>2, <2>3 DEF StripWell, Q
  <2>5. QED
    BY <2>4 DEF r, l
<1>7. CASE ~(s.skip > 0) /\ l = Marker(v)
  <2>1. /\ r.skip = 2
        /\ r.out = IF s.out # <<>> /\ Last(s.out) = Blank THEN Front(s.out) ELSE s.out
    BY <1>7 DEF StripLine, BlockLines
  <2>2. l[2] = v
    BY <1>7 DEF Marker
  <2> HIDE DEF l, r, P, Q
  <2>3. /\ OneEach(text) => OneEach(r.out)
        /\ \A j \in DOMAIN r.out : j \in DOMAIN s.out /\ r.out[j] = s.out[j]
    BY <1>1, <2>1, OneEachFront DEF StripWell
  <2>4. Others(r.out, v) = Others(s.out, v)
    <3>1. CASE s.out # <<>> /\ Last(s.out) = Blank
      <4>1. s.out = Append(Front(s.out), Blank) /\ Front(s.out) \in Seq(RcLine)
        BY <1>1, <3>1, FrontOf
      <4>2. Others(Append(Front(s.out), Blank), v) = Others(Front(s.out), v)
        BY <4>1, OthersStep, RcLineShape
      <4>3. QED
        BY <2>1, <3>1, <4>1, <4>2
    <3>2. QED
      BY <2>1, <3>1
  <2>5. ASSUME WholeBlocks(text, v) PROVE Others(r.out, v) = Others(Q, v)
    BY <1>3, <2>2, <2>4, <2>5 DEF StripWell, P
  <2>6. text[i + 1] = Marker(v)
    BY <1>7 DEF l
  <2>7. ASSUME NEW j \in DOMAIN r.out
        PROVE  r.out[j] # Marker(v) /\ \E k \in 1..(i + 1) : r.out[j] = text[k]
    BY <1>4, <2>3 DEF StripWell
  <2>8. StripWell(text, v, r, i + 1)
    BY <1>5, <2>1, <2>3, <2>5, <2>6, <2>7 DEF StripWell, Q
  <2>9. QED
    BY <2>8 DEF r, l
<1>8. CASE ~(s.skip > 0) /\ l # Marker(v)
  <2>1. r.out = Append(s.out, l) /\ r.skip = 0
    <3>1. r = [s EXCEPT !.out = Append(s.out, l)] /\ s.skip = 0
      BY <1>1, <1>8 DEF StripLine
    <3>2. QED
      BY <3>1 DEF Stripped
  <2>2. ASSUME OneEach(text), l[1] = "marker", NEW j \in DOMAIN s.out PROVE s.out[j] # l
    <3>1. PICK k \in 1..i : s.out[j] = text[k]
      BY DEF StripWell
    <3>2. k \in DOMAIN text /\ k # i + 1
      OBVIOUS
    <3>3. QED
      BY <1>5, <2>2, <3>1, <3>2 DEF OneEach
  <2>3. text[i + 1] = l
    OBVIOUS
  <2> HIDE DEF l, r, P, Q
  <2>4. OneEach(text) => OneEach(r.out)
    BY <1>1, <2>1, <2>2, OneEachAppend DEF StripWell
  <2>5. ASSUME WholeBlocks(text, v) PROVE Others(r.out, v) = Others(Q, v)
    <3> DEFINE o == s.out
    <3>o. o \in Seq(RcLine) /\ l \in RcLine /\ r.out = Append(o, l)
      BY <1>1, <2>1
    <3>1. Others(r.out, v) =
            IF l[1] # "blank" /\ l[2] # v THEN Append(Others(s.out, v), l) ELSE Others(s.out, v)
      <4> HIDE DEF o
      <4>1. Others(Append(o, l), v) =
                IF l[1] # "blank" /\ l[2] # v THEN Append(Others(o, v), l) ELSE Others(o, v)
        BY <3>o, OthersStep
      <4>2. QED
        BY <3>o, <4>1 DEF o
    <3>2. Others(s.out, v) = Others(P, v)
      BY <2>5 DEF StripWell, P
    <3>3. QED
      BY <1>3, <3>1, <3>2
  <2>6. ASSUME NEW j \in DOMAIN r.out
        PROVE  r.out[j] # Marker(v) /\ \E k \in 1..(i + 1) : r.out[j] = text[k]
    <3>1. CASE j \in DOMAIN s.out
      <4>1. r.out[j] = s.out[j]
        BY <1>1, <2>1, <3>1
      <4>2. QED
        BY <1>4, <3>1, <4>1 DEF StripWell
    <3>2. CASE j \notin DOMAIN s.out
      <4>1. r.out[j] = l
        BY <1>1, <2>1, <3>2
      <4>2. i + 1 \in 1..(i + 1)
        OBVIOUS
      <4>3. QED
        BY <1>8, <2>3, <4>1, <4>2
    <3>3. QED
      BY <3>1, <3>2
  <2>7. StripWell(text, v, r, i + 1)
    BY <2>1, <2>4, <2>5, <2>6 DEF StripWell, Q
  <2>8. QED
    BY <2>7 DEF r, l
<1>9. QED
  BY <1>6, <1>7, <1>8

\* What is left of a text: no marker of v, no marker twice, and if the blocks
\* of v were whole every line that is neither blank nor of v.
LEMMA StripKeeps ==
    ASSUME NEW text \in Seq(RcLine), NEW v \in Versions
    PROVE  /\ Strip(text, v) \in Seq(RcLine)
           /\ OneEach(text) => OneEach(Strip(text, v))
           /\ \A j \in DOMAIN Strip(text, v) : Strip(text, v)[j] # Marker(v)
           /\ WholeBlocks(text, v) => Others(Strip(text, v), v) = Others(text, v)
<1>1. PICK g : StripOf(text, v, g)
  BY StripFolds
<1> DEFINE n == Len(text)
           S == {i \in Nat : i \in 0..n => StripWell(text, v, g[i], i)}
<1>2. n \in Nat
  OBVIOUS
<1>3. 0 \in S
  <2>1. g[0].out = <<>> /\ g[0].skip = 0
    BY <1>1 DEF StripOf
  <2>2. SubSeq(text, 1, 0) = <<>>
    OBVIOUS
  <2>3. DOMAIN g[0].out = {}
    BY <2>1
  <2>4. Others(g[0].out, v) = Others(SubSeq(text, 1, 0), v)
    BY <2>1, <2>2
  <2>5. OneEach(g[0].out)
    BY <2>3 DEF OneEach
  <2>6. g[0].skip # 1 /\ g[0].skip # 2
    BY <2>1
  <2>7. StripWell(text, v, g[0], 0)
    BY <2>3, <2>4, <2>5, <2>6 DEF StripWell
  <2>8. QED
    BY <2>7
<1>4. ASSUME NEW i \in Nat, i \in S PROVE i + 1 \in S
  <2> SUFFICES ASSUME i + 1 \in 0..n PROVE StripWell(text, v, g[i + 1], i + 1)
    OBVIOUS
  <2>1. i \in 0..n /\ i + 1 \in 1..n /\ (i + 1) - 1 = i
    BY <1>2
  <2>2. StripWell(text, v, g[i], i) /\ g[i] \in Stripped
    BY <1>1, <1>4, <2>1 DEF StripOf
  <2>3. g[i + 1] = StripLine(g[i], text[i + 1], v)
    BY <1>1, <2>1 DEF StripOf
  <2>4. QED
    BY <2>1, <2>2, <2>3, StripStep
<1>5. Nat \subseteq S
  <2> HIDE DEF S
  <2> QED
    BY <1>3, <1>4, SetInduction
<1>6. StripWell(text, v, g[n], n) /\ g[n] \in Stripped
  BY <1>1, <1>2, <1>5 DEF StripOf
<1>7. SubSeq(text, 1, n) = text
  OBVIOUS
<1>8. Strip(text, v) = g[n].out
  BY <1>1 DEF StripOf
<1> HIDE DEF n
<1>9. QED
  BY <1>6, <1>7, <1>8 DEF StripWell, Stripped
LEMMA JavaSilence == said' = {} => InstalledHasBlock' /\ UninstallTakesItsBlock'
BY DEF InstalledHasBlock, UninstallTakesItsBlock, Ended

LEMMA JavaNoSuccess ==
    (\A s \in said' : s.exit # "ok" \/ s.req.cmd \notin {"install", "reinstall", "uninstall"})
        => InstalledHasBlock' /\ UninstallTakesItsBlock'
BY DEF InstalledHasBlock, UninstallTakesItsBlock, Ended

LEMMA JavaInitially == JavaInit => JavaInv
<1> SUFFICES ASSUME JavaInit PROVE JavaInv
  OBVIOUS
<1> USE DEF JavaInit, CliInit, JavaStart
<1>1. rc = <<>> \/ \E u \in OwnLines : rc = <<Own(u)>>
  OBVIOUS
<1>2. rc \in Seq(RcLine)
  <2>1. \A l \in RcLine : <<l>> \in Seq(RcLine)
    OBVIOUS
  <2>2. <<>> \in Seq(RcLine)
    OBVIOUS
  <2>3. QED
    BY ONLY <1>1, <2>1, <2>2, RcLineShape
<1>3. OneBlockEach
  BY <1>1, RcLineShape DEF OneBlockEach
<1>4. JavaTypeOK
  BY <1>2 DEF JavaTypeOK
<1>5. JavaAtStep
  BY DEF JavaAtStep
<1>6. InstalledHasBlock /\ UninstallTakesItsBlock
  BY DEF InstalledHasBlock, UninstallTakesItsBlock, Ended
<1>7. QED
  BY <1>3, <1>4, <1>5, <1>6 DEF JavaInv

LEMMA JavaAskKeeps == JavaInv /\ AskJava => JavaInv'
<1> SUFFICES ASSUME JavaInv, AskJava PROVE JavaInv'
  OBVIOUS
<1>1. PICK c \in {"install", "reinstall", "uninstall", "upgrade", "switch"}, v \in Versions :
        Ask("java", [cmd |-> c, version |-> v, dry |-> FALSE], IF c = "uninstall" THEN "unlink" ELSE "brew")
  BY DEF AskJava
<1>2. UNCHANGED java /\ said' = {} /\ group' = group /\ mem' = mem
  BY <1>1 DEF AskJava, Ask, Starts, Refused
<1>3. JavaTypeOK' /\ OneBlockEach'
  BY <1>2 DEF JavaInv, JavaTypeOK, OneBlockEach, java
<1>4. JavaAtStep'
  <2>1. CASE Refused("java", [cmd |-> c, version |-> v, dry |-> FALSE])
    BY <1>2, <2>1 DEF JavaInv, JavaAtStep, Refused, java
  <2>2. CASE Starts("java", [cmd |-> c, version |-> v, dry |-> FALSE],
                    IF c = "uninstall" THEN "unlink" ELSE "brew")
    <3>1. [cmd |-> c, version |-> v, dry |-> FALSE] \in JavaRequest
      BY DEF JavaRequest
    <3>2. mem = Nothing
      BY <2>2 DEF JavaInv, JavaAtStep, Starts, Idle
    <3>3. /\ req' = [cmd |-> c, version |-> v, dry |-> FALSE]
          /\ at' = IF c = "uninstall" THEN "unlink" ELSE "brew"
      BY <2>2 DEF Starts
    <3>4. group' = "java"
      BY <1>2 DEF JavaInv, JavaAtStep
    <3>5. req' \in JavaRequest /\ req'.cmd = c
      BY <3>1, <3>3
    <3>6. QED
      BY <1>2, <3>2, <3>3, <3>4, <3>5 DEF JavaAtStep
  <2>3. QED
    BY <1>1, <2>1, <2>2 DEF Ask
<1>5. QED
  BY <1>2, <1>3, <1>4, JavaSilence DEF JavaInv

\* A run that ends, or is killed, leaves nothing to know.
LEMMA JavaEndKeeps ==
    ASSUME group = "java", group' = group, at' = "idle", mem' = Nothing
    PROVE  JavaAtStep'
BY DEF JavaAtStep

LEMMA BrewKeeps == JavaInv /\ Brew => JavaInv'
<1> SUFFICES ASSUME JavaInv, Brew PROVE JavaInv'
  OBVIOUS
<1>1. /\ rc' = rc /\ jvm' = jvm /\ mayLink' = mayLink /\ rcWell' = rcWell
      /\ at = "brew" /\ OneBlockEach
  BY DEF Brew, JavaInv
<1>2. req \in JavaRequest /\ mem = Nothing /\ group = "java"
  BY <1>1 DEF JavaInv, JavaAtStep
<1>3. req.version \in Versions
  BY <1>2 DEF JavaRequest
<1>4. OneBlockEach'
  BY <1>1 DEF OneBlockEach
<1>5. JavaTypeOK'
  BY <1>1, <1>3 DEF JavaInv, JavaTypeOK, Brew
<1>6. CASE /\ req.cmd \in {"install", "reinstall", "upgrade"} /\ Goto("link")
           /\ req.version \in pkgs'
  <2>1. /\ at' = "link" /\ mem' = mem /\ said' = {} /\ group' = group /\ req' = req
    BY <1>6 DEF Goto, Remember
  <2>2. JavaAtStep'
    BY <1>2, <1>6, <2>1 DEF JavaAtStep
  <2>3. QED
    BY <1>4, <1>5, <2>1, <2>2, JavaSilence DEF JavaInv
<1>7. CASE Exit("fail") \/ (req.cmd = "switch" /\ Exit("ok"))
  <2>1. /\ at' = "idle" /\ mem' = Nothing /\ group' = group
        /\ \A s \in said' : s.exit # "ok" \/ s.req.cmd \notin {"install", "reinstall", "uninstall"}
    BY <1>7 DEF Exit, Ends
  <2>2. JavaAtStep'
    BY <1>2, <2>1, JavaEndKeeps
  <2>3. QED
    BY <1>4, <1>5, <2>1, <2>2, JavaNoSuccess DEF JavaInv
<1>8. QED
  BY <1>6, <1>7 DEF Brew

LEMMA LinkKeeps == JavaInv /\ Link => JavaInv'
<1> SUFFICES ASSUME JavaInv, Link PROVE JavaInv'
  OBVIOUS
<1>1. /\ rc' = rc /\ pkgs' = pkgs /\ active' = active /\ mayLink' = mayLink /\ rcWell' = rcWell
      /\ at = "link" /\ OneBlockEach
  BY DEF Link, JavaInv
<1>2. /\ req \in JavaRequest /\ mem = Nothing /\ group = "java" /\ req.version \in pkgs
      /\ req.cmd \in {"install", "reinstall", "upgrade"}
  BY <1>1 DEF JavaInv, JavaAtStep
<1>3. req.version \in Versions
  BY <1>2 DEF JavaRequest
<1>4. OneBlockEach'
  BY <1>1 DEF OneBlockEach
<1>5. JavaTypeOK'
  BY <1>1, <1>3 DEF JavaInv, JavaTypeOK, Link
<1>6. CASE req.cmd = "upgrade"
  <2>1. /\ at' = "idle" /\ mem' = Nothing /\ group' = group
        /\ \A s \in said' : s.req.cmd \notin {"install", "reinstall", "uninstall"}
    BY <1>6 DEF Link, Exit, Ends
  <2>2. JavaAtStep'
    BY <1>2, <2>1, JavaEndKeeps
  <2>3. QED
    BY <1>4, <1>5, <2>1, <2>2, JavaNoSuccess DEF JavaInv
<1>7. CASE req.cmd # "upgrade"
  <2>1. /\ at' = "marker" /\ mem' = mem /\ said' = {} /\ group' = group /\ req' = req
    BY <1>7 DEF Link, Goto, Remember
  <2>2. JavaAtStep'
    BY <1>1, <1>2, <1>7, <2>1 DEF JavaAtStep
  <2>3. QED
    BY <1>4, <1>5, <2>1, <2>2, JavaSilence DEF JavaInv
<1>8. QED
  BY <1>6, <1>7

\* An access to the file fails: what is only promised while it is well falls.
LEMMA RcFailsKeeps ==
    ASSUME JavaInv, RcFails, JavaAtStep',
           \/ said' = {}
           \/ \A s \in said' : s.exit # "ok"
           \/ \A s \in said' : s.req.cmd = "uninstall" /\ s.req.version \notin pkgs
    PROVE  JavaInv'
<1>1. rcWell' = FALSE /\ UNCHANGED <<rc, pkgs, jvm, active, mayLink>>
  BY DEF RcFails
<1>2. ~rcWell'
  BY <1>1
<1>3. JavaTypeOK'
  BY <1>1 DEF JavaInv, JavaTypeOK
<1>4. OneBlockEach'
  BY <1>2 DEF OneBlockEach
<1>5. InstalledHasBlock' /\ UninstallTakesItsBlock'
  <2>1. CASE said' = {} \/ \A s \in said' : s.exit # "ok"
    BY <2>1, JavaSilence, JavaNoSuccess
  <2>2. CASE \A s \in said' : s.req.cmd = "uninstall" /\ s.req.version \notin pkgs
    BY <1>1, <1>2, <2>2 DEF InstalledHasBlock, UninstallTakesItsBlock, Ended
  <2>3. QED
    BY <2>1, <2>2
<1>6. QED
  BY <1>3, <1>4, <1>5 DEF JavaInv

LEMMA CheckMarkerKeeps == JavaInv /\ CheckMarker => JavaInv'
<1> SUFFICES ASSUME JavaInv, CheckMarker PROVE JavaInv'
  OBVIOUS
<1>1. at = "marker"
  BY DEF CheckMarker
<1>2. /\ req \in JavaRequest /\ mem = Nothing /\ group = "java" /\ req.version \in pkgs
      /\ req.cmd \in {"install", "reinstall"}
  BY <1>1 DEF JavaInv, JavaAtStep
<1>3. UNCHANGED java => OneBlockEach' /\ JavaTypeOK'
  BY DEF JavaInv, OneBlockEach, JavaTypeOK, java
<1>4. CASE UNCHANGED java /\ Writes(req.version) /\ Goto("append")
  <2>1. /\ at' = "append" /\ mem' = mem /\ said' = {} /\ group' = group /\ req' = req
    BY <1>4 DEF Goto, Remember
  <2>2. ~HasLine(rc, req.version)'
    BY <1>4, <2>1 DEF Writes, HasMarker, HasLine, java
  <2>3. JavaAtStep'
    BY <1>1, <1>2, <1>4, <2>1, <2>2 DEF JavaAtStep, java
  <2>4. QED
    BY <1>3, <1>4, <2>1, <2>3, JavaSilence DEF JavaInv
<1>5. CASE UNCHANGED java /\ ~Writes(req.version) /\ Exit("ok")
  <2>1. /\ at' = "idle" /\ mem' = Nothing /\ group' = group
        /\ \A s \in said' : s.req = req
    BY <1>5 DEF Exit, Ends
  <2>2. JavaAtStep'
    BY <1>2, <2>1, JavaEndKeeps
  <2>3. rc' = rc /\ pkgs' = pkgs
    BY <1>5 DEF java
  <2>4. \A s \in said' : s.req.version \in pkgs' /\ HasMarker(s.req.version)'
    BY <1>2, <1>5, <2>1, <2>3 DEF Writes, HasMarker
  <2>5. InstalledHasBlock'
    BY <2>4 DEF InstalledHasBlock, Ended
  <2>6. UninstallTakesItsBlock'
    BY <1>2, <2>1 DEF UninstallTakesItsBlock, Ended
  <2>7. QED
    BY <1>3, <1>5, <2>2, <2>5, <2>6 DEF JavaInv
<1>6. CASE Goto("append") /\ RcFails
  <2>1. /\ at' = "append" /\ mem' = mem /\ said' = {} /\ group' = group /\ req' = req
        /\ pkgs' = pkgs /\ rcWell' = FALSE
    BY <1>6 DEF Goto, Remember, RcFails
  <2>2. ~rcWell'
    BY <2>1
  <2>3. JavaAtStep'
    BY <1>2, <2>1, <2>2 DEF JavaAtStep
  <2>4. QED
    BY <1>6, <2>1, <2>3, RcFailsKeeps
<1>7. QED
  BY <1>4, <1>5, <1>6 DEF CheckMarker

\* A text t that ends in the block of v, after the n lines of s.
EndsInBlock(t, s, v, n) ==
    /\ t \in Seq(RcLine) /\ DOMAIN t = 1..(n + 4) /\ Len(t) = n + 4
    /\ \A i \in 1..n : i \in 1..(n + 4) /\ t[i] = s[i]
    /\ t[n + 1] = Blank /\ t[n + 2] = Marker(v)
    /\ t[n + 3] = <<"path", v>> /\ t[n + 4] = <<"home", v>>

LEMMA BlockAtEnd ==
    ASSUME NEW s \in Seq(RcLine), NEW v \in Versions
    PROVE  EndsInBlock(s \o Block(v), s, v, Len(s))
<1> DEFINE b == Block(v)
           t == s \o b
           n == Len(s)
<1>1. /\ b \in Seq(RcLine) /\ Len(b) = 4
      /\ b[1] = Blank /\ b[2] = Marker(v) /\ b[3] = <<"path", v>> /\ b[4] = <<"home", v>>
  BY RcLineShape DEF Block
<1>2. n \in Nat /\ DOMAIN s = 1..n
  BY LenProperties
<1>3. /\ t \in Seq(RcLine) /\ Len(t) = n + Len(b)
      /\ \A i \in 1..(n + Len(b)) : t[i] = IF i <= n THEN s[i] ELSE b[i - n]
  <2> HIDE DEF b
  <2> QED
    BY <1>1, ConcatProperties, Zenon
<1> HIDE DEF b, t
<1>4. DOMAIN t = 1..(n + 4) /\ \A i \in 1..n : i \in 1..(n + 4) /\ t[i] = s[i]
  BY <1>1, <1>2, <1>3
<1>5. t[n + 1] = Blank /\ t[n + 2] = Marker(v) /\ t[n + 3] = <<"path", v>> /\ t[n + 4] = <<"home", v>>
  <2> HIDE DEF n
  <2>1. /\ (n + 1) - n = 1 /\ (n + 2) - n = 2 /\ (n + 3) - n = 3 /\ (n + 4) - n = 4
        /\ \A k \in 1..4 : n + k \in 1..(n + 4) /\ ~(n + k <= n)
    BY <1>2
  <2>2. QED
    BY <1>1, <1>3, <2>1
<1> HIDE DEF n
<1>6. EndsInBlock(t, s, v, n)
  BY <1>1, <1>3, <1>4, <1>5 DEF EndsInBlock
<1>7. QED
  BY <1>6 DEF t, b, n

\* No marker of v, and then its block: one each.
LEMMA BlockAdds ==
    ASSUME NEW s \in Seq(RcLine), NEW v \in Versions
    PROVE  /\ s \o Block(v) \in Seq(RcLine)
           /\ OneEach(s) /\ ~HasLine(s, v) => OneEach(s \o Block(v))
           /\ \E j \in DOMAIN (s \o Block(v)) : (s \o Block(v))[j] = Marker(v)
<1> DEFINE t == s \o Block(v)
           n == Len(s)
<1>2. n \in Nat /\ DOMAIN s = 1..n
  BY LenProperties
<1>1. EndsInBlock(t, s, v, n)
  BY BlockAtEnd
<1> HIDE DEF t
<1>3. t \in Seq(RcLine)
  BY <1>1 DEF EndsInBlock
<1>4. DOMAIN t = 1..(n + 4) /\ \A i \in 1..n : i \in 1..(n + 4) /\ t[i] = s[i]
  BY <1>1 DEF EndsInBlock
<1>5. t[n + 1] = Blank /\ t[n + 2] = Marker(v) /\ t[n + 3] = <<"path", v>> /\ t[n + 4] = <<"home", v>>
  BY <1>1 DEF EndsInBlock
<1>6. \A i \in DOMAIN t : i \in DOMAIN s \/ i \in {n + 1, n + 2, n + 3, n + 4}
  BY <1>2, <1>4
<1>7. ASSUME NEW i \in DOMAIN t, i \notin DOMAIN s, t[i][1] = "marker" PROVE i = n + 2
  BY <1>5, <1>6, <1>7, RcLineShape
<1>8. ASSUME OneEach(s), ~HasLine(s, v),
             NEW i \in DOMAIN t, NEW j \in DOMAIN t, i # j, t[i][1] = "marker"
      PROVE  t[i] # t[j]
  <2> USE DEF HasLine
  <2>1. CASE i \in DOMAIN s /\ j \in DOMAIN s
    BY <1>2, <1>4, <1>8, <2>1 DEF OneEach
  <2>2. CASE i \in DOMAIN s /\ j \notin DOMAIN s
    <3>1. t[i] = s[i] /\ s[i] # Marker(v)
      BY <1>2, <1>4, <1>8, <2>2
    <3>2. t[j] = Marker(v) \/ t[j][1] # "marker"
      BY <1>5, <1>7, <2>2
    <3>3. QED
      BY <1>8, <3>1, <3>2
  <2>3. CASE i \notin DOMAIN s /\ j \in DOMAIN s
    <3>1. t[j] = s[j] /\ s[j] # Marker(v)
      BY <1>2, <1>4, <1>8, <2>3
    <3>2. t[i] = Marker(v)
      BY <1>5, <1>7, <1>8, <2>3
    <3>3. QED
      BY <3>1, <3>2
  <2>4. CASE i \notin DOMAIN s /\ j \notin DOMAIN s
    <3>1. i = n + 2 /\ t[i] = Marker(v)
      BY <1>5, <1>7, <1>8, <2>4
    <3>2. t[j][1] # "marker"
      BY <1>7, <1>8, <2>4, <3>1
    <3>3. QED
      BY <1>8, <3>2
  <2>5. QED
    BY <2>1, <2>2, <2>3, <2>4
<1>9. n + 2 \in DOMAIN t
  BY <1>2, <1>4
<1>10. QED
  BY <1>3, <1>5, <1>8, <1>9 DEF OneEach, t

\* What the loop has kept of a text without the marker is all that it has read.
KeptAll(s, text, i) == s.skip = 0 /\ Len(s.out) = i /\ \A j \in 1..i : s.out[j] = text[j]

\* The turns of the loop: in a block, outside of one, and where one begins.
LEMMA StripTurns ==
    ASSUME NEW s \in Stripped, NEW l, NEW v
    PROVE  /\ s.skip > 0 =>
                StripLine(s, l, v).out = s.out /\ StripLine(s, l, v).skip = s.skip - 1
           /\ s.skip = 0 /\ l # Marker(v) =>
                StripLine(s, l, v).out = Append(s.out, l) /\ StripLine(s, l, v).skip = 0
           /\ s.skip = 0 /\ l = Marker(v) /\ s.out # <<>> /\ Last(s.out) = Blank =>
                StripLine(s, l, v).out = Front(s.out) /\ StripLine(s, l, v).skip = 2
<1>1. CASE s.skip > 0
  <2>1. StripLine(s, l, v) = [s EXCEPT !.skip = s.skip - 1]
    BY <1>1, Zenon DEF StripLine
  <2>2. QED
    BY <1>1, <2>1 DEF Stripped
<1>2. CASE s.skip = 0
  <2>1. ~(s.skip > 0)
    BY <1>2
  <2>2. l # Marker(v) => StripLine(s, l, v) = [s EXCEPT !.out = Append(s.out, l)]
    BY <2>1, Zenon DEF StripLine
  <2>3. l = Marker(v) /\ s.out # <<>> /\ Last(s.out) = Blank =>
            StripLine(s, l, v) = [out |-> Front(s.out), skip |-> 2]
    BY <2>1, Zenon DEF StripLine, BlockLines
  <2>4. QED
    BY <1>2, <2>1, <2>2, <2>3 DEF Stripped
<1>3. QED
  BY <1>1, <1>2 DEF Stripped

LEMMA StripLineKeeps ==
    ASSUME NEW s \in Stripped, NEW text \in Seq(RcLine), NEW i \in Nat, KeptAll(s, text, i),
           NEW v \in Versions, text[i + 1] \in RcLine, text[i + 1] # Marker(v)
    PROVE  KeptAll(StripLine(s, text[i + 1], v), text, i + 1)
<1> DEFINE l == text[i + 1]
           new == Append(s.out, l)
<1>1. s.out \in Seq(RcLine) /\ s.skip = 0 /\ Len(s.out) = i
  BY DEF Stripped, KeptAll
<1>2. StripLine(s, l, v).out = new /\ StripLine(s, l, v).skip = 0
  BY <1>1, StripTurns
<1>3. Len(new) = i + 1 /\ new[i + 1] = l /\ \A j \in 1..i : new[j] = s.out[j]
  BY <1>1, AppendProperties
<1>4. \A j \in 1..(i + 1) : j \in 1..i \/ j = i + 1
  OBVIOUS
<1> HIDE DEF new
<1>5. \A j \in 1..(i + 1) : new[j] = text[j]
  BY <1>3, <1>4 DEF KeptAll
<1>6. QED
  BY <1>2, <1>3, <1>5 DEF KeptAll

\* uninstall undoes install: `remove_java_env' gives back, line by line, the rc
\* file that `write_java_env' found, without the blank line in front of the block.
THEOREM StripUndoesBlock ==
    ASSUME NEW v \in Versions, NEW text \in Seq(RcLine),
           \A i \in DOMAIN text : text[i] # Marker(v)
    PROVE  Strip(text \o Block(v), v) = text
<1> DEFINE n == Len(text)
           all == text \o Block(v)
<1>1. n \in Nat /\ DOMAIN text = 1..n /\ EndsInBlock(all, text, v, n)
  BY LenProperties, BlockAtEnd
<1> HIDE DEF all
<1>2. /\ all \in Seq(RcLine) /\ DOMAIN all = 1..(n + 4) /\ Len(all) = n + 4
      /\ \A i \in 1..n : i \in 1..(n + 4) /\ all[i] = text[i]
      /\ all[n + 1] = Blank /\ all[n + 2] = Marker(v)
  BY <1>1 DEF EndsInBlock
<1>3. PICK g : StripOf(all, v, g)
  BY <1>2, StripFolds
<1> DEFINE S == {i \in Nat : i \in 0..n => KeptAll(g[i], all, i)}
<1>4. 0 \in S
  <2>1. g[0].out = <<>> /\ g[0].skip = 0 /\ Len(<<>>) = 0 /\ 1..0 = {}
    BY <1>3 DEF StripOf
  <2>2. QED
    BY <2>1 DEF KeptAll
<1>5. ASSUME NEW i \in Nat, i \in S PROVE i + 1 \in S
  <2> SUFFICES ASSUME i + 1 \in 0..n PROVE KeptAll(g[i + 1], all, i + 1)
    OBVIOUS
  <2>1. /\ i \in 0..n /\ i + 1 \in 1..n /\ (i + 1) - 1 = i
        /\ i \in 0..(n + 4) /\ i + 1 \in 1..(n + 4)
    BY <1>1
  <2>2. g[i] \in Stripped /\ KeptAll(g[i], all, i) /\ g[i + 1] = StripLine(g[i], all[i + 1], v)
    BY <1>2, <1>3, <1>5, <2>1 DEF StripOf
  <2>3. all[i + 1] \in RcLine /\ all[i + 1] # Marker(v)
    BY <1>1, <1>2, <2>1
  <2>4. QED
    BY <1>2, <2>2, <2>3, StripLineKeeps
<1>6. Nat \subseteq S
  <2> HIDE DEF S
  <2> QED
    BY <1>4, <1>5, SetInduction
<1>7. /\ n \in 0..n /\ n \in 0..(n + 4)
  BY <1>1, <1>2
<1>8. g[n].out = text /\ g[n].skip = 0
  <2>1. KeptAll(g[n], all, n) /\ g[n] \in Stripped
    BY <1>1, <1>2, <1>3, <1>6, <1>7 DEF StripOf
  <2>2. g[n].out \in Seq(RcLine) /\ Len(g[n].out) = n /\ \A j \in 1..n : g[n].out[j] = text[j]
    BY <1>2, <2>1 DEF Stripped, KeptAll
  <2>3. QED
    BY <2>1, <2>2, SeqEqual DEF KeptAll
<1>9. \A i \in 1..Len(all), j \in 0..Len(all) :
            j = i - 1 => g[i] = StripLine(g[j], all[i], v) /\ g[j] \in Stripped
  BY <1>3 DEF StripOf
<1> HIDE DEF n, S
<1>10. /\ g[n + 1] = StripLine(g[n], Blank, v) /\ g[n + 2] = StripLine(g[n + 1], Marker(v), v)
       /\ \E l : g[n + 3] = StripLine(g[n + 2], l, v)
       /\ \E l : g[n + 4] = StripLine(g[n + 3], l, v)
       /\ g[n] \in Stripped /\ g[n + 1] \in Stripped /\ g[n + 2] \in Stripped /\ g[n + 3] \in Stripped
  <2>1. /\ n + 1 \in 1..Len(all) /\ n \in 0..Len(all) /\ n = (n + 1) - 1
        /\ n + 2 \in 1..Len(all) /\ n + 1 \in 0..Len(all) /\ n + 1 = (n + 2) - 1
        /\ n + 3 \in 1..Len(all) /\ n + 2 \in 0..Len(all) /\ n + 2 = (n + 3) - 1
        /\ n + 4 \in 1..Len(all) /\ n + 3 \in 0..Len(all) /\ n + 3 = (n + 4) - 1
    BY <1>1, <1>2
  <2>2. g[n + 1] = StripLine(g[n], all[n + 1], v) /\ g[n] \in Stripped
    BY <1>9, <2>1, Zenon
  <2>3. g[n + 2] = StripLine(g[n + 1], all[n + 2], v) /\ g[n + 1] \in Stripped
    BY <1>9, <2>1, Zenon
  <2>4. g[n + 3] = StripLine(g[n + 2], all[n + 3], v) /\ g[n + 2] \in Stripped
    BY <1>9, <2>1, Zenon
  <2>5. g[n + 4] = StripLine(g[n + 3], all[n + 4], v) /\ g[n + 3] \in Stripped
    BY <1>9, <2>1, Zenon
  <2>6. QED
    BY <1>2, <2>2, <2>3, <2>4, <2>5, Zenon
<1>11. g[n + 1].out = Append(text, Blank) /\ g[n + 1].skip = 0
  <2>1. Blank # Marker(v)
    BY RcLineShape
  <2>2. QED
    BY <1>8, <1>10, <2>1, StripTurns
<1>12. g[n + 2].out = text /\ g[n + 2].skip = 2
  <2> DEFINE out == Append(text, Blank)
  <2>1. out # <<>> /\ Last(out) = Blank /\ Front(out) = text
    BY RcLineShape, FrontOfAppend
  <2> HIDE DEF out
  <2>2. g[n + 1].out = out
    BY <1>11 DEF out
  <2>3. QED
    BY <1>10, <1>11, <2>1, <2>2, StripTurns
<1>13. g[n + 3].out = text /\ g[n + 3].skip = 1
  BY <1>10, <1>12, StripTurns
<1>14. g[n + 4].out = text
  BY <1>10, <1>13, StripTurns
<1>15. Strip(all, v) = g[n + 4].out
  BY <1>2, <1>3 DEF StripOf
<1>16. QED
  BY <1>14, <1>15 DEF all

LEMMA OneBlockIsOneEach == OneBlockEach <=> (rcWell => OneEach(rc))
BY DEF OneBlockEach, OneEach

LEMMA AppendBlockKeeps == JavaInv /\ AppendBlock => JavaInv'
<1> SUFFICES ASSUME JavaInv, AppendBlock PROVE JavaInv'
  OBVIOUS
<1>1. at = "append"
  BY DEF AppendBlock
<1>2. /\ req \in JavaRequest /\ mem = Nothing /\ group = "java" /\ req.version \in pkgs
      /\ req.cmd \in {"install", "reinstall"} /\ (rcWell => ~HasLine(rc, req.version))
  BY <1>1 DEF JavaInv, JavaAtStep
<1>3. req.version \in Versions /\ rc \in Seq(RcLine) /\ (rcWell => OneEach(rc))
  BY <1>2, OneBlockIsOneEach DEF JavaRequest, JavaInv, JavaTypeOK
<1>4. /\ Exit("ok") \/ Exit("exception")
      => /\ at' = "idle" /\ mem' = Nothing /\ group' = group /\ JavaAtStep'
         /\ \A s \in said' : s.req = req
  BY <1>2, JavaEndKeeps DEF Exit, Ends
<1>5. CASE /\ rc' = rc \o Block(req.version) /\ Exit("ok")
           /\ UNCHANGED <<pkgs, jvm, active, mayLink, rcWell>>
  <2>1. /\ rc' \in Seq(RcLine) /\ (rcWell => OneEach(rc'))
        /\ \E j \in DOMAIN rc' : rc'[j] = Marker(req.version)
    BY <1>2, <1>3, <1>5, BlockAdds
  <2>2. OneBlockEach'
    BY <1>5, <2>1 DEF OneBlockEach, OneEach
  <2>3. JavaTypeOK'
    BY <1>5, <2>1 DEF JavaInv, JavaTypeOK
  <2>4. \A s \in said' : s.req.version \in pkgs' /\ HasMarker(s.req.version)'
    BY <1>2, <1>4, <1>5, <2>1 DEF HasMarker
  <2>5. InstalledHasBlock'
    BY <2>4 DEF InstalledHasBlock, Ended
  <2>6. UninstallTakesItsBlock'
    BY <1>2, <1>4, <1>5 DEF UninstallTakesItsBlock, Ended
  <2>7. QED
    BY <1>4, <1>5, <2>2, <2>3, <2>5, <2>6 DEF JavaInv
<1>6. CASE Exit("exception") /\ RcFails
  <2>1. \A s \in said' : s.exit # "ok"
    BY <1>6 DEF Exit, Ends
  <2>2. QED
    BY <1>4, <1>6, <2>1, RcFailsKeeps
<1>7. QED
  BY <1>5, <1>6 DEF AppendBlock

LEMMA UnlinkKeeps == JavaInv /\ Unlink => JavaInv'
<1> SUFFICES ASSUME JavaInv, Unlink PROVE JavaInv'
  OBVIOUS
<1>1. /\ rc' = rc /\ pkgs' = pkgs /\ active' = active /\ mayLink' = mayLink /\ rcWell' = rcWell
      /\ at = "unlink"
      /\ at' = "uninstall" /\ mem' = mem /\ said' = {} /\ group' = group /\ req' = req
  BY DEF Unlink, Goto, Remember
<1>2. req \in JavaRequest /\ mem = Nothing /\ group = "java" /\ req.cmd = "uninstall"
  BY <1>1 DEF JavaInv, JavaAtStep
<1>3. OneBlockEach'
  BY <1>1 DEF JavaInv, OneBlockEach
<1>4. JavaTypeOK'
  BY <1>1 DEF JavaInv, JavaTypeOK, Unlink
<1>5. JavaAtStep'
  BY <1>1, <1>2 DEF JavaAtStep
<1>6. QED
  BY <1>1, <1>3, <1>4, <1>5, JavaSilence DEF JavaInv

LEMMA BrewUninstallKeeps == JavaInv /\ BrewUninstall => JavaInv'
<1> SUFFICES ASSUME JavaInv, BrewUninstall PROVE JavaInv'
  OBVIOUS
<1>1. rc' = rc /\ jvm' = jvm /\ mayLink' = mayLink /\ rcWell' = rcWell /\ at = "uninstall"
  BY DEF BrewUninstall
<1>2. req \in JavaRequest /\ mem = Nothing /\ group = "java" /\ req.cmd = "uninstall"
  BY <1>1 DEF JavaInv, JavaAtStep
<1>3. OneBlockEach'
  BY <1>1 DEF JavaInv, OneBlockEach
<1>4. JavaTypeOK'
  BY <1>1 DEF JavaInv, JavaTypeOK, BrewUninstall
<1>5. CASE Goto("read_rc") /\ pkgs' = pkgs \ {req.version}
  <2>1. at' = "read_rc" /\ mem' = mem /\ said' = {} /\ group' = group /\ req' = req
    BY <1>5 DEF Goto, Remember
  <2>2. JavaAtStep'
    BY <1>2, <1>5, <2>1 DEF JavaAtStep
  <2>3. QED
    BY <1>3, <1>4, <2>1, <2>2, JavaSilence DEF JavaInv
<1>6. CASE Exit("fail")
  <2>1. at' = "idle" /\ mem' = Nothing /\ group' = group /\ \A s \in said' : s.exit # "ok"
    BY <1>6 DEF Exit, Ends
  <2>2. JavaAtStep'
    BY <1>2, <2>1, JavaEndKeeps
  <2>3. QED
    BY <1>3, <1>4, <2>1, <2>2, JavaNoSuccess DEF JavaInv
<1>7. QED
  BY <1>5, <1>6 DEF BrewUninstall

\* The uninstall ends well although its access to the file has failed.
LEMMA UninstallFailsQuietly ==
    ASSUME JavaInv, at \in {"read_rc", "truncate_rc", "write_rc"}, Exit("ok"), RcFails
    PROVE  JavaInv'
<1>1. group = "java" /\ req.cmd = "uninstall" /\ req.version \notin pkgs
  BY DEF JavaInv, JavaAtStep
<1>2. /\ at' = "idle" /\ mem' = Nothing /\ group' = group
      /\ \A s \in said' : s.req = req
  BY DEF Exit, Ends
<1>3. JavaAtStep'
  BY <1>1, <1>2, JavaEndKeeps
<1>4. QED
  BY <1>1, <1>2, <1>3, RcFailsKeeps

LEMMA ReadRcKeeps == JavaInv /\ ReadRc => JavaInv'
<1> SUFFICES ASSUME JavaInv, ReadRc PROVE JavaInv'
  OBVIOUS
<1>1. at = "read_rc"
  BY DEF ReadRc
<1>2. /\ req \in JavaRequest /\ mem = Nothing /\ group = "java" /\ req.cmd = "uninstall"
      /\ req.version \notin pkgs
  BY <1>1 DEF JavaInv, JavaAtStep
<1>3. UNCHANGED java => OneBlockEach' /\ JavaTypeOK'
  BY DEF JavaInv, OneBlockEach, JavaTypeOK, java
<1>4. CASE UNCHANGED java /\ Remember("truncate_rc", rc)
  <2>1. at' = "truncate_rc" /\ mem' = rc /\ said' = {} /\ group' = group /\ req' = req
    BY <1>4 DEF Remember
  <2>2. mem' \in Seq(RcLine) /\ (rcWell' => OneEach(mem'))
    BY <1>4, <2>1, OneBlockIsOneEach DEF JavaInv, JavaTypeOK, java
  <2>3. JavaAtStep'
    BY <1>1, <1>2, <1>4, <2>1, <2>2 DEF JavaAtStep, java
  <2>4. QED
    BY <1>3, <1>4, <2>1, <2>3, JavaSilence DEF JavaInv
<1>5. CASE UNCHANGED java /\ ~HasMarker(req.version) /\ Exit("ok")
  <2>1. /\ at' = "idle" /\ mem' = Nothing /\ group' = group
        /\ \A s \in said' : s.req = req /\ s.mem = Nothing
    BY <1>2, <1>5 DEF Exit, Ends
  <2>2. JavaAtStep'
    BY <1>2, <2>1, JavaEndKeeps
  <2>3. rc' = rc /\ pkgs' = pkgs
    BY <1>5 DEF java
  <2>4. InstalledHasBlock'
    BY <1>2, <2>1 DEF InstalledHasBlock, Ended
  <2>5. \A s \in said' : s.req.version \notin pkgs' /\ ~HasLine(rc', s.req.version) /\ s.mem = Nothing
    BY <1>2, <1>5, <2>1, <2>3 DEF HasMarker, HasLine
  <2>6. UninstallTakesItsBlock'
    BY <2>5 DEF UninstallTakesItsBlock, Ended
  <2>7. QED
    BY <1>3, <1>5, <2>2, <2>4, <2>6 DEF JavaInv
<1>6. CASE Exit("ok") /\ RcFails
  BY <1>1, <1>6, UninstallFailsQuietly
<1>7. QED
  BY <1>4, <1>5, <1>6 DEF ReadRc

LEMMA TruncateRcKeeps == JavaInv /\ TruncateRc => JavaInv'
<1> SUFFICES ASSUME JavaInv, TruncateRc PROVE JavaInv'
  OBVIOUS
<1>1. at = "truncate_rc"
  BY DEF TruncateRc
<1>2. /\ req \in JavaRequest /\ group = "java" /\ req.cmd = "uninstall" /\ req.version \notin pkgs
      /\ mem \in Seq(RcLine) /\ (rcWell => OneEach(mem))
  BY <1>1 DEF JavaInv, JavaAtStep
<1>3. CASE /\ rc' = <<>> /\ Goto("write_rc")
           /\ UNCHANGED <<pkgs, jvm, active, mayLink, rcWell>>
  <2>1. at' = "write_rc" /\ mem' = mem /\ said' = {} /\ group' = group /\ req' = req
    BY <1>3 DEF Goto, Remember
  <2>2. OneBlockEach'
    BY <1>3 DEF OneBlockEach
  <2>3. JavaTypeOK'
    BY <1>3 DEF JavaInv, JavaTypeOK
  <2>4. JavaAtStep'
    BY <1>1, <1>2, <1>3, <2>1 DEF JavaAtStep
  <2>5. QED
    BY <2>1, <2>2, <2>3, <2>4, JavaSilence DEF JavaInv
<1>4. CASE Exit("ok") /\ RcFails
  BY <1>1, <1>4, UninstallFailsQuietly
<1>5. QED
  BY <1>3, <1>4 DEF TruncateRc

LEMMA WriteRcKeeps == JavaInv /\ WriteRc => JavaInv'
<1> SUFFICES ASSUME JavaInv, WriteRc PROVE JavaInv'
  OBVIOUS
<1>1. at = "write_rc"
  BY DEF WriteRc
<1>2. /\ req \in JavaRequest /\ group = "java" /\ req.cmd = "uninstall" /\ req.version \notin pkgs
      /\ mem \in Seq(RcLine) /\ (rcWell => OneEach(mem))
  BY <1>1 DEF JavaInv, JavaAtStep
<1>3. req.version \in Versions
  BY <1>2 DEF JavaRequest
<1> DEFINE v == req.version
           T == Strip(mem, v)
<1>4. CASE /\ rc' = T /\ Exit("ok")
           /\ UNCHANGED <<pkgs, jvm, active, mayLink, rcWell>>
  <2>1. /\ T \in Seq(RcLine) /\ (rcWell => OneEach(T)) /\ \A j \in DOMAIN T : T[j] # Marker(v)
        /\ WholeBlocks(mem, v) => Others(T, v) = Others(mem, v)
    BY <1>2, <1>3, StripKeeps
  <2>2. /\ at' = "idle" /\ mem' = Nothing /\ group' = group
        /\ \A s \in said' : s.req = req /\ s.mem = mem
    BY <1>4 DEF Exit, Ends
  <2>3. JavaAtStep'
    BY <1>2, <2>2, JavaEndKeeps
  <2>4. InstalledHasBlock'
    BY <1>2, <2>2 DEF InstalledHasBlock, Ended
  <2>5. rc' = T
    BY <1>4
  <2> HIDE DEF T
  <2>6. OneBlockEach'
    BY <1>4, <2>1, <2>5 DEF OneBlockEach, OneEach
  <2>7. JavaTypeOK'
    BY <1>4, <2>1, <2>5 DEF JavaInv, JavaTypeOK
  <2>8. ASSUME NEW s \in said'
        PROVE  /\ s.req.version \notin pkgs' /\ ~HasLine(rc', s.req.version)
               /\ WholeBlocks(s.mem, s.req.version)
                    => Others(rc', s.req.version) = Others(s.mem, s.req.version)
    <3>1. s.req.version = v /\ s.mem = mem
      BY <2>2
    <3>2. ~HasLine(rc', s.req.version)
      BY <2>1, <2>5, <3>1 DEF HasLine
    <3>3. WholeBlocks(s.mem, s.req.version)
            => Others(rc', s.req.version) = Others(s.mem, s.req.version)
      BY <2>1, <2>5, <3>1
    <3>4. QED
      BY <1>2, <1>4, <3>1, <3>2, <3>3
  <2>9. UninstallTakesItsBlock'
    BY <2>8 DEF UninstallTakesItsBlock, Ended
  <2>10. QED
    BY <2>3, <2>4, <2>6, <2>7, <2>9 DEF JavaInv
<1>5. CASE Exit("ok") /\ RcFails
  BY <1>1, <1>5, UninstallFailsQuietly
<1>6. QED
  BY <1>4, <1>5 DEF WriteRc

\* A line less, or one of the user's more: no marker that was not there.
LEMMA EditKeepsOneEach ==
    ASSUME NEW s \in Seq(RcLine)
    PROVE  /\ \A u \in OwnLines :
                /\ Append(s, Own(u)) \in Seq(RcLine)
                /\ OneEach(s) => OneEach(Append(s, Own(u)))
                /\ \A j \in DOMAIN Append(s, Own(u)), v \in Versions :
                    Append(s, Own(u))[j] = Marker(v) => \E k \in DOMAIN s : s[k] = Marker(v)
           /\ \A i \in DOMAIN s :
                /\ RemoveAt(s, i) \in Seq(RcLine)
                /\ OneEach(s) => OneEach(RemoveAt(s, i))
                /\ \A j \in DOMAIN RemoveAt(s, i) : \E k \in DOMAIN s : RemoveAt(s, i)[j] = s[k]
<1>1. ASSUME NEW u \in OwnLines
      PROVE  /\ Append(s, Own(u)) \in Seq(RcLine)
             /\ OneEach(s) => OneEach(Append(s, Own(u)))
             /\ \A j \in DOMAIN Append(s, Own(u)), v \in Versions :
                 Append(s, Own(u))[j] = Marker(v) => \E k \in DOMAIN s : s[k] = Marker(v)
  <2> DEFINE l == Own(u)
             t == Append(s, l)
  <2>1. l \in RcLine /\ l[1] = "own" /\ \A v \in Versions : Marker(v)[1] = "marker"
    BY RcLineShape
  <2> HIDE DEF l
  <2>2. OneEach(s) => OneEach(t)
    BY <2>1, OneEachAppend
  <2>3. /\ t \in Seq(RcLine) /\ DOMAIN t = 1..(Len(s) + 1) /\ DOMAIN s = 1..Len(s) /\ Len(s) \in Nat
        /\ t[Len(s) + 1] = l /\ \A k \in 1..Len(s) : t[k] = s[k]
    BY <2>1
  <2> HIDE DEF t
  <2>4. ASSUME NEW j \in DOMAIN t, NEW v \in Versions, t[j] = Marker(v)
        PROVE  \E k \in DOMAIN s : s[k] = Marker(v)
    <3>1. j # Len(s) + 1
      BY <2>1, <2>3, <2>4
    <3>2. j \in DOMAIN s
      BY <2>3, <3>1
    <3>3. QED
      BY <2>3, <2>4, <3>2
  <2>5. QED
    BY <2>2, <2>3, <2>4 DEF l, t
<1>2. ASSUME NEW i \in DOMAIN s
      PROVE  /\ RemoveAt(s, i) \in Seq(RcLine)
             /\ OneEach(s) => OneEach(RemoveAt(s, i))
             /\ \A j \in DOMAIN RemoveAt(s, i) : \E k \in DOMAIN s : RemoveAt(s, i)[j] = s[k]
  <2> DEFINE n == Len(s)
             a == SubSeq(s, 1, i - 1)
             b == SubSeq(s, i + 1, n)
             t == RemoveAt(s, i)
             At(j) == IF j < i THEN j ELSE j + 1
  <2>1. n \in Nat /\ i \in 1..n
    OBVIOUS
  <2>2. a \in Seq(RcLine) /\ Len(a) = i - 1 /\ \A j \in 1..(i - 1) : a[j] = s[j]
    <3>1. 1 \in Int /\ i - 1 \in Int /\ \A j \in 1..(i - 1) : s[j] \in RcLine
      BY <2>1
    <3>2. /\ a \in Seq(RcLine)
          /\ Len(a) = IF 1 <= i - 1 THEN (i - 1) - 1 + 1 ELSE 0
          /\ \A j \in 1..((i - 1) - 1 + 1) : a[j] = s[1 + j - 1]
      BY <3>1, SubSeqProperties
    <3>3. (1 <= i - 1 \/ i - 1 = 0) /\ (i - 1) - 1 + 1 = i - 1 /\ \A j \in 1..(i - 1) : 1 + j - 1 = j
      BY <2>1
    <3>4. QED
      BY <3>2, <3>3
  <2>3. b \in Seq(RcLine) /\ Len(b) = n - i /\ \A j \in 1..(n - i) : b[j] = s[j + i]
    <3>1. n \in Int /\ i + 1 \in Int /\ \A j \in (i + 1)..n : s[j] \in RcLine
      BY <2>1
    <3> HIDE DEF n
    <3>2. /\ b \in Seq(RcLine)
          /\ Len(b) = IF i + 1 <= n THEN n - (i + 1) + 1 ELSE 0
          /\ \A j \in 1..(n - (i + 1) + 1) : b[j] = s[(i + 1) + j - 1]
      BY <3>1, SubSeqProperties
    <3>3. /\ i + 1 <= n \/ n - i = 0
          /\ n - (i + 1) + 1 = n - i
          /\ \A j \in 1..(n - i) : (i + 1) + j - 1 = j + i
      BY <2>1
    <3>4. QED
      BY <3>2, <3>3
  <2>4. t = a \o b
    BY DEF RemoveAt
  <2> HIDE DEF a, b
  <2>5. /\ t \in Seq(RcLine) /\ Len(t) = Len(a) + Len(b)
        /\ \A j \in 1..(Len(a) + Len(b)) : t[j] = IF j <= Len(a) THEN a[j] ELSE b[j - Len(a)]
    <3> HIDE DEF t
    <3> QED
      BY <2>2, <2>3, <2>4, ConcatProperties, Zenon
  <2> HIDE DEF t, n
  <2>6. DOMAIN t = 1..(n - 1)
    <3>1. Len(a) + Len(b) = n - 1
      BY <2>1, <2>2, <2>3
    <3>2. QED
      BY <2>5, <3>1
  <2>7. ASSUME NEW j \in DOMAIN t PROVE At(j) \in DOMAIN s /\ t[j] = s[At(j)]
    <3>1. At(j) \in DOMAIN s
      BY <2>1, <2>6 DEF n
    <3>2. j \in 1..(Len(a) + Len(b))
      BY <2>5, <2>7
    <3>3. CASE j < i
      <4>1. j <= Len(a) /\ j \in 1..(i - 1)
        BY <2>1, <2>2, <2>6, <3>3
      <4>2. t[j] = s[j]
        BY <2>2, <2>5, <3>2, <4>1
      <4>3. QED
        BY <3>1, <3>3, <4>2
    <3>4. CASE ~(j < i)
      <4>1. ~(j <= Len(a)) /\ j - Len(a) = j - i + 1 /\ j - i + 1 \in 1..(n - i) /\ (j - i + 1) + i = j + 1
        BY <2>1, <2>2, <2>6, <3>4
      <4>2. t[j] = b[j - i + 1]
        BY <2>5, <3>2, <4>1
      <4>3. t[j] = s[j + 1]
        BY <2>3, <4>1, <4>2
      <4>4. QED
        BY <3>1, <3>4, <4>3
    <3>5. QED
      BY <3>3, <3>4
  <2>8. \A j, k \in DOMAIN t : j # k => At(j) # At(k)
    BY <2>1, <2>6
  <2> HIDE DEF At
  <2>9. OneEach(s) => OneEach(t)
    BY <2>7, <2>8 DEF OneEach
  <2>10. QED
    BY <2>5, <2>7, <2>9 DEF t
<1>3. QED
  BY <1>1, <1>2

LEMMA EditsRcKeeps == JavaInv /\ EditsRc => JavaInv'
<1> SUFFICES ASSUME JavaInv, EditsRc PROVE JavaInv'
  OBVIOUS
<1>1. /\ pkgs' = pkgs /\ jvm' = jvm /\ active' = active /\ mayLink' = mayLink /\ rcWell' = rcWell
      /\ said' = {} /\ at' = at /\ mem' = mem /\ req' = req /\ group' = group
  BY DEF EditsRc, Outside
<1>2. rc \in Seq(RcLine) /\ (rcWell => OneEach(rc))
  BY OneBlockIsOneEach DEF JavaInv, JavaTypeOK
<1>3. /\ rc' \in Seq(RcLine) /\ (rcWell => OneEach(rc'))
      /\ \A v \in Versions : HasLine(rc', v) => HasLine(rc, v)
  <2>1. CASE \E u \in OwnLines : rc' = Append(rc, Own(u))
    BY <1>2, <2>1, EditKeepsOneEach DEF HasLine
  <2>2. CASE \E i \in DOMAIN rc : rc' = RemoveAt(rc, i)
    BY <1>2, <2>2, EditKeepsOneEach DEF HasLine
  <2>3. QED
    BY <2>1, <2>2 DEF EditsRc
<1>4. OneBlockEach'
  BY <1>1, <1>3 DEF OneBlockEach, OneEach
<1>5. JavaTypeOK'
  BY <1>1, <1>3 DEF JavaInv, JavaTypeOK
<1>6. at = "append" /\ rcWell => ~HasLine(rc, req.version)'
  <2> SUFFICES ASSUME at = "append", rcWell PROVE ~HasLine(rc, req.version)'
    OBVIOUS
  <2>1. ~HasLine(rc, req.version) /\ req.version \in Versions
    BY DEF JavaInv, JavaAtStep, JavaRequest
  <2>2. QED
    BY <1>1, <1>3, <2>1
<1>7. JavaAtStep'
  BY <1>1, <1>6 DEF JavaInv, JavaAtStep
<1>8. QED
  BY <1>1, <1>4, <1>5, <1>7, JavaSilence DEF JavaInv

LEMMA JavaKillKeeps == JavaInv /\ JavaKill => JavaInv'
<1> SUFFICES ASSUME JavaInv, JavaKill PROVE JavaInv'
  OBVIOUS
<1>1. UNCHANGED java /\ group = "java"
  BY DEF JavaKill
<1>2. at' = "idle" /\ mem' = Nothing /\ said' = {} /\ group' = group
  BY DEF JavaKill, Killed, Ends
<1>3. OneBlockEach' /\ JavaTypeOK'
  BY <1>1 DEF JavaInv, OneBlockEach, JavaTypeOK, java
<1>4. JavaAtStep'
  BY <1>1, <1>2, JavaEndKeeps
<1>5. QED
  BY <1>2, <1>3, <1>4, JavaSilence DEF JavaInv

LEMMA JavaInductive == JavaInv /\ [JavaNext]_JavaVars => JavaInv'
<1> SUFFICES ASSUME JavaInv, [JavaNext]_JavaVars PROVE JavaInv'
  OBVIOUS
<1>1. CASE AskJava
  BY <1>1, JavaAskKeeps
<1>2. CASE JavaStep
  BY <1>2, BrewKeeps, LinkKeeps, CheckMarkerKeeps, AppendBlockKeeps, UnlinkKeeps,
     BrewUninstallKeeps, ReadRcKeeps, TruncateRcKeeps, WriteRcKeeps DEF JavaStep
<1>3. CASE JavaKill
  BY <1>3, JavaKillKeeps
<1>4. CASE EditsRc
  BY <1>4, EditsRcKeeps
<1>5. CASE UNCHANGED JavaVars
  BY <1>5 DEF JavaVars, proc, java, JavaInv, JavaTypeOK, JavaAtStep, HasLine, HasMarker, OneBlockEach,
     InstalledHasBlock, UninstallTakesItsBlock, Ended
<1>6. QED
  BY <1>1, <1>2, <1>3, <1>4, <1>5 DEF JavaNext

\* The induction, step by step (JavaManager and core/shell.py ShellConfigWriter).
THEOREM JavaInvariance == JavaSpec => []JavaInv
<1>1. JavaInit => JavaInv
  BY JavaInitially
<1>2. JavaInv /\ [JavaNext]_JavaVars => JavaInv'
  BY JavaInductive
<1>3. QED
  BY <1>1, <1>2, PTL DEF JavaSpec

-----------------------------------------------------------------------------
(***************************************************************************)
(* framework.                                                              *)
(***************************************************************************)
TreeCmd == {<<"files", "all">>, <<"dirs", "all">>}
SharedCmd(S) == {"chgrp", "ug+rwx"} \X S

ProjectRequest == [cmd : {"perms", "env", "cron_install", "console"}, dry : BOOLEAN]

FrameworkState ==
    /\ FrameworkTypeOK
    /\ hasGroup \in BOOLEAN
    /\ console \in BOOLEAN
    /\ outside \in Nat

\* A run is at a step of its command, and remembers the rest of the plan.
FrameworkAtStep ==
    /\ group = "framework"
    /\ at \in {"idle", "plan", "perms", "check_env", "open_env", "write_env", "add_entry", "console"}
    /\ at # "idle" => req \in ProjectRequest
    /\ at \in {"plan", "perms"} => req.cmd = "perms"
    /\ at \in {"check_env", "open_env", "write_env"} => req.cmd = "env"
    /\ at = "add_entry" => req.cmd = "cron_install"
    /\ at = "console" => req.cmd = "console"
    /\ at = "perms" =>
        mem \in [todo : Seq(TreeCmd \cup SharedCmd(Writable)), failed : BOOLEAN]

\* What the commands that are left do not see to has been seen to.
SharedLeft(todo) ==
    /\ todo \in Seq(SharedCmd(present))
    /\ fmode["src"] = "664"
    /\ \A p \in Part \ (Writable \ present) : dmode[p] = "775"
    /\ \A w \in present :
        /\ fmode[w] = "ug+rwx" \/ \E i \in DOMAIN todo : todo[i] = <<"ug+rwx", w>>
        /\ hasGroup => w \in webgrp \/ \E i \in DOMAIN todo : todo[i] = <<"chgrp", w>>

\* The plan has been followed up to here.
PlanFollowed ==
    (at = "perms" /\ calm /\ ~mem.failed) =>
        \/ mem.todo = PermsPlan
        \/ mem.todo = Tail(PermsPlan) /\ fmode["src"] = "664"
        \/ SharedLeft(mem.todo)

\* An undisturbed run opens .env where there was none, and writes into the
\* empty file it made.
EnvExpected ==
    /\ at = "open_env" /\ calm => env = NoEnv
    /\ at = "write_env" /\ calm => env = EmptyEnv

FrameworkInv ==
    /\ FrameworkState /\ FrameworkAtStep
    /\ PlanFollowed /\ EnvExpected
    /\ PermsHold

FlattensTo(seqs, f, A) ==
    /\ f \in [1..Len(seqs) -> Seq(A)]
    /\ f[1] = seqs[1]
    /\ \A i \in 2..Len(seqs) : f[i] = f[i - 1] \o seqs[i]

\* The recursive function of FlattenSeq exists.
LEMMA FlattenExists ==
    ASSUME NEW A, NEW seqs \in Seq(Seq(A)), Len(seqs) > 0
    PROVE  \E f : FlattensTo(seqs, f, A)
<1> DEFINE Runs(f, m) == /\ f \in [1..m -> Seq(A)]
                         /\ f[1] = seqs[1]
                         /\ \A i \in 2..m : f[i] = f[i - 1] \o seqs[i]
           S == {m \in Nat : m + 1 \in 1..Len(seqs) => \E f : Runs(f, m + 1)}
<1>1. 0 \in S
  <2>1. Runs([i \in 1..1 |-> seqs[1]], 1)
    OBVIOUS
  <2> HIDE DEF Runs
  <2>2. QED
    BY <2>1
<1>2. ASSUME NEW m \in Nat, m \in S PROVE m + 1 \in S
  <2> SUFFICES ASSUME m + 2 \in 1..Len(seqs) PROVE \E f : Runs(f, m + 2)
    <3>1. (m + 1) + 1 = m + 2
      OBVIOUS
    <3> HIDE DEF Runs
    <3>2. QED
      BY <3>1
  <2>1. PICK f : Runs(f, m + 1)
    <3>1. m + 1 \in 1..Len(seqs)
      OBVIOUS
    <3> HIDE DEF Runs
    <3>2. QED
      BY <1>2, <3>1
  <2> DEFINE g == [i \in 1..(m + 2) |-> IF i = m + 2 THEN f[m + 1] \o seqs[m + 2] ELSE f[i]]
  <2>2. g \in [1..(m + 2) -> Seq(A)]
    <3>1. f[m + 1] \o seqs[m + 2] \in Seq(A)
      BY <2>1
    <3>2. \A i \in 1..(m + 2) : i # m + 2 => f[i] \in Seq(A)
      BY <2>1
    <3>3. QED
      BY <3>1, <3>2, Zenon
  <2>3. g[1] = seqs[1]
    <3>1. 1 \in 1..(m + 2) /\ 1 # m + 2
      BY ONLY m \in Nat
    <3>2. g[1] = f[1]
      BY ONLY <3>1, Zenon
    <3> HIDE DEF g
    <3>3. f[1] = seqs[1]
      BY ONLY <2>1, SMTT(30)
    <3>4. QED
      BY <3>2, <3>3
  <2>4. ASSUME NEW i \in 2..(m + 2) PROVE g[i] = g[i - 1] \o seqs[i]
    <3>1. g[i - 1] = f[i - 1]
      <4>1. i - 1 \in 1..(m + 2) /\ i - 1 # m + 2
        OBVIOUS
      <4>2. QED
        BY <4>1, Zenon
    <3>2. CASE i = m + 2
      <4>1. i - 1 = m + 1
        BY <3>2
      <4>2. g[i] = f[m + 1] \o seqs[i]
        <5>1. m + 2 \in 1..(m + 2)
          OBVIOUS
        <5>2. g[m + 2] = f[m + 1] \o seqs[m + 2]
          BY <5>1
        <5> HIDE DEF g
        <5>3. QED
          BY <3>2, <5>2
      <4> HIDE DEF g
      <4>3. QED
        BY <3>1, <4>1, <4>2
    <3>3. CASE i # m + 2
      <4>1. i \in 2..(m + 1) /\ g[i] = f[i]
        BY <3>3
      <4> HIDE DEF g
      <4>2. QED
        BY <2>1, <3>1, <4>1
    <3>4. QED
      BY <3>2, <3>3
  <2> HIDE DEF g
  <2>5. QED
    BY <2>2, <2>3, <2>4
<1>3. Nat \subseteq S
  <2> HIDE DEF S
  <2> QED
    BY <1>1, <1>2, SetInduction
<1>4. Len(seqs) - 1 \in Nat
  OBVIOUS
<1>5. \E f : Runs(f, Len(seqs))
  <2>1. Len(seqs) - 1 \in S
    BY <1>3, <1>4
  <2>2. (Len(seqs) - 1) + 1 = Len(seqs) /\ Len(seqs) \in 1..Len(seqs)
    OBVIOUS
  <2> HIDE DEF Runs
  <2>3. QED
    BY <2>1, <2>2
<1>6. QED
  BY <1>5 DEF FlattensTo

LEMMA FlattenIs ==
    ASSUME NEW A, NEW seqs \in Seq(Seq(A)), Len(seqs) > 0
    PROVE  \E f : FlattensTo(seqs, f, A) /\ FlattenSeq(seqs) = f[Len(seqs)]
<1> DEFINE n == Len(seqs)
           Flat(f) == f = [i \in 1..n |-> IF i = 1 THEN seqs[i] ELSE f[i - 1] \o seqs[i]]
           c == CHOOSE f : Flat(f)
<1>1. PICK f : FlattensTo(seqs, f, A)
  BY FlattenExists
<1>2. Flat(f)
  <2>1. f = [i \in 1..n |-> f[i]]
    BY <1>1 DEF FlattensTo
  <2>2. ASSUME NEW i \in 1..n
        PROVE  f[i] = IF i = 1 THEN seqs[i] ELSE f[i - 1] \o seqs[i]
    <3>1. i # 1 => i \in 2..n
      OBVIOUS
    <3>2. QED
      BY <1>1, <3>1 DEF FlattensTo
  <2> DEFINE h == [i \in 1..n |-> IF i = 1 THEN seqs[i] ELSE f[i - 1] \o seqs[i]]
  <2>3. h = [i \in 1..n |-> f[i]]
    BY <2>2
  <2>4. QED
    BY <2>1, <2>3
<1>3. Flat(c)
  <2> HIDE DEF Flat
  <2> QED
    BY <1>2
<1>4. FlattenSeq(seqs) = c[n]
  BY DEF FlattenSeq
<1>5. ASSUME Len(seqs) = n PROVE FlattensTo(seqs, c, A)
  <2> HIDE DEF c
  <2> DEFINE S == {m \in Nat : m + 1 \in 1..n => c[m + 1] \in Seq(A) /\ c[m + 1] = f[m + 1]}
  <2>0. \A i \in 1..n : c[i] = IF i = 1 THEN seqs[i] ELSE c[i - 1] \o seqs[i]
    BY <1>3
  <2>1. 0 \in S
    BY <1>1, <2>0 DEF FlattensTo
  <2>2. ASSUME NEW m \in Nat, m \in S PROVE m + 1 \in S
    <3>1. CASE m + 2 \in 1..n
      <4>1. c[m + 1] = f[m + 1] /\ m + 1 \in 1..n
        BY <2>2, <3>1
      <4> DEFINE k == m + 2
      <4>2. k \in 2..n /\ k \in 1..n /\ k # 1 /\ k - 1 = m + 1 /\ (m + 1) + 1 = k
        BY <3>1
      <4> HIDE DEF k
      <4>3. c[k] = c[k - 1] \o seqs[k]
        BY <2>0, <4>2
      <4>4. f[k] = f[k - 1] \o seqs[k] /\ f[k] \in Seq(A)
        BY <1>1, <4>2 DEF FlattensTo
      <4>5. c[k] = f[k] /\ c[k] \in Seq(A)
        BY <4>1, <4>2, <4>3, <4>4
      <4>6. QED
        BY <4>2, <4>5
    <3>2. QED
      BY <3>1
  <2>3. Nat \subseteq S
    <3> HIDE DEF S
    <3> QED
      BY <2>1, <2>2, SetInduction
  <2>4. ASSUME NEW i \in 1..n PROVE c[i] = f[i]
    <3>1. i - 1 \in Nat /\ (i - 1) + 1 = i
      OBVIOUS
    <3>2. i - 1 \in S
      BY <2>3, <3>1
    <3>3. QED
      BY <3>1, <3>2
  <2>5. c = [i \in 1..n |-> c[i]]
    <3>1. DOMAIN c = 1..n
      BY <1>3
    <3>2. QED
      BY <1>3
  <2>6. c = f
    BY <1>1, <2>4, <2>5 DEF FlattensTo
  <2>7. QED
    BY <1>1, <2>6
<1>6. QED
  <2> HIDE DEF c
  <2> QED
    BY <1>4, <1>5

\* What is in one of the sequences is in them all put together.
LEMMA FlattenHas ==
    ASSUME NEW A, NEW seqs \in Seq(Seq(A)),
           NEW j \in DOMAIN seqs, NEW k \in DOMAIN seqs[j]
    PROVE  \E i \in DOMAIN FlattenSeq(seqs) : FlattenSeq(seqs)[i] = seqs[j][k]
<1>1. Len(seqs) > 0 /\ j \in 1..Len(seqs)
  OBVIOUS
<1>2. PICK f : FlattensTo(seqs, f, A) /\ FlattenSeq(seqs) = f[Len(seqs)]
  BY <1>1, FlattenIs
<1>a. \A i \in 1..Len(seqs) : seqs[i] \in Seq(A) /\ f[i] \in Seq(A)
  <2>1. \A i \in 1..Len(seqs) : seqs[i] \in Seq(A)
    OBVIOUS
  <2>2. f \in [1..Len(seqs) -> Seq(A)]
    BY <1>2 DEF FlattensTo
  <2>3. QED
    BY <2>1, <2>2
<1>b. f[1] = seqs[1] /\ \A i \in 2..Len(seqs) : f[i] = f[i - 1] \o seqs[i]
  BY <1>2 DEF FlattensTo
<1> DEFINE x == seqs[j][k]
           Has(s) == \E i \in DOMAIN s : s[i] = x
           S == {m \in Nat : j + m \in 1..Len(seqs) => Has(f[j + m])}
<1>3. ASSUME NEW s \in Seq(A), NEW t \in Seq(A), Has(s) \/ Has(t) PROVE Has(s \o t)
  <2>1. CASE Has(s)
    <3>1. PICK i \in DOMAIN s : s[i] = x
      BY <2>1
    <3>2. i \in DOMAIN (s \o t) /\ (s \o t)[i] = s[i]
      OBVIOUS
    <3>3. QED
      BY <3>1, <3>2
  <2>2. CASE Has(t)
    <3>1. PICK i \in DOMAIN t : t[i] = x
      BY <2>2
    <3>2. Len(s) + i \in DOMAIN (s \o t) /\ (s \o t)[Len(s) + i] = t[i]
      OBVIOUS
    <3>3. QED
      BY <3>1, <3>2
  <2>3. QED
    BY <1>3, <2>1, <2>2
<1>4. Has(seqs[j])
  OBVIOUS
<1> HIDE DEF Has, x
<1>5. 0 \in S
  <2>1. j = 1 => Has(f[j])
    BY <1>b, <1>4
  <2>2. ASSUME j # 1 PROVE Has(f[j])
    <3>0. j \in 2..Len(seqs) /\ j - 1 \in 1..Len(seqs)
      BY <1>1, <2>2
    <3>1. f[j] = f[j - 1] \o seqs[j] /\ f[j - 1] \in Seq(A) /\ seqs[j] \in Seq(A)
      BY <1>1, <1>a, <1>b, <3>0
    <3>2. QED
      BY <1>3, <1>4, <3>1
  <2>3. j + 0 = j
    OBVIOUS
  <2>4. QED
    BY <2>1, <2>2, <2>3
<1>6. ASSUME NEW m \in Nat, m \in S PROVE m + 1 \in S
  <2>1. CASE j + (m + 1) \in 1..Len(seqs)
    <3> DEFINE i == j + m
               m1 == j + (m + 1)
    <3>1. /\ i \in 1..Len(seqs) /\ m1 \in 2..Len(seqs)
          /\ m1 - 1 = i /\ m1 \in 1..Len(seqs)
      <4>1. j \in Nat /\ j >= 1
        BY <1>1
      <4>2. m1 \in Nat /\ m1 >= 2 /\ m1 <= Len(seqs) /\ i = m1 - 1
        <5>1. j + (m + 1) \in Nat /\ j + (m + 1) >= 2 /\ j + m = (j + (m + 1)) - 1
          BY ONLY <4>1, m \in Nat
        <5>2. j + (m + 1) <= Len(seqs)
          BY ONLY <2>1, <5>1, seqs \in Seq(Seq(A))
        <5>3. QED
          BY ONLY <5>1, <5>2
      <4> HIDE DEF i, m1
      <4>3. QED
        BY <4>2
    <3>2. Has(f[i])
      BY <1>6, <3>1
    <3> HIDE DEF i, m1
    <3>3. f[m1] = f[i] \o seqs[m1] /\ f[i] \in Seq(A) /\ seqs[m1] \in Seq(A)
      BY <1>a, <1>b, <3>1
    <3>4. Has(f[m1])
      BY <1>3, <3>2, <3>3
    <3>5. QED
      BY <3>4 DEF m1
  <2>2. QED
    BY <2>1
<1>7. Nat \subseteq S
  <2> HIDE DEF S
  <2> QED
    BY <1>5, <1>6, SetInduction
<1>8. Len(seqs) - j \in Nat /\ j + (Len(seqs) - j) = Len(seqs)
  BY <1>1
<1>9. Has(f[Len(seqs)])
  <2>1. Len(seqs) - j \in S
    BY <1>7, <1>8
  <2>2. QED
    BY <1>1, <1>8, <2>1
<1>10. QED
  BY <1>2, <1>9 DEF Has, x

LEMMA FlattenTyped ==
    ASSUME NEW A, NEW seqs \in Seq(Seq(A))
    PROVE  FlattenSeq(seqs) \in Seq(A)
<1>1. CASE Len(seqs) > 0
  <2>1. PICK f : FlattensTo(seqs, f, A) /\ FlattenSeq(seqs) = f[Len(seqs)]
    BY <1>1, FlattenIs
  <2>2. Len(seqs) \in 1..Len(seqs)
    BY <1>1
  <2>3. QED
    BY <2>1, <2>2 DEF FlattensTo
<1>2. CASE Len(seqs) = 0
  BY <1>2 DEF FlattenSeq
<1>3. QED
  BY <1>1, <1>2

\* What perms does after the tree, directory by directory.
LEMMA PlanShape ==
    ASSUME present \subseteq Writable, hasGroup \in BOOLEAN
    PROVE  \E F \in Seq(SharedCmd(present)) :
        /\ PermsPlan = TreeFirst(F)
        /\ \A w \in present :
            /\ \E i \in DOMAIN F : F[i] = <<"ug+rwx", w>>
            /\ hasGroup => \E i \in DOMAIN F : F[i] = <<"chgrp", w>>
<1> DEFINE A == SharedCmd(present)
           Shared(w) == (IF hasGroup THEN << <<"chgrp", w>> >> ELSE <<>>) \o << <<"ug+rwx", w>> >>
           seqs == [i \in DOMAIN WritableDirs |->
                IF WritableDirs[i] \in present THEN Shared(WritableDirs[i]) ELSE <<>>]
           F == FlattenSeq(seqs)
<1>1. PermsPlan = TreeFirst(F)
  BY DEF PermsPlan
<1>2. ASSUME NEW w \in present
      PROVE  /\ Shared(w) \in Seq(A)
             /\ \E k \in DOMAIN Shared(w) : Shared(w)[k] = <<"ug+rwx", w>>
             /\ hasGroup => \E k \in DOMAIN Shared(w) : Shared(w)[k] = <<"chgrp", w>>
  <2>1. <<"ug+rwx", w>> \in A /\ <<"chgrp", w>> \in A
    BY DEF SharedCmd
  <2>2. CASE hasGroup
    <3> DEFINE a == <<"chgrp", w>>
               b == <<"ug+rwx", w>>
    <3>1. Shared(w) = <<a>> \o <<b>>
      BY <2>2
    <3>2. a \in A /\ b \in A
      BY <2>1
    <3>3. b = <<"ug+rwx", w>> /\ a = <<"chgrp", w>>
      OBVIOUS
    <3> HIDE DEF Shared, A, a, b
    <3>4. <<a>> \in Seq(A) /\ <<b>> \in Seq(A) /\ Len(<<a>>) = 1 /\ Len(<<b>>) = 1
      BY <3>2
    <3>5. /\ Shared(w) \in Seq(A) /\ DOMAIN Shared(w) = 1..2
          /\ Shared(w)[1] = a /\ Shared(w)[2] = b
      BY <3>1, <3>4
    <3>6. 1 \in 1..2 /\ 2 \in 1..2
      OBVIOUS
    <3>7. QED
      BY <3>3, <3>5, <3>6
  <2>3. CASE ~hasGroup
    <3>1. Shared(w) = << <<"ug+rwx", w>> >>
      BY <2>3
    <3> HIDE DEF Shared, A
    <3>2. QED
      BY <2>1, <2>3, <3>1
  <2>4. QED
    BY <2>2, <2>3
<1> HIDE DEF Shared, A
<1>3. seqs \in Seq(Seq(A))
  <2>1. ASSUME NEW i \in DOMAIN WritableDirs PROVE seqs[i] \in Seq(A)
    <3>1. <<>> \in Seq(A)
      OBVIOUS
    <3>2. QED
      BY <1>2, <3>1
  <2>2. DOMAIN WritableDirs = 1..Len(WritableDirs) /\ Len(WritableDirs) \in Nat
    BY WritableDirsAssumption
  <2>3. QED
    BY <2>1, <2>2
<1>4. ASSUME NEW w \in present
      PROVE  \E i \in DOMAIN seqs : seqs[i] = Shared(w)
  BY DEF Writable, Range
<1> HIDE DEF seqs
<1>5. F \in Seq(A)
  BY <1>3, FlattenTyped
<1>6. ASSUME NEW w \in present, NEW x, \E k \in DOMAIN Shared(w) : Shared(w)[k] = x
      PROVE  \E i \in DOMAIN F : F[i] = x
  <2>1. PICK j \in DOMAIN seqs : seqs[j] = Shared(w)
    BY <1>4
  <2>2. PICK k \in DOMAIN Shared(w) : Shared(w)[k] = x
    BY <1>6
  <2>3. QED
    BY <1>3, <2>1, <2>2, FlattenHas
<1> HIDE DEF F
<1>7. \A w \in present :
        /\ \E i \in DOMAIN F : F[i] = <<"ug+rwx", w>>
        /\ hasGroup => \E i \in DOMAIN F : F[i] = <<"chgrp", w>>
  BY <1>2, <1>6
<1>8. QED
  BY <1>1, <1>5, <1>7 DEF A

LEMMA PlanTyped ==
    ASSUME present \subseteq Writable, hasGroup \in BOOLEAN
    PROVE  /\ PermsPlan \in Seq(TreeCmd \cup SharedCmd(Writable))
           /\ PermsPlan # <<>> /\ Head(PermsPlan) = <<"files", "all">>
           /\ Tail(PermsPlan) # <<>> /\ Head(Tail(PermsPlan)) = <<"dirs", "all">>
           /\ Tail(Tail(PermsPlan)) \in Seq(SharedCmd(present))
           /\ \A w \in present :
                /\ \E i \in DOMAIN Tail(Tail(PermsPlan)) : Tail(Tail(PermsPlan))[i] = <<"ug+rwx", w>>
                /\ hasGroup => \E i \in DOMAIN Tail(Tail(PermsPlan)) : Tail(Tail(PermsPlan))[i] = <<"chgrp", w>>
<1>1. PICK F \in Seq(SharedCmd(present)) :
        /\ PermsPlan = TreeFirst(F)
        /\ \A w \in present :
            /\ \E i \in DOMAIN F : F[i] = <<"ug+rwx", w>>
            /\ hasGroup => \E i \in DOMAIN F : F[i] = <<"chgrp", w>>
  BY PlanShape
<1> DEFINE C == TreeCmd \cup SharedCmd(Writable)
<1>2. SharedCmd(present) \subseteq C
  BY DEF SharedCmd
<1>3. F \in Seq(C) /\ <<"files", "all">> \in C /\ <<"dirs", "all">> \in C
  BY <1>2 DEF TreeCmd
<1> HIDE DEF C
<1>4. PermsPlan = << <<"files", "all">>, <<"dirs", "all">> >> \o F
  BY <1>1 DEF TreeFirst
<1>5. PermsPlan \in Seq(C)
  BY <1>3, <1>4
<1>6. PermsPlan # <<>> /\ Head(PermsPlan) = <<"files", "all">>
  BY <1>3, <1>4
<1>7. ASSUME NEW a \in C, NEW b \in C
      PROVE  /\ Tail(<<a, b>> \o F) = <<b>> \o F
             /\ <<b>> \o F # <<>>
             /\ Head(<<b>> \o F) = b
             /\ Tail(<<b>> \o F) = F
  BY <1>3
<1>8. Tail(PermsPlan) # <<>> /\ Head(Tail(PermsPlan)) = <<"dirs", "all">>
  BY <1>3, <1>4, <1>7
<1>9. Tail(Tail(PermsPlan)) = F
  BY <1>3, <1>4, <1>7
<1>10. QED
  BY <1>1, <1>5, <1>6, <1>8, <1>9 DEF C

USE FrameworkBoundsAssumption

LEMMA FrameworkSilence == said' = {} => PermsHold'
BY DEF PermsHold, Ended

\* Only a run of perms can say that modes hold.
LEMMA NotOfPerms == (\A s \in said' : s.req.cmd # "perms") => PermsHold'
BY DEF PermsHold, Ended

LEMMA SrcApart == "src" \notin Writable /\ "src" \in Part
<1>1. "src" \notin Writable
  BY WritableDirsAssumption DEF Writable, Range
<1>2. QED
  BY <1>1 DEF Part

LEMMA FrameworkInitially == FrameworkInit => FrameworkInv
<1> SUFFICES ASSUME FrameworkInit PROVE FrameworkInv
  OBVIOUS
<1>1. group = "framework" /\ at = "idle" /\ said = {} /\ outside = 0
  BY DEF FrameworkInit, CliInit
<1>2. FrameworkTypeOK
  <2>1. fmode \in [Part -> {"raw", "664", "ug+rwx"}] /\ dmode \in [Part -> {"raw", "775"}]
    BY DEF FrameworkInit, FrameworkStart
  <2>2. present \subseteq Writable /\ webgrp \subseteq Writable
    BY <1>1 DEF FrameworkInit, FrameworkStart
  <2>3. kind \in {"laravel", "django", "symfony"}
    BY <1>1 DEF FrameworkInit, FrameworkStart
  <2>4. env = NoEnv /\ secrets = 0
    BY DEF FrameworkInit, FrameworkStart
  <2>5. QED
    BY <2>1, <2>2, <2>3, <2>4 DEF FrameworkTypeOK
<1>3. hasGroup \in BOOLEAN /\ console \in BOOLEAN
  BY <1>1 DEF FrameworkInit, FrameworkStart
<1>4. FrameworkState
  BY <1>1, <1>2, <1>3 DEF FrameworkState
<1>5. FrameworkAtStep /\ PlanFollowed /\ EnvExpected
  BY <1>1 DEF FrameworkAtStep, PlanFollowed, EnvExpected
<1>6. PermsHold
  BY <1>1 DEF PermsHold, Ended
<1>7. QED
  BY <1>4, <1>5, <1>6 DEF FrameworkInv

\* A run that starts or is refused.
LEMMA FrameworkAskKeeps ==
    FrameworkInv /\ (AskLaravel \/ AskDjango \/ AskSymfony) => FrameworkInv'
<1> SUFFICES ASSUME FrameworkInv, AskLaravel \/ AskDjango \/ AskSymfony PROVE FrameworkInv'
  OBVIOUS
<1>1. UNCHANGED <<project, entries>>
  BY DEF AskLaravel, AskDjango, AskSymfony, AskAny, AskChange, PassThrough
<1>2. /\ at = "idle" /\ said' = {} /\ UNCHANGED <<group, mem, outside>>
      /\ \/ at' = "idle"
         \/ at' = "plan" /\ req' \in ProjectRequest /\ req'.cmd = "perms"
         \/ at' = "check_env" /\ req' \in ProjectRequest /\ req'.cmd = "env"
         \/ at' = "add_entry" /\ req' \in ProjectRequest /\ req'.cmd = "cron_install"
         \/ at' = "console" /\ req' \in ProjectRequest /\ req'.cmd = "console"
  <2>1. \E r \in ProjectRequest, l \in {"plan", "check_env", "add_entry", "console"} :
        /\ Starts("framework", r, l) \/ Refused("framework", r)
        /\ l = "plan" => r.cmd = "perms"
        /\ l = "check_env" => r.cmd = "env"
        /\ l = "add_entry" => r.cmd = "cron_install"
        /\ l = "console" => r.cmd = "console"
    <3>1. ASSUME NEW c \in {"perms", "env", "cron_install", "console"}, NEW d \in BOOLEAN
          PROVE  [cmd |-> c, dry |-> d] \in ProjectRequest /\ [cmd |-> c, dry |-> d].cmd = c
      BY DEF ProjectRequest
    <3>2. CASE AskChange({"perms"}, "plan")
      BY <3>1, <3>2 DEF AskChange, Ask
    <3>3. CASE AskChange({"env"}, "check_env")
      BY <3>1, <3>3 DEF AskChange, Ask
    <3>4. CASE AskChange({"cron_install"}, "add_entry")
      BY <3>1, <3>4 DEF AskChange, Ask
    <3>5. CASE PassThrough
      BY <3>1, <3>5 DEF PassThrough
    <3>6. QED
      BY <3>2, <3>3, <3>4, <3>5 DEF AskLaravel, AskDjango, AskSymfony, AskAny
  <2>2. QED
    BY <2>1 DEF Starts, Refused, Idle
<1>3. FrameworkState'
  BY <1>1, <1>2 DEF FrameworkInv, FrameworkState, FrameworkTypeOK, project
<1>4. FrameworkAtStep'
  BY <1>2 DEF FrameworkInv, FrameworkAtStep
<1>5. PlanFollowed' /\ EnvExpected'
  BY <1>2 DEF PlanFollowed, EnvExpected
<1>6. QED
  BY <1>2, <1>3, <1>4, <1>5, FrameworkSilence DEF FrameworkInv

\* A run that ends, and changes at most .env and the crontab.
LEMMA FrameworkEnds ==
    ASSUME FrameworkInv, at' = "idle", UNCHANGED <<group, outside>>,
           UNCHANGED <<kind, hasGroup, present, fmode, dmode, webgrp, console>>,
           env' \in {NoEnv, EmptyEnv, UserEnv} \cup {SecretEnv(n) : n \in 1..MaxSecrets},
           secrets' \in 0..MaxSecrets,
           PermsHold'
    PROVE  FrameworkInv'
<1>1. FrameworkState'
  BY DEF FrameworkInv, FrameworkState, FrameworkTypeOK
<1>2. FrameworkAtStep' /\ PlanFollowed' /\ EnvExpected'
  BY DEF FrameworkInv, FrameworkAtStep, PlanFollowed, EnvExpected
<1>3. QED
  BY <1>1, <1>2 DEF FrameworkInv

LEMMA PlanKeeps == FrameworkInv /\ Plan => FrameworkInv'
<1> SUFFICES ASSUME FrameworkInv, Plan PROVE FrameworkInv'
  OBVIOUS
<1>0. UNCHANGED <<group, outside, project>>
  BY DEF Plan, Exit, Ends, Remember
<1>1. CASE Exit("ok")
  <2>1. at' = "idle" /\ said' = {[req |-> req, exit |-> "ok", calm |-> calm, mem |-> mem]}
    BY <1>1 DEF Exit, Ends
  <2>2. req.dry
    BY <1>1, <2>1 DEF Plan, Remember
  <2>3. PermsHold'
    BY <2>1, <2>2 DEF PermsHold, Ended
  <2>4. QED
    BY <1>0, <2>1, <2>3, FrameworkEnds DEF project, FrameworkInv, FrameworkState, FrameworkTypeOK
<1>2. CASE Remember("perms", [todo |-> PermsPlan, failed |-> FALSE])
  <2>1. /\ at = "plan" /\ at' = "perms" /\ mem' = [todo |-> PermsPlan, failed |-> FALSE]
        /\ said' = {} /\ req' = req
    BY <1>2 DEF Plan, Remember
  <2>2. FrameworkState'
    BY <1>0 DEF FrameworkInv, FrameworkState, FrameworkTypeOK, project
  <2>3. PermsPlan \in Seq(TreeCmd \cup SharedCmd(Writable))
    BY PlanTyped DEF FrameworkInv, FrameworkState, FrameworkTypeOK
  <2>4. FrameworkAtStep'
    BY <1>0, <2>1, <2>3 DEF FrameworkInv, FrameworkAtStep
  <2>5. PermsPlan' = PermsPlan
    BY <1>0 DEF PermsPlan, project
  <2>6. PlanFollowed' /\ EnvExpected'
    BY <2>1, <2>5 DEF PlanFollowed, EnvExpected
  <2>7. QED
    BY <2>1, <2>2, <2>4, <2>6, FrameworkSilence DEF FrameworkInv
<1>3. QED
  BY <1>1, <1>2 DEF Plan

\* A command of the plan that is done.
LEMMA AppliesKeeps ==
    ASSUME FrameworkInv, at = "perms", mem.todo # <<>>,
           Applies(Head(mem.todo)), Remember("perms", [mem EXCEPT !.todo = Tail(@)]),
           UNCHANGED <<kind, hasGroup, present, console, env, secrets, entries>>
    PROVE  FrameworkInv'
<1> DEFINE C == TreeCmd \cup SharedCmd(Writable)
           c == Head(mem.todo)
<1>1. /\ mem \in [todo : Seq(C), failed : BOOLEAN]
      /\ FrameworkState /\ FrameworkAtStep /\ PlanFollowed
      /\ present \subseteq Writable /\ hasGroup \in BOOLEAN
  BY DEF FrameworkInv, FrameworkAtStep, FrameworkState, FrameworkTypeOK
<1>2. /\ at' = "perms" /\ said' = {} /\ UNCHANGED <<group, req, outside, calm>>
      /\ mem' = [mem EXCEPT !.todo = Tail(mem.todo)]
  BY DEF Remember
<1>3. c \in C /\ Tail(mem.todo) \in Seq(C)
  BY <1>1
<1>4. mem' \in [todo : Seq(C), failed : BOOLEAN] /\ mem'.todo = Tail(mem.todo) /\ mem'.failed = mem.failed
  <2> HIDE DEF C
  <2> QED
    BY <1>1, <1>2, <1>3
<1>5. c[1] = "chgrp" => c[2] \in Writable
  BY <1>3 DEF TreeCmd, SharedCmd
<1> HIDE DEF C
<1>6. FrameworkState'
  <2>1. fmode' \in [Part -> {"raw", "664", "ug+rwx"}] /\ dmode' \in [Part -> {"raw", "775"}]
    BY <1>1 DEF Applies, FrameworkState, FrameworkTypeOK
  <2>2. webgrp' \subseteq Writable
    BY <1>1, <1>5 DEF Applies, FrameworkState, FrameworkTypeOK
  <2>3. outside' \in Nat
    BY <1>1, <1>2 DEF FrameworkState
  <2>4. QED
    BY <1>1, <2>1, <2>2, <2>3 DEF FrameworkState, FrameworkTypeOK
<1>7. FrameworkAtStep'
  BY <1>1, <1>2, <1>4 DEF FrameworkAtStep, C
<1>8. PermsPlan' = PermsPlan
  BY DEF PermsPlan
<1>9. PlanFollowed'
  <2> SUFFICES ASSUME calm, ~mem.failed
               PROVE  \/ mem'.todo = PermsPlan'
                      \/ mem'.todo = Tail(PermsPlan') /\ fmode'["src"] = "664"
                      \/ SharedLeft(mem.todo)'
    BY <1>2, <1>4 DEF PlanFollowed
  <2>1. CASE mem.todo = PermsPlan
    <3>1. c = <<"files", "all">>
      BY <1>1, <2>1, PlanTyped
    <3>2. fmode'["src"] = "664"
      BY <3>1, SrcApart DEF Applies
    <3>3. QED
      BY <1>4, <1>8, <2>1, <3>2
  <2>2. CASE mem.todo = Tail(PermsPlan) /\ fmode["src"] = "664"
    <3>1. c = <<"dirs", "all">>
      BY <1>1, <2>2, PlanTyped
    <3>2. dmode' = [p \in Part |-> "775"] /\ fmode'["src"] = "664"
      <4>1. c[1] = "dirs" /\ c # <<"ug+rwx", "src">>
        BY <3>1
      <4>2. QED
        BY <2>2, <4>1, SrcApart DEF Applies
    <3>3. mem'.todo = Tail(Tail(PermsPlan))
      BY <1>4, <2>2
    <3>4. SharedLeft(mem.todo)'
      <4> DEFINE T == Tail(Tail(PermsPlan))
      <4>1. /\ T \in Seq(SharedCmd(present))
            /\ \A w \in present :
                /\ \E i \in DOMAIN T : T[i] = <<"ug+rwx", w>>
                /\ hasGroup => \E i \in DOMAIN T : T[i] = <<"chgrp", w>>
        BY <1>1, PlanTyped
      <4>2. mem'.todo = T
        BY <3>3
      <4> HIDE DEF T
      <4>3. QED
        BY <3>2, <4>1, <4>2 DEF SharedLeft
    <3>5. QED
      BY <3>4
  <2>3. CASE SharedLeft(mem.todo)
    <3>1. /\ c \in SharedCmd(present) /\ mem.todo \in Seq(SharedCmd(present))
          /\ Tail(mem.todo) \in Seq(SharedCmd(present))
      BY <2>3 DEF SharedLeft
    <3>2. c[1] \in {"chgrp", "ug+rwx"} /\ c[2] \in present /\ c = <<c[1], c[2]>>
      BY <3>1 DEF SharedCmd
    <3>3. dmode' = dmode
      BY <3>2 DEF Applies
    <3>4. fmode'["src"] = "664"
      <4>1. c[2] # "src"
        BY <1>1, <3>2, SrcApart
      <4>2. c # <<"ug+rwx", "src">> /\ c[1] # "files"
        BY <3>2, <4>1
      <4>3. QED
        BY <2>3, <4>2, SrcApart DEF Applies, SharedLeft
    <3>5. ASSUME NEW x \in SharedCmd(present), NEW i \in DOMAIN mem.todo, mem.todo[i] = x
          PROVE  c = x \/ \E j \in DOMAIN Tail(mem.todo) : Tail(mem.todo)[j] = x
      <4>1. CASE i = 1
        BY <3>1, <3>5, <4>1
      <4>2. CASE i # 1
        <5>1. i - 1 \in DOMAIN Tail(mem.todo) /\ Tail(mem.todo)[i - 1] = mem.todo[i]
          BY <3>1, <4>2
        <5>2. QED
          BY <3>5, <5>1
      <4>3. QED
        BY <4>1, <4>2
    <3>6. ASSUME NEW w \in present
          PROVE  /\ fmode'[w] = "ug+rwx" \/ \E i \in DOMAIN mem'.todo : mem'.todo[i] = <<"ug+rwx", w>>
                 /\ hasGroup => w \in webgrp' \/ \E i \in DOMAIN mem'.todo : mem'.todo[i] = <<"chgrp", w>>
      <4>1. <<"ug+rwx", w>> \in SharedCmd(present) /\ <<"chgrp", w>> \in SharedCmd(present)
        BY DEF SharedCmd
      <4>2. w \in Part
        BY <1>1 DEF Part
      <4>3. /\ c = <<"ug+rwx", w>> => fmode'[w] = "ug+rwx"
            /\ fmode[w] = "ug+rwx" => fmode'[w] = "ug+rwx"
        BY <3>2, <4>2 DEF Applies
      <4>4. /\ c = <<"chgrp", w>> => w \in webgrp'
            /\ w \in webgrp => w \in webgrp'
        BY DEF Applies
      <4> DEFINE a == <<"ug+rwx", w>>
                 b == <<"chgrp", w>>
      <4>a. /\ fmode[w] = "ug+rwx" \/ \E i \in DOMAIN mem.todo : mem.todo[i] = a
            /\ hasGroup => w \in webgrp \/ \E i \in DOMAIN mem.todo : mem.todo[i] = b
        BY <2>3 DEF SharedLeft
      <4>b. /\ c = a => fmode'[w] = "ug+rwx"
            /\ c = b => w \in webgrp'
            /\ a \in SharedCmd(present) /\ b \in SharedCmd(present)
        BY <4>1, <4>3, <4>4
      <4> HIDE DEF a, b, c
      <4>5. fmode'[w] = "ug+rwx" \/ \E i \in DOMAIN mem'.todo : mem'.todo[i] = a
        BY <1>4, <3>5, <4>a, <4>b, <4>3
      <4>6. hasGroup => w \in webgrp' \/ \E i \in DOMAIN mem'.todo : mem'.todo[i] = b
        BY <1>4, <3>5, <4>a, <4>b, <4>4
      <4>7. QED
        BY <4>5, <4>6 DEF a, b
    <3>7. SharedLeft(mem.todo)'
      <4>1. mem'.todo \in Seq(SharedCmd(present))
        BY <1>4, <3>1
      <4>2. \A p \in Part \ (Writable \ present) : dmode'[p] = "775"
        BY <2>3, <3>3 DEF SharedLeft
      <4>3. QED
        BY <3>4, <3>6, <4>1, <4>2 DEF SharedLeft
    <3>8. QED
      BY <3>7
  <2>4. QED
    BY <1>1, <2>1, <2>2, <2>3 DEF PlanFollowed
<1>10. EnvExpected'
  BY <1>2 DEF EnvExpected
<1>11. QED
  BY <1>2, <1>6, <1>7, <1>9, <1>10, FrameworkSilence DEF FrameworkInv

\* A command of the plan that fails.
LEMMA FailsKeeps ==
    ASSUME FrameworkInv, at = "perms", mem.todo # <<>>,
           Remember("perms", [todo |-> Tail(mem.todo), failed |-> TRUE]),
           UNCHANGED <<project, entries>>
    PROVE  FrameworkInv'
<1> DEFINE C == TreeCmd \cup SharedCmd(Writable)
<1>1. mem.todo \in Seq(C)
  BY DEF FrameworkInv, FrameworkAtStep
<1> HIDE DEF C
<1>2. [todo |-> Tail(mem.todo), failed |-> TRUE] \in [todo : Seq(C), failed : BOOLEAN]
  BY <1>1
<1>3. /\ at' = "perms" /\ said' = {} /\ UNCHANGED <<group, req, outside, calm>>
      /\ mem' \in [todo : Seq(C), failed : BOOLEAN] /\ mem'.failed
  BY <1>2 DEF Remember
<1>4. FrameworkState'
  BY <1>3 DEF FrameworkInv, FrameworkState, FrameworkTypeOK, project
<1>5. FrameworkAtStep'
  BY <1>3 DEF FrameworkInv, FrameworkAtStep, C
<1>6. PlanFollowed' /\ EnvExpected'
  BY <1>3 DEF PlanFollowed, EnvExpected
<1>7. QED
  BY <1>3, <1>4, <1>5, <1>6, FrameworkSilence DEF FrameworkInv

LEMMA RunPlanKeeps == FrameworkInv /\ RunPlan => FrameworkInv'
<1> SUFFICES ASSUME FrameworkInv, RunPlan PROVE FrameworkInv'
  OBVIOUS
<1>1. CASE mem.todo = <<>>
  <2>1. /\ Exit(IF mem.failed THEN "fail" ELSE "ok") /\ at = "perms"
        /\ UNCHANGED <<project, entries>>
    BY <1>1 DEF RunPlan, project
  <2>2. /\ at' = "idle" /\ UNCHANGED <<group, outside>>
        /\ said' = {[req |-> req, exit |-> IF mem.failed THEN "fail" ELSE "ok",
                     calm |-> calm, mem |-> mem]}
    BY <2>1 DEF Exit, Ends
  <2>3. present \subseteq Writable /\ hasGroup \in BOOLEAN
    BY DEF FrameworkInv, FrameworkState, FrameworkTypeOK
  <2>4. calm /\ ~mem.failed => SharedLeft(<<>>)
    BY <1>1, <2>1, <2>3, PlanTyped DEF FrameworkInv, PlanFollowed
  <2>5. PermsHold'
    <3>1. CASE calm /\ ~mem.failed
      BY <2>1, <2>4, <3>1 DEF PermsHold, SharedLeft, project
    <3>2. CASE ~(calm /\ ~mem.failed)
      BY <2>2, <3>2 DEF PermsHold, Ended
    <3>3. QED
      BY <3>1, <3>2
  <2>6. QED
    BY <2>1, <2>2, <2>5, FrameworkEnds DEF project, FrameworkInv, FrameworkState, FrameworkTypeOK
<1>2. CASE mem.todo # <<>> /\ Applies(Head(mem.todo)) /\ Remember("perms", [mem EXCEPT !.todo = Tail(@)])
  BY <1>2, AppliesKeeps DEF RunPlan
<1>3. CASE /\ mem.todo # <<>>
           /\ Remember("perms", [todo |-> Tail(mem.todo), failed |-> TRUE])
           /\ UNCHANGED <<fmode, dmode, webgrp>>
  BY <1>3, FailsKeeps DEF RunPlan, project
<1>4. QED
  BY <1>1, <1>2, <1>3 DEF RunPlan

LEMMA EnvTyped ==
    FrameworkInv => /\ env \in {NoEnv, EmptyEnv, UserEnv} \cup {SecretEnv(n) : n \in 1..MaxSecrets}
                    /\ secrets \in 0..MaxSecrets
BY DEF FrameworkInv, FrameworkState, FrameworkTypeOK

\* The end of a run that did not ask for perms, or of one that is killed.
LEMMA OtherEnds ==
    ASSUME FrameworkInv, NEW s, Ends(s), \A x \in s : x.req.cmd # "perms",
           UNCHANGED <<kind, hasGroup, present, fmode, dmode, webgrp, console>>,
           env' \in {NoEnv, EmptyEnv, UserEnv} \cup {SecretEnv(n) : n \in 1..MaxSecrets},
           secrets' \in 0..MaxSecrets
    PROVE  FrameworkInv'
<1>1. at' = "idle" /\ said' = s /\ UNCHANGED <<group, outside>>
  BY DEF Ends
<1>2. PermsHold'
  BY <1>1, NotOfPerms
<1>3. QED
  BY <1>1, <1>2, FrameworkEnds

LEMMA OtherExits ==
    ASSUME FrameworkInv, NEW code, Exit(code), req.cmd # "perms",
           UNCHANGED <<kind, hasGroup, present, fmode, dmode, webgrp, console>>,
           env' \in {NoEnv, EmptyEnv, UserEnv} \cup {SecretEnv(n) : n \in 1..MaxSecrets},
           secrets' \in 0..MaxSecrets
    PROVE  FrameworkInv'
<1> DEFINE s == {[req |-> req, exit |-> code, calm |-> calm, mem |-> mem]}
<1>1. Ends(s) /\ \A x \in s : x.req.cmd # "perms"
  BY DEF Exit
<1> HIDE DEF s
<1>2. QED
  BY <1>1, OtherEnds

\* A step of env-init that leads to another.
LEMMA EnvGoes ==
    ASSUME FrameworkInv, NEW l \in {"open_env", "write_env"}, Goto(l), req.cmd = "env",
           at \in {"check_env", "open_env"},
           UNCHANGED <<kind, hasGroup, present, fmode, dmode, webgrp, console, secrets>>,
           env' \in {NoEnv, EmptyEnv, UserEnv} \cup {SecretEnv(n) : n \in 1..MaxSecrets},
           l = "open_env" => env' = NoEnv,
           l = "write_env" => env' = EmptyEnv
    PROVE  FrameworkInv'
<1>1. at' = l /\ said' = {} /\ UNCHANGED <<group, req, outside, calm>>
  BY DEF Goto, Remember
<1>2. FrameworkState'
  BY <1>1 DEF FrameworkInv, FrameworkState, FrameworkTypeOK
<1>3. FrameworkAtStep'
  BY <1>1 DEF FrameworkInv, FrameworkAtStep
<1>4. PlanFollowed' /\ EnvExpected'
  BY <1>1 DEF PlanFollowed, EnvExpected
<1>5. QED
  BY <1>1, <1>2, <1>3, <1>4, FrameworkSilence DEF FrameworkInv

LEMMA EnvStepKeeps == FrameworkInv /\ (CheckEnv \/ OpenEnv \/ WriteEnv) => FrameworkInv'
<1> SUFFICES ASSUME FrameworkInv, CheckEnv \/ OpenEnv \/ WriteEnv PROVE FrameworkInv'
  OBVIOUS
<1>1. req.cmd = "env"
  BY DEF FrameworkInv, FrameworkAtStep, CheckEnv, OpenEnv, WriteEnv
<1>2. CASE CheckEnv
  <2>1. UNCHANGED <<project, entries>> /\ at = "check_env"
    BY <1>2 DEF CheckEnv
  <2>2. CASE Goto("open_env")
    <3>1. env = NoEnv
      <4>1. ~Exit("fail") /\ ~Exit("ok")
        BY <2>2 DEF Goto, Remember, Exit, Ends
      <4>2. QED
        BY <1>2, <4>1 DEF CheckEnv, EnvThere
    <3>2. QED
      BY <1>1, <2>1, <2>2, <3>1, EnvTyped, EnvGoes DEF project
  <2>3. CASE Exit("fail") \/ Exit("ok")
    BY <1>1, <2>1, <2>3, EnvTyped, OtherExits DEF project
  <2>4. QED
    BY <1>2, <2>2, <2>3 DEF CheckEnv
<1>3. CASE OpenEnv
  <2>1. CASE env' = EmptyEnv /\ Goto("write_env")
    BY <1>1, <1>3, <2>1, EnvGoes DEF OpenEnv
  <2>2. CASE Exit("fail") /\ UNCHANGED env
    BY <1>1, <1>3, <2>2, EnvTyped, OtherExits DEF OpenEnv
  <2>3. QED
    BY <1>3, <2>1, <2>2 DEF OpenEnv
<1>4. CASE WriteEnv
  <2>1. CASE secrets < MaxSecrets /\ secrets' = secrets + 1 /\ env' = SecretEnv(secrets + 1) /\ Exit("ok")
    <3>1. secrets + 1 \in 1..MaxSecrets /\ secrets' \in 0..MaxSecrets
      BY <2>1, EnvTyped
    <3>2. QED
      BY <1>1, <1>4, <2>1, <3>1, OtherExits DEF WriteEnv
  <2>2. CASE Exit("fail") /\ UNCHANGED <<env, secrets>>
    BY <1>1, <1>4, <2>2, EnvTyped, OtherExits DEF WriteEnv
  <2>3. QED
    BY <1>4, <2>1, <2>2 DEF WriteEnv
<1>5. QED
  BY <1>2, <1>3, <1>4

LEMMA ScheduleKeeps == FrameworkInv /\ (AddSchedule \/ RunConsole) => FrameworkInv'
<1> SUFFICES ASSUME FrameworkInv, AddSchedule \/ RunConsole PROVE FrameworkInv'
  OBVIOUS
<1>1. req.cmd # "perms"
  BY DEF FrameworkInv, FrameworkAtStep, AddSchedule, RunConsole
<1>2. UNCHANGED project
  BY DEF AddSchedule, RunConsole
<1>3. Exit("ok") \/ Exit("fail") \/ Exit("unavailable")
  BY DEF AddSchedule, RunConsole, AddEntry
<1>4. QED
  BY <1>1, <1>2, <1>3, EnvTyped, OtherExits DEF project

LEMMA FrameworkKillKeeps == FrameworkInv /\ FrameworkKill => FrameworkInv'
<1> SUFFICES ASSUME FrameworkInv, FrameworkKill PROVE FrameworkInv'
  OBVIOUS
<1>1. Ends({}) /\ UNCHANGED project
  BY DEF FrameworkKill, Killed
<1>2. QED
  BY <1>1, EnvTyped, OtherEnds DEF project

LEMMA DisturbsKeeps == FrameworkInv /\ Disturbs => FrameworkInv'
<1> SUFFICES ASSUME FrameworkInv, Disturbs PROVE FrameworkInv'
  OBVIOUS
<1>1. /\ ~calm' /\ said' = {} /\ outside' = outside + 1
      /\ UNCHANGED <<group, at, req, mem, kind, hasGroup, webgrp, secrets>>
  <2>1. calm' = FALSE
    BY DEF Disturbs, Outside
  <2>2. QED
    BY <2>1 DEF Disturbs, Outside
<1>2. FrameworkState'
  <2>0. FrameworkState /\ FrameworkTypeOK
    BY DEF FrameworkInv, FrameworkState
  <2>1. present' \subseteq Writable
    BY <2>0 DEF Disturbs, FrameworkTypeOK
  <2>2. fmode' \in [Part -> {"raw", "664", "ug+rwx"}] /\ dmode' \in [Part -> {"raw", "775"}]
    BY <2>0 DEF Disturbs, FrameworkTypeOK
  <2>3. env' \in {NoEnv, EmptyEnv, UserEnv} \cup {SecretEnv(n) : n \in 1..MaxSecrets}
    BY <2>0 DEF Disturbs, FrameworkTypeOK
  <2>4. console' \in BOOLEAN
    BY <2>0 DEF Disturbs, FrameworkState
  <2>5. QED
    BY <1>1, <2>0, <2>1, <2>2, <2>3, <2>4 DEF FrameworkState, FrameworkTypeOK
<1>3. FrameworkAtStep'
  BY <1>1 DEF FrameworkInv, FrameworkAtStep, Writable
<1>4. PlanFollowed' /\ EnvExpected'
  BY <1>1 DEF PlanFollowed, EnvExpected
<1>5. QED
  BY <1>1, <1>2, <1>3, <1>4, FrameworkSilence DEF FrameworkInv

LEMMA FrameworkStill == FrameworkInv /\ UNCHANGED FrameworkVars => FrameworkInv'
<1> SUFFICES ASSUME FrameworkInv, UNCHANGED FrameworkVars PROVE FrameworkInv'
  OBVIOUS
<1> USE DEF FrameworkInv, FrameworkVars, proc, project
<1>1. FrameworkState'
  BY DEF FrameworkState, FrameworkTypeOK
<1>2. FrameworkAtStep' /\ EnvExpected'
  BY DEF FrameworkAtStep, EnvExpected
<1>3. PlanFollowed'
  BY DEF PlanFollowed, PermsPlan, SharedLeft
<1>4. PermsHold'
  BY DEF PermsHold, Ended
<1>5. QED
  BY <1>1, <1>2, <1>3, <1>4

LEMMA FrameworkInductive == FrameworkInv /\ [FrameworkNext]_FrameworkVars => FrameworkInv'
BY FrameworkAskKeeps, PlanKeeps, RunPlanKeeps, EnvStepKeeps, ScheduleKeeps,
   FrameworkKillKeeps, DisturbsKeeps, FrameworkStill
   DEF FrameworkNext, FrameworkStep, LaravelSteps, DjangoSteps, SymfonySteps, ProjectSteps,
       LaravelConsole, DjangoConsole, SymfonyConsole

LEMMA EnvStep ==
    ASSUME FrameworkInv, [FrameworkNext]_FrameworkVars, IsKept(env), env' # env, calm
    PROVE  outside' # outside
<1>1. CASE OpenEnv
  <2>1. env = NoEnv
    BY <1>1 DEF OpenEnv, FrameworkInv, EnvExpected
  <2>2. QED
    BY <2>1 DEF IsKept, NoEnv
<1>2. CASE WriteEnv
  <2>1. env = EmptyEnv
    BY <1>2 DEF WriteEnv, FrameworkInv, EnvExpected
  <2>2. QED
    BY <2>1 DEF IsKept, EmptyEnv
<1>3. CASE Disturbs
  <2>1. outside' = outside + 1 /\ outside \in Nat
    BY <1>3 DEF Disturbs, Outside, FrameworkInv, FrameworkState
  <2>2. QED
    BY <2>1
<1>4. ASSUME UNCHANGED project PROVE FALSE
  BY <1>4 DEF project
<1>5. UNCHANGED FrameworkVars => UNCHANGED project
  BY DEF FrameworkVars
<1>6. AskLaravel \/ AskDjango \/ AskSymfony => UNCHANGED project
  BY DEF AskLaravel, AskDjango, AskSymfony, AskAny, AskChange, PassThrough
<1>7. Plan \/ CheckEnv \/ AddSchedule \/ RunConsole \/ FrameworkKill => UNCHANGED project
  BY DEF Plan, CheckEnv, AddSchedule, RunConsole, FrameworkKill
<1>8. RunPlan => env' = env
  BY DEF RunPlan
<1>9. QED
  BY <1>1, <1>2, <1>3, <1>4, <1>5, <1>6, <1>7, <1>8
     DEF FrameworkNext, FrameworkStep, LaravelSteps, DjangoSteps, SymfonySteps, ProjectSteps,
         LaravelConsole, DjangoConsole, SymfonyConsole

\* The inductive invariant of the framework helpers: a run of perms has followed
\* its plan so far, and one of env-init found the .env it expects.
THEOREM FrameworkInvariance == FrameworkSpec => []FrameworkInv
<1>1. FrameworkInv /\ [FrameworkNext]_FrameworkVars => FrameworkInv'
  BY FrameworkInductive
<1>2. QED
  BY <1>1, FrameworkInitially, PTL DEF FrameworkSpec
-----------------------------------------------------------------------------
(***************************************************************************)
(* The preflight and `shimkit config'.                                     *)
(***************************************************************************)
WorkWish == [cmd : {"work"}, dry : {FALSE}, tool : Tools, force : BOOLEAN, named : BOOLEAN]
ConfigWish == [cmd : {"validate", "edit"}, dry : {FALSE}, tool : {"none"}, force : {FALSE}, named : BOOLEAN]

\* A run is at a step of its command, and an undisturbed one remembers what the
\* file it read still says.
PreflightAtStep ==
    /\ group = "preflight"
    /\ at \in {"idle", "constrain", "detect", "validate", "edit", "template", "editor"}
    /\ at \in {"constrain", "detect"} => req \in WorkWish
    /\ at \in {"validate", "edit", "template", "editor"} => req \in ConfigWish
    /\ at = "detect" /\ calm =>
        /\ Loads(files[UserPath(req)])
        /\ mem = Loaded(files[UserPath(req)])[req.tool].sub

PreflightInv == PreflightTypeOK /\ PreflightAtStep /\ RangeHonoured

\* The user's fields of a tool, and what they are in a file.
Fields(d) ==
    /\ DOMAIN d \subseteq {"min", "max", "preferred"}
    /\ \A k \in DOMAIN d : d[k].kind = "leaf"

LEMMA ToolsAre == Tools = {"docker", "php"} /\ "$schema" \notin Tools
BY DEF Tools

\* What the bundled settings say of a tool.
LEMMA BundledIs ==
    /\ DOMAIN Bundled = Tools
    /\ \A t \in Tools :
        /\ Bundled[t].kind = "dict"
        /\ DOMAIN Bundled[t].sub = {"min"}
        /\ Bundled[t].sub["min"] = Bound("bare", 2)
BY DEF Bundled, Dict

\* A file of settings has nothing that concerns a tool, or one dict.
LEMMA ShapeOf ==
    ASSUME NEW f \in Shapes, Loads(f)
    PROVE  \/ f.is # "dict"
           \/ f.is = "dict" /\ f.top = Template
           \/ f.is = "dict" /\ \E d : f.top = Docker(d)
<1>1. f # Garbled
  BY DEF Loads
<1>2. CASE f = Absent
  BY <1>2 DEF Absent
<1>3. CASE f = [is |-> "dict", top |-> [k \in {"docker"} |-> Null]]
  <2>1. f.top = [k \in {"docker"} |-> Null] /\ f.is = "dict"
    BY <1>3
  <2>2. StripMeta(f.top)["docker"] = Null /\ DOMAIN StripMeta(f.top) = {"docker"}
    BY <2>1 DEF StripMeta
  <2>3. Null.kind = "leaf"
    BY DEF Null, Leaf
  <2>4. Loaded(f)["docker"] = Null /\ "docker" \in DOMAIN Loaded(f)
    BY <2>1, <2>2, <2>3, BundledIs, ToolsAre DEF Loaded, Merged, DeepMerge, Overlaid, BothDicts
  <2>5. QED
    BY <2>3, <2>4 DEF Loads, ValidSettings
<1>4. QED
  BY <1>1, <1>2, <1>3 DEF Shapes

\* The constraint of a tool: for each bound the user's if the file says
\* something of it, the bundled one if not.
LEMMA LoadedIsWanted ==
    ASSUME NEW f \in Shapes, Loads(f), NEW t \in Tools, NEW k \in {"min", "max"}
    PROVE  /\ k \in DOMAIN Loaded(f)[t].sub => Loaded(f)[t].sub[k].val = Wanted(t, k, f)
           /\ k \notin DOMAIN Loaded(f)[t].sub => Wanted(t, k, f).op = "null"
<1> DEFINE c == Loaded(f)[t].sub
<1>1. Bound("bare", 2).val = [op |-> "bare", v |-> 2] /\ Null.val.op = "null"
  BY DEF Bound, Leaf, Null
<1>2. ASSUME Loaded(f)[t] = Bundled[t], ~(f.is = "dict" /\ t \in DOMAIN f.top)
      PROVE  /\ k \in DOMAIN c => c[k].val = Wanted(t, k, f)
             /\ k \notin DOMAIN c => Wanted(t, k, f).op = "null"
  BY <1>1, <1>2, BundledIs DEF Wanted
<1>3. CASE f.is # "dict"
  BY <1>2, <1>3 DEF Loaded
<1>4. CASE f.is = "dict" /\ f.top = Template
  <2>1. DOMAIN f.top = {"$schema"} /\ DOMAIN StripMeta(f.top) = {}
    BY <1>4 DEF Template, StripMeta
  <2>2. Loaded(f)[t] = Bundled[t]
    BY <1>4, <2>1, BundledIs DEF Loaded, Merged, DeepMerge, Overlaid
  <2>3. QED
    BY <1>2, <2>1, <2>2, ToolsAre
<1>5. CASE f.is = "dict" /\ \E d : f.top = Docker(d)
  <2>1. PICK d : f.top = Docker(d)
    BY <1>5
  <2>2. /\ DOMAIN f.top = {"docker"} /\ f.top["docker"] = Dict(d)
        /\ DOMAIN StripMeta(f.top) = {"docker"} /\ StripMeta(f.top)["docker"] = Dict(d)
    BY <2>1 DEF Docker, StripMeta
  <2>3. Dict(d).kind = "dict" /\ Dict(d).sub = d
    BY DEF Dict
  <2>4. CASE t = "docker"
    <3>1. Loaded(f)[t] = Dict(Overlaid(Bundled[t].sub, d))
      BY <1>5, <2>2, <2>3, <2>4, BundledIs DEF Loaded, Merged, DeepMerge, BothDicts
    <3>2. c = Overlaid(Bundled[t].sub, d)
      BY <3>1 DEF Dict
    <3>3. DOMAIN c = {"min"} \cup DOMAIN d
      BY <3>2, BundledIs DEF Overlaid
    <3>4. CASE k \in DOMAIN d
      <4>1. c[k] = d[k]
        BY <3>2, <3>4 DEF Overlaid
      <4>2. Wanted(t, k, f) = d[k].val
        BY <1>5, <2>2, <2>3, <2>4, <3>4 DEF Wanted
      <4>3. QED
        BY <3>3, <3>4, <4>1, <4>2
    <3>5. CASE k \notin DOMAIN d
      <4>1. Wanted(t, k, f) = IF k = "min" THEN Bundled[t].sub["min"].val ELSE Null.val
        BY <1>5, <2>2, <2>3, <2>4, <3>5 DEF Wanted
      <4>2. k = "min" => c[k] = Bundled[t].sub["min"]
        BY <3>2, <3>3, <3>5, BundledIs DEF Overlaid
      <4>3. QED
        BY <1>1, <3>3, <3>5, <4>1, <4>2
    <3>6. QED
      BY <3>4, <3>5
  <2>5. CASE t # "docker"
    <3>1. Loaded(f)[t] = Bundled[t]
      BY <1>5, <2>2, <2>5, BundledIs DEF Loaded, Merged, DeepMerge, Overlaid
    <3>2. QED
      BY <1>2, <2>2, <2>5, <3>1
  <2>6. QED
    BY <2>4, <2>5
<1>6. QED
  BY <1>3, <1>4, <1>5, ShapeOf


BoundValue == [op : {"bare", "<", "bad", "null"}, v : 0..3]

LEMMA WantedTyped ==
    ASSUME NEW f \in Shapes, Loads(f), NEW t \in Tools, NEW k \in {"min", "max"}
    PROVE  Wanted(t, k, f) \in BoundValue
<1>1. Bundled[t].sub.min.val \in BoundValue /\ Null.val \in BoundValue
  BY BundledIs DEF Bound, Leaf, Null, BoundValue
<1>2. CASE ~(f.is = "dict" /\ t \in DOMAIN f.top /\ k \in DOMAIN f.top[t].sub)
  BY <1>1, <1>2 DEF Wanted
<1>3. CASE f.is = "dict" /\ t \in DOMAIN f.top /\ k \in DOMAIN f.top[t].sub
  <2>1. f.top # Template
    BY <1>3, ToolsAre DEF Template
  <2>2. PICK d : f.top = Docker(d)
    BY <1>3, <2>1, ShapeOf
  <2>3. f.top[t].sub = d /\ t = "docker"
    BY <1>3, <2>2 DEF Docker, Dict
  <2>4. f.top[t].sub[k].val \in BoundValue
    <3>1. \/ f.top = Docker([max |-> Bound("<", 3)])
          \/ f.top = Docker([max |-> Bound("bare", 3)])
          \/ f.top = Docker([min |-> Bound("bare", 1), max |-> Null])
          \/ f.top = Docker([min |-> Null])
          \/ f.top = Docker([min |-> Bound("bad", 0)])
          \/ f.top = Docker([mim |-> Bound("bare", 1)])
          \/ f.top = [i \in {"docker"} |-> Null]
      BY <1>3, <2>1 DEF Shapes, Absent, Garbled
    <3>2. f.top # [i \in {"docker"} |-> Null]
      <4>1. f.top["docker"].kind = "dict"
        BY <2>2 DEF Docker, Dict
      <4>2. [i \in {"docker"} |-> Null]["docker"].kind = "leaf"
        BY DEF Null, Leaf
      <4>3. QED
        BY <4>1, <4>2
    <3>3. ASSUME NEW e, f.top = Docker(e) PROVE f.top[t].sub = e
      BY <2>3, <3>3 DEF Docker, Dict
    <3>4. \/ f.top[t].sub = [max |-> Bound("<", 3)]
          \/ f.top[t].sub = [max |-> Bound("bare", 3)]
          \/ f.top[t].sub = [min |-> Bound("bare", 1), max |-> Null]
          \/ f.top[t].sub = [min |-> Null]
          \/ f.top[t].sub = [min |-> Bound("bad", 0)]
          \/ f.top[t].sub = [mim |-> Bound("bare", 1)]
      BY <3>1, <3>2, <3>3
    <3>5. QED
      BY <1>3, <3>4 DEF Bound, Leaf, Null, BoundValue
  <2>5. QED
    BY <1>3, <2>4 DEF Wanted
<1>4. QED
  BY <1>2, <1>3

\* A version is in the range that validate computes if it is within each bound.
LEMMA RangeIsWanted ==
    ASSUME NEW f \in Shapes, Loads(f), NEW t \in Tools, NEW v
    PROVE  InRange(v, Loaded(f)[t].sub) <=> \A k \in {"min", "max"} : Fits(v, k, Wanted(t, k, f))
<1> DEFINE c == Loaded(f)[t].sub
           Norm(k) == Normalised(c[k].val, IF k = "min" THEN ">=" ELSE "<=")
<1>1. ASSUME NEW k \in {"min", "max"}, k \in DOMAIN c
      PROVE  Fits(v, k, Wanted(t, k, f)) <=> (Norm(k).op = "null" \/ Satisfies(v, Norm(k)))
  <2> DEFINE b == Wanted(t, k, f)
  <2>1. b \in BoundValue
    BY WantedTyped
  <2>2. Norm(k) = Normalised(b, IF k = "min" THEN ">=" ELSE "<=")
    BY <1>1, LoadedIsWanted
  <2> HIDE DEF b, Norm
  <2>3. CASE b.op = "bare"
    <3>1. Norm(k) = [b EXCEPT !.op = IF k = "min" THEN ">=" ELSE "<="]
      BY <2>2, <2>3 DEF Normalised
    <3>2. Norm(k).op = (IF k = "min" THEN ">=" ELSE "<=") /\ Norm(k).v = b.v
      BY <2>1, <3>1 DEF BoundValue
    <3>3. Fits(v, k, b) <=> (IF k = "min" THEN v >= b.v ELSE v <= b.v)
      BY <2>3 DEF Fits
    <3>4. Satisfies(v, Norm(k)) <=> (IF k = "min" THEN v >= b.v ELSE v <= b.v)
      BY <3>2 DEF Satisfies
    <3>5. Norm(k).op # "null"
      BY <3>2
    <3>6. QED
      BY <3>3, <3>4, <3>5 DEF b
  <2>4. CASE b.op # "bare"
    <3>1. Norm(k) = b
      BY <2>2, <2>4 DEF Normalised
    <3>2. b.op = "<" \/ b.op = "bad" \/ b.op = "null"
      BY <2>1, <2>4 DEF BoundValue
    <3>3. CASE b.op = "null"
      BY <3>1, <3>3 DEF Fits, b
    <3>4. CASE b.op = "<"
      <4>1. (Fits(v, k, b) <=> v < b.v) /\ (Satisfies(v, b) <=> v < b.v)
        BY <3>4 DEF Fits, Satisfies
      <4>2. QED
        BY <3>1, <3>4, <4>1 DEF b
    <3>5. CASE b.op = "bad"
      <4>1. ~Fits(v, k, b) /\ ~Satisfies(v, b)
        BY <3>5 DEF Fits, Satisfies
      <4>2. QED
        BY <3>1, <3>5, <4>1 DEF b
    <3>6. QED
      BY <3>2, <3>3, <3>4, <3>5
  <2>5. QED
    BY <2>3, <2>4
<1>2. ASSUME NEW k \in {"min", "max"}, k \notin DOMAIN c
      PROVE  Fits(v, k, Wanted(t, k, f))
  BY <1>2, LoadedIsWanted DEF Fits
<1>3. InRange(v, c) <=>
        \A k \in {"min", "max"} : k \in DOMAIN c => Norm(k).op = "null" \/ Satisfies(v, Norm(k))
  BY DEF InRange, Specifiers
<1> HIDE DEF c, Norm
<1>4. QED
  BY <1>1, <1>2, <1>3 DEF c


LEMMA PreflightSilence == (\A s \in said' : s.req.cmd # "work") => RangeHonoured'
BY DEF RangeHonoured, Ended

LEMMA PreflightInitially == CliInit /\ group = "preflight" /\ PreflightStart => PreflightInv
<1> SUFFICES ASSUME CliInit, group = "preflight", PreflightStart PROVE PreflightInv
  OBVIOUS
<1>1. Absent \in Shapes
  BY DEF Shapes
<1>2. PreflightTypeOK
  <2>1. files \in [Paths -> Shapes]
    BY <1>1 DEF PreflightStart
  <2>2. installed \in [Tools -> Conditions]
    <3>1. [is |-> "ok", v |-> 1] \in Conditions
      BY DEF Conditions
    <3>2. QED
      BY <3>1 DEF PreflightStart
  <2>3. QED
    BY <2>1, <2>2 DEF PreflightTypeOK
<1>3. PreflightAtStep
  BY DEF CliInit, PreflightAtStep
<1>4. RangeHonoured
  BY DEF CliInit, RangeHonoured, Ended
<1>5. QED
  BY <1>2, <1>3, <1>4 DEF PreflightInv

LEMMA PreflightAskKeeps == PreflightInv /\ (AskTool \/ AskConfig) => PreflightInv'
<1> SUFFICES ASSUME PreflightInv, AskTool \/ AskConfig PROVE PreflightInv'
  OBVIOUS
<1>1. UNCHANGED settings /\ said' = {} /\ group' = group
  BY DEF AskTool, AskConfig, Starts
<1>2. \/ at' = "constrain" /\ req' \in WorkWish
      \/ at' \in {"validate", "edit"} /\ req' \in ConfigWish
  <2>1. CASE AskTool
    <3>1. PICK t \in Tools, f, n \in BOOLEAN : Starts("preflight", Wish("work", t, f, n), "constrain")
      BY <2>1 DEF AskTool
    <3>2. at' = "constrain" /\ req' = Wish("work", t, f, n)
      BY <3>1 DEF Starts
    <3>3. Wish("work", t, f, n) \in WorkWish
      BY DEF Wish, WorkWish
    <3>4. QED
      BY <3>2, <3>3
  <2>2. CASE AskConfig
    <3>1. PICK c \in {"validate", "edit"}, n \in BOOLEAN : Starts("preflight", Wish(c, "none", FALSE, n), c)
      BY <2>2 DEF AskConfig
    <3>2. at' = c /\ req' = Wish(c, "none", FALSE, n)
      BY <3>1 DEF Starts
    <3>3. Wish(c, "none", FALSE, n) \in ConfigWish
      BY DEF Wish, ConfigWish
    <3>4. QED
      BY <3>2, <3>3
  <2>3. QED
    BY <2>1, <2>2
<1>3. PreflightTypeOK' /\ group' = "preflight"
  BY <1>1 DEF PreflightInv, PreflightTypeOK, PreflightAtStep, settings
<1>4. PreflightAtStep'
  BY <1>2, <1>3 DEF PreflightAtStep
<1>5. QED
  BY <1>1, <1>3, <1>4, PreflightSilence DEF PreflightInv

\* A run that ends, or is killed, leaves what it did to the files.
LEMMA PreflightEndKeeps ==
    ASSUME PreflightInv, group' = group, at' = "idle", PreflightTypeOK',
           \A s \in said' : s.req.cmd # "work"
    PROVE  PreflightInv'
<1>1. PreflightAtStep'
  BY DEF PreflightInv, PreflightAtStep
<1>2. QED
  BY <1>1, PreflightSilence DEF PreflightInv

LEMMA ConstrainKeeps == PreflightInv /\ Constrain => PreflightInv'
<1> SUFFICES ASSUME PreflightInv, Constrain PROVE PreflightInv'
  OBVIOUS
<1> DEFINE f == files[UserPath(req)]
<1>1. files' = files /\ installed' = installed /\ req \in WorkWish /\ group = "preflight"
  BY DEF Constrain, settings, PreflightInv, PreflightAtStep
<1>2. PreflightTypeOK'
  BY <1>1 DEF PreflightInv, PreflightTypeOK
<1>3. CASE Loads(f)
  <2>1. Remember("detect", Loaded(f)[req.tool].sub)
    BY <1>3 DEF Constrain
  <2>2. /\ at' = "detect" /\ mem' = Loaded(f)[req.tool].sub
        /\ said' = {} /\ req' = req /\ group' = group
    BY <2>1 DEF Remember
  <2>3. Loads(files'[UserPath(req')]) /\ mem' = Loaded(files'[UserPath(req')])[req'.tool].sub
    BY <1>1, <1>3, <2>2
  <2>4. PreflightAtStep'
    BY <1>1, <2>2, <2>3 DEF PreflightAtStep
  <2>5. QED
    BY <1>2, <2>2, <2>4, PreflightSilence DEF PreflightInv
<1>4. CASE ~Loads(f)
  <2>1. Exit(1)
    BY <1>4 DEF Constrain
  <2>2. at' = "idle" /\ group' = group /\ \A s \in said' : s.exit = 1
    BY <2>1 DEF Exit, Ends
  <2>3. RangeHonoured'
    BY <2>2 DEF RangeHonoured, Ended
  <2>4. PreflightAtStep'
    BY <1>1, <2>2 DEF PreflightAtStep
  <2>5. QED
    BY <1>2, <2>3, <2>4 DEF PreflightInv
<1>5. QED
  BY <1>3, <1>4

\* A tool that answers is let pass if its version is in the range, cannot be
\* made out, or --force was given.
LEMMA PassesAre ==
    ASSUME NEW t \in Conditions, NEW c, NEW forced \in BOOLEAN
    PROVE  ~Blocking(Status(t, c), forced) <=>
                /\ t.is \notin {"missing", "mute"}
                /\ t.is = "odd" \/ forced \/ InRange(t.v, c)
<1>1. t.is = "missing" \/ t.is = "mute" \/ t.is = "odd" \/ t.is = "ok"
  BY DEF Conditions
<1>2. CASE t.is \in {"missing", "mute"}
  <2>1. Status(t, c) = "missing"
    BY <1>2 DEF Status
  <2>2. QED
    BY <1>2, <2>1 DEF Blocking
<1>3. CASE t.is = "odd"
  <2>1. Status(t, c) = "unparseable"
    BY <1>3 DEF Status
  <2>2. QED
    BY <1>3, <2>1 DEF Blocking
<1>4. CASE t.is = "ok"
  <2>1. Status(t, c) = IF InRange(t.v, c) THEN "ok" ELSE "out of range"
    BY <1>4 DEF Status
  <2>2. QED
    BY <1>4, <2>1 DEF Blocking
<1>5. QED
  BY <1>1, <1>2, <1>3, <1>4

LEMMA DetectKeeps == PreflightInv /\ Detect => PreflightInv'
<1> SUFFICES ASSUME PreflightInv, Detect PROVE PreflightInv'
  OBVIOUS
<1> DEFINE t == installed[req.tool]
           f == files[UserPath(req)]
           code == IF Blocking(Status(t, mem), req.force) THEN 69 ELSE 0
<1>1. /\ files' = files /\ installed' = installed
      /\ at = "detect" /\ Exit(code) /\ req \in WorkWish /\ group = "preflight"
  BY DEF Detect, settings, PreflightInv, PreflightAtStep
<1>2. /\ at' = "idle" /\ group' = group
      /\ said' = {[req |-> req, exit |-> code, calm |-> calm, mem |-> mem]}
  BY <1>1 DEF Exit, Ends
<1>3. PreflightTypeOK'
  BY <1>1 DEF PreflightInv, PreflightTypeOK
<1>4. PreflightAtStep'
  BY <1>1, <1>2 DEF PreflightAtStep
<1>5. req.tool \in Tools /\ req.force \in BOOLEAN /\ UserPath(req) \in Paths
  BY <1>1 DEF WorkWish, UserPath, Paths
<1>6. t \in Conditions /\ f \in Shapes
  BY <1>5 DEF PreflightInv, PreflightTypeOK
<1>7. ASSUME calm
      PROVE  code = 0 <=> /\ t.is \notin {"missing", "mute"}
                          /\ \/ t.is = "odd"
                             \/ req.force
                             \/ \A k \in {"min", "max"} : Fits(t.v, k, Wanted(req.tool, k, f))
  <2>1. Loads(f) /\ mem = Loaded(f)[req.tool].sub
    BY <1>1, <1>7 DEF PreflightInv, PreflightAtStep
  <2>2. InRange(t.v, mem) <=> \A k \in {"min", "max"} : Fits(t.v, k, Wanted(req.tool, k, f))
    BY <1>5, <1>6, <2>1, RangeIsWanted
  <2>3. ~Blocking(Status(t, mem), req.force) <=>
            /\ t.is \notin {"missing", "mute"}
            /\ t.is = "odd" \/ req.force \/ InRange(t.v, mem)
    BY <1>5, <1>6, PassesAre
  <2>4. code = 0 <=> ~Blocking(Status(t, mem), req.force)
    OBVIOUS
  <2> HIDE DEF t, f, code
  <2>5. QED
    BY <2>2, <2>3, <2>4
<1>8. ASSUME NEW s \in said', s.calm
      PROVE  s.exit = 0 <=>
                /\ installed'[s.req.tool].is \notin {"missing", "mute"}
                /\ \/ installed'[s.req.tool].is = "odd"
                   \/ s.req.force
                   \/ \A k \in {"min", "max"} :
                        Fits(installed'[s.req.tool].v, k, Wanted(s.req.tool, k, files'[UserPath(s.req)]))
  <2>1. s.req = req /\ s.exit = code /\ calm
    BY <1>2, <1>8
  <2> HIDE DEF code
  <2>2. QED
    BY <1>1, <1>7, <2>1
<1>9. RangeHonoured'
  BY <1>8 DEF RangeHonoured, Ended
<1>10. QED
  BY <1>3, <1>4, <1>9 DEF PreflightInv

LEMMA ConfigKeeps ==
    PreflightInv /\ (ConfigValidate \/ OpenTemplate \/ WriteTemplate \/ EditExisting \/ CloseEditor)
        => PreflightInv'
<1> SUFFICES ASSUME PreflightInv,
                    ConfigValidate \/ OpenTemplate \/ WriteTemplate \/ EditExisting \/ CloseEditor
             PROVE  PreflightInv'
  OBVIOUS
<1>1. /\ req \in ConfigWish /\ group = "preflight" /\ files \in [Paths -> Shapes]
      /\ installed \in [Tools -> Conditions] /\ installed' = installed
  BY DEF ConfigValidate, OpenTemplate, WriteTemplate, EditExisting, CloseEditor, settings,
     PreflightInv, PreflightTypeOK, PreflightAtStep
<1>2. Garbled \in Shapes /\ [is |-> "dict", top |-> Template] \in Shapes
  BY DEF Shapes
<1>3. files' \in [Paths -> Shapes]
  <2>1. CASE ConfigValidate \/ EditExisting
    BY <1>1, <2>1 DEF ConfigValidate, EditExisting, settings
  <2>2. CASE OpenTemplate \/ WriteTemplate
    BY <1>1, <1>2, <2>2 DEF OpenTemplate, WriteTemplate
  <2>3. CASE CloseEditor
    <3>1. UserPath(req) \in Paths
      BY <1>1 DEF UserPath, Paths
    <3>2. PICK g \in {files[UserPath(req)]} \cup Shapes : files' = [files EXCEPT ![UserPath(req)] = g]
      BY <2>3 DEF CloseEditor
    <3>3. g \in Shapes
      BY <1>1, <3>1
    <3>4. QED
      BY <1>1, <3>2, <3>3
  <2>4. QED
    BY <2>1, <2>2, <2>3
<1>4. PreflightTypeOK'
  BY <1>1, <1>3 DEF PreflightTypeOK
<1>5. req.cmd # "work"
  BY <1>1 DEF ConfigWish
<1>6. CASE (\E l \in {"template", "editor"} : Goto(l))
  <2>1. at' \in {"template", "editor"} /\ said' = {} /\ group' = group /\ req' = req
    BY <1>6 DEF Goto, Remember
  <2>2. PreflightAtStep'
    BY <1>1, <2>1 DEF PreflightAtStep
  <2>3. QED
    BY <1>4, <2>1, <2>2, PreflightSilence DEF PreflightInv
<1>7. CASE \E code : Exit(code)
  <2>1. at' = "idle" /\ group' = group /\ \A s \in said' : s.req = req
    BY <1>7 DEF Exit, Ends
  <2>2. QED
    BY <1>4, <1>5, <2>1, PreflightEndKeeps
<1>8. QED
  BY <1>6, <1>7 DEF ConfigValidate, OpenTemplate, WriteTemplate, EditExisting, CloseEditor

LEMMA PreflightElseKeeps ==
    PreflightInv /\ (UserEdits \/ ToolChanges \/ KillPreflight) => PreflightInv'
<1> SUFFICES ASSUME PreflightInv, UserEdits \/ ToolChanges \/ KillPreflight PROVE PreflightInv'
  OBVIOUS
<1>1. files \in [Paths -> Shapes] /\ installed \in [Tools -> Conditions]
  BY DEF PreflightInv, PreflightTypeOK
<1>2. PreflightTypeOK' /\ said' = {} /\ group' = group
  <2>1. CASE UserEdits
    BY <1>1, <2>1 DEF UserEdits, Outside, PreflightTypeOK
  <2>2. CASE ToolChanges
    BY <1>1, <2>2 DEF ToolChanges, Outside, PreflightTypeOK
  <2>3. CASE KillPreflight
    BY <1>1, <2>3 DEF KillPreflight, Killed, Ends, settings, PreflightTypeOK
  <2>4. QED
    BY <2>1, <2>2, <2>3
<1>3. CASE UserEdits \/ ToolChanges
  <2>1. ~calm' /\ at' = at /\ req' = req
    <3>1. calm' = FALSE
      BY <1>3 DEF UserEdits, ToolChanges, Outside
    <3>2. QED
      BY <1>3, <3>1 DEF UserEdits, ToolChanges, Outside
  <2>2. PreflightAtStep'
    BY <1>2, <2>1 DEF PreflightInv, PreflightAtStep
  <2>3. QED
    BY <1>2, <2>2, PreflightSilence DEF PreflightInv
<1>4. CASE KillPreflight
  <2>1. at' = "idle"
    BY <1>4 DEF KillPreflight, Killed, Ends
  <2>2. QED
    BY <1>2, <2>1, PreflightEndKeeps
<1>5. QED
  BY <1>3, <1>4

LEMMA PreflightInductive ==
    PreflightInv /\ [PreflightNext]_<<proc, settings>> => PreflightInv'
<1> SUFFICES ASSUME PreflightInv, [PreflightNext]_<<proc, settings>> PROVE PreflightInv'
  OBVIOUS
<1>1. CASE PreflightNext
  BY <1>1, PreflightAskKeeps, ConstrainKeeps, DetectKeeps, ConfigKeeps, PreflightElseKeeps
     DEF PreflightNext
<1>2. CASE UNCHANGED <<proc, settings>>
  BY <1>2 DEF proc, settings, PreflightInv, PreflightTypeOK, PreflightAtStep, RangeHonoured, Ended
<1>3. QED
  BY <1>1, <1>2
-----------------------------------------------------------------------------
(***************************************************************************)
(* The commands together.                                                  *)
(***************************************************************************)
SshSteps == KeySteps \cup HostSteps \cup ModeSteps
JavaSteps == {"brew", "link", "marker", "append", "unlink", "uninstall", "read_rc", "truncate_rc", "write_rc"}
TlsSteps == {"request", "renew", "revoke", "add_job", "certbot"}
FrameworkSteps == {"plan", "perms", "check_env", "open_env", "write_env", "add_entry", "console"}
PreflightSteps == {"constrain", "detect", "validate", "edit", "template", "editor"}

\* What a step does to the group and to what is reported: a report is of the
\* run that ends with it.
Speaks ==
    /\ group' = group
    /\ \/ said' = {}
       \/ said' = said
       \/ at # "idle" /\ \A s \in said' : s.req = req

LEMMA CliSpeaks ==
    ASSUME NEW g, NEW r, NEW l, NEW m, NEW code
    PROVE  /\ Starts(g, r, l) => group = g /\ Speaks
           /\ Ask(g, r, l) => group = g /\ Speaks
           /\ Remember(l, m) => Speaks
           /\ Goto(l) => Speaks
           /\ Exit(code) /\ at # "idle" => Speaks
           /\ Killed => Speaks
           /\ Outside => Speaks
           /\ Elapses => Speaks
BY DEF Starts, Ask, Refused, Remember, Goto, Exit, Ends, Killed, Outside, Elapses, Speaks, Idle

LEMMA EntrySpeaks ==
    ASSUME NEW e, NEW valid, AddEntry(e, valid), at # "idle"
    PROVE  Speaks
BY CliSpeaks DEF AddEntry

\* Each step is of its own group, or at a label of it.
LEMMA SshSpeaks == SshNext => Speaks /\ (group \in SshGroups \/ at \in SshSteps)
<1>1. AskKeys \/ AskPrune \/ AskFix => group \in SshGroups /\ Speaks
  BY CliSpeaks DEF AskKeys, AskPrune, AskFix, SshGroups
<1>2. Look \/ MovePriv \/ MovePub \/ Check \/ Keygen \/ KeygenPub => at \in KeySteps /\ Speaks
  BY CliSpeaks DEF Look, MovePriv, MovePub, Check, Keygen, KeygenPub, KeySteps
<1>3. ReadKnown \/ Truncate \/ WriteKnown => at \in HostSteps /\ Speaks
  BY CliSpeaks DEF ReadKnown, Truncate, WriteKnown, HostSteps
<1>4. Audit \/ Chmod => at \in ModeSteps /\ Speaks
  BY CliSpeaks DEF Audit, Chmod, ModeSteps
<1>5. SshKill \/ KeyByHand \/ SshAppends \/ Loosens => group \in SshGroups /\ Speaks
  BY CliSpeaks DEF SshKill, KeyByHand, SshAppends, Loosens, SshGroups
<1>6. Tick => group \in SshGroups /\ Speaks
  BY DEF Tick, proc, SshGroups, Speaks
<1>7. QED
  BY <1>1, <1>2, <1>3, <1>4, <1>5, <1>6 DEF SshNext, SshStep, SshSteps

LEMMA JavaSpeaks == JavaNext => Speaks /\ (group = "java" \/ at \in JavaSteps)
<1>1. AskJava => group = "java" /\ Speaks
  BY CliSpeaks DEF AskJava
<1>2. Brew \/ Link \/ CheckMarker \/ AppendBlock => at \in JavaSteps /\ Speaks
  BY CliSpeaks DEF Brew, Link, CheckMarker, AppendBlock, JavaSteps
<1>3. Unlink \/ BrewUninstall \/ ReadRc \/ TruncateRc \/ WriteRc => at \in JavaSteps /\ Speaks
  BY CliSpeaks DEF Unlink, BrewUninstall, ReadRc, TruncateRc, WriteRc, JavaSteps
<1>4. JavaKill \/ EditsRc => group = "java" /\ Speaks
  BY CliSpeaks DEF JavaKill, EditsRc
<1>5. QED
  BY <1>1, <1>2, <1>3, <1>4 DEF JavaNext, JavaStep

LEMMA TlsSpeaks == TlsNext => Speaks /\ (group = "tls" \/ at \in TlsSteps)
<1>1. AskRequest \/ AskRenew \/ JobFires \/ AskRevoke \/ AskJob => group = "tls" /\ Speaks
  BY CliSpeaks DEF AskRequest, AskRenew, JobFires, AskRevoke, AskJob
<1>2. Prepare \/ PrepareRenewal \/ PrepareRevoke => at \in TlsSteps /\ Speaks
  BY CliSpeaks DEF Prepare, PrepareRenewal, PrepareRevoke, TlsSteps
<1>3. AddJob \/ Certbot => at \in TlsSteps /\ Speaks
  BY CliSpeaks, EntrySpeaks DEF AddJob, Certbot, TlsSteps
<1>4. TlsKill \/ DayPasses \/ DropsJob => group = "tls" /\ Speaks
  BY CliSpeaks DEF TlsKill, DayPasses, DropsJob
<1>5. QED
  BY <1>1, <1>2, <1>3, <1>4 DEF TlsNext, TlsStep

LEMMA FrameworkSpeaks == FrameworkNext => Speaks /\ (group = "framework" \/ at \in FrameworkSteps)
<1>1. AskLaravel \/ AskDjango \/ AskSymfony => group = "framework" /\ Speaks
  BY CliSpeaks DEF AskLaravel, AskDjango, AskSymfony, AskAny, AskChange, PassThrough
<1>2. ProjectSteps \/ RunConsole => at \in FrameworkSteps /\ Speaks
  BY CliSpeaks DEF ProjectSteps, Plan, RunPlan, CheckEnv, OpenEnv, WriteEnv, RunConsole, FrameworkSteps
<1>3. AddSchedule => at \in FrameworkSteps /\ Speaks
  BY CliSpeaks, EntrySpeaks DEF AddSchedule, FrameworkSteps
<1>4. FrameworkKill \/ Disturbs => group = "framework" /\ Speaks
  BY CliSpeaks DEF FrameworkKill, Disturbs
<1>5. QED
  BY <1>1, <1>2, <1>3, <1>4
     DEF FrameworkNext, FrameworkStep, LaravelSteps, DjangoSteps, SymfonySteps,
         LaravelConsole, DjangoConsole, SymfonyConsole

LEMMA PreflightSpeaks == PreflightNext => Speaks /\ (group = "preflight" \/ at \in PreflightSteps)
<1>1. AskTool \/ AskConfig => group = "preflight" /\ Speaks
  BY CliSpeaks DEF AskTool, AskConfig
<1>2. Constrain \/ Detect \/ ConfigValidate => at \in PreflightSteps /\ Speaks
  BY CliSpeaks DEF Constrain, Detect, ConfigValidate, PreflightSteps
<1>3. OpenTemplate \/ WriteTemplate \/ EditExisting \/ CloseEditor => at \in PreflightSteps /\ Speaks
  BY CliSpeaks DEF OpenTemplate, WriteTemplate, EditExisting, CloseEditor, PreflightSteps
<1>4. UserEdits \/ ToolChanges \/ KillPreflight => group = "preflight" /\ Speaks
  BY CliSpeaks DEF UserEdits, ToolChanges, KillPreflight
<1>5. QED
  BY <1>1, <1>2, <1>3, <1>4 DEF PreflightNext

\* What is reported is of commands of the group.
Of(cmds) == \A s \in said : s.req.cmd \in cmds

SshCmds == {"generate", "rotate", "prune", "fix"}
JavaCmds == {"install", "reinstall", "uninstall", "upgrade", "switch"}
TlsCmds == {"request", "renew", "revoke", "cron_install"}
FrameworkCmds == {"perms", "env", "cron_install", "console"}
PreflightCmds == {"work", "validate", "edit"}

SshPart ==
    IF group \in SshGroups THEN SshInv /\ SshReportsHold /\ Of(SshCmds)
    ELSE SshTypeOK /\ made = 0

JavaPart ==
    IF group = "java" THEN JavaInv /\ Of(JavaCmds) ELSE JavaTypeOK /\ rc = <<>>

TlsPart == group = "tls" => TlsInv /\ Of(TlsCmds)

FrameworkPart ==
    IF group = "framework" THEN FrameworkInv /\ Of(FrameworkCmds) ELSE FrameworkTypeOK

PreflightPart ==
    IF group = "preflight" THEN PreflightInv /\ Of(PreflightCmds) ELSE PreflightTypeOK

\* The active group has its own invariant, and the variables of the others are
\* as they were at the start.
WorkstationInv ==
    /\ group \in SshGroups \cup {"java", "tls", "framework", "preflight"}
    /\ SshPart /\ JavaPart /\ TlsPart /\ FrameworkPart /\ PreflightPart

LEMMA GroupsApart == SshGroups \cap {"java", "tls", "framework", "preflight"} = {}
BY DEF SshGroups

LEMMA OfStep ==
    ASSUME NEW cmds, Of(cmds), at # "idle" => req.cmd \in cmds, Speaks
    PROVE  Of(cmds)'
BY DEF Of, Speaks

LEMMA OfStays == ASSUME NEW cmds, Of(cmds), UNCHANGED said PROVE Of(cmds)'
BY DEF Of

\* The request of a run is one of its group, and so is its step.
LEMMA SshRun == SshInv => at \in {"idle"} \cup SshSteps /\ (at # "idle" => req.cmd \in SshCmds)
BY DEF SshInv, SshAtGroup, SshSteps, SshCmds

LEMMA JavaRun == JavaInv => at \in {"idle"} \cup JavaSteps /\ (at # "idle" => req.cmd \in JavaCmds)
BY DEF JavaInv, JavaAtStep, JavaSteps, JavaCmds, JavaRequest

LEMMA TlsRun == TlsInv => at \in {"idle"} \cup TlsSteps /\ (at # "idle" => req.cmd \in TlsCmds)
<1>1. ASSUME req \in Request PROVE req.cmd = "request"
  BY <1>1 DEF Request
<1>2. ASSUME req \in TlsRenewals \cup TlsRevokes \cup TlsJobs PROVE req.cmd \in TlsCmds
  BY <1>2 DEF TlsRenewals, TlsRevokes, TlsJobs, TlsCmds
<1>3. QED
  BY <1>1, <1>2 DEF TlsInv, TlsAtStep, TlsSteps, TlsCmds

LEMMA FrameworkRun ==
    FrameworkInv => at \in {"idle"} \cup FrameworkSteps /\ (at # "idle" => req.cmd \in FrameworkCmds)
BY DEF FrameworkInv, FrameworkAtStep, FrameworkSteps, FrameworkCmds, ProjectRequest

LEMMA PreflightRun ==
    PreflightInv => at \in {"idle"} \cup PreflightSteps /\ (at # "idle" => req.cmd \in PreflightCmds)
BY DEF PreflightInv, PreflightAtStep, PreflightSteps, PreflightCmds, WorkWish, ConfigWish

\* No step of a group is enabled in a behaviour of another one.
LEMMA StepsApart ==
    ASSUME WorkstationInv
    PROVE  /\ group \notin SshGroups => at \notin SshSteps
           /\ group # "java" => at \notin JavaSteps
           /\ group # "tls" => at \notin TlsSteps
           /\ group # "framework" => at \notin FrameworkSteps
           /\ group # "preflight" => at \notin PreflightSteps
<1> USE GroupsApart DEF SshSteps, KeySteps, HostSteps, ModeSteps, JavaSteps, TlsSteps, FrameworkSteps, PreflightSteps
<1>1. CASE group \in SshGroups
  BY <1>1, SshRun DEF WorkstationInv, SshPart
<1>2. CASE group = "java"
  BY <1>2, JavaRun DEF WorkstationInv, JavaPart
<1>3. CASE group = "tls"
  BY <1>3, TlsRun DEF WorkstationInv, TlsPart
<1>4. CASE group = "framework"
  BY <1>4, FrameworkRun DEF WorkstationInv, FrameworkPart
<1>5. CASE group = "preflight"
  BY <1>5, PreflightRun DEF WorkstationInv, PreflightPart
<1>6. QED
  BY <1>1, <1>2, <1>3, <1>4, <1>5 DEF WorkstationInv

LEMMA WorkstationInitially == WorkstationInit => WorkstationInv
<1> SUFFICES ASSUME WorkstationInit PROVE WorkstationInv
  OBVIOUS
<1>1. /\ CliInit /\ EntriesInit
      /\ SshStart /\ JavaStart /\ TlsStart /\ FrameworkStart /\ PreflightStart
      /\ group \in SshGroups \cup {"java", "tls", "framework", "preflight"}
  BY DEF WorkstationInit
<1>2. \A cmds : Of(cmds)
  BY <1>1 DEF CliInit, Of
<1>3. SshPart
  <2>1. CASE group \in SshGroups
    BY <1>1, <1>2, <2>1, SshInitially DEF SshInit, SshPart
  <2>2. CASE group \notin SshGroups
    <3>1. /\ key = [priv |-> 0, pub |-> 0] /\ made = 0 /\ now = 0
          /\ bakPriv = [t \in Stamp |-> 0] /\ bakPub = [t \in Stamp |-> 0]
          /\ moved = [k \in 1..MaxKeys |-> None]
      BY <1>1, <2>2 DEF SshStart, SshGroups
    <3>2. known = <<>> /\ lax = {}
      BY <1>1, <2>2 DEF SshStart, SshGroups
    <3>3. SshTypeOK
      BY <3>1, <3>2, SshBoundsAssumption DEF SshTypeOK, Key, Stamp
    <3>4. QED
      BY <2>2, <3>1, <3>3 DEF SshPart
  <2>3. QED
    BY <2>1, <2>2
<1>4. JavaPart
  <2>1. CASE group = "java"
    BY <1>1, <1>2, <2>1, JavaInitially DEF JavaInit, JavaPart
  <2>2. CASE group # "java"
    <3>1. rc = <<>> /\ pkgs = {} /\ jvm = {} /\ active = None /\ mayLink = FALSE /\ rcWell = TRUE
      BY <1>1, <2>2 DEF JavaStart
    <3>2. <<>> \in Seq(RcLine)
      OBVIOUS
    <3>3. JavaTypeOK
      BY <3>1, <3>2 DEF JavaTypeOK
    <3>4. QED
      BY <2>2, <3>1, <3>3 DEF JavaPart
  <2>3. QED
    BY <2>1, <2>2
<1>5. TlsPart
  BY <1>1, <1>2, TlsInitially DEF TlsInit, TlsPart
<1>6. FrameworkPart
  <2>1. CASE group = "framework"
    BY <1>1, <1>2, <2>1, FrameworkInitially DEF FrameworkInit, FrameworkPart
  <2>2. CASE group # "framework"
    <3>1. kind = "laravel" /\ present = {} /\ webgrp = {} /\ env = NoEnv /\ secrets = 0
      BY <1>1, <2>2 DEF FrameworkStart
    <3>2. fmode = [p \in Part |-> "raw"] /\ dmode = [p \in Part |-> "raw"]
      BY <1>1 DEF FrameworkStart
    <3>3. QED
      BY <2>2, <3>1, <3>2, FrameworkBoundsAssumption DEF FrameworkPart, FrameworkTypeOK
  <2>3. QED
    BY <2>1, <2>2
<1>7. PreflightPart
  <2>1. CASE group = "preflight"
    BY <1>1, <1>2, <2>1, PreflightInitially DEF PreflightPart
  <2>2. CASE group # "preflight"
    <3>1. Absent \in Shapes
      BY DEF Shapes
    <3>2. files \in [Paths -> Shapes]
      BY <1>1, <2>2, <3>1 DEF PreflightStart
    <3>3. [is |-> "ok", v |-> 1] \in Conditions /\ [is |-> "ok", v |-> 3] \in Conditions
      BY DEF Conditions
    <3>4. installed \in [Tools -> Conditions]
      BY <1>1, <2>2, <3>3 DEF PreflightStart
    <3>5. QED
      BY <2>2, <3>2, <3>4 DEF PreflightPart, PreflightTypeOK
  <2>3. QED
    BY <2>1, <2>2
<1>8. QED
  BY <1>1, <1>3, <1>4, <1>5, <1>6, <1>7 DEF WorkstationInv

\* The variables of a group that is not the active one stay put.
LEMMA SshAside == SshPart /\ group \notin SshGroups /\ UNCHANGED <<group, ssh>> => SshPart'
<1> SUFFICES ASSUME SshPart, group \notin SshGroups, UNCHANGED <<group, ssh>> PROVE SshPart'
  OBVIOUS
<1>1. SshTypeOK' /\ made' = 0
  BY DEF SshPart, SshTypeOK, ssh
<1>2. QED
  BY <1>1 DEF SshPart, SshGroups

LEMMA JavaAside == JavaPart /\ group # "java" /\ UNCHANGED <<group, java>> => JavaPart'
BY DEF JavaPart, JavaTypeOK, java

LEMMA TlsAside == group # "tls" /\ UNCHANGED group => TlsPart'
BY DEF TlsPart

LEMMA FrameworkAside ==
    FrameworkPart /\ group # "framework" /\ UNCHANGED <<group, project>> => FrameworkPart'
BY DEF FrameworkPart, FrameworkTypeOK, project

LEMMA PreflightAside ==
    PreflightPart /\ group # "preflight" /\ UNCHANGED <<group, settings>> => PreflightPart'
BY DEF PreflightPart, PreflightTypeOK, settings

\* A step of the active group keeps its part.
LEMMA SshPartKeeps ==
    ASSUME SshPart, group \in SshGroups, Speaks, [SshNext]_SshVars
    PROVE  SshPart'
<1>1. SshInv' /\ SshReportsHold'
  BY SshInductive DEF SshPart
<1>2. Of(SshCmds)'
  BY SshRun, OfStep DEF SshPart
<1>3. QED
  BY <1>1, <1>2 DEF SshPart, Speaks, SshGroups

LEMMA JavaPartKeeps ==
    ASSUME JavaPart, group = "java", Speaks, [JavaNext]_JavaVars
    PROVE  JavaPart'
<1>1. JavaInv'
  BY JavaInductive DEF JavaPart
<1>2. Of(JavaCmds)'
  BY JavaRun, OfStep DEF JavaPart
<1>3. QED
  BY <1>1, <1>2 DEF JavaPart, Speaks

LEMMA TlsPartKeeps ==
    ASSUME TlsPart, group = "tls", Speaks, [TlsNext]_TlsVars
    PROVE  TlsPart'
<1>1. TlsInv'
  BY TlsInductive DEF TlsPart
<1>2. Of(TlsCmds)'
  BY TlsRun, OfStep DEF TlsPart
<1>3. QED
  BY <1>1, <1>2 DEF TlsPart

LEMMA FrameworkPartKeeps ==
    ASSUME FrameworkPart, group = "framework", Speaks, [FrameworkNext]_FrameworkVars
    PROVE  FrameworkPart'
<1>1. FrameworkInv'
  BY FrameworkInductive DEF FrameworkPart
<1>2. Of(FrameworkCmds)'
  BY FrameworkRun, OfStep DEF FrameworkPart
<1>3. QED
  BY <1>1, <1>2 DEF FrameworkPart, Speaks

LEMMA PreflightPartKeeps ==
    ASSUME PreflightPart, group = "preflight", Speaks, [PreflightNext]_<<proc, settings>>
    PROVE  PreflightPart'
<1>1. PreflightInv'
  BY PreflightInductive DEF PreflightPart
<1>2. Of(PreflightCmds)'
  BY PreflightRun, OfStep DEF PreflightPart
<1>3. QED
  BY <1>1, <1>2 DEF PreflightPart, Speaks

LEMMA WorkstationInductive == WorkstationInv /\ [WorkstationNext]_WorkstationVars => WorkstationInv'
<1> SUFFICES ASSUME WorkstationInv, [WorkstationNext]_WorkstationVars PROVE WorkstationInv'
  OBVIOUS
<1>1. /\ group \in SshGroups \cup {"java", "tls", "framework", "preflight"}
      /\ SshPart /\ JavaPart /\ TlsPart /\ FrameworkPart /\ PreflightPart
  BY DEF WorkstationInv
<1>2. CASE SshNext /\ UNCHANGED <<java, live, day, project, entries, settings>>
  <2>1. group \in SshGroups /\ Speaks
    BY <1>2, SshSpeaks, StepsApart
  <2>2. group' = group /\ group \notin {"java", "tls", "framework", "preflight"}
    BY <2>1, GroupsApart DEF Speaks
  <2>3. SshPart'
    BY <1>1, <1>2, <2>1, SshPartKeeps
  <2>4. QED
    BY <1>1, <1>2, <2>2, <2>3, JavaAside, TlsAside, FrameworkAside, PreflightAside
       DEF WorkstationInv
<1>3. CASE JavaNext /\ UNCHANGED <<ssh, live, day, project, entries, settings>>
  <2>1. group = "java" /\ Speaks
    BY <1>3, JavaSpeaks, StepsApart
  <2>2. group' = group /\ group \notin SshGroups
    BY <2>1, GroupsApart DEF Speaks
  <2>3. JavaPart'
    BY <1>1, <1>3, <2>1, JavaPartKeeps
  <2>4. QED
    BY <1>1, <1>3, <2>1, <2>2, <2>3, SshAside, TlsAside, FrameworkAside, PreflightAside
       DEF WorkstationInv
<1>4. CASE TlsNext /\ UNCHANGED <<ssh, java, project, settings>>
  <2>1. group = "tls" /\ Speaks
    BY <1>4, TlsSpeaks, StepsApart
  <2>2. group' = group /\ group \notin SshGroups
    BY <2>1, GroupsApart DEF Speaks
  <2>3. TlsPart'
    BY <1>1, <1>4, <2>1, TlsPartKeeps
  <2>4. QED
    BY <1>1, <1>4, <2>1, <2>2, <2>3, SshAside, JavaAside, FrameworkAside, PreflightAside
       DEF WorkstationInv
<1>5. CASE FrameworkNext /\ UNCHANGED <<ssh, java, live, day, settings>>
  <2>1. group = "framework" /\ Speaks
    BY <1>5, FrameworkSpeaks, StepsApart
  <2>2. group' = group /\ group \notin SshGroups
    BY <2>1, GroupsApart DEF Speaks
  <2>3. FrameworkPart'
    BY <1>1, <1>5, <2>1, FrameworkPartKeeps
  <2>4. QED
    BY <1>1, <1>5, <2>1, <2>2, <2>3, SshAside, JavaAside, TlsAside, PreflightAside
       DEF WorkstationInv
<1>6. CASE PreflightNext /\ UNCHANGED <<ssh, java, live, day, project, entries>>
  <2>1. group = "preflight" /\ Speaks
    BY <1>6, PreflightSpeaks, StepsApart
  <2>2. group' = group /\ group \notin SshGroups
    BY <2>1, GroupsApart DEF Speaks
  <2>3. PreflightPart'
    BY <1>1, <1>6, <2>1, PreflightPartKeeps
  <2>4. QED
    BY <1>1, <1>6, <2>1, <2>2, <2>3, SshAside, JavaAside, TlsAside, FrameworkAside
       DEF WorkstationInv
<1>7. CASE UNCHANGED WorkstationVars
  <2>1. UNCHANGED <<proc, ssh, java, live, day, project, entries, settings>>
    BY <1>7 DEF WorkstationVars
  <2>2. Speaks /\ group' = group
    BY <2>1 DEF proc, Speaks
  <2>3. /\ UNCHANGED SshVars /\ UNCHANGED JavaVars /\ UNCHANGED TlsVars
        /\ UNCHANGED FrameworkVars /\ UNCHANGED <<proc, settings>>
    BY <2>1 DEF SshVars, JavaVars, TlsVars, tls, FrameworkVars
  <2>4. SshPart' /\ JavaPart'
    BY <1>1, <2>1, <2>2, <2>3, SshPartKeeps, SshAside, JavaPartKeeps, JavaAside
  <2>5. TlsPart' /\ FrameworkPart' /\ PreflightPart'
    BY <1>1, <2>1, <2>2, <2>3, TlsPartKeeps, TlsAside, FrameworkPartKeeps, FrameworkAside,
       PreflightPartKeeps, PreflightAside
  <2>6. QED
    BY <1>1, <2>2, <2>4, <2>5 DEF WorkstationInv, SshGroups
<1>8. QED
  BY <1>2, <1>3, <1>4, <1>5, <1>6, <1>7 DEF WorkstationNext

\* The inductive invariant of the commands together: the group of a behaviour
\* keeps its own, and nothing of the others moves.
THEOREM WorkstationInvariance == WorkstationSpec => []WorkstationInv
<1>1. QED
  BY WorkstationInitially, WorkstationInductive, PTL DEF WorkstationSpec

\* What is reported is of the active group, so the promises of the others hold.
LEMMA OthersSilent ==
    ASSUME WorkstationInv, NEW s \in said
    PROVE  /\ group \notin SshGroups => s.req.cmd \notin SshCmds
           /\ group # "java" => s.req.cmd \notin JavaCmds
           /\ group # "tls" => s.req.cmd \notin {"request", "renew"}
           /\ group # "framework" => s.req.cmd # "perms"
           /\ group # "preflight" => s.req.cmd # "work"
<1> USE GroupsApart DEF WorkstationInv, Of, SshCmds, JavaCmds, TlsCmds, FrameworkCmds, PreflightCmds
<1>1. CASE group \in SshGroups
  BY <1>1 DEF SshPart
<1>2. CASE group = "java"
  BY <1>2 DEF JavaPart
<1>3. CASE group = "tls"
  BY <1>3 DEF TlsPart
<1>4. CASE group = "framework"
  BY <1>4 DEF FrameworkPart
<1>5. CASE group = "preflight"
  BY <1>5 DEF PreflightPart
<1>6. QED
  BY <1>1, <1>2, <1>3, <1>4, <1>5

\* Every variable of the tools keeps its type: known_hosts is never deleted, and
\* an rc file has no lines but the user's and shimkit's.
THEOREM TypeCorrect == WorkstationSpec => []TypeOK
<1>1. WorkstationInv => TypeOK
  <2> SUFFICES ASSUME WorkstationInv PROVE TypeOK
    OBVIOUS
  <2>1. SshTypeOK /\ JavaTypeOK
    BY DEF WorkstationInv, SshPart, SshInv, JavaPart, JavaInv
  <2>2. group = "tls" => TlsTypeOK
    BY TlsPromises DEF WorkstationInv, TlsPart
  <2>3. FrameworkTypeOK /\ PreflightTypeOK
    BY DEF WorkstationInv, FrameworkPart, FrameworkInv, FrameworkState, PreflightPart, PreflightInv
  <2>4. QED
    BY <2>1, <2>2, <2>3 DEF TypeOK
<1>2. QED
  BY <1>1, WorkstationInvariance, PTL

\* A key that is no longer in place has the second at which it was moved, and
\* the backup of that second is there: it is this key, or another one was moved
\* in the same second (SshManager.keys_rotate).
THEOREM KeysRecoverableHolds == WorkstationSpec => []KeysRecoverable
<1>1. WorkstationInv => KeysRecoverable
  <2> SUFFICES ASSUME WorkstationInv PROVE KeysRecoverable
    OBVIOUS
  <2>1. CASE group \in SshGroups
    BY <2>1, BackupsKnown DEF WorkstationInv, SshPart
  <2>2. CASE group \notin SshGroups
    BY <2>2 DEF WorkstationInv, SshPart, KeysRecoverable
  <2>3. QED
    BY <2>1, <2>2
<1>2. QED
  BY <1>1, WorkstationInvariance, PTL

\* What ssh reports can be believed: a generate or rotate has left a matching
\* pair, and rotate the whole old one in the backup; a prune dropped no plain
\* host key; a fix left nothing audited lax (ssh/manager.py).
THEOREM SshReportsHoldAlways == WorkstationSpec => []SshReportsHold
<1>1. WorkstationInv => SshReportsHold
  <2> SUFFICES ASSUME WorkstationInv PROVE SshReportsHold
    OBVIOUS
  <2>1. CASE group \in SshGroups
    BY <2>1 DEF WorkstationInv, SshPart
  <2>2. CASE group \notin SshGroups
    <3>1. /\ Ended("generate", "ok") = {} /\ Ended("rotate", "ok") = {}
          /\ Ended("prune", "ok") = {} /\ Ended("fix", "ok") = {}
      BY <2>2, OthersSilent DEF Ended, SshCmds
    <3>2. QED
      BY <3>1 DEF SshReportsHold, NewPairOldPair, PruneKeepsHosts, FixedMeansTight
  <2>3. QED
    BY <2>1, <2>2
<1>2. QED
  BY <1>1, WorkstationInvariance, PTL

\* The blocks go with the packages: an undisturbed install has left the package
\* and its marker; as long as no access to the rc file has failed, an undisturbed
\* uninstall took its own block and no other line, and no version ever has two
\* (JavaManager.install, uninstall, ShellConfigWriter).
THEOREM BlocksFollowAlways == WorkstationSpec => []BlocksFollow
<1>1. WorkstationInv => BlocksFollow
  <2> SUFFICES ASSUME WorkstationInv PROVE BlocksFollow
    OBVIOUS
  <2>1. CASE group = "java"
    BY <2>1 DEF WorkstationInv, JavaPart, JavaInv, BlocksFollow
  <2>2. CASE group # "java"
    <3>1. /\ Ended("install", "ok") = {} /\ Ended("reinstall", "ok") = {}
          /\ Ended("uninstall", "ok") = {}
      BY <2>2, OthersSilent DEF Ended, JavaCmds
    <3>2. OneBlockEach
      BY <2>2 DEF WorkstationInv, JavaPart, OneBlockEach
    <3>3. QED
      BY <3>1, <3>2 DEF BlocksFollow, InstalledHasBlock, UninstallTakesItsBlock
  <2>3. QED
    BY <2>1, <2>2
<1>2. QED
  BY <1>1, WorkstationInvariance, PTL

\* What certbot is asked for comes about, of undisturbed runs, and the container
\* of a DNS request can answer the challenge, given the absolute path of a file
\* with the documented name (tls/manager.py, certbot.py container_volumes).
THEOREM CertificatesHoldAlways == WorkstationSpec => []CertificatesHold
<1>1. WorkstationInv => CertificatesHold
  <2> SUFFICES ASSUME WorkstationInv PROVE CertificatesHold
    OBVIOUS
  <2>1. CASE group = "tls"
    BY <2>1, TlsPromises DEF WorkstationInv, TlsPart
  <2>2. CASE group # "tls"
    <3>1. Ended("request", "ok") = {} /\ Ended("renew", "ok") = {}
      BY <2>2, OthersSilent DEF Ended
    <3>2. at # "certbot"
      BY <2>2, StepsApart DEF TlsSteps
    <3>3. QED
      BY <3>1, <3>2 DEF CertificatesHold, DnsAnswerable, RequestedIsLive, RenewedIsFresh
  <2>3. QED
    BY <2>1, <2>2
<1>2. QED
  BY <1>1, WorkstationInvariance, PTL

\* No command of the plan of perms undoes one before it: an undisturbed run that
\* reports success has left every mode as configured, whatever the writable
\* directories are.
THEOREM PermsHoldAlways == WorkstationSpec => []PermsHold
<1>1. WorkstationInv => PermsHold
  <2> SUFFICES ASSUME WorkstationInv PROVE PermsHold
    OBVIOUS
  <2>1. CASE group = "framework"
    BY <2>1 DEF WorkstationInv, FrameworkPart, FrameworkInv
  <2>2. CASE group # "framework"
    <3>1. Ended("perms", "ok") = {}
      BY <2>2, OthersSilent DEF Ended
    <3>2. QED
      BY <3>1 DEF PermsHold
  <2>3. QED
    BY <2>1, <2>2
<1>2. QED
  BY <1>1, WorkstationInvariance, PTL

\* An undisturbed run goes on with a tool exactly if its version is within the
\* bounds of the user's file, merged into the bundled one, or it was forced
\* (config/loader.py, core/version.py).
THEOREM RangeHonouredAlways == WorkstationSpec => []RangeHonoured
<1>1. WorkstationInv => RangeHonoured
  <2> SUFFICES ASSUME WorkstationInv PROVE RangeHonoured
    OBVIOUS
  <2>1. CASE group = "preflight"
    BY <2>1 DEF WorkstationInv, PreflightPart, PreflightInv
  <2>2. CASE group # "preflight"
    <3>1. Ended("work", 0) = {} /\ Ended("work", 69) = {}
      BY <2>2, OthersSilent DEF Ended
    <3>2. QED
      BY <3>1 DEF RangeHonoured
  <2>3. QED
    BY <2>1, <2>2
<1>2. QED
  BY <1>1, WorkstationInvariance, PTL

\* env-init writes over no .env of the user's or with a secret in it, unless
\* somebody made it while the run was between its look and its write
\* (framework/base.py).
THEOREM EnvKeptAlways == WorkstationSpec => EnvKept
<1>1. WorkstationInv /\ [WorkstationNext]_WorkstationVars =>
        [group = "framework" /\ IsKept(env) /\ env' # env => outside' # outside \/ ~calm]_<<group, env, outside, calm>>
  <2> SUFFICES ASSUME WorkstationInv, [WorkstationNext]_WorkstationVars,
                      group = "framework", IsKept(env), env' # env, calm
               PROVE  outside' # outside
    OBVIOUS
  <2>1. ~UNCHANGED project /\ ~UNCHANGED WorkstationVars
    BY DEF project, WorkstationVars
  <2>2. ~TlsNext
    BY TlsSpeaks, StepsApart
  <2>3. FrameworkNext
    BY <2>1, <2>2 DEF WorkstationNext
  <2>4. QED
    BY <2>3, EnvStep DEF WorkstationInv, FrameworkPart
<1>2. QED
  BY <1>1, WorkstationInvariance, PTL DEF WorkstationSpec, EnvKept
==============================================================================
