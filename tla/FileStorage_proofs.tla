-------------------------- MODULE FileStorage_proofs --------------------------
(***************************************************************************)
(* What is proved about FileStorage for any projects, preprints, folders,  *)
(* files, users, contents and bound on the versions.  Types are proved for *)
(* any number of requests at a time; what else the runs check, for one     *)
(* request after the other, as they do.                                    *)
(*                                                                         *)
(* Below is a recursive function.  What it computes is proved by induction *)
(* on its argument: of the numbers for which a claim fails there would be  *)
(* a least one (CountingUp).                                               *)
(***************************************************************************)
EXTENDS FileStorage, FiniteSetTheorems, WellFoundedInduction, TLAPS

-----------------------------------------------------------------------------
(* Induction over the natural numbers *)

LEMMA LeastNat ==
  ASSUME NEW T \in SUBSET Nat, T # {}
  PROVE  \E n \in T : \A m \in T : n <= m
<1> DEFINE R == OpToRel(<, Nat)
<1>1. IsWellFoundedOn(R, Nat)
  BY NatLessThanWellFounded
<1>2. R = {ss \in Nat \X Nat : ss[1] < ss[2]}
  BY DEF OpToRel
<1> HIDE DEF R
<1>3. PICK n \in T : \A m \in T : ~ (<<m, n>> \in R)
  BY <1>1, WFMin
<1>4. ASSUME NEW m \in T PROVE n <= m
  <2>1. m < n => <<m, n>> \in R
    BY <1>2
  <2> QED
    BY <1>3, <2>1
<1> QED
  BY <1>4

\* A set of numbers that has 0, and with n also n + 1, has them all.
LEMMA CountingUp ==
  ASSUME NEW T \in SUBSET Nat, 0 \in T, \A n \in T : n + 1 \in T
  PROVE  T = Nat
<1> SUFFICES ASSUME T # Nat PROVE FALSE
  OBVIOUS
<1>1. PICK n \in Nat \ T : \A m \in Nat \ T : n <= m
  <2>1. Nat \ T # {}
    OBVIOUS
  <2> QED
    BY <2>1, LeastNat
<1>2. n - 1 \in T
  BY <1>1
<1> QED
  BY <1>1, <1>2

LEMMA CountingTo ==
  ASSUME NEW N \in Nat, NEW T, 0 \in T,
         \A n \in 0..N : n + 1 \in 0..N /\ n \in T => n + 1 \in T
  PROVE  \A n \in 0..N : n \in T
<1> DEFINE U == {n \in Nat : n <= N => n \in T}
<1>1. 0 \in U
  OBVIOUS
<1>2. ASSUME NEW n \in U PROVE n + 1 \in U
  OBVIOUS
<1>3. U \subseteq Nat
  OBVIOUS
<1>4. U = Nat
  <2> HIDE DEF U
  <2> QED
    BY <1>1, <1>2, <1>3, CountingUp
<1> QED
  BY <1>4

-----------------------------------------------------------------------------
(* Below *)

Widened(rows, r, S) == r \cup {j \in S : rows[j].parent \in r}

\* The equation that Reach stands for, up to m.
Solves(rows, i, S, m, g) ==
  g = [n \in 0..m |-> IF n = 0 THEN {i} ELSE Widened(rows, g[n - 1], S)]

LEMMA DepthIsNat == Depth \in Nat /\ IsFiniteSet(Folders)
<1>1. IsFiniteSet(Folders)
  BY BoundsAssumption, FS_Subset DEF Items, Created
<1> QED
  BY <1>1, FS_CardinalityType DEF Depth

LEMMA ReachIsDefined ==
  ASSUME NEW rows, NEW i, NEW S
  PROVE  \E g : Solves(rows, i, S, Depth, g)
<1> DEFINE T == {m \in Nat : \E g : Solves(rows, i, S, m, g)}
<1>1. 0 \in T
  <2> DEFINE g == [n \in 0..0 |-> {i}]
  <2>1. Solves(rows, i, S, 0, g)
    BY DEF Solves
  <2> HIDE DEF g
  <2> QED
    BY <2>1
<1>2. ASSUME NEW m \in T PROVE m + 1 \in T
  <2>1. PICK g : Solves(rows, i, S, m, g)
    OBVIOUS
  <2> DEFINE h == [n \in 0..(m + 1) |->
                     IF n = m + 1 THEN Widened(rows, g[m], S) ELSE g[n]]
  <2>2. ASSUME NEW n \in 0..(m + 1)
        PROVE  h[n] = IF n = 0 THEN {i} ELSE Widened(rows, h[n - 1], S)
    <3>1. CASE n = m + 1
      BY <3>1
    <3>2. CASE n \in 0..m
      <4>1. h[n] = g[n] /\ (n # 0 => h[n - 1] = g[n - 1])
        BY <3>2
      <4>2. g[n] = IF n = 0 THEN {i} ELSE Widened(rows, g[n - 1], S)
        BY <2>1, <3>2 DEF Solves
      <4> QED
        BY <4>1, <4>2
    <3> QED
      BY <3>1, <3>2
  <2>3. h = [n \in 0..(m + 1) |-> h[n]]
    OBVIOUS
  <2> HIDE DEF h
  <2>4. Solves(rows, i, S, m + 1, h)
    BY <2>2, <2>3 DEF Solves
  <2> QED
    BY <2>4
<1>3. T = Nat
  <2> HIDE DEF T
  <2>1. T \subseteq Nat
    BY DEF T
  <2> QED
    BY <1>1, <1>2, <2>1, CountingUp
<1> QED
  BY <1>3, DepthIsNat

LEMMA ReachEquation ==
  ASSUME NEW rows, NEW i, NEW S
  PROVE  /\ Reach(rows, i, S)[0] = {i}
         /\ \A n \in 0..Depth : n # 0 =>
              Reach(rows, i, S)[n] = Widened(rows, Reach(rows, i, S)[n - 1], S)
<1> DEFINE g == Reach(rows, i, S)
<1>1. g = CHOOSE h : Solves(rows, i, S, Depth, h)
  BY Zenon DEF Reach, Solves, Widened
<1>2. Solves(rows, i, S, Depth, g)
  BY <1>1, ReachIsDefined, Zenon
<1> HIDE DEF g
<1>3. \A n \in 0..Depth :
        g[n] = IF n = 0 THEN {i} ELSE Widened(rows, g[n - 1], S)
  BY <1>2 DEF Solves
<1>4. 0 \in 0..Depth
  BY DepthIsNat
<1> QED
  BY <1>3, <1>4 DEF g

LEMMA ReachGrows ==
  ASSUME NEW rows, NEW i, NEW S, NEW n \in 0..Depth, n + 1 \in 0..Depth
  PROVE  Reach(rows, i, S)[n + 1] = Widened(rows, Reach(rows, i, S)[n], S)
<1>1. n + 1 # 0 /\ (n + 1) - 1 = n
  OBVIOUS
<1> QED
  BY <1>1, ReachEquation

\* What is below i is what a set has at least that holds i and what hangs on it.
LEMMA BelowIsLeast ==
  ASSUME NEW rows, NEW i, NEW S, NEW C, i \in C,
         \A j \in S : rows[j].parent \in C => j \in C
  PROVE  Below(rows, i, S) \subseteq C
<1> DEFINE g == Reach(rows, i, S)
           T == {n \in 0..Depth : g[n] \subseteq C}
<1>1. 0 \in T
  BY ReachEquation, DepthIsNat
<1>2. ASSUME NEW n \in 0..Depth, n + 1 \in 0..Depth, n \in T
      PROVE  n + 1 \in T
  BY <1>2, ReachGrows DEF Widened
<1>3. \A n \in 0..Depth : n \in T
  <2> HIDE DEF T
  <2> QED
    BY <1>1, <1>2, DepthIsNat, CountingTo
<1> QED
  BY <1>3, DepthIsNat DEF Below

\* It holds i, and of the rest each is in S and hangs on one that it holds.
LEMMA ReachHangs ==
  ASSUME NEW rows, NEW i, NEW S
  PROVE  \A n \in 0..Depth :
           /\ i \in Reach(rows, i, S)[n]
           /\ \A j \in Reach(rows, i, S)[n] :
                j = i \/ (j \in S /\ rows[j].parent \in Reach(rows, i, S)[n])
<1> DEFINE g == Reach(rows, i, S)
           T == {n \in 0..Depth :
                   i \in g[n] /\ \A j \in g[n] :
                                   j = i \/ (j \in S /\ rows[j].parent \in g[n])}
<1>1. 0 \in T
  <2>1. g[0] = {i} /\ 0 \in 0..Depth
    BY ReachEquation, DepthIsNat
  <2>2. i \in g[0] /\ \A j \in g[0] : j = i
    BY <2>1
  <2> HIDE DEF g
  <2> QED
    BY <2>1, <2>2
<1>2. ASSUME NEW n \in 0..Depth, n + 1 \in 0..Depth, n \in T
      PROVE  n + 1 \in T
  <2>1. g[n + 1] = Widened(rows, g[n], S)
    BY <1>2, ReachGrows
  <2> HIDE DEF g
  <2> QED
    BY <1>2, <2>1 DEF Widened
<1>3. \A n \in 0..Depth : n \in T
  <2> HIDE DEF T
  <2> QED
    BY <1>1, <1>2, DepthIsNat, CountingTo
<1> QED
  BY <1>3

LEMMA BelowHangs ==
  ASSUME NEW rows, NEW i, NEW S
  PROVE  /\ i \in Below(rows, i, S)
         /\ \A j \in Below(rows, i, S) :
              j = i \/ (j \in S /\ rows[j].parent \in Below(rows, i, S))
BY ReachHangs, DepthIsNat DEF Below

\* The depth suffices: as long as Reach grows, it finds a folder every time.
LEMMA BelowIsClosed ==
  ASSUME NEW rows, NEW i \in Items, NEW S \in SUBSET Items,
         \A j \in S : rows[j].parent \in (Items \ Files) \cup {None},
         \A r \in Roots \cap S : rows[r].parent = None
  PROVE  \A j \in S : rows[j].parent \in Below(rows, i, S)
                         => j \in Below(rows, i, S)
<1> DEFINE g == Reach(rows, i, S)
           Closed(n) == \A j \in S : rows[j].parent \in g[n] => j \in g[n]
           Found(n) == (g[n] \ {i}) \cap Folders
           T == {n \in 0..Depth : Closed(n) \/ n <= Cardinality(Found(n))}
<1>1. \A n \in 0..Depth :
        /\ i \in g[n] /\ g[n] \subseteq Items
        /\ IsFiniteSet(Found(n)) /\ Cardinality(Found(n)) \in Nat
        /\ Cardinality(Found(n)) < Depth
  <2> TAKE n \in 0..Depth
  <2>1. i \in g[n] /\ g[n] \subseteq Items
    BY ReachHangs
  <2>2. Found(n) \subseteq Folders
    OBVIOUS
  <2> HIDE DEF Found
  <2>3. /\ IsFiniteSet(Found(n))
        /\ Cardinality(Found(n)) <= Cardinality(Folders)
    BY <2>2, DepthIsNat, FS_Subset
  <2>4. Cardinality(Found(n)) \in Nat /\ Cardinality(Folders) \in Nat
    BY <2>3, DepthIsNat, FS_CardinalityType
  <2> QED
    BY <2>1, <2>3, <2>4 DEF Depth
<1>2. 0 \in T
  <2>1. 0 \in 0..Depth
    BY DepthIsNat
  <2> HIDE DEF Found, Closed
  <2> QED
    BY <1>1, <2>1
<1>3. ASSUME NEW n \in 0..Depth, n + 1 \in 0..Depth, n \in T
      PROVE  n + 1 \in T
  <2>1. g[n + 1] = Widened(rows, g[n], S)
    BY <1>3, ReachGrows
  <2> HIDE DEF g
  <2>2. CASE Closed(n)
    <3>1. g[n + 1] = g[n]
      BY <2>1, <2>2 DEF Widened
    <3>2. Closed(n + 1)
      BY <2>2, <3>1
    <3> HIDE DEF Closed, Found
    <3> QED
      BY <1>3, <3>2
  <2>3. CASE ~ Closed(n) /\ ~ Closed(n + 1)
    <3>1. PICK j \in S : rows[j].parent \in g[n + 1] /\ j \notin g[n + 1]
      BY <2>3
    <3> DEFINE p == rows[j].parent
    <3>2. p \in g[n + 1] /\ p \notin g[n]
      BY <2>1, <3>1 DEF Widened
    <3>3. p \in S /\ rows[p].parent \in g[n]
      BY <2>1, <3>2 DEF Widened
    <3>4. p \in Items \ Files
      BY <3>1, <3>3, UsersAssumption
    <3>5. p \notin Roots
      <4>1. rows[p].parent \in Items
        BY <1>1, <3>3
      <4> HIDE DEF p
      <4>2. p \in Roots => rows[p].parent = None
        BY <3>3
      <4> QED
        BY <4>1, <4>2, UsersAssumption
    <3>6. p \in Found(n + 1) /\ p \notin Found(n)
      <4>1. p # i
        BY <1>1, <3>2
      <4>2. p \in Folders
        BY <3>4, <3>5 DEF Items, Created
      <4> QED
        BY <3>2, <4>1, <4>2
    <3>7. Found(n) \cup {p} \subseteq Found(n + 1)
      BY <2>1, <3>6 DEF Widened
    <3> HIDE DEF Found, Closed, p
    <3>8. n <= Cardinality(Found(n))
      BY <1>3, <2>3
    <3>9. Cardinality(Found(n) \cup {p}) = Cardinality(Found(n)) + 1
      BY <1>1, <3>6, FS_AddElement
    <3>10. Cardinality(Found(n) \cup {p}) <= Cardinality(Found(n + 1))
      BY <1>1, <1>3, <3>7, FS_Subset
    <3>11. n + 1 <= Cardinality(Found(n + 1))
      BY <1>1, <1>3, <3>8, <3>9, <3>10
    <3> QED
      BY <1>3, <3>11
  <2>4. CASE Closed(n + 1)
    <3> HIDE DEF Closed, Found
    <3> QED
      BY <1>3, <2>4
  <2> QED
    BY <2>2, <2>3, <2>4
<1>4. \A n \in 0..Depth : n \in T
  <2> HIDE DEF T
  <2> QED
    BY <1>2, <1>3, DepthIsNat, CountingTo
<1>5. Closed(Depth)
  <2>1. Depth \in 0..Depth /\ Depth \in T
    BY <1>4, DepthIsNat
  <2> HIDE DEF Closed, Found
  <2> QED
    BY <1>1, <2>1, DepthIsNat
<1> QED
  BY <1>5 DEF Below

-----------------------------------------------------------------------------
(* Types, for any number of requests at a time *)

\* Each upload that was let in finds room for its version.
UploadsHaveRoom ==
  /\ Len(version) + Cardinality(Uploading) <= MaxVersions
  /\ \A t \in Uploading : thread[t].seen \subseteq 1..Len(version)

TypesInv == TypeOK /\ UploadsHaveRoom

LEMMA UpTo == ASSUME NEW n \in Nat PROVE IsFiniteSet(1..n) /\ Cardinality(1..n) = n
<1>1. IsFiniteSet(1..n) /\ Cardinality(1..n) = IF 1 > n THEN 0 ELSE n - 1 + 1
  BY FS_Interval
<1> QED
  BY <1>1

LEMMA UploadingIsFinite == IsFiniteSet(Uploading) /\ Cardinality(Uploading) \in Nat
<1>1. IsFiniteSet(Uploading)
  BY BoundsAssumption, FS_Subset DEF Uploading
<1> QED
  BY <1>1, FS_CardinalityType

LEMMA IdleIsNotUpload == Idle \notin Upload /\ Idle.op # "upload"
  /\ \A r \in Upload : r.op = "upload"
<1>1. Idle.op = "none" /\ \A r \in Upload : r.op = "upload"
  BY DEF Idle, Upload
<1> QED
  BY <1>1

LEMMA RootsAreItems ==
  /\ \A p \in Targets : Root[p] \in Items \ Created /\ Root[p] # None
  /\ \A i \in Items : i # None
  /\ Roots \subseteq Items \ Created /\ Files \subseteq Created
BY TargetsAssumption, UsersAssumption DEF Items, Roots, Created

LEMMA FreshType ==
  ASSUME NEW parent \in (Items \ Files) \cup {None},
         NEW target \in Targets \cup {None}
  PROVE  /\ Fresh(parent, target) \in Row /\ Unused \in Row
         /\ Fresh(parent, target).type = "active"
         /\ Fresh(parent, target).parent = parent
         /\ Fresh(parent, target).target = target
         /\ Fresh(parent, target).checkout = None
BY DEF Fresh, Unused, Row

\* The clones of what is below i are different rows that nothing has used yet.
LEMMA ClonesAreNew ==
  ASSUME NEW i, NEW clone \in Clones(i)
  PROVE  /\ DOMAIN clone = LiveBelow(i)
         /\ \A j \in LiveBelow(i) :
              /\ clone[j] \in Copies(clone) /\ Original(clone, clone[j]) = j
              /\ j \in Files <=> clone[j] \in Files
         /\ \A c \in Copies(clone) :
              /\ c \in Created /\ row[c].type = "new"
              /\ Original(clone, c) \in LiveBelow(i)
              /\ clone[Original(clone, c)] = c
<1>1. /\ DOMAIN clone = LiveBelow(i)
      /\ \A j \in LiveBelow(i) : clone[j] \in Created /\ row[clone[j]].type = "new"
      /\ \A j, k \in LiveBelow(i) :
           /\ j \in Files <=> clone[j] \in Files
           /\ clone[j] = clone[k] => j = k
  BY DEF Clones
<1>2. ASSUME NEW c \in Copies(clone)
      PROVE  Original(clone, c) \in LiveBelow(i) /\ clone[Original(clone, c)] = c
  BY <1>1 DEF Copies, Original
<1> QED
  BY <1>1, <1>2 DEF Copies

LEMMA ChangedRow ==
  ASSUME NEW r \in Row, NEW parent \in (Items \ Files) \cup {None},
         NEW target \in Targets \cup {None}, NEW user \in Users \cup {None}
  PROVE  /\ [r EXCEPT !.parent = parent, !.target = target] \in Row
         /\ [r EXCEPT !.parent = parent, !.target = target,
                      !.checkout = None] \in Row
         /\ [r EXCEPT !.target = target] \in Row
         /\ [r EXCEPT !.checkout = user] \in Row
         /\ [r EXCEPT !.type = "trashed"] \in Row
         /\ [r EXCEPT !.purged = TRUE] \in Row
BY DEF Row

LEMMA RowTypes ==
  ASSUME TypeOK
  PROVE  \A i \in Items :
           /\ row[i] \in Row
           /\ row[i].type \in {"new", "active", "trashed"}
           /\ row[i].parent \in (Items \ Files) \cup {None}
           /\ row[i].target \in Targets \cup {None}
           /\ row[i].checkout \in Users \cup {None}
           /\ row[i].purged \in BOOLEAN
<1> SUFFICES ASSUME NEW i \in Items PROVE row[i] \in Row
  BY DEF Row
<1> QED
  BY DEF TypeOK

LEMMA MovedType ==
  ASSUME TypeOK, NEW i, NEW d \in Items \ Files
  PROVE  Moved(i, d) \in [Items -> Row]
<1>1. ASSUME NEW j \in Items
      PROVE  /\ [row[j] EXCEPT !.parent = d, !.target = row[d].target] \in Row
             /\ [row[j] EXCEPT !.target = row[d].target] \in Row /\ row[j] \in Row
  BY RowTypes, ChangedRow
<1> DEFINE B == LiveBelow(i)
<1> HIDE DEF B
<1> QED
  BY <1>1 DEF Moved, B

LEMMA TrashedType ==
  ASSUME TypeOK, NEW B
  PROVE  Trashed(B) \in [Items -> Row]
<1>1. ASSUME NEW j \in Items
      PROVE  [row[j] EXCEPT !.type = "trashed"] \in Row /\ row[j] \in Row
  BY RowTypes, ChangedRow
<1> QED
  BY <1>1 DEF Trashed

LEMMA CopiedType ==
  ASSUME TypeOK, NEW i \in Items, NEW d \in Items \ Files,
         NEW clone \in Clones(i)
  PROVE  Copied(i, d, clone) \in [Items -> Row]
<1> DEFINE Clone(c) ==
             LET j == Original(clone, c) IN
             [row[j] EXCEPT !.parent = IF j = i THEN d ELSE clone[@],
                            !.target = row[d].target, !.checkout = None]
<1>1. ASSUME NEW c \in Copies(clone) PROVE Clone(c) \in Row
  <2> DEFINE j == Original(clone, c)
             q == IF j = i THEN d ELSE clone[row[j].parent]
  <2>1. j \in LiveBelow(i)
    BY ClonesAreNew
  <2>2. j = i \/ (j \in Live /\ row[j].parent \in LiveBelow(i))
    BY <2>1, BelowHangs DEF LiveBelow
  <2>3. j \in Items
    BY <2>2 DEF Live
  <2> HIDE DEF j
  <2>4. q \in (Items \ Files) \cup {None}
    <3>1. CASE j # i
      <4>1. row[j].parent \notin Files
        <5>1. None \notin Files
          BY RootsAreItems DEF Items
        <5> QED
          BY <2>3, <5>1, RowTypes
      <4>2. /\ clone[row[j].parent] \notin Files
            /\ clone[row[j].parent] \in Created
        BY <2>2, <3>1, <4>1, ClonesAreNew
      <4> QED
        BY <3>1, <4>2 DEF Items
    <3> QED
      BY <3>1
  <2> HIDE DEF q
  <2>5. [row[j] EXCEPT !.parent = q, !.target = row[d].target,
                       !.checkout = None] \in Row
    BY <2>3, <2>4, RowTypes, ChangedRow
  <2>6. Clone(c) = [row[j] EXCEPT !.parent = q, !.target = row[d].target,
                                  !.checkout = None]
    BY DEF j, q
  <2> QED
    BY <2>5, <2>6
<1>2. Copied(i, d, clone)
        = [c \in Items |-> IF c \notin Copies(clone) THEN row[c] ELSE Clone(c)]
  BY DEF Copied
<1> HIDE DEF Clone
<1> QED
  BY <1>1, <1>2 DEF TypeOK

LEMMA TypesInit == Init => TypesInv
<1> SUFFICES ASSUME Init PROVE TypesInv
  OBVIOUS
<1>1. row \in [Items -> Row]
  <2>1. ASSUME NEW i \in Roots PROVE (CHOOSE p \in Targets : Root[p] = i) \in Targets
    BY DEF Roots
  <2>2. \A i \in Roots : Fresh(None, CHOOSE p \in Targets : Root[p] = i) \in Row
    BY <2>1, FreshType
  <2> QED
    BY <2>2, FreshType DEF Init
<1>2. thread \in [Threads -> {Idle} \cup Upload] /\ Uploading = {}
  BY IdleIsNotUpload DEF Init, Uploading
<1>3. Len(version) = 0 /\ version = <<>>
  BY DEF Init
<1>4. TypeOK
  BY <1>1, <1>2, <1>3 DEF Init, TypeOK
<1>5. UploadsHaveRoom
  <2>1. Cardinality(Uploading) = 0
    BY <1>2, FS_EmptySet
  <2> QED
    BY <1>2, <1>3, <2>1, BoundsAssumption DEF UploadsHaveRoom
<1> QED
  BY <1>4, <1>5 DEF TypesInv

\* A step that leaves the uploads and the versions alone changes rows at most.
LEMMA OtherTypes ==
  ASSUME TypesInv, row' \in [Items -> Row], stored' \subseteq Objects,
         members' \in [Targets -> SUBSET Users], gone' \subseteq Projects,
         primary' \in [Preprints -> Files \cup {None}], tasks' \subseteq Task,
         attached' \in [Files -> SUBSET (1..Len(version))],
         UNCHANGED <<version, thread>>
  PROVE  TypesInv'
<1>1. Uploading' = Uploading
  BY DEF Uploading
<1> QED
  BY <1>1 DEF TypesInv, TypeOK, UploadsHaveRoom

LEMMA LoadTypes ==
  ASSUME TypesInv, NEW t \in Threads, NEW u \in Users, NEW f \in Files,
         NEW parent \in Live \ Files, NEW object \in Objects,
         LoadUpload(t, u, f, parent, object)
  PROVE  TypesInv'
<1> DEFINE r == [op |-> "upload", user |-> u, file |-> f, seen |-> attached[f],
                 object |-> object,
                 row |-> IF row[f].type = "new"
                         THEN Fresh(parent, row[parent].target) ELSE row[f]]
<1>1. f \in Items /\ parent \in Items \ Files
  BY RootsAreItems DEF Live, Items
<1>2. r.row \in Row
  BY <1>1, RowTypes, FreshType DEF TypesInv
<1>3. attached[f] \subseteq 1..Len(version) /\ Len(version) \in Nat
      /\ Len(version) <= MaxVersions
  BY UploadingIsFinite, BoundsAssumption DEF TypesInv, TypeOK, UploadsHaveRoom
<1>4. r \in Upload /\ r.seen = attached[f] /\ r.op = "upload"
  <2>1. attached[f] \in SUBSET (1..MaxVersions)
    BY <1>3, BoundsAssumption
  <2> QED
    BY <1>2, <2>1 DEF Upload
<1> HIDE DEF r
<1>5. thread' = [thread EXCEPT ![t] = r] /\ thread[t] = Idle
  BY DEF LoadUpload, r
<1>6. thread' \in [Threads -> {Idle} \cup Upload]
  BY <1>4, <1>5 DEF TypesInv, TypeOK
<1>7. Uploading' = Uploading \cup {t} /\ t \notin Uploading
  BY <1>4, <1>5, IdleIsNotUpload DEF Uploading, TypesInv, TypeOK
<1>8. UploadsHaveRoom'
  <2>1. Cardinality(Uploading') = Cardinality(Uploading) + 1
    BY <1>7, UploadingIsFinite, FS_AddElement
  <2>2. Len(version) + Cardinality(Uploading) < MaxVersions /\ version' = version
    BY DEF LoadUpload
  <2>3. Len(version') + Cardinality(Uploading') <= MaxVersions
    BY <1>3, <2>1, <2>2, UploadingIsFinite, BoundsAssumption
  <2>4. ASSUME NEW s \in Uploading' PROVE thread'[s].seen \subseteq 1..Len(version')
    <3>1. CASE s = t
      BY <1>3, <1>4, <1>5, <2>2, <3>1 DEF TypesInv, TypeOK
    <3>2. CASE s # t
      <4>1. s \in Uploading /\ thread'[s] = thread[s]
        BY <1>5, <1>7, <3>2 DEF TypesInv, TypeOK, Uploading
      <4> QED
        BY <2>2, <4>1 DEF TypesInv, UploadsHaveRoom
    <3> QED
      BY <3>1, <3>2
  <2> QED
    BY <2>3, <2>4 DEF UploadsHaveRoom
<1>9. TypeOK'
  BY <1>6 DEF LoadUpload, TypesInv, TypeOK
<1> QED
  BY <1>8, <1>9 DEF TypesInv

LEMMA SaveTypes ==
  ASSUME TypesInv, NEW t \in Threads, SaveUpload(t)
  PROVE  TypesInv'
<1> DEFINE r == thread[t]
<1>1. r \in Upload /\ t \in Uploading
  BY IdleIsNotUpload DEF SaveUpload, TypesInv, TypeOK, Uploading
<1>2. thread' = [thread EXCEPT ![t] = Idle]
  BY DEF SaveUpload
<1>3. Uploading' = Uploading \ {t}
  BY <1>2, IdleIsNotUpload DEF Uploading, TypesInv, TypeOK
<1>4. Cardinality(Uploading') = Cardinality(Uploading) - 1
  BY <1>1, <1>3, UploadingIsFinite, FS_RemoveElement
<1>5. /\ Len(version) + Cardinality(Uploading) <= MaxVersions
      /\ Len(version) \in Nat /\ Len(version) + 1 <= MaxVersions
  <2>1. IsFiniteSet(Uploading') /\ Cardinality(Uploading') \in Nat
    BY <1>3, UploadingIsFinite, FS_Subset, FS_CardinalityType
  <2> QED
    BY <1>4, <2>1, UploadingIsFinite, BoundsAssumption
    DEF TypesInv, TypeOK, UploadsHaveRoom
<1>6. \A s \in Uploading' : s \in Uploading /\ thread'[s] = thread[s]
  BY <1>2, <1>3 DEF TypesInv, TypeOK, Uploading
<1>7. thread' \in [Threads -> {Idle} \cup Upload]
  BY <1>2 DEF TypesInv, TypeOK
<1>8. CASE UNCHANGED <<row, attached, version>>
  <2>1. TypeOK'
    BY <1>7, <1>8 DEF SaveUpload, TypesInv, TypeOK
  <2>2. UploadsHaveRoom'
    BY <1>4, <1>5, <1>6, <1>8, UploadingIsFinite, BoundsAssumption
    DEF TypesInv, UploadsHaveRoom
  <2> QED
    BY <2>1, <2>2 DEF TypesInv
<1>9. CASE ~ IsDuplicate(r)
  <2> DEFINE e == [object |-> r.object, identifier |-> NextIdentifier(r.seen)]
  <2>1. /\ version' = Append(version, e)
        /\ attached' = [attached EXCEPT ![r.file] = @ \cup {Len(version) + 1}]
        /\ row' = [row EXCEPT ![r.file] = r.row]
    BY <1>9 DEF SaveUpload
  <2>2. NextIdentifier(r.seen) \in 1..MaxVersions
    <3>1. r.seen \subseteq 1..Len(version)
      BY <1>1 DEF TypesInv, UploadsHaveRoom
    <3> DEFINE L == 1..Len(version)
               seen == r.seen
    <3>2. IsFiniteSet(L) /\ Cardinality(L) = Len(version)
      BY <1>5, UpTo
    <3>3. seen \subseteq L
      BY <3>1
    <3> HIDE DEF L, seen
    <3>4. Cardinality(seen) \in Nat /\ Cardinality(seen) <= Cardinality(L)
      BY <3>2, <3>3, FS_Subset, FS_CardinalityType
    <3>5. NextIdentifier(seen) \in 1..MaxVersions
      BY <1>5, <3>2, <3>4, BoundsAssumption DEF NextIdentifier
    <3> QED
      BY <3>5 DEF seen
  <2>3. e \in [object : Objects, identifier : 1..MaxVersions]
    BY <1>1, <2>2 DEF Upload
  <2> HIDE DEF e
  <2>4. /\ version' \in Seq([object : Objects, identifier : 1..MaxVersions])
        /\ Len(version') = Len(version) + 1
    BY <2>1, <2>3 DEF TypesInv, TypeOK
  <2>5. attached' \in [Files -> SUBSET (1..Len(version'))]
    <3>1. attached \in [Files -> SUBSET (1..Len(version))] /\ r.file \in Files
      BY <1>1 DEF TypesInv, TypeOK, Upload
    <3>2. /\ 1..Len(version) \subseteq 1..Len(version')
          /\ Len(version) + 1 \in 1..Len(version')
      BY <1>5, <2>4
    <3> DEFINE L == 1..Len(version)
               M == 1..Len(version')
               n == Len(version) + 1
    <3> HIDE DEF L, M, n, r
    <3>3. /\ attached \in [Files -> SUBSET L] /\ L \subseteq M /\ n \in M
          /\ attached' = [attached EXCEPT ![r.file] = @ \cup {n}]
      BY <2>1, <3>1, <3>2 DEF L, M, n
    <3>4. attached' \in [Files -> SUBSET M]
      BY <3>1, <3>3
    <3> QED
      BY <3>4 DEF M
  <2>6. row' \in [Items -> Row]
    BY <1>1, <2>1 DEF TypesInv, TypeOK, Upload
  <2>7. TypeOK'
    BY <1>7, <2>4, <2>5, <2>6 DEF SaveUpload, TypesInv, TypeOK
  <2>8. UploadsHaveRoom'
    <3>1. \A s \in Uploading' : thread'[s].seen \subseteq 1..Len(version')
      BY <1>5, <1>6, <2>4 DEF TypesInv, UploadsHaveRoom
    <3> QED
      BY <1>4, <1>5, <2>4, <3>1, UploadingIsFinite, BoundsAssumption
      DEF UploadsHaveRoom
  <2> QED
    BY <2>7, <2>8 DEF TypesInv
<1> QED
  BY <1>8, <1>9 DEF SaveUpload

LEMMA LiveIsItem == ASSUME NEW i \in Live PROVE i \in Items
BY DEF Live

\* What TypesInv says of the variables that a step may leave alone.
LEMMA OldTypes ==
  ASSUME TypesInv
  PROVE  /\ row \in [Items -> Row] /\ stored \subseteq Objects
         /\ members \in [Targets -> SUBSET Users] /\ gone \subseteq Projects
         /\ primary \in [Preprints -> Files \cup {None}] /\ tasks \subseteq Task
         /\ attached \in [Files -> SUBSET (1..Len(version))]
BY DEF TypesInv, TypeOK

LEMMA TypesNext ==
  ASSUME TypesInv, [Next]_vars
  PROVE  TypesInv'
<1>1. CASE UNCHANGED vars
  BY <1>1, OldTypes, OtherTypes DEF vars, files
<1>2. ASSUME NEW t \in Threads, NEW u \in Users, NEW i \in Folders,
             NEW parent \in Live \ Files, CreateFolder(t, u, i, parent)
      PROVE  TypesInv'
  <2>1. Fresh(parent, row[parent].target) \in Row
    BY LiveIsItem, RowTypes, FreshType DEF TypesInv
  <2>2. row' \in [Items -> Row]
    BY <1>2, <2>1, OldTypes DEF CreateFolder
  <2> QED
    BY <1>2, <2>2, OldTypes, OtherTypes DEF CreateFolder
<1>3. ASSUME NEW t \in Threads, NEW u \in Users, NEW i \in Created,
             CheckInOrOut(t, u, i)
      PROVE  TypesInv'
  <2>1. i \in Items
    BY DEF Items
  <2>2. /\ [row[i] EXCEPT !.checkout = None] \in Row
        /\ [row[i] EXCEPT !.checkout = u] \in Row
    BY <2>1, RowTypes, ChangedRow DEF TypesInv
  <2>3. row' \in [Items -> Row]
    BY <1>3, <2>2, OldTypes DEF CheckInOrOut
  <2> QED
    BY <1>3, <2>3, OldTypes, OtherTypes DEF CheckInOrOut
<1>4. ASSUME NEW t \in Threads, NEW u \in Users, NEW i \in Created, Delete(t, u, i)
      PROVE  TypesInv'
  <2>1. row' \in [Items -> Row]
    BY <1>4, TrashedType DEF Delete, TypesInv
  <2> QED
    BY <1>4, <2>1, OldTypes, OtherTypes DEF Delete
<1>5. ASSUME NEW t \in Threads, NEW u \in Users, NEW i \in Live \cap Created,
             NEW d \in Live \ Files, MoveUnder(t, u, i, d)
      PROVE  TypesInv'
  <2>1. row' \in [Items -> Row]
    BY <1>5, LiveIsItem, MovedType DEF MoveUnder, TypesInv
  <2> QED
    BY <1>5, <2>1, OldTypes, OtherTypes DEF MoveUnder
<1>6. ASSUME NEW t \in Threads, NEW u \in Users, NEW i \in Live \cap Created,
             NEW d \in Live \ Files, NEW clone \in Clones(i),
             CopyUnder(t, u, i, d, clone)
      PROVE  TypesInv'
  <2>1. row' \in [Items -> Row]
    BY <1>6, LiveIsItem, CopiedType DEF CopyUnder, TypesInv
  <2>2. attached' \in [Files -> SUBSET (1..Len(version))]
    <3>1. ASSUME NEW c \in Files, c \in Copies(clone)
          PROVE  Original(clone, c) \in Files
      BY <3>1, ClonesAreNew
    <3> QED
      BY <1>6, <3>1, OldTypes DEF CopyUnder
  <2> QED
    BY <1>6, <2>1, <2>2, OldTypes, OtherTypes DEF CopyUnder
<1>7. ASSUME NEW t \in Threads, NEW u \in Users, NEW p \in Preprints,
             NEW f \in Files, SetPrimaryFile(t, u, p, f)
      PROVE  TypesInv'
  <2>1. Root[p] \in Items \ Files
    BY RootsAreItems DEF Targets
  <2>2. row' \in [Items -> Row]
    BY <1>7, <2>1, MovedType DEF SetPrimaryFile, TypesInv
  <2>3. primary' \in [Preprints -> Files \cup {None}]
    BY <1>7, OldTypes DEF SetPrimaryFile
  <2> QED
    BY <1>7, <2>2, <2>3, OldTypes, OtherTypes DEF SetPrimaryFile
<1>8. ASSUME NEW t \in Threads, NEW u \in Users, NEW p \in Targets,
             AddContributor(t, p, u)
      PROVE  TypesInv'
  <2>1. members' \in [Targets -> SUBSET Users]
    BY <1>8, OldTypes DEF AddContributor
  <2> QED
    BY <1>8, <2>1, OldTypes, OtherTypes DEF AddContributor, files
<1>9. ASSUME NEW t \in Threads, NEW u \in Users, NEW p \in Targets,
             RemoveContributor(t, p, u)
      PROVE  TypesInv'
  <2>1. members' \in [Targets -> SUBSET Users]
    BY <1>9, OldTypes DEF RemoveContributor
  <2>2. tasks' \subseteq Task
    BY <1>9, OldTypes DEF RemoveContributor, Task
  <2> QED
    BY <1>9, <2>1, <2>2, OldTypes, OtherTypes DEF RemoveContributor, files
<1>10. ASSUME NEW t \in Threads, NEW u \in Users, NEW p \in Targets,
              CheckinFilesTask(t, p, u)
       PROVE  TypesInv'
  <2>1. \A f \in Items : [row[f] EXCEPT !.checkout = None] \in Row /\ row[f] \in Row
    BY RowTypes, ChangedRow DEF TypesInv
  <2>2. row' \in [Items -> Row]
    BY <1>10, <2>1, OldTypes DEF CheckinFilesTask
  <2>3. tasks' \subseteq Task
    BY <1>10, OldTypes DEF CheckinFilesTask
  <2> QED
    BY <1>10, <2>2, <2>3, OldTypes, OtherTypes DEF CheckinFilesTask
<1>11. ASSUME NEW t \in Threads, NEW f \in Files, PurgeTrash(t, f)
       PROVE  TypesInv'
  <2>1. [row[f] EXCEPT !.purged = TRUE] \in Row
    BY RootsAreItems, RowTypes, ChangedRow DEF TypesInv, Items
  <2>2. row' \in [Items -> Row] /\ stored' \subseteq Objects
    BY <1>11, <2>1, OldTypes DEF PurgeTrash
  <2> QED
    BY <1>11, <2>2, OldTypes, OtherTypes DEF PurgeTrash
<1>12. ASSUME NEW t \in Threads, NEW p \in Projects, RemoveNode(t, p)
       PROVE  TypesInv'
  <2>1. gone' \subseteq Projects /\ tasks' \subseteq Task
    BY <1>12, OldTypes DEF RemoveNode, Task
  <2> QED
    BY <1>12, <2>1, OldTypes, OtherTypes DEF RemoveNode, files
<1>13. ASSUME NEW t \in Threads, NEW p \in Projects, DeleteFilesTask(t, p)
       PROVE  TypesInv'
  <2>1. row' \in [Items -> Row]
    BY <1>13, OldTypes, TrashedType DEF DeleteFilesTask, TypesInv
  <2>2. tasks' \subseteq Task
    BY <1>13, OldTypes DEF DeleteFilesTask
  <2> QED
    BY <1>13, <2>1, <2>2, OldTypes, OtherTypes DEF DeleteFilesTask
<1> QED
  BY <1>1, <1>2, <1>3, <1>4, <1>5, <1>6, <1>7, <1>8, <1>9, <1>10, <1>11, <1>12,
     <1>13, LoadTypes, SaveTypes DEF Next

\* Rows, versions and uploads keep their types, and no version is numbered
\* past the bound, however many requests run at a time.
THEOREM Typing == Spec => []TypeOK
<1>1. Spec => []TypesInv
  <2>1. TypesInv /\ [Next]_vars => TypesInv'
    BY TypesNext
  <2> QED
    BY TypesInit, <2>1, PTL DEF Spec
<1>2. TypesInv => TypeOK
  BY DEF TypesInv
<1> QED
  BY <1>1, <1>2, PTL

-----------------------------------------------------------------------------
(* The tree of the live rows *)

LiveIn(rows) == {i \in Items : rows[i].type = "active"}

Reached(rows) == UNION {Below(rows, r, LiveIn(rows)) : r \in Roots}

\* The roots are as their targets made them.
RootsStay(rows) == \A p \in Targets : rows[Root[p]] = Fresh(None, p)

\* A live row hangs on a live folder, which has the same target.
Hanging(rows) ==
  \A i \in LiveIn(rows) \cap Created :
    /\ rows[i].parent \in LiveIn(rows) \ Files
    /\ rows[i].target \in Targets
    /\ rows[i].target = rows[rows[i].parent].target

\* And the way up leads to a root.
Tree(rows) ==
  /\ rows \in [Items -> Row] /\ RootsStay(rows) /\ Hanging(rows)
  /\ LiveIn(rows) \subseteq Reached(rows)

LEMMA RootRows ==
  ASSUME NEW rows, RootsStay(rows)
  PROVE  /\ \A r \in Roots : /\ rows[r].parent = None /\ rows[r].type = "active"
                             /\ rows[r].checkout = None /\ rows[r].target \in Targets
         /\ Roots \subseteq LiveIn(rows)
<1>1. \A p \in Targets :
        /\ Fresh(None, p).parent = None /\ Fresh(None, p).type = "active"
        /\ Fresh(None, p).checkout = None /\ Fresh(None, p).target = p
  BY FreshType
<1>2. \A r \in Roots : /\ rows[r].parent = None /\ rows[r].type = "active"
                       /\ rows[r].checkout = None /\ rows[r].target \in Targets
  BY <1>1 DEF RootsStay, Roots
<1> QED
  BY <1>2, RootsAreItems DEF LiveIn

\* What is live below i holds what hangs on it, and lies below i among all rows.
LEMMA LiveBelowIsClosed ==
  ASSUME NEW rows \in [Items -> Row], RootsStay(rows), NEW i \in Items
  PROVE  LET B == Below(rows, i, LiveIn(rows)) IN
         /\ i \in B /\ B \subseteq Items
         /\ \A j \in LiveIn(rows) : rows[j].parent \in B => j \in B
         /\ \A j \in B : \/ j = i
                         \/ j \in LiveIn(rows) \cap Created /\ rows[j].parent \in B
         /\ B \subseteq Below(rows, i, Created)
<1> DEFINE L == LiveIn(rows)
           B == Below(rows, i, L)
           C == Below(rows, i, Created)
<1>1. L \subseteq Items /\ Created \subseteq Items
  BY DEF LiveIn, Items
<1>2. \A j \in Items : rows[j].parent \in (Items \ Files) \cup {None}
  BY DEF Row
<1>3. \A r \in Roots : rows[r].parent = None
  BY RootRows
<1>4. \A j \in L : rows[j].parent \in B => j \in B
  BY <1>1, <1>2, <1>3, BelowIsClosed
<1>5. \A j \in Created : rows[j].parent \in C => j \in C
  BY <1>1, <1>2, <1>3, BelowIsClosed
<1>6. /\ i \in B /\ \A j \in B : j = i \/ (j \in L /\ rows[j].parent \in B)
      /\ i \in C /\ \A j \in C : j = i \/ (j \in Created /\ rows[j].parent \in C)
  BY BelowHangs
<1> HIDE DEF B, C, L
<1>7. B \subseteq Items /\ C \subseteq Items
  BY <1>1, <1>6
<1>8. \A j \in B : \/ j = i
                   \/ j \in L \cap Created /\ rows[j].parent \in B
  <2>1. \A j \in Items : rows[j].parent \in Items => j \in Created
    BY <1>3, RootsAreItems DEF Items
  <2> QED
    BY <1>6, <1>7, <2>1
<1>9. \A j \in L : rows[j].parent \in C => j \in C
  <2>1. \A j \in L : rows[j].parent \in Items => j \in Created
    BY <1>1, <1>3, RootsAreItems DEF Items
  <2> QED
    BY <1>5, <1>7, <2>1
<1>10. B \subseteq C
  BY <1>6, <1>9, BelowIsLeast DEF B
<1> QED
  BY <1>4, <1>6, <1>7, <1>8, <1>10 DEF B, C, L

\* Induction on the tree: what holds of the roots, and of a live row when of
\* its parent, holds of all live rows.
LEMMA TreeInduction ==
  ASSUME NEW rows, Tree(rows), NEW C, Roots \subseteq C,
         \A j \in LiveIn(rows) : rows[j].parent \in C => j \in C
  PROVE  LiveIn(rows) \subseteq C
<1>1. \A r \in Roots : Below(rows, r, LiveIn(rows)) \subseteq C
  BY BelowIsLeast
<1> QED
  BY <1>1 DEF Tree, Reached

LEMMA ReachedIsClosed ==
  ASSUME NEW rows \in [Items -> Row], RootsStay(rows)
  PROVE  /\ Roots \subseteq Reached(rows)
         /\ \A j \in LiveIn(rows) : rows[j].parent \in Reached(rows)
                                       => j \in Reached(rows)
<1>1. \A r \in Roots :
        /\ r \in Below(rows, r, LiveIn(rows))
        /\ \A j \in LiveIn(rows) : rows[j].parent \in Below(rows, r, LiveIn(rows))
                                     => j \in Below(rows, r, LiveIn(rows))
  BY LiveBelowIsClosed, RootsAreItems
<1> QED
  BY <1>1 DEF Reached

\* What is live below a live row has the target of that row.
LEMMA OneTarget ==
  ASSUME NEW rows, Tree(rows), NEW i \in LiveIn(rows)
  PROVE  \A j \in Below(rows, i, LiveIn(rows)) :
           j \in LiveIn(rows) /\ rows[j].target = rows[i].target
<1> DEFINE C == {j \in LiveIn(rows) : rows[j].target = rows[i].target}
<1>1. ASSUME NEW j \in LiveIn(rows), rows[j].parent \in C PROVE j \in C
  <2>1. j \in Created
    <3>1. j \in Roots => rows[j].parent = None
      BY RootRows DEF Tree
    <3>2. rows[j].parent \in Items /\ j \in Items
      BY <1>1 DEF LiveIn
    <3> QED
      BY <3>1, <3>2, RootsAreItems DEF Items
  <2> QED
    BY <1>1, <2>1 DEF Tree, Hanging
<1>2. Below(rows, i, LiveIn(rows)) \subseteq C
  <2> HIDE DEF C
  <2>1. i \in C
    BY DEF C
  <2> QED
    BY <1>1, <2>1, BelowIsLeast
<1> QED
  BY <1>2

-----------------------------------------------------------------------------
(* What the steps do to the tree *)

\* Check-outs and purges leave the tree alone.
LEMMA SameTree ==
  ASSUME NEW rows, Tree(rows), NEW new \in [Items -> Row], RootsStay(new),
         \A i \in Items : /\ new[i].type = rows[i].type
                          /\ new[i].parent = rows[i].parent
                          /\ new[i].target = rows[i].target
  PROVE  Tree(new)
<1>1. LiveIn(new) = LiveIn(rows) /\ LiveIn(rows) \subseteq Items
  BY DEF LiveIn
<1>2. Hanging(new)
  <2>1. ASSUME NEW i \in LiveIn(rows) \cap Created
        PROVE  /\ new[i].parent \in LiveIn(rows) \ Files
               /\ new[i].target \in Targets
               /\ new[i].target = new[new[i].parent].target
    BY <1>1 DEF Tree, Hanging
  <2> QED
    BY <1>1, <2>1 DEF Hanging
<1>3. LiveIn(new) \subseteq Reached(new)
  <2>1. \A j \in LiveIn(rows) : rows[j].parent \in Reached(new)
                                  => j \in Reached(new)
    BY <1>1, ReachedIsClosed
  <2> QED
    BY <1>1, <2>1, ReachedIsClosed, TreeInduction
<1> QED
  BY <1>2, <1>3 DEF Tree

\* A new folder or file.
LEMMA AddedTree ==
  ASSUME NEW rows, Tree(rows), NEW i \in Created, rows[i].type = "new",
         NEW d \in LiveIn(rows) \ Files
  PROVE  Tree([rows EXCEPT ![i] = Fresh(d, rows[d].target)])
<1> DEFINE new == [rows EXCEPT ![i] = Fresh(d, rows[d].target)]
<1>1. /\ d \in Items /\ d # i /\ i \in Items /\ rows[d].target \in Targets
      /\ rows \in [Items -> Row]
  <2>1. d \in Items /\ d # i /\ i \in Items
    BY DEF LiveIn, Items
  <2>2. d \in Roots \/ d \in Created
    BY <2>1 DEF Items
  <2> QED
    BY <2>1, <2>2, RootRows DEF Tree, Hanging
<1>2. /\ new[i].type = "active" /\ new[i].parent = d
      /\ new[i].target = rows[d].target /\ new[i] \in Row
  BY <1>1, FreshType
<1>3. new \in [Items -> Row] /\ \A j \in Items : j # i => new[j] = rows[j]
  BY <1>1, <1>2
<1> HIDE DEF new
<1>4. LiveIn(new) = LiveIn(rows) \cup {i}
  BY <1>1, <1>2, <1>3 DEF LiveIn
<1>5. RootsStay(new)
  BY <1>3, RootsAreItems DEF RootsStay, Tree
<1>6. Hanging(new)
  <2>1. ASSUME NEW j \in LiveIn(new) \cap Created
        PROVE  /\ new[j].parent \in LiveIn(new) \ Files
               /\ new[j].target \in Targets
               /\ new[j].target = new[new[j].parent].target
    <3>1. CASE j = i
      BY <1>1, <1>2, <1>3, <1>4, <3>1
    <3>2. CASE j # i
      <4>1. j \in LiveIn(rows) \cap Created /\ new[j] = rows[j]
        BY <1>3, <1>4, <3>2 DEF LiveIn
      <4>2. /\ rows[j].parent \in LiveIn(rows) \ Files
            /\ rows[j].target \in Targets
            /\ rows[j].target = rows[rows[j].parent].target
        BY <4>1 DEF Tree, Hanging
      <4>3. rows[j].parent # i /\ rows[j].parent \in Items
        BY <4>2 DEF LiveIn
      <4> QED
        BY <1>3, <1>4, <4>1, <4>2, <4>3
    <3> QED
      BY <3>1, <3>2
  <2> QED
    BY <2>1 DEF Hanging
<1>7. LiveIn(rows) \subseteq Reached(new)
  <2>1. ASSUME NEW j \in LiveIn(rows), rows[j].parent \in Reached(new)
        PROVE  j \in Reached(new)
    <3>1. j \in LiveIn(new) /\ new[j] = rows[j]
      BY <1>3, <1>4 DEF LiveIn
    <3> QED
      BY <1>3, <1>5, <2>1, <3>1, ReachedIsClosed
  <2> QED
    BY <1>3, <1>5, <2>1, ReachedIsClosed, TreeInduction
<1>8. i \in Reached(new)
  BY <1>2, <1>3, <1>4, <1>5, <1>7, ReachedIsClosed
<1>9. Tree(new)
  BY <1>3, <1>4, <1>5, <1>6, <1>7, <1>8 DEF Tree
<1> QED
  BY <1>9 DEF new

\* A folder that is moved takes along what is below it.
LEMMA MovedTree ==
  ASSUME TypeOK, Tree(row), NEW i \in Live \cap Created, NEW d \in Live \ Files,
         d \notin LiveBelow(i)
  PROVE  Tree(Moved(i, d))
<1> DEFINE new == Moved(i, d)
           B == LiveBelow(i)
           t == row[d].target
<1>1. Live = LiveIn(row) /\ i \in Items /\ d \in Items /\ i \in B /\ B \subseteq Live
  <2>1. Live = LiveIn(row) /\ i \in Items /\ d \in Items
    BY DEF Live, LiveIn
  <2>2. B = Below(row, i, LiveIn(row))
    BY <2>1 DEF LiveBelow
  <2> QED
    BY <2>1, <2>2, LiveBelowIsClosed, OneTarget DEF Tree
<1>2. /\ \A j \in Live : row[j].parent \in B => j \in B
      /\ \A j \in B : j = i \/ (j \in Live \cap Created /\ row[j].parent \in B)
  <2>1. B = Below(row, i, LiveIn(row))
    BY <1>1 DEF LiveBelow
  <2> QED
    BY <1>1, <2>1, LiveBelowIsClosed DEF Tree
<1>3. t \in Targets
  <2>1. d \in Roots \/ d \in Created
    BY <1>1 DEF Items
  <2> QED
    BY <1>1, <2>1, RootRows DEF Tree, Hanging
<1> HIDE DEF B
<1>4. new \in [Items -> Row]
  BY <1>1, MovedType
<1>5. \A j \in Items :
        /\ new[j].type = row[j].type
        /\ new[j].parent = IF j = i THEN d ELSE row[j].parent
        /\ new[j].target = IF j \in B THEN t ELSE row[j].target
        /\ j \notin B => new[j] = row[j]
  <2> TAKE j \in Items
  <2>1. row[j] \in Row /\ row[i] \in Row
    BY <1>1, RowTypes
  <2>2. new[j] = IF j = i
                 THEN [row[j] EXCEPT !.parent = d, !.target = t]
                 ELSE IF j \in B THEN [row[j] EXCEPT !.target = t] ELSE row[j]
    BY DEF Moved, B
  <2> HIDE DEF new, t
  <2> QED
    BY <1>1, <2>1, <2>2 DEF Row
<1> HIDE DEF new, t
<1>6. LiveIn(new) = Live
  BY <1>5 DEF LiveIn, Live
<1>7. RootsStay(new)
  <2>1. \A p \in Targets : Root[p] \in Items /\ Root[p] \notin B
    BY <1>2, RootsAreItems
  <2> QED
    BY <1>5, <2>1 DEF RootsStay, Tree
<1>8. Hanging(new)
  <2>1. ASSUME NEW j \in Live \cap Created
        PROVE  /\ new[j].parent \in Live \ Files
               /\ new[j].target \in Targets
               /\ new[j].target = new[new[j].parent].target
    <3>1. /\ j \in Items /\ row[j].parent \in Live \ Files /\ row[j].target \in Targets
          /\ row[j].target = row[row[j].parent].target /\ row[j].parent \in Items
      BY <1>1 DEF Tree, Hanging, Live
    <3>2. CASE j = i
      BY <1>1, <1>3, <1>5, <3>2 DEF B, t
    <3>3. CASE j # i /\ j \in B
      BY <1>2, <1>3, <1>5, <3>1, <3>3
    <3>4. CASE j \notin B
      BY <1>1, <1>2, <1>5, <3>1, <3>4
    <3> QED
      BY <3>2, <3>3, <3>4
  <2> QED
    BY <1>6, <2>1 DEF Hanging
<1>9. /\ Roots \subseteq Reached(new)
      /\ \A j \in Live : new[j].parent \in Reached(new) => j \in Reached(new)
  BY <1>4, <1>6, <1>7, ReachedIsClosed
<1>10. Live \subseteq B \cup Reached(new)
  <2>1. ASSUME NEW j \in Live, row[j].parent \in B \cup Reached(new)
        PROVE  j \in B \cup Reached(new)
    BY <1>1, <1>2, <1>5, <1>9, <2>1 DEF Live
  <2> QED
    BY <1>1, <1>9, <2>1, TreeInduction
<1>11. i \in Reached(new)
  BY <1>1, <1>5, <1>9, <1>10 DEF B
<1>12. B \subseteq Reached(new)
  <2>1. ASSUME NEW j \in Live, row[j].parent \in Reached(new)
        PROVE  j \in Reached(new)
    BY <1>5, <1>9, <1>11, <2>1 DEF Live
  <2> QED
    BY <1>11, <2>1, BelowIsLeast DEF B, LiveBelow
<1> QED
  BY <1>4, <1>6, <1>7, <1>8, <1>10, <1>12 DEF Tree, new

\* Trash is what is below a row, roots excepted.
LEMMA TrashedTree ==
  ASSUME TypeOK, Tree(row), NEW i \in Items, NEW B, B = LiveBelow(i) \ Roots
  PROVE  Tree(Trashed(B)) /\ LiveIn(Trashed(B)) = Live \ B
<1> DEFINE new == Trashed(B)
           A == LiveBelow(i)
<1>1. Live = LiveIn(row) /\ A = Below(row, i, LiveIn(row))
  BY DEF Live, LiveIn, LiveBelow
<1>2. /\ i \in A /\ A \subseteq Items
      /\ \A j \in Live : row[j].parent \in A => j \in A
      /\ \A j \in A : j = i \/ (j \in Live \cap Created /\ row[j].parent \in A)
  BY <1>1, LiveBelowIsClosed DEF Tree
<1> HIDE DEF A
<1>3. new \in [Items -> Row]
  BY TrashedType
<1>4. \A j \in Items :
        /\ new[j].type = IF j \in B THEN "trashed" ELSE row[j].type
        /\ new[j].parent = row[j].parent /\ new[j].target = row[j].target
        /\ j \notin B => new[j] = row[j]
  <2> TAKE j \in Items
  <2>1. row[j] \in Row
    BY RowTypes
  <2>2. new[j] = IF j \in B THEN [row[j] EXCEPT !.type = "trashed"] ELSE row[j]
    BY DEF Trashed
  <2> HIDE DEF new
  <2> QED
    BY <2>1, <2>2 DEF Row
<1> HIDE DEF new
<1>5. LiveIn(new) = Live \ B
  BY <1>4 DEF LiveIn, Live
<1>6. RootsStay(new)
  <2>1. \A p \in Targets : Root[p] \in Items /\ Root[p] \in Roots
    BY RootsAreItems DEF Roots
  <2> QED
    BY <1>4, <2>1 DEF RootsStay, Tree
<1>7. Hanging(new)
  <2>1. ASSUME NEW j \in (Live \ B) \cap Created
        PROVE  /\ new[j].parent \in (Live \ B) \ Files
               /\ new[j].target \in Targets
               /\ new[j].target = new[new[j].parent].target
    <3>1. /\ j \in Items /\ row[j].parent \in Live \ Files /\ row[j].target \in Targets
          /\ row[j].target = row[row[j].parent].target /\ row[j].parent \in Items
      BY <1>1 DEF Tree, Hanging, Live
    <3>2. row[j].parent \notin B
      <4>1. j \notin Roots
        BY RootsAreItems
      <4> QED
        BY <1>2, <4>1 DEF A
    <3> QED
      BY <1>4, <3>1, <3>2
  <2> QED
    BY <1>5, <2>1 DEF Hanging
<1>8. /\ Roots \subseteq Reached(new)
      /\ \A j \in Live \ B : new[j].parent \in Reached(new) => j \in Reached(new)
  BY <1>3, <1>5, <1>6, ReachedIsClosed
<1>9. Live \subseteq A \cup Reached(new)
  <2>1. ASSUME NEW j \in Live, row[j].parent \in A \cup Reached(new)
        PROVE  j \in A \cup Reached(new)
    BY <1>2, <1>4, <1>8, <2>1 DEF A, Live
  <2> QED
    BY <1>1, <1>8, <2>1, TreeInduction
<1>10. Live \ B \subseteq Reached(new)
  BY <1>8, <1>9 DEF A
<1> QED
  BY <1>3, <1>5, <1>6, <1>7, <1>10 DEF Tree, new

\* A copied folder brings copies of all that is below it.
LEMMA CopiedTree ==
  ASSUME TypeOK, Tree(row), NEW i \in Live \cap Created, NEW d \in Live \ Files,
         NEW clone \in Clones(i)
  PROVE  /\ Tree(Copied(i, d, clone))
         /\ LiveIn(Copied(i, d, clone)) = Live \cup Copies(clone)
         /\ \A c \in Copies(clone) : Copied(i, d, clone)[c].checkout = None
         /\ \A c \in Items \ Copies(clone) : Copied(i, d, clone)[c] = row[c]
<1> DEFINE new == Copied(i, d, clone)
           B == LiveBelow(i)
           K == Copies(clone)
           t == row[d].target
<1>1. /\ Live = LiveIn(row) /\ B = Below(row, i, LiveIn(row)) /\ Live \subseteq Items
      /\ i \in Items /\ d \in Items
  BY DEF Live, LiveIn, LiveBelow
<1>2. /\ i \in B /\ B \subseteq Live
      /\ \A j \in Live : row[j].parent \in B => j \in B
      /\ \A j \in B : j = i \/ (j \in Live \cap Created /\ row[j].parent \in B)
  BY <1>1, LiveBelowIsClosed, OneTarget DEF Tree
<1>3. /\ \A j \in B : clone[j] \in K /\ Original(clone, clone[j]) = j
      /\ \A j \in B : j \in Files <=> clone[j] \in Files
      /\ \A c \in K : /\ c \in Created /\ row[c].type = "new"
                      /\ Original(clone, c) \in B /\ clone[Original(clone, c)] = c
  BY ClonesAreNew
<1>4. K \subseteq Items /\ K \cap Live = {} /\ K \cap Roots = {}
  <2>1. \A c \in K : c \in Items /\ c \notin Roots
    BY <1>3, RootsAreItems DEF Items
  <2> QED
    BY <1>3, <2>1 DEF Live
<1>5. t \in Targets
  <2>1. d \in Roots \/ d \in Created
    BY <1>1 DEF Items
  <2> QED
    BY <1>1, <2>1, RootRows DEF Tree, Hanging
<1>6. new \in [Items -> Row]
  BY <1>1, CopiedType
<1> HIDE DEF B
<1>7. ASSUME NEW c \in K
      PROVE  /\ new[c].type = "active" /\ new[c].target = t /\ new[c].checkout = None
             /\ new[c].parent = IF c = clone[i] THEN d
                                ELSE clone[row[Original(clone, c)].parent]
  <2> DEFINE j == Original(clone, c)
  <2>1. j \in B /\ clone[j] = c /\ j \in Items /\ row[j].type = "active"
    BY <1>1, <1>2, <1>3 DEF Live
  <2>2. c = clone[i] <=> j = i
    BY <1>2, <1>3, <2>1
  <2>3. row[j] \in Row
    BY <2>1, RowTypes
  <2> DEFINE q == IF j = i THEN d ELSE clone[row[j].parent]
  <2>4. new[c] = [row[j] EXCEPT !.parent = q, !.target = t, !.checkout = None]
    BY <1>4 DEF Copied
  <2> HIDE DEF new, t, q, j
  <2>5. /\ new[c].type = "active" /\ new[c].target = t /\ new[c].checkout = None
        /\ new[c].parent = q
    BY <2>1, <2>3, <2>4 DEF Row
  <2> QED
    BY <2>2, <2>5 DEF q, j
<1>8. \A c \in Items \ K : new[c] = row[c]
  BY DEF Copied
<1> HIDE DEF new, t, K
<1>9. LiveIn(new) = Live \cup K
  BY <1>4, <1>7, <1>8 DEF LiveIn, Live
<1>10. RootsStay(new)
  <2>1. \A p \in Targets : Root[p] \in Items /\ Root[p] \in Roots
    BY RootsAreItems DEF Roots
  <2> QED
    BY <1>4, <1>8, <2>1 DEF RootsStay, Tree
<1>11. ASSUME NEW j \in Live \cap Created
       PROVE  /\ new[j] = row[j] /\ row[j].parent \in Live \ Files
              /\ row[j].target \in Targets /\ new[row[j].parent] = row[row[j].parent]
              /\ row[j].target = row[row[j].parent].target
  <2>1. /\ row[j].parent \in Live \ Files /\ row[j].target \in Targets
        /\ row[j].target = row[row[j].parent].target
    BY <1>1 DEF Tree, Hanging
  <2> QED
    BY <1>1, <1>4, <1>8, <2>1
<1>12. ASSUME NEW c \in K
       PROVE  new[c].parent \in (Live \cup K) \ Files /\ new[new[c].parent].target = t
  <2>1. CASE c = clone[i]
    BY <1>1, <1>4, <1>7, <1>8, <2>1 DEF t
  <2>2. CASE c # clone[i]
    <3> DEFINE j == Original(clone, c)
               q == row[j].parent
    <3>1. j \in B /\ j # i /\ clone[j] = c
      BY <1>3, <2>2
    <3>2. q \in B /\ q \notin Files
      BY <1>2, <1>11, <3>1
    <3>3. clone[q] \in K /\ clone[q] \notin Files
      BY <1>3, <3>2
    <3>4. new[c].parent = clone[q]
      BY <1>7, <2>2
    <3> HIDE DEF q
    <3> QED
      BY <1>7, <3>3, <3>4
  <2> QED
    BY <2>1, <2>2
<1>13. Hanging(new)
  <2>1. ASSUME NEW j \in (Live \cup K) \cap Created
        PROVE  /\ new[j].parent \in (Live \cup K) \ Files
               /\ new[j].target \in Targets
               /\ new[j].target = new[new[j].parent].target
    <3>1. CASE j \in K
      BY <1>5, <1>7, <1>12, <3>1
    <3>2. CASE j \in Live
      BY <1>11, <3>2
    <3> QED
      BY <3>1, <3>2
  <2> QED
    BY <1>9, <2>1 DEF Hanging
<1>14. /\ Roots \subseteq Reached(new)
       /\ \A j \in Live \cup K : new[j].parent \in Reached(new) => j \in Reached(new)
  BY <1>6, <1>9, <1>10, ReachedIsClosed
<1>15. Live \subseteq Reached(new)
  <2>1. ASSUME NEW j \in Live, row[j].parent \in Reached(new)
        PROVE  j \in Reached(new)
    BY <1>1, <1>4, <1>8, <1>14, <2>1
  <2> QED
    BY <1>1, <1>14, <2>1, TreeInduction
<1>16. B \subseteq {j \in B : clone[j] \in Reached(new)}
  <2> DEFINE C == {j \in Items : j \in B => clone[j] \in Reached(new)}
  <2>1. i \in C
    BY <1>1, <1>2, <1>3, <1>7, <1>14, <1>15
  <2>2. ASSUME NEW j \in Live, row[j].parent \in C PROVE j \in C
    <3>1. CASE j = i
      BY <2>1, <3>1
    <3>2. CASE j \notin B
      BY <1>1, <3>2
    <3>3. CASE j # i /\ j \in B
      <4>1. row[j].parent \in B
        BY <1>2, <3>3
      <4>2. clone[row[j].parent] \in Reached(new)
        BY <2>2, <4>1
      <4>3. clone[j] # clone[i] /\ clone[j] \in K /\ Original(clone, clone[j]) = j
        BY <1>2, <1>3, <3>3
      <4>4. new[clone[j]].parent = clone[row[j].parent]
        BY <1>7, <4>3
      <4>5. clone[j] \in Reached(new)
        BY <1>14, <4>2, <4>3, <4>4
      <4> QED
        BY <1>1, <4>5
    <3> QED
      BY <3>1, <3>2, <3>3
  <2> HIDE DEF C
  <2>3. B \subseteq C
    BY <2>1, <2>2, BelowIsLeast DEF B, LiveBelow
  <2> QED
    BY <2>3 DEF C
<1>17. K \subseteq Reached(new)
  BY <1>3, <1>16
<1>18. Tree(new)
  BY <1>6, <1>9, <1>10, <1>13, <1>15, <1>17 DEF Tree
<1> QED
  BY <1>7, <1>8, <1>9, <1>18 DEF new, K

-----------------------------------------------------------------------------
(* The invariant, for one request after the other *)

Serial == \A s, t \in Threads : s = t

\* A row that nothing has used holds nothing, and trash is not checked out.
RowsAreClean ==
  /\ \A i \in Items : row[i].type = "new" => row[i] = Unused
  /\ \A f \in Files : row[f].type = "new" => attached[f] = {}
  /\ \A i \in Items : row[i].type = "trashed" => row[i].checkout = None

\* What an upload has loaded is still so when it saves.
UploadsAreFresh ==
  \A t \in Uploading :
    LET r == thread[t] IN
    /\ r.seen = attached[r.file] /\ r.object \in stored
    /\ r.row.checkout \in {None, r.user}
    /\ \/ r.row = row[r.file] /\ row[r.file].type = "active"
       \/ /\ row[r.file].type = "new"
          /\ \E d \in Live \ Files : r.row = Fresh(d, row[d].target)

\* Each number from 1 to n is that of one of the n versions.
Numbered ==
  \A f \in Files :
    LET vs == attached[f] IN
    /\ \A v \in vs : version[v].identifier \in 1..Cardinality(vs)
    /\ \A v, w \in vs : version[v].identifier = version[w].identifier => v = w
    /\ \A n \in 1..Cardinality(vs) : \E v \in vs : version[v].identifier = n

StorageInv ==
  /\ TypesInv /\ Tree(row) /\ RowsAreClean /\ UploadsAreFresh /\ Numbered
  /\ CheckedOutByMembers /\ LiveIsStored /\ PrimaryFileStays

LEMMA StorageInit == Init => StorageInv
<1> SUFFICES ASSUME Init PROVE StorageInv
  OBVIOUS
<1>1. /\ TypesInv
      /\ row = [i \in Items |-> IF i \in Roots
                                THEN Fresh(None, CHOOSE p \in Targets : Root[p] = i)
                                ELSE Unused]
  BY TypesInit DEF Init
<1>2. Unused.type = "new" /\ Unused.checkout = None
  BY DEF Unused
<1>3. RootsStay(row)
  <2>1. ASSUME NEW p \in Targets
        PROVE  (CHOOSE q \in Targets : Root[q] = Root[p]) = p /\ Root[p] \in Roots
    BY TargetsAssumption DEF Roots
  <2> QED
    BY <1>1, <2>1, RootsAreItems DEF RootsStay
<1>4. \A i \in Items \ Roots : row[i] = Unused
  BY <1>1
<1>5. Live = Roots /\ LiveIn(row) = Roots
  BY <1>2, <1>3, <1>4, RootRows DEF Live, LiveIn
<1>6. Tree(row)
  <2>1. Hanging(row)
    BY <1>5, RootsAreItems DEF Hanging
  <2>2. row \in [Items -> Row] /\ Roots \subseteq Reached(row)
    BY <1>1, <1>3, ReachedIsClosed DEF TypesInv, TypeOK
  <2> QED
    BY <1>3, <1>5, <2>1, <2>2 DEF Tree
<1>7. RowsAreClean
  BY <1>2, <1>3, <1>4, RootRows DEF RowsAreClean, Init
<1>8. Uploading = {} /\ \A f \in Files : attached[f] = {}
  BY IdleIsNotUpload DEF Init, Uploading
<1>9. Numbered
  <2>1. Cardinality({}) = 0 /\ 1..0 = {}
    BY FS_EmptySet
  <2> QED
    BY <1>8, <2>1 DEF Numbered
<1>10. Live \cap Files = {} /\ \A p \in Preprints : primary[p] = None
  BY <1>5, RootsAreItems DEF Init
<1> QED
  BY <1>1, <1>6, <1>7, <1>8, <1>9, <1>10
  DEF StorageInv, UploadsAreFresh, CheckedOutByMembers, LiveIsStored,
      PrimaryFileStays

LEMMA NothingUploads ==
  ASSUME Serial, NEW t \in Threads, thread[t] = Idle
  PROVE  Uploading = {}
BY IdleIsNotUpload DEF Serial, Uploading

LEMMA LiveIsLiveIn == Live = LiveIn(row)
BY DEF Live, LiveIn

\* Nothing live below what is not checked out is.
LEMMA NotCheckedOut ==
  ASSUME StorageInv, NEW i \in Items, ~ CheckedOut(i)
  PROVE  \A j \in LiveBelow(i) : j \in Items /\ row[j].checkout = None
<1>1. row \in [Items -> Row] /\ RootsStay(row)
  BY DEF StorageInv, Tree
<1>2. LiveBelow(i) \subseteq Items /\ LiveBelow(i) \subseteq Below(row, i, Created)
  BY <1>1, LiveBelowIsClosed, LiveIsLiveIn DEF LiveBelow
<1>3. \A j \in Roots : row[j].checkout = None
  BY <1>1, RootRows
<1>4. \A j \in Created \cap Below(row, i, Created) : row[j].checkout = None
  BY DEF CheckedOut
<1> QED
  BY <1>2, <1>3, <1>4 DEF Items

\* What is left to show of a step that attaches no versions.
LEMMA RowsChange ==
  ASSUME StorageInv, TypesInv', Uploading = {}, Tree(row'),
         UNCHANGED <<attached, version, thread>>,
         \A i \in Items : row'[i].type = "new" => row'[i] = row[i],
         \A i \in Items : row'[i].type = "trashed" => row'[i].checkout = None,
         CheckedOutByMembers', LiveIsStored', PrimaryFileStays'
  PROVE  StorageInv'
<1>1. Uploading' = {}
  BY DEF Uploading
<1>2. RowsAreClean'
  BY RootsAreItems DEF StorageInv, RowsAreClean, Items
<1>3. Numbered'
  BY DEF StorageInv, Numbered
<1>4. UploadsAreFresh'
  BY <1>1 DEF UploadsAreFresh
<1> QED
  BY <1>2, <1>3, <1>4 DEF StorageInv

\* No file becomes live, so nothing has to be stored that was not.
LEMMA StillStored ==
  ASSUME StorageInv, UNCHANGED <<attached, version, stored>>,
         Live' \cap Files \subseteq Live
  PROVE  LiveIsStored'
BY DEF StorageInv, LiveIsStored

-----------------------------------------------------------------------------
(* The actions keep it *)

LEMMA CreateFolderKeeps ==
  ASSUME Serial, StorageInv, TypesInv', NEW t \in Threads, NEW u \in Users,
         NEW i \in Folders, NEW parent \in Live \ Files, CreateFolder(t, u, i, parent)
  PROVE  StorageInv'
<1>1. /\ Uploading = {} /\ i \in Created /\ i \in Items /\ i \notin Files
      /\ row[i].type = "new"
  BY NothingUploads, TargetsAssumption DEF CreateFolder, Created, Items
<1>2. row' = [row EXCEPT ![i] = Fresh(parent, row[parent].target)]
  BY DEF CreateFolder
<1>3. Tree(row')
  BY <1>1, <1>2, AddedTree, LiveIsLiveIn DEF StorageInv
<1>4. row'[i].type = "active" /\ \A j \in Items : j # i => row'[j] = row[j]
  <2>1. parent \in Items /\ row \in [Items -> Row]
    BY DEF Live, StorageInv, Tree
  <2>2. Fresh(parent, row[parent].target).type = "active"
    BY <2>1, FreshType, RowTypes DEF StorageInv, TypesInv
  <2> QED
    BY <1>1, <1>2, <2>1, <2>2
<1>5. \A f \in Files : f \in Items /\ row'[f] = row[f]
  BY <1>1, <1>4, RootsAreItems DEF Items
<1>6. Live' \cap Files = Live \cap Files
  BY <1>5 DEF Live
<1>7. CheckedOutByMembers'
  BY <1>5, <1>6 DEF CreateFolder, StorageInv, CheckedOutByMembers
<1>8. PrimaryFileStays'
  <2>1. \A p \in Preprints : primary[p] \in Files \cup {None}
    BY DEF StorageInv, TypesInv, TypeOK
  <2> QED
    BY <1>5, <1>6, <2>1 DEF CreateFolder, StorageInv, PrimaryFileStays
<1>9. LiveIsStored'
  BY <1>6, StillStored DEF CreateFolder
<1> QED
  BY <1>1, <1>3, <1>4, <1>7, <1>8, <1>9, RowsChange
  DEF CreateFolder, StorageInv, RowsAreClean

LEMMA CheckInOrOutKeeps ==
  ASSUME Serial, StorageInv, TypesInv', NEW t \in Threads, NEW u \in Users,
         NEW i \in Created, CheckInOrOut(t, u, i)
  PROVE  StorageInv'
<1> DEFINE out == IF CheckedOut(i) THEN None ELSE u
<1>1. Uploading = {} /\ i \in Items /\ row \in [Items -> Row] /\ i \in Live
  BY NothingUploads DEF CheckInOrOut, Items, StorageInv, Tree
<1>2. row' = [row EXCEPT ![i].checkout = out]
  BY DEF CheckInOrOut
<1>3. out = None \/ out \in members[row[i].target]
  BY DEF CheckInOrOut, CanWrite
<1> HIDE DEF out
<1>4. \A j \in Items :
        /\ row'[j].type = row[j].type /\ row'[j].parent = row[j].parent
        /\ row'[j].target = row[j].target
        /\ j # i => row'[j] = row[j]
  <2> TAKE j \in Items
  <2>1. row[j] \in Row
    BY <1>1
  <2> QED
    BY <1>1, <1>2, <2>1 DEF Row
<1>5. row'[i].checkout = out
  <2>1. row[i] \in Row
    BY <1>1
  <2> QED
    BY <1>1, <1>2, <2>1 DEF Row
<1>6. row' \in [Items -> Row]
  BY DEF TypesInv, TypeOK
<1>7. Tree(row')
  <2>1. \A p \in Targets : Root[p] \in Items /\ Root[p] # i
    BY RootsAreItems
  <2>2. RootsStay(row')
    BY <1>4, <2>1 DEF RootsStay, StorageInv, Tree
  <2> QED
    BY <1>4, <1>6, <2>2, SameTree DEF StorageInv
<1>8. Live' = Live /\ Files \subseteq Items
  BY <1>4, RootsAreItems DEF Live, Items
<1>9. CheckedOutByMembers'
  <2>1. ASSUME NEW f \in Live \cap Files, row'[f].checkout # None
        PROVE  \/ row'[f].checkout \in members[row'[f].target]
               \/ [fn |-> "checkin", target |-> row'[f].target,
                   user |-> row'[f].checkout] \in tasks
    <3>1. CASE f = i
      BY <1>3, <1>4, <1>5, <1>8, <2>1, <3>1
    <3>2. CASE f # i
      BY <1>4, <1>8, <2>1, <3>2 DEF StorageInv, CheckedOutByMembers
    <3> QED
      BY <3>1, <3>2
  <2> QED
    BY <1>8, <2>1 DEF CheckInOrOut, CheckedOutByMembers
<1>10. PrimaryFileStays'
  BY <1>4, <1>8, LiveIsItem DEF CheckInOrOut, StorageInv, PrimaryFileStays
<1>11. LiveIsStored'
  BY <1>8, StillStored DEF CheckInOrOut
<1>12. /\ \A j \in Items : row'[j].type = "new" => row'[j] = row[j]
       /\ \A j \in Items : row'[j].type = "trashed" => row'[j].checkout = None
  BY <1>1, <1>4 DEF Live, StorageInv, RowsAreClean
<1> QED
  BY <1>1, <1>7, <1>9, <1>10, <1>11, <1>12, RowsChange DEF CheckInOrOut

\* What a move changes of a row that is not checked out.
LEMMA MovedRows ==
  ASSUME StorageInv, NEW i \in Live \cap Created, NEW d \in Live \ Files,
         ~ CheckedOut(i)
  PROVE  /\ \A j \in Items : Moved(i, d)[j].type = row[j].type
         /\ \A j \in Items : Moved(i, d)[j].checkout = row[j].checkout
         /\ \A j \in Items \ LiveBelow(i) : Moved(i, d)[j] = row[j]
         /\ \A j \in LiveBelow(i) :
              /\ j \in Live /\ row[j].target = row[i].target
              /\ row[j].checkout = None /\ Moved(i, d)[j].target = row[d].target
<1>1. Tree(row) /\ i \in Items /\ d \in Items
  BY LiveIsItem DEF StorageInv
<1> DEFINE B == LiveBelow(i)
           new == Moved(i, d)
           t == row[d].target
<1>2. i \in B /\ \A j \in B : j \in Live /\ row[j].target = row[i].target
  BY <1>1, LiveIsLiveIn, OneTarget, BelowHangs DEF LiveBelow
<1>3. \A j \in B : j \in Items /\ row[j].checkout = None
  BY <1>1, NotCheckedOut
<1> HIDE DEF B
<1>4. ASSUME NEW j \in Items
      PROVE  /\ new[j].type = row[j].type /\ new[j].checkout = row[j].checkout
             /\ j \in B => new[j].target = t
             /\ j \notin B => new[j] = row[j]
  <2>1. row[j] \in Row
    BY RowTypes DEF StorageInv, TypesInv
  <2>2. new[j] = IF j = i
                 THEN [row[j] EXCEPT !.parent = d, !.target = t]
                 ELSE IF j \in B THEN [row[j] EXCEPT !.target = t] ELSE row[j]
    BY DEF Moved, B
  <2> HIDE DEF new, t
  <2> QED
    BY <1>2, <2>1, <2>2 DEF Row
<1> HIDE DEF new, t
<1>5. /\ \A j \in Items : /\ new[j].type = row[j].type
                           /\ new[j].checkout = row[j].checkout
      /\ \A j \in Items \ B : new[j] = row[j]
      /\ \A j \in B : /\ j \in Live /\ row[j].target = row[i].target
                      /\ row[j].checkout = None /\ new[j].target = t
  BY <1>2, <1>3, <1>4
<1> QED
  BY <1>5 DEF B, new, t

\* The part of a move that MoveUnder and SetPrimaryFile share.
LEMMA MoveKeeps ==
  ASSUME StorageInv, TypesInv', Uploading = {}, NEW i \in Live \cap Created,
         NEW d \in Live \ Files, d \notin LiveBelow(i), ~ CheckedOut(i),
         row' = Moved(i, d),
         UNCHANGED <<attached, version, stored, members, tasks, thread>>,
         PrimaryFileStays'
  PROVE  StorageInv'
<1>1. Tree(row')
  BY MovedTree DEF StorageInv, TypesInv
<1>2. /\ \A j \in Items : /\ row'[j].type = row[j].type
                           /\ row'[j].checkout = row[j].checkout
      /\ \A j \in Items \ LiveBelow(i) : row'[j] = row[j]
      /\ \A j \in LiveBelow(i) : j \in Live /\ row[j].checkout = None
  BY MovedRows
<1>3. Live' = Live
  BY <1>2 DEF Live
<1>4. CheckedOutByMembers'
  BY <1>2, <1>3, LiveIsItem DEF StorageInv, CheckedOutByMembers
<1>5. /\ \A j \in Items : row'[j].type = "new" => row'[j] = row[j]
      /\ \A j \in Items : row'[j].type = "trashed" => row'[j].checkout = None
  BY <1>2 DEF Live, StorageInv, RowsAreClean
<1>6. LiveIsStored'
  BY <1>3, StillStored
<1> QED
  BY <1>1, <1>4, <1>5, <1>6, RowsChange

LEMMA MoveUnderKeeps ==
  ASSUME Serial, StorageInv, TypesInv', NEW t \in Threads, NEW u \in Users,
         NEW i \in Live \cap Created, NEW d \in Live \ Files, MoveUnder(t, u, i, d)
  PROVE  StorageInv'
<1>1. /\ Uploading = {} /\ ~ CheckedOut(i) /\ d \notin LiveBelow(i)
      /\ row' = Moved(i, d)
      /\ IsPrimary(i) => row[d].target = row[i].target
      /\ UNCHANGED <<attached, version, stored, members, tasks, thread, primary>>
  BY NothingUploads DEF MoveUnder
<1>2. PrimaryFileStays'
  <2>1. ASSUME NEW p \in Preprints, primary[p] # None
        PROVE  primary[p] \in Live' /\ row'[primary[p]].target = p
    <3> DEFINE f == primary[p]
    <3>1. f \in Live /\ row[f].target = p /\ f \in Files /\ f \in Items
      BY <2>1, LiveIsItem DEF StorageInv, PrimaryFileStays, TypesInv, TypeOK
    <3>2. f \in Live'
      BY <1>1, <3>1, MovedRows DEF Live
    <3>3. CASE f \in LiveBelow(i)
      <4>1. row[i].target = p /\ row'[f].target = row[d].target
        BY <1>1, <3>1, <3>3, MovedRows
      <4>2. IsPrimary(i)
        BY <2>1, <3>1, <3>3, <4>1 DEF IsPrimary
      <4> QED
        BY <1>1, <3>2, <4>1, <4>2
    <3>4. CASE f \notin LiveBelow(i)
      BY <1>1, <3>1, <3>2, <3>4, MovedRows
    <3> QED
      BY <3>3, <3>4
  <2> QED
    BY <1>1, <2>1 DEF PrimaryFileStays
<1> QED
  BY <1>1, <1>2, MoveKeeps

LEMMA SetPrimaryFileKeeps ==
  ASSUME Serial, StorageInv, TypesInv', NEW t \in Threads, NEW u \in Users,
         NEW p \in Preprints, NEW f \in Files, SetPrimaryFile(t, u, p, f)
  PROVE  StorageInv'
<1> DEFINE d == Root[p]
<1>1. /\ Uploading = {} /\ ~ CheckedOut(f) /\ f \in Live \cap Created
      /\ row[f].target = p /\ row' = Moved(f, d)
      /\ primary' = [primary EXCEPT ![p] = f]
      /\ UNCHANGED <<attached, version, stored, members, tasks, thread>>
  BY NothingUploads, RootsAreItems DEF SetPrimaryFile
<1>2. /\ d \in Live \ Files /\ d \notin LiveBelow(f) /\ row[d].target = p
  <2>1. p \in Targets /\ d \in Roots /\ RootsStay(row) /\ row \in [Items -> Row]
    BY DEF Targets, Roots, StorageInv, Tree
  <2>2. d \in Live \ Files /\ d \notin Created
    BY <2>1, RootRows, RootsAreItems, LiveIsLiveIn
  <2>3. row[d].target = p
    <3>1. row[d] = Fresh(None, p)
      BY <2>1 DEF RootsStay
    <3> QED
      BY <2>1, <3>1, FreshType
  <2>4. d \notin LiveBelow(f)
    <3>1. f \in Items /\ f # d
      BY <1>1, <2>2, LiveIsItem
    <3> QED
      BY <2>1, <2>2, <3>1, LiveBelowIsClosed, LiveIsLiveIn DEF LiveBelow
  <2> QED
    BY <2>2, <2>3, <2>4
<1> HIDE DEF d
<1>3. PrimaryFileStays'
  <2>1. ASSUME NEW q \in Preprints, primary'[q] # None
        PROVE  primary'[q] \in Live' /\ row'[primary'[q]].target = q
    <3> DEFINE g == primary'[q]
    <3>0. primary \in [Preprints -> Files \cup {None}]
      BY DEF StorageInv, TypesInv, TypeOK
    <3>1. g \in Live /\ row[g].target = q /\ g \in Items
      <4>1. CASE q = p
        BY <1>1, <3>0, <4>1, LiveIsItem
      <4>2. CASE q # p
        BY <1>1, <2>1, <3>0, <4>2, LiveIsItem DEF StorageInv, PrimaryFileStays
      <4> QED
        BY <4>1, <4>2
    <3>2. g \in Live'
      BY <1>1, <1>2, <3>1, MovedRows DEF Live
    <3> HIDE DEF g
    <3>3. row'[g].target = q
      BY <1>1, <1>2, <3>1, MovedRows
    <3> QED
      BY <3>2, <3>3 DEF g
  <2> QED
    BY <2>1 DEF PrimaryFileStays
<1> QED
  BY <1>1, <1>2, <1>3, MoveKeeps

\* The part of a deletion that Delete and DeleteFilesTask share: nothing in it
\* is checked out or a primary file.
LEMMA TrashKeeps ==
  ASSUME StorageInv, TypesInv', Uploading = {}, NEW i \in Items, ~ CheckedOut(i),
         NEW B, B = LiveBelow(i) \ Roots, row' = Trashed(B),
         UNCHANGED <<attached, version, stored, members, primary, thread>>,
         CheckedOutByMembers => \A f \in Live \cap Files :
           \/ row[f].checkout \in {None} \cup members[row[f].target]
           \/ [fn |-> "checkin", target |-> row[f].target,
               user |-> row[f].checkout] \in tasks',
         \A p \in Preprints : primary[p] \notin B
  PROVE  StorageInv'
<1>1. Tree(row') /\ LiveIn(row') = Live \ B
  BY TrashedTree DEF StorageInv, TypesInv
<1>2. \A j \in B : j \in Items /\ row[j].checkout = None
  BY NotCheckedOut
<1>3. \A j \in Items :
        /\ j \notin B => row'[j] = row[j]
        /\ j \in B => row'[j].type = "trashed" /\ row'[j].checkout = None
  <2> TAKE j \in Items
  <2>1. row[j] \in Row
    BY RowTypes DEF StorageInv, TypesInv
  <2>2. row'[j] = IF j \in B THEN [row[j] EXCEPT !.type = "trashed"] ELSE row[j]
    BY DEF Trashed
  <2> QED
    BY <1>2, <2>1, <2>2 DEF Row
<1>4. Live' = Live \ B /\ Live \subseteq Items
  BY <1>1 DEF Live, LiveIn
<1>5. CheckedOutByMembers'
  BY <1>3, <1>4 DEF StorageInv, CheckedOutByMembers
<1>6. PrimaryFileStays'
  BY <1>3, <1>4 DEF StorageInv, PrimaryFileStays
<1>7. /\ \A j \in Items : row'[j].type = "new" => row'[j] = row[j]
      /\ \A j \in Items : row'[j].type = "trashed" => row'[j].checkout = None
  BY <1>3 DEF StorageInv, RowsAreClean
<1>8. LiveIsStored'
  BY <1>4, StillStored
<1> QED
  BY <1>1, <1>5, <1>6, <1>7, <1>8, RowsChange

\* The primary file of a preprint lies below a live row of that preprint only.
LEMMA PrimaryIsBelow ==
  ASSUME StorageInv, NEW i \in Live, NEW p \in Preprints,
         primary[p] \in LiveBelow(i)
  PROVE  /\ primary[p] # None => row[i].target = p
         /\ IsPrimary(i) \/ primary[p] = None
<1>1. SUFFICES ASSUME primary[p] # None
               PROVE  row[i].target = p /\ IsPrimary(i)
  OBVIOUS
<1>2. primary[p] \in Files /\ row[primary[p]].target = p
  BY <1>1 DEF StorageInv, PrimaryFileStays, TypesInv, TypeOK
<1>3. row[i].target = p
  BY <1>2, OneTarget, LiveIsLiveIn DEF LiveBelow, StorageInv
<1> QED
  BY <1>1, <1>2, <1>3 DEF IsPrimary

LEMMA DeleteKeeps ==
  ASSUME Serial, StorageInv, TypesInv', NEW t \in Threads, NEW u \in Users,
         NEW i \in Created, Delete(t, u, i)
  PROVE  StorageInv'
<1> DEFINE B == LiveBelow(i) \ Roots
<1>1. /\ Uploading = {} /\ i \in Items /\ i \in Live /\ ~ CheckedOut(i)
      /\ ~ IsPrimary(i)
      /\ UNCHANGED <<attached, version, stored, members, primary, tasks, thread>>
  BY NothingUploads DEF Delete, Items
<1>2. row' = Trashed(B)
  <2>1. \A j \in LiveBelow(i) : j = i \/ j \in Created
    BY <1>1, LiveBelowIsClosed, LiveIsLiveIn DEF LiveBelow, StorageInv, Tree
  <2>2. LiveBelow(i) = B
    BY <2>1, RootsAreItems
  <2> QED
    BY <2>2 DEF Delete
<1>3. \A p \in Preprints : primary[p] \notin B
  <2> SUFFICES ASSUME NEW p \in Preprints, primary[p] \in B PROVE FALSE
    OBVIOUS
  <2>1. primary[p] \in Items
    BY <1>1, NotCheckedOut
  <2> QED
    BY <1>1, <2>1, PrimaryIsBelow, RootsAreItems
<1>4. CheckedOutByMembers => \A f \in Live \cap Files :
        \/ row[f].checkout \in {None} \cup members[row[f].target]
        \/ [fn |-> "checkin", target |-> row[f].target,
            user |-> row[f].checkout] \in tasks'
  BY <1>1 DEF CheckedOutByMembers
<1> HIDE DEF B
<1> QED
  BY <1>1, <1>2, <1>3, <1>4, TrashKeeps DEF B

LEMMA DeleteFilesTaskKeeps ==
  ASSUME Serial, StorageInv, TypesInv', NEW t \in Threads, NEW p \in Projects,
         DeleteFilesTask(t, p)
  PROVE  StorageInv'
<1> DEFINE i == Root[p]
           B == LiveBelow(i) \ Roots
<1>1. /\ Uploading = {}
      /\ UNCHANGED <<attached, version, stored, members, primary, thread>>
  BY NothingUploads DEF DeleteFilesTask
<1>2. p \in Targets /\ i \in Items /\ i \in Live /\ row[i].target = p
  <2>1. p \in Targets /\ i \in Roots /\ RootsStay(row) /\ row \in [Items -> Row]
    BY DEF Targets, Roots, StorageInv, Tree
  <2>2. row[i] = Fresh(None, p)
    BY <2>1 DEF RootsStay
  <2> HIDE DEF i
  <2> QED
    BY <2>1, <2>2, RootRows, RootsAreItems, LiveIsLiveIn, FreshType
<1>3. CheckedOutByMembers => \A f \in Live \cap Files :
        \/ row[f].checkout \in {None} \cup members[row[f].target]
        \/ [fn |-> "checkin", target |-> row[f].target,
            user |-> row[f].checkout] \in tasks'
  <2>1. \A e \in tasks : e.fn = "checkin" => e \in tasks'
    BY DEF DeleteFilesTask
  <2> QED
    BY <2>1 DEF CheckedOutByMembers
<1>4. \A q \in Preprints : primary[q] \notin B
  <2> SUFFICES ASSUME NEW q \in Preprints, primary[q] \in LiveBelow(i) PROVE FALSE
    OBVIOUS
  <2>1. primary[q] \in Items
    BY <1>2, LiveBelowIsClosed, LiveIsLiveIn DEF LiveBelow, StorageInv, Tree
  <2>2. p = q
    <3> HIDE DEF i
    <3> QED
      BY <1>2, <2>1, PrimaryIsBelow, RootsAreItems
  <2> QED
    BY <2>2, TargetsAssumption
<1>5. CASE CheckedOut(i)
  <2>1. row' = row
    BY <1>5 DEF DeleteFilesTask
  <2>2. /\ CheckedOutByMembers' /\ LiveIsStored' /\ PrimaryFileStays'
    <3>1. Live' = Live
      BY <2>1 DEF Live
    <3> QED
      BY <1>1, <1>3, <2>1, <3>1
      DEF StorageInv, CheckedOutByMembers, LiveIsStored, PrimaryFileStays
  <2> QED
    BY <1>1, <2>1, <2>2, RowsChange DEF StorageInv, RowsAreClean
<1>6. CASE ~ CheckedOut(i)
  <2>1. row' = Trashed(B)
    BY <1>6 DEF DeleteFilesTask
  <2> HIDE DEF B, i
  <2> QED
    BY <1>1, <1>2, <1>3, <1>4, <1>6, <2>1, TrashKeeps DEF B
<1> QED
  BY <1>5, <1>6

LEMMA CheckinFilesTaskKeeps ==
  ASSUME Serial, StorageInv, TypesInv', NEW t \in Threads, NEW u \in Users,
         NEW p \in Targets, CheckinFilesTask(t, p, u)
  PROVE  StorageInv'
<1> DEFINE task == [fn |-> "checkin", target |-> p, user |-> u]
<1>1. /\ Uploading = {} /\ tasks' = tasks \ {task}
      /\ UNCHANGED <<attached, version, stored, members, primary, thread>>
  BY NothingUploads DEF CheckinFilesTask
<1>2. \A j \in Items :
        /\ row'[j].type = row[j].type /\ row'[j].parent = row[j].parent
        /\ row'[j].target = row[j].target
        /\ row'[j] = row[j] \/ (j \in CheckedIn(p, u) /\ row'[j].checkout = None)
        /\ row'[j] = row[j] => u \in members[p] \/ j \notin CheckedIn(p, u)
                                 \/ row[j].checkout = None
  <2> TAKE j \in Items
  <2>1. row[j] \in Row
    BY RowTypes DEF StorageInv, TypesInv
  <2>2. /\ u \in members[p] => row'[j] = row[j]
        /\ u \notin members[p] =>
             row'[j] = IF j \in CheckedIn(p, u)
                       THEN [row[j] EXCEPT !.checkout = None] ELSE row[j]
    BY DEF CheckinFilesTask
  <2>3. [row[j] EXCEPT !.checkout = None].checkout = None
    BY <2>1 DEF Row
  <2> QED
    BY <2>1, <2>2, <2>3 DEF Row
<1>3. Tree(row')
  <2>1. \A q \in Targets : Root[q] \in Items /\ row'[Root[q]] = row[Root[q]]
    <3>1. \A q \in Targets : Root[q] \in Items \ Files
      BY RootsAreItems
    <3>2. \A j \in CheckedIn(p, u) : j \in Files
      BY DEF CheckedIn
    <3> QED
      BY <1>2, <3>1, <3>2
  <2>2. RootsStay(row') /\ row' \in [Items -> Row]
    BY <2>1 DEF RootsStay, StorageInv, Tree, TypesInv, TypeOK
  <2> QED
    BY <1>2, <2>2, SameTree DEF StorageInv
<1>4. Live' = Live /\ \A f \in Live : f \in Items
  BY <1>2 DEF Live
<1>5. CheckedOutByMembers'
  <2>1. ASSUME NEW f \in Live \cap Files, row'[f].checkout # None,
               row'[f].checkout \notin members[row'[f].target]
        PROVE  [fn |-> "checkin", target |-> row'[f].target,
                user |-> row'[f].checkout] \in tasks'
    <3>1. row'[f] = row[f]
      BY <1>2, <1>4, <2>1
    <3>2. [fn |-> "checkin", target |-> row[f].target,
           user |-> row[f].checkout] \in tasks
      BY <2>1, <3>1 DEF StorageInv, CheckedOutByMembers
    <3>3. row[f].target # p \/ row[f].checkout # u
      BY <1>2, <1>4, <2>1, <3>1 DEF CheckedIn
    <3>4. [fn |-> "checkin", target |-> row[f].target,
           user |-> row[f].checkout] # task
      BY <3>3
    <3> QED
      BY <1>1, <3>1, <3>2, <3>4
  <2> QED
    BY <1>1, <1>4, <2>1 DEF CheckedOutByMembers
<1>6. PrimaryFileStays'
  BY <1>1, <1>2, <1>4 DEF StorageInv, PrimaryFileStays
<1>7. LiveIsStored'
  BY <1>1, <1>4, StillStored
<1>8. /\ \A j \in Items : row'[j].type = "new" => row'[j] = row[j]
      /\ \A j \in Items : row'[j].type = "trashed" => row'[j].checkout = None
  BY <1>2 DEF CheckedIn, Live, StorageInv, RowsAreClean
<1> QED
  BY <1>1, <1>3, <1>5, <1>6, <1>7, <1>8, RowsChange

\* What a file that is not deleted has stays in the bucket.
LEMMA PurgeTrashKeeps ==
  ASSUME Serial, StorageInv, TypesInv', NEW t \in Threads, NEW f \in Files,
         PurgeTrash(t, f)
  PROVE  StorageInv'
<1>1. /\ Uploading = {} /\ f \in Items /\ row[f].type = "trashed"
      /\ row' = [row EXCEPT ![f].purged = TRUE]
      /\ stored' = stored \ {version[v].object : v \in {w \in attached[f] : ~ Kept(w)}}
      /\ UNCHANGED <<attached, version, members, primary, tasks, thread>>
  BY NothingUploads, RootsAreItems DEF PurgeTrash, Items
<1>2. \A j \in Items :
        /\ row'[j].type = row[j].type /\ row'[j].parent = row[j].parent
        /\ row'[j].target = row[j].target /\ row'[j].checkout = row[j].checkout
        /\ row[j].type # "trashed" => row'[j] = row[j]
  <2> TAKE j \in Items
  <2>1. row[j] \in Row /\ row \in [Items -> Row]
    BY RowTypes DEF StorageInv, Tree, TypesInv
  <2>2. row'[j] = IF j = f THEN [row[j] EXCEPT !.purged = TRUE] ELSE row[j]
    BY <1>1, <2>1
  <2> QED
    BY <1>1, <2>1, <2>2 DEF Row
<1>3. Tree(row')
  <2>1. \A q \in Targets : Root[q] \in Items /\ row'[Root[q]] = row[Root[q]]
    <3>1. RootsStay(row) /\ \A q \in Targets : Root[q] \in Items /\ Root[q] \in Roots
      BY RootsAreItems DEF StorageInv, Tree, Roots
    <3> QED
      BY <1>2, <3>1, RootRows
  <2>2. RootsStay(row') /\ row' \in [Items -> Row]
    BY <2>1 DEF RootsStay, StorageInv, Tree, TypesInv, TypeOK
  <2> QED
    BY <1>2, <2>2, SameTree DEF StorageInv
<1>4. Live' = Live /\ Live \subseteq Items
  BY <1>2 DEF Live
<1>5. CheckedOutByMembers'
  BY <1>1, <1>2, <1>4 DEF StorageInv, CheckedOutByMembers
<1>6. PrimaryFileStays'
  BY <1>1, <1>2, <1>4 DEF StorageInv, PrimaryFileStays
<1>7. LiveIsStored'
  <2>1. ASSUME NEW g \in Live \cap Files, NEW v \in attached[g]
        PROVE  version[v].object \in stored'
    <3>1. version[v].object \in stored
      BY <2>1 DEF StorageInv, LiveIsStored
    <3>2. \A w \in attached[f] : version[w].object = version[v].object => Kept(w)
      BY <2>1 DEF Kept
    <3> QED
      BY <1>1, <3>1, <3>2
  <2> QED
    BY <1>1, <1>4, <2>1 DEF LiveIsStored
<1>8. /\ \A j \in Items : row'[j].type = "new" => row'[j] = row[j]
      /\ \A j \in Items : row'[j].type = "trashed" => row'[j].checkout = None
  BY <1>2 DEF StorageInv, RowsAreClean
<1> QED
  BY <1>1, <1>3, <1>5, <1>6, <1>7, <1>8, RowsChange

\* Steps that leave the files alone.
LEMMA FilesAlone ==
  ASSUME StorageInv, TypesInv', Uploading = {}, UNCHANGED <<files, primary, thread>>,
         CheckedOutByMembers'
  PROVE  StorageInv'
<1>1. UNCHANGED <<row, attached, version, stored, primary, thread>> /\ Live' = Live
  BY DEF files, Live
<1>2. LiveIsStored' /\ PrimaryFileStays' /\ Tree(row')
  BY <1>1 DEF StorageInv, LiveIsStored, PrimaryFileStays
<1> QED
  BY <1>1, <1>2, RowsChange DEF StorageInv, RowsAreClean

LEMMA AddContributorKeeps ==
  ASSUME Serial, StorageInv, TypesInv', NEW t \in Threads, NEW u \in Users,
         NEW p \in Targets, AddContributor(t, p, u)
  PROVE  StorageInv'
<1>1. Uploading = {} /\ UNCHANGED <<files, primary, thread, tasks, row>>
  BY NothingUploads DEF AddContributor, files
<1>2. members \in [Targets -> SUBSET Users]
  BY DEF StorageInv, TypesInv, TypeOK
<1>3. \A q \in Targets : members[q] \subseteq members'[q]
  BY <1>2 DEF AddContributor
<1>4. \A i \in Live : row[i].target \in Targets
  <2>1. \A i \in Live : i \in Roots \/ i \in Created
    BY DEF Live, Items
  <2> QED
    BY <2>1, LiveIsLiveIn, RootRows DEF StorageInv, Tree, Hanging
<1>5. CheckedOutByMembers'
  BY <1>1, <1>3, <1>4 DEF StorageInv, CheckedOutByMembers, Live
<1> QED
  BY <1>1, <1>5, FilesAlone

LEMMA RemoveContributorKeeps ==
  ASSUME Serial, StorageInv, TypesInv', NEW t \in Threads, NEW u \in Users,
         NEW p \in Targets, RemoveContributor(t, p, u)
  PROVE  StorageInv'
<1> DEFINE task == [fn |-> "checkin", target |-> p, user |-> u]
<1>1. /\ Uploading = {} /\ UNCHANGED <<files, primary, thread, row>>
      /\ tasks' = tasks \cup {task}
      /\ members' = [members EXCEPT ![p] = @ \ {u}]
  BY NothingUploads DEF RemoveContributor, files
<1>2. members \in [Targets -> SUBSET Users]
  BY DEF StorageInv, TypesInv, TypeOK
<1>3. \A i \in Live : row[i].target \in Targets
  <2>1. \A i \in Live : i \in Roots \/ i \in Created
    BY DEF Live, Items
  <2> QED
    BY <2>1, LiveIsLiveIn, RootRows DEF StorageInv, Tree, Hanging
<1>4. CheckedOutByMembers'
  <2>1. ASSUME NEW f \in Live \cap Files, row[f].checkout # None,
               row[f].checkout \notin members'[row[f].target]
        PROVE  [fn |-> "checkin", target |-> row[f].target,
                user |-> row[f].checkout] \in tasks'
    <3>1. CASE row[f].checkout \in members[row[f].target]
      <4>1. row[f].target = p /\ row[f].checkout = u
        BY <1>1, <1>2, <1>3, <2>1, <3>1
      <4> QED
        BY <1>1, <4>1
    <3>2. CASE row[f].checkout \notin members[row[f].target]
      BY <1>1, <2>1, <3>2 DEF StorageInv, CheckedOutByMembers
    <3> QED
      BY <3>1, <3>2
  <2> QED
    BY <1>1, <2>1 DEF CheckedOutByMembers, Live
<1> QED
  BY <1>1, <1>4, FilesAlone

LEMMA RemoveNodeKeeps ==
  ASSUME Serial, StorageInv, TypesInv', NEW t \in Threads, NEW p \in Projects,
         RemoveNode(t, p)
  PROVE  StorageInv'
<1>1. /\ Uploading = {} /\ UNCHANGED <<files, primary, thread, row, members>>
      /\ tasks \subseteq tasks'
  BY NothingUploads DEF RemoveNode, files
<1>2. CheckedOutByMembers'
  BY <1>1 DEF StorageInv, CheckedOutByMembers, Live
<1> QED
  BY <1>1, <1>2, FilesAlone

LEMMA CopyUnderKeeps ==
  ASSUME Serial, StorageInv, TypesInv', NEW t \in Threads, NEW u \in Users,
         NEW i \in Live \cap Created, NEW d \in Live \ Files,
         NEW clone \in Clones(i), CopyUnder(t, u, i, d, clone)
  PROVE  StorageInv'
<1> DEFINE K == Copies(clone)
<1>1. /\ Uploading = {} /\ row' = Copied(i, d, clone)
      /\ attached' = [c \in Files |-> IF c \in K THEN attached[Original(clone, c)]
                                      ELSE attached[c]]
      /\ UNCHANGED <<version, stored, members, primary, tasks, thread>>
  BY NothingUploads DEF CopyUnder
<1>2. /\ Tree(row') /\ LiveIn(row') = Live \cup K
      /\ \A c \in K : row'[c].checkout = None
      /\ \A c \in Items \ K : row'[c] = row[c]
  BY <1>1, CopiedTree DEF StorageInv, TypesInv
<1>3. \A c \in K :
        /\ c \in Created /\ row[c].type = "new"
        /\ c \in Files => Original(clone, c) \in Files \cap Live
  <2>1. LiveBelow(i) \subseteq Live
    BY OneTarget, LiveIsLiveIn DEF LiveBelow, StorageInv
  <2> QED
    BY <2>1, ClonesAreNew
<1> HIDE DEF K
<1>4. /\ Live' = Live \cup K /\ Live \cap K = {}
      /\ Live \subseteq Items /\ K \subseteq Items
  BY <1>2, <1>3 DEF Live, LiveIn, Items
<1>5. RowsAreClean'
  <2>1. \A j \in Items : row'[j].type # "active" => j \notin K /\ row'[j] = row[j]
    BY <1>2, <1>4 DEF Live
  <2>2. \A f \in Files : f \in Items
    BY RootsAreItems DEF Items
  <2> QED
    BY <1>1, <2>1, <2>2 DEF StorageInv, RowsAreClean
<1>6. \A f \in Files : \E g \in Files : attached'[f] = attached[g]
  BY <1>1, <1>3
<1>7. Numbered'
  <2> DEFINE Counted(vs) ==
        /\ \A v \in vs : version[v].identifier \in 1..Cardinality(vs)
        /\ \A v, w \in vs : version[v].identifier = version[w].identifier => v = w
        /\ \A n \in 1..Cardinality(vs) : \E v \in vs : version[v].identifier = n
  <2>1. \A g \in Files : Counted(attached[g])
    BY DEF StorageInv, Numbered
  <2>2. version' = version
    BY <1>1
  <2>3. (\A f \in Files : Counted(attached'[f])) => Numbered'
    BY <2>2 DEF Numbered
  <2> HIDE DEF Counted
  <2> QED
    BY <1>6, <2>1, <2>3
<1>8. CheckedOutByMembers'
  BY <1>1, <1>2, <1>4 DEF StorageInv, CheckedOutByMembers
<1>9. LiveIsStored'
  <2>1. \A f \in Live' \cap Files :
          \E g \in Live \cap Files : attached'[f] = attached[g]
    BY <1>1, <1>3, <1>4
  <2> QED
    BY <1>1, <2>1 DEF StorageInv, LiveIsStored
<1>10. PrimaryFileStays'
  BY <1>1, <1>2, <1>4 DEF StorageInv, PrimaryFileStays
<1>11. UploadsAreFresh'
  BY <1>1 DEF UploadsAreFresh, Uploading
<1> QED
  BY <1>2, <1>5, <1>7, <1>8, <1>9, <1>10, <1>11 DEF StorageInv

LEMMA LoadUploadKeeps ==
  ASSUME Serial, StorageInv, TypesInv', NEW t \in Threads, NEW u \in Users,
         NEW f \in Files, NEW parent \in Live \ Files, NEW object \in Objects,
         LoadUpload(t, u, f, parent, object)
  PROVE  StorageInv'
<1>1. /\ stored' = stored \cup {object}
      /\ UNCHANGED <<row, attached, version, members, primary, tasks>>
  BY DEF LoadUpload
<1>2. Live' = Live
  BY <1>1 DEF Live
<1>3. /\ Tree(row') /\ RowsAreClean' /\ Numbered' /\ CheckedOutByMembers'
      /\ LiveIsStored' /\ PrimaryFileStays'
  BY <1>1, <1>2 DEF StorageInv, RowsAreClean, Numbered, CheckedOutByMembers,
                    LiveIsStored, PrimaryFileStays
<1>4. UploadsAreFresh'
  <2> DEFINE new == Fresh(parent, row[parent].target)
             r == [op |-> "upload", user |-> u, file |-> f, seen |-> attached[f],
                   object |-> object,
                   row |-> IF row[f].type = "new" THEN new ELSE row[f]]
  <2>1. new.checkout = None
    BY LiveIsItem, RowTypes, FreshType DEF StorageInv, TypesInv
  <2>2. /\ r.user = u /\ r.file = f /\ r.seen = attached[f] /\ r.object = object
        /\ r.row = IF row[f].type = "new" THEN new ELSE row[f]
    OBVIOUS
  <2> HIDE DEF r, new
  <2>3. \A s \in Threads : thread'[s] = r
    <3>1. thread' = [thread EXCEPT ![t] = r]
      BY DEF LoadUpload, r, new
    <3> QED
      BY <3>1 DEF Serial, StorageInv, TypesInv, TypeOK
  <2>4. row[f].type \in {"new", "active"} /\ row[f].checkout \in {None, u}
    BY DEF LoadUpload
  <2>5. \A s \in Uploading' : thread'[s] = r
    BY <2>3 DEF Uploading
  <2>6. /\ r.seen = attached'[r.file] /\ r.object \in stored'
        /\ r.row.checkout \in {None, r.user}
        /\ \/ r.row = row'[r.file] /\ row'[r.file].type = "active"
           \/ /\ row'[r.file].type = "new"
              /\ \E d \in Live' \ Files : r.row = Fresh(d, row'[d].target)
    <3>1. CASE row[f].type = "new"
      BY <1>1, <1>2, <2>1, <2>2, <3>1 DEF new
    <3>2. CASE row[f].type = "active"
      BY <1>1, <2>2, <2>4, <3>2
    <3> QED
      BY <2>4, <3>1, <3>2
  <2> QED
    BY <2>5, <2>6 DEF UploadsAreFresh
<1> QED
  BY <1>3, <1>4 DEF StorageInv

LEMMA SaveUploadKeeps ==
  ASSUME Serial, StorageInv, TypesInv', NEW t \in Threads, SaveUpload(t)
  PROVE  StorageInv'
<1> DEFINE r == thread[t]
           f == r.file
           n == Len(version) + 1
<1>1. /\ r \in Upload /\ t \in Uploading /\ f \in Files /\ f \in Created /\ f \in Items
      /\ UNCHANGED <<stored, members, primary, tasks>>
  BY IdleIsNotUpload, RootsAreItems
  DEF SaveUpload, StorageInv, TypesInv, TypeOK, Uploading, Upload, Items
<1>2. /\ r.seen = attached[f] /\ r.object \in stored
      /\ r.row.checkout \in {None, r.user}
      /\ \/ r.row = row[f] /\ row[f].type = "active"
         \/ /\ row[f].type = "new"
            /\ \E d \in Live \ Files : r.row = Fresh(d, row[d].target)
  BY <1>1 DEF StorageInv, UploadsAreFresh
<1>3. UploadsAreFresh'
  <2>1. \A s \in Threads : thread'[s] = Idle
    BY DEF Serial, SaveUpload, StorageInv, TypesInv, TypeOK
  <2> QED
    BY <2>1, IdleIsNotUpload DEF UploadsAreFresh, Uploading
<1>4. CASE UNCHANGED <<row, attached, version>>
  <2>1. Live' = Live
    BY <1>4 DEF Live
  <2>2. /\ Tree(row') /\ RowsAreClean' /\ Numbered' /\ CheckedOutByMembers'
        /\ LiveIsStored' /\ PrimaryFileStays'
    BY <1>1, <1>4, <2>1
    DEF StorageInv, RowsAreClean, Numbered, CheckedOutByMembers, LiveIsStored,
        PrimaryFileStays
  <2> QED
    BY <1>3, <2>2 DEF StorageInv
<1>5. CASE ~ IsDuplicate(r)
  <2> DEFINE e == [object |-> r.object, identifier |-> NextIdentifier(r.seen)]
  <2>1. /\ version' = Append(version, e)
        /\ attached' = [attached EXCEPT ![f] = @ \cup {n}]
        /\ row' = [row EXCEPT ![f] = r.row]
    BY <1>5 DEF SaveUpload
  <2>2. e.object \in stored /\ e.identifier = Cardinality(attached[f]) + 1
    BY <1>2 DEF NextIdentifier
  <2> HIDE DEF e
  <2>3. /\ row \in [Items -> Row] /\ attached \in [Files -> SUBSET (1..Len(version))]
        /\ version \in Seq([object : Objects, identifier : 1..MaxVersions])
        /\ n \in Nat /\ n \notin 1..Len(version) /\ Len(version) \in Nat
    BY DEF StorageInv, TypesInv, TypeOK
  <2>4. version'[n] = e /\ \A v \in 1..Len(version) : version'[v] = version[v]
    <3>1. \A v \in 1..n : version'[v] = IF v <= Len(version) THEN version[v] ELSE e
      BY <2>1, <2>3
    <3> QED
      BY <2>3, <3>1
  <2>5. /\ attached'[f] = attached[f] \cup {n} /\ n \notin attached[f]
        /\ \A g \in Files : g # f => attached'[g] = attached[g]
        /\ \A g \in Files : attached[g] \subseteq 1..Len(version)
    BY <1>1, <2>1, <2>3
  <2>6. row'[f] = r.row /\ \A j \in Items : j # f => row'[j] = row[j]
    BY <1>1, <2>1, <2>3
  <2> HIDE DEF r, f, n
  <2>7. /\ row'[f].type = "active" /\ Tree(row')
        /\ row'[f] = row[f] \/ (row'[f].checkout = None /\ f \notin Live)
    <3>1. CASE r.row = row[f] /\ row[f].type = "active"
      <4>1. row' = row
        BY <1>1, <2>1, <2>3, <3>1
      <4> QED
        BY <3>1, <4>1 DEF StorageInv
    <3>2. CASE /\ row[f].type = "new"
               /\ \E d \in Live \ Files : r.row = Fresh(d, row[d].target)
      <4>1. PICK d \in Live \ Files : r.row = Fresh(d, row[d].target)
        BY <3>2
      <4>2. d \in Items /\ row[d].target \in Targets \cup {None}
        BY LiveIsItem, RowTypes DEF StorageInv, TypesInv
      <4>3. r.row.type = "active" /\ r.row.checkout = None
        BY <4>1, <4>2, FreshType
      <4>4. Tree(row')
        BY <1>1, <2>1, <3>2, <4>1, AddedTree, LiveIsLiveIn DEF StorageInv
      <4> QED
        BY <2>6, <3>2, <4>3, <4>4 DEF Live
    <3> QED
      BY <1>2, <3>1, <3>2 DEF f, r
  <2>8. Live' = Live \cup {f}
    BY <1>1, <2>6, <2>7 DEF Live
  <2>9. \A j \in Live : row'[j] = row[j] /\ j \in Items
    BY <2>6, <2>7 DEF Live
  <2>10. RowsAreClean'
    <3>1. \A j \in Items : row'[j].type # "active" => j # f /\ row'[j] = row[j]
      BY <2>6, <2>7
    <3>2. \A g \in Files : g \in Items
      BY RootsAreItems DEF Items
    <3> QED
      BY <2>5, <3>1, <3>2 DEF StorageInv, RowsAreClean
  <2>11. CheckedOutByMembers'
    <3>1. ASSUME NEW g \in Live' \cap Files, row'[g].checkout # None
          PROVE  g \in Live /\ row'[g] = row[g]
      <4>1. g # f \/ row'[f] = row[f]
        BY <2>7, <3>1
      <4>2. g \in Items /\ row'[g].type = "active"
        BY <3>1 DEF Live
      <4> QED
        BY <2>6, <4>1, <4>2 DEF Live
    <3>2. members' = members /\ tasks' = tasks
      BY <1>1
    <3> QED
      BY <3>1, <3>2 DEF StorageInv, CheckedOutByMembers
  <2>12. PrimaryFileStays'
    BY <1>1, <2>8, <2>9 DEF StorageInv, PrimaryFileStays
  <2>13. LiveIsStored'
    <3>1. ASSUME NEW g \in Live' \cap Files, NEW v \in attached'[g]
          PROVE  version'[v].object \in stored'
      <4>1. CASE g = f /\ v = n
        BY <1>1, <2>2, <2>4, <4>1
      <4>2. CASE v \in attached[g] /\ g \in Live
        BY <1>1, <2>4, <2>5, <4>2 DEF StorageInv, LiveIsStored
      <4>3. CASE g \notin Live
        <5>1. g = f /\ attached[f] = {}
          <6>1. row[f].type = "new"
            BY <1>2, <2>8, <4>3, <1>1 DEF Live, f, r
          <6> QED
            BY <1>1, <2>8, <4>3, <6>1 DEF StorageInv, RowsAreClean
        <5> QED
          BY <2>5, <4>1, <5>1
      <4> QED
        BY <2>5, <4>1, <4>2, <4>3
    <3> QED
      BY <3>1 DEF LiveIsStored
  <2>14. Numbered'
    <3>1. ASSUME NEW g \in Files
          PROVE  LET vs == attached'[g] IN
                 /\ \A v \in vs : version'[v].identifier \in 1..Cardinality(vs)
                 /\ \A v, w \in vs : version'[v].identifier = version'[w].identifier
                                       => v = w
                 /\ \A m \in 1..Cardinality(vs) : \E v \in vs :
                      version'[v].identifier = m
      <4> DEFINE vs == attached[g]
      <4>1. /\ \A v \in vs : version[v].identifier \in 1..Cardinality(vs)
            /\ \A v, w \in vs : version[v].identifier = version[w].identifier => v = w
            /\ \A m \in 1..Cardinality(vs) : \E v \in vs : version[v].identifier = m
        BY DEF StorageInv, Numbered
      <4>2. \A v \in vs : version'[v] = version[v]
        BY <2>4, <2>5
      <4>3. CASE g # f
        BY <2>5, <4>1, <4>2, <4>3
      <4>4. CASE g = f
        <5> DEFINE ws == attached'[g]
        <5>1. ws = vs \cup {n} /\ n \notin vs /\ vs \subseteq 1..Len(version)
          BY <2>5, <4>4
        <5>2. version'[n].identifier = Cardinality(vs) + 1
          BY <2>2, <2>4, <4>4
        <5> HIDE DEF vs, ws
        <5>3. IsFiniteSet(vs) /\ Cardinality(vs) \in Nat
          BY <2>3, <5>1, UpTo, FS_Subset, FS_CardinalityType
        <5>4. Cardinality(ws) = Cardinality(vs) + 1
          BY <5>1, <5>3, FS_AddElement
        <5>5. \A v \in ws : version'[v].identifier \in 1..Cardinality(ws)
          BY <4>1, <4>2, <5>1, <5>2, <5>3, <5>4
        <5>6. \A v, w \in ws : version'[v].identifier = version'[w].identifier => v = w
          <6>1. \A v \in vs : version'[v].identifier # version'[n].identifier
            BY <4>1, <4>2, <5>2, <5>3
          <6> QED
            BY <4>1, <4>2, <5>1, <6>1
        <5>7. \A m \in 1..Cardinality(ws) : \E v \in ws : version'[v].identifier = m
          <6>1. \A m \in 1..Cardinality(ws) :
                  m \in 1..Cardinality(vs) \/ m = Cardinality(vs) + 1
            BY <5>3, <5>4
          <6> QED
            BY <4>1, <4>2, <5>1, <5>2, <6>1
        <5> QED
          BY <5>5, <5>6, <5>7 DEF ws
      <4> QED
        BY <4>3, <4>4
    <3> QED
      BY <3>1 DEF Numbered
  <2> QED
    BY <1>3, <2>7, <2>10, <2>11, <2>12, <2>13, <2>14 DEF StorageInv
<1> QED
  BY <1>4, <1>5 DEF SaveUpload

LEMMA StorageNext ==
  ASSUME Serial, StorageInv, [Next]_vars
  PROVE  StorageInv'
<1>1. TypesInv'
  BY TypesNext DEF StorageInv
<1>2. CASE UNCHANGED vars
  <2>1. UNCHANGED <<row, attached, version, stored, members, primary, tasks, thread>>
        /\ Live' = Live /\ Uploading' = Uploading
    BY <1>2 DEF vars, files, Live, Uploading
  <2> QED
    BY <1>1, <2>1
    DEF StorageInv, RowsAreClean, UploadsAreFresh, Numbered,
        CheckedOutByMembers, LiveIsStored, PrimaryFileStays
<1> QED
  BY <1>1, <1>2, CreateFolderKeeps, LoadUploadKeeps, SaveUploadKeeps,
     CheckInOrOutKeeps, DeleteKeeps, MoveUnderKeeps, CopyUnderKeeps,
     SetPrimaryFileKeeps, AddContributorKeeps, RemoveContributorKeeps,
     CheckinFilesTaskKeeps, PurgeTrashKeeps, RemoveNodeKeeps,
     DeleteFilesTaskKeeps DEF Next

\* One request after the other, all that the invariant says stays so.
THEOREM Safety == Serial => (Spec => []StorageInv)
<1> SUFFICES ASSUME Serial PROVE Spec => []StorageInv
  OBVIOUS
<1>1. StorageInv /\ [Next]_vars => StorageInv'
  BY StorageNext
<1> QED
  BY StorageInit, <1>1, PTL DEF Spec

\* The n versions of a file bear the numbers from 1 to n, each just once.
THEOREM VersionsKeepNumbers == Serial => (Spec => []VersionsAreNumbered)
<1>1. Numbered => VersionsAreNumbered
  <2> SUFFICES ASSUME Numbered, NEW f \in Files,
                      NEW n \in 1..Cardinality(attached[f])
               PROVE  Cardinality({v \in attached[f] : version[v].identifier = n}) = 1
    BY DEF VersionsAreNumbered
  <2>1. PICK v \in attached[f] : version[v].identifier = n
    BY DEF Numbered
  <2>2. {w \in attached[f] : version[w].identifier = n} = {v}
    BY <2>1 DEF Numbered
  <2>3. Cardinality({v}) = 1
    BY FS_Singleton
  <2> QED
    BY <2>2, <2>3
<1>2. StorageInv => VersionsAreNumbered
  BY <1>1 DEF StorageInv
<1> QED
  BY <1>2, Safety, PTL

\* A file is checked out by a contributor, or about to be checked in.
THEOREM MembersCheckOut == Serial => (Spec => []CheckedOutByMembers)
<1>1. StorageInv => CheckedOutByMembers
  BY DEF StorageInv
<1> QED
  BY <1>1, Safety, PTL

\* What is live is reached from the root of its own target.
THEOREM LiveStaysReached == Serial => (Spec => []LiveIsReached)
<1>1. StorageInv => LiveIsReached
  <2> SUFFICES ASSUME StorageInv PROVE LiveIsReached
    OBVIOUS
  <2>1. Live \subseteq UNION {LiveBelow(r) : r \in Roots}
    BY LiveIsLiveIn DEF StorageInv, Tree, Reached, LiveBelow
  <2>2. \A i \in Live \cap Created : row[i].target = row[row[i].parent].target
    BY LiveIsLiveIn DEF StorageInv, Tree, Hanging
  <2> QED
    BY <2>1, <2>2 DEF LiveIsReached
<1> QED
  BY <1>1, Safety, PTL

\* No purge takes the content of a live file.
THEOREM LiveStaysStored == Serial => (Spec => []LiveIsStored)
<1>1. StorageInv => LiveIsStored
  BY DEF StorageInv
<1> QED
  BY <1>1, Safety, PTL

\* The primary file of a preprint is neither trashed nor moved elsewhere.
THEOREM PrimaryFileIsKept == Serial => (Spec => []PrimaryFileStays)
<1>1. StorageInv => PrimaryFileStays
  BY DEF StorageInv
<1> QED
  BY <1>1, Safety, PTL

LEMMA CheckedOutStep ==
  ASSUME Serial, StorageInv, Next, NEW f \in Files, row[f].checkout # None,
         row'[f].checkout = row[f].checkout
  PROVE  row'[f] = row[f] /\ (attached'[f] # attached[f] =>
           \E t \in Uploading :
             thread[t].user = row[f].checkout /\ thread[t].file = f)
<1>1. /\ f \in Created /\ f \in Items /\ row \in [Items -> Row] /\ row[f] \in Row
      /\ attached \in [Files -> SUBSET (1..Len(version))]
      /\ row[f].type = "active" /\ f \in Live
  <2>1. /\ f \in Created /\ f \in Items
    BY RootsAreItems DEF Items
  <2>2. row[f].type # "new"
    BY <2>1 DEF StorageInv, RowsAreClean, Unused
  <2> QED
    BY <2>1, <2>2, RowTypes DEF Live, StorageInv, RowsAreClean, TypesInv, TypeOK
<1>2. ASSUME UNCHANGED <<row, attached>>
      PROVE  row'[f] = row[f] /\ attached'[f] = attached[f]
  BY <1>2
<1>3. ASSUME NEW t \in Threads, NEW u \in Users, NEW i \in Folders,
             NEW parent \in Live \ Files, CreateFolder(t, u, i, parent)
      PROVE  row'[f] = row[f] /\ attached'[f] = attached[f]
  BY <1>1, <1>3, TargetsAssumption DEF CreateFolder
<1>4. ASSUME NEW t \in Threads, NEW u \in Users, NEW i \in Created,
             CheckInOrOut(t, u, i)
      PROVE  row'[f] = row[f] /\ attached'[f] = attached[f]
  <2>1. CASE i = f
    <3>1. f \in Below(row, f, Created)
      BY BelowHangs
    <3>2. CheckedOut(i)
      BY <1>1, <2>1, <3>1 DEF CheckedOut
    <3>3. row' = [row EXCEPT ![f].checkout = None]
      BY <1>4, <2>1, <3>2 DEF CheckInOrOut
    <3>4. row'[f].checkout = None
      BY <1>1, <3>3 DEF Row
    <3> QED
      BY <3>4
  <2>2. CASE i # f
    BY <1>1, <1>4, <2>2 DEF CheckInOrOut
  <2> QED
    BY <2>1, <2>2
<1>5. ASSUME NEW i \in Items, ~ CheckedOut(i) PROVE f \notin LiveBelow(i)
  BY <1>5, NotCheckedOut
<1>6. ASSUME NEW t \in Threads, NEW u \in Users, NEW i \in Created, Delete(t, u, i)
      PROVE  row'[f] = row[f] /\ attached'[f] = attached[f]
  <2>1. f \notin LiveBelow(i)
    BY <1>5, <1>6 DEF Delete, Items
  <2> QED
    BY <1>1, <1>6, <2>1 DEF Delete, Trashed
<1>7. ASSUME NEW t \in Threads, NEW u \in Users, NEW i \in Live \cap Created,
             NEW d \in Live \ Files, MoveUnder(t, u, i, d)
      PROVE  row'[f] = row[f] /\ attached'[f] = attached[f]
  <2>1. f \notin LiveBelow(i)
    BY <1>5, <1>7, LiveIsItem DEF MoveUnder
  <2> QED
    BY <1>1, <1>7, <2>1, MovedRows DEF MoveUnder
<1>8. ASSUME NEW t \in Threads, NEW u \in Users, NEW i \in Live \cap Created,
             NEW d \in Live \ Files, NEW clone \in Clones(i),
             CopyUnder(t, u, i, d, clone)
      PROVE  row'[f] = row[f] /\ attached'[f] = attached[f]
  <2>1. f \notin Copies(clone)
    BY <1>1, ClonesAreNew
  <2> QED
    BY <1>1, <1>8, <2>1 DEF CopyUnder, Copied
<1>9. ASSUME NEW t \in Threads, NEW u \in Users, NEW p \in Preprints,
             NEW g \in Files, SetPrimaryFile(t, u, p, g)
      PROVE  row'[f] = row[f] /\ attached'[f] = attached[f]
  <2>1. g \in Live \cap Created /\ ~ CheckedOut(g) /\ Root[p] \in Live \ Files
    <3>1. g \in Live \cap Created /\ ~ CheckedOut(g)
      BY <1>9, RootsAreItems DEF SetPrimaryFile
    <3>2. p \in Targets /\ Root[p] \in Roots
      BY DEF Targets, Roots
    <3> QED
      BY <3>1, <3>2, RootRows, RootsAreItems, LiveIsLiveIn DEF StorageInv, Tree
  <2>2. f \notin LiveBelow(g)
    BY <1>5, <2>1, LiveIsItem
  <2> QED
    BY <1>1, <1>9, <2>1, <2>2, MovedRows DEF SetPrimaryFile
<1>10. ASSUME NEW t \in Threads, NEW u \in Users, NEW p \in Targets,
              CheckinFilesTask(t, p, u)
       PROVE  row'[f] = row[f] /\ attached'[f] = attached[f]
  <2>1. CASE f \in CheckedIn(p, u) /\ u \notin members[p]
    <3>1. row'[f] = [row[f] EXCEPT !.checkout = None]
      BY <1>1, <1>10, <2>1 DEF CheckinFilesTask
    <3>2. row'[f].checkout = None
      BY <1>1, <3>1 DEF Row
    <3> QED
      BY <3>2
  <2>2. CASE f \notin CheckedIn(p, u) \/ u \in members[p]
    BY <1>1, <1>10, <2>2 DEF CheckinFilesTask
  <2> QED
    BY <2>1, <2>2
<1>11. ASSUME NEW t \in Threads, NEW g \in Files, PurgeTrash(t, g)
       PROVE  row'[f] = row[f] /\ attached'[f] = attached[f]
  BY <1>1, <1>11 DEF PurgeTrash
<1>12. ASSUME NEW t \in Threads, NEW p \in Projects, DeleteFilesTask(t, p)
       PROVE  row'[f] = row[f] /\ attached'[f] = attached[f]
  <2>1. Root[p] \in Items
    BY RootsAreItems DEF Targets
  <2>2. ~ CheckedOut(Root[p]) => f \notin LiveBelow(Root[p])
    BY <1>5, <2>1
  <2> QED
    BY <1>1, <1>12, <2>2 DEF DeleteFilesTask, Trashed
<1>13. ASSUME NEW t \in Threads, SaveUpload(t)
       PROVE  row'[f] = row[f] /\ (attached'[f] # attached[f] =>
                t \in Uploading /\ thread[t].user = row[f].checkout
                /\ thread[t].file = f)
  <2> DEFINE r == thread[t]
  <2>1. /\ r \in Upload /\ t \in Uploading
        /\ r.row.checkout \in {None, r.user}
        /\ \/ r.row = row[r.file] /\ row[r.file].type = "active"
           \/ row[r.file].type = "new"
    BY <1>13, IdleIsNotUpload
    DEF SaveUpload, StorageInv, TypesInv, TypeOK, Uploading, UploadsAreFresh
  <2>2. CASE r.file = f
    <3>1. r.row = row[f] /\ r.user = row[f].checkout
      BY <1>1, <2>1, <2>2
    <3> QED
      BY <1>1, <1>13, <2>1, <2>2, <3>1 DEF SaveUpload
  <2>3. CASE r.file # f
    BY <1>1, <1>13, <2>1, <2>3 DEF SaveUpload
  <2> QED
    BY <2>2, <2>3
<1> QED
  BY <1>2, <1>3, <1>4, <1>6, <1>7, <1>8, <1>9, <1>10, <1>11, <1>12, <1>13
  DEF Next, LoadUpload, AddContributor, RemoveContributor, RemoveNode, files

\* As long as a file stays checked out, only an upload of who checked it out
\* changes it.
THEOREM CheckedOutStaysAsItIs == Serial => (Spec => CheckedOutIsKept)
<1> SUFFICES ASSUME Serial PROVE Spec => CheckedOutIsKept
  OBVIOUS
<1> DEFINE A == \A f \in Files :
                  LET u == row[f].checkout IN
                  u # None /\ row'[f].checkout = u =>
                    /\ row'[f] = row[f]
                    /\ attached'[f] # attached[f] =>
                         \E t \in Uploading : thread[t].user = u /\ thread[t].file = f
<1>1. StorageInv /\ [Next]_vars => [A]_vars
  BY CheckedOutStep
<1>2. Spec => [][A]_vars
  BY <1>1, Safety, PTL DEF Spec
<1> QED
  BY <1>2 DEF CheckedOutIsKept
=============================================================================
