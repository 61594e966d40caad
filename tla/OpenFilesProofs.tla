-------------------------- MODULE OpenFilesProofs --------------------------
(***************************************************************************)
(* Proofs about OpenFiles for every number of descriptors, every finite    *)
(* set of inodes and every bound.                                          *)
(***************************************************************************)
EXTENDS OpenFiles, FiniteSetTheorems, FunctionTheorems,
        WellFoundedInduction, TLAPS

-----------------------------------------------------------------------------
(***************************************************************************)
(* Natural numbers                                                         *)
(***************************************************************************)
\* A set of natural numbers that is not empty has a least element.
LEMMA Least ==
  ASSUME NEW S \in SUBSET Nat, S # {}
  PROVE  \E n \in S : \A m \in S : n <= m
<1> DEFINE R == {p \in Nat \X Nat : p[1] < p[2]}
<1>1. R = OpToRel(<, Nat)
  BY DEF OpToRel
<1>2. IsWellFoundedOn(R, Nat)
  BY <1>1, NatLessThanWellFounded
<1> HIDE DEF R
<1>3. PICK n \in S : \A m \in S : ~(<<m, n>> \in R)
  BY <1>2, WFMin
<1>4. ASSUME NEW m \in S PROVE n <= m
  <2>1. n \in Nat /\ m \in Nat
    OBVIOUS
  <2>2. ~(m < n)
    BY <1>3, <2>1 DEF R
  <2>3. QED
    BY <2>1, <2>2
<1>5. QED
  BY <1>4

\* What Lowest gives.
LEMMA LowestIsLeast ==
  ASSUME NEW S \in SUBSET Nat, S # {}
  PROVE  Lowest(S) \in S /\ \A y \in S : Lowest(S) <= y
BY Least DEF Lowest

-----------------------------------------------------------------------------
(***************************************************************************)
(* Descriptors of an open file                                             *)
(***************************************************************************)
\* The descriptors that a table f sends to o.
Sharing(f, o) == {d \in Fd : f[d] = o}

LEMMA FdFinite == IsFiniteSet(Fd) /\ Cardinality(Fd) = NFD /\ Fd \subseteq Nat
<1>1. IsFiniteSet(0..(NFD - 1)) /\ Cardinality(0..(NFD - 1)) = NFD
  BY OpenFilesAssumption, FS_Interval
<1>2. QED
  BY <1>1, OpenFilesAssumption DEF Fd

LEMMA OftFinite == IsFiniteSet(Oft) /\ Cardinality(Oft) = NFD
                   /\ Oft \subseteq Nat /\ NULL \notin Oft
<1>1. IsFiniteSet(1..NFD) /\ Cardinality(1..NFD) = NFD
  BY OpenFilesAssumption, FS_Interval
<1>2. QED
  BY <1>1, OpenFilesAssumption DEF Oft, NULL

LEMMA SharingFinite ==
  ASSUME NEW f, NEW o
  PROVE  /\ IsFiniteSet(Sharing(f, o)) /\ Cardinality(Sharing(f, o)) \in 0..NFD
         /\ Cardinality(Sharing(f, o)) = 0 <=> Sharing(f, o) = {}
<1>1. Sharing(f, o) \subseteq Fd
  BY DEF Sharing
<1>2. /\ IsFiniteSet(Sharing(f, o))
      /\ Cardinality(Sharing(f, o)) <= NFD
  BY <1>1, FdFinite, FS_Subset
<1>3. Cardinality(Sharing(f, o)) \in Nat
  BY <1>2, FS_CardinalityType
<1>4. QED
  BY <1>2, <1>3, FS_EmptySet, OpenFilesAssumption

With(f, d, x) == [f EXCEPT ![d] = x]

\* A descriptor that is set from one open file to another, or to or from
\* none, is one less for the first and one more for the second.
LEMMA Reassigned ==
  ASSUME NEW f \in [Fd -> Oft \cup {NULL}], NEW d \in Fd,
         NEW x \in Oft \cup {NULL}, NEW o \in Oft
  PROVE  /\ With(f, d, x) \in [Fd -> Oft \cup {NULL}]
         /\ f[d] = x \/ (o # x /\ o # f[d]) =>
              Cardinality(Sharing(With(f, d, x), o)) = Cardinality(Sharing(f, o))
         /\ f[d] # x /\ o = x =>
              Cardinality(Sharing(With(f, d, x), o))
                = Cardinality(Sharing(f, o)) + 1
         /\ f[d] # x /\ o = f[d] =>
              Cardinality(Sharing(With(f, d, x), o))
                = Cardinality(Sharing(f, o)) - 1
<1> DEFINE g == With(f, d, x)
<1> USE DEF With
<1>1. CASE f[d] = x \/ (o # x /\ o # f[d])
  <2>1. Sharing(g, o) = Sharing(f, o)
    BY <1>1 DEF Sharing
  <2>2. QED
    BY <2>1, <1>1
<1>2. CASE f[d] # x /\ o = x
  <2>1. Sharing(g, o) = Sharing(f, o) \cup {d} /\ d \notin Sharing(f, o)
    BY <1>2 DEF Sharing
  <2>2. Cardinality(Sharing(g, o)) = Cardinality(Sharing(f, o)) + 1
    BY <2>1, SharingFinite, FS_AddElement
  <2>3. QED
    BY <2>2, <1>2
<1>3. CASE f[d] # x /\ o # x /\ o = f[d]
  <2>1. Sharing(g, o) = Sharing(f, o) \ {d} /\ d \in Sharing(f, o)
    BY <1>3 DEF Sharing
  <2>2. Cardinality(Sharing(g, o)) = Cardinality(Sharing(f, o)) - 1
    BY <2>1, SharingFinite, FS_RemoveElement
  <2>3. QED
    BY <2>2, <1>3
<1>4. QED
  BY <1>1, <1>2, <1>3

\* While a descriptor is closed there is an open file not in use.
LEMMA FreeFile ==
  ASSUME fd \in [Fd -> Oft \cup {NULL}], Closed # {}
  PROVE  Oft \ InUse # {} /\ Lowest(Oft \ InUse) \in Oft \ InUse
<1> DEFINE Open == Fd \ Closed
<1>1. IsFiniteSet(Open) /\ Cardinality(Open) < NFD
  <2>1. PICK d \in Fd : d \in Closed
    BY DEF Closed
  <2>2. Open \subseteq Fd \ {d}
    BY <2>1
  <2>3. IsFiniteSet(Fd \ {d}) /\ Cardinality(Fd \ {d}) = NFD - 1
    BY FdFinite, FS_RemoveElement
  <2>4. IsFiniteSet(Open) /\ Cardinality(Open) <= NFD - 1
    BY <2>2, <2>3, FS_Subset
  <2>5. Cardinality(Open) \in Nat
    BY <2>4, FS_CardinalityType
  <2>6. QED
    BY <2>4, <2>5, OpenFilesAssumption
<1>2. InUse = {fd[d] : d \in Open}
  BY DEF InUse, Closed, IsOpen, NULL
<1>3. IsFiniteSet(InUse) /\ Cardinality(InUse) <= Cardinality(Open)
  <2> DEFINE h == [d \in Open |-> fd[d]]
  <2>1. h \in Surjection(Open, InUse)
    BY <1>2, Fun_IsSurj
  <2>2. QED
    BY <2>1, <1>1, FS_Surjection
<1>4. Oft \ InUse # {}
  <2>1. SUFFICES ASSUME Oft \subseteq InUse PROVE FALSE
    OBVIOUS
  <2>2. Cardinality(Oft) <= Cardinality(InUse)
    BY <2>1, <1>3, FS_Subset
  <2>3. Cardinality(Oft) \in Nat /\ Cardinality(InUse) \in Nat /\ Cardinality(Open) \in Nat
    BY <1>1, <1>3, OftFinite, FS_CardinalityType
  <2>4. QED
    BY <2>2, <2>3, <1>1, <1>3, OftFinite, OpenFilesAssumption
<1>5. QED
  BY <1>4, LowestIsLeast, OftFinite

\* The descriptor that open, dup and dup2 take.
LEMMA LowestClosed ==
  ASSUME Closed # {}
  PROVE  /\ Lowest(Closed) \in Fd /\ ~IsOpen(Lowest(Closed))
         /\ \A e \in Fd : e < Lowest(Closed) => IsOpen(e)
<1>1. Closed \in SUBSET Nat
  BY FdFinite DEF Closed
<1>2. Lowest(Closed) \in Closed /\ \A y \in Closed : Lowest(Closed) <= y
  BY <1>1, LowestIsLeast
<1>3. Lowest(Closed) \in Fd /\ ~IsOpen(Lowest(Closed))
  BY <1>2 DEF Closed
<1>4. ASSUME NEW e \in Fd, e < Lowest(Closed) PROVE IsOpen(e)
  <2>1. e \in Nat /\ Lowest(Closed) \in Nat
    BY <1>3, FdFinite
  <2>2. e \notin Closed
    BY <1>2, <1>4, <2>1
  <2>3. QED
    BY <2>2 DEF Closed
<1>5. QED
  BY <1>3, <1>4

\* Each open file of t counts the descriptors that f sends to it.
Counted(f, t) == \A o \in Oft : t[o].refCount = Cardinality(Sharing(f, o))

LEMMA SharedIsCounted == SharedCounted <=> Counted(fd, oft)
BY DEF SharedCounted, Counted, Descriptors, Sharing

\* The open files in use are those with a count above 0.
LEMMA UsedCounted ==
  ASSUME NEW f \in [Fd -> Oft \cup {NULL}], NEW t, Counted(f, t)
  PROVE  /\ \A o \in Oft : t[o].refCount \in 0..NFD
         /\ {f[d] : d \in Fd} \ {NULL} = {o \in Oft : t[o].refCount > 0}
<1>1. ASSUME NEW o \in Oft
      PROVE  /\ t[o].refCount \in 0..NFD
             /\ t[o].refCount > 0 <=> Sharing(f, o) # {}
  BY SharingFinite, OpenFilesAssumption DEF Counted
<1>2. \A o \in Oft : Sharing(f, o) # {} <=> \E d \in Fd : f[d] = o
  BY DEF Sharing
<1>3. QED
  BY <1>1, <1>2, OftFinite

\* Two descriptors share an open file only if its count is above 1.
LEMMA SharedTwice ==
  ASSUME NEW f \in [Fd -> Oft \cup {NULL}], NEW t, Counted(f, t),
         NEW c \in Fd, NEW d \in Fd, c # d, f[c] = f[d], f[c] # NULL
  PROVE  t[f[c]].refCount > 1
<1> DEFINE g == With(f, d, NULL)
<1>1. f[c] \in Oft /\ f[d] # NULL
  OBVIOUS
<1>2. Cardinality(Sharing(g, f[c])) = Cardinality(Sharing(f, f[c])) - 1
  BY <1>1, Reassigned
<1>3. c \in Sharing(g, f[c])
  BY DEF Sharing, With
<1> HIDE DEF g
<1>4. Cardinality(Sharing(g, f[c])) \in 0..NFD
      /\ Cardinality(Sharing(g, f[c])) # 0
      /\ Cardinality(Sharing(f, f[c])) \in 0..NFD
  BY <1>3, SharingFinite
<1>5. QED
  BY <1>1, <1>2, <1>4, OpenFilesAssumption DEF Counted

-----------------------------------------------------------------------------
(***************************************************************************)
(* Open files on an inode                                                  *)
(***************************************************************************)
On(t, i) == {o \in Oft : t[o].refCount > 0 /\ t[o].ino = i}

LEMMA OnFinite ==
  ASSUME NEW t, NEW i
  PROVE  IsFiniteSet(On(t, i)) /\ Cardinality(On(t, i)) \in Nat
<1>1. On(t, i) \subseteq Oft
  BY DEF On
<1>2. QED
  BY <1>1, OftFinite, FS_Subset, FS_CardinalityType

\* When one open file changes, the files on an inode change by that one.
LEMMA OnChanged ==
  ASSUME NEW t, NEW u, NEW i, NEW o \in Oft,
         \A p \in Oft : p # o => (p \in On(u, i) <=> p \in On(t, i))
  PROVE  Cardinality(On(u, i)) = Cardinality(On(t, i))
           + (IF o \in On(u, i) THEN 1 ELSE 0)
           - (IF o \in On(t, i) THEN 1 ELSE 0)
<1> On(t, i) \subseteq Oft /\ On(u, i) \subseteq Oft
  BY DEF On
<1>1. CASE o \in On(u, i) <=> o \in On(t, i)
  <2>1. On(u, i) = On(t, i)
    BY <1>1
  <2>2. QED
    BY <2>1, OnFinite
<1>2. CASE o \in On(u, i) /\ o \notin On(t, i)
  <2>1. On(u, i) = On(t, i) \cup {o}
    BY <1>2
  <2>2. Cardinality(On(t, i) \cup {o}) = Cardinality(On(t, i)) + 1
    BY <1>2, OnFinite, FS_AddElement
  <2>3. QED
    BY <1>2, <2>1, <2>2, OnFinite
<1>3. CASE o \notin On(u, i) /\ o \in On(t, i)
  <2>1. On(u, i) = On(t, i) \ {o}
    BY <1>3
  <2>2. Cardinality(On(u, i)) = Cardinality(On(t, i)) - 1
    BY <1>3, <2>1, OnFinite, FS_RemoveElement
  <2>3. QED
    BY <1>3, <2>2, OnFinite
<1>4. QED
  BY <1>1, <1>2, <1>3

LEMMA FilesOnIsOn ==
  ASSUME NEW f \in [Fd -> Oft \cup {NULL}], NEW t, Counted(f, t), NEW i
  PROVE  {o \in {f[d] : d \in Fd} \ {NULL} : t[o].ino = i} = On(t, i)
BY UsedCounted DEF On

-----------------------------------------------------------------------------
(***************************************************************************)
(* The inductive invariant                                                 *)
(***************************************************************************)
\* As long as no descriptor is closed below an open one, the open ones are
\* the first ones, and the scan for a writer sees them all.
Prefix == dense => \A d, e \in Fd : e < d /\ IsOpen(d) => IsOpen(e)

IInv == TypeOK /\ SharedCounted /\ FilesCounted /\ OffsetInFile /\ Prefix

-----------------------------------------------------------------------------
(***************************************************************************)
(* SharedCounted                                                           *)
(***************************************************************************)
\* Whatever becomes of a descriptor, both tables stay in step.
LEMMA SharedStep ==
  ASSUME TypeOK, Counted(fd, oft), [Next]_vars
  PROVE  fd' \in [Fd -> Oft \cup {NULL}] /\ Counted(fd', oft')
<1> fd \in [Fd -> Oft \cup {NULL}] /\ oft \in [Oft -> OFT]
  BY DEF TypeOK
<1>t. \A o \in Oft : oft[o].refCount \in Int
  BY OpenFilesAssumption DEF OFT
<1>1. ASSUME NEW i \in Ino, OpenFails(i) PROVE fd' = fd /\ oft' = oft
  BY <1>1 DEF OpenFails
<1>2. ASSUME NEW i \in Ino, NEW mode \in Modes, open_file(i, mode)
      PROVE  fd' \in [Fd -> Oft \cup {NULL}] /\ Counted(fd', oft')
  <2> DEFINE o == Lowest(Oft \ InUse)  d == Lowest(Closed)
  <2>1. d \in Fd /\ fd[d] = NULL /\ o \in Oft \ InUse
    BY <1>2, FreeFile, LowestClosed DEF open_file, IsOpen
  <2>2. fd' = With(fd, d, o) /\ oft'[o].refCount = 1
        /\ \A p \in Oft : p # o => oft'[p] = oft[p]
    BY <1>2, <2>1 DEF open_file, With
  <2> HIDE DEF o, d
  <2>3. Cardinality(Sharing(fd, o)) = 0
    <3>1. Sharing(fd, o) = {}
      BY <2>1, OftFinite DEF Sharing, InUse
    <3>2. QED
      BY <3>1, FS_EmptySet
  <2>4. fd[d] # o
    BY <2>1, OftFinite
  <2>5. ASSUME NEW p \in Oft
        PROVE  oft'[p].refCount = Cardinality(Sharing(fd', p))
    <3>1. CASE p = o
      BY <2>1, <2>2, <2>3, <2>4, <3>1, Reassigned
    <3>2. CASE p # o
      BY <2>1, <2>2, <3>2, OftFinite, Reassigned DEF Counted
    <3>3. QED
      BY <3>1, <3>2
  <2>6. QED
    BY <2>1, <2>2, <2>5, Reassigned DEF Counted
<1>3. ASSUME NEW d \in Fd, close_file(d)
      PROVE  fd' \in [Fd -> Oft \cup {NULL}] /\ Counted(fd', oft')
  <2>1. fd[d] \in Oft /\ fd[d] # NULL /\ fd' = With(fd, d, NULL)
    BY <1>3 DEF close_file, With, IsOpen
  <2>2. \A p \in Oft : oft'[p].refCount = IF p = fd[d] THEN oft[p].refCount - 1
                                                       ELSE oft[p].refCount
    BY <1>3, <2>1 DEF close_file, OFT
  <2>3. ASSUME NEW p \in Oft
        PROVE  oft'[p].refCount = Cardinality(Sharing(fd', p))
    <3>1. oft[p].refCount = Cardinality(Sharing(fd, p)) /\ p # NULL
      BY OftFinite DEF Counted
    <3>2. CASE p = fd[d]
      BY <2>1, <2>2, <3>1, <3>2, Reassigned
    <3>3. CASE p # fd[d]
      BY <2>1, <2>2, <3>1, <3>3, Reassigned
    <3>4. QED
      BY <3>2, <3>3
  <2>4. QED
    BY <2>1, <2>3, Reassigned DEF Counted
<1>4. ASSUME NEW c \in Fd, mydup(c)
      PROVE  fd' \in [Fd -> Oft \cup {NULL}] /\ Counted(fd', oft')
  <2> DEFINE d == Lowest(Closed)
  <2>1. d \in Fd /\ fd[d] = NULL /\ fd[c] \in Oft
    BY <1>4, LowestClosed DEF mydup, IsOpen
  <2>2. fd' = With(fd, d, fd[c])
    BY <1>4 DEF mydup, With
  <2> HIDE DEF d
  <2>3. \A p \in Oft : oft'[p].refCount = IF p = fd[c] THEN oft[p].refCount + 1
                                                       ELSE oft[p].refCount
    BY <1>4, <2>1 DEF mydup, OFT
  <2>4. ASSUME NEW p \in Oft
        PROVE  oft'[p].refCount = Cardinality(Sharing(fd', p))
    <3>1. oft[p].refCount = Cardinality(Sharing(fd, p)) /\ p # NULL
      BY OftFinite DEF Counted
    <3>2. CASE p = fd[c]
      BY <2>1, <2>2, <2>3, <3>1, <3>2, Reassigned
    <3>3. CASE p # fd[c]
      BY <2>1, <2>2, <2>3, <3>1, <3>3, Reassigned
    <3>4. QED
      BY <3>2, <3>3
  <2>5. QED
    BY <2>1, <2>2, <2>4, Reassigned DEF Counted
<1>5. ASSUME NEW c \in Fd, NEW d \in Fd, mydup2(c, d)
      PROVE  fd' \in [Fd -> Oft \cup {NULL}] /\ Counted(fd', oft')
  <2>1. fd[c] \in Oft /\ fd[c] # NULL /\ fd' = With(fd, d, fd[c])
    BY <1>5 DEF mydup2, With, IsOpen
  <2>2. CASE IsOpen(d)
    <3>1. fd[d] \in Oft
      BY <2>2 DEF IsOpen
    <3>2. oft' = [[oft EXCEPT ![fd[d]].refCount = @ - 1]
                         EXCEPT ![fd[c]].refCount = @ + 1]
      BY <1>5, <2>2 DEF mydup2
    <3>3. \A p \in Oft : oft'[p].refCount =
                          oft[p].refCount + (IF p = fd[c] THEN 1 ELSE 0)
                                          - (IF p = fd[d] THEN 1 ELSE 0)
      BY <2>1, <3>1, <3>2, <1>t DEF OFT
    <3>4. ASSUME NEW p \in Oft
          PROVE  oft'[p].refCount = Cardinality(Sharing(fd', p))
      <4>1. oft[p].refCount = Cardinality(Sharing(fd, p)) /\ oft[p].refCount \in Int
        BY <1>t DEF Counted
      <4>2. CASE fd[c] = fd[d] \/ (p # fd[c] /\ p # fd[d])
        <5>1. oft'[p].refCount = oft[p].refCount
          BY <3>3, <4>1, <4>2
        <5>2. QED
          BY <2>1, <3>1, <4>1, <4>2, <5>1, Reassigned
      <4>3. CASE fd[c] # fd[d] /\ p = fd[c]
        BY <2>1, <3>1, <3>3, <4>1, <4>3, Reassigned
      <4>4. CASE fd[c] # fd[d] /\ p = fd[d]
        BY <2>1, <3>1, <3>3, <4>1, <4>4, Reassigned
      <4>5. QED
        BY <4>2, <4>3, <4>4
    <3>5. QED
      BY <2>1, <3>4, Reassigned DEF Counted
  <2>3. CASE ~IsOpen(d)
    <3>1. fd[d] = NULL
      BY <2>3 DEF IsOpen
    <3>2. \A p \in Oft : oft'[p].refCount = IF p = fd[c] THEN oft[p].refCount + 1
                                                         ELSE oft[p].refCount
      BY <1>5, <2>3, <2>1 DEF mydup2, OFT
    <3>3. ASSUME NEW p \in Oft
          PROVE  oft'[p].refCount = Cardinality(Sharing(fd', p))
      <4>1. oft[p].refCount = Cardinality(Sharing(fd, p)) /\ p # NULL
        BY OftFinite DEF Counted
      <4>2. CASE p = fd[c]
        <5>1. oft'[p].refCount = oft[p].refCount + 1
          BY <3>2, <4>2
        <5>2. QED
          BY <2>1, <3>1, <4>1, <4>2, <5>1, Reassigned
      <4>3. CASE p # fd[c]
        <5>1. oft'[p].refCount = oft[p].refCount
          BY <3>2, <4>3
        <5>2. QED
          BY <2>1, <3>1, <4>1, <4>3, <5>1, Reassigned
      <4>4. QED
        BY <4>2, <4>3
    <3>4. QED
      BY <2>1, <3>3, Reassigned DEF Counted
  <2>4. QED
    BY <2>2, <2>3
<1>6. ASSUME NEW d \in Fd, NEW position \in 0..MaxSize, mylseek(d, position)
      PROVE  fd' = fd /\ \A p \in Oft : oft'[p].refCount = oft[p].refCount
  BY <1>6 DEF mylseek, OFT
<1>7. ASSUME NEW d \in Fd, myread(d) \/ mywrite(d)
      PROVE  fd' = fd /\ \A p \in Oft : oft'[p].refCount = oft[p].refCount
  BY <1>7 DEF myread, mywrite, OFT
<1>8. CASE UNCHANGED vars
  BY <1>8 DEF vars
<1>9. QED
  BY <1>1, <1>2, <1>3, <1>4, <1>5, <1>6, <1>7, <1>8 DEF Next, Counted

-----------------------------------------------------------------------------
(***************************************************************************)
(* FilesCounted                                                            *)
(***************************************************************************)
LEMMA FilesOnNow ==
  ASSUME fd \in [Fd -> Oft \cup {NULL}], Counted(fd, oft)
  PROVE  /\ InUse = {o \in Oft : oft[o].refCount > 0}
         /\ \A i : FilesOn(i) = On(oft, i)
<1>1. InUse = {o \in Oft : oft[o].refCount > 0}
  BY UsedCounted DEF InUse
<1>2. ASSUME NEW i PROVE FilesOn(i) = On(oft, i)
  BY <1>1 DEF FilesOn, On
<1>3. QED
  BY <1>1, <1>2

\* An inode gains or loses a reference with an open file, not with a
\* descriptor, but for failed opens and truncations.
LEMMA FilesStep ==
  ASSUME TypeOK, Counted(fd, oft), FilesCounted, [Next]_vars
  PROVE  \A j \in Ino :
           refCount'[j] = Cardinality(On(oft', j)) + leaked'[j] - cuts'[j]
<1> DEFINE Files(j) == Cardinality(On(oft, j))
           Step == \A j \in Ino :
             refCount'[j] = Cardinality(On(oft', j)) + leaked'[j] - cuts'[j]
<1>t. /\ fd \in [Fd -> Oft \cup {NULL}] /\ oft \in [Oft -> OFT]
      /\ refCount \in [Ino -> Int]
      /\ leaked \in [Ino -> Int] /\ cuts \in [Ino -> Int]
      /\ \A o \in Oft : oft[o].refCount \in Int /\ oft[o].ino \in Ino
  BY OpenFilesAssumption DEF TypeOK, OFT
<1>f. \A j \in Ino : refCount[j] = Files(j) + leaked[j] - cuts[j]
                     /\ Files(j) \in Int
  BY <1>t, FilesOnNow, OnFinite DEF FilesCounted
<1>s. ASSUME \A o \in Oft : /\ oft'[o].ino = oft[o].ino
                            /\ oft'[o].refCount > 0 <=> oft[o].refCount > 0
      PROVE  \A j \in Ino : Cardinality(On(oft', j)) = Files(j)
  BY <1>s DEF On
<1> HIDE DEF Files
<1>1. ASSUME NEW i \in Ino, OpenFails(i) PROVE Step
  <2>1. \A j \in Ino : Cardinality(On(oft', j)) = Files(j)
    BY <1>1, <1>s DEF OpenFails
  <2>2. QED
    BY <1>1, <1>t, <1>f, <2>1 DEF OpenFails
<1>2. ASSUME NEW i \in Ino, NEW mode \in Modes, open_file(i, mode) PROVE Step
  <2> DEFINE o == Lowest(Oft \ InUse)
  <2>1. o \in Oft \ InUse
    BY <1>2, <1>t, FreeFile DEF open_file
  <2>2. oft'[o].refCount = 1 /\ oft'[o].ino = i
        /\ \A p \in Oft : p # o => oft'[p] = oft[p]
    BY <1>2, <1>t, <2>1 DEF open_file
  <2> HIDE DEF o
  <2>3. \A j \in Ino : /\ o \notin On(oft, j) /\ (o \in On(oft', j) <=> j = i)
                       /\ \A p \in Oft : p # o => (p \in On(oft', j) <=> p \in On(oft, j))
    BY <1>t, <2>1, <2>2, FilesOnNow DEF On
  <2>4. ASSUME NEW j \in Ino
        PROVE  Cardinality(On(oft', j)) = Files(j) + (IF j = i THEN 1 ELSE 0)
    <3>1. Cardinality(On(oft', j)) = Cardinality(On(oft, j))
             + (IF o \in On(oft', j) THEN 1 ELSE 0)
             - (IF o \in On(oft, j) THEN 1 ELSE 0)
      BY <2>1, <2>3, OnChanged
    <3>2. QED
      BY <3>1, <2>3, <1>f DEF Files
  <2>5. CASE Truncated(mode)
    <3>1. refCount' = refCount /\ leaked' = leaked
          /\ cuts' = [cuts EXCEPT ![i] = @ + 1]
      BY <1>2, <2>5 DEF open_file
    <3>2. ASSUME NEW j \in Ino
          PROVE  refCount'[j] = Cardinality(On(oft', j)) + leaked'[j] - cuts'[j]
      <4>1. cuts'[j] = cuts[j] + (IF j = i THEN 1 ELSE 0)
        BY <3>1, <1>t
      <4>2. /\ refCount[j] = Files(j) + leaked[j] - cuts[j]
            /\ Files(j) \in Int /\ leaked[j] \in Int /\ cuts[j] \in Int
            /\ Cardinality(On(oft', j)) = Files(j) + (IF j = i THEN 1 ELSE 0)
        BY <1>t, <1>f, <2>4
      <4>3. refCount'[j] = refCount[j] /\ leaked'[j] = leaked[j]
        BY <3>1
      <4>4. QED
        BY <4>1, <4>2, <4>3
    <3>3. QED
      BY <3>2
  <2>6. CASE ~Truncated(mode)
    <3>1. refCount' = [refCount EXCEPT ![i] = @ + 1]
          /\ leaked' = leaked /\ cuts' = cuts
      BY <1>2, <2>6 DEF open_file
    <3>2. QED
      BY <3>1, <1>t, <1>f, <2>4
  <2>7. QED
    BY <2>5, <2>6
<1>3. ASSUME NEW d \in Fd, close_file(d) PROVE Step
  <2> DEFINE o == fd[d]
  <2>1. o \in Oft /\ oft[o].refCount > 0
    BY <1>3, <1>t, FilesOnNow DEF close_file, IsOpen, InUse
  <2>2. /\ oft'[o].refCount = oft[o].refCount - 1
        /\ \A p \in Oft : oft'[p].ino = oft[p].ino
                          /\ (p # o => oft'[p] = oft[p])
    BY <1>3, <1>t, <2>1 DEF close_file, OFT
  <2> HIDE DEF o
  <2>3. CASE oft[o].refCount > 1
    <3>1. \A j \in Ino : Cardinality(On(oft', j)) = Files(j)
      BY <1>s, <1>t, <2>1, <2>2, <2>3
    <3>2. QED
      BY <1>3, <1>t, <1>f, <2>3, <3>1 DEF close_file, Put, past, o
  <2>4. CASE ~(oft[o].refCount > 1)
    <3>1. \A j \in Ino :
            /\ o \notin On(oft', j) /\ (o \in On(oft, j) <=> j = oft[o].ino)
            /\ \A p \in Oft : p # o => (p \in On(oft', j) <=> p \in On(oft, j))
      BY <1>t, <2>1, <2>2, <2>4 DEF On
    <3>2. ASSUME NEW j \in Ino
          PROVE  Cardinality(On(oft', j))
                   = Files(j) - (IF j = oft[o].ino THEN 1 ELSE 0)
      <4>1. Cardinality(On(oft', j)) = Cardinality(On(oft, j))
             + (IF o \in On(oft', j) THEN 1 ELSE 0)
             - (IF o \in On(oft, j) THEN 1 ELSE 0)
        BY <2>1, <3>1, OnChanged
      <4>2. QED
        BY <4>1, <3>1, <1>f DEF Files
    <3>3. refCount' = [refCount EXCEPT ![oft[o].ino] = @ - 1]
          /\ leaked' = leaked /\ cuts' = cuts
      BY <1>3, <2>4 DEF close_file, Put, past, o
    <3>4. QED
      BY <1>t, <1>f, <3>2, <3>3
  <2>5. QED
    BY <2>3, <2>4
<1>4. ASSUME NEW d \in Fd, mydup(d) PROVE Step
  <2>1. fd[d] \in Oft /\ oft[fd[d]].refCount > 0
    BY <1>4, <1>t, FilesOnNow DEF mydup, IsOpen, InUse
  <2>2. \A p \in Oft : /\ oft'[p].ino = oft[p].ino
                       /\ oft'[p].refCount > 0 <=> oft[p].refCount > 0
    BY <1>4, <1>t, <2>1 DEF mydup, OFT
  <2>3. QED
    BY <1>4, <1>s, <1>f, <2>2 DEF mydup, past
<1>5. ASSUME NEW c \in Fd, NEW d \in Fd, mydup2(c, d) PROVE Step
  <2>1. fd[c] \in Oft /\ oft[fd[c]].refCount > 0 /\ c # d
        /\ leaked' = leaked /\ cuts' = cuts
    BY <1>5, <1>t, FilesOnNow DEF mydup2, IsOpen, InUse, past
  <2>2. CASE ~IsOpen(d)
    <3>1. \A p \in Oft : /\ oft'[p].ino = oft[p].ino
                         /\ oft'[p].refCount > 0 <=> oft[p].refCount > 0
      BY <1>5, <1>t, <2>1, <2>2 DEF mydup2, OFT
    <3>2. QED
      BY <1>5, <1>s, <1>f, <2>1, <2>2, <3>1 DEF mydup2
  <2>3. CASE IsOpen(d)
    <3> DEFINE o == fd[d]  n == fd[c]
    <3>1. o \in Oft /\ oft[o].refCount > 0
      BY <2>3, <1>t, FilesOnNow DEF IsOpen, InUse
    <3>2. oft' = [[oft EXCEPT ![o].refCount = @ - 1]
                         EXCEPT ![n].refCount = @ + 1]
      BY <1>5, <2>3 DEF mydup2
    <3>3. refCount' = IF oft[o].refCount > 1 THEN refCount
                      ELSE [refCount EXCEPT ![oft[o].ino] = @ - 1]
      BY <1>5, <2>3 DEF mydup2, Put
    <3>n. n \in Oft /\ oft[n].refCount > 0
      BY <2>1
    <3>4. n = o => oft[o].refCount > 1
      BY <2>1, <1>t, <3>n, OftFinite, SharedTwice
    <3> HIDE DEF o, n
    <3>5. \A p \in Oft :
            /\ oft'[p].ino = oft[p].ino
            /\ oft'[p].refCount = oft[p].refCount + (IF p = n THEN 1 ELSE 0)
                                                 - (IF p = o THEN 1 ELSE 0)
      BY <1>t, <3>n, <3>1, <3>2 DEF OFT
    <3>6. CASE oft[o].refCount > 1
      <4>1. \A p \in Oft : oft'[p].refCount > 0 <=> oft[p].refCount > 0
        BY <1>t, <3>n, <3>1, <3>5, <3>6
      <4>2. \A j \in Ino : Cardinality(On(oft', j)) = Files(j)
        BY <1>s, <3>5, <4>1
      <4>3. QED
        BY <1>f, <2>1, <3>3, <3>6, <4>2
    <3>7. CASE ~(oft[o].refCount > 1)
      <4>1. /\ oft'[o].refCount = 0 /\ oft[o].refCount = 1
            /\ \A p \in Oft : p # o => (oft'[p].refCount > 0 <=> oft[p].refCount > 0)
        BY <1>t, <3>n, <3>1, <3>4, <3>5, <3>7
      <4>2. \A j \in Ino :
              /\ o \notin On(oft', j) /\ (o \in On(oft, j) <=> j = oft[o].ino)
              /\ \A p \in Oft : p # o => (p \in On(oft', j) <=> p \in On(oft, j))
        BY <1>t, <3>1, <3>5, <4>1 DEF On
      <4>3. ASSUME NEW j \in Ino
            PROVE  Cardinality(On(oft', j))
                     = Files(j) - (IF j = oft[o].ino THEN 1 ELSE 0)
        <5>1. Cardinality(On(oft', j)) = Cardinality(On(oft, j))
               + (IF o \in On(oft', j) THEN 1 ELSE 0)
               - (IF o \in On(oft, j) THEN 1 ELSE 0)
          BY <3>1, <4>2, OnChanged
        <5>2. QED
          BY <5>1, <4>2, <1>f DEF Files
      <4>4. QED
        BY <1>t, <1>f, <2>1, <3>3, <3>7, <4>3
    <3>8. QED
      BY <3>6, <3>7
  <2>4. QED
    BY <2>2, <2>3
<1>6. ASSUME NEW d \in Fd, \/ \E position \in 0..MaxSize : mylseek(d, position)
                           \/ myread(d) \/ mywrite(d)
      PROVE  Step
  <2>1. \A p \in Oft : /\ oft'[p].ino = oft[p].ino
                       /\ oft'[p].refCount = oft[p].refCount
    BY <1>6, <1>t DEF mylseek, myread, mywrite, OFT
  <2>2. QED
    BY <1>6, <1>s, <1>f, <2>1 DEF mylseek, myread, mywrite, past
<1>7. CASE UNCHANGED vars
  BY <1>7, <1>f DEF vars, past, Files
<1>8. QED
  BY <1>1, <1>2, <1>3, <1>4, <1>5, <1>6, <1>7 DEF Next

-----------------------------------------------------------------------------
(***************************************************************************)
(* Types and offsets                                                       *)
(***************************************************************************)
LEMMA TypeStep ==
  ASSUME TypeOK, Counted(fd, oft), [Next]_vars
  PROVE  TypeOK'
<1>t. /\ fd \in [Fd -> Oft \cup {NULL}] /\ oft \in [Oft -> OFT]
      /\ refCount \in [Ino -> Int] /\ size \in [Ino -> 0..MaxSize]
      /\ leaked \in [Ino -> 0..MaxLeak] /\ cuts \in [Ino -> 0..MaxCut]
      /\ dense \in BOOLEAN
  BY DEF TypeOK
<1> DEFINE Loose == [mode : 0..3, refCount : Int, ino : Ino, offset : 0..MaxSize]
<1>n. /\ OFT \subseteq Loose /\ 0 \in 0..MaxSize
      /\ \A o \in Oft : oft[o] \in OFT
  BY <1>t, OpenFilesAssumption DEF OFT
<1>m. oft \in [Oft -> Loose]
  BY <1>t, <1>n
<1>0. fd' \in [Fd -> Oft \cup {NULL}] /\ \A o \in Oft : oft'[o].refCount \in 0..NFD
  BY SharedStep, UsedCounted
<1> DEFINE Rest == /\ oft' \in [Oft -> Loose]
                   /\ refCount' \in [Ino -> Int] /\ size' \in [Ino -> 0..MaxSize]
                   /\ leaked' \in [Ino -> 0..MaxLeak] /\ cuts' \in [Ino -> 0..MaxCut]
                   /\ dense' \in BOOLEAN
<1>1. ASSUME NEW i \in Ino, OpenFails(i) PROVE Rest
  BY <1>1, <1>t, <1>m, OpenFilesAssumption DEF OpenFails
<1>2. ASSUME NEW i \in Ino, NEW mode \in Modes, open_file(i, mode) PROVE Rest
  <2> DEFINE o == Lowest(Oft \ InUse)
             file == [mode |-> mode, refCount |-> 1, ino |-> i,
                      offset |-> IF mode = 3 THEN size[i] ELSE 0]
  <2>1. oft' = [oft EXCEPT ![o] = file]
    BY <1>2 DEF open_file
  <2>2. file \in Loose
    BY <1>t, <1>n, OpenFilesAssumption
  <2> HIDE DEF o, file, Loose
  <2>3. oft' \in [Oft -> Loose]
    BY <2>1, <2>2, <1>m
  <2>4. size' \in [Ino -> 0..MaxSize] /\ refCount' \in [Ino -> Int]
    BY <1>2, <1>t, <1>n DEF open_file
  <2>5. cuts' \in [Ino -> 0..MaxCut] /\ leaked' = leaked /\ dense' = dense
    BY <1>2, <1>t, OpenFilesAssumption DEF open_file
  <2>6. QED
    BY <2>3, <2>4, <2>5, <1>t
<1>3. ASSUME NEW d \in Fd, close_file(d) PROVE Rest
  <2>1. fd[d] \in Oft /\ oft[fd[d]].ino \in Ino
    BY <1>3, <1>t DEF close_file, IsOpen, OFT
  <2>2. oft' = [oft EXCEPT ![fd[d]].refCount = @ - 1]
    BY <1>3 DEF close_file
  <2>3. oft' \in [Oft -> Loose]
    BY <2>1, <2>2, <1>m
  <2>4. refCount' \in [Ino -> Int]
    BY <1>3, <2>1, <1>t DEF close_file, Put
  <2>5. QED
    BY <1>3, <2>3, <2>4, <1>t DEF close_file, past
<1>4. ASSUME NEW d \in Fd, mydup(d) PROVE Rest
  <2>1. fd[d] \in Oft
    BY <1>4, <1>t DEF mydup, IsOpen
  <2>2. oft' = [oft EXCEPT ![fd[d]].refCount = @ + 1]
    BY <1>4 DEF mydup
  <2>3. oft' \in [Oft -> Loose]
    BY <2>1, <2>2, <1>m
  <2>4. QED
    BY <1>4, <2>3, <1>t DEF mydup, past
<1>5. ASSUME NEW c \in Fd, NEW d \in Fd, mydup2(c, d) PROVE Rest
  <2>1. fd[c] \in Oft /\ fd[d] \in Oft \cup {NULL} /\ (IsOpen(d) => fd[d] \in Oft)
    BY <1>5, <1>t DEF mydup2, IsOpen
  <2> DEFINE less == [oft EXCEPT ![fd[d]].refCount = @ - 1]
  <2>2. oft' = IF IsOpen(d) THEN [less EXCEPT ![fd[c]].refCount = @ + 1]
               ELSE [oft EXCEPT ![fd[c]].refCount = @ + 1]
    BY <1>5 DEF mydup2
  <2>3. IsOpen(d) => less \in [Oft -> Loose]
    BY <2>1, <1>m
  <2> HIDE DEF less
  <2>4. oft' \in [Oft -> Loose]
    BY <2>1, <2>2, <2>3, <1>m
  <2>5. refCount' \in [Ino -> Int]
    BY <1>5, <2>1, <1>t DEF mydup2, Put, OFT
  <2>6. QED
    BY <1>5, <2>4, <2>5, <1>t DEF mydup2, past
<1>6. ASSUME NEW d \in Fd, NEW position \in 0..MaxSize, mylseek(d, position)
      PROVE  Rest
  BY <1>6, <1>t, <1>m DEF mylseek, past
<1>7. ASSUME NEW d \in Fd, myread(d) \/ mywrite(d) PROVE Rest
  <2>1. CASE ~IsOpen(d)
    BY <1>7, <2>1 DEF myread, mywrite
  <2>2. CASE IsOpen(d)
    <3>1. fd[d] \in Oft /\ oft[fd[d]].ino \in Ino /\ oft[fd[d]].offset \in 0..MaxSize
      BY <2>2, <1>t DEF IsOpen, OFT
    <3>2. oft[fd[d]].offset + 1 \in 0..MaxSize
      BY <1>7, <1>t, <3>1, OpenFilesAssumption DEF myread, mywrite, File
    <3>3. oft' = [oft EXCEPT ![fd[d]].offset = @ + 1]
      BY <1>7 DEF myread, mywrite
    <3>4. oft' \in [Oft -> Loose]
      BY <3>1, <3>2, <3>3, <1>m
    <3>5. size' \in [Ino -> 0..MaxSize]
      BY <1>7, <1>t, <3>1, <3>2 DEF myread, mywrite, File
    <3>6. QED
      BY <1>7, <1>t, <3>4, <3>5 DEF myread, mywrite, past
  <2>3. QED
    BY <2>1, <2>2
<1>8. ASSUME UNCHANGED vars PROVE Rest
  BY <1>8, <1>t, <1>m DEF vars, past
<1>9. Rest
  <2> HIDE DEF Rest
  <2>1. QED
    BY <1>1, <1>2, <1>3, <1>4, <1>5, <1>6, <1>7, <1>8 DEF Next
<1>10. oft' \in [Oft -> OFT]
  BY <1>0, <1>9 DEF OFT
<1>11. QED
  BY <1>0, <1>9, <1>10 DEF TypeOK

\* No step takes an offset beyond the end of a file that was never truncated.
LEMMA OffsetStep ==
  ASSUME TypeOK, Counted(fd, oft), OffsetInFile, [Next]_vars
  PROVE  OffsetInFile'
<1>t. /\ fd \in [Fd -> Oft \cup {NULL}] /\ oft \in [Oft -> OFT]
      /\ size \in [Ino -> 0..MaxSize] /\ cuts \in [Ino -> 0..MaxCut]
      /\ \A o \in Oft : oft[o].ino \in Ino /\ oft[o].offset \in 0..MaxSize
  BY DEF TypeOK, OFT
<1>u. InUse = {fd[d] : d \in Fd} \ {NULL} /\ InUse \subseteq Oft
      /\ InUse' = {fd'[d] : d \in Fd} \ {NULL} /\ InUse' \subseteq Oft
  BY <1>t, SharedStep DEF InUse
<1>w. \A o \in InUse : cuts[oft[o].ino] = 0 => oft[o].offset <= size[oft[o].ino]
  BY DEF OffsetInFile
<1> DEFINE Within(o) == cuts'[oft'[o].ino] = 0 => oft'[o].offset <= size'[oft'[o].ino]
           Step == \A o \in InUse' : Within(o)
<1>1. ASSUME NEW i \in Ino, OpenFails(i) PROVE Step
  BY <1>1, <1>u, <1>w DEF OpenFails
<1>2. ASSUME NEW i \in Ino, NEW mode \in Modes, open_file(i, mode) PROVE Step
  <2> DEFINE o == Lowest(Oft \ InUse)
  <2>1. o \in Oft \ InUse /\ Lowest(Closed) \in Fd
    BY <1>2, <1>t, FreeFile, LowestClosed DEF open_file
  <2>2. /\ fd' = [fd EXCEPT ![Lowest(Closed)] = o]
        /\ oft' = [oft EXCEPT ![o] = [mode |-> mode, refCount |-> 1, ino |-> i,
                       offset |-> IF mode = 3 THEN size[i] ELSE 0]]
        /\ size' = IF Truncated(mode) THEN [size EXCEPT ![i] = 0] ELSE size
        /\ cuts' = IF Truncated(mode) THEN [cuts EXCEPT ![i] = @ + 1] ELSE cuts
    BY <1>2 DEF open_file
  <2> HIDE DEF o
  <2>3. InUse' \subseteq InUse \cup {o}
    BY <2>1, <2>2, <1>t, <1>u
  <2>4. Truncated(mode) => cuts'[i] # 0
    BY <2>2, <1>t, OpenFilesAssumption
  <2>5. /\ oft'[o].ino = i
        /\ oft'[o].offset = IF mode = 3 THEN size[i] ELSE 0
        /\ \A p \in Oft : p # o => oft'[p] = oft[p]
    BY <2>1, <2>2, <1>t
  <2>6. size[i] \in Nat
    BY <1>t, OpenFilesAssumption
  <2>7. ~Truncated(mode) => size' = size /\ cuts' = cuts
    BY <2>2
  <2>8. \A j \in Ino : j # i => size'[j] = size[j] /\ cuts'[j] = cuts[j]
    BY <2>2, <1>t
  <2>9. Within(o)
    <3>1. CASE Truncated(mode)
      BY <2>4, <2>5, <3>1
    <3>2. CASE ~Truncated(mode)
      BY <2>5, <2>6, <2>7, <3>2
    <3>3. QED
      BY <3>1, <3>2
  <2>10. ASSUME NEW p \in InUse, p # o PROVE Within(p)
    <3>1. oft'[p] = oft[p] /\ oft[p].ino \in Ino
      BY <1>t, <1>u, <2>5, <2>10
    <3>2. CASE oft[p].ino = i
      BY <3>1, <3>2, <1>w, <2>4, <2>7
    <3>3. CASE oft[p].ino # i
      BY <3>1, <3>3, <1>w, <2>8
    <3>4. QED
      BY <3>2, <3>3
  <2>11. QED
    BY <2>3, <2>9, <2>10
<1> DEFINE Kept == /\ InUse' \subseteq InUse /\ size' = size /\ cuts' = cuts
                   /\ \A o \in Oft : /\ oft'[o].ino = oft[o].ino
                                     /\ oft'[o].offset = oft[o].offset
<1>k. Kept => Step
  BY <1>u, <1>w
<1>3. ASSUME NEW d \in Fd, close_file(d) PROVE Kept
  <2>1. fd[d] \in Oft /\ fd' = [fd EXCEPT ![d] = NULL]
    BY <1>3, <1>t DEF close_file, IsOpen
  <2>2. InUse' \subseteq InUse
    BY <2>1, <1>t, <1>u
  <2>3. QED
    BY <1>3, <1>t, <2>1, <2>2 DEF close_file, past, OFT
<1>4. ASSUME NEW d \in Fd, mydup(d) PROVE Kept
  <2>1. fd[d] \in Oft /\ fd' = [fd EXCEPT ![Lowest(Closed)] = fd[d]]
    BY <1>4, <1>t DEF mydup, IsOpen
  <2>2. InUse' \subseteq InUse
    BY <2>1, <1>t, <1>u
  <2>3. QED
    BY <1>4, <1>t, <2>1, <2>2 DEF mydup, past, OFT
<1>5. ASSUME NEW c \in Fd, NEW d \in Fd, mydup2(c, d) PROVE Kept
  <2>1. fd[c] \in Oft /\ fd' = [fd EXCEPT ![d] = fd[c]]
    BY <1>5, <1>t DEF mydup2, IsOpen
  <2>2. InUse' \subseteq InUse
    BY <2>1, <1>t, <1>u
  <2>3. CASE IsOpen(d)
    <3>1. fd[d] \in Oft
      BY <2>3, <1>t DEF IsOpen
    <3>2. oft' = [[oft EXCEPT ![fd[d]].refCount = @ - 1]
                         EXCEPT ![fd[c]].refCount = @ + 1]
      BY <1>5, <2>3 DEF mydup2
    <3>3. QED
      BY <1>5, <1>t, <2>1, <2>2, <3>1, <3>2 DEF mydup2, past, OFT
  <2>4. CASE ~IsOpen(d)
    BY <1>5, <1>t, <2>1, <2>2, <2>4 DEF mydup2, past, OFT
  <2>5. QED
    BY <2>3, <2>4
<1>6. ASSUME NEW d \in Fd, NEW position \in 0..MaxSize, mylseek(d, position)
      PROVE  Step
  <2>1. fd[d] \in Oft /\ oft' = [oft EXCEPT ![fd[d]].offset = position]
        /\ position <= size[oft[fd[d]].ino]
        /\ fd' = fd /\ size' = size /\ cuts' = cuts
    BY <1>6, <1>t DEF mylseek, IsOpen, File, past
  <2>2. oft'[fd[d]].offset = position /\ oft'[fd[d]].ino = oft[fd[d]].ino
        /\ \A p \in Oft : p # fd[d] => oft'[p] = oft[p]
    BY <2>1, <1>t DEF OFT
  <2>3. QED
    BY <2>1, <2>2, <1>u, <1>w
<1>7. ASSUME NEW d \in Fd, myread(d) PROVE Step
  <2>1. fd[d] \in Oft /\ oft' = [oft EXCEPT ![fd[d]].offset = @ + 1]
        /\ oft[fd[d]].offset < size[oft[fd[d]].ino]
        /\ fd' = fd /\ size' = size /\ cuts' = cuts
    BY <1>7, <1>t DEF myread, IsOpen, File, past
  <2>2. oft'[fd[d]].offset = oft[fd[d]].offset + 1 /\ oft'[fd[d]].ino = oft[fd[d]].ino
        /\ \A p \in Oft : p # fd[d] => oft'[p] = oft[p]
    BY <2>1, <1>t DEF OFT
  <2>3. oft[fd[d]].offset + 1 <= size[oft[fd[d]].ino]
    BY <2>1, <1>t
  <2>4. QED
    BY <2>1, <2>2, <2>3, <1>u, <1>w
<1>8. ASSUME NEW d \in Fd, mywrite(d) PROVE Step
  <2> DEFINE o == fd[d]  i == oft[o].ino  new == oft[o].offset + 1
  <2>1. o \in Oft /\ oft' = [oft EXCEPT ![o].offset = @ + 1]
        /\ size' = [size EXCEPT ![i] = IF new > @ THEN new ELSE @]
        /\ fd' = fd /\ cuts' = cuts
    BY <1>8, <1>t DEF mywrite, IsOpen, File, past
  <2>2. oft'[o].offset = new /\ oft'[o].ino = i
        /\ \A p \in Oft : p # o => oft'[p] = oft[p]
    BY <2>1, <1>t DEF OFT
  <2>3. i \in Ino /\ new \in Int /\ \A j \in Ino : size[j] \in Int
    BY <2>1, <1>t, OpenFilesAssumption
  <2> HIDE DEF o, i, new
  <2>4. size'[i] >= new /\ \A j \in Ino : size'[j] >= size[j]
    BY <2>1, <2>3, <1>t
  <2>5. \A j \in Ino : size'[j] \in Int
    BY <2>1, <2>3, <1>t
  <2>6. Within(o)
    BY <2>2, <2>3, <2>4, <2>5
  <2>7. ASSUME NEW p \in InUse, p # o PROVE Within(p)
    <3>1. oft'[p] = oft[p] /\ oft[p].ino \in Ino /\ oft[p].offset \in Int
      BY <1>t, <1>u, <2>2, <2>7
    <3>2. size'[oft[p].ino] >= size[oft[p].ino]
      BY <3>1, <2>4
    <3>3. QED
      BY <3>1, <3>2, <1>w, <2>1, <2>3, <2>5
  <2>8. QED
    BY <2>1, <2>6, <2>7, <1>u
<1>9. ASSUME UNCHANGED vars PROVE Kept
  BY <1>9, <1>u DEF vars, past
<1>10. Step
  <2> HIDE DEF Kept, Step
  <2>1. QED
    BY <1>1, <1>2, <1>3, <1>4, <1>5, <1>6, <1>7, <1>8, <1>9, <1>k DEF Next
<1>11. QED
  BY <1>10 DEF OffsetInFile

\* The open descriptors stay the first ones.
LEMMA PrefixStep ==
  ASSUME TypeOK, Prefix, [Next]_vars
  PROVE  Prefix'
<1>t. fd \in [Fd -> Oft \cup {NULL}] /\ Fd \subseteq Int /\ NULL \notin Oft
  BY FdFinite, OftFinite DEF TypeOK
<1>1. dense' = dense
  BY DEF Next, OpenFails, open_file, close_file, mydup, mydup2, mylseek,
         myread, mywrite, past, vars
<1> SUFFICES ASSUME dense, NEW d \in Fd, NEW e \in Fd, e < d, fd'[d] # NULL
             PROVE  fd'[e] # NULL
  BY <1>1 DEF Prefix, IsOpen
<1>p. \A a, b \in Fd : b < a /\ fd[a] # NULL => fd[b] # NULL
  BY DEF Prefix, IsOpen
<1>2. CASE fd' = fd
  BY <1>2, <1>p
<1>3. ASSUME Closed # {}, NEW x \in Oft, fd' = [fd EXCEPT ![Lowest(Closed)] = x]
      PROVE  fd'[e] # NULL
  <2> DEFINE c == Lowest(Closed)
  <2>1. c \in Fd /\ \A a \in Fd : a < c => fd[a] # NULL
    BY <1>3, LowestClosed DEF IsOpen
  <2>2. fd' = [fd EXCEPT ![c] = x]
    BY <1>3
  <2> HIDE DEF c
  <2>3. CASE d = c
    BY <2>1, <2>2, <2>3, <1>t
  <2>4. CASE d # c
    BY <2>1, <2>2, <2>4, <1>t, <1>p
  <2>5. QED
    BY <2>3, <2>4
<1>4. ASSUME NEW i \in Ino, NEW mode \in Modes, open_file(i, mode)
      PROVE  fd'[e] # NULL
  <2>1. Closed # {} /\ Lowest(Oft \ InUse) \in Oft
        /\ fd' = [fd EXCEPT ![Lowest(Closed)] = Lowest(Oft \ InUse)]
    BY <1>4, <1>t, FreeFile DEF open_file
  <2>2. QED
    BY <2>1, <1>3
<1>5. ASSUME NEW a \in Fd, close_file(a) PROVE fd'[e] # NULL
  <2>1. fd' = [fd EXCEPT ![a] = NULL] /\ \A b \in Fd : b > a => fd[b] = NULL
    BY <1>5 DEF close_file, MayClose, IsOpen
  <2>2. d # a /\ fd[d] # NULL
    BY <2>1, <1>t
  <2>3. e # a
    BY <2>1, <2>2, <1>t
  <2>4. QED
    BY <2>1, <2>2, <2>3, <1>p, <1>t
<1>6. ASSUME NEW a \in Fd, mydup(a) PROVE fd'[e] # NULL
  BY <1>6, <1>t, <1>3 DEF mydup, IsOpen
<1>7. ASSUME NEW c \in Fd, NEW b \in Fd, mydup2(c, b) PROVE fd'[e] # NULL
  <2>1. /\ fd[c] # NULL /\ fd' = [fd EXCEPT ![b] = fd[c]]
        /\ \A a \in 0..b : a # b => fd[a] # NULL
    BY <1>7 DEF mydup2, IsOpen
  <2>2. CASE e = b
    BY <2>1, <2>2, <1>t
  <2>3. CASE e # b /\ d = b
    <3>1. e \in 0..b
      BY <2>3, FdFinite
    <3>2. QED
      BY <2>1, <2>3, <3>1, <1>t
  <2>4. CASE e # b /\ d # b
    BY <2>1, <2>4, <1>t, <1>p
  <2>5. QED
    BY <2>2, <2>3, <2>4
<1>8. QED
  BY <1>2, <1>4, <1>5, <1>6, <1>7
     DEF Next, OpenFails, mylseek, myread, mywrite, vars

-----------------------------------------------------------------------------
(***************************************************************************)
(* Theorems                                                                *)
(***************************************************************************)
LEMMA InitIInv == Init => IInv
<1> SUFFICES ASSUME Init PROVE IInv
  OBVIOUS
<1>1. 0 \in 0..MaxSize /\ MaxSize \in 0..MaxSize /\ 0 \in 0..MaxLeak
      /\ 0 \in 0..MaxCut /\ 0 \in 0..NFD /\ 0 \in 0..3
      /\ (CHOOSE i \in Ino : TRUE) \in Ino
  BY OpenFilesAssumption
<1>2. TypeOK
  <2>1. oft \in [Oft -> OFT]
    BY <1>1 DEF Init, OFT
  <2>2. QED
    BY <1>1, <2>1 DEF Init, TypeOK
<1>3. \A d \in Fd : fd[d] = NULL
  BY DEF Init
<1>4. InUse = {}
  BY <1>3 DEF InUse
<1>5. SharedCounted
  <2>1. \A o \in Oft : Descriptors(o) = {} /\ oft[o].refCount = 0
    BY <1>3, OftFinite DEF Descriptors, Init
  <2>2. QED
    BY <2>1, FS_EmptySet DEF SharedCounted
<1>6. FilesCounted
  <2>1. \A i \in Ino : FilesOn(i) = {} /\ refCount[i] = 0 /\ leaked[i] = 0 /\ cuts[i] = 0
    BY <1>4 DEF FilesOn, Init
  <2>2. QED
    BY <2>1, FS_EmptySet DEF FilesCounted
<1>7. OffsetInFile /\ Prefix
  BY <1>3, <1>4 DEF OffsetInFile, Prefix, IsOpen
<1>8. QED
  BY <1>2, <1>5, <1>6, <1>7 DEF IInv

LEMMA StepIInv == IInv /\ [Next]_vars => IInv'
<1> SUFFICES ASSUME IInv, [Next]_vars PROVE IInv'
  OBVIOUS
<1>1. TypeOK /\ Counted(fd, oft) /\ FilesCounted /\ OffsetInFile /\ Prefix
  BY SharedIsCounted DEF IInv
<1>2. TypeOK' /\ OffsetInFile' /\ Prefix'
  BY <1>1, TypeStep, OffsetStep, PrefixStep
<1>3. fd' \in [Fd -> Oft \cup {NULL}] /\ Counted(fd', oft')
  BY <1>1, SharedStep
<1>4. SharedCounted'
  BY <1>3 DEF SharedCounted, Counted, Descriptors, Sharing
<1>5. \A i : FilesOn(i)' = On(oft', i)
  BY <1>3, FilesOnIsOn DEF FilesOn, InUse
<1>6. FilesCounted'
  BY <1>1, <1>5, FilesStep DEF FilesCounted
<1>7. QED
  BY <1>2, <1>4, <1>6 DEF IInv

\* The invariant of the descriptor table.
THEOREM Invariance == Spec => []IInv
BY InitIInv, StepIInv, PTL DEF Spec

\* After any mix of open, dup, dup2 and close, an open file counts the
\* descriptors that share it, and an inode the open files on it, less what
\* truncations put and with what failed opens left.
THEOREM CountsCorrect == Spec => []CountsOK
<1>1. IInv => CountsOK
  BY DEF IInv, CountsOK
<1>2. QED
  BY <1>1, Invariance, PTL

\* No offset is beyond the end of a file that was never truncated.
THEOREM OffsetsInside == Spec => []OffsetInFile
<1>1. IInv => OffsetInFile
  BY DEF IInv
<1>2. QED
  BY <1>1, Invariance, PTL

\* As long as the user closes the highest descriptors first, a file that is
\* written is opened by nobody else: the scan sees its writer, whichever of
\* the descriptors that share the open file are still there.
THEOREM WritersAlone == Spec => WriterAlone
<1> DEFINE Alone == dense =>
      \A o \in InUse : oft[o].mode > 0 =>
        FilesOn(oft[o].ino)' \subseteq FilesOn(oft[o].ino)
<1>1. IInv /\ [Next]_vars => [Alone]_vars
  <2> SUFFICES ASSUME IInv, [Next]_vars, dense, NEW w \in InUse, oft[w].mode > 0
               PROVE  FilesOn(oft[w].ino)' \subseteq FilesOn(oft[w].ino)
    OBVIOUS
  <2>1. /\ fd \in [Fd -> Oft \cup {NULL}] /\ oft \in [Oft -> OFT]
        /\ Counted(fd, oft)
        /\ InUse = {fd[d] : d \in Fd} \ {NULL} /\ w \in Oft
    BY SharedIsCounted DEF IInv, TypeOK, InUse
  <2>2. InUse' = {fd'[d] : d \in Fd} \ {NULL}
    BY DEF InUse
  <2> DEFINE Kept == /\ InUse' \subseteq InUse
                     /\ \A o \in Oft : oft'[o].ino = oft[o].ino
  <2>k. Kept => FilesOn(oft[w].ino)' \subseteq FilesOn(oft[w].ino)
    BY <2>1 DEF FilesOn
  <2>3. ASSUME NEW i \in Ino, OpenFails(i) PROVE Kept
    BY <2>1, <2>2, <2>3 DEF OpenFails
  <2>4. ASSUME NEW i \in Ino, NEW mode \in Modes, open_file(i, mode)
        PROVE  FilesOn(oft[w].ino)' \subseteq FilesOn(oft[w].ino)
    <3> DEFINE o == Lowest(Oft \ InUse)
    <3>1. o \in Oft \ InUse /\ Lowest(Closed) \in Fd
      BY <2>1, <2>4, FreeFile, LowestClosed DEF open_file
    <3>2. /\ fd' = [fd EXCEPT ![Lowest(Closed)] = o] /\ oft'[o].ino = i
          /\ \A p \in Oft : p # o => oft'[p] = oft[p]
      BY <2>1, <2>4, <3>1 DEF open_file
    <3> HIDE DEF o
    <3>3. oft[w].ino # i
      <4>1. PICK d \in Fd : fd[d] = w /\ fd[d] # NULL
        BY <2>1
      <4>2. d \in Scanned
        <5>1. ASSUME NEW e \in 0..d PROVE IsOpen(e)
          <6>1. e \in Fd /\ (e = d \/ e < d)
            BY <5>1, OpenFilesAssumption DEF Fd
          <6>2. QED
            BY <4>1, <6>1 DEF IInv, Prefix, IsOpen
        <5>2. QED
          BY <5>1 DEF Scanned
      <4>3. ~Written(i)
        BY <2>4 DEF open_file
      <4>4. QED
        BY <4>1, <4>2, <4>3 DEF Written, File
    <3>4. InUse' \subseteq InUse \cup {o} /\ InUse \subseteq Oft
      BY <2>1, <2>2, <3>1, <3>2
    <3>5. QED
      BY <3>1, <3>2, <3>3, <3>4 DEF FilesOn
  <2>5. ASSUME NEW d \in Fd, close_file(d) PROVE Kept
    <3>1. fd[d] \in Oft /\ fd' = [fd EXCEPT ![d] = NULL]
          /\ oft' = [oft EXCEPT ![fd[d]].refCount = @ - 1]
      BY <2>1, <2>5 DEF close_file, IsOpen
    <3>2. QED
      BY <2>1, <2>2, <3>1 DEF OFT
  <2>6. ASSUME NEW d \in Fd, mydup(d) PROVE Kept
    <3>1. fd[d] \in InUse /\ fd' = [fd EXCEPT ![Lowest(Closed)] = fd[d]]
          /\ oft' = [oft EXCEPT ![fd[d]].refCount = @ + 1]
      BY <2>1, <2>6 DEF mydup, IsOpen
    <3>2. QED
      BY <2>1, <2>2, <3>1 DEF OFT
  <2>7. ASSUME NEW c \in Fd, NEW d \in Fd, mydup2(c, d) PROVE Kept
    <3>1. fd[c] \in InUse /\ fd' = [fd EXCEPT ![d] = fd[c]]
      BY <2>1, <2>7 DEF mydup2, IsOpen
    <3>2. InUse' \subseteq InUse
      BY <2>1, <2>2, <3>1
    <3>3. CASE IsOpen(d)
      <4>1. fd[d] \in Oft
        BY <3>3, <2>1 DEF IsOpen
      <4>2. oft' = [[oft EXCEPT ![fd[d]].refCount = @ - 1]
                           EXCEPT ![fd[c]].refCount = @ + 1]
        BY <2>7, <3>3 DEF mydup2
      <4>3. QED
        BY <2>1, <3>1, <3>2, <4>1, <4>2 DEF OFT
    <3>4. CASE ~IsOpen(d)
      BY <2>7, <2>1, <3>1, <3>2, <3>4 DEF mydup2, OFT
    <3>5. QED
      BY <3>3, <3>4
  <2>8. ASSUME NEW d \in Fd, \/ \E position \in 0..MaxSize : mylseek(d, position)
                             \/ myread(d) \/ mywrite(d)
        PROVE  Kept
    BY <2>1, <2>2, <2>8 DEF mylseek, myread, mywrite, OFT
  <2>9. ASSUME UNCHANGED vars PROVE Kept
    BY <2>1, <2>2, <2>9 DEF vars
  <2>10. QED
    <3> HIDE DEF Kept
    <3>1. QED
      BY <2>k, <2>3, <2>4, <2>5, <2>6, <2>7, <2>8, <2>9 DEF Next
<1>2. QED
  BY <1>1, Invariance, PTL DEF Spec, WriterAlone
=============================================================================
