---------------------------- MODULE ShellProofs ----------------------------
(***************************************************************************)
(* Proofs about Shell for every number of slots, every tree of directories *)
(* in which "." and ".." are right, every set of paths and of sessions.    *)
(*                                                                         *)
(* A command takes and puts references through calls of iget and iput.     *)
(* What the proofs need of a run of such calls is how the counts differ    *)
(* before and after it, and that a slot that counts more than 0 keeps its  *)
(* inode; Took says so of one reference.                                   *)
(***************************************************************************)
EXTENDS Shell, WellFoundedInduction, TLAPS

-----------------------------------------------------------------------------
(***************************************************************************)
(* The inductive invariant                                                 *)
(***************************************************************************)
Table == [Slot -> [refCount : Int, ino : Ino \cup {0}]]

\* No other slot in use holds the inode of slot 1, and none counts below 0.
Apart(m) ==
  \A s \in Slot \ {1} : /\ m[s].refCount >= 0
                        /\ m[s].refCount > 0 => m[s].ino # m[1].ino

\* One reference for cwd, if it is not slot 1.
CwdCounted == cwd # 1 => minode[cwd].refCount > 0

\* Directory p has an entry for inode i: what a walk looks for in p.
Kin(p, i) == p \in Ino /\ \E x \in DOMAIN Tree[p] : Tree[p][x].ino = i

\* root stays in the first slot.  What that counts is short by one for every
\* cd without an argument.
RootCounted ==
  /\ root = 1
  /\ minode[1].refCount + bare >= IF cwd = 1 THEN 3 ELSE 2
  /\ bare < 2 => minode[1].ino = Root

\* Where the slot of wd was recycled by the walk itself, it holds the parent,
\* which has an entry for itself.
Walking(j, m) ==
  j # NoJob =>
    /\ j.wd \in Slot
    /\ j.parent # 0 => Kin(j.parent, m[j.wd].ino)
    /\ j.self # 0 => j.parent # 0 /\ Kin(j.parent, j.self)

IInv ==
  /\ TypeOK /\ Walking(job, minode)
  /\ Balanced \/ bare < 2 => RootCounted
  /\ Balanced => job = NoJob /\ Apart(minode) /\ CwdCounted
  /\ Balanced /\ bare < 2 => minode[cwd].ino = here

-----------------------------------------------------------------------------
(***************************************************************************)
(* The first of a set, and the entries of a directory                      *)
(***************************************************************************)
\* A set of natural numbers that is not empty has a least element.
LEMMA Least ==
  ASSUME NEW S \in SUBSET Nat, S # {}
  PROVE  \E n \in S : \A m \in S : n <= m
<1> DEFINE R == {p \in Nat \X Nat : p[1] < p[2]}
<1>1. R = OpToRel(<, Nat)
  BY DEF OpToRel
<1>2. IsWellFoundedOn(R, Nat)
  BY <1>1, NatLessThanWellFounded
<1> HIDE DEF R
<1>3. PICK n \in S : \A m \in S : ~(<<m, n>> \in R)
  BY <1>2, WFMin
<1>4. ASSUME NEW m \in S PROVE n <= m
  <2>1. ~(m < n)
    BY <1>3 DEF R
  <2>2. QED
    BY <2>1
<1>5. QED
  BY <1>4

LEMMA FirstIs ==
  ASSUME NEW S \in SUBSET Nat
  PROVE  /\ S = {} => First(S) = NULL
         /\ S # {} => First(S) \in S /\ \A t \in S : First(S) <= t
<1>1. CASE S = {}
  BY <1>1 DEF First
<1>2. CASE S # {}
  <2>1. \E n \in S : \A m \in S : n <= m
    BY <1>2, Least
  <2>2. QED
    BY <1>2, <2>1 DEF First
<1>3. QED
  BY <1>1, <1>2

\* Slots are numbers, none of them that of the null pointer.
LEMMA SlotIs ==
  /\ Slot \subseteq Nat /\ NULL \notin Slot /\ 1 \in Slot
  /\ \A s \in Slot : 1 <= s
BY ShellAssumption DEF Slot, NULL

LEMMA InoIs ==
  Root \in Ino /\ 0 \notin Ino /\ Ino \subseteq Nat
BY ShellAssumption

LEMMA FirstSlot ==
  ASSUME NEW S \in SUBSET Slot
  PROVE  /\ S = {} => First(S) = NULL
         /\ S # {} => First(S) \in S /\ First(S) \in Slot /\ First(S) # NULL
         /\ 1 \in S => First(S) = 1
<1>1. S \in SUBSET Nat
  BY SlotIs
<1>2. /\ S = {} => First(S) = NULL
      /\ S # {} => First(S) \in S /\ \A t \in S : First(S) <= t
  BY <1>1, FirstIs
<1>3. ASSUME 1 \in S PROVE First(S) = 1
  <2>1. First(S) \in Slot /\ First(S) <= 1
    BY <1>2, <1>3
  <2>2. First(S) \in Nat /\ 1 <= First(S)
    BY <2>1, SlotIs
  <2>3. QED
    BY <2>1, <2>2
<1>4. QED
  BY <1>2, <1>3, SlotIs

LEMMA ElementIs ==
  ASSUME NEW T, NEW q \in Seq(T), NEW x \in DOMAIN q
  PROVE  q[x] \in T /\ x \in Nat
OBVIOUS

\* What search finds is in an entry of a directory.
LEMMA searchIs ==
  ASSUME NEW i, NEW nm
  PROVE  /\ search(i, nm) \in Ino \cup {0}
         /\ search(i, nm) # 0 => IsDir(i) /\ Kin(i, search(i, nm))
<1> DEFINE S == {x \in DOMAIN Block(i) : Block(i)[x].name = nm}
           k == First(S)
<1>1. search(i, nm) = IF k = NULL THEN 0 ELSE Block(i)[k].ino
  BY DEF search
<1>2. CASE i \in Ino
  <2>1. Block(i) = Tree[i] /\ Tree[i] \in Seq([name : Name, ino : Ino])
    BY <1>2, TreeAssumption DEF Block
  <2>2. S \in SUBSET Nat /\ \A x \in S : Block(i)[x].ino \in Ino /\ x \in DOMAIN Tree[i]
    <3>1. \A x \in DOMAIN Tree[i] :
            x \in Nat /\ Tree[i][x] \in [name : Name, ino : Ino]
      BY <2>1, ElementIs
    <3>2. QED
      BY <2>1, <3>1
  <2>3. S # {} => k \in S
    BY <2>2, FirstIs
  <2>4. S = {} => k = NULL
    BY <2>2, FirstIs
  <2> HIDE DEF k
  <2>5. CASE S = {}
    BY <1>1, <2>4, <2>5
  <2>6. CASE S # {}
    <3>1. Block(i)[k].ino \in Ino /\ k \in DOMAIN Tree[i]
      BY <2>2, <2>3, <2>6
    <3>2. IsDir(i)
      BY <2>1, <3>1 DEF IsDir
    <3> HIDE DEF S
    <3>3. QED
      BY <1>1, <1>2, <2>1, <3>1, <3>2 DEF Kin
  <2>7. QED
    BY <2>5, <2>6
<1>3. CASE i \notin Ino
  <2>1. S = {}
    BY <1>3 DEF Block
  <2>2. k = NULL
    BY <2>1, FirstIs
  <2>3. QED
    BY <1>1, <2>2
<1>4. QED
  BY <1>2, <1>3

-----------------------------------------------------------------------------
(***************************************************************************)
(* iget, iput and the lookup of a path                                     *)
(***************************************************************************)
\* x is table m with one more reference, to slot a; none if a is NULL.
Took(m, x, a) ==
  /\ x \in Table
  /\ \A s \in Slot :
       /\ x[s].refCount = m[s].refCount + (IF s = a THEN 1 ELSE 0)
       /\ m[s].refCount > 0 => x[s].ino = m[s].ino

\* w is what a lookup that began with table m has come to.
On(m, w) ==
  /\ w \in [at : Slot \cup {NULL}, ino : Ino \cup {0}, minode : Table]
  /\ Took(m, w.minode, w.at)
  /\ w.at # NULL => w.minode[w.at].ino = w.ino
  /\ Apart(m) => Apart(w.minode)

LEMMA igetOn ==
  ASSUME NEW m \in Table, NEW i \in Ino \cup {0}
  PROVE  On(m, iget(m, i)) /\ iget(m, i).ino = i
<1> DEFINE found == Found(m, i)
           s == First(IF found # {} THEN found ELSE Unused(m))
           x == iget(m, i)
<1>1. x = [at |-> s, ino |-> i,
           minode |-> IF s = NULL THEN m
                      ELSE IF found # {} THEN [m EXCEPT ![s].refCount = @ + 1]
                      ELSE [m EXCEPT ![s] = [refCount |-> 1, ino |-> i]]]
  BY DEF iget
<1>2. found \in SUBSET Slot /\ Unused(m) \in SUBSET Slot
  BY DEF Found, Unused
<1>3. CASE found # {}
  <2>1. s \in found /\ s \in Slot /\ s # NULL
    BY <1>2, <1>3, FirstSlot
  <2>a. x.minode = [m EXCEPT ![s].refCount = @ + 1]
    BY <1>1, <1>3, <2>1
  <2>b. s \in Found(m, i)
    BY <2>1
  <2> HIDE DEF s, x, found
  <2>2. x.minode = [m EXCEPT ![s].refCount = @ + 1] /\ m[s].refCount # 0 /\ m[s].ino = i
    BY <2>a, <2>b DEF Found
  <2>3. x.minode \in Table
    BY <2>1, <2>2 DEF Table
  <2>4. \A t \in Slot : /\ x.minode[t].refCount = m[t].refCount + (IF t = s THEN 1 ELSE 0)
                        /\ x.minode[t].ino = m[t].ino
    BY <2>1, <2>2 DEF Table
  <2>5. Apart(m) => Apart(x.minode)
    <3>1. SUFFICES ASSUME Apart(m), NEW t \in Slot \ {1}
                   PROVE  /\ x.minode[t].refCount >= 0
                          /\ x.minode[t].refCount > 0 => x.minode[t].ino # x.minode[1].ino
      BY DEF Apart
    <3>2. /\ m[t].refCount \in Int /\ m[t].refCount >= 0
          /\ m[t].refCount > 0 => m[t].ino # m[1].ino
      BY <3>1 DEF Apart, Table
    <3>3. x.minode[1].ino = m[1].ino /\ x.minode[t].ino = m[t].ino
      BY <2>4, SlotIs
    <3>4. CASE t = s
      BY <2>2, <2>4, <3>2, <3>3, <3>4
    <3>5. CASE t # s
      BY <2>4, <3>2, <3>3, <3>5
    <3>6. QED
      BY <3>4, <3>5
  <2>6. On(m, x) /\ x.ino = i
    BY <1>1, <2>1, <2>2, <2>3, <2>4, <2>5 DEF On, Took
  <2>7. QED
    BY <2>6 DEF x
<1>4. CASE found = {} /\ Unused(m) # {}
  <2>1. s \in Unused(m) /\ s \in Slot /\ s # NULL /\ (1 \in Unused(m) => s = 1)
    BY <1>2, <1>4, FirstSlot
  <2>2. x.minode = [m EXCEPT ![s] = [refCount |-> 1, ino |-> i]] /\ m[s].refCount = 0
    BY <1>1, <1>4, <2>1 DEF Unused
  <2>3. \A t \in Slot : m[t].refCount # 0 => m[t].ino # i
    BY <1>4 DEF Found
  <2>4. 1 \in Slot /\ (m[1].refCount = 0 => s = 1)
    BY <2>1, SlotIs DEF Unused
  <2> HIDE DEF s, x, found
  <2>5. x.minode \in Table
    BY <2>1, <2>2 DEF Table
  <2>6. /\ x.minode[s].refCount = 1 /\ x.minode[s].ino = i
        /\ \A t \in Slot \ {s} : x.minode[t] = m[t]
    BY <2>1, <2>2 DEF Table
  <2>7. \A t \in Slot : /\ x.minode[t].refCount = m[t].refCount + (IF t = s THEN 1 ELSE 0)
                        /\ m[t].refCount > 0 => x.minode[t].ino = m[t].ino
    <3>1. TAKE t \in Slot
    <3>2. m[t].refCount \in Int
      BY DEF Table
    <3>3. CASE t = s
      BY <2>2, <2>6, <3>3
    <3>4. CASE t # s
      BY <2>6, <3>2, <3>4
    <3>5. QED
      BY <3>3, <3>4
  <2>8. Apart(m) => Apart(x.minode)
    <3>1. SUFFICES ASSUME Apart(m), NEW t \in Slot \ {1}
                   PROVE  /\ x.minode[t].refCount >= 0
                          /\ x.minode[t].refCount > 0 => x.minode[t].ino # x.minode[1].ino
      BY DEF Apart
    <3>2. /\ m[t].refCount \in Int /\ m[t].refCount >= 0
          /\ m[t].refCount > 0 => m[t].ino # m[1].ino
      BY <3>1 DEF Apart, Table
    <3>3. CASE t = s
      BY <2>3, <2>4, <2>6, <3>1, <3>3
    <3>4. CASE t # s /\ s = 1
      BY <2>3, <2>6, <3>2, <3>4
    <3>5. CASE t # s /\ s # 1
      BY <2>4, <2>6, <3>2, <3>5
    <3>6. QED
      BY <3>3, <3>4, <3>5
  <2>9. On(m, x) /\ x.ino = i
    BY <1>1, <2>1, <2>5, <2>6, <2>7, <2>8 DEF On, Took
  <2>10. QED
    BY <2>9 DEF x
<1>5. CASE found = {} /\ Unused(m) = {}
  <2>1. s = NULL
    BY <1>2, <1>5, FirstSlot
  <2>2. x.minode = m
    BY <1>1, <2>1
  <2> HIDE DEF s, x, found
  <2>3. \A t \in Slot : m[t].refCount \in Int /\ t # NULL
    BY SlotIs DEF Table
  <2>4. On(m, x) /\ x.ino = i
    BY <1>1, <2>1, <2>2, <2>3 DEF On, Took
  <2>5. QED
    BY <2>4 DEF x
<1>6. QED
  BY <1>3, <1>4, <1>5

\* An inode that slot 1 holds is found there: it is the first, in use or not.
LEMMA igetFirst ==
  ASSUME NEW m \in Table, NEW i, m[1].ino = i, m[1].refCount # 0 \/ Apart(m)
  PROVE  iget(m, i).at = 1
<1>1. 1 \in Slot /\ Found(m, i) \in SUBSET Slot /\ Unused(m) \in SUBSET Slot
  BY SlotIs DEF Found, Unused
<1>2. CASE m[1].refCount # 0
  <2>1. 1 \in Found(m, i)
    BY <1>1, <1>2 DEF Found
  <2>2. First(Found(m, i)) = 1
    BY <1>1, <2>1, FirstSlot
  <2>3. QED
    BY <2>1, <2>2 DEF iget
<1>3. CASE m[1].refCount = 0 /\ Apart(m)
  <2>1. ASSUME NEW t \in Slot PROVE t \notin Found(m, i)
    <3>1. m[t].refCount \in Int
      BY DEF Table
    <3>2. CASE t = 1
      BY <1>3, <3>2 DEF Found
    <3>3. CASE t # 1
      <4>1. m[t].refCount >= 0 /\ (m[t].refCount > 0 => m[t].ino # i)
        BY <1>3, <3>3 DEF Apart
      <4>2. QED
        BY <3>1, <4>1 DEF Found
    <3>4. QED
      BY <3>2, <3>3
  <2>2. Found(m, i) = {}
    BY <1>1, <2>1
  <2>3. 1 \in Unused(m)
    BY <1>1, <1>3 DEF Unused
  <2>4. First(Unused(m)) = 1
    BY <1>1, <2>3, FirstSlot
  <2>5. QED
    BY <2>2, <2>4 DEF iget
<1>4. QED
  BY <1>2, <1>3

\* An inode that some slot holds is given a slot.
LEMMA igetSome ==
  ASSUME NEW m \in Table, NEW i, NEW s \in Slot, m[s].ino = i
  PROVE  iget(m, i).at \in Slot
<1>1. Found(m, i) \in SUBSET Slot /\ Unused(m) \in SUBSET Slot
  BY DEF Found, Unused
<1>2. Found(m, i) # {} \/ Unused(m) # {}
  BY DEF Found, Unused
<1>3. CASE Found(m, i) # {}
  BY <1>1, <1>3, FirstSlot DEF iget
<1>4. CASE Found(m, i) = {}
  BY <1>1, <1>2, <1>4, FirstSlot DEF iget
<1>5. QED
  BY <1>3, <1>4

LEMMA iputIs ==
  ASSUME NEW m \in Table, NEW s \in Slot
  PROVE  /\ iput(m, s) \in Table
         /\ \A t \in Slot :
              /\ iput(m, s)[t].refCount = m[t].refCount - (IF t = s THEN 1 ELSE 0)
              /\ iput(m, s)[t].ino = m[t].ino
<1>1. iput(m, s) = [m EXCEPT ![s].refCount = @ - 1]
  BY SlotIs DEF iput
<1>2. QED
  BY <1>1 DEF Table

\* A reference that is taken and put again leaves the counts.
LEMMA TookPut ==
  ASSUME NEW m \in Table, NEW x, NEW a \in Slot \cup {NULL}, Took(m, x, a),
         Apart(m) => Apart(x)
  PROVE  /\ Took(m, iput(x, a), NULL)
         /\ Apart(m) => Apart(iput(x, a))
<1>1. CASE a = NULL
  BY <1>1 DEF iput
<1>2. CASE a # NULL
  <2> DEFINE y == iput(x, a)
  <2>1. a \in Slot /\ x \in Table
    BY <1>2 DEF Took
  <2>2. /\ y \in Table
        /\ \A t \in Slot : /\ y[t].refCount = x[t].refCount - (IF t = a THEN 1 ELSE 0)
                           /\ y[t].ino = x[t].ino
    BY <2>1, iputIs
  <2> HIDE DEF y
  <2>3. \A t \in Slot : /\ m[t].refCount \in Int /\ t # NULL
                        /\ x[t].refCount = m[t].refCount + (IF t = a THEN 1 ELSE 0)
                        /\ m[t].refCount > 0 => x[t].ino = m[t].ino
    BY SlotIs DEF Took, Table
  <2>4. \A t \in Slot : y[t].refCount = m[t].refCount
    BY <2>2, <2>3
  <2>5. Took(m, y, NULL)
    BY <2>2, <2>3, <2>4 DEF Took
  <2>6. ASSUME Apart(m), NEW t \in Slot \ {1}
        PROVE  /\ y[t].refCount >= 0
               /\ y[t].refCount > 0 => y[t].ino # y[1].ino
    <3>1. y[t].refCount = m[t].refCount /\ m[t].refCount >= 0
      BY <2>4, <2>6 DEF Apart
    <3>2. y[t].refCount > 0 => x[t].refCount > 0
      BY <2>3, <3>1
    <3>3. x[t].refCount > 0 => x[t].ino # x[1].ino
      BY <2>6 DEF Apart
    <3>4. y[t].ino = x[t].ino /\ y[1].ino = x[1].ino
      BY <2>2, SlotIs
    <3>5. QED
      BY <3>1, <3>2, <3>3, <3>4
  <2>7. Apart(m) => Apart(y)
    BY <2>6 DEF Apart
  <2>8. QED
    BY <2>5, <2>7 DEF y
<1>3. QED
  BY <1>1, <1>2

\* What a lookup takes after references that are put again.
LEMMA TookOn ==
  ASSUME NEW m \in Table, NEW x, NEW w, Took(m, x, NULL), Apart(m) => Apart(x),
         On(x, w)
  PROVE  On(m, w)
<1>1. /\ x \in Table
      /\ \A s \in Slot : /\ m[s].refCount \in Int /\ x[s].refCount = m[s].refCount
                         /\ m[s].refCount > 0 => x[s].ino = m[s].ino
  BY SlotIs DEF Took, Table
<1>2. /\ w.minode \in Table
      /\ \A s \in Slot :
           /\ w.minode[s].refCount = x[s].refCount + (IF s = w.at THEN 1 ELSE 0)
           /\ x[s].refCount > 0 => w.minode[s].ino = x[s].ino
  BY DEF On, Took
<1>3. Took(m, w.minode, w.at)
  BY <1>1, <1>2 DEF Took
<1>4. QED
  BY <1>3 DEF On

\* One component of a path leaves a lookup one.
LEMMA ComponentOn ==
  ASSUME NEW m \in Table, NEW w, On(m, w), NEW nm
  PROVE  On(m, Component(w, nm))
<1> DEFINE i == search(w.minode[w.at].ino, nm)
           put == iput(w.minode, w.at)
<1>1. Component(w, nm) = IF w.at = NULL THEN w
                         ELSE IF i = 0 THEN [at |-> NULL, ino |-> 0, minode |-> put]
                         ELSE iget(put, i)
  BY DEF Component
<1>2. i \in Ino \cup {0}
  BY searchIs
<1>3. Took(m, put, NULL) /\ (Apart(m) => Apart(put)) /\ put \in Table
  <2>1. w.at \in Slot \cup {NULL} /\ Took(m, w.minode, w.at) /\ (Apart(m) => Apart(w.minode))
    BY DEF On
  <2>2. Took(m, put, NULL) /\ (Apart(m) => Apart(put))
    BY <2>1, TookPut
  <2> HIDE DEF put
  <2>3. QED
    BY <2>2 DEF Took
<1> HIDE DEF i, put
<1>4. CASE w.at = NULL
  BY <1>1, <1>4
<1>5. CASE w.at # NULL /\ i = 0
  BY <1>1, <1>3, <1>5 DEF On
<1>6. CASE w.at # NULL /\ i # 0
  <2>1. On(put, iget(put, i))
    BY <1>2, <1>3, igetOn
  <2>2. On(m, iget(put, i))
    BY <1>3, <2>1, TookOn
  <2>3. QED
    BY <1>1, <1>6, <2>2
<1>7. QED
  BY <1>4, <1>5, <1>6

\* f is what Lookup computes, up to the n-th name.
Looking(m, i, names, n, f) ==
  f = [k \in 0..n |-> IF k = 0 THEN iget(m, i) ELSE Component(f[k - 1], names[k])]

\* The function Lookup defines exists: it is made longer by one component.
LEMMA LookupRun ==
  ASSUME NEW m, NEW i, NEW names, NEW n \in Nat
  PROVE  \E f : Looking(m, i, names, n, f)
<1> DEFINE Run(f, l) == Looking(m, i, names, l, f)
           S == {l \in Nat : ~\E f : Run(f, l)}
<1>1. SUFFICES ASSUME S # {} PROVE FALSE
  OBVIOUS
<1>2. PICK l \in S : \A h \in S : l <= h
  <2>1. S \in SUBSET Nat
    OBVIOUS
  <2> HIDE DEF S
  <2>2. QED
    BY <1>1, <2>1, Least
<1>3. l \in Nat /\ ~\E f : Run(f, l)
  OBVIOUS
<1>4. CASE l = 0
  <2> DEFINE f == [k \in 0..0 |-> iget(m, i)]
  <2>1. f = [k \in 0..0 |-> IF k = 0 THEN iget(m, i)
                            ELSE Component(f[k - 1], names[k])]
    OBVIOUS
  <2> HIDE DEF f
  <2>2. Run(f, 0)
    BY <2>1 DEF Looking
  <2>3. QED
    BY <1>3, <1>4, <2>2
<1>5. CASE l # 0
  <2>1. l - 1 \in Nat /\ ~(l <= l - 1)
    BY <1>3, <1>5
  <2>2. l - 1 \notin S
    <3> HIDE DEF S
    <3>1. QED
      BY <1>2, <2>1
  <2>3. PICK g : Run(g, l - 1)
    BY <2>1, <2>2
  <2> DEFINE At(k) == IF k = 0 THEN iget(m, i) ELSE Component(g[k - 1], names[k])
             f == [k \in 0..l |-> At(k)]
  <2>4. \A k \in 0..(l - 1) : g[k] = At(k)
    BY <2>3 DEF Looking
  <2>5. \A k \in 0..(l - 1) : f[k] = g[k]
    BY <2>1, <2>4
  <2>6. \A k \in 0..l : k # 0 => k - 1 \in 0..(l - 1)
    BY <1>3
  <2>7. \A k \in 0..l : At(k) = IF k = 0 THEN iget(m, i)
                                ELSE Component(f[k - 1], names[k])
    <3> HIDE DEF f
    <3>1. QED
      BY <2>5, <2>6
  <2>8. Run(f, l)
    <3>1. f = [k \in 0..l |-> At(k)]
      OBVIOUS
    <3> HIDE DEF f, At
    <3>2. QED
      BY <2>7, <3>1 DEF Looking
  <2> HIDE DEF f, Run
  <2>9. QED
    BY <1>3, <2>8
<1>6. QED
  BY <1>4, <1>5

\* A lookup takes one reference, or none.
LEMMA LookupOn ==
  ASSUME NEW m \in Table, NEW i \in Ino \cup {0}, NEW names \in Seq(Name)
  PROVE  On(m, Lookup(m, i, names))
<1> DEFINE n == Len(names)
           Run(f) == Looking(m, i, names, n, f)
           w == CHOOSE f : Run(f)
           S == {k \in 0..n : ~On(m, w[k])}
<1>1. n \in Nat
  OBVIOUS
<1>2. Lookup(m, i, names) = w[n]
  BY DEF Lookup, Looking
<1>3. Run(w)
  <2>1. \E f : Run(f)
    BY <1>1, LookupRun
  <2>2. QED
    BY <2>1
<1> HIDE DEF w
<1>4. /\ w[0] = iget(m, i)
      /\ \A k \in 0..n : k # 0 => w[k] = Component(w[k - 1], names[k])
  BY <1>1, <1>3 DEF Looking
<1> HIDE DEF n, Run
<1>5. S = {}
  <2>1. SUFFICES ASSUME S # {} PROVE FALSE
    OBVIOUS
  <2>2. S \in SUBSET Nat
    BY <1>1
  <2> HIDE DEF S
  <2>3. PICK k \in S : \A l \in S : k <= l
    BY <2>1, <2>2, Least
  <2>4. k \in 0..n /\ ~On(m, w[k])
    BY DEF S
  <2>5. k # 0
    BY <1>4, <2>4, igetOn
  <2>6. k - 1 \in 0..n /\ k - 1 \notin S
    BY <1>1, <2>3, <2>4, <2>5
  <2>7. On(m, w[k - 1])
    BY <2>6 DEF S
  <2>8. On(m, Component(w[k - 1], names[k]))
    BY <2>7, ComponentOn
  <2>9. QED
    BY <1>4, <2>4, <2>5, <2>8
<1>6. QED
  BY <1>1, <1>2, <1>5

\* getino puts what it takes.
LEMMA getinoTook ==
  ASSUME TypeOK, NEW m \in Table, NEW p, p.names \in Seq(Name)
  PROVE  /\ getino(m, p).ino \in Ino \cup {0}
         /\ Took(m, getino(m, p).minode, NULL)
         /\ Apart(m) => Apart(getino(m, p).minode)
<1> DEFINE start == IF p.abs THEN Root ELSE m[cwd].ino
           w == Lookup(m, start, p.names)
           g == getino(m, p)
<1>1. g = IF p.abs /\ p.names = <<>> THEN [at |-> NULL, ino |-> Root, minode |-> m]
          ELSE [w EXCEPT !.minode = iput(@, w.at)]
  BY DEF getino
<1>2. start \in Ino \cup {0}
  BY InoIs DEF TypeOK, Table
<1> HIDE DEF start
<1>3. On(m, w)
  BY <1>2, LookupOn
<1> HIDE DEF w
<1>4. /\ w \in [at : Slot \cup {NULL}, ino : Ino \cup {0}, minode : Table]
      /\ Took(m, w.minode, w.at) /\ (Apart(m) => Apart(w.minode))
  BY <1>3 DEF On
<1>5. CASE p.abs /\ p.names = <<>>
  <2>1. Took(m, m, NULL)
    BY SlotIs DEF Took, Table
  <2>2. QED
    BY <1>1, <1>5, <2>1, InoIs
<1>6. CASE ~(p.abs /\ p.names = <<>>)
  <2>1. g.ino = w.ino /\ g.minode = iput(w.minode, w.at)
    BY <1>1, <1>4, <1>6
  <2>2. Took(m, iput(w.minode, w.at), NULL) /\ (Apart(m) => Apart(iput(w.minode, w.at)))
    BY <1>4, TookPut
  <2> HIDE DEF g
  <2>3. /\ g.ino \in Ino \cup {0} /\ Took(m, g.minode, NULL)
        /\ Apart(m) => Apart(g.minode)
    BY <1>4, <2>1, <2>2
  <2>4. QED
    BY <2>3 DEF g
<1>7. QED
  BY <1>5, <1>6

\* A command that opens a path takes one reference, or none.
LEMMA OpenOn ==
  ASSUME TypeOK, NEW p \in Path
  PROVE  On(minode, Open(p))
<1> DEFINE g == getino(minode, p)
<1>1. minode \in Table /\ p.names \in Seq(Name)
  BY ShellAssumption DEF TypeOK, Table
<1>2. /\ g.ino \in Ino \cup {0} /\ Took(minode, g.minode, NULL)
      /\ Apart(minode) => Apart(g.minode)
  BY <1>1, getinoTook
<1>3. g.minode \in Table
  BY <1>2 DEF Took
<1>4. On(g.minode, iget(g.minode, g.ino))
  BY <1>2, <1>3, igetOn
<1>5. On(minode, iget(g.minode, g.ino))
  BY <1>1, <1>2, <1>4, TookOn
<1>6. QED
  BY <1>5 DEF Open

-----------------------------------------------------------------------------
(***************************************************************************)
(* What ls takes and does not put                                          *)
(***************************************************************************)
\* x is table m with references taken, none put.
Grew(m, x) ==
  /\ x \in Table
  /\ \A s \in Slot : /\ x[s].refCount >= m[s].refCount
                     /\ m[s].refCount > 0 => x[s].ino = m[s].ino

LEMMA TookGrew ==
  ASSUME NEW m \in Table, NEW x, NEW a, Took(m, x, a)
  PROVE  Grew(m, x)
<1>1. \A s \in Slot : m[s].refCount \in Int
  BY DEF Table
<1>2. QED
  BY <1>1 DEF Took, Grew

LEMMA GrewGrew ==
  ASSUME NEW m \in Table, NEW x, NEW y, Grew(m, x), Grew(x, y)
  PROVE  Grew(m, y)
<1>1. x \in Table /\ y \in Table
  BY DEF Grew
<1>2. \A s \in Slot : /\ m[s].refCount \in Int /\ x[s].refCount \in Int
                      /\ y[s].refCount \in Int
  BY <1>1 DEF Table
<1>3. ASSUME NEW s \in Slot
      PROVE  /\ y[s].refCount >= m[s].refCount
             /\ m[s].refCount > 0 => y[s].ino = m[s].ino
  <2>1. /\ y[s].refCount >= x[s].refCount /\ x[s].refCount >= m[s].refCount
        /\ x[s].refCount > 0 => y[s].ino = x[s].ino
        /\ m[s].refCount > 0 => x[s].ino = m[s].ino
    BY DEF Grew
  <2>2. QED
    BY <1>2, <2>1
<1>4. QED
  BY <1>1, <1>3 DEF Grew

\* o is what a listing that began with table m has come to.
Listed(m, o) ==
  /\ o \in [at : Slot \cup {NULL}, ino : Ino \cup {0}, minode : Table]
  /\ Grew(m, o.minode) /\ (Apart(m) => Apart(o.minode))

LEMMA OnListed ==
  ASSUME NEW m \in Table, NEW o, On(m, o)
  PROVE  Listed(m, o)
<1>1. Took(m, o.minode, o.at)
  BY DEF On
<1>2. Grew(m, o.minode)
  BY <1>1, TookGrew
<1>3. QED
  BY <1>2 DEF On, Listed

LEMMA ls_fileListed ==
  ASSUME NEW m \in Table, NEW o, Listed(m, o), NEW e, e.ino \in Ino \cup {0}
  PROVE  Listed(m, ls_file(o, e))
<1>1. CASE o.at = NULL
  BY <1>1 DEF ls_file
<1>2. CASE o.at # NULL
  <2> DEFINE x == iget(o.minode, e.ino)
  <2>1. o.minode \in Table /\ Grew(m, o.minode) /\ (Apart(m) => Apart(o.minode))
    BY DEF Listed
  <2>2. On(o.minode, x)
    BY <2>1, igetOn
  <2> HIDE DEF x
  <2>3. Listed(o.minode, x)
    BY <2>1, <2>2, OnListed
  <2>4. Grew(m, x.minode)
    BY <2>1, <2>3, GrewGrew DEF Listed
  <2>5. Listed(m, x)
    BY <2>1, <2>3, <2>4 DEF Listed
  <2>6. QED
    BY <1>2, <2>5 DEF ls_file, x
<1>3. QED
  BY <1>1, <1>2

\* f is what EachListed computes, up to the n-th entry.
Listing(o, ents, n, f) ==
  f = [k \in 0..n |-> IF k = 0 THEN o ELSE ls_file(f[k - 1], ents[k])]

LEMMA ListingRun ==
  ASSUME NEW o, NEW ents, NEW n \in Nat
  PROVE  \E f : Listing(o, ents, n, f)
<1> DEFINE Run(f, l) == Listing(o, ents, l, f)
           S == {l \in Nat : ~\E f : Run(f, l)}
<1>1. SUFFICES ASSUME S # {} PROVE FALSE
  OBVIOUS
<1>2. PICK l \in S : \A h \in S : l <= h
  <2>1. S \in SUBSET Nat
    OBVIOUS
  <2> HIDE DEF S
  <2>2. QED
    BY <1>1, <2>1, Least
<1>3. l \in Nat /\ ~\E f : Run(f, l)
  OBVIOUS
<1>4. CASE l = 0
  <2> DEFINE f == [k \in 0..0 |-> o]
  <2>1. f = [k \in 0..0 |-> IF k = 0 THEN o ELSE ls_file(f[k - 1], ents[k])]
    OBVIOUS
  <2> HIDE DEF f
  <2>2. Run(f, 0)
    BY <2>1 DEF Listing
  <2>3. QED
    BY <1>3, <1>4, <2>2
<1>5. CASE l # 0
  <2>1. l - 1 \in Nat /\ ~(l <= l - 1)
    BY <1>3, <1>5
  <2>2. l - 1 \notin S
    <3> HIDE DEF S
    <3>1. QED
      BY <1>2, <2>1
  <2>3. PICK g : Run(g, l - 1)
    BY <2>1, <2>2
  <2> DEFINE At(k) == IF k = 0 THEN o ELSE ls_file(g[k - 1], ents[k])
             f == [k \in 0..l |-> At(k)]
  <2>4. \A k \in 0..(l - 1) : g[k] = At(k)
    BY <2>3 DEF Listing
  <2>5. \A k \in 0..(l - 1) : f[k] = g[k]
    BY <2>1, <2>4
  <2>6. \A k \in 0..l : k # 0 => k - 1 \in 0..(l - 1)
    BY <1>3
  <2>7. \A k \in 0..l : At(k) = IF k = 0 THEN o ELSE ls_file(f[k - 1], ents[k])
    <3> HIDE DEF f
    <3>1. QED
      BY <2>5, <2>6
  <2>8. Run(f, l)
    <3>1. f = [k \in 0..l |-> At(k)]
      OBVIOUS
    <3> HIDE DEF f, At
    <3>2. QED
      BY <2>7, <3>1 DEF Listing
  <2> HIDE DEF f, Run
  <2>9. QED
    BY <1>3, <2>8
<1>6. QED
  BY <1>4, <1>5

LEMMA EachListedIs ==
  ASSUME NEW m \in Table, NEW o, Listed(m, o),
         NEW ents \in Seq([name : Name, ino : Ino])
  PROVE  Listed(m, EachListed(o, ents))
<1> DEFINE n == Len(ents)
           Run(f) == Listing(o, ents, n, f)
           w == CHOOSE f : Run(f)
           S == {k \in 0..n : ~Listed(m, w[k])}
<1>1. n \in Nat /\ \A k \in 1..n : ents[k].ino \in Ino \cup {0}
  <2>1. \A k \in DOMAIN ents : ents[k] \in [name : Name, ino : Ino]
    BY ElementIs
  <2>2. QED
    BY <2>1
<1>2. EachListed(o, ents) = w[n]
  BY DEF EachListed, Listing
<1>3. Run(w)
  <2>1. \E f : Run(f)
    BY <1>1, ListingRun
  <2>2. QED
    BY <2>1
<1> HIDE DEF w
<1>4. /\ w[0] = o
      /\ \A k \in 0..n : k # 0 => w[k] = ls_file(w[k - 1], ents[k])
  BY <1>1, <1>3 DEF Listing
<1> HIDE DEF n, Run
<1>5. S = {}
  <2>1. SUFFICES ASSUME S # {} PROVE FALSE
    OBVIOUS
  <2>2. S \in SUBSET Nat
    BY <1>1
  <2> HIDE DEF S
  <2>3. PICK k \in S : \A l \in S : k <= l
    BY <2>1, <2>2, Least
  <2>4. k \in 0..n /\ ~Listed(m, w[k])
    BY DEF S
  <2>5. k # 0
    BY <1>4, <2>4
  <2>6. k - 1 \in 0..n /\ k - 1 \notin S
    BY <1>1, <2>3, <2>4, <2>5
  <2>7. Listed(m, w[k - 1])
    BY <2>6 DEF S
  <2>8. Listed(m, ls_file(w[k - 1], ents[k]))
    BY <1>1, <2>4, <2>5, <2>7, ls_fileListed
  <2>9. QED
    BY <1>4, <2>4, <2>5, <2>8
<1>6. QED
  BY <1>1, <1>2, <1>5

LEMMA ls_dirGrew ==
  ASSUME TypeOK, NEW m \in Table, NEW names \in Seq(Name)
  PROVE  /\ Grew(m, ls_dir(m, names).minode)
         /\ Apart(m) => Apart(ls_dir(m, names).minode)
<1> DEFINE p == [abs |-> TRUE, names |-> names]
           g == getino(m, p)
           o == iget(g.minode, g.ino)
           e == EachListed(o, Block(g.ino))
<1>1. /\ g.ino \in Ino \cup {0} /\ Took(m, g.minode, NULL)
      /\ Apart(m) => Apart(g.minode)
  <2>1. p.names \in Seq(Name)
    OBVIOUS
  <2> HIDE DEF p
  <2>2. QED
    BY <2>1, getinoTook
<1>2. ls_dir(m, names) = [e EXCEPT !.ino = g.ino]
  BY DEF ls_dir
<1>3. Block(g.ino) \in Seq([name : Name, ino : Ino])
  <2> HIDE DEF g
  <2>1. CASE g.ino \in Ino
    BY <2>1, TreeAssumption DEF Block
  <2>2. CASE g.ino \notin Ino
    <3>1. Block(g.ino) = <<>>
      BY <2>2 DEF Block
    <3>2. QED
      BY <3>1
  <2>3. QED
    BY <2>1, <2>2
<1> HIDE DEF g
<1>4. g.minode \in Table
  BY <1>1 DEF Took
<1>5. On(m, o)
  <2>1. On(g.minode, o)
    BY <1>1, <1>4, igetOn
  <2>2. QED
    BY <1>1, <2>1, TookOn
<1>6. Listed(m, e)
  BY <1>3, <1>5, OnListed, EachListedIs
<1> HIDE DEF e, o
<1>7. /\ e \in [at : Slot \cup {NULL}, ino : Ino \cup {0}, minode : Table]
      /\ Grew(m, e.minode) /\ (Apart(m) => Apart(e.minode))
  BY <1>6 DEF Listed
<1>8. ls_dir(m, names).minode = e.minode
  BY <1>2, <1>7
<1>9. QED
  BY <1>7, <1>8

-----------------------------------------------------------------------------
(***************************************************************************)
(* The steps                                                               *)
(***************************************************************************)
\* What the invariant says of types, fact by fact.
LEMMA Types ==
  ASSUME TypeOK
  PROVE  /\ minode \in Table /\ root \in Slot /\ cwd \in Slot
         /\ bare \in Nat /\ bare \in 0..MaxBare /\ here \in Ino
         /\ \A s \in Slot : minode[s].refCount \in Int
BY ShellAssumption DEF TypeOK, Table

Jobs == [cmd : {"none", "pwd", "ls"}, wd : Slot \cup {NULL},
         parent : Ino \cup {0}, self : Ino \cup {0},
         path : Seq(Name), dest : Seq(Name)]

LEMMA NoJobIs ==
  NoJob \in Jobs
<1>1. <<>> \in Seq(Name)
  OBVIOUS
<1>2. QED
  BY <1>1 DEF NoJob, Jobs

\* The types of the variables but the table, if the history is left.
LEMMA TypesKept ==
  ASSUME TypeOK, minode' \in Table, root' \in Slot, cwd' \in Slot,
         session' = session, here' \in Ino, bare' = bare, job' = NoJob
  PROVE  TypeOK'
BY NoJobIs DEF TypeOK, Table, Jobs

\* A slot that counts more than 0 in one table does so in one that grew.
LEMMA GrewIs ==
  ASSUME NEW m \in Table, NEW x, Grew(m, x), NEW s \in Slot, m[s].refCount > 0
  PROVE  x[s].refCount > 0 /\ x[s].ino = m[s].ino
<1>1. x \in Table
  BY DEF Grew
<1>2. m[s].refCount \in Int /\ x[s].refCount \in Int
  BY <1>1 DEF Table
<1>3. x[s].refCount >= m[s].refCount /\ x[s].ino = m[s].ino
  BY DEF Grew
<1>4. QED
  BY <1>2, <1>3

\* Slot 1 counts something until the second cd without an argument.
LEMMA RootInUse ==
  ASSUME TypeOK, RootCounted, bare < 2
  PROVE  minode[1].refCount > 0 /\ minode[1].ino = Root
<1>1. minode[1].refCount \in Int /\ bare \in Nat
  BY Types, SlotIs
<1>2. minode[1].refCount + bare >= 2
  BY <1>1 DEF RootCounted
<1>3. QED
  BY <1>1, <1>2 DEF RootCounted

\* A step that takes references only, for a command or the walk of one.
LEMMA GrewInv ==
  ASSUME IInv, Grew(minode, minode'), Apart(minode) => Apart(minode'),
         root' = root, cwd' = cwd, here' = here, bare' = bare, session' = session,
         TypeOK', Walking(job', minode'), Balanced => job' = NoJob
  PROVE  IInv'
<1>1. TypeOK /\ minode \in Table /\ 1 \in Slot /\ cwd \in Slot /\ bare \in Nat
  BY Types, SlotIs DEF IInv
<1>2. Balanced' = Balanced
  BY DEF Balanced
<1>3. Balanced \/ bare < 2 => RootCounted'
  <2>1. SUFFICES ASSUME Balanced \/ bare < 2 PROVE RootCounted'
    OBVIOUS
  <2>2. RootCounted
    BY <2>1 DEF IInv
  <2>3. minode'[1].refCount >= minode[1].refCount
    BY <1>1 DEF Grew
  <2>4. minode'[1].refCount \in Int /\ minode[1].refCount \in Int
    BY <1>1, Types DEF Grew, Table
  <2>5. bare < 2 => minode'[1].ino = Root
    BY <1>1, <2>2, RootInUse, GrewIs
  <2>6. minode'[1].refCount + bare >= IF cwd = 1 THEN 3 ELSE 2
    BY <1>1, <2>2, <2>3, <2>4 DEF RootCounted
  <2>7. QED
    BY <2>2, <2>5, <2>6 DEF RootCounted
<1>4. Balanced => CwdCounted'
  <2>1. SUFFICES ASSUME Balanced, cwd # 1 PROVE minode'[cwd].refCount > 0
    BY DEF CwdCounted
  <2>2. minode[cwd].refCount > 0
    BY <2>1 DEF IInv, CwdCounted
  <2>3. QED
    BY <1>1, <2>2, GrewIs
<1>5. Balanced /\ bare < 2 => minode'[cwd].ino = here
  <2>1. SUFFICES ASSUME Balanced, bare < 2 PROVE minode'[cwd].ino = here
    OBVIOUS
  <2>2. RootCounted /\ CwdCounted /\ minode[cwd].ino = here
    BY <2>1 DEF IInv
  <2>3. minode[cwd].refCount > 0
    BY <1>1, <2>1, <2>2, RootInUse DEF CwdCounted
  <2>4. QED
    BY <1>1, <2>2, <2>3, GrewIs
<1>6. Balanced => Apart(minode')
  BY DEF IInv
<1>7. QED
  BY <1>2, <1>3, <1>4, <1>5, <1>6 DEF IInv

\* A command that ends, with references taken.
LEMMA ReturnsInv ==
  ASSUME IInv, Grew(minode, minode'), Apart(minode) => Apart(minode'),
         root' = root, cwd' = cwd, here' = here, bare' = bare, session' = session,
         job' = NoJob
  PROVE  IInv'
<1>1. TypeOK /\ minode' \in Table
  BY DEF IInv, Grew
<1>2. TypeOK'
  BY <1>1, TypesKept, Types
<1>3. Walking(job', minode')
  BY DEF Walking
<1>4. QED
  BY <1>2, <1>3, GrewInv

\* A walk that begins, in the slot of cwd.
LEMMA WalkInv ==
  ASSUME IInv, Grew(minode, minode'), Apart(minode) => Apart(minode'),
         root' = root, cwd' = cwd, here' = here, bare' = bare, session' = session,
         NEW cmd \in {"pwd", "ls"}, NEW dest \in Seq(Name), Walk(cmd, dest),
         ~Balanced
  PROVE  IInv'
<1>1. TypeOK /\ minode' \in Table /\ cwd \in Slot
  BY Types DEF IInv, Grew
<1>2. /\ job'.cmd = cmd /\ job'.wd = cwd /\ job'.parent = 0 /\ job'.self = 0
      /\ job' \in Jobs
  <2>1. <<>> \in Seq(Name)
    OBVIOUS
  <2>2. job' = [cmd |-> cmd, wd |-> cwd, parent |-> 0, self |-> 0,
                path |-> <<>>, dest |-> dest]
    BY DEF Walk, NoJob
  <2>3. QED
    BY <1>1, <2>1, <2>2 DEF Jobs
<1>3. TypeOK'
  BY <1>1, <1>2 DEF TypeOK, Table, Jobs
<1>4. Walking(job', minode')
  BY <1>1, <1>2 DEF Walking
<1>5. QED
  BY <1>3, <1>4, GrewInv

LEMMA GrewSelf ==
  ASSUME NEW m \in Table
  PROVE  Grew(m, m) /\ Took(m, m, NULL)
<1>1. \A s \in Slot : m[s].refCount \in Int /\ s # NULL
  BY SlotIs DEF Table
<1>2. QED
  BY <1>1 DEF Grew, Took

\* A process that begins.
LEMMA BootInv ==
  ASSUME minode' = BootTable, root' = 1, cwd' = 1, job' = NoJob, here' = Root,
         bare' = 0, session' \in Sessions
  PROVE  IInv'
<1>1. 1 \in Slot
  BY SlotIs
<1>2. /\ minode' \in Table /\ minode'[1] = [refCount |-> 3, ino |-> Root]
      /\ \A s \in Slot \ {1} : minode'[s].refCount = 0
  BY <1>1, InoIs DEF BootTable, Table
<1>3. TypeOK'
  BY <1>1, <1>2, InoIs, NoJobIs, ShellAssumption DEF TypeOK, Table, Jobs
<1>4. RootCounted'
  BY <1>2 DEF RootCounted
<1>5. Apart(minode') /\ CwdCounted'
  BY <1>2 DEF Apart, CwdCounted
<1>6. Walking(job', minode')
  BY DEF Walking
<1>7. minode'[cwd'].ino = here'
  BY <1>2
<1>8. QED
  BY <1>3, <1>4, <1>5, <1>6, <1>7 DEF IInv

LEMMA RestartInv ==
  ASSUME IInv, Restart, session' = session
  PROVE  IInv'
<1>1. session' \in Sessions
  BY DEF IInv, TypeOK
<1>2. QED
  BY <1>1, BootInv DEF Restart

LEMMA PanicInv ==
  ASSUME IInv, Panic, session' = session
  PROVE  IInv'
BY RestartInv DEF Panic

\* cd without an argument: slot 1 gets a pointer more, and no reference.
LEMMA CdRootwardsInv ==
  ASSUME IInv, CdRootwards, session' = session
  PROVE  IInv'
<1> DEFINE y == iput(minode, cwd)
<1>1. /\ minode' = y /\ cwd' = root /\ here' = Root /\ bare' = bare + 1
      /\ root' = root /\ job' = job /\ bare < MaxBare /\ job = NoJob
  BY DEF CdRootwards, Ready
<1>2. /\ TypeOK /\ minode \in Table /\ 1 \in Slot /\ cwd \in Slot /\ bare \in Nat
      /\ MaxBare \in Nat /\ root \in Slot
      /\ \A s \in Slot : minode[s].refCount \in Int
  BY Types, SlotIs, ShellAssumption DEF IInv
<1>3. /\ y \in Table
      /\ \A t \in Slot : /\ y[t].refCount = minode[t].refCount - (IF t = cwd THEN 1 ELSE 0)
                         /\ y[t].ino = minode[t].ino
  BY <1>2, iputIs
<1> HIDE DEF y
<1>4. TypeOK'
  <2>1. bare' \in 0..MaxBare
    BY <1>1, <1>2
  <2>2. QED
    BY <1>1, <1>2, <1>3, <2>1, InoIs DEF TypeOK, Table
<1>5. Walking(job', minode')
  BY <1>1 DEF Walking
<1>6. Balanced' = Balanced
  BY DEF Balanced
<1>7. Balanced \/ bare' < 2 => RootCounted'
  <2>1. SUFFICES ASSUME Balanced \/ bare' < 2 PROVE RootCounted'
    OBVIOUS
  <2>2. RootCounted
    BY <1>1, <1>2, <2>1 DEF IInv
  <2>3. minode[1].refCount + bare >= IF cwd = 1 THEN 3 ELSE 2
    BY <2>2 DEF RootCounted
  <2>4. y[1].refCount + (bare + 1) >= 3
    BY <1>2, <1>3, <2>3
  <2>5. bare' < 2 => y[1].ino = Root
    BY <1>1, <1>2, <1>3, <2>2 DEF RootCounted
  <2>6. root' = 1 /\ cwd' = 1
    BY <1>1, <2>2 DEF RootCounted
  <2>7. QED
    BY <1>1, <2>4, <2>5, <2>6 DEF RootCounted
<1>8. ASSUME Balanced
      PROVE  Apart(minode') /\ CwdCounted'
  <2>1. RootCounted /\ Apart(minode) /\ CwdCounted
    BY <1>8 DEF IInv
  <2>2. CwdCounted'
    BY <1>1, <2>1 DEF CwdCounted, RootCounted
  <2>3. ASSUME NEW t \in Slot \ {1}
        PROVE  /\ y[t].refCount >= 0
               /\ y[t].refCount > 0 => y[t].ino # y[1].ino
    <3>1. /\ minode[t].refCount >= 0
          /\ minode[t].refCount > 0 => minode[t].ino # minode[1].ino
          /\ t = cwd => minode[t].refCount > 0
      BY <2>1 DEF Apart, CwdCounted
    <3>2. /\ y[t].refCount = minode[t].refCount - (IF t = cwd THEN 1 ELSE 0)
          /\ y[t].ino = minode[t].ino /\ y[1].ino = minode[1].ino
          /\ minode[t].refCount \in Int
      BY <1>2, <1>3
    <3>3. QED
      BY <3>1, <3>2
  <2>4. QED
    BY <1>1, <2>2, <2>3 DEF Apart
<1>9. bare' < 2 => minode'[cwd'].ino = here'
  BY <1>1, <1>7 DEF RootCounted
<1>10. QED
  BY <1>1, <1>4, <1>5, <1>6, <1>7, <1>8, <1>9 DEF IInv

\* cd to a directory: what cwd held is put, what was opened is not.
LEMMA CdDirInv ==
  ASSUME IInv, NEW p \in Path, CdDir(p), session' = session
  PROVE  IInv'
<1> DEFINE o == Open(p)
           y == iput(o.minode, cwd)
<1>1. /\ minode' = y /\ cwd' = o.at /\ here' = o.ino /\ bare' = bare
      /\ root' = root /\ job' = job /\ job = NoJob /\ o.ino # 0 /\ o.at # NULL
  BY DEF CdDir, Ready
<1>2. /\ TypeOK /\ minode \in Table /\ 1 \in Slot /\ cwd \in Slot /\ bare \in Nat
      /\ root \in Slot /\ \A s \in Slot : minode[s].refCount \in Int
  BY Types, SlotIs DEF IInv
<1>3. On(minode, o)
  BY <1>2, OpenOn
<1> HIDE DEF o
<1>4. /\ o.at \in Slot /\ o.ino \in Ino /\ o.minode \in Table
      /\ o.minode[o.at].ino = o.ino /\ (Apart(minode) => Apart(o.minode))
      /\ \A s \in Slot :
           /\ o.minode[s].refCount = minode[s].refCount + (IF s = o.at THEN 1 ELSE 0)
           /\ minode[s].refCount > 0 => o.minode[s].ino = minode[s].ino
  BY <1>1, <1>3 DEF On, Took
<1>5. /\ y \in Table
      /\ \A t \in Slot :
           /\ y[t].refCount = o.minode[t].refCount - (IF t = cwd THEN 1 ELSE 0)
           /\ y[t].ino = o.minode[t].ino
  BY <1>2, <1>4, iputIs
<1> HIDE DEF y
<1>6. \A t \in Slot : y[t].refCount = minode[t].refCount + (IF t = o.at THEN 1 ELSE 0)
                                        - (IF t = cwd THEN 1 ELSE 0)
  BY <1>2, <1>4, <1>5
<1>7. TypeOK'
  BY <1>1, <1>2, <1>4, <1>5, TypesKept
<1>8. Walking(job', minode')
  BY <1>1 DEF Walking
<1>9. Balanced' = Balanced
  BY DEF Balanced
<1>10. ASSUME Balanced \/ bare < 2
       PROVE  RootCounted'
  <2>1. RootCounted
    BY <1>10 DEF IInv
  <2>2. minode[1].refCount + bare >= IF cwd = 1 THEN 3 ELSE 2
    BY <2>1 DEF RootCounted
  <2>3. y[1].refCount = minode[1].refCount + (IF 1 = o.at THEN 1 ELSE 0)
                          - (IF 1 = cwd THEN 1 ELSE 0)
    BY <1>2, <1>6
  <2>4. y[1].refCount + bare >= IF o.at = 1 THEN 3 ELSE 2
    BY <1>2, <2>2, <2>3
  <2>5. bare < 2 => y[1].ino = Root
    BY <1>2, <1>4, <1>5, <2>1, RootInUse
  <2>6. QED
    BY <1>1, <2>1, <2>4, <2>5 DEF RootCounted
<1>11. ASSUME Balanced
       PROVE  Apart(minode') /\ CwdCounted'
  <2>1. Apart(minode) /\ CwdCounted /\ Apart(o.minode)
    BY <1>4, <1>11 DEF IInv
  <2>2. o.at # 1 => y[o.at].refCount > 0
    <3>1. SUFFICES ASSUME o.at # 1 PROVE y[o.at].refCount > 0
      OBVIOUS
    <3>2. /\ minode[o.at].refCount \in Int /\ minode[o.at].refCount >= 0
          /\ o.at = cwd => minode[o.at].refCount > 0
      BY <1>2, <1>4, <2>1, <3>1 DEF Apart, CwdCounted
    <3>3. y[o.at].refCount = minode[o.at].refCount + 1 - (IF o.at = cwd THEN 1 ELSE 0)
      BY <1>4, <1>6
    <3>4. QED
      BY <3>2, <3>3
  <2>3. ASSUME NEW t \in Slot \ {1}
        PROVE  /\ y[t].refCount >= 0
               /\ y[t].refCount > 0 => y[t].ino # y[1].ino
    <3>1. /\ minode[t].refCount \in Int /\ minode[t].refCount >= 0
          /\ t = cwd => minode[t].refCount > 0
          /\ o.minode[t].refCount > 0 => o.minode[t].ino # o.minode[1].ino
      BY <1>2, <2>1 DEF Apart, CwdCounted
    <3>2. /\ o.minode[t].refCount = minode[t].refCount + (IF t = o.at THEN 1 ELSE 0)
          /\ y[t].refCount = o.minode[t].refCount - (IF t = cwd THEN 1 ELSE 0)
          /\ y[t].ino = o.minode[t].ino /\ y[1].ino = o.minode[1].ino
      BY <1>2, <1>4, <1>5
    <3>3. QED
      BY <3>1, <3>2
  <2>4. QED
    BY <1>1, <2>2, <2>3 DEF Apart, CwdCounted
<1>12. minode'[cwd'].ino = here'
  BY <1>1, <1>4, <1>5
<1>13. QED
  BY <1>1, <1>7, <1>8, <1>9, <1>10, <1>11, <1>12 DEF IInv

\* cd to the root: both pointers come to the slot the root is found in, which
\* is the first one.
LEMMA CdRootInv ==
  ASSUME IInv, NEW p \in Path, CdRoot(p), session' = session
  PROVE  IInv'
<1> DEFINE o == Open(p)
           r == iget(o.minode, Root)
<1>1. /\ minode' = r.minode /\ root' = r.at /\ cwd' = r.at /\ here' = Root
      /\ bare' = bare /\ job' = job /\ job = NoJob /\ o.ino = Root /\ o.at = root
  BY DEF CdRoot, Ready
<1>2. /\ TypeOK /\ minode \in Table /\ 1 \in Slot /\ root \in Slot /\ bare \in Nat
      /\ \A s \in Slot : minode[s].refCount \in Int
  BY Types, SlotIs DEF IInv
<1>3. On(minode, o)
  BY <1>2, OpenOn
<1> HIDE DEF o
<1>4. /\ root # NULL /\ o.minode \in Table /\ o.minode[root].ino = Root
      /\ Apart(minode) => Apart(o.minode)
      /\ \A s \in Slot :
           /\ o.minode[s].refCount = minode[s].refCount + (IF s = root THEN 1 ELSE 0)
           /\ minode[s].refCount > 0 => o.minode[s].ino = minode[s].ino
  BY <1>1, <1>2, <1>3, SlotIs DEF On, Took
<1>5. On(o.minode, r) /\ r.at \in Slot
  <2>1. On(o.minode, r)
    BY <1>4, InoIs, igetOn
  <2>2. r.at \in Slot
    BY <1>2, <1>4, igetSome
  <2>3. QED
    BY <2>1, <2>2
<1>6. o.minode[1].ino = Root /\ (o.minode[1].refCount # 0 \/ Apart(o.minode)) => r.at = 1
  BY <1>4, igetFirst
<1> HIDE DEF r
<1>7. /\ r.minode \in Table /\ r.minode[r.at].ino = Root
      /\ Apart(o.minode) => Apart(r.minode)
      /\ \A s \in Slot :
           r.minode[s].refCount = o.minode[s].refCount + (IF s = r.at THEN 1 ELSE 0)
  <2>1. r.ino = Root
    BY <1>4, InoIs, igetOn DEF r
  <2>2. r.at # NULL
    BY <1>5, SlotIs
  <2>3. QED
    BY <1>5, <2>1, <2>2 DEF On, Took
<1>8. TypeOK'
  BY <1>1, <1>2, <1>5, <1>7, InoIs, TypesKept
<1>9. Walking(job', minode')
  BY <1>1 DEF Walking
<1>10. Balanced' = Balanced
  BY DEF Balanced
<1>11. ASSUME Balanced \/ bare < 2
       PROVE  root = 1 /\ r.at = 1 /\ RootCounted'
  <2>1. RootCounted
    BY <1>11 DEF IInv
  <2>2. root = 1 /\ minode[1].refCount + bare >= 2 /\ minode[1].refCount \in Int
    <3>1. minode[1].refCount + bare >= IF cwd = 1 THEN 3 ELSE 2
      BY <2>1 DEF RootCounted
    <3>2. minode[1].refCount \in Int
      BY <1>2
    <3>3. QED
      BY <1>2, <2>1, <3>1, <3>2 DEF RootCounted
  <2>3. o.minode[1].refCount = minode[1].refCount + 1
    BY <1>2, <1>4, <2>2
  <2>4. o.minode[1].refCount # 0 \/ Apart(o.minode)
    <3>1. CASE bare < 2
      BY <1>2, <2>2, <2>3, <3>1
    <3>2. CASE Balanced
      BY <1>4, <3>2 DEF IInv
    <3>3. QED
      BY <1>11, <3>1, <3>2
  <2>5. r.at = 1
    BY <1>4, <1>6, <2>2, <2>4
  <2>6. r.minode[1].refCount = minode[1].refCount + 2
    BY <1>2, <1>7, <2>2, <2>3, <2>5
  <2>7. r.minode[1].refCount + bare >= 3
    BY <1>2, <2>2, <2>6
  <2>8. QED
    BY <1>1, <1>7, <2>2, <2>5, <2>7 DEF RootCounted
<1>12. ASSUME Balanced
       PROVE  Apart(minode') /\ CwdCounted'
  <2>1. Apart(r.minode) /\ r.at = 1
    BY <1>4, <1>7, <1>11, <1>12 DEF IInv
  <2>2. QED
    BY <1>1, <2>1 DEF CwdCounted
<1>13. minode'[cwd'].ino = here'
  BY <1>1, <1>7
<1>14. QED
  BY <1>1, <1>8, <1>9, <1>10, <1>11, <1>12, <1>13 DEF IInv

\* cd of a path that leads nowhere, or to a file.
LEMMA CdNowhereInv ==
  ASSUME IInv, NEW p \in Path, CdNowhere(p), session' = session
  PROVE  IInv'
<1> DEFINE g == getino(minode, p)
<1>1. TypeOK /\ minode \in Table /\ p.names \in Seq(Name)
  BY Types, ShellAssumption DEF IInv
<1>2. Took(minode, g.minode, NULL) /\ (Apart(minode) => Apart(g.minode))
  BY <1>1, getinoTook
<1>3. /\ minode' = g.minode /\ root' = root /\ cwd' = cwd /\ here' = here
      /\ bare' = bare /\ job' = NoJob
  BY DEF CdNowhere, Returns, Ready, past
<1> HIDE DEF g
<1>4. Grew(minode, minode')
  BY <1>1, <1>2, <1>3, TookGrew
<1>5. QED
  BY <1>2, <1>3, <1>4, ReturnsInv

LEMMA CdFileInv ==
  ASSUME IInv, NEW p \in Path, CdFile(p), session' = session
  PROVE  IInv'
<1> DEFINE o == Open(p)
<1>1. TypeOK /\ minode \in Table
  BY Types DEF IInv
<1>2. Listed(minode, o)
  BY <1>1, OpenOn, OnListed
<1>3. /\ minode' = o.minode /\ root' = root /\ cwd' = cwd /\ here' = here
      /\ bare' = bare /\ job' = NoJob
  BY DEF CdFile, Returns, Ready, past
<1> HIDE DEF o
<1>4. QED
  BY <1>2, <1>3, ReturnsInv DEF Listed

\* stat puts what it takes.
LEMMA StatInv ==
  ASSUME IInv, NEW p \in Path, Stat(p), session' = session
  PROVE  IInv'
<1> DEFINE o == Open(p)
<1>1. TypeOK /\ minode \in Table
  BY Types DEF IInv
<1>2. On(minode, o)
  BY <1>1, OpenOn
<1>3. job = NoJob /\ IF o.at = NULL THEN Panic ELSE Returns(iput(o.minode, o.at))
  BY DEF Stat, Ready
<1> HIDE DEF o
<1>4. CASE o.at = NULL
  BY <1>3, <1>4, PanicInv
<1>5. CASE o.at # NULL
  <2>1. /\ minode' = iput(o.minode, o.at) /\ root' = root /\ cwd' = cwd
        /\ here' = here /\ bare' = bare /\ job' = NoJob
    BY <1>3, <1>5 DEF Returns, past
  <2>2. Took(minode, o.minode, o.at) /\ (Apart(minode) => Apart(o.minode)) /\ o.at \in Slot \cup {NULL}
    BY <1>2 DEF On
  <2>3. Took(minode, minode', NULL) /\ (Apart(minode) => Apart(minode'))
    BY <1>1, <2>1, <2>2, TookPut
  <2>4. Grew(minode, minode')
    BY <1>1, <2>3, TookGrew
  <2>5. QED
    BY <2>1, <2>3, <2>4, ReturnsInv
<1>6. QED
  BY <1>4, <1>5

\* The directory is listed, or the process ends.
LEMMA ListDirInv ==
  ASSUME IInv, NEW m \in Table, Grew(minode, m), Apart(minode) => Apart(m),
         NEW names \in Seq(Name), ListDir(m, names), session' = session
  PROVE  IInv'
<1> DEFINE l == ls_dir(m, names)
<1>1. TypeOK /\ minode \in Table
  BY Types DEF IInv
<1>2. Grew(m, l.minode) /\ (Apart(m) => Apart(l.minode))
  BY <1>1, ls_dirGrew
<1>3. \/ /\ minode' = l.minode /\ job' = NoJob /\ root' = root /\ cwd' = cwd
         /\ here' = here /\ bare' = bare
      \/ Panic
  BY DEF ListDir, past
<1> HIDE DEF l
<1>4. CASE Panic
  BY <1>4, PanicInv
<1>5. CASE /\ minode' = l.minode /\ job' = NoJob /\ root' = root /\ cwd' = cwd
           /\ here' = here /\ bare' = bare
  <2>1. Grew(minode, minode')
    BY <1>1, <1>2, <1>5, GrewGrew
  <2>2. QED
    BY <1>2, <1>5, <2>1, ReturnsInv
<1>6. QED
  BY <1>3, <1>4, <1>5

\* Only a session that is not balanced walks.
LEMMA ListInv ==
  ASSUME IInv, job = NoJob, NEW o, Listed(minode, o), NEW p, p.names \in Seq(Name),
         p.abs \/ ~Balanced, List(o, p), session' = session
  PROVE  IInv'
<1>1. TypeOK /\ minode \in Table
  BY Types DEF IInv
<1>2. /\ o \in [at : Slot \cup {NULL}, ino : Ino \cup {0}, minode : Table]
      /\ Grew(minode, o.minode) /\ (Apart(minode) => Apart(o.minode))
  BY DEF Listed
<1>3. CASE o.at = NULL
  BY <1>3, PanicInv DEF List
<1>4. CASE o.at # NULL /\ o.ino # 0 /\ ~IsDir(o.ino)
  <2> DEFINE f == ls_file(o, o)
  <2>1. Listed(minode, f)
    BY <1>1, <1>2, ls_fileListed
  <2>2. /\ minode' = f.minode /\ root' = root /\ cwd' = cwd /\ here' = here
        /\ bare' = bare /\ job' = NoJob
    BY <1>4 DEF List, Returns, past
  <2> HIDE DEF f
  <2>3. QED
    BY <2>1, <2>2, ReturnsInv DEF Listed
<1>5. CASE /\ o.at # NULL /\ ~(o.ino # 0 /\ ~IsDir(o.ino)) /\ (p.abs \/ cwd = root)
  <2>1. ListDir(o.minode, p.names)
    BY <1>5 DEF List
  <2>2. QED
    BY <1>2, <2>1, ListDirInv
<1>6. CASE /\ o.at # NULL /\ ~(o.ino # 0 /\ ~IsDir(o.ino)) /\ ~(p.abs \/ cwd = root)
  <2>1. /\ minode' = o.minode /\ Walk("ls", p.names) /\ root' = root /\ cwd' = cwd
        /\ here' = here /\ bare' = bare
    BY <1>6 DEF List, past
  <2>2. QED
    BY <1>2, <1>6, <2>1, WalkInv
<1>7. QED
  BY <1>3, <1>4, <1>5, <1>6

LEMMA LsInv ==
  ASSUME IInv, NEW p \in Path, Ls(p), session' = session
  PROVE  IInv'
<1> DEFINE o == Open(p)
<1>1. TypeOK /\ minode \in Table /\ p.names \in Seq(Name)
  BY Types, ShellAssumption DEF IInv
<1>2. Listed(minode, o)
  BY <1>1, OpenOn, OnListed
<1>3. job = NoJob /\ List(o, p) /\ (p.abs \/ "ls relative" \in session)
  BY DEF Ls, Ready
<1> HIDE DEF o
<1>4. p.abs \/ ~Balanced
  BY <1>3 DEF Balanced
<1>5. QED
  BY <1>1, <1>2, <1>3, <1>4, ListInv

LEMMA LsBareInv ==
  ASSUME IInv, LsBare, session' = session
  PROVE  IInv'
<1> DEFINE p == [abs |-> FALSE, names |-> <<>>]
<1>1. minode \in Table
  BY Types DEF IInv
<1>2. job = NoJob /\ ~Balanced
  BY DEF LsBare, Ready, Balanced
<1>3. PICK i \in Ino \cup {0} : List(iget(minode, i), p)
  BY DEF LsBare
<1>4. Listed(minode, iget(minode, i))
  BY <1>1, igetOn, OnListed
<1>5. p.names \in Seq(Name)
  OBVIOUS
<1> HIDE DEF p
<1>6. QED
  BY <1>2, <1>3, <1>4, <1>5, ListInv

LEMMA LsEndInv ==
  ASSUME IInv, LsEnd, session' = session
  PROVE  IInv'
<1>1. TypeOK /\ minode \in Table
  BY Types DEF IInv
<1>2. job.path \in Seq(Name) /\ job.dest \in Seq(Name)
  BY <1>1 DEF TypeOK
<1>3. job.path \o job.dest \in Seq(Name)
  BY <1>2
<1>4. ListDir(minode, job.path \o job.dest)
  BY DEF LsEnd
<1>5. QED
  BY <1>1, <1>3, <1>4, GrewSelf, ListDirInv

\* pwd prints, or begins to walk.
LEMMA PrintsInv ==
  ASSUME IInv, Prints, session' = session
  PROVE  IInv'
<1>1. minode \in Table
  BY Types DEF IInv
<1>2. CASE HasMptr(root)
  <2>1. /\ minode' = minode /\ root' = root /\ cwd' = cwd /\ here' = here
        /\ bare' = bare /\ job' = NoJob
    BY <1>2 DEF Prints, past
  <2>2. Grew(minode, minode')
    BY <1>1, <2>1, GrewSelf
  <2>3. QED
    BY <2>1, <2>2, ReturnsInv
<1>3. CASE ~HasMptr(root)
  BY <1>3, PanicInv DEF Prints
<1>4. QED
  BY <1>2, <1>3

LEMMA PwdInv ==
  ASSUME IInv, Pwd, session' = session
  PROVE  IInv'
<1>1. minode \in Table
  BY Types DEF IInv
<1>2. CASE cwd = root
  BY <1>2, PrintsInv DEF Pwd
<1>3. CASE cwd # root
  <2>1. /\ minode' = minode /\ root' = root /\ cwd' = cwd /\ here' = here
        /\ bare' = bare /\ Walk("pwd", <<>>) /\ ~Balanced
    BY <1>3 DEF Pwd, past, Ready, Balanced
  <2>2. Grew(minode, minode')
    BY <1>1, <2>1, GrewSelf
  <2>3. <<>> \in Seq(Name)
    OBVIOUS
  <2>4. QED
    BY <2>1, <2>2, <2>3, WalkInv
<1>4. QED
  BY <1>2, <1>3

\* A call of the walk: what it puts, it does not put in slot 1.
LEMMA ClimbingInv ==
  ASSUME IInv, Climbing, minode' \in Table, root' = root, cwd' = cwd, here' = here,
         bare' = bare, session' = session, TypeOK', Walking(job', minode'),
         root = 1 =>
           /\ minode'[1].refCount >= minode[1].refCount
           /\ minode[1].refCount > 0 => minode'[1].ino = minode[1].ino
  PROVE  IInv'
<1>1. /\ TypeOK /\ 1 \in Slot /\ bare \in Nat /\ minode[1].refCount \in Int
      /\ minode'[1].refCount \in Int
  BY Types, SlotIs DEF IInv, Table
<1>2. ~Balanced /\ Balanced' = Balanced
  BY DEF IInv, Climbing, Balanced
<1>3. bare < 2 => RootCounted'
  <2>1. SUFFICES ASSUME bare < 2 PROVE RootCounted'
    OBVIOUS
  <2>2. RootCounted /\ minode[1].refCount > 0 /\ minode[1].ino = Root
    BY <1>1, <2>1, RootInUse DEF IInv
  <2>3. /\ minode'[1].refCount >= minode[1].refCount /\ minode'[1].ino = Root
        /\ minode[1].refCount + bare >= IF cwd = 1 THEN 3 ELSE 2
    BY <2>2 DEF RootCounted
  <2>4. minode'[1].refCount + bare >= IF cwd = 1 THEN 3 ELSE 2
    BY <1>1, <2>3
  <2>5. QED
    BY <2>2, <2>3, <2>4 DEF RootCounted
<1>4. QED
  BY <1>2, <1>3 DEF IInv

\* What get_myino does to the slots: s is put, and a slot that counts 0 may
\* come to hold what was looked at.
LEMMA get_myinoIs ==
  ASSUME NEW m \in Table, NEW s \in Slot, NEW nm
  PROVE  LET g == get_myino(m, s, nm) IN
         /\ g.ino = search(m[s].ino, nm) /\ g.minode \in Table
         /\ \A t \in Slot :
              /\ g.minode[t].refCount = m[t].refCount - (IF t = s THEN 1 ELSE 0)
              /\ g.minode[t].ino \in {m[t].ino, g.ino}
              /\ t # s /\ m[t].refCount > 0 => g.minode[t].ino = m[t].ino
<1> DEFINE i == search(m[s].ino, nm)
           y == iput(m, s)
           g == get_myino(m, s, nm)
<1>1. g.ino = i /\ g.minode = IF i = 0 THEN y ELSE Look(y, i)
  BY DEF get_myino
<1>2. /\ y \in Table
      /\ \A t \in Slot : /\ y[t].refCount = m[t].refCount - (IF t = s THEN 1 ELSE 0)
                         /\ y[t].ino = m[t].ino
                         /\ m[t].refCount \in Int
  BY iputIs DEF Table
<1>3. i \in Ino \cup {0}
  BY searchIs
<1> HIDE DEF y, i
<1>4. \/ g.minode = y
      \/ \E u \in Slot : /\ y[u].refCount = 0
                         /\ g.minode = [y EXCEPT ![u] = [refCount |-> 0, ino |-> i]]
  <2>1. Unused(y) \in SUBSET Slot
    BY DEF Unused
  <2>2. CASE i = 0 \/ Found(y, i) # {} \/ Unused(y) = {}
    BY <1>1, <2>2 DEF Look
  <2>3. CASE i # 0 /\ ~(Found(y, i) # {} \/ Unused(y) = {})
    <3> DEFINE u == First(Unused(y))
    <3>1. u \in Unused(y) /\ u \in Slot
      BY <2>1, <2>3, FirstSlot
    <3>2. y[u].refCount = 0
      BY <3>1 DEF Unused
    <3>3. g.minode = [y EXCEPT ![u] = [refCount |-> 0, ino |-> i]]
      BY <1>1, <2>3 DEF Look
    <3> HIDE DEF u, g
    <3>4. QED
      BY <3>1, <3>2, <3>3
  <2>4. QED
    BY <2>2, <2>3
<1> HIDE DEF g
<1>5. CASE g.minode = y
  <2>1. \A t \in Slot :
          /\ g.minode[t].refCount = m[t].refCount - (IF t = s THEN 1 ELSE 0)
          /\ g.minode[t].ino = m[t].ino
    BY <1>2, <1>5
  <2>2. QED
    BY <1>1, <1>2, <1>5, <2>1 DEF g, i
<1>6. ASSUME NEW u \in Slot, y[u].refCount = 0,
             g.minode = [y EXCEPT ![u] = [refCount |-> 0, ino |-> i]]
      PROVE  /\ g.minode \in Table
             /\ \A t \in Slot :
                  /\ g.minode[t].refCount = m[t].refCount - (IF t = s THEN 1 ELSE 0)
                  /\ g.minode[t].ino \in {m[t].ino, i}
                  /\ t # s /\ m[t].refCount > 0 => g.minode[t].ino = m[t].ino
  <2>1. g.minode \in Table
    BY <1>2, <1>3, <1>6 DEF Table
  <2>2. ASSUME NEW t \in Slot
        PROVE  /\ g.minode[t].refCount = m[t].refCount - (IF t = s THEN 1 ELSE 0)
               /\ g.minode[t].ino \in {m[t].ino, i}
               /\ t # s /\ m[t].refCount > 0 => g.minode[t].ino = m[t].ino
    <3>1. CASE t = u
      <4>1. g.minode[t].refCount = 0 /\ g.minode[t].ino = i /\ y[t].refCount = 0
        BY <1>2, <1>6, <3>1 DEF Table
      <4>2. y[t].refCount = m[t].refCount - (IF t = s THEN 1 ELSE 0)
        BY <1>2
      <4>3. t # s => m[t].refCount = 0
        BY <1>2, <4>1, <4>2
      <4>4. QED
        BY <4>1, <4>2, <4>3
    <3>2. CASE t # u
      <4>1. g.minode[t] = y[t]
        BY <1>2, <1>6, <3>2 DEF Table
      <4>2. QED
        BY <1>2, <4>1
    <3>3. QED
      BY <3>1, <3>2
  <2>3. QED
    BY <2>1, <2>2
<1>7. /\ g.ino = i /\ g.minode \in Table
      /\ \A t \in Slot :
           /\ g.minode[t].refCount = m[t].refCount - (IF t = s THEN 1 ELSE 0)
           /\ g.minode[t].ino \in {m[t].ino, i}
           /\ t # s /\ m[t].refCount > 0 => g.minode[t].ino = m[t].ino
  <2>1. CASE g.minode = y
    BY <1>1, <1>2, <2>1
  <2>2. CASE \E u \in Slot : /\ y[u].refCount = 0
                             /\ g.minode = [y EXCEPT ![u] = [refCount |-> 0, ino |-> i]]
    BY <1>1, <1>6, <2>2
  <2>3. QED
    BY <1>4, <2>1, <2>2
<1>8. QED
  BY <1>7 DEF g, i

\* The parent of a directory has an entry for it and one for itself.
LEMMA ParentKin ==
  ASSUME NEW i, search(i, "..") # 0
  PROVE  Kin(search(i, ".."), i) /\ Kin(search(i, ".."), search(i, ".."))
<1> DEFINE up == search(i, "..")
<1>1. IsDir(i) /\ i \in Ino /\ up \in Ino
  BY searchIs DEF Kin
<1>2. PICK x \in DOMAIN Block(up) : Block(up)[x].ino = i
  BY <1>1, TreeAssumption
<1> HIDE DEF up
<1>3. Block(up) = Tree[up]
  BY <1>1 DEF Block
<1>4. Kin(up, i)
  BY <1>1, <1>2, <1>3 DEF Kin
<1>5. IsDir(up)
  BY <1>2, <1>3 DEF IsDir
<1>6. search(up, ".") = up /\ up # 0
  BY <1>1, <1>5, TreeAssumption, InoIs
<1>7. Kin(up, up)
  BY <1>6, searchIs
<1>8. QED
  BY <1>4, <1>7 DEF up

\* What Climbing and the invariant say of a walk.
LEMMA WalkIs ==
  ASSUME IInv, Climbing
  PROVE  /\ TypeOK /\ minode \in Table /\ 1 \in Slot /\ job.wd \in Slot
         /\ job.wd # root
         /\ job.parent # 0 => Kin(job.parent, minode[job.wd].ino)
         /\ job.self # 0 => job.parent # 0 /\ Kin(job.parent, job.self)
BY Types, SlotIs DEF IInv, Climbing, Walking

LEMMA AskParentInv ==
  ASSUME IInv, AskParent, session' = session
  PROVE  IInv'
<1> DEFINE g == get_myino(minode, job.wd, "..")
           i == minode[job.wd].ino
<1>1. /\ Climbing /\ job.parent = 0
      /\ \/ g.ino = 0 /\ Panic
         \/ /\ g.ino # 0 /\ minode' = g.minode
            /\ job' = [job EXCEPT !.parent = g.ino]
            /\ root' = root /\ cwd' = cwd /\ here' = here /\ bare' = bare
  BY DEF AskParent, past
<1>2. /\ TypeOK /\ minode \in Table /\ 1 \in Slot /\ job.wd \in Slot /\ job.wd # root
      /\ job.self = 0
  BY <1>1, WalkIs
<1>3. /\ g.ino = search(i, "..") /\ g.minode \in Table
      /\ \A t \in Slot :
           /\ g.minode[t].refCount = minode[t].refCount - (IF t = job.wd THEN 1 ELSE 0)
           /\ g.minode[t].ino \in {minode[t].ino, g.ino}
           /\ t # job.wd /\ minode[t].refCount > 0 => g.minode[t].ino = minode[t].ino
  BY <1>2, get_myinoIs
<1> HIDE DEF g
<1>4. CASE g.ino = 0 /\ Panic
  BY <1>4, PanicInv
<1>5. CASE /\ g.ino # 0 /\ minode' = g.minode /\ job' = [job EXCEPT !.parent = g.ino]
           /\ root' = root /\ cwd' = cwd /\ here' = here /\ bare' = bare
  <2>1. /\ Kin(g.ino, i) /\ Kin(g.ino, g.ino) /\ g.ino \in Ino
        /\ g.minode[job.wd].ino \in {i, g.ino}
    BY <1>2, <1>3, <1>5, ParentKin DEF Kin
  <2>2. /\ job'.wd = job.wd /\ job'.parent = g.ino /\ job'.self = 0 /\ job' \in Jobs
    BY <1>2, <1>5, <2>1 DEF TypeOK, Jobs
  <2>3. TypeOK'
    BY <1>2, <1>3, <1>5, <2>2 DEF TypeOK, Table, Jobs
  <2>4. Walking(job', minode')
    BY <1>2, <1>5, <2>1, <2>2 DEF Walking
  <2>5. root = 1 => /\ g.minode[1].refCount = minode[1].refCount
                    /\ minode[1].refCount > 0 => g.minode[1].ino = minode[1].ino
    BY <1>2, <1>3, Types
  <2>6. minode[1].refCount \in Int
    BY <1>2, Types
  <2>7. QED
    BY <1>1, <1>3, <1>5, <2>3, <2>4, <2>5, <2>6, ClimbingInv
<1>6. QED
  BY <1>1, <1>4, <1>5

LEMMA AskSelfInv ==
  ASSUME IInv, AskSelf, session' = session
  PROVE  IInv'
<1> DEFINE g == get_myino(minode, job.wd, ".")
           i == minode[job.wd].ino
<1>1. /\ Climbing /\ job.parent # 0
      /\ \/ g.ino = 0 /\ Panic
         \/ /\ g.ino # 0 /\ minode' = g.minode
            /\ job' = [job EXCEPT !.self = g.ino]
            /\ root' = root /\ cwd' = cwd /\ here' = here /\ bare' = bare
  BY DEF AskSelf, past
<1>2. /\ TypeOK /\ minode \in Table /\ 1 \in Slot /\ job.wd \in Slot /\ job.wd # root
      /\ Kin(job.parent, i)
  BY <1>1, WalkIs
<1>3. /\ g.ino = search(i, ".") /\ g.minode \in Table
      /\ \A t \in Slot :
           /\ g.minode[t].refCount = minode[t].refCount - (IF t = job.wd THEN 1 ELSE 0)
           /\ g.minode[t].ino \in {minode[t].ino, g.ino}
           /\ t # job.wd /\ minode[t].refCount > 0 => g.minode[t].ino = minode[t].ino
  BY <1>2, get_myinoIs
<1> HIDE DEF g
<1>4. CASE g.ino = 0 /\ Panic
  BY <1>4, PanicInv
<1>5. CASE /\ g.ino # 0 /\ minode' = g.minode /\ job' = [job EXCEPT !.self = g.ino]
           /\ root' = root /\ cwd' = cwd /\ here' = here /\ bare' = bare
  <2>1. g.ino = i /\ i \in Ino /\ g.minode[job.wd].ino = i
    <3>1. IsDir(i) /\ i \in Ino
      BY <1>3, <1>5, searchIs DEF Kin
    <3>2. search(i, ".") = i
      BY <3>1, TreeAssumption
    <3>3. QED
      BY <1>2, <1>3, <3>1, <3>2
  <2>2. /\ job'.wd = job.wd /\ job'.parent = job.parent /\ job'.self = i /\ job' \in Jobs
    BY <1>2, <1>5, <2>1 DEF TypeOK, Jobs
  <2>3. TypeOK'
    BY <1>2, <1>3, <1>5, <2>2 DEF TypeOK, Table, Jobs
  <2>4. Walking(job', minode')
    BY <1>1, <1>2, <1>5, <2>1, <2>2 DEF Walking
  <2>5. root = 1 => /\ g.minode[1].refCount = minode[1].refCount
                    /\ minode[1].refCount > 0 => g.minode[1].ino = minode[1].ino
    BY <1>2, <1>3, Types
  <2>6. minode[1].refCount \in Int
    BY <1>2, Types
  <2>7. QED
    BY <1>1, <1>3, <1>5, <2>3, <2>4, <2>5, <2>6, ClimbingInv
<1>6. QED
  BY <1>1, <1>4, <1>5

\* The name of a directory is that of an entry of its parent.
LEMMA get_mynameIs ==
  ASSUME NEW p, NEW i, Kin(p, i)
  PROVE  get_myname(p, i) \in Name
<1> DEFINE S == {x \in DOMAIN Tree[p] : Tree[p][x].ino = i}
<1>1. p \in Ino /\ S # {} /\ Tree[p] \in Seq([name : Name, ino : Ino])
  BY TreeAssumption DEF Kin
<1>2. \A x \in DOMAIN Tree[p] : x \in Nat /\ Tree[p][x] \in [name : Name, ino : Ino]
  BY <1>1, ElementIs
<1>3. S \in SUBSET Nat
  BY <1>2
<1> HIDE DEF S
<1>4. First(S) \in S
  BY <1>1, <1>3, FirstIs
<1>5. Tree[p][First(S)] \in [name : Name, ino : Ino]
  BY <1>2, <1>4 DEF S
<1>6. QED
  BY <1>5 DEF get_myname, S

LEMMA ClimbInv ==
  ASSUME IInv, Climb, session' = session
  PROVE  IInv'
<1> DEFINE g == iget(minode, job.parent)
           nm == get_myname(job.parent, job.self)
<1>1. /\ Climbing /\ job.self # 0
      /\ \/ g.at = NULL /\ Panic
         \/ /\ g.at # NULL /\ minode' = g.minode
            /\ job' = [job EXCEPT !.wd = g.at, !.parent = 0, !.self = 0,
                         !.path = <<nm>> \o @]
            /\ root' = root /\ cwd' = cwd /\ here' = here /\ bare' = bare
  BY DEF Climb, past
<1>2. /\ TypeOK /\ minode \in Table /\ 1 \in Slot /\ job.wd \in Slot
      /\ Kin(job.parent, job.self)
  BY <1>1, WalkIs
<1>3. nm \in Name /\ job.parent \in Ino
  BY <1>2, get_mynameIs DEF Kin
<1>4. On(minode, g)
  BY <1>2, <1>3, igetOn
<1> HIDE DEF g, nm
<1>5. g.at \in Slot \cup {NULL} /\ g.minode \in Table /\ Grew(minode, g.minode)
  BY <1>2, <1>4, OnListed DEF On, Listed
<1>6. CASE g.at = NULL /\ Panic
  BY <1>6, PanicInv
<1>7. CASE /\ g.at # NULL /\ minode' = g.minode
           /\ job' = [job EXCEPT !.wd = g.at, !.parent = 0, !.self = 0,
                        !.path = <<nm>> \o @]
           /\ root' = root /\ cwd' = cwd /\ here' = here /\ bare' = bare
  <2>1. <<nm>> \o job.path \in Seq(Name)
    <3>1. job.path \in Seq(Name)
      BY <1>2 DEF TypeOK
    <3>2. QED
      BY <1>3, <3>1
  <2> DEFINE path == <<nm>> \o job.path
  <2>2. job' = [job EXCEPT !.wd = g.at, !.parent = 0, !.self = 0, !.path = path]
    BY <1>7
  <2> HIDE DEF path
  <2>3. /\ job'.wd = g.at /\ job'.parent = 0 /\ job'.self = 0 /\ job' \in Jobs
    BY <1>2, <1>5, <2>1, <2>2 DEF TypeOK, Jobs, path
  <2>4. TypeOK'
    BY <1>2, <1>5, <1>7, <2>3 DEF TypeOK, Table, Jobs
  <2>5. Walking(job', minode')
    BY <1>5, <1>7, <2>3 DEF Walking
  <2>6. /\ g.minode[1].refCount >= minode[1].refCount
        /\ minode[1].refCount > 0 => g.minode[1].ino = minode[1].ino
    BY <1>2, <1>5 DEF Grew
  <2>7. QED
    BY <1>1, <1>5, <1>7, <2>4, <2>5, <2>6, ClimbingInv
<1>8. QED
  BY <1>1, <1>6, <1>7

-----------------------------------------------------------------------------
(***************************************************************************)
(* What holds of every behaviour                                           *)
(***************************************************************************)
LEMMA InitInv ==
  ASSUME Init
  PROVE  IInv
<1>1. 1 \in Slot
  BY SlotIs
<1>2. /\ minode \in Table /\ minode[1] = [refCount |-> 3, ino |-> Root]
      /\ \A s \in Slot \ {1} : minode[s].refCount = 0
  BY <1>1, InoIs DEF Init, BootTable, Table
<1>3. root = 1 /\ cwd = 1 /\ job = NoJob /\ here = Root /\ bare = 0 /\ session \in Sessions
  BY DEF Init
<1>4. TypeOK
  BY <1>1, <1>2, <1>3, InoIs, NoJobIs, ShellAssumption DEF TypeOK, Table, Jobs
<1>5. RootCounted
  BY <1>2, <1>3 DEF RootCounted
<1>6. Apart(minode) /\ CwdCounted
  BY <1>2, <1>3 DEF Apart, CwdCounted
<1>7. Walking(job, minode)
  BY <1>3 DEF Walking
<1>8. minode[cwd].ino = here
  BY <1>2, <1>3
<1>9. QED
  BY <1>3, <1>4, <1>5, <1>6, <1>7, <1>8 DEF IInv

LEMMA StepInv ==
  ASSUME IInv, Next
  PROVE  IInv'
<1>1. /\ session' = session
      /\ \/ CdRootwards
         \/ \E p \in Path : Go(p) \/ Stat(p) \/ Ls(p)
         \/ Pwd \/ LsBare \/ Quit \/ Progress
  BY DEF Next
<1>2. CASE CdRootwards
  BY <1>1, <1>2, CdRootwardsInv
<1>3. ASSUME NEW p \in Path, Go(p)
      PROVE  IInv'
  <2>1. CASE CdNowhere(p)
    BY <1>1, <2>1, CdNowhereInv
  <2>2. CASE CdFile(p)
    BY <1>1, <2>2, CdFileInv
  <2>3. CASE CdRoot(p)
    BY <1>1, <2>3, CdRootInv
  <2>4. CASE CdDir(p)
    BY <1>1, <2>4, CdDirInv
  <2>5. CASE CdPanic(p)
    BY <1>1, <2>5, PanicInv DEF CdPanic
  <2>6. QED
    BY <1>3, <2>1, <2>2, <2>3, <2>4, <2>5 DEF Go
<1>4. ASSUME NEW p \in Path, Stat(p) \/ Ls(p)
      PROVE  IInv'
  BY <1>1, <1>4, StatInv, LsInv
<1>5. CASE Pwd \/ LsBare
  BY <1>1, <1>5, PwdInv, LsBareInv
<1>6. CASE Quit
  BY <1>1, <1>6, RestartInv DEF Quit
<1>7. CASE Progress
  <2>1. CASE AskParent
    BY <1>1, <2>1, AskParentInv
  <2>2. CASE AskSelf
    BY <1>1, <2>2, AskSelfInv
  <2>3. CASE Climb
    BY <1>1, <2>3, ClimbInv
  <2>4. CASE PwdEnd
    BY <1>1, <2>4, PrintsInv DEF PwdEnd
  <2>5. CASE LsEnd
    BY <1>1, <2>5, LsEndInv
  <2>6. QED
    BY <1>7, <2>1, <2>2, <2>3, <2>4, <2>5 DEF Progress
<1>8. QED
  BY <1>1, <1>2, <1>3, <1>4, <1>5, <1>6, <1>7

\* The inductive invariant: slot 1 is short of one reference for every cd
\* without an argument, and in a session whose commands are balanced no other
\* slot that is pointed to is short of any.
THEOREM Invariance == Spec => []IInv
<1>1. Init => IInv
  BY InitInv
<1>2. IInv /\ UNCHANGED vars => IInv'
  BY DEF vars, past, IInv, TypeOK, Walking, RootCounted, Apart, CwdCounted, Balanced
<1>3. IInv /\ [Next]_vars => IInv'
  BY <1>2, StepInv
<1>4. QED
  BY <1>1, <1>3, PTL DEF Spec

\* root designates the root inode, loaded, until the second cd without an
\* argument, whatever is opened, listed or walked and never put
\* (mount_root of main.c, change_dir of cd_ls_pwd.c).
THEOREM RootStays == Spec => []RootIsRoot
<1>1. IInv => RootIsRoot
  <2>1. SUFFICES ASSUME IInv, bare < 2
                 PROVE  minode[root].ino = Root /\ minode[root].refCount > 0
    BY DEF RootIsRoot
  <2>2. TypeOK /\ RootCounted
    BY <2>1 DEF IInv
  <2>3. QED
    BY <2>1, <2>2, RootInUse DEF RootCounted
<1>2. QED
  BY <1>1, Invariance, PTL

\* In a session whose commands put no reference they do not have, cwd is the
\* directory of the last cd, loaded (change_dir, iget and iput).
THEOREM CwdStaysLoaded == Spec => []CwdStays
<1>1. IInv => CwdStays
  <2>1. SUFFICES ASSUME IInv, Balanced, bare < 2
                 PROVE  minode[cwd].ino = here /\ minode[cwd].refCount > 0
    BY DEF CwdStays
  <2>2. TypeOK /\ RootCounted /\ CwdCounted /\ minode[cwd].ino = here
    BY <2>1 DEF IInv
  <2>3. QED
    BY <2>1, <2>2, RootInUse DEF CwdCounted
<1>2. QED
  BY <1>1, Invariance, PTL

\* In such a session every pointer of the process is counted but for one
\* reference to each cd without an argument (mount_root and change_dir).
THEOREM SlotsSound == Spec => []SlotsOK
<1>1. IInv => SlotsOK
  <2>1. SUFFICES ASSUME IInv PROVE PointersCounted
    BY DEF SlotsOK, IInv
  <2>2. SUFFICES ASSUME Balanced, NEW s \in Slot
                 PROVE  minode[s].refCount + bare >= Pointers(s)
    BY DEF PointersCounted
  <2>3. TypeOK /\ RootCounted /\ Apart(minode) /\ CwdCounted
    BY <2>1, <2>2 DEF IInv
  <2>4. /\ minode[s].refCount \in Int /\ bare \in Nat /\ root = 1
        /\ minode[1].refCount + bare >= IF cwd = 1 THEN 3 ELSE 2
    BY <2>3, Types DEF RootCounted
  <2>5. Pointers(s) = (IF 1 = s THEN 1 ELSE 0) + (IF 1 = s THEN 1 ELSE 0)
                        + (IF cwd = s THEN 1 ELSE 0)
    BY <2>4 DEF Pointers
  <2>6. CASE s = 1
    BY <2>4, <2>5, <2>6
  <2>7. CASE s # 1
    <3>1. minode[s].refCount >= 0 /\ (cwd = s => minode[s].refCount > 0)
      BY <2>3, <2>7 DEF Apart, CwdCounted
    <3>2. QED
      BY <2>4, <2>5, <2>7, <3>1
  <2>8. QED
    BY <2>6, <2>7
<1>2. QED
  BY <1>1, Invariance, PTL
=============================================================================
