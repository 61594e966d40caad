--------------------------- MODULE MountTableProofs ---------------------------
(***************************************************************************)
(* Proofs about MountTable for every number of slots, entries, descriptors *)
(* and files, all trees, paths and sessions.                               *)
(*                                                                         *)
(* Each command is a chain of calls of iget and iput on tables of slots;   *)
(* Took says what the counts before and after such a chain are.            *)
(***************************************************************************)
EXTENDS MountTable, FiniteSetTheorems, FunctionTheorems,
        WellFoundedInduction, TLAPS

-----------------------------------------------------------------------------
(***************************************************************************)
(* The inductive invariant                                                 *)
(***************************************************************************)
SlotRec == [dev : Fd \cup {0}, ino : Ino \cup {0}, refCount : Nat,
            mptr : Entry \cup {NULL}, of : File \cup {None}]
EntryRec == [dev : Fd \cup {0}, devname : File \cup {None},
             path : Seq(STRING), minodeptr : Slot \cup {NULL}]

Alike(x, y) == x.dev = y.dev /\ x.ino = y.ino

\* The slots: no two in use hold the same inode of the same device.
Each(m) ==
  /\ m \in [Slot -> SlotRec]
  /\ \A s \in Slot : m[s].refCount > 0 => m[s].dev \in Fd
  /\ \A s, t \in Slot :
       m[s].refCount > 0 /\ m[t].refCount > 0 /\ Alike(m[s], m[t]) => s = t

\* The entries and the descriptors, file by file.
Opens(t, f) ==
  /\ t \in [Entry -> EntryRec] /\ f \in [Fd -> File \cup {None}]
  /\ \A k \in Entry : IF t[k].dev = 0 THEN t[k] = NoEntry
                      ELSE /\ f[t[k].dev] = t[k].devname
                           /\ t[k].devname \in File /\ t[k].minodeptr \in Slot
  /\ \A j, k \in Entry :
       t[j].dev # 0 /\ t[k].dev # 0 /\ t[j].devname = t[k].devname => j = k

NoneLost(t, f) ==
  \A d \in Fd : f[d] # None => \E k \in Entry : t[k].dev = d

\* Every pointer is counted.  A slot of the mount table was root when it was
\* entered there; when cd moves root away, the reference of root stays.
Counted(m, r, c, t) ==
  \A s \in Slot : m[s].refCount >= FromTable(t, s) + One(r = s \/ FromTable(t, s) > 0)
                                   + One(c = s)

Exact(m, r, c, t) ==
  \A s \in Slot : m[s].refCount = FromTable(t, s) + One(r = s) + One(c = s)

\* root and what the mount table points to are root inodes.
Roots(m, r, c, t) ==
  /\ r \in Slot /\ c \in Slot /\ m[r].ino = Root
  /\ \A k \in Entry : t[k].dev # 0 => m[t[k].minodeptr].ino = Root

\* Without cd root stays where mount_root put it.
Home(m, r, c, t) == r = 1 /\ c = 1 /\ m[1].dev = 3 /\ t[1].dev = 3

Inv(m, r, c, d, t, f) ==
  /\ Each(m) /\ Opens(t, f) /\ Counted(m, r, c, t) /\ Roots(m, r, c, t)
  /\ d \in Fd
  /\ Stays => Home(m, r, c, t)
  /\ Accepted => NoneLost(t, f)
  /\ Stays /\ Accepted => Exact(m, r, c, t) /\ d = 3

IInv == session \in Sessions /\ Inv(minode, root, cwd, dev, table, fds)

-----------------------------------------------------------------------------
(***************************************************************************)
(* Numbers and files                                                       *)
(***************************************************************************)
\* A set of natural numbers that is not empty has a least element.
LEMMA LeastExists ==
  ASSUME NEW S \in SUBSET Nat, S # {}
  PROVE  \E n \in S : \A m \in S : n <= m
<1> DEFINE R == {p \in Nat \X Nat : p[1] < p[2]}
<1>1. R = OpToRel(<, Nat)
  BY DEF OpToRel
<1>2. IsWellFoundedOn(R, Nat)
  BY <1>1, NatLessThanWellFounded
<1> HIDE DEF R
<1>3. PICK n \in S : \A m \in S : ~(<<m, n>> \in R)
  BY <1>2, WFMin
<1>4. ASSUME NEW m \in S PROVE n <= m
  <2>1. ~(m < n)
    BY <1>3 DEF R
  <2>2. QED
    BY <2>1
<1>5. QED
  BY <1>4

\* What Least gives.
LEMMA LeastIs ==
  ASSUME NEW S \in SUBSET Nat
  PROVE  /\ S = {} => Least(S) = NULL
         /\ S # {} => Least(S) \in S
<1>1. CASE S = {}
  BY <1>1 DEF Least
<1>2. CASE S # {}
  <2>1. \E n \in S : \A m \in S : n <= m
    BY <1>2, LeastExists
  <2>2. QED
    BY <1>2, <2>1 DEF Least
<1>3. QED
  BY <1>1, <1>2

\* Slots, entries, descriptors and inodes are numbers.
LEMMA SetsAre ==
  /\ Slot \subseteq Nat /\ Entry \subseteq Nat /\ Fd \subseteq Nat /\ Ino \subseteq Nat
  /\ NULL \notin Slot /\ NULL \notin Entry /\ 0 \notin Fd /\ 0 \notin Ino
  /\ 1 \in Slot /\ 1 \in Entry /\ 3 \in Fd /\ Root \in Ino /\ NULL = 0
BY MountAssumption DEF Slot, Entry, Fd, NULL

\* The first slot of a set of slots.
LEMMA LeastSlot ==
  ASSUME NEW S \in SUBSET Slot
  PROVE  /\ S = {} => Least(S) = NULL
         /\ S # {} => Least(S) \in S /\ Least(S) \in Slot /\ Least(S) # NULL
<1>1. S \in SUBSET Nat
  BY SetsAre
<1>2. QED
  BY <1>1, LeastIs, SetsAre

\* An element of a sequence.
LEMMA ElementIs ==
  ASSUME NEW T, NEW q \in Seq(T), NEW x \in DOMAIN q
  PROVE  q[x] \in T /\ x \in Nat
OBVIOUS

\* What search finds is an inode.
LEMMA searchIs ==
  ASSUME NEW f, NEW i, NEW nm
  PROVE  search(f, i, nm) \in Ino \cup {0}
<1> DEFINE ents == Entries(f, i)
           S == {y \in DOMAIN ents : ents[y].name = nm}
           x == Least(S)
<1>1. search(f, i, nm) = IF x = NULL THEN 0 ELSE ents[x].ino
  BY DEF search
<1>2. CASE f \in Ext2 /\ i \in Ino
  <2>1. ents = Tree[f][i] /\ Tree[f][i] \in Seq([name : STRING, ino : Ino])
    BY <1>2, MountAssumption DEF Entries
  <2> HIDE DEF ents
  <2>2. \A y \in DOMAIN ents : y \in Nat /\ ents[y] \in [name : STRING, ino : Ino]
    BY <2>1, ElementIs
  <2>3. S \in SUBSET Nat /\ \A y \in S : ents[y].ino \in Ino
    BY <2>2
  <2>4. x = NULL \/ x \in S
    BY <2>3, LeastIs
  <2> HIDE DEF S, x
  <2>5. QED
    BY <1>1, <2>3, <2>4
<1>3. CASE ~(f \in Ext2 /\ i \in Ino)
  <2>1. S = {}
    BY <1>3 DEF Entries
  <2>2. x = NULL
    BY <2>1, LeastIs
  <2>3. QED
    BY <1>1, <2>2
<1>4. QED
  BY <1>2, <1>3

-----------------------------------------------------------------------------
(***************************************************************************)
(* iget, iput and the lookup of a path                                     *)
(***************************************************************************)
\* x is table m with one more reference, to slot a; none if a is NULL.
Took(m, x, a) ==
  /\ Each(x)
  /\ \A s \in Slot : /\ x[s].refCount = m[s].refCount + One(s = a)
                     /\ m[s].refCount > 0 => Alike(x[s], m[s])

Handle == [at : Slot \cup {NULL}, ino : Ino \cup {0}, minode : [Slot -> SlotRec]]

Files == [Fd -> File \cup {None}]

\* iget of an inode that is in memory.
LEMMA igetFound ==
  ASSUME NEW m, Each(m), NEW s \in Slot, m[s].refCount > 0
  PROVE  Took(m, [m EXCEPT ![s].refCount = @ + 1], s)
<1> DEFINE x == [m EXCEPT ![s].refCount = @ + 1]
<1>1. m \in [Slot -> SlotRec]
  BY DEF Each
<1>2. \A t \in Slot : m[t] \in SlotRec /\ m[t].refCount \in Nat
  BY <1>1 DEF SlotRec
<1>3. x \in [Slot -> SlotRec]
  BY <1>1, <1>2 DEF SlotRec
<1>4. \A t \in Slot : /\ x[t].dev = m[t].dev /\ x[t].ino = m[t].ino
                      /\ x[t].refCount = m[t].refCount + One(t = s)
  BY <1>1, <1>2 DEF One, SlotRec
<1> HIDE DEF x
<1>5. \A t \in Slot : x[t].refCount > 0 => m[t].refCount > 0
  BY <1>2, <1>4 DEF One
<1>6. Each(x)
  BY <1>3, <1>4, <1>5 DEF Each, Alike
<1>7. Took(m, x, s)
  BY <1>4, <1>6 DEF Took, Alike
<1>8. QED
  BY <1>7 DEF x

\* iget of an inode that is not, into a slot that is not in use.
LEMMA igetFresh ==
  ASSUME NEW m, Each(m), NEW s \in Slot, m[s].refCount = 0,
         NEW d \in Fd, NEW i \in Ino \cup {0}, NEW f \in File \cup {None},
         \A t \in Slot : ~(m[t].refCount # 0 /\ m[t].dev = d /\ m[t].ino = i)
  PROVE  Took(m, [m EXCEPT ![s] = [dev |-> d, ino |-> i, refCount |-> 1,
                                   mptr |-> @.mptr, of |-> f]], s)
<1> DEFINE e == [dev |-> d, ino |-> i, refCount |-> 1, mptr |-> m[s].mptr, of |-> f]
           x == [m EXCEPT ![s] = e]
<1>1. m \in [Slot -> SlotRec]
  BY DEF Each
<1>2. \A t \in Slot : m[t] \in SlotRec /\ m[t].refCount \in Nat
  BY <1>1 DEF SlotRec
<1>3. e \in SlotRec
  BY <1>2 DEF SlotRec
<1>4. x \in [Slot -> SlotRec] /\ x[s] = e /\ \A t \in Slot : t # s => x[t] = m[t]
  BY <1>1, <1>3
<1>5. e.refCount = 1 /\ e.dev = d /\ e.ino = i
  OBVIOUS
<1> HIDE DEF x, e
<1>6. ASSUME NEW t \in Slot
      PROVE  /\ x[t].refCount = m[t].refCount + One(t = s)
             /\ m[t].refCount > 0 => Alike(x[t], m[t])
             /\ x[t].refCount > 0 => x[t].dev \in Fd
  <2>1. CASE t = s
    BY <1>4, <1>5, <2>1 DEF One
  <2>2. CASE t # s
    BY <1>2, <1>4, <2>2 DEF One, Alike, Each
  <2>3. QED
    BY <2>1, <2>2
<1>7. ASSUME NEW t \in Slot, NEW u \in Slot, x[t].refCount > 0, x[u].refCount > 0,
             Alike(x[t], x[u])
      PROVE  t = u
  <2>1. CASE t = s /\ u # s
    <3>1. m[u].refCount # 0 /\ m[u].dev = d /\ m[u].ino = i
      BY <1>2, <1>4, <1>5, <1>7, <2>1 DEF Alike
    <3>2. QED
      BY <3>1
  <2>2. CASE t # s /\ u = s
    <3>1. m[t].refCount # 0 /\ m[t].dev = d /\ m[t].ino = i
      BY <1>2, <1>4, <1>5, <1>7, <2>2 DEF Alike
    <3>2. QED
      BY <3>1
  <2>3. CASE t # s /\ u # s
    BY <1>4, <1>7, <2>3 DEF Each
  <2>4. QED
    BY <2>1, <2>2, <2>3
<1>8. Each(x)
  BY <1>4, <1>6, <1>7 DEF Each
<1>9. Took(m, x, s)
  BY <1>6, <1>8 DEF Took
<1>10. QED
  BY <1>9 DEF x, e

\* Nothing taken.
LEMMA TookNothing ==
  ASSUME NEW m, Each(m)
  PROVE  Took(m, m, NULL)
<1>1. \A s \in Slot : m[s].refCount \in Nat /\ s # NULL
  BY SetsAre DEF Each, SlotRec
<1>2. QED
  BY <1>1 DEF Took, One, Alike

\* iget takes a reference to the inode that was asked for, if there is a slot.
LEMMA igetTook ==
  ASSUME NEW m, Each(m), NEW files \in Files, NEW d \in Fd, NEW i \in Ino \cup {0}
  PROVE  /\ iget(m, files, d, i) \in Handle
         /\ iget(m, files, d, i).ino = i
         /\ Took(m, iget(m, files, d, i).minode, iget(m, files, d, i).at)
         /\ iget(m, files, d, i).at # NULL =>
              /\ iget(m, files, d, i).minode[iget(m, files, d, i).at].dev = d
              /\ iget(m, files, d, i).minode[iget(m, files, d, i).at].ino = i
<1> DEFINE found == {t \in Slot : m[t].refCount # 0 /\ m[t].dev = d /\ m[t].ino = i}
           free == {t \in Slot : m[t].refCount = 0}
           s == Least(IF found # {} THEN found ELSE free)
           g == iget(m, files, d, i)
<1>1. g = [at |-> s, ino |-> i,
           minode |-> IF s = NULL THEN m
                      ELSE IF found # {} THEN [m EXCEPT ![s].refCount = @ + 1]
                      ELSE [m EXCEPT ![s] = [dev |-> d, ino |-> i, refCount |-> 1,
                                             mptr |-> @.mptr, of |-> files[d]]]]
  BY DEF iget
<1>2. found \in SUBSET Slot /\ free \in SUBSET Slot
  OBVIOUS
<1>3. \A t \in Slot : m[t].refCount \in Nat
  BY DEF Each, SlotRec
<1>4. CASE found # {}
  <2>1. s \in found /\ s \in Slot /\ s # NULL
    BY <1>2, <1>4, LeastSlot
  <2>2. g = [at |-> s, ino |-> i, minode |-> [m EXCEPT ![s].refCount = @ + 1]]
    BY <1>1, <1>4, <2>1
  <2>a. m[s].refCount # 0 /\ m[s].dev = d /\ m[s].ino = i
    BY <2>1
  <2>b. m[s].refCount \in Nat
    BY <1>3, <2>1
  <2>3. m[s].refCount > 0 /\ m[s].dev = d /\ m[s].ino = i
    <3> HIDE DEF s
    <3>1. QED
      BY <2>a, <2>b
  <2> HIDE DEF g, s, found, free
  <2>4. Took(m, g.minode, s)
    BY <2>1, <2>2, <2>3, igetFound
  <2>5. Alike(g.minode[s], m[s]) /\ g.minode \in [Slot -> SlotRec]
    BY <2>1, <2>3, <2>4 DEF Took, Each
  <2>6. g.at = s /\ g.ino = i
    BY <2>2
  <2>7. g \in Handle
    BY <2>1, <2>2, <2>5 DEF Handle
  <2>8. /\ g \in Handle /\ g.ino = i /\ Took(m, g.minode, g.at)
        /\ g.minode[g.at].dev = d /\ g.minode[g.at].ino = i
    BY <2>3, <2>4, <2>5, <2>6, <2>7 DEF Alike
  <2>9. QED
    BY <2>8 DEF g
<1>5. CASE found = {} /\ free # {}
  <2>1. s \in free /\ s \in Slot /\ s # NULL
    BY <1>2, <1>5, LeastSlot
  <2>2. g = [at |-> s, ino |-> i,
             minode |-> [m EXCEPT ![s] = [dev |-> d, ino |-> i, refCount |-> 1,
                                          mptr |-> @.mptr, of |-> files[d]]]]
    BY <1>1, <1>5, <2>1
  <2>3. \A t \in Slot : ~(m[t].refCount # 0 /\ m[t].dev = d /\ m[t].ino = i)
    BY <1>5
  <2>4. m[s].refCount = 0 /\ files[d] \in File \cup {None} /\ m \in [Slot -> SlotRec]
    BY <2>1 DEF Files, Each
  <2> HIDE DEF g, s, found, free
  <2>5. Took(m, g.minode, s)
    BY <2>1, <2>2, <2>3, <2>4, igetFresh
  <2>6. g.minode[s].dev = d /\ g.minode[s].ino = i
    BY <2>1, <2>2, <2>4
  <2>7. g.at = s /\ g.ino = i /\ g.minode \in [Slot -> SlotRec]
    BY <2>2, <2>5 DEF Took, Each
  <2>8. g \in Handle
    BY <2>1, <2>2, <2>7 DEF Handle
  <2>9. /\ g \in Handle /\ g.ino = i /\ Took(m, g.minode, g.at)
        /\ g.minode[g.at].dev = d /\ g.minode[g.at].ino = i
    BY <2>5, <2>6, <2>7, <2>8
  <2>10. QED
    BY <2>9 DEF g
<1>6. CASE found = {} /\ free = {}
  <2>1. s = NULL
    BY <1>2, <1>6, LeastSlot
  <2>2. g = [at |-> NULL, ino |-> i, minode |-> m]
    BY <1>1, <2>1
  <2> HIDE DEF g, s, found, free
  <2>3. g \in Handle /\ g.at = NULL /\ g.ino = i /\ g.minode = m
    BY <2>2 DEF Handle, Each
  <2>4. Took(m, m, NULL)
    BY TookNothing
  <2>5. g \in Handle /\ g.ino = i /\ Took(m, g.minode, g.at) /\ g.at = NULL
    BY <2>3, <2>4
  <2>6. QED
    BY <2>5 DEF g
<1>7. QED
  BY <1>4, <1>5, <1>6

\* An inode that is in memory is found where it is.
LEMMA igetHeld ==
  ASSUME NEW m, Each(m), NEW files, NEW d, NEW i, NEW y \in Slot,
         m[y].refCount > 0, m[y].dev = d, m[y].ino = i
  PROVE  iget(m, files, d, i).at = y
<1> DEFINE found == {t \in Slot : m[t].refCount # 0 /\ m[t].dev = d /\ m[t].ino = i}
<1>1. \A t \in Slot : m[t].refCount \in Nat
  BY DEF Each, SlotRec
<1>2. y \in found
  BY <1>1
<1>3. \A t \in found : t = y
  BY <1>1 DEF Each, Alike
<1>4. Least(found) = y
  <2>1. found \in SUBSET Slot /\ found # {}
    BY <1>2
  <2>2. Least(found) \in found
    BY <2>1, LeastSlot
  <2>3. QED
    BY <1>3, <2>2
<1>5. iget(m, files, d, i).at = Least(IF found # {} THEN found
                                      ELSE {t \in Slot : m[t].refCount = 0})
  BY DEF iget
<1>6. QED
  BY <1>2, <1>4, <1>5

\* A reference that is put.
LEMMA iputIs ==
  ASSUME NEW m, Each(m), NEW s \in Slot, m[s].refCount > 0
  PROVE  /\ Each(iput(m, s))
         /\ \A t \in Slot : /\ iput(m, s)[t].refCount = m[t].refCount - One(t = s)
                            /\ Alike(iput(m, s)[t], m[t])
<1> DEFINE x == iput(m, s)
<1>1. x = [m EXCEPT ![s].refCount = @ - 1]
  BY SetsAre DEF iput
<1>2. m \in [Slot -> SlotRec] /\ \A t \in Slot : m[t] \in SlotRec /\ m[t].refCount \in Nat
  BY DEF Each, SlotRec
<1>3. x \in [Slot -> SlotRec]
  BY <1>1, <1>2 DEF SlotRec
<1>4. \A t \in Slot : /\ x[t].dev = m[t].dev /\ x[t].ino = m[t].ino
                      /\ x[t].refCount = m[t].refCount - One(t = s)
  BY <1>1, <1>2 DEF One, SlotRec
<1> HIDE DEF x
<1>5. \A t \in Slot : x[t].refCount > 0 => m[t].refCount > 0
  BY <1>2, <1>4 DEF One
<1>6. Each(x)
  BY <1>3, <1>4, <1>5 DEF Each, Alike
<1>7. \A t \in Slot : x[t].refCount = m[t].refCount - One(t = s) /\ Alike(x[t], m[t])
  BY <1>4 DEF Alike
<1>8. QED
  BY <1>6, <1>7 DEF x

\* A reference that is taken and put again leaves the counts.
LEMMA TookPut ==
  ASSUME NEW m, Each(m), NEW x, NEW a \in Slot \cup {NULL}, Took(m, x, a)
  PROVE  Took(m, iput(x, a), NULL)
<1>1. CASE a = NULL
  BY <1>1 DEF iput
<1>2. CASE a # NULL
  <2> DEFINE y == iput(x, a)
  <2>1. a \in Slot /\ Each(x)
    BY <1>2 DEF Took
  <2>2. \A t \in Slot : /\ m[t].refCount \in Nat /\ t # NULL
                        /\ x[t].refCount = m[t].refCount + One(t = a)
                        /\ m[t].refCount > 0 => Alike(x[t], m[t])
    BY SetsAre DEF Took, Each, SlotRec
  <2>3. x[a].refCount > 0
    BY <2>1, <2>2 DEF One
  <2>4. /\ Each(y)
        /\ \A t \in Slot : /\ y[t].refCount = x[t].refCount - One(t = a)
                           /\ Alike(y[t], x[t])
    BY <2>1, <2>3, iputIs
  <2> HIDE DEF y
  <2>5. \A t \in Slot : y[t].refCount = m[t].refCount
    BY <2>2, <2>4 DEF One
  <2>6. Took(m, y, NULL)
    BY <2>2, <2>4, <2>5 DEF Took, One, Alike
  <2>7. QED
    BY <2>6 DEF y
<1>3. QED
  BY <1>1, <1>2

\* What is taken after references that were put again.
LEMMA TookTook ==
  ASSUME NEW m, Each(m), NEW x, Took(m, x, NULL), NEW y, NEW a, Took(x, y, a)
  PROVE  Took(m, y, a)
<1>1. \A s \in Slot : /\ m[s].refCount \in Nat /\ x[s].refCount = m[s].refCount
                      /\ m[s].refCount > 0 => Alike(x[s], m[s])
  <2>1. \A s \in Slot : m[s].refCount \in Nat /\ One(s = NULL) = 0
    BY SetsAre DEF Each, SlotRec, One
  <2>2. QED
    BY <2>1 DEF Took
<1>2. QED
  BY <1>1 DEF Took, Alike

\* w is what a lookup that began with table m has come to.
On(m, w) == w \in Handle /\ Took(m, w.minode, w.at)

\* One name of a path.
LEMMA ComponentOn ==
  ASSUME NEW m, Each(m), NEW w, On(m, w), NEW files \in Files, NEW d \in Fd, NEW nm
  PROVE  On(m, Component(files, d, w, nm))
<1> DEFINE i == search(w.minode[w.at].of, w.ino, nm)
           put == iput(w.minode, w.at)
<1>1. Component(files, d, w, nm) =
        IF w.at = NULL THEN w
        ELSE IF i = 0 THEN [at |-> NULL, ino |-> 0, minode |-> put]
        ELSE iget(put, files, d, i)
  BY DEF Component
<1>2. i \in Ino \cup {0}
  BY searchIs
<1>3. Took(m, put, NULL)
  <2>1. w.at \in Slot \cup {NULL} /\ Took(m, w.minode, w.at)
    BY DEF On, Handle
  <2>2. QED
    BY <2>1, TookPut
<1> HIDE DEF i, put
<1>4. Each(put) /\ put \in [Slot -> SlotRec]
  BY <1>3 DEF Took, Each
<1>5. CASE w.at = NULL
  BY <1>1, <1>5
<1>6. CASE w.at # NULL /\ i = 0
  <2> DEFINE h == [at |-> NULL, ino |-> 0, minode |-> put]
  <2>1. h \in Handle /\ h.minode = put /\ h.at = NULL
    BY <1>4 DEF Handle
  <2>2. Component(files, d, w, nm) = h
    BY <1>1, <1>6
  <2> HIDE DEF h
  <2>3. QED
    BY <1>3, <2>1, <2>2 DEF On
<1>7. CASE w.at # NULL /\ i # 0
  <2> DEFINE h == iget(put, files, d, i)
  <2>1. h \in Handle /\ Took(put, h.minode, h.at)
    BY <1>2, <1>4, igetTook
  <2>2. Component(files, d, w, nm) = h
    BY <1>1, <1>7
  <2> HIDE DEF h
  <2>3. Took(m, h.minode, h.at)
    BY <1>3, <2>1, TookTook
  <2>4. QED
    BY <2>1, <2>2, <2>3 DEF On
<1>8. QED
  BY <1>5, <1>6, <1>7

\* f is what Lookup computes, up to the n-th name.
Looking(files, d, start, names, n, f) ==
  f = [k \in 0..n |-> IF k = 0 THEN start ELSE Component(files, d, f[k - 1], names[k])]

\* The function Lookup defines exists: it is made longer by one component.
LEMMA LookupRun ==
  ASSUME NEW files, NEW d, NEW start, NEW names, NEW n \in Nat
  PROVE  \E f : Looking(files, d, start, names, n, f)
<1> DEFINE Run(f, l) == Looking(files, d, start, names, l, f)
           S == {l \in Nat : ~\E f : Run(f, l)}
<1>1. SUFFICES ASSUME S # {} PROVE FALSE
  OBVIOUS
<1>2. PICK l \in S : \A h \in S : l <= h
  <2>1. S \in SUBSET Nat
    OBVIOUS
  <2> HIDE DEF S
  <2>2. QED
    BY <1>1, <2>1, LeastExists
<1>3. l \in Nat /\ ~\E f : Run(f, l)
  OBVIOUS
<1>4. CASE l = 0
  <2> DEFINE f == [k \in 0..0 |-> start]
  <2>1. f = [k \in 0..0 |-> IF k = 0 THEN start
                            ELSE Component(files, d, f[k - 1], names[k])]
    OBVIOUS
  <2> HIDE DEF f
  <2>2. Run(f, 0)
    BY <2>1 DEF Looking
  <2>3. QED
    BY <1>3, <1>4, <2>2
<1>5. CASE l # 0
  <2>1. l - 1 \in Nat /\ ~(l <= l - 1)
    BY <1>3, <1>5
  <2>2. l - 1 \notin S
    <3> HIDE DEF S
    <3>1. QED
      BY <1>2, <2>1
  <2>3. PICK g : Run(g, l - 1)
    BY <2>1, <2>2
  <2> DEFINE At(k) == IF k = 0 THEN start ELSE Component(files, d, g[k - 1], names[k])
             f == [k \in 0..l |-> At(k)]
  <2>4. \A k \in 0..(l - 1) : g[k] = At(k)
    BY <2>3 DEF Looking
  <2>5. \A k \in 0..(l - 1) : f[k] = g[k]
    BY <2>1, <2>4
  <2>6. \A k \in 0..l : k # 0 => k - 1 \in 0..(l - 1)
    BY <1>3
  <2>7. \A k \in 0..l : At(k) = IF k = 0 THEN start
                                ELSE Component(files, d, f[k - 1], names[k])
    <3> HIDE DEF f
    <3>1. QED
      BY <2>5, <2>6
  <2>8. Run(f, l)
    <3>1. f = [k \in 0..l |-> At(k)]
      OBVIOUS
    <3> HIDE DEF f, At
    <3>2. QED
      BY <2>7, <3>1 DEF Looking
  <2> HIDE DEF f, Run
  <2>9. QED
    BY <1>3, <2>8
<1>6. QED
  BY <1>4, <1>5

\* A lookup takes one reference, or none.
LEMMA LookupOn ==
  ASSUME NEW m, Each(m), NEW files \in Files, NEW d \in Fd, NEW start, On(m, start),
         NEW names \in Seq(STRING)
  PROVE  On(m, Lookup(files, d, start, names))
<1> DEFINE n == Len(names)
           Run(f) == Looking(files, d, start, names, n, f)
           w == CHOOSE f : Run(f)
           S == {k \in 0..n : ~On(m, w[k])}
<1>1. n \in Nat
  OBVIOUS
<1>2. Lookup(files, d, start, names) = w[n]
  BY DEF Lookup, Looking
<1>3. Run(w)
  <2>1. \E f : Run(f)
    BY <1>1, LookupRun
  <2>2. QED
    BY <2>1
<1> HIDE DEF w
<1>4. /\ w[0] = start
      /\ \A k \in 0..n : k # 0 => w[k] = Component(files, d, w[k - 1], names[k])
  BY <1>1, <1>3 DEF Looking
<1> HIDE DEF n, Run
<1>5. S = {}
  <2>1. SUFFICES ASSUME S # {} PROVE FALSE
    OBVIOUS
  <2>2. S \in SUBSET Nat
    BY <1>1
  <2> HIDE DEF S
  <2>3. PICK k \in S : \A l \in S : k <= l
    BY <2>1, <2>2, LeastExists
  <2>4. k \in 0..n /\ ~On(m, w[k])
    BY DEF S
  <2>5. k # 0
    BY <1>4, <2>4
  <2>6. k - 1 \in 0..n /\ k - 1 \notin S
    BY <1>1, <2>3, <2>4, <2>5
  <2>7. On(m, w[k - 1])
    BY <2>6 DEF S
  <2>8. On(m, Component(files, d, w[k - 1], names[k]))
    BY <2>7, ComponentOn
  <2>9. QED
    BY <1>4, <2>4, <2>5, <2>8
<1>6. QED
  BY <1>1, <1>2, <1>5

\* getino puts what it takes.
LEMMA getinoTook ==
  ASSUME NEW m, Each(m), NEW files \in Files, NEW d \in Fd,
         NEW p, p.names \in Seq(STRING),
         root \in Slot, cwd \in Slot, m[root].refCount > 0, m[cwd].refCount > 0
  PROVE  /\ getino(m, files, d, p).ino \in Ino \cup {0}
         /\ Took(m, getino(m, files, d, p).minode, NULL)
<1> DEFINE at == IF p.abs THEN root ELSE cwd
           first == IF p.abs THEN Root ELSE m[at].ino
           start == iget(m, files, m[at].dev, first)
           w == Lookup(files, d, start, p.names)
           g == getino(m, files, d, p)
<1>1. g = IF p.abs /\ p.names = <<>> THEN [at |-> NULL, ino |-> Root, minode |-> m]
          ELSE [w EXCEPT !.minode = iput(@, w.at)]
  BY DEF getino
<1>2. at \in Slot /\ m[at].dev \in Fd /\ m[at].ino \in Ino \cup {0}
  BY DEF Each, SlotRec
<1> HIDE DEF at
<1>3. first \in Ino \cup {0}
  BY <1>2, SetsAre
<1> HIDE DEF first
<1>4. On(m, start)
  <2>1. start \in Handle /\ Took(m, start.minode, start.at)
    BY <1>2, <1>3, igetTook
  <2> HIDE DEF start
  <2>2. QED
    BY <2>1 DEF On
<1> HIDE DEF start
<1>5. On(m, w)
  BY <1>4, LookupOn
<1> HIDE DEF w
<1>6. w \in Handle /\ Took(m, w.minode, w.at)
  BY <1>5 DEF On
<1>7. CASE p.abs /\ p.names = <<>>
  <2>1. g.ino = Root /\ g.minode = m
    BY <1>1, <1>7
  <2> HIDE DEF g
  <2>2. g.ino \in Ino \cup {0} /\ Took(m, g.minode, NULL)
    BY <2>1, TookNothing, SetsAre
  <2>3. QED
    BY <2>2 DEF g
<1>8. CASE ~(p.abs /\ p.names = <<>>)
  <2>1. /\ g.ino = w.ino /\ g.minode = iput(w.minode, w.at)
        /\ w.ino \in Ino \cup {0} /\ w.at \in Slot \cup {NULL}
    BY <1>1, <1>6, <1>8 DEF Handle
  <2> HIDE DEF g
  <2>2. Took(m, iput(w.minode, w.at), NULL)
    BY <1>6, <2>1, TookPut
  <2>3. g.ino \in Ino \cup {0} /\ Took(m, g.minode, NULL)
    BY <2>1, <2>2
  <2>4. QED
    BY <2>3 DEF g
<1>9. QED
  BY <1>7, <1>8

\* One reference taken, and another that was taken before it put.
LEMMA TookSwap ==
  ASSUME NEW m, Each(m), NEW x, NEW a \in Slot, Took(m, x, a),
         NEW y, NEW b, Took(x, y, b)
  PROVE  Took(m, iput(y, a), b)
<1> DEFINE z == iput(y, a)
<1>1. \A s \in Slot : /\ m[s].refCount \in Nat
                      /\ x[s].refCount = m[s].refCount + One(s = a)
                      /\ y[s].refCount = x[s].refCount + One(s = b)
                      /\ m[s].refCount > 0 => Alike(x[s], m[s])
                      /\ x[s].refCount > 0 => Alike(y[s], x[s])
  BY DEF Took, Each, SlotRec
<1>2. Each(y) /\ y[a].refCount > 0
  BY <1>1 DEF Took, One
<1>3. /\ Each(z)
      /\ \A s \in Slot : z[s].refCount = y[s].refCount - One(s = a) /\ Alike(z[s], y[s])
  BY <1>2, iputIs
<1> HIDE DEF z
<1>4. ASSUME NEW s \in Slot
      PROVE  /\ z[s].refCount = m[s].refCount + One(s = b)
             /\ m[s].refCount > 0 => Alike(z[s], m[s])
  <2>1. z[s].refCount = m[s].refCount + One(s = b)
    BY <1>1, <1>3 DEF One
  <2>2. m[s].refCount > 0 => x[s].refCount > 0
    BY <1>1 DEF One
  <2>3. QED
    BY <1>1, <1>3, <2>1, <2>2 DEF Alike
<1>5. Took(m, z, b)
  BY <1>3, <1>4 DEF Took
<1>6. QED
  BY <1>5 DEF z

\* mptr says nothing about references.
LEMMA TookMptr ==
  ASSUME NEW m, NEW x, NEW a, Took(m, x, a), NEW s \in Slot, NEW k \in Entry \cup {NULL}
  PROVE  Took(m, [x EXCEPT ![s].mptr = k], a)
<1> DEFINE y == [x EXCEPT ![s].mptr = k]
<1>1. Each(x) /\ x \in [Slot -> SlotRec] /\ \A t \in Slot : x[t] \in SlotRec
  BY DEF Took, Each
<1>2. y \in [Slot -> SlotRec]
  BY <1>1 DEF SlotRec
<1>3. \A t \in Slot : /\ y[t].refCount = x[t].refCount /\ y[t].dev = x[t].dev
                      /\ y[t].ino = x[t].ino
  BY <1>1 DEF SlotRec
<1> HIDE DEF y
<1>4. Each(y)
  BY <1>1, <1>2, <1>3 DEF Each, Alike
<1>5. Took(m, y, a)
  BY <1>3, <1>4 DEF Took, Alike
<1>6. QED
  BY <1>5 DEF y

-----------------------------------------------------------------------------
(***************************************************************************)
(* Pointers of the mount table                                             *)
(***************************************************************************)
LEMMA EntryFinite == IsFiniteSet(Entry) /\ Cardinality(Entry) = NTAB
<1>1. IsFiniteSet(1..NTAB) /\ Cardinality(1..NTAB) = NTAB
  BY MountAssumption, FS_Interval
<1>2. QED
  BY <1>1 DEF Entry

\* How many entries of a table point to a slot.
LEMMA FromTableIs ==
  ASSUME NEW t, NEW s
  PROVE  /\ FromTable(t, s) \in Nat
         /\ FromTable(t, s) > 0 <=> \E k \in Entry : t[k].minodeptr = s
<1> DEFINE K == {k \in Entry : t[k].minodeptr = s}
<1>1. IsFiniteSet(K)
  <2>1. K \subseteq Entry
    OBVIOUS
  <2>2. QED
    BY <2>1, EntryFinite, FS_Subset
<1>2. Cardinality(K) \in Nat /\ (Cardinality(K) = 0 <=> K = {})
  BY <1>1, FS_CardinalityType, FS_EmptySet
<1>3. QED
  BY <1>2 DEF FromTable

With(t, k, e) == [t EXCEPT ![k] = e]

\* An entry that is set: one pointer less to where it pointed, one more to
\* where it points now.
LEMMA FromTableSet ==
  ASSUME NEW t \in [Entry -> EntryRec], NEW k \in Entry, NEW e \in EntryRec, NEW s
  PROVE  FromTable(With(t, k, e), s)
           = FromTable(t, s) - One(t[k].minodeptr = s) + One(e.minodeptr = s)
<1> DEFINE u == With(t, k, e)
           K == {j \in Entry : t[j].minodeptr = s}
           L == {j \in Entry : u[j].minodeptr = s}
           M == {j \in Entry \ {k} : t[j].minodeptr = s}
<1>1. u[k] = e /\ \A j \in Entry : j # k => u[j] = t[j]
  BY DEF With
<1>2. IsFiniteSet(M) /\ Cardinality(M) \in Nat
  <2>1. M \subseteq Entry
    OBVIOUS
  <2>2. IsFiniteSet(M)
    BY <2>1, EntryFinite, FS_Subset
  <2>3. QED
    BY <2>2, FS_CardinalityType
<1>3. Cardinality(K) = Cardinality(M) + One(t[k].minodeptr = s)
  <2>1. CASE t[k].minodeptr = s
    <3>1. K = M \cup {k} /\ k \notin M
      BY <2>1
    <3>2. Cardinality(M \cup {k}) = Cardinality(M) + 1
      BY <1>2, <3>1, FS_AddElement
    <3> HIDE DEF K, M
    <3>3. QED
      BY <2>1, <3>1, <3>2 DEF One
  <2>2. CASE t[k].minodeptr # s
    <3>1. K = M
      BY <2>2
    <3> HIDE DEF K, M
    <3>2. QED
      BY <1>2, <2>2, <3>1 DEF One
  <2>3. QED
    BY <2>1, <2>2
<1>4. Cardinality(L) = Cardinality(M) + One(e.minodeptr = s)
  <2>1. CASE e.minodeptr = s
    <3>1. L = M \cup {k} /\ k \notin M
      BY <1>1, <2>1
    <3>2. Cardinality(M \cup {k}) = Cardinality(M) + 1
      BY <1>2, <3>1, FS_AddElement
    <3> HIDE DEF L, M, u
    <3>3. QED
      BY <2>1, <3>1, <3>2 DEF One
  <2>2. CASE e.minodeptr # s
    <3>1. L = M
      BY <1>1, <2>2
    <3> HIDE DEF L, M, u
    <3>2. QED
      BY <1>2, <2>2, <3>1 DEF One
  <2>3. QED
    BY <2>1, <2>2
<1>5. FromTable(t, s) = Cardinality(K) /\ FromTable(u, s) = Cardinality(L)
  BY DEF FromTable
<1> HIDE DEF K, L, M, u
<1>6. FromTable(u, s) = FromTable(t, s) - One(t[k].minodeptr = s) + One(e.minodeptr = s)
  BY <1>2, <1>3, <1>4, <1>5 DEF One
<1>7. QED
  BY <1>6 DEF u

\* A file that is in no entry leaves an entry empty: there is one for each.
LEMMA Room ==
  ASSUME NEW t, NEW f, Opens(t, f), NEW file \in File, \A k \in Entry : t[k].devname # file
  PROVE  \E k \in Entry : t[k].dev = 0
<1>1. SUFFICES ASSUME \A k \in Entry : t[k].dev # 0 PROVE FALSE
  OBVIOUS
<1>2. PICK h \in [File -> Entry] : IsInjective(h)
  BY MountAssumption
<1>3. h \in Injection(File, Entry)
  BY <1>2 DEF Injection
<1>4. IsFiniteSet(File) /\ Cardinality(File) <= NTAB
  BY <1>3, EntryFinite, FS_Injection
<1>5. /\ IsFiniteSet(File \ {file})
      /\ Cardinality(File \ {file}) = Cardinality(File) - 1
  BY <1>4, FS_RemoveElement
<1> DEFINE g == [k \in Entry |-> t[k].devname]
<1>6. \A k \in Entry : t[k].devname \in File \ {file}
  BY <1>1 DEF Opens
<1>7. \A j, k \in Entry : t[j].devname = t[k].devname => j = k
  BY <1>1 DEF Opens
<1>8. g \in [Entry -> File \ {file}]
  BY <1>6
<1>9. IsInjective(g)
  BY <1>7 DEF IsInjective
<1> HIDE DEF g
<1>10. g \in Injection(Entry, File \ {file})
  BY <1>8, <1>9 DEF Injection
<1>11. NTAB <= Cardinality(File \ {file})
  BY <1>5, <1>10, EntryFinite, FS_Injection
<1>12. Cardinality(File) \in Nat /\ NTAB \in Nat
  BY <1>4, FS_CardinalityType, MountAssumption
<1>13. QED
  BY <1>4, <1>5, <1>11, <1>12

-----------------------------------------------------------------------------
(***************************************************************************)
(* The start, and steps that change the slots only                         *)
(***************************************************************************)
BootFds == [d \in Fd |-> IF d = 3 THEN First ELSE None]

\* What mount_root leaves.
LEMMA BootInv == Inv(BootMinode, 1, 1, 3, BootTable, BootFds)
<1>1. /\ 3 \in Nat /\ 0 \in Nat /\ First \in File /\ None \notin File
      /\ Root \in Ino /\ NULL = 0
  BY MountAssumption, SetsAre
<1>2. Each(BootMinode)
  <2>1. \A s \in Slot : BootMinode[s] \in SlotRec
    BY <1>1, SetsAre DEF BootMinode, SlotRec
  <2>2. BootMinode \in [Slot -> SlotRec]
    BY <2>1 DEF BootMinode
  <2>3. \A s \in Slot : BootMinode[s].refCount > 0 => s = 1 /\ BootMinode[s].dev = 3
    BY DEF BootMinode
  <2>4. QED
    BY <2>2, <2>3, SetsAre DEF Each
<1>3. /\ \A k \in Entry \ {1} : BootTable[k] = NoEntry
      /\ BootTable[1] = [dev |-> 3, devname |-> First, path |-> <<>>, minodeptr |-> 1]
  BY SetsAre DEF BootTable
<1>4. /\ NoEntry \in EntryRec /\ NoEntry.dev = 0 /\ NoEntry.minodeptr = NULL
      /\ BootTable[1] \in EntryRec /\ BootTable[1].dev = 3
      /\ BootTable[1].minodeptr = 1 /\ BootTable[1].devname = First
  <2>1. <<>> \in Seq(STRING)
    OBVIOUS
  <2>2. QED
    BY <1>1, <1>3, <2>1, SetsAre DEF NoEntry, EntryRec
<1>5. BootTable \in [Entry -> EntryRec]
  <2>1. \A k \in Entry : BootTable[k] \in EntryRec
    BY <1>3, <1>4
  <2>2. BootTable = [k \in Entry |-> BootTable[k]]
    BY DEF BootTable
  <2>3. QED
    BY <2>1, <2>2
<1>6. BootFds \in Files /\ BootFds[3] = First /\ \A d \in Fd : d # 3 => BootFds[d] = None
  BY <1>1, SetsAre DEF BootFds, Files
<1>7. Opens(BootTable, BootFds)
  <2>1. \A k \in Entry : BootTable[k].dev # 0 => k = 1
    BY <1>3, <1>4
  <2>2. ASSUME NEW k \in Entry
        PROVE  IF BootTable[k].dev = 0 THEN BootTable[k] = NoEntry
               ELSE /\ BootFds[BootTable[k].dev] = BootTable[k].devname
                    /\ BootTable[k].devname \in File /\ BootTable[k].minodeptr \in Slot
    <3>1. CASE k = 1
      BY <1>1, <1>4, <1>6, <3>1, SetsAre
    <3>2. CASE k # 1
      BY <1>3, <1>4, <3>2
    <3>3. QED
      BY <3>1, <3>2
  <2>3. QED
    BY <1>5, <1>6, <2>1, <2>2 DEF Opens, Files
<1>8. \A s \in Slot : /\ FromTable(BootTable, s) = One(s = 1)
                      /\ BootMinode[s].refCount = IF s = 1 THEN 3 ELSE 0
  <2>1. SUFFICES ASSUME NEW s \in Slot
                 PROVE  FromTable(BootTable, s) = One(s = 1)
    BY DEF BootMinode
  <2>2. CASE s = 1
    <3>1. {k \in Entry : BootTable[k].minodeptr = s} = {1}
      BY <1>1, <1>3, <1>4, <2>2, SetsAre
    <3>2. Cardinality({1}) = 1
      BY FS_Singleton
    <3>3. QED
      BY <2>2, <3>1, <3>2 DEF FromTable, One
  <2>3. CASE s # 1
    <3>1. {k \in Entry : BootTable[k].minodeptr = s} = {}
      BY <1>1, <1>3, <1>4, <2>3, SetsAre
    <3>2. Cardinality({}) = 0
      BY FS_EmptySet
    <3>3. QED
      BY <2>3, <3>1, <3>2 DEF FromTable, One
  <2>4. QED
    BY <2>2, <2>3
<1>9. Counted(BootMinode, 1, 1, BootTable) /\ Exact(BootMinode, 1, 1, BootTable)
  BY <1>8 DEF Counted, Exact, One
<1>10. Roots(BootMinode, 1, 1, BootTable) /\ Home(BootMinode, 1, 1, BootTable)
  <2>1. BootMinode[1].ino = Root /\ BootMinode[1].dev = 3
    BY SetsAre DEF BootMinode
  <2>2. QED
    BY <1>3, <1>4, <2>1, SetsAre DEF Roots, Home
<1>11. NoneLost(BootTable, BootFds)
  BY <1>4, <1>6, SetsAre DEF NoneLost
<1>12. QED
  BY <1>2, <1>7, <1>9, <1>10, <1>11, SetsAre DEF Inv

LEMMA RestartInv ==
  ASSUME Restart
  PROVE  Inv(minode', root', cwd', dev', table', fds')
BY BootInv DEF Restart, BootFds

\* What root, cwd and the mount table point to is in use.
LEMMA InUse ==
  ASSUME NEW m, NEW r, NEW c, NEW t, Each(m), Counted(m, r, c, t), Roots(m, r, c, t)
  PROVE  /\ m[r].refCount > 0 /\ m[c].refCount > 0
         /\ \A k \in Entry : t[k].minodeptr \in Slot => m[t[k].minodeptr].refCount > 0
<1>1. ASSUME NEW s \in Slot, r = s \/ c = s \/ \E k \in Entry : t[k].minodeptr = s
      PROVE  m[s].refCount > 0
  <2>1. FromTable(t, s) \in Nat /\ m[s].refCount \in Nat
    BY FromTableIs DEF Each, SlotRec
  <2>2. FromTable(t, s) > 0 <=> \E k \in Entry : t[k].minodeptr = s
    BY FromTableIs
  <2>3. m[s].refCount >= FromTable(t, s) + One(r = s \/ FromTable(t, s) > 0) + One(c = s)
    BY DEF Counted
  <2>4. QED
    BY <1>1, <2>1, <2>2, <2>3 DEF One
<1>2. QED
  BY <1>1 DEF Roots

\* A reference more, in the slots only.
LEMMA TookInv ==
  ASSUME NEW m, NEW r, NEW c, NEW d, NEW t, NEW f, Inv(m, r, c, d, t, f),
         NEW x, NEW a, Took(m, x, a)
  PROVE  /\ Each(x) /\ Counted(x, r, c, t) /\ Roots(x, r, c, t)
         /\ Stays => Home(x, r, c, t)
         /\ a = NULL /\ Exact(m, r, c, t) => Exact(x, r, c, t)
<1>1. Each(m) /\ Each(x) /\ Counted(m, r, c, t) /\ Roots(m, r, c, t) /\ Opens(t, f)
  BY DEF Inv, Took
<1>2. \A s \in Slot : /\ m[s].refCount \in Nat /\ FromTable(t, s) \in Nat
                      /\ x[s].refCount = m[s].refCount + One(s = a)
                      /\ m[s].refCount > 0 => Alike(x[s], m[s])
  BY <1>1, FromTableIs DEF Took, Each, SlotRec
<1>3. Counted(x, r, c, t)
  BY <1>1, <1>2 DEF Counted, One
<1>4. /\ m[r].refCount > 0
      /\ \A k \in Entry : t[k].minodeptr \in Slot => m[t[k].minodeptr].refCount > 0
  BY <1>1, InUse
<1>5. Roots(x, r, c, t)
  <2>1. x[r].ino = Root
    BY <1>1, <1>2, <1>4 DEF Roots, Alike
  <2>2. \A k \in Entry : t[k].dev # 0 => x[t[k].minodeptr].ino = Root
    BY <1>1, <1>2, <1>4 DEF Roots, Alike, Opens
  <2>3. QED
    BY <1>1, <2>1, <2>2 DEF Roots
<1>6. Stays => Home(x, r, c, t)
  BY <1>2, <1>4, SetsAre DEF Home, Alike, Inv
<1>7. a = NULL /\ Exact(m, r, c, t) => Exact(x, r, c, t)
  BY <1>2, SetsAre DEF Exact, One
<1>8. QED
  BY <1>1, <1>3, <1>5, <1>6, <1>7

\* A command that puts what it takes.
LEMMA BalancedInv ==
  ASSUME NEW m, NEW r, NEW c, NEW d, NEW t, NEW f, Inv(m, r, c, d, t, f),
         NEW x, Took(m, x, NULL)
  PROVE  Inv(x, r, c, d, t, f)
BY TookInv DEF Inv

\* One that leaks a reference, where that can happen.
LEMMA LeakInv ==
  ASSUME NEW m, NEW r, NEW c, NEW d, NEW t, NEW f, Inv(m, r, c, d, t, f),
         NEW x, NEW a, Took(m, x, a), ~Stays
  PROVE  Inv(x, r, c, d, t, f)
BY TookInv DEF Inv

-----------------------------------------------------------------------------
(***************************************************************************)
(* mymount                                                                 *)
(***************************************************************************)
LEMMA UserIs ==
  ASSUME IInv
  PROVE  /\ session.files \subseteq File
         /\ \A p \in Path \cup session.points : p.names \in Seq(STRING)
BY UserAssumption DEF IInv

\* A command that looks a path up and loads the inode, on device d.
LEMMA Opened ==
  ASSUME IInv, NEW files \in Files, NEW d \in Fd, NEW p \in Path \cup session.points,
         NEW g, g = getino(minode, files, d, p),
         NEW mip, mip = iget(g.minode, files, d, g.ino)
  PROVE  /\ Took(minode, g.minode, NULL)
         /\ mip \in Handle /\ mip.ino = g.ino /\ Took(minode, mip.minode, mip.at)
<1>1. Each(minode) /\ Counted(minode, root, cwd, table) /\ Roots(minode, root, cwd, table)
  BY DEF IInv, Inv
<1>2. minode[root].refCount > 0 /\ minode[cwd].refCount > 0
  BY <1>1, InUse
<1>3. root \in Slot /\ cwd \in Slot /\ p.names \in Seq(STRING)
  BY <1>1, UserIs DEF Roots
<1>4. g.ino \in Ino \cup {0} /\ Took(minode, g.minode, NULL)
  BY <1>1, <1>2, <1>3, getinoTook
<1>5. Each(g.minode)
  BY <1>4 DEF Took
<1>6. mip \in Handle /\ mip.ino = g.ino /\ Took(g.minode, mip.minode, mip.at)
  BY <1>4, <1>5, igetTook
<1>7. Took(minode, mip.minode, mip.at)
  BY <1>1, <1>4, <1>6, TookTook
<1>8. QED
  BY <1>4, <1>6, <1>7

\* The descriptor open gives is one that was closed.
LEMMA newfdIs ==
  ASSUME NEW f, MayMount(f)
  PROVE  newfd \in Fd /\ fds[newfd] = None
<1> DEFINE S == {d \in Fd : fds[d] = None}
<1>1. S \in SUBSET Nat /\ S # {}
  BY SetsAre DEF MayMount
<1>2. Least(S) \in S
  BY <1>1, LeastIs
<1>3. newfd = Least(S)
  BY DEF newfd
<1>4. QED
  BY <1>2, <1>3

\* A file under a descriptor that was closed leaves the entries.
LEMMA OpensMore ==
  ASSUME NEW t, NEW f, Opens(t, f), NEW d \in Fd, f[d] = None, NEW file \in File
  PROVE  Opens(t, [f EXCEPT ![d] = file])
<1> DEFINE g == [f EXCEPT ![d] = file]
<1>1. f \in [Fd -> File \cup {None}] /\ None \notin File
  BY MountAssumption DEF Opens
<1>2. g \in [Fd -> File \cup {None}] /\ \A e \in Fd : e # d => g[e] = f[e]
  BY <1>1
<1> HIDE DEF g
<1>3. ASSUME NEW k \in Entry, t[k].dev # 0
      PROVE  /\ g[t[k].dev] = t[k].devname
             /\ t[k].devname \in File /\ t[k].minodeptr \in Slot
  <2>1. f[t[k].dev] = t[k].devname /\ t[k].devname \in File /\ t[k].minodeptr \in Slot
    BY <1>3 DEF Opens
  <2>2. t[k].dev \in Fd
    BY <1>3 DEF Opens, EntryRec
  <2>3. t[k].dev # d
    BY <1>1, <2>1
  <2>4. QED
    BY <1>2, <2>1, <2>2, <2>3
<1>4. Opens(t, g)
  BY <1>2, <1>3 DEF Opens
<1>5. QED
  BY <1>4 DEF g

LEMMA NotExt2Inv ==
  ASSUME IInv, NEW f \in session.files, MayMount(f),
         NEW mip, Took(minode, mip.minode, mip.at), NotExt2(f, mip)
  PROVE  Inv(minode', root', cwd', dev', table', fds')
<1>1. newfd \in Fd /\ fds[newfd] = None /\ f \in File
  BY newfdIs, UserIs
<1>2. Inv(minode, root, cwd, dev, table, fds)
  BY DEF IInv
<1>3. ~Accepted
  BY DEF NotExt2, Accepted
<1>4. /\ Each(mip.minode) /\ Counted(mip.minode, root, cwd, table)
      /\ Roots(mip.minode, root, cwd, table)
      /\ Stays => Home(mip.minode, root, cwd, table)
  BY <1>2, TookInv
<1>5. Opens(table, [fds EXCEPT ![newfd] = f])
  BY <1>1, <1>2, OpensMore DEF Inv
<1>6. /\ minode' = mip.minode /\ root' = root /\ cwd' = cwd /\ table' = table
      /\ dev' = newfd /\ fds' = [fds EXCEPT ![newfd] = f]
  BY DEF NotExt2
<1>7. Inv(mip.minode, root, cwd, newfd, table, [fds EXCEPT ![newfd] = f])
  BY <1>1, <1>3, <1>4, <1>5 DEF Inv
<1>8. QED
  BY <1>6, <1>7

\* An entry for a file that is in none, and its open descriptor.
LEMMA EntryMade ==
  ASSUME NEW t, NEW f, Opens(t, f), NEW d \in Fd, f[d] = None, NEW file \in File,
         \A k \in Entry : t[k].devname # file, NEW k \in Entry, t[k].dev = 0,
         NEW e \in EntryRec, e.dev = d, e.devname = file, e.minodeptr \in Slot
  PROVE  /\ Opens([t EXCEPT ![k] = e], [f EXCEPT ![d] = file])
         /\ NoneLost(t, f) => NoneLost([t EXCEPT ![k] = e], [f EXCEPT ![d] = file])
<1> DEFINE g == [f EXCEPT ![d] = file]
           u == [t EXCEPT ![k] = e]
<1>1. Opens(t, g)
  BY OpensMore
<1>2. g[d] = file /\ \A x \in Fd : x # d => g[x] = f[x]
  BY DEF Opens
<1>3. u \in [Entry -> EntryRec] /\ u[k] = e /\ \A j \in Entry : j # k => u[j] = t[j]
  BY <1>1 DEF Opens
<1>4. 0 \notin Fd
  BY SetsAre
<1> HIDE DEF g, u
<1>5. ASSUME NEW j \in Entry
      PROVE  IF u[j].dev = 0 THEN u[j] = NoEntry
             ELSE g[u[j].dev] = u[j].devname /\ u[j].devname \in File /\ u[j].minodeptr \in Slot
  <2>1. CASE j = k
    BY <1>2, <1>3, <1>4, <2>1
  <2>2. CASE j # k
    BY <1>1, <1>3, <2>2 DEF Opens
  <2>3. QED
    BY <2>1, <2>2
<1>6. ASSUME NEW i \in Entry, NEW j \in Entry, u[i].dev # 0, u[j].dev # 0,
             u[i].devname = u[j].devname
      PROVE  i = j
  <2>1. CASE i # k /\ j # k
    BY <1>1, <1>3, <1>6, <2>1 DEF Opens
  <2>2. CASE i = k \/ j = k
    BY <1>3, <1>6, <2>2
  <2>3. QED
    BY <2>1, <2>2
<1>7. Opens(u, g)
  BY <1>1, <1>3, <1>5, <1>6 DEF Opens
<1>8. ASSUME NoneLost(t, f), NEW x \in Fd, g[x] # None PROVE \E j \in Entry : u[j].dev = x
  <2>1. CASE x = d
    BY <1>3, <2>1
  <2>2. CASE x # d
    <3>1. PICK j \in Entry : t[j].dev = x
      BY <1>2, <1>8, <2>2 DEF NoneLost
    <3>2. j # k
      BY <1>4, <3>1
    <3>3. QED
      BY <1>3, <3>1, <3>2
  <2>3. QED
    BY <2>1, <2>2
<1>9. Opens(u, g) /\ (NoneLost(t, f) => NoneLost(u, g))
  BY <1>7, <1>8 DEF NoneLost
<1>10. QED
  BY <1>9 DEF u, g

LEMMA IsExt2Inv ==
  ASSUME IInv, NEW f \in session.files, NEW p \in session.points, MayMount(f),
         NEW mip \in Handle, Took(minode, mip.minode, mip.at), IsExt2(f, p, mip)
  PROVE  Inv(minode', root', cwd', dev', table', fds')
<1> DEFINE r == iget(mip.minode, fds, minode[root].dev, minode[root].ino)
           K == {j \in Entry : table[j].dev = 0}
           k == Least(K)
           e == [dev |-> newfd, devname |-> f, path |-> p.names, minodeptr |-> root]
           u == [table EXCEPT ![k] = e]
           z == [iput(r.minode, mip.at) EXCEPT ![mip.at].mptr = k]
<1>1. newfd \in Fd /\ fds[newfd] = None /\ f \in File /\ p.names \in Seq(STRING)
  BY newfdIs, UserIs
<1>2. Inv(minode, root, cwd, dev, table, fds)
  BY DEF IInv
<1>3. /\ Each(minode) /\ Counted(minode, root, cwd, table) /\ Opens(table, fds)
      /\ Roots(minode, root, cwd, table) /\ root \in Slot /\ cwd \in Slot
      /\ minode[root].ino = Root
  BY <1>2 DEF Inv, Roots
<1>4. minode[root].refCount > 0 /\ minode[root].refCount \in Nat
  BY <1>3, InUse DEF Each, SlotRec
<1>5. r.at = root /\ Took(mip.minode, r.minode, root)
  <2>1. /\ Each(mip.minode) /\ Alike(mip.minode[root], minode[root])
        /\ mip.minode[root].refCount > 0
    BY <1>3, <1>4 DEF Took, One
  <2>2. r.at = root
    BY <1>3, <2>1, igetHeld DEF Alike
  <2>3. minode[root].dev \in Fd /\ minode[root].ino \in Ino \cup {0} /\ fds \in Files
    BY <1>3, <1>4 DEF Each, SlotRec, Opens, Files
  <2>4. Took(mip.minode, r.minode, r.at)
    BY <2>1, <2>3, igetTook
  <2> HIDE DEF r
  <2>5. QED
    BY <2>2, <2>4
<1>6. K # {} /\ K \in SUBSET Nat
  BY <1>1, <1>3, Room, SetsAre DEF MayMount
<1>7. k \in K
  BY <1>6, LeastIs
<1>8. k \in Entry /\ table[k].dev = 0
  BY <1>7
<1>9. /\ mip.at \in Slot /\ table' = u /\ minode' = z /\ fds' = [fds EXCEPT ![newfd] = f]
      /\ dev' = minode[root].dev /\ root' = root /\ cwd' = cwd
  BY <1>5 DEF IsExt2, Handle
<1> HIDE DEF r, K, k
<1>10. Took(minode, z, root)
  <2>1. Took(minode, iput(r.minode, mip.at), root)
    BY <1>3, <1>5, <1>9, TookSwap
  <2>2. QED
    BY <1>8, <1>9, <2>1, TookMptr
<1> HIDE DEF z
<1>11. e \in EntryRec /\ e.dev = newfd /\ e.devname = f /\ e.minodeptr = root
  BY <1>1, <1>3 DEF EntryRec
<1> HIDE DEF e
<1>12. /\ Opens(u, [fds EXCEPT ![newfd] = f])
       /\ NoneLost(table, fds) => NoneLost(u, [fds EXCEPT ![newfd] = f])
  <2>1. \A j \in Entry : table[j].devname # f
    BY DEF MayMount
  <2>2. QED
    BY <1>1, <1>3, <1>8, <1>11, <2>1, EntryMade
<1>13. ASSUME NEW s \in Slot
       PROVE  /\ FromTable(u, s) = FromTable(table, s) + One(s = root)
              /\ FromTable(table, s) \in Nat
              /\ z[s].refCount = minode[s].refCount + One(s = root)
              /\ minode[s].refCount \in Nat
  <2>1. table[k].minodeptr = NULL /\ s # NULL
    BY <1>3, <1>8, SetsAre DEF Opens, NoEntry
  <2>2. FromTable(u, s)
          = FromTable(table, s) - One(table[k].minodeptr = s) + One(e.minodeptr = s)
    <3>1. table \in [Entry -> EntryRec]
      BY <1>3 DEF Opens
    <3>2. e \in EntryRec
      BY <1>11
    <3>3. FromTable(With(table, k, e), s)
            = FromTable(table, s) - One(table[k].minodeptr = s) + One(e.minodeptr = s)
      BY <1>8, <3>1, <3>2, FromTableSet
    <3>4. QED
      BY <3>3 DEF With
  <2>3. FromTable(table, s) \in Nat
    BY FromTableIs
  <2>4. One(table[k].minodeptr = s) = 0 /\ One(e.minodeptr = s) = One(s = root)
    BY <1>11, <2>1 DEF One
  <2>5. FromTable(u, s) = FromTable(table, s) + One(s = root)
    <3> HIDE DEF u
    <3>1. One(s = root) \in Nat
      BY DEF One
    <3>2. QED
      BY <2>2, <2>3, <2>4, <3>1
  <2>6. QED
    BY <1>3, <1>10, <2>3, <2>5 DEF Took, Each, SlotRec
<1>14. Counted(z, root, cwd, u)
  <2> HIDE DEF u
  <2>1. QED
    BY <1>3, <1>13 DEF Counted, One
<1>15. Exact(minode, root, cwd, table) => Exact(z, root, cwd, u)
  <2> HIDE DEF u
  <2>1. QED
    BY <1>13 DEF Exact, One
<1>16. Each(z) /\ Roots(z, root, cwd, table) /\ (Stays => Home(z, root, cwd, table))
  BY <1>2, <1>10, TookInv
<1>17. table \in [Entry -> EntryRec] /\ u[k] = e /\ \A j \in Entry : j # k => u[j] = table[j]
  BY <1>3, <1>8 DEF Opens
<1>18. Roots(z, root, cwd, u)
  <2>1. \A j \in Entry : u[j].dev # 0 => z[u[j].minodeptr].ino = Root
    BY <1>11, <1>16, <1>17 DEF Roots
  <2>2. QED
    BY <1>16, <2>1 DEF Roots
<1>19. Stays => Home(z, root, cwd, u)
  <2>1. Home(z, root, cwd, table) => k # 1
    BY <1>8 DEF Home
  <2>2. QED
    BY <1>16, <1>17, <2>1, SetsAre DEF Home
<1>20. minode[root].dev \in Fd /\ (Stays => minode[root].dev = 3)
  BY <1>2, <1>3, <1>4 DEF Each, Inv, Home
<1> HIDE DEF u
<1>21. Inv(z, root, cwd, minode[root].dev, u, [fds EXCEPT ![newfd] = f])
  BY <1>2, <1>12, <1>14, <1>15, <1>16, <1>18, <1>19, <1>20 DEF Inv
<1>22. QED
  BY <1>9, <1>21

LEMMA MountInv ==
  ASSUME IInv, NEW f \in session.files, NEW p \in session.points, Mount(f, p)
  PROVE  Inv(minode', root', cwd', dev', table', fds')
<1> DEFINE files == [fds EXCEPT ![newfd] = f]
           g == getino(minode, files, newfd, p)
           mip == iget(g.minode, files, newfd, g.ino)
<1>1. MayMount(f) /\ (NotExt2(f, mip) \/ IsExt2(f, p, mip) \/ NoMinode(f, mip))
  BY DEF Mount
<1>2. newfd \in Fd /\ f \in File /\ fds \in Files
  BY <1>1, newfdIs, UserIs DEF IInv, Inv, Opens, Files
<1>3. files \in Files
  BY <1>2 DEF Files
<1> HIDE DEF files
<1>4. mip \in Handle /\ Took(minode, mip.minode, mip.at)
  BY <1>2, <1>3, Opened
<1> HIDE DEF g, mip
<1>5. CASE NotExt2(f, mip)
  BY <1>1, <1>4, <1>5, NotExt2Inv
<1>6. CASE IsExt2(f, p, mip)
  BY <1>1, <1>4, <1>6, IsExt2Inv
<1>7. CASE NoMinode(f, mip)
  BY <1>7, RestartInv DEF NoMinode
<1>8. QED
  BY <1>1, <1>5, <1>6, <1>7

-----------------------------------------------------------------------------
(***************************************************************************)
(* myumount                                                                *)
(***************************************************************************)
\* The put of umount, which also resets mptr.
LEMMA iputMptr ==
  ASSUME NEW m, Each(m), NEW s \in Slot, m[s].refCount > 0
  PROVE  /\ Each([iput(m, s) EXCEPT ![s].mptr = NULL])
         /\ \A t \in Slot :
              /\ [iput(m, s) EXCEPT ![s].mptr = NULL][t].refCount
                   = m[t].refCount - One(t = s)
              /\ Alike([iput(m, s) EXCEPT ![s].mptr = NULL][t], m[t])
<1> DEFINE x == iput(m, s)
           y == [x EXCEPT ![s].mptr = NULL]
<1>1. /\ Each(x)
      /\ \A t \in Slot : x[t].refCount = m[t].refCount - One(t = s) /\ Alike(x[t], m[t])
  BY iputIs
<1> HIDE DEF x
<1>2. x \in [Slot -> SlotRec] /\ \A t \in Slot : x[t] \in SlotRec
  BY <1>1 DEF Each
<1>3. y \in [Slot -> SlotRec]
  BY <1>2 DEF SlotRec
<1>4. \A t \in Slot : /\ y[t].refCount = x[t].refCount /\ y[t].dev = x[t].dev
                      /\ y[t].ino = x[t].ino
  BY <1>2 DEF SlotRec
<1> HIDE DEF y
<1>5. Each(y)
  BY <1>1, <1>3, <1>4 DEF Each, Alike
<1>6. \A t \in Slot : y[t].refCount = m[t].refCount - One(t = s) /\ Alike(y[t], m[t])
  BY <1>1, <1>4 DEF Alike
<1>7. QED
  BY <1>5, <1>6 DEF y, x

\* An entry that is cleared, and its descriptor closed.
LEMMA EntryCleared ==
  ASSUME NEW t, NEW f, Opens(t, f), NEW k \in Entry, t[k].dev # 0
  PROVE  /\ Opens([t EXCEPT ![k] = NoEntry], [f EXCEPT ![t[k].dev] = None])
         /\ NoneLost(t, f) =>
              NoneLost([t EXCEPT ![k] = NoEntry], [f EXCEPT ![t[k].dev] = None])
<1> DEFINE d == t[k].dev
           g == [f EXCEPT ![d] = None]
           u == [t EXCEPT ![k] = NoEntry]
<1>1. /\ t \in [Entry -> EntryRec] /\ f \in [Fd -> File \cup {None}] /\ d \in Fd
      /\ f[d] = t[k].devname /\ t[k].devname \in File
  BY DEF Opens, EntryRec
<1> HIDE DEF d
<1>2. NoEntry \in EntryRec /\ NoEntry.dev = 0
  <2>1. <<>> \in Seq(STRING)
    OBVIOUS
  <2>2. QED
    BY <2>1, SetsAre DEF NoEntry, EntryRec
<1>3. u \in [Entry -> EntryRec] /\ u[k] = NoEntry /\ \A j \in Entry : j # k => u[j] = t[j]
  BY <1>1, <1>2
<1>4. g \in [Fd -> File \cup {None}] /\ g[d] = None /\ \A x \in Fd : x # d => g[x] = f[x]
  BY <1>1
<1> HIDE DEF g, u
<1>5. ASSUME NEW j \in Entry, u[j].dev # 0
      PROVE  /\ j # k /\ u[j] = t[j] /\ g[u[j].dev] = u[j].devname
             /\ u[j].devname \in File /\ u[j].minodeptr \in Slot
  <2>1. j # k /\ u[j] = t[j]
    BY <1>2, <1>3, <1>5
  <2>2. /\ f[t[j].dev] = t[j].devname /\ t[j].devname \in File /\ t[j].minodeptr \in Slot
        /\ t[j].devname # t[k].devname
    BY <1>5, <2>1 DEF Opens
  <2>3. t[j].dev \in Fd /\ t[j].dev # d
    BY <1>1, <1>5, <2>1, <2>2 DEF EntryRec
  <2>4. QED
    BY <1>4, <2>1, <2>2, <2>3
<1>6. \A j \in Entry : u[j].dev = 0 => u[j] = NoEntry
  BY <1>3 DEF Opens
<1>7. \A i, j \in Entry :
        u[i].dev # 0 /\ u[j].dev # 0 /\ u[i].devname = u[j].devname => i = j
  BY <1>5 DEF Opens
<1>8. Opens(u, g)
  BY <1>3, <1>4, <1>5, <1>6, <1>7 DEF Opens
<1>9. ASSUME NoneLost(t, f), NEW x \in Fd, g[x] # None PROVE \E j \in Entry : u[j].dev = x
  <2>1. x # d /\ f[x] # None
    BY <1>4, <1>9
  <2>2. PICK j \in Entry : t[j].dev = x
    BY <1>9, <2>1 DEF NoneLost
  <2>3. j # k
    BY <2>1, <2>2 DEF d
  <2>4. QED
    BY <1>3, <2>2, <2>3
<1>10. Opens(u, g) /\ (NoneLost(t, f) => NoneLost(u, g))
  BY <1>8, <1>9 DEF NoneLost
<1>11. QED
  BY <1>10 DEF u, g, d

LEMMA UmountInv ==
  ASSUME IInv, NEW f \in session.files, Umount(f)
  PROVE  Inv(minode', root', cwd', dev', table', fds')
<1>1. PICK k \in Entry :
        /\ table[k].devname = f /\ table[k].dev # minode[root].dev
        /\ minode' = [iput(minode, table[k].minodeptr)
                        EXCEPT ![table[k].minodeptr].mptr = NULL]
        /\ fds' = [fds EXCEPT ![table[k].dev] = None]
        /\ table' = [table EXCEPT ![k] = NoEntry]
        /\ UNCHANGED <<root, cwd, dev>>
  BY DEF Umount
<1> DEFINE y == table[k].minodeptr
           z == [iput(minode, y) EXCEPT ![y].mptr = NULL]
           u == [table EXCEPT ![k] = NoEntry]
           g == [fds EXCEPT ![table[k].dev] = None]
<1>2. Inv(minode, root, cwd, dev, table, fds)
  BY DEF IInv
<1>3. /\ Each(minode) /\ Counted(minode, root, cwd, table) /\ Opens(table, fds)
      /\ Roots(minode, root, cwd, table) /\ root \in Slot /\ cwd \in Slot
      /\ table \in [Entry -> EntryRec]
  BY <1>2 DEF Inv, Roots, Opens
<1>4. table[k].dev # 0
  <2>1. f \in File /\ None \notin File
    BY UserIs, MountAssumption
  <2>2. table[k].dev = 0 => table[k].devname = None
    BY <1>3 DEF Opens, NoEntry
  <2>3. QED
    BY <1>1, <2>1, <2>2
<1>5. y \in Slot /\ minode[y].refCount > 0
  <2>1. y \in Slot
    BY <1>3, <1>4 DEF Opens
  <2>2. QED
    BY <1>3, <2>1, InUse
<1>6. Opens(u, g) /\ (NoneLost(table, fds) => NoneLost(u, g))
  BY <1>3, <1>4, EntryCleared
<1>7. /\ Each(z)
      /\ \A s \in Slot : /\ z[s].refCount = minode[s].refCount - One(s = y)
                         /\ Alike(z[s], minode[s])
  <2> HIDE DEF y
  <2>1. QED
    BY <1>3, <1>5, iputMptr
<1>8. /\ u[k].dev = 0 /\ NoEntry \in EntryRec /\ NoEntry.minodeptr = NULL
      /\ \A j \in Entry : j # k => u[j] = table[j]
  <2>1. <<>> \in Seq(STRING)
    OBVIOUS
  <2>2. NoEntry \in EntryRec /\ NoEntry.minodeptr = NULL /\ NoEntry.dev = 0
    BY <2>1, SetsAre DEF NoEntry, EntryRec
  <2>3. QED
    BY <1>3, <2>2
<1>9. ASSUME NEW s \in Slot
      PROVE  /\ FromTable(u, s) = FromTable(table, s) - One(s = y)
             /\ FromTable(table, s) \in Nat /\ FromTable(u, s) \in Nat
             /\ minode[s].refCount \in Nat
  <2>1. FromTable(table, s) \in Nat /\ FromTable(u, s) \in Nat
    BY FromTableIs
  <2>2. FromTable(With(table, k, NoEntry), s)
          = FromTable(table, s) - One(table[k].minodeptr = s) + One(NoEntry.minodeptr = s)
    BY <1>3, <1>8, FromTableSet
  <2>3. One(NoEntry.minodeptr = s) = 0 /\ One(table[k].minodeptr = s) = One(s = y)
    BY <1>8, SetsAre DEF One
  <2>4. u = With(table, k, NoEntry)
    BY DEF With
  <2> HIDE DEF u
  <2>5. One(s = y) \in Nat
    BY DEF One
  <2>6. FromTable(u, s) = FromTable(table, s) - One(s = y)
    BY <2>1, <2>2, <2>3, <2>4, <2>5
  <2>7. QED
    BY <1>3, <2>1, <2>6 DEF Each, SlotRec
<1>10. minode' = z /\ table' = u /\ fds' = g /\ root' = root /\ cwd' = cwd /\ dev' = dev
  BY <1>1
<1> HIDE DEF z, u, g
<1>11. Counted(z, root, cwd, u)
  BY <1>3, <1>7, <1>9 DEF Counted, One
<1>12. Exact(minode, root, cwd, table) => Exact(z, root, cwd, u)
  BY <1>7, <1>9 DEF Exact, One
<1>13. Roots(z, root, cwd, u)
  <2>1. ASSUME NEW j \in Entry, u[j].dev # 0 PROVE z[u[j].minodeptr].ino = Root
    <3>1. u[j] = table[j]
      BY <1>8, <2>1
    <3>2. table[j].minodeptr \in Slot /\ minode[table[j].minodeptr].ino = Root
      BY <1>3, <2>1, <3>1 DEF Roots, Opens
    <3>3. QED
      BY <1>7, <3>1, <3>2 DEF Alike
  <2>2. QED
    BY <1>3, <1>7, <2>1 DEF Roots, Alike
<1>14. Stays => Home(z, root, cwd, u)
  <2>1. Home(minode, root, cwd, table) => k # 1
    BY <1>1 DEF Home
  <2>2. QED
    BY <1>2, <1>7, <1>8, <2>1, SetsAre DEF Inv, Home, Alike
<1>15. Inv(z, root, cwd, dev, u, g)
  BY <1>2, <1>6, <1>7, <1>11, <1>12, <1>13, <1>14 DEF Inv
<1>16. QED
  BY <1>10, <1>15

-----------------------------------------------------------------------------
(***************************************************************************)
(* change_dir and open_file                                                *)
(***************************************************************************)
\* root and cwd enter the root of a file system, and keep what they had.
LEMMA EnterInv ==
  ASSUME IInv, ~Stays, NEW y, Each(y),
         \A s \in Slot : /\ y[s].refCount >= minode[s].refCount
                         /\ minode[s].refCount > 0 => Alike(y[s], minode[s]),
         NEW n \in Slot, y[n].ino = Root, y[n].refCount >= FromTable(table, n) + 2
  PROVE  Inv(y, n, n, dev, table, fds)
<1>1. /\ Inv(minode, root, cwd, dev, table, fds) /\ Each(minode) /\ Opens(table, fds)
      /\ Counted(minode, root, cwd, table) /\ Roots(minode, root, cwd, table)
  BY DEF IInv, Inv
<1>2. \A s \in Slot : /\ minode[s].refCount \in Nat /\ y[s].refCount \in Nat
                      /\ FromTable(table, s) \in Nat
  BY <1>1, FromTableIs DEF Each, SlotRec
<1>3. Counted(y, n, n, table)
  <2>1. ASSUME NEW s \in Slot
        PROVE  y[s].refCount >= FromTable(table, s)
                                + One(n = s \/ FromTable(table, s) > 0) + One(n = s)
    <3>1. CASE s = n
      BY <1>2, <3>1 DEF One
    <3>2. CASE s # n
      BY <1>1, <1>2, <3>2 DEF Counted, One
    <3>3. QED
      BY <3>1, <3>2
  <2>2. QED
    BY <2>1 DEF Counted
<1>4. Roots(y, n, n, table)
  <2>1. ASSUME NEW k \in Entry, table[k].dev # 0 PROVE y[table[k].minodeptr].ino = Root
    <3>1. table[k].minodeptr \in Slot /\ minode[table[k].minodeptr].ino = Root
      BY <1>1, <2>1 DEF Opens, Roots
    <3>2. minode[table[k].minodeptr].refCount > 0
      BY <1>1, <3>1, InUse
    <3>3. QED
      BY <3>1, <3>2 DEF Alike
  <2>2. QED
    BY <2>1 DEF Roots
<1>5. QED
  BY <1>1, <1>3, <1>4 DEF Inv

LEMMA BackInv ==
  ASSUME IInv, ~Stays, NEW mip \in Handle, Took(minode, mip.minode, mip.at), Back(mip)
  PROVE  Inv(minode', root', cwd', dev', table', fds')
<1> DEFINE n == RootEntry.minodeptr
           r == iget(mip.minode, fds, minode[n].dev, Root)
<1>1. mip.at = root /\ n # NULL /\ Enter(r, r)
  BY DEF Back, ToRoot
<1>2. /\ Each(minode) /\ Opens(table, fds) /\ fds \in Files
      /\ Counted(minode, root, cwd, table) /\ Roots(minode, root, cwd, table)
      /\ root \in Slot
  BY DEF IInv, Inv, Opens, Files, Roots
<1>3. n \in Slot /\ minode[n].ino = Root /\ FromTable(table, n) > 0
  <2>1. NoEntry.minodeptr = NULL
    BY DEF NoEntry
  <2>2. minode[root].mptr \in Entry \cup {NULL}
    BY <1>2 DEF Each, SlotRec
  <2>3. minode[root].mptr \in Entry /\ n = table[minode[root].mptr].minodeptr
    BY <1>1, <2>1, <2>2 DEF RootEntry
  <2> HIDE DEF n
  <2>4. PICK k \in Entry : n = table[k].minodeptr
    BY <2>3
  <2>5. table[k].dev # 0
    BY <1>1, <1>2, <2>1, <2>4 DEF Opens
  <2>6. n \in Slot /\ minode[n].ino = Root
    BY <1>2, <2>4, <2>5 DEF Opens, Roots
  <2>7. QED
    BY <2>4, <2>6, FromTableIs
<1>4. minode[n].refCount > 0 /\ minode[n].refCount >= FromTable(table, n) + 1
  <2> HIDE DEF n
  <2>1. minode[n].refCount \in Nat /\ FromTable(table, n) \in Nat
    BY <1>2, <1>3, FromTableIs DEF Each, SlotRec
  <2>2. minode[n].refCount >= FromTable(table, n)
                              + One(root = n \/ FromTable(table, n) > 0) + One(cwd = n)
    BY <1>2, <1>3 DEF Counted
  <2>3. QED
    BY <1>3, <2>1, <2>2 DEF One
<1> HIDE DEF n
<1>5. /\ \A s \in Slot : /\ minode[s].refCount \in Nat
                         /\ mip.minode[s].refCount = minode[s].refCount + One(s = root)
                         /\ minode[s].refCount > 0 => Alike(mip.minode[s], minode[s])
      /\ Each(mip.minode)
  BY <1>1, <1>2 DEF Took, Each, SlotRec
<1>6. r.at = n /\ Took(mip.minode, r.minode, n)
  <2>1. mip.minode[n].refCount > 0 /\ Alike(mip.minode[n], minode[n])
    BY <1>3, <1>4, <1>5 DEF One
  <2>2. r.at = n
    BY <1>3, <1>5, <2>1, igetHeld DEF Alike
  <2>3. minode[n].dev \in Fd /\ Root \in Ino \cup {0}
    BY <1>2, <1>3, <1>4, SetsAre DEF Each
  <2>4. Took(mip.minode, r.minode, r.at)
    BY <1>2, <1>5, <2>3, igetTook
  <2> HIDE DEF r
  <2>5. QED
    BY <2>2, <2>4
<1> HIDE DEF r
<1>7. Each(r.minode)
  BY <1>6 DEF Took
<1>8. ASSUME NEW s \in Slot
      PROVE  /\ r.minode[s].refCount >= minode[s].refCount + One(s = n)
             /\ minode[s].refCount > 0 => Alike(r.minode[s], minode[s])
  <2>1. /\ r.minode[s].refCount = mip.minode[s].refCount + One(s = n)
        /\ mip.minode[s].refCount > 0 => Alike(r.minode[s], mip.minode[s])
    BY <1>6 DEF Took
  <2>2. r.minode[s].refCount = minode[s].refCount + One(s = root) + One(s = n)
    BY <1>5, <2>1
  <2>3. minode[s].refCount > 0 => mip.minode[s].refCount > 0
    BY <1>5 DEF One
  <2>4. r.minode[s].refCount >= minode[s].refCount + One(s = n)
    BY <1>5, <2>2 DEF One
  <2>5. QED
    BY <1>5, <2>1, <2>3, <2>4 DEF Alike
<1>9. r.minode[n].refCount >= FromTable(table, n) + 2 /\ r.minode[n].ino = Root
  <2>1. FromTable(table, n) \in Nat /\ r.minode[n].refCount \in Nat
    BY <1>3, <1>7, FromTableIs DEF Each, SlotRec
  <2>2. QED
    BY <1>3, <1>4, <1>5, <1>8, <2>1 DEF One, Alike
<1>10. \A s \in Slot : /\ r.minode[s].refCount >= minode[s].refCount
                       /\ minode[s].refCount > 0 => Alike(r.minode[s], minode[s])
  <2>1. \A s \in Slot : r.minode[s].refCount \in Nat
    BY <1>7 DEF Each, SlotRec
  <2>2. QED
    BY <1>5, <1>8, <2>1 DEF One
<1>11. Inv(r.minode, n, n, dev, table, fds)
  BY <1>3, <1>7, <1>9, <1>10, EnterInv
<1>12. QED
  BY <1>1, <1>3, <1>6, <1>11, SetsAre DEF Enter

LEMMA IntoInv ==
  ASSUME IInv, ~Stays, NEW p, NEW mip \in Handle, Took(minode, mip.minode, mip.at),
         Into(p, mip)
  PROVE  Inv(minode', root', cwd', dev', table', fds')
<1> DEFINE K == {k \in Entry : p.names # <<>> /\ table[k].path = <<Last(p.names)>>}
           d == table[Entered(p)].dev
           r == iget(mip.minode, fds, d, Root)
           c == iget(r.minode, fds, d, Root)
<1>1. Entered(p) # NULL /\ Enter(r, c)
  BY DEF Into
<1>2. /\ Each(minode) /\ Opens(table, fds) /\ fds \in Files /\ Each(mip.minode)
      /\ Counted(minode, root, cwd, table)
  BY DEF IInv, Inv, Opens, Files, Took
<1>3. d \in Fd
  <2>1. K \in SUBSET Nat /\ Entered(p) = Least(K)
    BY SetsAre DEF Entered
  <2>2. Entered(p) \in K
    BY <1>1, <2>1, LeastIs
  <2>3. Entered(p) \in Entry /\ table[Entered(p)].path = <<Last(p.names)>>
    BY <2>2
  <2>4. NoEntry.path = <<>> /\ <<Last(p.names)>> # <<>>
    BY DEF NoEntry
  <2>5. d # 0
    BY <1>2, <2>3, <2>4 DEF Opens
  <2>6. QED
    BY <1>2, <2>3, <2>5 DEF Opens, EntryRec
<1> HIDE DEF K, d
<1>4. /\ r.at \in Slot \cup {NULL} /\ Took(mip.minode, r.minode, r.at)
      /\ r.at # NULL => r.minode[r.at].dev = d /\ r.minode[r.at].ino = Root
  <2>1. Root \in Ino \cup {0}
    BY SetsAre
  <2>2. /\ r \in Handle /\ Took(mip.minode, r.minode, r.at)
        /\ r.at # NULL => r.minode[r.at].dev = d /\ r.minode[r.at].ino = Root
    BY <1>2, <1>3, <2>1, igetTook
  <2> HIDE DEF r
  <2>3. QED
    BY <2>2 DEF Handle
<1>5. Each(r.minode)
  BY <1>4 DEF Took
<1>6. /\ c.at \in Slot \cup {NULL} /\ Took(r.minode, c.minode, c.at)
      /\ c.at # NULL => c.minode[c.at].dev = d /\ c.minode[c.at].ino = Root
  <2>1. Root \in Ino \cup {0}
    BY SetsAre
  <2> HIDE DEF r
  <2>2. /\ c \in Handle /\ Took(r.minode, c.minode, c.at)
        /\ c.at # NULL => c.minode[c.at].dev = d /\ c.minode[c.at].ino = Root
    BY <1>2, <1>3, <1>5, <2>1, igetTook
  <2> HIDE DEF c
  <2>3. QED
    BY <2>2 DEF Handle
<1>7. \A s \in Slot :
        /\ minode[s].refCount \in Nat
        /\ mip.minode[s].refCount = minode[s].refCount + One(s = mip.at)
        /\ minode[s].refCount > 0 => Alike(mip.minode[s], minode[s])
        /\ r.minode[s].refCount = mip.minode[s].refCount + One(s = r.at)
        /\ mip.minode[s].refCount > 0 => Alike(r.minode[s], mip.minode[s])
        /\ c.minode[s].refCount = r.minode[s].refCount + One(s = c.at)
        /\ r.minode[s].refCount > 0 => Alike(c.minode[s], r.minode[s])
  BY <1>2, <1>4, <1>6 DEF Took, Each, SlotRec
<1>8. r.at # NULL => c.at = r.at
  <2>1. SUFFICES ASSUME r.at # NULL PROVE c.at = r.at
    OBVIOUS
  <2>2. /\ r.at \in Slot /\ r.minode[r.at].refCount > 0
        /\ r.minode[r.at].dev = d /\ r.minode[r.at].ino = Root
    BY <1>4, <1>7, <2>1 DEF One
  <2> HIDE DEF r
  <2>3. QED
    BY <1>5, <2>2, igetHeld
<1>9. c.at # NULL => r.at # NULL
  <2>1. SUFFICES ASSUME r.at = NULL PROVE c.at = NULL
    OBVIOUS
  <2>2. \A s \in Slot : One(s = r.at) = 0
    BY <2>1, SetsAre DEF One
  <2>3. r.minode = mip.minode
    BY <2>1 DEF iget
  <2>4. QED
    BY <2>1, <2>3
<1> HIDE DEF r, c
<1>10. CASE c.at = NULL
  BY <1>1, <1>10, RestartInv DEF Enter
<1>11. CASE c.at # NULL
  <2> DEFINE n == c.at
             y == c.minode
  <2>1. n \in Slot /\ r.at = n
    BY <1>6, <1>8, <1>9, <1>11
  <2>2. Each(y) /\ y[n].ino = Root
    BY <1>6, <1>11 DEF Took
  <2>3. ASSUME NEW s \in Slot
        PROVE  /\ y[s].refCount >= minode[s].refCount
               /\ s = n => y[s].refCount >= minode[s].refCount + 2
               /\ minode[s].refCount > 0 => Alike(y[s], minode[s])
    <3>1. y[s].refCount
            = minode[s].refCount + One(s = mip.at) + One(s = n) + One(s = n)
      BY <1>7, <2>1
    <3>2. minode[s].refCount > 0 => mip.minode[s].refCount > 0 /\ r.minode[s].refCount > 0
      BY <1>7 DEF One
    <3>3. minode[s].refCount > 0 => Alike(y[s], minode[s])
      BY <1>7, <3>2 DEF Alike
    <3> HIDE DEF n, y
    <3>4. QED
      BY <1>7, <3>1, <3>3 DEF One
  <2>4. y[n].refCount >= FromTable(table, n) + 2
    <3>1. /\ FromTable(table, n) \in Nat /\ minode[n].refCount \in Nat
          /\ y[n].refCount \in Nat
      BY <1>7, <2>1, <2>2, FromTableIs DEF Each, SlotRec
    <3>2. minode[n].refCount >= FromTable(table, n)
                                + One(root = n \/ FromTable(table, n) > 0) + One(cwd = n)
      BY <1>2, <2>1 DEF Counted
    <3>3. y[n].refCount >= minode[n].refCount + 2
      BY <2>1, <2>3
    <3> HIDE DEF n, y
    <3>4. QED
      BY <3>1, <3>2, <3>3 DEF One
  <2>5. minode' = y /\ root' = n /\ cwd' = n /\ UNCHANGED <<dev, table, fds>>
    BY <1>1, <1>11, <2>1 DEF Enter
  <2> HIDE DEF n, y
  <2>6. Inv(y, n, n, dev, table, fds)
    BY <2>1, <2>2, <2>3, <2>4, EnterInv
  <2>7. QED
    BY <2>5, <2>6
<1>12. QED
  BY <1>10, <1>11

\* The directory that is left is put, the one that is entered kept.
LEMMA WithinInv ==
  ASSUME IInv, ~Stays, NEW p, NEW mip \in Handle, Took(minode, mip.minode, mip.at),
         Within(p, mip)
  PROVE  Inv(minode', root', cwd', dev', table', fds')
<1> DEFINE x == mip.minode
           y == iput(x, cwd)
           n == mip.at
<1>1. n \in Slot /\ minode' = y /\ cwd' = n /\ UNCHANGED <<root, dev, table, fds>>
  BY DEF Within, ToDir, Handle
<1>2. /\ Inv(minode, root, cwd, dev, table, fds) /\ Each(minode) /\ Opens(table, fds)
      /\ Counted(minode, root, cwd, table) /\ Roots(minode, root, cwd, table)
      /\ root \in Slot /\ cwd \in Slot
  BY DEF IInv, Inv, Roots
<1>3. Each(x) /\ Roots(x, root, cwd, table)
  BY <1>2, TookInv
<1>4. \A s \in Slot : /\ minode[s].refCount \in Nat /\ FromTable(table, s) \in Nat
                      /\ x[s].refCount = minode[s].refCount + One(s = n)
  BY <1>2, FromTableIs DEF Took, Each, SlotRec
<1>5. x[cwd].refCount > 0
  <2>1. minode[cwd].refCount > 0
    BY <1>2, InUse
  <2>2. QED
    BY <1>2, <1>4, <2>1 DEF One
<1>6. /\ Each(y)
      /\ \A s \in Slot : y[s].refCount = x[s].refCount - One(s = cwd) /\ Alike(y[s], x[s])
  BY <1>2, <1>3, <1>5, iputIs
<1> HIDE DEF y, n, x
<1>7. Counted(y, root, n, table)
  <2>1. \A s \in Slot : /\ minode[s].refCount \in Nat /\ FromTable(table, s) \in Nat
                        /\ y[s].refCount = minode[s].refCount + One(s = n) - One(s = cwd)
    BY <1>4, <1>6 DEF One
  <2>2. QED
    BY <1>2, <2>1 DEF Counted, One
<1>8. Roots(y, root, n, table)
  <2>1. \A k \in Entry : table[k].dev # 0 => table[k].minodeptr \in Slot
    BY <1>2 DEF Opens
  <2>2. QED
    BY <1>1, <1>2, <1>3, <1>6, <2>1 DEF Roots, Alike
<1>9. Inv(y, root, n, dev, table, fds)
  BY <1>2, <1>6, <1>7, <1>8 DEF Inv
<1>10. QED
  BY <1>1, <1>9

LEMMA CdInv ==
  ASSUME IInv, NEW p \in Path, Cd(p)
  PROVE  Inv(minode', root', cwd', dev', table', fds')
<1> DEFINE g == getino(minode, fds, dev, p)
           mip == iget(g.minode, fds, dev, g.ino)
<1>1. ~Stays
  BY DEF Cd, LooksUp, Ready, Stays
<1>2. Inv(minode, root, cwd, dev, table, fds) /\ fds \in Files /\ dev \in Fd
  BY DEF IInv, Inv, Opens, Files
<1>3. /\ Took(minode, g.minode, NULL)
      /\ mip \in Handle /\ Took(minode, mip.minode, mip.at)
  BY <1>2, Opened
<1>4. \/ Nowhere(g) \/ ToFile(mip) \/ Back(mip) \/ Into(p, mip)
      \/ Within(p, mip) \/ CdPanic(mip)
  BY DEF Cd
<1> HIDE DEF g, mip
<1>5. CASE Nowhere(g)
  <2>1. Inv(g.minode, root, cwd, dev, table, fds)
    BY <1>2, <1>3, BalancedInv
  <2>2. QED
    BY <1>5, <2>1 DEF Nowhere
<1>6. CASE ToFile(mip)
  <2>1. Inv(mip.minode, root, cwd, dev, table, fds)
    BY <1>1, <1>2, <1>3, LeakInv
  <2>2. QED
    BY <1>6, <2>1 DEF ToFile
<1>7. CASE Back(mip)
  BY <1>1, <1>3, <1>7, BackInv
<1>8. CASE Into(p, mip)
  BY <1>1, <1>3, <1>8, IntoInv
<1>9. CASE Within(p, mip)
  BY <1>1, <1>3, <1>9, WithinInv
<1>10. CASE CdPanic(mip)
  BY <1>10, RestartInv DEF CdPanic
<1>11. QED
  BY <1>4, <1>5, <1>6, <1>7, <1>8, <1>9, <1>10

LEMMA CatInv ==
  ASSUME IInv, NEW p \in Path, Cat(p)
  PROVE  Inv(minode', root', cwd', dev', table', fds')
<1> DEFINE d == minode[IF p.abs THEN root ELSE cwd].dev
           g == getino(minode, fds, d, p)
           mip == iget(g.minode, fds, d, g.ino)
           y == iput(mip.minode, mip.at)
<1>1. \/ Restart
      \/ minode' = y /\ dev' = d /\ UNCHANGED <<root, cwd, table, fds>>
  BY DEF Cat
<1>2. /\ Inv(minode, root, cwd, dev, table, fds) /\ fds \in Files /\ Each(minode)
      /\ Counted(minode, root, cwd, table) /\ Roots(minode, root, cwd, table)
      /\ root \in Slot /\ cwd \in Slot
  BY DEF IInv, Inv, Opens, Files, Roots
<1>3. d \in Fd /\ (Stays => d = 3)
  <2>1. minode[root].refCount > 0 /\ minode[cwd].refCount > 0
    BY <1>2, InUse
  <2>2. QED
    BY <1>2, <2>1 DEF Each, Inv, Home
<1> HIDE DEF d
<1>4. mip \in Handle /\ Took(minode, mip.minode, mip.at)
  BY <1>2, <1>3, Opened
<1>5. Took(minode, y, NULL)
  <2>1. mip.at \in Slot \cup {NULL}
    BY <1>4 DEF Handle
  <2> HIDE DEF mip
  <2>2. QED
    BY <1>2, <1>4, <2>1, TookPut
<1> HIDE DEF y
<1>6. Inv(y, root, cwd, dev, table, fds)
  BY <1>2, <1>5, BalancedInv
<1>7. Inv(y, root, cwd, d, table, fds)
  BY <1>3, <1>6 DEF Inv
<1>8. QED
  BY <1>1, <1>7, RestartInv

LEMMA StepInv == IInv /\ [Next]_vars => IInv'
<1> SUFFICES ASSUME IInv, [Next]_vars PROVE IInv'
  OBVIOUS
<1>1. CASE UNCHANGED vars
  BY <1>1 DEF vars, IInv, Inv, Stays, Accepted
<1>2. CASE Next
  <2>1. Inv(minode', root', cwd', dev', table', fds')
    <3>1. CASE \E f \in session.files, p \in session.points : Mount(f, p)
      BY <3>1, MountInv
    <3>2. CASE \E f \in session.files : Umount(f)
      BY <3>2, UmountInv
    <3>3. CASE UmountBare \/ Quit
      BY <3>3, RestartInv DEF UmountBare, Quit
    <3>4. CASE \E p \in Path : Cd(p) \/ Cat(p)
      BY <3>4, CdInv, CatInv
    <3>5. QED
      BY <1>2, <3>1, <3>2, <3>3, <3>4 DEF Next
  <2>2. session' = session
    BY <1>2 DEF Next
  <2>3. QED
    BY <2>1, <2>2 DEF IInv, Inv, Stays, Accepted
<1>3. QED
  BY <1>1, <1>2

-----------------------------------------------------------------------------
(***************************************************************************)
(* Theorems                                                                *)
(***************************************************************************)
\* The inductive invariant: mount table, descriptors and references agree,
\* and what was root and is in the mount table keeps root's reference.
THEOREM Invariance == Spec => []IInv
<1>1. Init => IInv
  BY BootInv DEF Init, IInv, BootFds
<1>2. QED
  BY <1>1, StepInv, PTL DEF Spec

\* Every entry's device is open on the file it names, no file is in two
\* entries, and without a refused mount no descriptor is lost (mymount and
\* myumount of mount_umount.c).
THEOREM TableSound == Spec => []TableOK
<1>1. IInv => TableOK
  <2> SUFFICES ASSUME IInv PROVE TableOK
    OBVIOUS
  <2>1. /\ Each(minode) /\ Opens(table, fds) /\ Roots(minode, root, cwd, table)
        /\ dev \in Fd /\ session \in Sessions /\ (Accepted => NoneLost(table, fds))
    BY DEF IInv, Inv
  <2>2. TypeOK
    BY <2>1 DEF TypeOK, Each, Opens, Roots, SlotRec, EntryRec
  <2>3. EntriesOpen
    BY <2>1 DEF EntriesOpen, Mounted, Opens, NoEntry
  <2>4. Accepted => NoFdLost
    BY <2>1, SetsAre DEF NoFdLost, NoneLost, Mounted
  <2>5. QED
    BY <2>2, <2>3, <2>4 DEF TableOK
<1>2. QED
  BY <1>1, Invariance, PTL

\* No slot that root, cwd or an entry points to is ever recycled, into and out
\* of mounted file systems (change_dir of cd_ls_pwd.c); nothing is counted
\* without a pointer where nothing is entered and no mount refused.
THEOREM PointersAreCounted == Spec => []PointersCounted
<1>1. IInv => PointersCounted
  <2> SUFFICES ASSUME IInv, NEW s \in Slot
               PROVE  /\ minode[s].refCount >= PointersTo(s)
                      /\ Stays /\ Accepted => minode[s].refCount = PointersTo(s)
    BY DEF PointersCounted
  <2>1. /\ Each(minode) /\ Counted(minode, root, cwd, table)
        /\ Stays /\ Accepted => Exact(minode, root, cwd, table)
    BY DEF IInv, Inv
  <2>2. minode[s].refCount \in Nat /\ FromTable(table, s) \in Nat
    BY <2>1, FromTableIs DEF Each, SlotRec
  <2>3. QED
    BY <2>1, <2>2 DEF PointersTo, Counted, Exact, One
<1>2. QED
  BY <1>1, Invariance, PTL

\* Where nothing is entered and no mount refused, paths are looked up on the
\* device of root, and it stays mounted (mymount sets dev back, myumount
\* refuses root's device).
THEOREM DevStaysRoots == Spec => []DevIsRoots
<1>1. IInv => DevIsRoots
  BY SetsAre DEF IInv, Inv, DevIsRoots, Home, Mounted
<1>2. QED
  BY <1>1, Invariance, PTL
=============================================================================
