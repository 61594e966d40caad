--------------------------- MODULE FileDataProofs ---------------------------
(***************************************************************************)
(* Proofs about FileData for every number of direct blocks and of pointers *)
(* in a block, every set of blocks and of inodes, and every file system    *)
(* there may be at the start.                                              *)
(***************************************************************************)
EXTENDS FileData, SequenceTheorems, WellFoundedInduction, TLAPS

-----------------------------------------------------------------------------
(***************************************************************************)
(* Numbers                                                                 *)
(***************************************************************************)
\* A set of natural numbers that is not empty has a least element.
LEMMA Least ==
  ASSUME NEW S \in SUBSET Nat, S # {}
  PROVE  \E n \in S : \A m \in S : n <= m
<1> DEFINE R == {p \in Nat \X Nat : p[1] < p[2]}
<1>1. R = OpToRel(<, Nat)
  BY DEF OpToRel
<1>2. IsWellFoundedOn(R, Nat)
  BY <1>1, NatLessThanWellFounded
<1> HIDE DEF R
<1>3. PICK n \in S : \A m \in S : ~(<<m, n>> \in R)
  BY <1>2, WFMin
<1>4. ASSUME NEW m \in S PROVE n <= m
  <2>1. n \in Nat /\ m \in Nat
    OBVIOUS
  <2>2. ~(m < n)
    BY <1>3, <2>1 DEF R
  <2>3. QED
    BY <2>1, <2>2
<1>5. QED
  BY <1>4

\* The block balloc takes is one of the free ones.
LEMMA FirstIsFree ==
  ASSUME NEW w, Free(w) # {}
  PROVE  First(Free(w)) \in Free(w)
<1>1. Free(w) \in SUBSET Nat
  BY FileDataAssumption DEF Free
<1>2. QED
  BY <1>1, Least DEF First

Splits(a, q, m, r) == a = q * m + r

LEMMA Splitting ==
  ASSUME NEW m \in Nat, m > 0, NEW a \in Int
  PROVE  /\ a \div m \in Int /\ (a % m) \in 0..(m - 1)
         /\ Splits(a, a \div m, m, a % m)
<1>1. (a % m) \in 0..(m - 1)
  OBVIOUS
<1>2. a = ((a \div m) * m) + (a % m)
  OBVIOUS
<1>3. a \div m \in Int
  OBVIOUS
<1>4. QED
  BY <1>1, <1>2, <1>3 DEF Splits

\* A quotient is below n if what is divided is below n times the divisor.
LEMMA Quotient ==
  ASSUME NEW m \in Nat, m > 0, NEW n \in Nat, NEW a \in Nat, a < n * m
  PROVE  a \div m \in 0..(n - 1)
<1> DEFINE q == a \div m
           r == a % m
<1>1. q \in Int /\ r \in 0..(m - 1) /\ Splits(a, q, m, r)
  <2>1. a \in Int
    OBVIOUS
  <2>2. QED
    BY <2>1, Splitting
<1> HIDE DEF q, r
<1>2. a = q * m + r
  BY <1>1 DEF Splits
<1>3. CASE q >= n
  <2>1. q * m >= n * m
    BY <1>1, <1>3
  <2>2. q * m \in Int /\ n * m \in Int /\ r \in Nat
    BY <1>1
  <2>3. QED
    BY <1>2, <2>1, <2>2
<1>4. CASE q <= -1
  <2>1. (0 - 1 - q) * m >= 0
    BY <1>1, <1>4
  <2>2. (0 - 1 - q) * m = 0 - m - q * m
    BY <1>1
  <2>3. q * m \in Int /\ r \in 0..(m - 1)
    BY <1>1
  <2>4. QED
    BY <1>2, <2>1, <2>2, <2>3
<1>5. QED
  BY <1>1, <1>3, <1>4 DEF q

\* The places mywrite counts behind the blocks of i_block[12] are in a block.
LEMMA PlaceInBlock ==
  ASSUME NEW lbk \in Nat, lbk >= NDIR + PTRS, lbk < Single + PTRS * PTRS
  PROVE  /\ (lbk - (NDIR - BLKSIZE)) \div BLKSIZE \in Cell
         /\ (lbk - (NDIR - BLKSIZE)) % PTRS \in Cell
<1> DEFINE k == lbk - (NDIR - BLKSIZE)
           sq == PTRS * PTRS
<1>1. NDIR \in Nat /\ PTRS \in Nat /\ PTRS >= 2
  BY FileDataAssumption
<1>2. BLKSIZE = 4 * PTRS /\ BLKSIZE \in Nat /\ BLKSIZE > 0 /\ k \in Nat
  BY <1>1 DEF BLKSIZE
<1>3. sq \in Nat /\ PTRS * BLKSIZE = 4 * sq /\ sq >= 2 * PTRS
  <2>1. sq \in Nat /\ (PTRS - 2) * PTRS >= 0
    BY <1>1
  <2>2. (PTRS - 2) * PTRS = sq - 2 * PTRS
    BY <1>1
  <2>3. PTRS * BLKSIZE = 4 * sq
    BY <1>1 DEF BLKSIZE
  <2>4. QED
    BY <2>1, <2>2, <2>3, <1>1
<1>4. k < PTRS + sq + BLKSIZE
  BY <1>1, <1>2 DEF Single
<1> HIDE DEF k, sq
<1>5. k < PTRS * BLKSIZE
  BY <1>1, <1>2, <1>3, <1>4
<1>6. k \div BLKSIZE \in 0..(PTRS - 1)
  BY <1>1, <1>2, <1>5, Quotient
<1>7. k % PTRS \in 0..(PTRS - 1)
  BY <1>1, <1>2, Splitting
<1>8. QED
  BY <1>6, <1>7 DEF Cell, k

-----------------------------------------------------------------------------
(***************************************************************************)
(* mywrite leaves the blocks of other files alone                          *)
(***************************************************************************)
Disks == [Block -> [Cell -> Nat]]
Walk  == [disk : Disks, bmap : SUBSET (Block \ {0}), ip : INODE, got : Nat,
          full : BOOLEAN]

\* Numbers a pointer may hold: none of O, and of no free block.
Away(O, m, x) == x \notin O /\ (x \in Block => x \in m \cup {0})

\* Since the disk was d and the bitmap m no block of O has changed, and no
\* number of one has got out of O.
Kept(O, d, m, w) ==
  /\ w \in Walk /\ m \subseteq w.bmap
  /\ \A b \in O : w.disk[b] = d[b]
  /\ \A b \in Block, c \in Cell :
       IF b \in O THEN w.disk[b][c] \in Block => w.disk[b][c] \in w.bmap \cup {0}
       ELSE Away(O, w.bmap, w.disk[b][c])
  /\ \A k \in 0..DIND : Away(O, w.bmap, w.ip.i_block[k])
                        /\ w.ip.i_block[k] \in w.bmap \cup {0}
  /\ Away(O, w.bmap, w.got)
  /\ w.full => Free(w) = {}

\* Contents that may be written: a block of cells that lead nowhere near O.
Harmless(O, m, x) == x \in [Cell -> Nat] /\ \A c \in Cell : Away(O, m, x[c])

LEMMA PlacesDef ==
  /\ 0 \in Cell /\ Cell \subseteq Nat /\ Zero \in [Cell -> Nat]
  /\ IND \in 0..DIND /\ DIND \in 0..DIND /\ IND # DIND
  /\ \A n \in Nat : n < NDIR => n \in 0..DIND
  /\ NDIR \in Nat /\ PTRS \in Nat
BY FileDataAssumption DEF Cell, Zero, IND, DIND

\* Reading beyond the last block yields zeros, which lead nowhere.
LEMMA AtKept ==
  ASSUME NEW O, NEW d, NEW m, NEW w, Kept(O, d, m, w), O \subseteq Block \ {0},
         NEW b, b \notin O
  PROVE  Harmless(O, w.bmap, At(w.disk, b))
<1>1. CASE b \in Block
  BY <1>1, PlacesDef DEF Kept, Harmless, At, Walk, Disks
<1>2. CASE b \notin Block
  <2>1. At(w.disk, b) = Zero
    BY <1>2 DEF At
  <2>2. \A c \in Cell : Zero[c] = 0
    BY DEF Zero
  <2>3. Away(O, w.bmap, 0)
    BY DEF Away
  <2>4. QED
    BY <2>1, <2>2, <2>3, PlacesDef DEF Harmless
<1>3. QED
  BY <1>1, <1>2

\* What balloc does to a walk.
LEMMA ballocTakes ==
  ASSUME NEW w \in Walk
  PROVE  /\ Free(w) = {} => balloc(w) = [w EXCEPT !.got = 0, !.full = TRUE]
         /\ Free(w) # {} =>
              \E x \in Free(w) :
                balloc(w) = [w EXCEPT !.got = x, !.bmap = @ \cup {x}]
BY FirstIsFree DEF balloc

LEMMA PutIsDisk ==
  ASSUME NEW d \in Disks, NEW b, NEW x \in [Cell -> Nat]
  PROVE  /\ Put(d, b, x) \in Disks
         /\ \A c \in Block : Put(d, b, x)[c] = IF c = b THEN x ELSE d[c]
BY DEF Put, Disks

LEMMA AtIsBlock ==
  ASSUME NEW d \in Disks, NEW b
  PROVE  At(d, b) \in [Cell -> Nat]
BY PlacesDef DEF At, Disks

\* A walk that has written one block that is not in O.
LEMMA PutKept ==
  ASSUME NEW O, NEW d, NEW m, NEW w, Kept(O, d, m, w), O \subseteq Block \ {0},
         NEW b, b \notin O, NEW x, Harmless(O, w.bmap, x), NEW v \in Walk,
         v.disk = Put(w.disk, b, x), v.bmap = w.bmap, v.full = w.full,
         \A k \in 0..DIND : v.ip.i_block[k] \in w.bmap \cup {0}
                            /\ Away(O, w.bmap, v.ip.i_block[k]),
         Away(O, w.bmap, v.got)
  PROVE  Kept(O, d, m, v)
<1>1. w \in Walk /\ w.disk \in Disks /\ x \in [Cell -> Nat]
  BY DEF Kept, Walk, Harmless
<1>2. \A c \in Block : v.disk[c] = IF c = b THEN x ELSE w.disk[c]
  BY <1>1, PutIsDisk
<1>3. \A c \in O : v.disk[c] = d[c]
  BY <1>2 DEF Kept
<1>4. \A c \in Block, e \in Cell :
        IF c \in O THEN v.disk[c][e] \in Block => v.disk[c][e] \in v.bmap \cup {0}
        ELSE Away(O, v.bmap, v.disk[c][e])
  <2> TAKE c \in Block, e \in Cell
  <2>1. CASE c = b
    BY <1>2, <2>1 DEF Harmless
  <2>2. CASE c # b
    BY <1>2, <2>2 DEF Kept
  <2>3. QED
    BY <2>1, <2>2
<1>5. v.full => Free(v) = {}
  BY DEF Kept, Free
<1>6. QED
  BY <1>3, <1>4, <1>5 DEF Kept

\* A walk that ends with block x, and an inode whose pointer k is x.
Got(w, x)          == [w EXCEPT !.got = x]
Pointing(ip, k, x) == [ip EXCEPT !.i_block[k] = x]

\* What a walk is after one of its fields is set.
LEMMA GotIs ==
  ASSUME NEW w \in Walk, NEW x \in Nat
  PROVE  /\ Got(w, x) \in Walk /\ Got(w, x).disk = w.disk
         /\ Got(w, x).bmap = w.bmap /\ Got(w, x).ip = w.ip
         /\ Got(w, x).got = x /\ Got(w, x).full = w.full
BY DEF Walk, Got

LEMMA DiskSet ==
  ASSUME NEW w \in Walk, NEW x \in Disks
  PROVE  LET v == [w EXCEPT !.disk = x] IN
         /\ v \in Walk /\ v.disk = x /\ v.bmap = w.bmap /\ v.ip = w.ip
         /\ v.got = w.got /\ v.full = w.full
BY DEF Walk

LEMMA InodeSet ==
  ASSUME NEW w \in Walk, NEW x \in INODE
  PROVE  LET v == [w EXCEPT !.ip = x] IN
         /\ v \in Walk /\ v.disk = w.disk /\ v.bmap = w.bmap /\ v.ip = x
         /\ v.got = w.got /\ v.full = w.full
BY DEF Walk

LEMMA PointerSet ==
  ASSUME NEW ip \in INODE, NEW k \in 0..DIND, NEW x \in Nat
  PROVE  /\ Pointing(ip, k, x) \in INODE
         /\ Pointing(ip, k, x).used = ip.used /\ Pointing(ip, k, x).size = ip.size
         /\ \A j \in 0..DIND :
              Pointing(ip, k, x).i_block[j] = IF j = k THEN x ELSE ip.i_block[j]
BY DEF INODE, Pointing

LEMMA PointerIs ==
  ASSUME NEW ip \in INODE, NEW k \in 0..DIND, NEW x \in Nat, NEW j \in 0..DIND
  PROVE  Pointing(ip, k, x).i_block[j] = IF j = k THEN x ELSE ip.i_block[j]
BY DEF INODE, Pointing

\* A pointer of the inode that is set from what balloc returns, and a block
\* that is written.
LEMMA SetPointer ==
  ASSUME NEW w \in Walk, NEW k \in 0..DIND, NEW x \in Nat
  PROVE  [w EXCEPT !.ip.i_block[k] = x]
           = [w EXCEPT !.ip = Pointing(w.ip, k, x)]
BY DEF Walk, Pointing

\* balloc, field by field.
LEMMA ballocIs ==
  ASSUME NEW w \in Walk
  PROVE  /\ balloc(w) \in Walk
         /\ balloc(w).disk = w.disk /\ balloc(w).ip = w.ip
         /\ Free(w) = {} => /\ balloc(w).got = 0 /\ balloc(w).full
                            /\ balloc(w).bmap = w.bmap
         /\ Free(w) # {} => /\ balloc(w).got \in Free(w)
                            /\ balloc(w).full = w.full
                            /\ balloc(w).bmap = w.bmap \cup {balloc(w).got}
<1>1. CASE Free(w) = {}
  <2>1. balloc(w) = [w EXCEPT !.got = 0, !.full = TRUE]
    BY <1>1, ballocTakes
  <2> DEFINE a == [w EXCEPT !.got = 0, !.full = TRUE]
  <2>2. /\ a \in Walk /\ a.disk = w.disk /\ a.ip = w.ip
        /\ a.got = 0 /\ a.bmap = w.bmap /\ a.full = TRUE
    BY DEF Walk
  <2> HIDE DEF a
  <2>3. balloc(w) = a
    BY <2>1 DEF a
  <2>4. QED
    BY <1>1, <2>2, <2>3
<1>2. CASE Free(w) # {}
  <2>1. PICK x \in Free(w) :
          balloc(w) = [w EXCEPT !.got = x, !.bmap = @ \cup {x}]
    BY <1>2, ballocTakes
  <2> DEFINE mm == w.bmap \cup {x}
  <2>2. x \in Nat /\ mm \in SUBSET (Block \ {0})
    BY <2>1, FileDataAssumption DEF Free, Walk
  <2>3. balloc(w) = [w EXCEPT !.got = x, !.bmap = mm]
    BY <2>1
  <2> HIDE DEF mm
  <2>4. /\ balloc(w) \in Walk /\ balloc(w).disk = w.disk /\ balloc(w).ip = w.ip
        /\ balloc(w).got = x /\ balloc(w).bmap = mm /\ balloc(w).full = w.full
    BY <2>2, <2>3 DEF Walk
  <2>5. QED
    BY <1>2, <2>1, <2>4 DEF mm
<1>3. QED
  BY <1>1, <1>2

LEMMA ballocKeeps ==
  ASSUME NEW O, NEW d, NEW m, NEW w, Kept(O, d, m, w), O \subseteq m
  PROVE  /\ Kept(O, d, m, balloc(w))
         /\ balloc(w).got \in balloc(w).bmap \cup {0}
<1> DEFINE a == balloc(w)
<1>1. w \in Walk /\ O \subseteq w.bmap /\ w.bmap \subseteq Block \ {0}
  BY DEF Kept, Walk
<1>2. a \in Walk /\ a.disk = w.disk /\ a.ip = w.ip /\ w.bmap \subseteq a.bmap
  BY <1>1, ballocIs
<1>3. a.got \notin O /\ a.got \in a.bmap \cup {0}
  BY <1>1, ballocIs DEF Free
<1>4. a.full => Free(a) = {}
  BY <1>1, ballocIs DEF Kept, Free
<1> HIDE DEF a
<1>5. Kept(O, d, m, a)
  BY <1>2, <1>3, <1>4 DEF Kept, Away
<1>6. QED
  BY <1>3, <1>5 DEF a

\* PointerBlock, field by field.
LEMMA PointerBlockIs ==
  ASSUME NEW w \in Walk, NEW k \in 0..DIND
  PROVE  /\ w.ip.i_block[k] # 0 =>
              PointerBlock(w, k) = Got(w, w.ip.i_block[k])
         /\ w.ip.i_block[k] = 0 =>
              /\ PointerBlock(w, k) \in Walk
              /\ PointerBlock(w, k).disk = Put(w.disk, balloc(w).got, Zero)
              /\ PointerBlock(w, k).bmap = balloc(w).bmap
              /\ PointerBlock(w, k).ip = Pointing(w.ip, k, balloc(w).got)
              /\ PointerBlock(w, k).got = balloc(w).got
              /\ PointerBlock(w, k).full = balloc(w).full
<1>1. CASE w.ip.i_block[k] # 0
  BY <1>1 DEF PointerBlock, Got
<1>2. CASE w.ip.i_block[k] = 0
  <2> DEFINE a == balloc(w)
             x == Put(a.disk, a.got, Zero)
             ip == Pointing(a.ip, k, a.got)
  <2>1. PointerBlock(w, k)
          = [a EXCEPT !.ip.i_block[k] = a.got, !.disk = Put(@, a.got, Zero)]
    BY <1>2 DEF PointerBlock
  <2>2. a \in Walk /\ a.disk = w.disk /\ a.ip = w.ip
    BY ballocIs
  <2> HIDE DEF a
  <2>3. x \in Disks
    <3>1. a.disk \in Disks
      BY <2>2 DEF Walk
    <3>2. QED
      BY <3>1, PutIsDisk, PlacesDef
  <2>4. ip \in INODE
    <3>1. a.ip \in INODE /\ a.got \in Nat
      BY <2>2 DEF Walk
    <3>2. QED
      BY <3>1, PointerSet
  <2>5. PointerBlock(w, k) = [a EXCEPT !.ip = ip, !.disk = x]
    BY <2>1, <2>2 DEF Walk, Pointing
  <2> HIDE DEF x, ip
  <2>6. LET v == [a EXCEPT !.ip = ip, !.disk = x] IN
        /\ v \in Walk /\ v.disk = x /\ v.bmap = a.bmap /\ v.ip = ip
        /\ v.got = a.got /\ v.full = a.full
    BY <2>2, <2>3, <2>4 DEF Walk
  <2>7. QED
    BY <1>2, <2>2, <2>5, <2>6 DEF x, ip, a
<1>3. QED
  BY <1>1, <1>2

\* Pointed, field by field.
LEMMA PointedIs ==
  ASSUME NEW w \in Walk, NEW b, NEW c \in Cell
  PROVE  /\ At(w.disk, b)[c] # 0 =>
              Pointed(w, b, c) = Got(w, At(w.disk, b)[c])
         /\ At(w.disk, b)[c] = 0 =>
              /\ Pointed(w, b, c) \in Walk
              /\ Pointed(w, b, c).disk
                   = Put(w.disk, b, [At(w.disk, b) EXCEPT ![c] = balloc(w).got])
              /\ Pointed(w, b, c).bmap = balloc(w).bmap
              /\ Pointed(w, b, c).ip = w.ip
              /\ Pointed(w, b, c).got = balloc(w).got
              /\ Pointed(w, b, c).full = balloc(w).full
<1>1. CASE At(w.disk, b)[c] # 0
  BY <1>1 DEF Pointed, Got
<1>2. CASE At(w.disk, b)[c] = 0
  <2> DEFINE a == balloc(w)
             y == [At(a.disk, b) EXCEPT ![c] = a.got]
             x == Put(a.disk, b, y)
  <2>1. Pointed(w, b, c) = [a EXCEPT !.disk = Put(@, b, y)]
    BY <1>2 DEF Pointed
  <2>2. a \in Walk /\ a.disk = w.disk /\ a.ip = w.ip
    BY ballocIs
  <2> HIDE DEF a
  <2>3. a.disk \in Disks /\ a.got \in Nat
    BY <2>2 DEF Walk
  <2>4. y \in [Cell -> Nat]
    BY <2>3, AtIsBlock
  <2> HIDE DEF y
  <2>5. x \in Disks
    BY <2>3, <2>4, PutIsDisk
  <2>6. Pointed(w, b, c) = [a EXCEPT !.disk = x]
    BY <2>1, <2>2 DEF Walk
  <2> HIDE DEF x
  <2>7. LET v == [a EXCEPT !.disk = x] IN
        /\ v \in Walk /\ v.disk = x /\ v.bmap = a.bmap /\ v.ip = a.ip
        /\ v.got = a.got /\ v.full = a.full
    BY <2>2, <2>5, DiskSet
  <2>8. QED
    BY <1>2, <2>2, <2>6, <2>7 DEF x, y, a
<1>3. QED
  BY <1>1, <1>2

LEMMA GotKept ==
  ASSUME NEW O, NEW d, NEW m, NEW w, Kept(O, d, m, w),
         NEW x \in Nat, Away(O, w.bmap, x)
  PROVE  Kept(O, d, m, Got(w, x))
<1> DEFINE v == Got(w, x)
<1>1. w \in Walk
  BY DEF Kept
<1>2. /\ v \in Walk /\ v.disk = w.disk /\ v.bmap = w.bmap /\ v.ip = w.ip
      /\ v.got = x /\ v.full = w.full
  BY <1>1, GotIs
<1> HIDE DEF v
<1>3. Kept(O, d, m, v)
  BY <1>2 DEF Kept, Free
<1>4. QED
  BY <1>3 DEF v

LEMMA PointerBlockKeeps ==
  ASSUME NEW O, NEW d, NEW m, NEW w, Kept(O, d, m, w), O \subseteq m,
         NEW k \in 0..DIND
  PROVE  Kept(O, d, m, PointerBlock(w, k))
<1>1. w \in Walk /\ O \subseteq w.bmap /\ O \subseteq Block \ {0}
  BY DEF Kept, Walk
<1>2. CASE w.ip.i_block[k] # 0
  <2>1. w.ip.i_block[k] \in Nat /\ Away(O, w.bmap, w.ip.i_block[k])
    BY <1>1 DEF Kept, Walk, INODE
  <2>2. QED
    BY <1>1, <1>2, <2>1, GotKept, PointerBlockIs
<1>3. CASE w.ip.i_block[k] = 0
  <2> DEFINE a == balloc(w)
             v == PointerBlock(w, k)
  <2>1. Kept(O, d, m, a) /\ a.got \in a.bmap \cup {0} /\ a \in Walk
        /\ a.disk = w.disk /\ a.ip = w.ip
    BY <1>1, ballocKeeps, ballocIs
  <2>2. /\ v \in Walk /\ v.disk = Put(a.disk, a.got, Zero) /\ v.bmap = a.bmap
        /\ v.ip = Pointing(a.ip, k, a.got) /\ v.got = a.got
        /\ v.full = a.full
    BY <1>1, <1>3, <2>1, PointerBlockIs
  <2> HIDE DEF a, v
  <2>3. a.got \in Nat /\ a.ip \in INODE
    BY <2>1 DEF Walk
  <2>4. Away(O, a.bmap, a.got) /\ a.got \notin O
    BY <2>1 DEF Kept, Away
  <2>5. \A j \in 0..DIND : v.ip.i_block[j] = IF j = k THEN a.got ELSE a.ip.i_block[j]
    <3>1. v.ip = Pointing(a.ip, k, a.got)
      BY <2>2
    <3>2. \A j \in 0..DIND : Pointing(a.ip, k, a.got).i_block[j]
                              = IF j = k THEN a.got ELSE a.ip.i_block[j]
      BY <2>3, PointerSet
    <3>3. QED
      BY <3>1, <3>2
  <2>6. \A j \in 0..DIND : v.ip.i_block[j] \in a.bmap \cup {0}
                           /\ Away(O, a.bmap, v.ip.i_block[j])
    BY <2>1, <2>4, <2>5 DEF Kept
  <2>7. Harmless(O, a.bmap, Zero)
    <3>1. \A c \in Cell : Zero[c] = 0
      BY DEF Zero
    <3>2. QED
      BY <1>1, <3>1, PlacesDef DEF Harmless, Away
  <2>8. Kept(O, d, m, v)
    BY <1>1, <2>1, <2>2, <2>4, <2>6, <2>7, PutKept
  <2>9. QED
    BY <2>8 DEF v
<1>4. QED
  BY <1>2, <1>3

LEMMA PointedKeeps ==
  ASSUME NEW O, NEW d, NEW m, NEW w, Kept(O, d, m, w), O \subseteq m,
         NEW b, b \notin O, NEW c \in Cell
  PROVE  Kept(O, d, m, Pointed(w, b, c))
<1>1. w \in Walk /\ w.disk \in Disks /\ O \subseteq w.bmap /\ O \subseteq Block \ {0}
  BY DEF Kept, Walk
<1>2. Harmless(O, w.bmap, At(w.disk, b))
  BY <1>1, AtKept
<1>3. CASE At(w.disk, b)[c] # 0
  <2>1. At(w.disk, b)[c] \in Nat /\ Away(O, w.bmap, At(w.disk, b)[c])
    BY <1>2 DEF Harmless
  <2>2. Pointed(w, b, c) = Got(w, At(w.disk, b)[c])
    BY <1>1, <1>3, PointedIs
  <2>3. QED
    BY <2>1, <2>2, GotKept
<1>4. CASE At(w.disk, b)[c] = 0
  <2> DEFINE a == balloc(w)
             v == Pointed(w, b, c)
             x == At(w.disk, b)
             y == [x EXCEPT ![c] = a.got]
  <2>1. Kept(O, d, m, a) /\ a.got \in a.bmap \cup {0} /\ a \in Walk
        /\ a.disk = w.disk /\ a.ip = w.ip
    BY <1>1, ballocKeeps, ballocIs
  <2>2. /\ v \in Walk /\ v.disk = Put(a.disk, b, y) /\ v.bmap = a.bmap
        /\ v.ip = a.ip /\ v.got = a.got /\ v.full = a.full
    BY <1>1, <1>4, <2>1, PointedIs
  <2>3. Harmless(O, a.bmap, x)
    BY <1>1, <2>1, AtKept
  <2> HIDE DEF a, v, x
  <2>4. Away(O, a.bmap, a.got) /\ a.got \in Nat
    BY <2>1 DEF Kept, Walk
  <2>5. Harmless(O, a.bmap, y)
    BY <2>3, <2>4 DEF Harmless
  <2>6. \A j \in 0..DIND : v.ip.i_block[j] \in a.bmap \cup {0}
                           /\ Away(O, a.bmap, v.ip.i_block[j])
    BY <2>1, <2>2 DEF Kept
  <2> HIDE DEF y
  <2>7. Kept(O, d, m, v)
    BY <1>1, <2>1, <2>2, <2>4, <2>5, <2>6, PutKept
  <2>8. QED
    BY <2>7 DEF v
<1>5. QED
  BY <1>3, <1>4

\* BlockWrite keeps the blocks of other files, wherever the block is to be.
LEMMA BlockWriteKeeps ==
  ASSUME NEW O, NEW d, NEW m, NEW w, Kept(O, d, m, w), O \subseteq m,
         NEW lbk \in Nat, lbk < Single + PTRS * PTRS
  PROVE  Kept(O, d, m, BlockWrite(w, lbk))
<1>1. w \in Walk /\ w.disk \in Disks /\ O \subseteq w.bmap /\ O \subseteq Block \ {0}
  BY DEF Kept, Walk
<1>2. CASE lbk < NDIR
  <2>1. lbk \in 0..DIND
    BY <1>2, PlacesDef
  <2>2. CASE w.ip.i_block[lbk] # 0
    <3>1. w.ip.i_block[lbk] \in Nat /\ Away(O, w.bmap, w.ip.i_block[lbk])
      BY <1>1, <2>1 DEF Kept, Walk, INODE
    <3>2. BlockWrite(w, lbk) = Got(w, w.ip.i_block[lbk])
      BY <1>2, <2>2 DEF BlockWrite, Got
    <3>3. QED
      BY <3>1, <3>2, GotKept
  <2>3. CASE w.ip.i_block[lbk] = 0
    <3> DEFINE a == balloc(w)
               ip == Pointing(a.ip, lbk, a.got)
               v == [a EXCEPT !.ip = ip]
    <3>1. Kept(O, d, m, a) /\ a.got \in a.bmap \cup {0} /\ a \in Walk
      BY <1>1, ballocKeeps, ballocIs
    <3>2. BlockWrite(w, lbk) = v
      <4>1. BlockWrite(w, lbk) = [a EXCEPT !.ip.i_block[lbk] = a.got]
        BY <1>2, <2>3 DEF BlockWrite
      <4> HIDE DEF a
      <4>2. a.got \in Nat
        BY <3>1 DEF Walk
      <4>3. QED
        BY <2>1, <3>1, <4>1, <4>2, SetPointer
    <3> HIDE DEF a
    <3>3. a.got \in Nat /\ a.ip \in INODE /\ a.disk \in Disks
      BY <3>1 DEF Walk
    <3>4. /\ ip \in INODE
          /\ \A j \in 0..DIND :
               ip.i_block[j] = IF j = lbk THEN a.got ELSE a.ip.i_block[j]
      BY <2>1, <3>3, PointerSet
    <3> HIDE DEF ip
    <3>5. /\ v \in Walk /\ v.disk = a.disk /\ v.bmap = a.bmap /\ v.ip = ip
          /\ v.got = a.got /\ v.full = a.full
      BY <3>1, <3>4, InodeSet
    <3> HIDE DEF v
    <3>6. Away(O, a.bmap, a.got)
      BY <3>1 DEF Kept
    <3>7. Kept(O, d, m, v)
      BY <3>1, <3>4, <3>5, <3>6 DEF Kept, Free
    <3>8. QED
      BY <3>2, <3>7
  <2>4. QED
    BY <2>2, <2>3
<1>3. CASE lbk >= NDIR /\ lbk < NDIR + PTRS
  <2> DEFINE p == PointerBlock(w, IND)
  <2>1. BlockWrite(w, lbk) = Pointed(p, p.got, lbk - NDIR)
    BY <1>3, PlacesDef DEF BlockWrite
  <2>2. Kept(O, d, m, p) /\ lbk - NDIR \in Cell
    BY <1>3, PlacesDef, PointerBlockKeeps DEF Cell
  <2> HIDE DEF p
  <2>3. p.got \notin O
    BY <2>2 DEF Kept, Away
  <2>4. QED
    BY <2>1, <2>2, <2>3, PointedKeeps
<1>4. CASE lbk >= NDIR + PTRS
  <2> DEFINE p == PointerBlock(w, DIND)
             k == lbk - (NDIR - BLKSIZE)
             b == At(p.disk, p.got)[k \div BLKSIZE]
  <2>1. BlockWrite(w, lbk) = Pointed(p, b, k % PTRS)
    BY <1>4, PlacesDef DEF BlockWrite
  <2>2. Kept(O, d, m, p) /\ k \div BLKSIZE \in Cell /\ k % PTRS \in Cell
    BY <1>4, PlacesDef, PlaceInBlock, PointerBlockKeeps
  <2> HIDE DEF p, k
  <2>3. p.got \notin O
    BY <2>2 DEF Kept, Away
  <2>4. b \notin O
    BY <1>1, <2>2, <2>3, AtKept DEF Harmless, Away
  <2> HIDE DEF b
  <2>5. QED
    BY <2>1, <2>2, <2>4, PointedKeeps
<1>5. QED
  BY <1>2, <1>3, <1>4, PlacesDef

LEMMA SizeSet ==
  ASSUME NEW w \in Walk, NEW n \in Nat
  PROVE  LET v == [w EXCEPT !.ip.size = n] IN
         /\ v \in Walk /\ v.disk = w.disk /\ v.bmap = w.bmap /\ v.got = w.got
         /\ v.full = w.full /\ v.ip \in INODE /\ v.ip.used = w.ip.used
         /\ v.ip.size = n /\ v.ip.i_block = w.ip.i_block
BY DEF Walk, INODE

\* mywrite, field by field.
LEMMA mywriteIs ==
  ASSUME NEW w \in Walk, NEW lbk \in Nat, NEW x \in [Cell -> Nat],
         BlockWrite(w, lbk) \in Walk
  PROVE  LET b == BlockWrite(w, lbk)
             v == mywrite(w, lbk, x) IN
         /\ v \in Walk /\ v.disk = Put(b.disk, b.got, x) /\ v.bmap = b.bmap
         /\ v.got = b.got /\ v.full = b.full /\ v.ip \in INODE
         /\ v.ip.i_block = b.ip.i_block /\ v.ip.used = b.ip.used
         /\ v.ip.size = IF lbk + 1 > b.ip.size THEN lbk + 1 ELSE b.ip.size
<1> DEFINE b == BlockWrite(w, lbk)
           d == Put(b.disk, b.got, x)
           n == IF lbk + 1 > b.ip.size THEN lbk + 1 ELSE b.ip.size
           u == [b EXCEPT !.disk = d]
           v == [u EXCEPT !.ip.size = n]
<1>1. b \in Walk
  OBVIOUS
<1>2. mywrite(w, lbk, x) = v
  <2>1. mywrite(w, lbk, x) = [b EXCEPT !.disk = d, !.ip.size = n]
    BY <1>1 DEF mywrite, Walk, INODE
  <2>2. QED
    BY <1>1, <2>1 DEF Walk, INODE
<1> HIDE DEF b
<1>3. b.disk \in Disks /\ b.ip \in INODE
  BY <1>1 DEF Walk
<1>4. d \in Disks /\ n \in Nat
  BY <1>3, PutIsDisk DEF INODE
<1> HIDE DEF d, n
<1>5. /\ u \in Walk /\ u.disk = d /\ u.bmap = b.bmap /\ u.ip = b.ip
      /\ u.got = b.got /\ u.full = b.full
  BY <1>1, <1>4, DiskSet
<1> HIDE DEF u
<1>6. /\ v \in Walk /\ v.disk = u.disk /\ v.bmap = u.bmap /\ v.got = u.got
      /\ v.full = u.full /\ v.ip \in INODE /\ v.ip.used = u.ip.used
      /\ v.ip.size = n /\ v.ip.i_block = u.ip.i_block
  BY <1>4, <1>5, SizeSet
<1> HIDE DEF v
<1>7. QED
  BY <1>2, <1>5, <1>6 DEF b, d, n

\* mywrite keeps the blocks of other files.
LEMMA mywriteKeeps ==
  ASSUME NEW O, NEW d, NEW m, NEW w, Kept(O, d, m, w), O \subseteq m,
         NEW lbk \in Nat, lbk < Single + PTRS * PTRS,
         NEW x, Harmless(O, m, x)
  PROVE  Kept(O, d, m, mywrite(w, lbk, x))
<1> DEFINE b == BlockWrite(w, lbk)
           v == mywrite(w, lbk, x)
<1>1. w \in Walk /\ O \subseteq Block \ {0} /\ x \in [Cell -> Nat]
  BY DEF Kept, Walk, Harmless
<1>2. Kept(O, d, m, b) /\ b \in Walk
  <2>1. Kept(O, d, m, b)
    BY BlockWriteKeeps
  <2>2. QED
    BY <2>1 DEF Kept
<1>3. /\ v \in Walk /\ v.disk = Put(b.disk, b.got, x) /\ v.bmap = b.bmap
      /\ v.got = b.got /\ v.full = b.full
      /\ v.ip.i_block = b.ip.i_block
  BY <1>1, <1>2, mywriteIs
<1> HIDE DEF b, v
<1>4. b.got \notin O /\ Away(O, b.bmap, b.got)
  BY <1>2 DEF Kept, Away
<1>5. Harmless(O, b.bmap, x)
  BY <1>2 DEF Kept, Harmless, Away
<1>6. \A j \in 0..DIND : v.ip.i_block[j] \in b.bmap \cup {0}
                         /\ Away(O, b.bmap, v.ip.i_block[j])
  BY <1>2, <1>3 DEF Kept
<1>7. Kept(O, d, m, v)
  BY <1>1, <1>2, <1>3, <1>4, <1>5, <1>6, PutKept
<1>8. QED
  BY <1>7 DEF v

-----------------------------------------------------------------------------
(***************************************************************************)
(* The inductive invariant                                                 *)
(***************************************************************************)
Views == [f \in File |-> View(f)]

\* Types, those of the history and of the cp under way included.
Typed ==
  /\ TypeOK
  /\ job \in [on : BOOLEAN, src : File \cup {0}, dst : File \cup {0},
              offset : Nat, ip : INODE]
  /\ want \in [File -> Seq([Cell -> Nat])]

\* What is in no use is blank, and an inode on disk is empty or whole.  The
\* copy is another file than its source, empty on disk and in memory as long
\* as the cp has got.
Shapes ==
  /\ \A f \in File :
       /\ ~itab[f].used => itab[f] = Blank /\ f \notin full
       /\ itab[f].size \in {0, Len(want[f])}
       /\ itab[f].size <= Single + PTRS * PTRS
  /\ job.on =>
       /\ job.src \in Files /\ job.dst \in Files /\ job.src # job.dst
       /\ itab[job.dst].size = 0
       /\ \A k \in 0..DIND : itab[job.dst].i_block[k] = 0
       /\ job.ip.used /\ job.ip.size = job.offset
       /\ job.offset <= itab[job.src].size
       /\ Len(want[job.dst]) = itab[job.src].size

\* What a copy has not got to yet is 0, and is allocated when it gets there.
Cleared ==
  job.on /\ job.dst \in Fit =>
    /\ \A k \in 0..IND : k >= job.offset => job.ip.i_block[k] = 0
    /\ \A c \in Cell : job.offset > NDIR /\ NDIR + c >= job.offset =>
         disk[job.ip.i_block[IND]][c] = 0

\* Blocks are not freed: if balloc failed, it would fail again.
FullDisk == full # {} => Block \ {0} \subseteq bmap

\* The source does not change under a cp, and the copy is so far the same.
Copying ==
  job.on /\ job.dst \in Fit =>
    /\ Contents(disk, itab[job.src]) = want[job.dst]
    /\ \A k \in 1..job.offset :
         At(disk, BlockRead(disk, job.ip, k - 1)) = want[job.dst][k]

Placed == Marked(disk, bmap, Views)
Owned  == \A f \in Fit : Sole(disk, bmap, Views, f)

IInv == Typed /\ Shapes /\ Cleared /\ FullDisk /\ Copying /\ Placed /\ Owned
        /\ AllOrNothing

-----------------------------------------------------------------------------
(***************************************************************************)
(* Blocks and contents                                                     *)
(***************************************************************************)
LEMMA ContentsIs ==
  ASSUME NEW d \in Disks, NEW ip \in INODE
  PROVE  /\ Contents(d, ip) \in Seq([Cell -> Nat])
         /\ Len(Contents(d, ip)) = ip.size
         /\ \A k \in 1..ip.size :
              Contents(d, ip)[k] = At(d, BlockRead(d, ip, k - 1))
<1>1. ip.size \in Nat
  BY DEF INODE
<1>2. \A k \in 1..ip.size : At(d, BlockRead(d, ip, k - 1)) \in [Cell -> Nat]
  BY AtIsBlock
<1>3. QED
  BY <1>1, <1>2 DEF Contents

\* The inodes as the program sees them, one by one.
LEMMA ViewsAre ==
  ASSUME Typed
  PROVE  /\ Views \in [File -> INODE]
         /\ \A f \in File : Views[f] = View(f)
         /\ \A f \in File : ~(job.on /\ job.dst = f) => Views[f] = itab[f]
         /\ \A f \in File : job.on /\ job.dst = f => Views[f] = job.ip
<1>1. \A f \in File : View(f) \in INODE
  BY DEF Typed, TypeOK, View
<1>2. QED
  BY <1>1 DEF Views, View

\* A file that has its blocks for itself keeps them so when another one's
\* pointers are cleared.
LEMMA SoleFewer ==
  ASSUME NEW d, NEW m, m \subseteq Block \ {0},
         NEW V \in [File -> INODE], NEW W \in [File -> INODE], NEW f \in File,
         Sole(d, m, V, f), W[f].size = V[f].size,
         W[f].i_block = V[f].i_block,
         \A g \in File \ {f} : \A j \in 0..DIND :
           W[g].i_block[j] \in {0, V[g].i_block[j]}
  PROVE  Sole(d, m, W, f)
<1>1. DOMAIN V = File /\ DOMAIN W = File
  OBVIOUS
<1>2. \A g \in File : \A j \in 0..DIND :
        W[g].i_block[j] = 0 \/ W[g].i_block[j] = V[g].i_block[j]
  OBVIOUS
<1>3. ASSUME NEW k \in 0..IND, k < W[f].size
      PROVE  /\ W[f].i_block[k] \in m
             /\ \A g \in DOMAIN W : \A j \in 0..DIND :
                  W[g].i_block[j] = W[f].i_block[k] => g = f /\ j = k
             /\ \A b \in Block, c \in Cell : d[b][c] # W[f].i_block[k]
  BY <1>1, <1>2, <1>3 DEF Sole
<1>4. ASSUME NEW c \in Cell, NDIR + c < W[f].size
      PROVE  LET x == d[W[f].i_block[IND]][c] IN
             /\ x \in m
             /\ \A g \in DOMAIN W : \A j \in 0..DIND : W[g].i_block[j] # x
             /\ \A b \in Block, e \in Cell :
                  d[b][e] = x => b = W[f].i_block[IND] /\ e = c
  BY <1>1, <1>2, <1>4 DEF Sole
<1>5. QED
  BY <1>3, <1>4 DEF Sole

LEMMA MarkedFewer ==
  ASSUME NEW d, NEW m, NEW V \in [File -> INODE], NEW W \in [File -> INODE],
         Marked(d, m, V),
         \A g \in File : \A j \in 0..DIND :
           W[g].i_block[j] \in {0, V[g].i_block[j]}
  PROVE  Marked(d, m, W)
BY DEF Marked

\* A file of no size has no blocks to share.
LEMMA SoleEmpty ==
  ASSUME NEW d, NEW m, NEW V \in [File -> INODE], NEW f \in File, V[f].size = 0
  PROVE  Sole(d, m, V, f)
<1>1. \A k \in 0..IND : ~(k < V[f].size)
  OBVIOUS
<1>2. \A c \in Cell : ~(NDIR + c < V[f].size)
  BY PlacesDef
<1>3. QED
  BY <1>1, <1>2 DEF Sole

LEMMA BlankIs ==
  /\ Blank \in INODE /\ Blank.size = 0 /\ Blank.used = FALSE
  /\ \A k \in 0..DIND : Blank.i_block[k] = 0
BY DEF Blank, INODE

LEMMA EmptyContents ==
  ASSUME NEW d, NEW ip, ip.size = 0
  PROVE  Contents(d, ip) = <<>>
<1>1. 1..ip.size = {}
  OBVIOUS
<1>2. QED
  BY <1>1 DEF Contents

-----------------------------------------------------------------------------
(***************************************************************************)
(* The steps before and after the loop                                     *)
(***************************************************************************)
LEMMA InitInv ==
  ASSUME Init PROVE IInv
<1>1. PICK im \in Images : disk = im.disk /\ bmap = im.bmap /\ itab = im.itab
  BY DEF Init
<1>2. /\ disk \in Disks /\ bmap \subseteq Block \ {0} /\ itab \in [File -> INODE]
      /\ Marked(disk, bmap, itab)
      /\ \A f \in File :
           IF itab[f].used
           THEN /\ itab[f].size <= Single + PTRS * PTRS
                /\ itab[f].size <= Single => Sole(disk, bmap, itab, f)
           ELSE itab[f] = Blank
  BY <1>1, ImagesAssumption DEF Disks
<1>3. /\ job = NoJob /\ want = [f \in File |-> Contents(disk, itab[f])]
      /\ full = {} /\ kills = 0 /\ ~job.on
  BY DEF Init, NoJob
<1>4. \A f \in File : /\ want[f] = Contents(disk, itab[f])
                      /\ want[f] \in Seq([Cell -> Nat])
                      /\ Len(want[f]) = itab[f].size
  BY <1>2, <1>3, ContentsIs
<1>5. Typed
  <2>1. TypeOK
    BY <1>2, <1>3, BlankIs, FileDataAssumption DEF TypeOK, Disks, NoJob
  <2>2. job \in [on : BOOLEAN, src : File \cup {0}, dst : File \cup {0},
                 offset : Nat, ip : INODE]
    BY <1>3, BlankIs DEF NoJob
  <2>3. QED
    BY <2>1, <2>2, <1>3, <1>4 DEF Typed
<1>6. Views = itab
  BY <1>2, <1>3 DEF Views, View
<1>7. Single + PTRS * PTRS >= 0
  BY FileDataAssumption DEF Single
<1>8. Shapes
  <2>1. ASSUME NEW f \in File
        PROVE  /\ ~itab[f].used => itab[f] = Blank /\ f \notin full
               /\ itab[f].size \in {0, Len(want[f])}
               /\ itab[f].size <= Single + PTRS * PTRS
    BY <1>2, <1>3, <1>4, <1>7, BlankIs
  <2>2. QED
    BY <1>3, <2>1 DEF Shapes
<1>9. Owned
  <2>1. SUFFICES ASSUME NEW f \in Fit PROVE Sole(disk, bmap, itab, f)
    BY <1>6 DEF Owned
  <2>2. f \in File /\ itab[f].used /\ itab[f].size <= Single
    BY <1>4 DEF Fit, Files, Single
  <2>3. QED
    BY <1>2, <2>2
<1>10. Cleared /\ FullDisk /\ Copying /\ Placed
  BY <1>2, <1>3, <1>6 DEF Cleared, FullDisk, Copying, Placed
<1>11. AllOrNothing
  BY <1>4 DEF AllOrNothing, Fit, Files
<1>12. QED
  BY <1>5, <1>8, <1>9, <1>10, <1>11 DEF IInv

\* The copy is a new inode, without blocks.
LEMMA mycpInv ==
  ASSUME IInv, NEW s \in File, NEW t \in File, mycp(s, t)
  PROVE  IInv'
<1> DEFINE new == [itab[t] EXCEPT !.used = TRUE]
<1>1. /\ Typed /\ Shapes /\ Cleared /\ FullDisk /\ Copying /\ Placed /\ Owned
      /\ AllOrNothing /\ TypeOK
  BY DEF IInv, Typed
<1>2. /\ ~job.on /\ itab[s].used /\ ~itab[t].used /\ s # t
      /\ itab' = [itab EXCEPT ![t] = new]
      /\ job' = [on |-> TRUE, src |-> s, dst |-> t, offset |-> 0, ip |-> itab'[t]]
      /\ want' = [want EXCEPT ![t] = Contents(disk, itab[s])]
      /\ disk' = disk /\ bmap' = bmap /\ full' = full /\ kills' = kills
  BY DEF mycp
<1>3. /\ disk \in Disks /\ itab \in [File -> INODE] /\ bmap \subseteq Block \ {0}
      /\ want \in [File -> Seq([Cell -> Nat])]
  BY <1>1 DEF Typed, TypeOK, Disks
<1>4. itab[t] = Blank /\ t \notin full
  BY <1>1, <1>2 DEF Shapes
<1>5. /\ new \in INODE /\ new.used /\ new.size = 0
      /\ new.i_block = itab[t].i_block
      /\ \A k \in 0..DIND : new.i_block[k] = 0
  BY <1>4, BlankIs DEF INODE
<1> HIDE DEF new
<1>6. /\ itab' \in [File -> INODE] /\ itab'[t] = new
      /\ \A f \in File \ {t} : itab'[f] = itab[f]
  BY <1>2, <1>3, <1>5
<1>7. /\ job'.on /\ job'.src = s /\ job'.dst = t /\ job'.offset = 0
      /\ job'.ip = new
  BY <1>2, <1>6
<1>8. /\ want'[t] = Contents(disk, itab[s])
      /\ want' \in [File -> Seq([Cell -> Nat])] /\ Len(want'[t]) = itab[s].size
      /\ \A f \in File \ {t} : want'[f] = want[f]
  BY <1>2, <1>3, ContentsIs
<1>9. Typed'
  <2>1. TypeOK'
    BY <1>1, <1>2, <1>5, <1>6, <1>7 DEF TypeOK
  <2>2. (job \in [on : BOOLEAN, src : File \cup {0}, dst : File \cup {0},
                  offset : Nat, ip : INODE])'
    BY <1>2, <1>5, <1>6
  <2>3. QED
    BY <2>1, <2>2, <1>8 DEF Typed
<1>10. \A f \in File : itab'[f].size = itab[f].size
                       /\ itab'[f].i_block = itab[f].i_block
  BY <1>4, <1>5, <1>6, BlankIs
<1>11. Shapes'
  <2>1. ASSUME NEW f \in File
        PROVE  /\ ~itab'[f].used => itab'[f] = Blank /\ f \notin full'
               /\ itab'[f].size \in {0, Len(want'[f])}
               /\ itab'[f].size <= Single + PTRS * PTRS
    BY <1>1, <1>2, <1>5, <1>6, <1>8, <1>10 DEF Shapes
  <2>2. s \in Files' /\ t \in Files'
    BY <1>2, <1>5, <1>6 DEF Files
  <2>3. itab[s].size >= 0
    BY <1>3 DEF INODE
  <2>4. QED
    BY <2>1, <2>2, <2>3, <1>2, <1>5, <1>6, <1>7, <1>8 DEF Shapes
<1>12. Cleared'
  BY <1>2, <1>5, <1>7, PlacesDef DEF Cleared, IND, DIND
<1>13. FullDisk'
  BY <1>1, <1>2 DEF FullDisk
<1>14. Copying'
  <2>1. Contents(disk', itab'[s]) = want'[t]
    BY <1>2, <1>6, <1>8
  <2>2. QED
    BY <1>7, <2>1 DEF Copying
<1>15. /\ Views \in [File -> INODE] /\ Views' \in [File -> INODE]
       /\ \A f \in File : /\ Views'[f].size = Views[f].size
                          /\ Views'[f].i_block = Views[f].i_block
  <2>1. /\ Views \in [File -> INODE] /\ \A f \in File : Views[f] = itab[f]
    BY <1>1, <1>2, ViewsAre
  <2>2. /\ Views' \in [File -> INODE]
        /\ \A f \in File : Views'[f] = itab'[f]
    <3>1. \A f \in File : View(f)' = itab'[f]
      BY <1>6, <1>7 DEF View
    <3>2. QED
      BY <3>1, <1>6 DEF Views
  <2>3. QED
    BY <2>1, <2>2, <1>10
<1>16. \A f \in Fit' : f = t \/ f \in Fit
  BY <1>2, <1>6, <1>8 DEF Fit, Files
<1>17. Owned'
  <2>1. SUFFICES ASSUME NEW f \in Fit' PROVE Sole(disk, bmap, Views', f)
    BY <1>2 DEF Owned
  <2>2. f \in File
    BY DEF Fit, Files
  <2>3. CASE f = t
    <3>1. Views'[t].size = 0
      BY <1>1, <1>2, <1>4, <1>15, BlankIs, ViewsAre
    <3>2. QED
      BY <2>2, <2>3, <3>1, <1>15, SoleEmpty
  <2>4. CASE f # t
    <3>1. Sole(disk, bmap, Views, f)
      BY <1>1, <1>16, <2>4 DEF Owned
    <3>2. QED
      BY <1>3, <1>15, <2>2, <3>1, SoleFewer
  <2>5. QED
    BY <2>3, <2>4
<1>18. Placed'
  <2>1. Marked(disk, bmap, Views)
    BY <1>1 DEF Placed
  <2>2. Marked(disk, bmap, Views')
    BY <1>15, <2>1, MarkedFewer
  <2>3. QED
    BY <1>2, <2>2 DEF Placed
<1>19. AllOrNothing'
  <2>1. SUFFICES ASSUME NEW f \in Fit'
                 PROVE  Contents(disk', itab'[f]) \in {<<>>, want'[f]}
    BY DEF AllOrNothing
  <2>2. f \in File
    BY DEF Fit, Files
  <2>3. CASE f = t
    BY <1>5, <1>6, <2>3, EmptyContents
  <2>4. CASE f # t
    BY <1>1, <1>2, <1>6, <1>8, <1>16, <2>2, <2>4 DEF AllOrNothing
  <2>5. QED
    BY <2>3, <2>4
<1>20. QED
  BY <1>9, <1>11, <1>12, <1>13, <1>14, <1>17, <1>18, <1>19 DEF IInv

\* What a view is to the program does not depend on whether it is on disk.
LEMMA CopyEndInv ==
  ASSUME IInv, CopyEnd
  PROVE  IInv'
<1> DEFINE s == job.src
           t == job.dst
           ip == job.ip
<1>1. /\ Typed /\ Shapes /\ Cleared /\ FullDisk /\ Copying /\ Placed /\ Owned
      /\ AllOrNothing /\ TypeOK
  BY DEF IInv, Typed
<1>2. /\ job.on /\ job.offset = itab[s].size
      /\ itab' = [itab EXCEPT ![t] = ip] /\ job' = NoJob
      /\ disk' = disk /\ bmap' = bmap /\ want' = want /\ full' = full
      /\ kills' = kills
  BY DEF CopyEnd
<1>3. /\ disk \in Disks /\ itab \in [File -> INODE] /\ bmap \subseteq Block \ {0}
      /\ want \in [File -> Seq([Cell -> Nat])] /\ ip \in INODE
  BY <1>1 DEF Typed, TypeOK, Disks
<1>4. /\ s \in File /\ t \in File /\ itab[t].used /\ s # t /\ itab[t].size = 0
      /\ ip.used /\ ip.size = itab[s].size /\ Len(want[t]) = itab[s].size
  BY <1>1, <1>2 DEF Shapes, Files
<1> HIDE DEF s, t, ip
<1>5. /\ itab' \in [File -> INODE] /\ itab'[t] = ip
      /\ \A f \in File \ {t} : itab'[f] = itab[f]
  BY <1>2, <1>3, <1>4
<1>6. ~job'.on /\ job'.ip = Blank
  BY <1>2 DEF NoJob
<1>7. Typed'
  <2>1. TypeOK'
    BY <1>1, <1>2, <1>5, <1>6, BlankIs DEF TypeOK, NoJob
  <2>2. (job \in [on : BOOLEAN, src : File \cup {0}, dst : File \cup {0},
                  offset : Nat, ip : INODE])'
    BY <1>2, BlankIs DEF NoJob
  <2>3. QED
    BY <2>1, <2>2, <1>2, <1>3 DEF Typed
<1>8. Shapes'
  <2>1. ASSUME NEW f \in File
        PROVE  /\ ~itab'[f].used => itab'[f] = Blank /\ f \notin full'
               /\ itab'[f].size \in {0, Len(want'[f])}
               /\ itab'[f].size <= Single + PTRS * PTRS
    <3>1. CASE f = t
      BY <1>1, <1>2, <1>4, <1>5, <3>1 DEF Shapes
    <3>2. CASE f # t
      BY <1>1, <1>2, <1>5, <3>2 DEF Shapes
    <3>3. QED
      BY <3>1, <3>2
  <2>2. QED
    BY <2>1, <1>6 DEF Shapes
<1>9. Cleared' /\ FullDisk' /\ Copying'
  BY <1>1, <1>2, <1>6 DEF Cleared, FullDisk, Copying
<1>10. Views' = Views
  <2>1. \A f \in File : View(f)' = View(f)
    BY <1>2, <1>5, <1>6 DEF View, t, ip
  <2>2. QED
    BY <2>1 DEF Views
<1>11. Fit' = Fit
  BY <1>2, <1>4, <1>5 DEF Fit, Files
<1>12. Placed' /\ Owned'
  BY <1>1, <1>2, <1>10, <1>11 DEF Placed, Owned
<1>13. AllOrNothing'
  <2>1. SUFFICES ASSUME NEW f \in Fit
                 PROVE  Contents(disk, itab'[f]) \in {<<>>, want[f]}
    BY <1>2, <1>11 DEF AllOrNothing
  <2>2. f \in File
    BY DEF Fit, Files
  <2>3. CASE f = t
    <3> DEFINE c == Contents(disk, ip)
    <3>1. c \in Seq([Cell -> Nat]) /\ Len(c) = ip.size
          /\ \A k \in 1..ip.size : c[k] = At(disk, BlockRead(disk, ip, k - 1))
      BY <1>3, ContentsIs
    <3>2. \A k \in 1..ip.size : At(disk, BlockRead(disk, ip, k - 1)) = want[t][k]
      BY <1>1, <1>2, <1>4, <2>3 DEF Copying, s, t, ip
    <3> HIDE DEF c
    <3>3. Len(c) = Len(want[t]) /\ want[t] \in Seq([Cell -> Nat])
      BY <1>3, <1>4, <3>1
    <3>4. \A k \in 1..Len(c) : c[k] = want[t][k]
      BY <3>1, <3>2
    <3>5. c = want[t]
      BY <3>1, <3>3, <3>4, SeqEqual
    <3>6. QED
      BY <1>5, <2>3, <3>5 DEF c
  <2>4. CASE f # t
    BY <1>1, <1>5, <2>2, <2>4 DEF AllOrNothing
  <2>5. QED
    BY <2>3, <2>4
<1>14. QED
  BY <1>7, <1>8, <1>9, <1>12, <1>13 DEF IInv

\* What is left on disk of an interrupted copy is an empty inode; its blocks
\* stay marked, and nothing leads to them.
LEMMA KillInv ==
  ASSUME IInv, Kill
  PROVE  IInv'
<1> DEFINE t == job.dst
<1>1. /\ Typed /\ Shapes /\ Cleared /\ FullDisk /\ Copying /\ Placed /\ Owned
      /\ AllOrNothing /\ TypeOK
  BY DEF IInv, Typed
<1>2. /\ job.on /\ kills < MaxKill /\ kills' = kills + 1 /\ job' = NoJob
      /\ disk' = disk /\ bmap' = bmap /\ itab' = itab /\ want' = want
      /\ full' = full
  BY DEF Kill
<1>3. /\ disk \in Disks /\ itab \in [File -> INODE] /\ bmap \subseteq Block \ {0}
      /\ want \in [File -> Seq([Cell -> Nat])]
  BY <1>1 DEF Typed, TypeOK, Disks
<1>4. /\ t \in File /\ itab[t].size = 0
      /\ \A k \in 0..DIND : itab[t].i_block[k] = 0
  BY <1>1, <1>2 DEF Shapes, Files
<1>5. ~job'.on
  BY <1>2 DEF NoJob
<1>6. Typed'
  <2>1. kills' \in 0..MaxKill
    BY <1>1, <1>2, FileDataAssumption DEF TypeOK
  <2>2. TypeOK'
    BY <1>1, <1>2, <2>1, BlankIs DEF TypeOK, NoJob
  <2>3. (job \in [on : BOOLEAN, src : File \cup {0}, dst : File \cup {0},
                  offset : Nat, ip : INODE])'
    BY <1>2, BlankIs DEF NoJob
  <2>4. QED
    BY <2>2, <2>3, <1>2, <1>3 DEF Typed
<1>7. Shapes' /\ Cleared' /\ FullDisk' /\ Copying'
  BY <1>1, <1>2, <1>5 DEF Shapes, Cleared, FullDisk, Copying
<1>8. Fit' = Fit
  BY <1>2 DEF Fit, Files
<1>9. /\ Views \in [File -> INODE] /\ Views' \in [File -> INODE]
      /\ Views'[t].size = 0 /\ \A k \in 0..DIND : Views'[t].i_block[k] = 0
      /\ \A f \in File \ {t} : Views'[f] = Views[f]
  <2>1. /\ Views \in [File -> INODE]
        /\ \A f \in File \ {t} : Views[f] = itab[f]
    BY <1>1, ViewsAre
  <2>2. Views' = itab
    BY <1>2, <1>3, <1>5 DEF Views, View
  <2>3. QED
    BY <1>3, <1>4, <2>1, <2>2
<1> HIDE DEF t
<1>10. \A f \in File : \A j \in 0..DIND :
         Views'[f].i_block[j] \in {0, Views[f].i_block[j]}
  BY <1>9
<1>11. Placed'
  <2>1. Marked(disk, bmap, Views)
    BY <1>1 DEF Placed
  <2>2. Marked(disk, bmap, Views')
    BY <1>9, <1>10, <2>1, MarkedFewer
  <2>3. QED
    BY <1>2, <2>2 DEF Placed
<1>12. Owned'
  <2>1. SUFFICES ASSUME NEW f \in Fit PROVE Sole(disk, bmap, Views', f)
    BY <1>2, <1>8 DEF Owned
  <2>2. f \in File
    BY DEF Fit, Files
  <2>3. CASE f = t
    BY <1>9, <2>2, <2>3, SoleEmpty
  <2>4. CASE f # t
    <3>1. Sole(disk, bmap, Views, f)
      BY <1>1 DEF Owned
    <3>2. Views'[f].size = Views[f].size /\ Views'[f].i_block = Views[f].i_block
      BY <1>9, <2>2, <2>4
    <3>3. QED
      BY <1>3, <1>9, <1>10, <2>2, <3>1, <3>2, SoleFewer
  <2>5. QED
    BY <2>3, <2>4
<1>13. AllOrNothing'
  BY <1>1, <1>2, <1>8 DEF AllOrNothing
<1>14. QED
  BY <1>6, <1>7, <1>11, <1>12, <1>13 DEF IInv

-----------------------------------------------------------------------------
(***************************************************************************)
(* The files that are not written while a block is copied                  *)
(***************************************************************************)
\* The blocks of a file without a double indirect block.
Blocks(d, ip) ==
  {ip.i_block[k] : k \in {j \in 0..IND : j < ip.size}}
    \cup {d[ip.i_block[IND]][c] : c \in {e \in Cell : NDIR + e < ip.size}}

\* Those of the files other than the copy, and where its next block starts.
Theirs == UNION {Blocks(disk, Views[f]) : f \in Fit \ {job.dst}}
Start  == [disk |-> disk, bmap |-> bmap, ip |-> job.ip, got |-> 0,
           full |-> FALSE]

\* Cell c of the block of pointers is part of a file of n blocks.
Within(c, n) == NDIR + c < n

\* A file there was room for is no longer than its indirect block reaches.
LEMMA FitIsSingle ==
  ASSUME Typed, Shapes, NEW f \in Fit
  PROVE  /\ f \in File /\ Views[f].size \in Nat /\ Views[f].size <= Single
         /\ itab[f].size <= Single
<1>1. f \in File /\ Len(want[f]) <= Single /\ itab[f].size \in {0, Len(want[f])}
  BY DEF Fit, Files, Shapes, Single
<1>2. Single \in Nat
  BY FileDataAssumption DEF Single
<1>3. itab[f].size <= Single
  BY <1>1, <1>2
<1>4. Views[f] \in INODE
  BY <1>1, ViewsAre
<1>5. CASE job.on /\ job.dst = f
  <2>1. /\ Views[f] = job.ip /\ job.ip.size = job.offset /\ job.offset \in Nat
        /\ job.offset <= Len(want[f]) /\ Len(want[f]) \in Nat
    BY <1>1, <1>5, ViewsAre DEF Shapes, Typed, TypeOK
  <2>2. QED
    BY <1>1, <1>2, <1>3, <1>4, <2>1
<1>6. CASE ~(job.on /\ job.dst = f)
  BY <1>1, <1>3, <1>4, <1>6, ViewsAre DEF INODE
<1>7. QED
  BY <1>5, <1>6

\* The block of pointers is reached if a block it names is.
LEMMA IndirectBefore ==
  ASSUME NEW c \in Cell, NEW n \in Nat, Within(c, n)
  PROVE  IND \in 0..IND /\ IND < n
BY PlacesDef DEF IND, Within

LEMMA TheirsIs ==
  ASSUME NEW x
  PROVE  x \in Theirs <=>
           \E f \in Fit \ {job.dst} :
             \/ \E k \in 0..IND : k < Views[f].size /\ x = Views[f].i_block[k]
             \/ \E c \in Cell : /\ Within(c, Views[f].size)
                                /\ x = disk[Views[f].i_block[IND]][c]
BY DEF Theirs, Blocks, Within

LEMMA TheirsAway ==
  ASSUME IInv, job.on
  PROVE  /\ Theirs \subseteq bmap
         /\ \A b \in Block, c \in Cell : disk[b][c] \in Theirs => b \in Theirs
         /\ \A k \in 0..DIND : job.ip.i_block[k] \notin Theirs
<1>1. /\ Typed /\ Shapes /\ Placed /\ Owned /\ Views \in [File -> INODE]
      /\ job.dst \in File /\ Views[job.dst] = job.ip
  BY ViewsAre DEF IInv, Shapes, Files
<1>2. \A f \in Fit : f \in File /\ Views[f].size \in Nat
                     /\ Sole(disk, bmap, Views, f)
  BY <1>1, FitIsSingle DEF Owned
<1>3. ASSUME NEW x \in Theirs
      PROVE  /\ x \in bmap
             /\ \A b \in Block, c \in Cell : disk[b][c] = x => b \in Theirs
             /\ \A k \in 0..DIND : job.ip.i_block[k] # x
  <2>1. PICK f \in Fit \ {job.dst} :
          \/ \E k \in 0..IND : k < Views[f].size /\ x = Views[f].i_block[k]
          \/ \E c \in Cell : /\ Within(c, Views[f].size)
                             /\ x = disk[Views[f].i_block[IND]][c]
    BY <1>3, TheirsIs
  <2>2. f \in File /\ Views[f].size \in Nat /\ Sole(disk, bmap, Views, f)
    BY <1>2
  <2>3. CASE \E k \in 0..IND : k < Views[f].size /\ x = Views[f].i_block[k]
    <3>1. PICK k \in 0..IND : k < Views[f].size /\ x = Views[f].i_block[k]
      BY <2>3
    <3>2. /\ Views[f].i_block[k] \in bmap
          /\ \A g \in File : \A j \in 0..DIND :
               Views[g].i_block[j] = Views[f].i_block[k] => g = f /\ j = k
          /\ \A b \in Block, c \in Cell : disk[b][c] # Views[f].i_block[k]
      BY <1>1, <2>2, <3>1 DEF Sole
    <3>3. QED
      BY <1>1, <2>1, <3>1, <3>2
  <2>4. CASE \E c \in Cell : /\ Within(c, Views[f].size)
                             /\ x = disk[Views[f].i_block[IND]][c]
    <3>1. PICK c \in Cell : /\ Within(c, Views[f].size)
                            /\ x = disk[Views[f].i_block[IND]][c]
      BY <2>4
    <3>2. /\ x \in bmap
          /\ \A g \in File : \A j \in 0..DIND : Views[g].i_block[j] # x
          /\ \A b \in Block, e \in Cell :
               disk[b][e] = x => b = Views[f].i_block[IND] /\ e = c
      <4>1. Views \in [File -> INODE] /\ f \in File
            /\ Sole(disk, bmap, Views, f)
        BY <1>1, <2>2
      <4>2. Within(c, Views[f].size) /\ x = disk[Views[f].i_block[IND]][c]
        BY <3>1
      <4>3. QED
        BY <4>1, <4>2 DEF Sole, Within
    <3>3. IND \in 0..IND /\ IND < Views[f].size
      BY <2>2, <3>1, IndirectBefore
    <3>4. Views[f].i_block[IND] \in Theirs
      BY <3>3, TheirsIs
    <3>5. QED
      BY <1>1, <3>1, <3>2, <3>4
  <2>5. QED
    BY <2>1, <2>3, <2>4
<1>4. QED
  BY <1>3

\* The cp starts a block with everything as it is.
LEMMA StartKept ==
  ASSUME IInv, job.on
  PROVE  Kept(Theirs, disk, bmap, Start)
<1>1. /\ Typed /\ Placed /\ Views \in [File -> INODE]
      /\ job.dst \in File /\ Views[job.dst] = job.ip
  BY ViewsAre DEF IInv, Shapes, Files
<1>2. /\ Theirs \subseteq bmap
      /\ \A b \in Block, c \in Cell : disk[b][c] \in Theirs => b \in Theirs
      /\ \A k \in 0..DIND : job.ip.i_block[k] \notin Theirs
  BY TheirsAway
<1>3. /\ disk \in Disks /\ bmap \subseteq Block \ {0} /\ job.ip \in INODE
  BY <1>1 DEF Typed, TypeOK, Disks
<1>4. /\ Start \in Walk /\ Start.disk = disk /\ Start.bmap = bmap
      /\ Start.ip = job.ip /\ Start.got = 0 /\ Start.full = FALSE
  BY <1>3 DEF Start, Walk
<1>5. /\ \A k \in 0..DIND : job.ip.i_block[k] \in bmap \cup {0}
      /\ \A b \in Block, c \in Cell :
           disk[b][c] \in Block => disk[b][c] \in bmap \cup {0}
  BY <1>1, <1>3 DEF Placed, Marked
<1>6. 0 \notin Theirs
  BY <1>2, <1>3
<1>7. QED
  BY <1>2, <1>3, <1>4, <1>5, <1>6 DEF Kept, Away

\* A block that is read for a file holds the pointers of no file.
LEMMA DataIsNoMap ==
  ASSUME IInv, NEW s \in File, Views[s] = itab[s], NEW n \in Nat,
         NEW f \in Fit, IND < Views[f].size
  PROVE  BlockRead(disk, itab[s], n) # Views[f].i_block[IND]
<1> DEFINE B == BlockRead(disk, itab[s], n)
<1>1. /\ Typed /\ Shapes /\ Owned /\ Views \in [File -> INODE]
  BY ViewsAre DEF IInv
<1>2. disk \in Disks /\ bmap \subseteq Block \ {0}
  BY <1>1 DEF Typed, TypeOK, Disks
<1>3. f \in File /\ Sole(disk, bmap, Views, f) /\ IND \in 0..IND
  BY <1>1, FitIsSingle, PlacesDef DEF Owned, IND
<1>4. /\ Views[f].i_block[IND] \in bmap
      /\ \A g \in File : \A j \in 0..DIND :
           Views[g].i_block[j] = Views[f].i_block[IND] => g = f /\ j = IND
      /\ \A b \in Block, c \in Cell : disk[b][c] # Views[f].i_block[IND]
  BY <1>1, <1>3 DEF Sole
<1>5. \A b : \A c \in Cell : At(disk, b)[c] # Views[f].i_block[IND]
  <2>1. \A c \in Cell : Zero[c] = 0
    BY DEF Zero
  <2>2. QED
    BY <1>2, <1>4, <2>1 DEF At
<1>6. CASE n < NDIR
  <2>1. n \in 0..DIND /\ n # IND /\ B = Views[s].i_block[n]
    BY <1>1, <1>6, PlacesDef DEF BlockRead, IND
  <2>2. QED
    BY <1>4, <2>1
<1>7. CASE n >= NDIR /\ n < NDIR + PTRS
  <2>1. n - NDIR \in Cell /\ B = At(disk, itab[s].i_block[IND])[n - NDIR]
    BY <1>7, PlacesDef DEF BlockRead, Cell
  <2>2. QED
    BY <1>5, <2>1
<1>8. CASE n >= NDIR + PTRS
  <2> DEFINE k == n - (NDIR + PTRS)
             l == At(disk, itab[s].i_block[DIND])[k \div PTRS]
  <2>1. B = At(disk, l)[k % PTRS]
    BY <1>8, PlacesDef DEF BlockRead
  <2>2. k \in Int /\ PTRS \in Nat /\ PTRS > 0
    BY <1>8, FileDataAssumption
  <2> HIDE DEF k, l
  <2>3. k % PTRS \in Cell
    BY <2>2, Splitting DEF Cell
  <2>4. QED
    BY <1>5, <2>1, <2>3
<1>9. QED
  BY <1>6, <1>7, <1>8, PlacesDef

\* A block that is read for a file is none that holds the pointers of another,
\* and no pointer to one of theirs is in it.
LEMMA DataHarmless ==
  ASSUME IInv, job.on, NEW s \in File \ {job.dst}, NEW n \in Nat
  PROVE  Harmless(Theirs, bmap, At(disk, BlockRead(disk, itab[s], n)))
<1> DEFINE B == BlockRead(disk, itab[s], n)
<1>1. /\ Typed /\ Shapes /\ Placed /\ Owned /\ Views \in [File -> INODE]
      /\ Views[s] = itab[s]
  BY ViewsAre DEF IInv
<1>2. disk \in Disks /\ bmap \subseteq Block \ {0}
  BY <1>1 DEF Typed, TypeOK, Disks
<1>3. Theirs \subseteq bmap
  BY TheirsAway
<1>4. \A b \in Block, c \in Cell :
        disk[b][c] \in Block => disk[b][c] \in bmap \cup {0}
  BY <1>1 DEF Placed, Marked
<1>5. \A f \in Fit : IND < Views[f].size => B # Views[f].i_block[IND]
  BY <1>1, DataIsNoMap
<1> HIDE DEF B
<1>6. CASE B \notin Block
  <2>1. At(disk, B) = Zero /\ \A c \in Cell : Zero[c] = 0
    BY <1>6 DEF At, Zero
  <2>2. QED
    BY <1>2, <1>3, <2>1, PlacesDef DEF Harmless, Away, B
<1>7. CASE B \in Block
  <2>1. At(disk, B) = disk[B] /\ disk[B] \in [Cell -> Nat]
    BY <1>2, <1>7 DEF At, Disks
  <2>2. ASSUME NEW c \in Cell, disk[B][c] \in Theirs PROVE FALSE
    <3>1. PICK f \in Fit \ {job.dst} :
            \/ \E k \in 0..IND : k < Views[f].size /\ disk[B][c] = Views[f].i_block[k]
            \/ \E e \in Cell : /\ Within(e, Views[f].size)
                               /\ disk[B][c] = disk[Views[f].i_block[IND]][e]
      BY <2>2, TheirsIs
    <3>2. f \in File /\ Sole(disk, bmap, Views, f) /\ Views[f].size \in Nat
      BY <1>1, FitIsSingle DEF Owned
    <3>3. CASE \E k \in 0..IND :
                 k < Views[f].size /\ disk[B][c] = Views[f].i_block[k]
      BY <1>1, <1>7, <3>2, <3>3 DEF Sole
    <3>4. CASE \E e \in Cell : /\ Within(e, Views[f].size)
                               /\ disk[B][c] = disk[Views[f].i_block[IND]][e]
      <4>1. PICK e \in Cell : /\ Within(e, Views[f].size)
                              /\ disk[B][c] = disk[Views[f].i_block[IND]][e]
        BY <3>4
      <4>2. B = Views[f].i_block[IND]
        BY <1>1, <1>7, <3>2, <4>1 DEF Sole, Within
      <4>3. IND < Views[f].size
        BY <3>2, <4>1, IndirectBefore
      <4>4. QED
        BY <1>5, <4>2, <4>3
    <3>5. QED
      BY <3>1, <3>3, <3>4
  <2>3. QED
    BY <1>4, <1>7, <2>1, <2>2 DEF Harmless, Away, B
<1>8. QED
  BY <1>6, <1>7

\* The files other than the copy are as they were after a walk that kept theirs.
LEMMA OthersStay ==
  ASSUME IInv, job.on, NEW w, Kept(Theirs, disk, bmap, w),
         NEW f \in Fit \ {job.dst}, NEW W \in [File -> INODE],
         \A g \in File \ {job.dst} : W[g] = Views[g],
         W[job.dst].i_block = w.ip.i_block
  PROVE  /\ Sole(w.disk, w.bmap, W, f)
         /\ Contents(w.disk, itab[f]) = Contents(disk, itab[f])
<1>1. /\ Typed /\ Shapes /\ Owned /\ Views \in [File -> INODE]
      /\ f \in File /\ Views[f] = itab[f] /\ W[f] = Views[f]
      /\ job.dst \in File
  BY ViewsAre DEF IInv, Fit, Files, Shapes
<1>2. /\ disk \in Disks /\ w.disk \in Disks /\ bmap \subseteq w.bmap
      /\ Theirs \subseteq bmap /\ Theirs \subseteq Block
      /\ DOMAIN W = File
  BY <1>1, TheirsAway DEF Typed, TypeOK, Disks, Kept, Walk
<1>3. Sole(disk, bmap, Views, f) /\ Views[f].size \in Nat /\ Views[f].size <= Single
  BY <1>1, FitIsSingle DEF Owned
<1>4. \A b \in Theirs : w.disk[b] = disk[b]
  BY DEF Kept
<1>5. ASSUME NEW x \in Theirs
      PROVE  /\ \A b \in Block, c \in Cell :
                  w.disk[b][c] = x => disk[b][c] = x
             /\ \A g \in File : \A j \in 0..DIND :
                  W[g].i_block[j] = x => Views[g].i_block[j] = x
  <2>1. \A b \in Block, c \in Cell : w.disk[b][c] = x => b \in Theirs
    BY <1>5 DEF Kept, Away
  <2>2. \A j \in 0..DIND : w.ip.i_block[j] # x
    BY <1>5 DEF Kept, Away
  <2>3. QED
    BY <1>1, <1>4, <2>1, <2>2
<1>6. ASSUME NEW k \in 0..IND, k < W[f].size
      PROVE  /\ W[f].i_block[k] \in w.bmap /\ W[f].i_block[k] \in Theirs
             /\ \A g \in File : \A j \in 0..DIND :
                  W[g].i_block[j] = W[f].i_block[k] => g = f /\ j = k
             /\ \A b \in Block, c \in Cell : w.disk[b][c] # W[f].i_block[k]
  <2> DEFINE x == Views[f].i_block[k]
  <2>1. /\ x \in bmap
        /\ \A g \in File : \A j \in 0..DIND :
             Views[g].i_block[j] = x => g = f /\ j = k
        /\ \A b \in Block, c \in Cell : disk[b][c] # x
    BY <1>1, <1>3, <1>6 DEF Sole
  <2>2. x \in Theirs
    BY <1>1, <1>6, TheirsIs
  <2> HIDE DEF x
  <2>3. /\ x \in w.bmap
        /\ \A g \in File : \A j \in 0..DIND : W[g].i_block[j] = x => g = f /\ j = k
        /\ \A b \in Block, c \in Cell : w.disk[b][c] # x
    BY <1>2, <1>5, <2>1, <2>2
  <2>4. QED
    BY <1>1, <2>2, <2>3 DEF x
<1>7. ASSUME NEW c \in Cell, NDIR + c < W[f].size
      PROVE  LET x == w.disk[W[f].i_block[IND]][c] IN
             /\ x \in w.bmap /\ x \in Theirs
             /\ \A g \in File : \A j \in 0..DIND : W[g].i_block[j] # x
             /\ \A b \in Block, e \in Cell :
                  w.disk[b][e] = x => b = W[f].i_block[IND] /\ e = c
  <2> DEFINE p == Views[f].i_block[IND]
             x == disk[p][c]
  <2>1. /\ x \in bmap
        /\ \A g \in File : \A j \in 0..DIND : Views[g].i_block[j] # x
        /\ \A b \in Block, e \in Cell : disk[b][e] = x => b = p /\ e = c
    BY <1>1, <1>3, <1>7 DEF Sole
  <2>2. x \in Theirs
    BY <1>1, <1>7, TheirsIs DEF Within
  <2>3. IND \in 0..IND /\ IND < W[f].size
    BY <1>1, <1>3, <1>7, IndirectBefore DEF Within
  <2>4. p \in Theirs
    BY <1>1, <1>6, <2>3
  <2>5. w.disk[p][c] = x
    BY <1>4, <2>4
  <2> HIDE DEF x
  <2>6. /\ x \in w.bmap
        /\ \A g \in File : \A j \in 0..DIND : W[g].i_block[j] # x
        /\ \A b \in Block, e \in Cell : w.disk[b][e] = x => b = p /\ e = c
    BY <1>2, <1>5, <2>1, <2>2
  <2>7. QED
    BY <1>1, <2>2, <2>5, <2>6
<1>8. Sole(w.disk, w.bmap, W, f)
  BY <1>2, <1>6, <1>7 DEF Sole
<1>9. \A k \in 1..itab[f].size :
        At(w.disk, BlockRead(w.disk, itab[f], k - 1))
          = At(disk, BlockRead(disk, itab[f], k - 1))
  <2> TAKE k \in 1..itab[f].size
  <2>1. itab[f].size \in Nat /\ itab[f].size <= NDIR + PTRS /\ k - 1 \in Nat
        /\ k - 1 < itab[f].size /\ k \in Int
    BY <1>1, <1>3 DEF Single
  <2>2. CASE k - 1 < NDIR
    <3>1. k - 1 \in 0..IND
      BY <2>1, <2>2, PlacesDef DEF IND
    <3>2. itab[f].i_block[k - 1] \in Theirs
      BY <1>1, <1>6, <2>1, <3>1
    <3>3. /\ BlockRead(w.disk, itab[f], k - 1) = itab[f].i_block[k - 1]
          /\ BlockRead(disk, itab[f], k - 1) = itab[f].i_block[k - 1]
      BY <2>2 DEF BlockRead
    <3>4. QED
      BY <1>2, <1>4, <3>2, <3>3 DEF At
  <2>3. CASE k - 1 >= NDIR
    <3> DEFINE c == k - 1 - NDIR
               p == itab[f].i_block[IND]
    <3>1. c \in Cell /\ NDIR + c < itab[f].size /\ k - 1 < NDIR + PTRS
          /\ ~(k - 1 < NDIR)
      BY <2>1, <2>3, PlacesDef DEF Cell
    <3>2. /\ BlockRead(w.disk, itab[f], k - 1) = At(w.disk, p)[c]
          /\ BlockRead(disk, itab[f], k - 1) = At(disk, p)[c]
      BY <3>1 DEF BlockRead
    <3>3. IND \in 0..IND /\ IND < itab[f].size
      BY <2>1, <3>1, IndirectBefore DEF Within
    <3>4. p \in Theirs
      BY <1>1, <1>6, <3>3
    <3> HIDE DEF c
    <3>5. w.disk[p][c] \in Theirs
      BY <1>1, <1>7, <3>1
    <3>6. At(w.disk, p)[c] = w.disk[p][c] /\ At(disk, p)[c] = w.disk[p][c]
      BY <1>2, <1>4, <3>4 DEF At
    <3>7. QED
      BY <1>2, <1>4, <3>2, <3>5, <3>6 DEF At
  <2>4. QED
    BY <2>1, <2>2, <2>3, PlacesDef
<1>10. QED
  BY <1>8, <1>9 DEF Contents

-----------------------------------------------------------------------------
(***************************************************************************)
(* The copy                                                                *)
(***************************************************************************)
\* E is what the other inodes point to, K the number of pointers of the
\* copy's inode that are set, n that of its blocks of data, q their contents.
Direct(E, w, K) ==
  \A k \in 0..IND : k < K =>
    /\ w.ip.i_block[k] \in w.bmap /\ w.ip.i_block[k] \notin E
    /\ \A j \in 0..DIND : w.ip.i_block[j] = w.ip.i_block[k] => j = k
    /\ \A b \in Block, c \in Cell : w.disk[b][c] # w.ip.i_block[k]

Indirect(E, w, n) ==
  \A c \in Cell : Within(c, n) =>
    LET x == w.disk[w.ip.i_block[IND]][c] IN
    /\ x \in w.bmap /\ x \notin E
    /\ \A j \in 0..DIND : w.ip.i_block[j] # x
    /\ \A b \in Block, e \in Cell :
         w.disk[b][e] = x => b = w.ip.i_block[IND] /\ e = c

Unset(w, K, n) ==
  /\ \A k \in 0..IND : k >= K => w.ip.i_block[k] = 0
  /\ K > NDIR => \A c \in Cell : ~Within(c, n) => w.disk[w.ip.i_block[IND]][c] = 0

Holds(q, w, n) ==
  /\ \A k \in 0..(NDIR - 1) : k < n => w.disk[w.ip.i_block[k]] = q[k + 1]
  /\ \A c \in Cell : Within(c, n) =>
       w.disk[w.disk[w.ip.i_block[IND]][c]] = q[NDIR + c + 1]

Part(E, q, w, K, n) ==
  Direct(E, w, K) /\ Indirect(E, w, n) /\ Unset(w, K, n) /\ Holds(q, w, n)

\* All pointers are to marked blocks.
Sound(E, w) ==
  /\ w \in Walk /\ E \subseteq w.bmap \cup {0}
  /\ \A j \in 0..DIND : w.ip.i_block[j] \in w.bmap \cup {0}
  /\ \A b \in Block, c \in Cell :
       w.disk[b][c] \in Block => w.disk[b][c] \in w.bmap \cup {0}

\* Contents with no number of a block of the copy, nor of a free one.
Foreign(y, w, K, n) ==
  /\ y \in [Cell -> Nat]
  /\ \A c \in Cell :
       /\ y[c] \in Block => y[c] \in w.bmap \cup {0}
       /\ \A k \in 0..IND : k < K => y[c] # w.ip.i_block[k]
       /\ \A e \in Cell : Within(e, n) => y[c] # w.disk[w.ip.i_block[IND]][e]

\* Walk v has a block x more than w: its contents are y, and pointer n of the
\* inode is to it.
Linked(w, n, x, y, v) ==
  /\ x \in Block \ {0} /\ x \notin w.bmap /\ v \in Walk
  /\ v.bmap = w.bmap \cup {x}
  /\ \A j \in 0..DIND : v.ip.i_block[j] = IF j = n THEN x ELSE w.ip.i_block[j]
  /\ \A b \in Block : v.disk[b] = IF b = x THEN y ELSE w.disk[b]

\* Walk v has n + 1 pointers, and the contents of the direct blocks before.
OnePointerMore(E, q, v, n) ==
  /\ Direct(E, v, n + 1)
  /\ \A c \in Cell : ~Within(c, n)
  /\ \A k \in 0..IND : k >= n + 1 => v.ip.i_block[k] = 0
  /\ \A k \in 0..(NDIR - 1) : k < n => v.disk[v.ip.i_block[k]] = q[k + 1]

\* The next pointer of the inode is set, to a block that gets contents y.
LEMMA DirectAdded ==
  ASSUME NEW E, NEW q, NEW w, Sound(E, w), NEW n \in Nat, n <= NDIR,
         Part(E, q, w, n, n), NEW y, Foreign(y, w, n, n), NEW x, NEW v, Linked(w, n, x, y, v)
  PROVE  OnePointerMore(E, q, v, n)
<1>0. /\ x \in Block \ {0} /\ x \notin w.bmap /\ v \in Walk
      /\ v.bmap = w.bmap \cup {x}
      /\ \A j \in 0..DIND : v.ip.i_block[j] = IF j = n THEN x ELSE w.ip.i_block[j]
      /\ \A b \in Block : v.disk[b] = IF b = x THEN y ELSE w.disk[b]
  BY DEF Linked
<1>1. /\ w \in Walk /\ w.bmap \subseteq Block \ {0} /\ w.disk \in Disks
      /\ \A j \in 0..DIND : w.ip.i_block[j] \in w.bmap \cup {0}
      /\ \A b \in Block, c \in Cell :
           w.disk[b][c] \in Block => w.disk[b][c] \in w.bmap \cup {0}
      /\ E \subseteq w.bmap \cup {0}
  BY DEF Sound, Walk
<1>2. \A k \in 0..IND : k \in 0..DIND
  BY PlacesDef DEF IND, DIND
<1>3. \A c \in Cell : ~Within(c, n)
  BY PlacesDef DEF Within, Cell
<1>4. ASSUME NEW k \in 0..IND, k < n + 1
      PROVE  /\ v.ip.i_block[k] \in v.bmap /\ v.ip.i_block[k] \notin E
             /\ \A j \in 0..DIND : v.ip.i_block[j] = v.ip.i_block[k] => j = k
             /\ \A b \in Block, c \in Cell : v.disk[b][c] # v.ip.i_block[k]
  <2>1. CASE k = n
    <3>1. v.ip.i_block[k] = x
      BY <1>0, <1>2, <2>1
    <3>2. x \in v.bmap /\ x \notin E
      BY <1>0, <1>1
    <3>3. \A j \in 0..DIND : v.ip.i_block[j] = x => j = k
      BY <1>0, <1>1, <2>1
    <3>4. ASSUME NEW b \in Block, NEW c \in Cell PROVE v.disk[b][c] # x
      BY <1>0, <1>1 DEF Foreign
    <3>5. QED
      BY <1>0, <3>1, <3>2, <3>3, <3>4
  <2>2. CASE k # n
    <3> DEFINE z == w.ip.i_block[k]
    <3>1. k < n
      BY <1>0, <1>4, <2>2
    <3>2. /\ z \in w.bmap /\ z \notin E
          /\ \A j \in 0..DIND : w.ip.i_block[j] = z => j = k
          /\ \A b \in Block, c \in Cell : w.disk[b][c] # z
          /\ \A c \in Cell : y[c] # z
      BY <1>0, <3>1 DEF Part, Direct, Foreign
    <3>3. v.ip.i_block[k] = z /\ z # x
      BY <1>0, <1>2, <2>2, <3>2
    <3> HIDE DEF z
    <3>4. \A j \in 0..DIND : v.ip.i_block[j] = z => j = k
      BY <1>0, <3>2, <3>3
    <3>5. \A b \in Block, c \in Cell : v.disk[b][c] # z
      BY <1>0, <3>2
    <3>6. QED
      BY <1>0, <3>2, <3>3, <3>4, <3>5
  <2>3. QED
    BY <1>0, <2>1, <2>2
<1>5. ASSUME NEW k \in 0..(NDIR - 1), k < n
      PROVE  v.disk[v.ip.i_block[k]] = q[k + 1]
  <2>1. k \in 0..IND /\ k \in 0..DIND /\ k # n
    BY <1>0, <1>5, PlacesDef DEF IND, DIND
  <2>2. v.ip.i_block[k] = w.ip.i_block[k] /\ w.ip.i_block[k] \in w.bmap
    BY <1>0, <1>5, <2>1 DEF Part, Direct
  <2>3. w.ip.i_block[k] # x /\ w.ip.i_block[k] \in Block
    BY <1>0, <1>1, <2>2
  <2>4. v.disk[v.ip.i_block[k]] = w.disk[w.ip.i_block[k]]
    BY <1>0, <2>2, <2>3
  <2>5. QED
    BY <1>0, <1>5, <2>4 DEF Part, Holds
<1>6. \A k \in 0..IND : k >= n + 1 => v.ip.i_block[k] = 0
  BY <1>0, <1>2 DEF Part, Unset
<1>7. QED
  BY <1>3, <1>4, <1>5, <1>6 DEF Direct, OnePointerMore

\* Walk v has a block x more than w: its contents are y, and it is in cell e
\* of the block of pointers.
Extended(w, e, x, y, v) ==
  /\ x \in Block \ {0} /\ x \notin w.bmap /\ v \in Walk
  /\ v.bmap = w.bmap \cup {x} /\ v.ip.i_block = w.ip.i_block
  /\ \A b \in Block : b # x /\ b # w.ip.i_block[IND] => v.disk[b] = w.disk[b]
  /\ v.disk[x] = y
  /\ \A c \in Cell : v.disk[w.ip.i_block[IND]][c]
                      = IF c = e THEN x ELSE w.disk[w.ip.i_block[IND]][c]

\* The next cell of the block of pointers is set, to a block that gets y.
LEMMA IndirectAdded ==
  ASSUME NEW E, NEW q, NEW w, Sound(E, w), NEW K \in Nat, K > NDIR,
         NEW e \in Cell, NEW n, n = NDIR + e, Part(E, q, w, K, n),
         NEW y, Foreign(y, w, K, n), y = q[n + 1],
         NEW x, NEW v, Extended(w, e, x, y, v)
  PROVE  Part(E, q, v, n + 1, n + 1)
<1> DEFINE p == w.ip.i_block[IND]
<1>0. /\ x \in Block \ {0} /\ x \notin w.bmap /\ v \in Walk
      /\ v.bmap = w.bmap \cup {x} /\ v.ip.i_block = w.ip.i_block
      /\ \A b \in Block : b # x /\ b # p => v.disk[b] = w.disk[b]
      /\ v.disk[x] = y
      /\ \A c \in Cell : v.disk[p][c] = IF c = e THEN x ELSE w.disk[p][c]
  BY DEF Extended
<1>1. /\ w \in Walk /\ w.bmap \subseteq Block \ {0} /\ w.disk \in Disks
      /\ \A j \in 0..DIND : w.ip.i_block[j] \in w.bmap \cup {0}
      /\ \A b \in Block, c \in Cell :
           w.disk[b][c] \in Block => w.disk[b][c] \in w.bmap \cup {0}
      /\ E \subseteq w.bmap \cup {0}
  BY DEF Sound, Walk
<1>2. n \in Nat /\ n >= NDIR /\ NDIR \in Nat /\ e \in Nat
  BY <1>0, PlacesDef
<1>3. IND \in 0..IND /\ IND \in 0..DIND /\ IND < K
  BY PlacesDef DEF IND
<1>4. p \in w.bmap /\ p # x /\ \A b \in Block, c \in Cell : w.disk[b][c] # p
  BY <1>0, <1>1, <1>3 DEF Part, Direct
<1>5. \A b \in Block, c \in Cell :
        \/ b = x /\ v.disk[b][c] = y[c]
        \/ b = p /\ c = e /\ v.disk[b][c] = x
        \/ b # x /\ (b # p \/ c # e) /\ v.disk[b][c] = w.disk[b][c]
  BY <1>0, <1>4
<1>6. ASSUME NEW k \in 0..IND
      PROVE  /\ v.ip.i_block[k] \in v.bmap /\ v.ip.i_block[k] \notin E
             /\ \A j \in 0..DIND : v.ip.i_block[j] = v.ip.i_block[k] => j = k
             /\ \A b \in Block, c \in Cell : v.disk[b][c] # v.ip.i_block[k]
             /\ k < NDIR => k < n
  <2> DEFINE z == w.ip.i_block[k]
  <2>1. k < K
    BY PlacesDef DEF IND
  <2>2. /\ z \in w.bmap /\ z \notin E
        /\ \A j \in 0..DIND : w.ip.i_block[j] = z => j = k
        /\ \A b \in Block, c \in Cell : w.disk[b][c] # z
        /\ \A c \in Cell : y[c] # z
    BY <1>0, <2>1 DEF Part, Direct, Foreign
  <2>3. z # x
    BY <1>0, <2>2
  <2> HIDE DEF z
  <2>4. \A b \in Block, c \in Cell : v.disk[b][c] # z
    BY <1>0, <1>5, <2>2, <2>3
  <2>5. k < NDIR => k < n
    BY <1>0, <1>2
  <2>6. QED
    BY <1>0, <2>2, <2>4, <2>5 DEF z
<1>7. \A c \in Cell : Within(c, n + 1) <=> Within(c, n) \/ c = e
  BY <1>0, <1>2, PlacesDef DEF Within, Cell
<1>8. ~Within(e, n)
  BY <1>0, <1>2 DEF Within
<1> HIDE DEF p
<1>9. ASSUME NEW c \in Cell, Within(c, n), NEW z, z = w.disk[p][c]
      PROVE  /\ v.disk[p][c] = z /\ z \in w.bmap /\ z \notin E /\ z # x /\ z # p
             /\ \A j \in 0..DIND : w.ip.i_block[j] # z
             /\ \A b \in Block, f \in Cell : v.disk[b][f] = z => b = p /\ f = c
  <2>1. /\ z \in w.bmap /\ z \notin E
        /\ \A j \in 0..DIND : w.ip.i_block[j] # z
        /\ \A b \in Block, f \in Cell : w.disk[b][f] = z => b = p /\ f = c
    BY <1>0, <1>9 DEF Part, Indirect, p
  <2>2. \A f \in Cell : y[f] # z
    BY <1>0, <1>9 DEF Foreign, p
  <2>3. z # x /\ c # e /\ z # p
    BY <1>0, <1>3, <1>8, <1>9, <2>1 DEF p
  <2>4. v.disk[p][c] = z
    BY <1>0, <1>9, <2>3 DEF p
  <2>5. \A b \in Block, f \in Cell : v.disk[b][f] = z => b = p /\ f = c
    BY <1>0, <1>5, <2>1, <2>2, <2>3
  <2>6. QED
    BY <1>0, <2>1, <2>3, <2>4, <2>5
<1>10. v.disk[p][e] = x
  BY <1>0
<1>11. /\ x \notin E /\ \A j \in 0..DIND : w.ip.i_block[j] # x
       /\ \A b \in Block, f \in Cell : v.disk[b][f] = x => b = p /\ f = e
  <2>1. x \notin E /\ \A j \in 0..DIND : w.ip.i_block[j] # x
    BY <1>0, <1>1
  <2>2. \A f \in Cell : y[f] # x
    BY <1>0, <1>1 DEF Foreign
  <2>3. \A b \in Block, f \in Cell : w.disk[b][f] # x
    BY <1>0, <1>1
  <2>4. QED
    BY <1>0, <1>5, <2>1, <2>2, <2>3
<1>12. Direct(E, v, n + 1)
  BY <1>0, <1>6 DEF Direct
<1>13. Indirect(E, v, n + 1)
  <2>1. SUFFICES ASSUME NEW c \in Cell, Within(c, n) \/ c = e
                 PROVE  LET z == v.disk[p][c] IN
                        /\ z \in v.bmap /\ z \notin E
                        /\ \A j \in 0..DIND : v.ip.i_block[j] # z
                        /\ \A b \in Block, f \in Cell :
                             v.disk[b][f] = z => b = p /\ f = c
    BY <1>0, <1>7 DEF Indirect, p
  <2>2. CASE Within(c, n)
    BY <1>0, <1>9, <2>2
  <2>3. CASE c = e
    BY <1>0, <1>10, <1>11, <2>3
  <2>4. QED
    BY <1>0, <2>1, <2>2, <2>3
<1>14. Unset(v, n + 1, n + 1)
  <2>1. \A k \in 0..IND : ~(k >= n + 1)
    BY <1>0, <1>2 DEF IND
  <2>2. ASSUME NEW c \in Cell, ~Within(c, n + 1) PROVE v.disk[p][c] = 0
    <3>1. c # e /\ ~Within(c, n)
      BY <1>0, <1>7, <2>2
    <3>2. w.disk[p][c] = 0
      BY <1>0, <3>1 DEF Part, Unset, p
    <3>3. QED
      BY <1>0, <3>1, <3>2 DEF p
  <2>3. QED
    BY <1>0, <2>1, <2>2 DEF Unset, p
<1>15. Holds(q, v, n + 1)
  <2>1. ASSUME NEW k \in 0..(NDIR - 1)
        PROVE  v.disk[v.ip.i_block[k]] = q[k + 1]
    <3>1. k \in 0..IND /\ k \in 0..DIND /\ k < n /\ k # IND /\ k < K
      BY <1>0, <1>2, PlacesDef DEF IND, DIND
    <3>2. w.ip.i_block[k] \in w.bmap /\ w.ip.i_block[k] # p
      BY <1>0, <1>3, <3>1 DEF Part, Direct, p
    <3>3. v.disk[w.ip.i_block[k]] = w.disk[w.ip.i_block[k]]
      BY <1>0, <1>1, <3>2 DEF p
    <3>4. QED
      BY <1>0, <3>1, <3>3 DEF Part, Holds
  <2>2. ASSUME NEW c \in Cell, Within(c, n)
        PROVE  v.disk[v.disk[p][c]] = q[NDIR + c + 1]
    <3> DEFINE z == w.disk[p][c]
    <3>1. v.disk[p][c] = z /\ z \in w.bmap /\ z # x /\ z # p
      BY <1>0, <1>9, <2>2
    <3>2. w.disk[z] = q[NDIR + c + 1]
      BY <1>0, <2>2 DEF Part, Holds, p
    <3> HIDE DEF z
    <3>3. QED
      BY <1>0, <1>1, <3>1, <3>2 DEF p
  <2>3. ASSUME NEW c \in Cell, c = e
        PROVE  v.disk[v.disk[p][c]] = q[NDIR + c + 1]
    BY <1>0, <1>10, <2>3
  <2>4. QED
    BY <1>0, <1>7, <2>1, <2>2, <2>3 DEF Holds, p
<1>16. QED
  BY <1>0, <1>12, <1>13, <1>14, <1>15 DEF Part

\* What the inodes other than the copy's point to.
Elsewhere == {Views[p[1]].i_block[p[2]] : p \in (File \ {job.dst}) \X (0..DIND)}

LEMMA ElsewhereIs ==
  /\ \A g \in File \ {job.dst}, j \in 0..DIND : Views[g].i_block[j] \in Elsewhere
  /\ \A x \in Elsewhere : \E g \in File \ {job.dst}, j \in 0..DIND :
       x = Views[g].i_block[j]
<1>1. ASSUME NEW g \in File \ {job.dst}, NEW j \in 0..DIND
      PROVE  Views[g].i_block[j] \in Elsewhere
  <2>1. <<g, j>> \in (File \ {job.dst}) \X (0..DIND)
    OBVIOUS
  <2>2. QED
    BY <2>1 DEF Elsewhere
<1>2. QED
  BY <1>1 DEF Elsewhere

\* A walk that kept the blocks of the others is sound, and so is the file system.
LEMMA SoundKept ==
  ASSUME IInv, job.on, NEW w, Kept(Theirs, disk, bmap, w)
  PROVE  /\ Sound(Elsewhere, w)
         /\ \A W \in [File -> INODE] :
              /\ \A g \in File \ {job.dst} : W[g] = Views[g]
              /\ W[job.dst].i_block = w.ip.i_block
              => Marked(w.disk, w.bmap, W)
<1>1. /\ Placed /\ Views \in [File -> INODE] /\ job.dst \in File
      /\ w \in Walk /\ bmap \subseteq w.bmap
  BY ViewsAre DEF IInv, Shapes, Files, Kept
<1>2. \A g \in File : \A j \in 0..DIND : Views[g].i_block[j] \in bmap \cup {0}
  BY <1>1 DEF Placed, Marked
<1>3. Elsewhere \subseteq w.bmap \cup {0}
  <2>1. ASSUME NEW x \in Elsewhere PROVE x \in w.bmap \cup {0}
    <3>1. PICK g \in File \ {job.dst}, j \in 0..DIND : x = Views[g].i_block[j]
      BY <2>1, ElsewhereIs
    <3>2. QED
      BY <1>1, <1>2, <3>1
  <2>2. QED
    BY <2>1
<1>4. /\ \A j \in 0..DIND : w.ip.i_block[j] \in w.bmap \cup {0}
      /\ \A b \in Block, c \in Cell :
           w.disk[b][c] \in Block => w.disk[b][c] \in w.bmap \cup {0}
  BY DEF Kept, Away
<1>5. ASSUME NEW W \in [File -> INODE],
             \A g \in File \ {job.dst} : W[g] = Views[g],
             W[job.dst].i_block = w.ip.i_block
      PROVE  Marked(w.disk, w.bmap, W)
  <2>1. \A g \in File : \A j \in 0..DIND : W[g].i_block[j] \in w.bmap \cup {0}
    BY <1>1, <1>2, <1>4, <1>5
  <2>2. QED
    BY <1>4, <2>1 DEF Marked
<1>6. QED
  BY <1>1, <1>3, <1>4, <1>5 DEF Sound

\* The copy as the invariant has it, before its next block.
LEMMA FirstPart ==
  ASSUME IInv, job.on, job.dst \in Fit
  PROVE  Part(Elsewhere, want[job.dst], Start, job.offset, job.offset)
<1> DEFINE t == job.dst
           n == job.offset
           E == Elsewhere
           q == want[t]
<1>1. /\ Typed /\ Shapes /\ Cleared /\ Copying /\ Owned
      /\ Views \in [File -> INODE] /\ t \in File /\ Views[t] = job.ip
      /\ job.ip.size = n /\ n \in Nat /\ n <= Single
  <2>1. /\ Typed /\ Shapes /\ Cleared /\ Copying /\ Owned
    BY DEF IInv
  <2>2. /\ t \in File /\ job.ip.size = n /\ n \in Nat
    BY <2>1 DEF Shapes, Files, Typed, TypeOK
  <2>3. /\ Views \in [File -> INODE] /\ Views[t] = job.ip
    BY <2>1, <2>2, ViewsAre
  <2>4. n <= Single
    BY <2>1, <2>2, <2>3, FitIsSingle
  <2>5. QED
    BY <2>1, <2>2, <2>3, <2>4
<1>2. Sole(disk, bmap, Views, t)
  BY <1>1 DEF Owned
<1>3. /\ Start.disk = disk /\ Start.bmap = bmap /\ Start.ip = job.ip
      /\ disk \in Disks /\ bmap \subseteq Block \ {0}
  BY <1>1 DEF Start, Typed, TypeOK, Disks
<1>4. \A x \in E : \E g \in File \ {t}, j \in 0..DIND : x = Views[g].i_block[j]
  BY ElsewhereIs
<1> HIDE DEF E
<1>5. ASSUME NEW k \in 0..IND, k < n
      PROVE  /\ job.ip.i_block[k] \in bmap /\ job.ip.i_block[k] \notin E
             /\ \A j \in 0..DIND : job.ip.i_block[j] = job.ip.i_block[k] => j = k
             /\ \A b \in Block, c \in Cell : disk[b][c] # job.ip.i_block[k]
  <2>1. /\ Views[t].i_block[k] \in bmap
        /\ \A g \in File : \A j \in 0..DIND :
             Views[g].i_block[j] = Views[t].i_block[k] => g = t /\ j = k
        /\ \A b \in Block, c \in Cell : disk[b][c] # Views[t].i_block[k]
    BY <1>1, <1>2, <1>5 DEF Sole
  <2>2. QED
    BY <1>1, <1>4, <2>1
<1>6. ASSUME NEW c \in Cell, Within(c, n), NEW x, x = disk[job.ip.i_block[IND]][c]
      PROVE  /\ x \in bmap /\ x \notin E
             /\ \A j \in 0..DIND : job.ip.i_block[j] # x
             /\ \A b \in Block, e \in Cell :
                  disk[b][e] = x => b = job.ip.i_block[IND] /\ e = c
  <2>1. /\ x \in bmap
        /\ \A g \in File : \A j \in 0..DIND : Views[g].i_block[j] # x
        /\ \A b \in Block, e \in Cell :
             disk[b][e] = x => b = Views[t].i_block[IND] /\ e = c
    BY <1>1, <1>2, <1>6 DEF Sole, Within
  <2>2. QED
    BY <1>1, <1>4, <2>1
<1>7. Direct(E, Start, n) /\ Indirect(E, Start, n)
  BY <1>3, <1>5, <1>6 DEF Direct, Indirect
<1>8. Unset(Start, n, n)
  BY <1>1, <1>3, PlacesDef DEF Cleared, Unset, Within, Cell
<1>9. \A k \in 1..n : At(disk, BlockRead(disk, job.ip, k - 1)) = q[k]
  BY <1>1 DEF Copying
<1>10. Holds(q, Start, n)
  <2>1. ASSUME NEW k \in 0..(NDIR - 1), k < n
        PROVE  disk[job.ip.i_block[k]] = q[k + 1]
    <3>1. k \in 0..IND /\ k \in Nat /\ k < NDIR /\ k + 1 \in 1..n /\ (k + 1) - 1 = k
      BY <1>1, <2>1, PlacesDef DEF IND
    <3>2. job.ip.i_block[k] \in Block
      BY <1>3, <1>5, <2>1, <3>1
    <3>3. BlockRead(disk, job.ip, k) = job.ip.i_block[k]
      BY <3>1 DEF BlockRead
    <3>4. QED
      BY <1>9, <3>1, <3>2, <3>3 DEF At
  <2>2. ASSUME NEW c \in Cell, Within(c, n)
        PROVE  disk[disk[job.ip.i_block[IND]][c]] = q[NDIR + c + 1]
    <3> DEFINE k == NDIR + c
    <3>1. /\ k \in Nat /\ ~(k < NDIR) /\ k < NDIR + PTRS /\ k + 1 \in 1..n
          /\ (k + 1) - 1 = k /\ k - NDIR = c
      BY <1>1, <2>2, PlacesDef DEF Within, Cell
    <3>2. IND \in 0..IND /\ IND < n
      BY <1>1, <2>2, IndirectBefore
    <3>3. job.ip.i_block[IND] \in Block
      BY <1>3, <1>5, <3>2
    <3>4. BlockRead(disk, job.ip, k) = disk[job.ip.i_block[IND]][c]
      BY <3>1, <3>3 DEF BlockRead, At
    <3>5. disk[job.ip.i_block[IND]][c] \in Block
      BY <1>3, <1>6, <2>2
    <3> HIDE DEF k
    <3>6. disk[disk[job.ip.i_block[IND]][c]] = q[k + 1]
      BY <1>9, <3>1, <3>4, <3>5 DEF At
    <3>7. QED
      BY <3>6 DEF k
  <2>3. QED
    BY <1>3, <2>1, <2>2 DEF Holds
<1>11. QED
  BY <1>7, <1>8, <1>10 DEF Part, E

\* The block a cell of the pointer block is given.
LEMMA PointedPart ==
  ASSUME NEW E, NEW q, NEW w, Sound(E, w), NEW K \in Nat, K > NDIR,
         NEW e \in Cell, NEW n, n = NDIR + e, Part(E, q, w, K, n),
         w.got = w.ip.i_block[IND], NEW y, Foreign(y, w, K, n), y = q[n + 1],
         NEW r, r = Pointed(w, w.got, e), ~r.full,
         NEW v \in Walk, v.disk = Put(r.disk, r.got, y), v.bmap = r.bmap,
         v.ip.i_block = r.ip.i_block
  PROVE  Part(E, q, v, n + 1, n + 1) /\ ~w.full /\ Free(w) # {}
<1> DEFINE p == w.got
           a == balloc(w)
           x == a.got
           z == [At(w.disk, p) EXCEPT ![e] = x]
<1>1. w \in Walk /\ w.disk \in Disks /\ w.bmap \subseteq Block \ {0}
      /\ y \in [Cell -> Nat]
  BY DEF Sound, Walk, Foreign
<1>2. IND \in 0..IND /\ IND < K /\ ~Within(e, n)
  BY PlacesDef DEF IND, Within
<1>3. p \in w.bmap /\ p \in Block /\ w.disk[p][e] = 0
  BY <1>1, <1>2 DEF Part, Direct, Unset
<1>4. At(w.disk, p) = w.disk[p] /\ w.disk[p] \in [Cell -> Nat]
  BY <1>1, <1>3 DEF At, Disks
<1>5. /\ r \in Walk /\ r.disk = Put(w.disk, p, z) /\ r.bmap = a.bmap
      /\ r.ip = w.ip /\ r.got = a.got /\ r.full = a.full
  BY <1>1, <1>3, <1>4, PointedIs
<1>6. /\ a \in Walk /\ a.disk = w.disk /\ a.ip = w.ip
      /\ Free(w) # {} /\ a.got \in Free(w) /\ a.full = w.full
      /\ a.bmap = w.bmap \cup {a.got}
  BY <1>1, <1>5, ballocIs
<1>7. x \in Block \ {0} /\ x \notin w.bmap /\ x \in Nat /\ x # p
  BY <1>3, <1>6, FileDataAssumption DEF Free
<1> HIDE DEF a, p
<1>8. /\ z \in [Cell -> Nat]
      /\ \A c \in Cell : z[c] = IF c = e THEN x ELSE w.disk[p][c]
  BY <1>4, <1>7
<1> HIDE DEF z, x
<1>9. \A b \in Block : r.disk[b] = IF b = p THEN z ELSE w.disk[b]
  BY <1>1, <1>5, <1>8, PutIsDisk
<1>10. \A b \in Block : v.disk[b] = IF b = x THEN y ELSE r.disk[b]
  <2>1. r.disk \in Disks /\ r.got = x
    BY <1>5 DEF Walk, x
  <2>2. QED
    BY <1>1, <2>1, PutIsDisk
<1>11. /\ v.bmap = w.bmap \cup {x} /\ v.ip.i_block = w.ip.i_block
       /\ v.disk[x] = y
       /\ \A b \in Block : b # x /\ b # p => v.disk[b] = w.disk[b]
       /\ \A c \in Cell : v.disk[p][c] = IF c = e THEN x ELSE w.disk[p][c]
  <2>1. v.bmap = w.bmap \cup {x} /\ v.ip.i_block = w.ip.i_block
    BY <1>5, <1>6 DEF x
  <2>2. v.disk[p] = z
    BY <1>3, <1>7, <1>9, <1>10
  <2>3. QED
    BY <1>7, <1>8, <1>9, <1>10, <2>1, <2>2
<1>12. Extended(w, e, x, y, v)
  BY <1>7, <1>11 DEF Extended, p
<1>13. Part(E, q, v, n + 1, n + 1)
  BY <1>12, IndirectAdded
<1>14. QED
  BY <1>5, <1>6, <1>13

\* BlockWrite of a direct block, field by field.
LEMMA DirectWriteIs ==
  ASSUME NEW w \in Walk, NEW n \in Nat, n < NDIR, w.ip.i_block[n] = 0
  PROVE  /\ BlockWrite(w, n) \in Walk
         /\ BlockWrite(w, n).disk = w.disk
         /\ BlockWrite(w, n).bmap = balloc(w).bmap
         /\ BlockWrite(w, n).got = balloc(w).got
         /\ BlockWrite(w, n).full = balloc(w).full
         /\ BlockWrite(w, n).ip = Pointing(w.ip, n, balloc(w).got)
<1> DEFINE a == balloc(w)
           ip == Pointing(a.ip, n, a.got)
           v == [a EXCEPT !.ip = ip]
<1>1. a \in Walk /\ a.disk = w.disk /\ a.ip = w.ip /\ n \in 0..DIND
  BY ballocIs, PlacesDef
<1>2. BlockWrite(w, n) = [a EXCEPT !.ip.i_block[n] = a.got]
  BY DEF BlockWrite
<1> HIDE DEF a
<1>3. a.got \in Nat /\ a.ip \in INODE
  BY <1>1 DEF Walk
<1>4. BlockWrite(w, n) = v
  BY <1>1, <1>2, <1>3, SetPointer
<1>5. ip \in INODE
  BY <1>1, <1>3, PointerSet
<1> HIDE DEF ip
<1>6. /\ v \in Walk /\ v.disk = a.disk /\ v.bmap = a.bmap /\ v.ip = ip
      /\ v.got = a.got /\ v.full = a.full
  BY <1>1, <1>5, InodeSet
<1> HIDE DEF v
<1>7. QED
  BY <1>1, <1>4, <1>6 DEF a, ip

\* What is foreign to a walk is foreign to it with one pointer more, to a
\* block that was free.
LEMMA ForeignNext ==
  ASSUME NEW E, NEW w, Sound(E, w), NEW y, Foreign(y, w, NDIR, NDIR), NEW v \in Walk,
         NEW x \in Block \ {0}, x \notin w.bmap, v.bmap = w.bmap \cup {x},
         \A j \in 0..DIND : v.ip.i_block[j] = IF j = IND THEN x ELSE w.ip.i_block[j]
  PROVE  Foreign(y, v, NDIR + 1, NDIR)
<1>1. y \in [Cell -> Nat] /\ \A c \in Cell : ~Within(c, NDIR)
  BY PlacesDef DEF Foreign, Within, Cell
<1>2. ASSUME NEW c \in Cell
      PROVE  /\ y[c] \in Block => y[c] \in v.bmap \cup {0}
             /\ \A k \in 0..IND : y[c] # v.ip.i_block[k]
  <2>1. y[c] \in Block => y[c] \in w.bmap \cup {0}
    BY DEF Foreign
  <2>2. ASSUME NEW k \in 0..IND PROVE y[c] # v.ip.i_block[k]
    <3>1. k \in 0..DIND /\ IND = NDIR
      BY PlacesDef DEF IND, DIND
    <3>2. CASE k = IND
      BY <2>1, <3>1, <3>2
    <3>3. CASE k # IND
      <4>1. k < NDIR
        BY <3>1, <3>3, PlacesDef
      <4>2. y[c] # w.ip.i_block[k]
        BY <4>1 DEF Foreign
      <4>3. QED
        BY <3>1, <3>3, <4>2
    <3>4. QED
      BY <3>2, <3>3
  <2>3. QED
    BY <2>1, <2>2
<1>3. QED
  BY <1>1, <1>2 DEF Foreign

\* A step of mywrite that failed stays so.
LEMMA FullStays ==
  ASSUME NEW w \in Walk, NEW b, NEW c \in Cell, w.full
  PROVE  Pointed(w, b, c).full
<1>1. w.full = TRUE
  BY DEF Walk
<1>2. CASE At(w.disk, b)[c] # 0
  <2>1. w.disk \in Disks
    BY DEF Walk
  <2>2. At(w.disk, b)[c] \in Nat
    BY <2>1, AtIsBlock
  <2>3. Got(w, At(w.disk, b)[c]).full = w.full
    BY <2>2, GotIs
  <2>4. Pointed(w, b, c) = Got(w, At(w.disk, b)[c])
    BY <1>2, PointedIs
  <2>5. QED
    BY <1>1, <2>3, <2>4
<1>3. CASE At(w.disk, b)[c] = 0
  BY <1>1, <1>3, PointedIs, ballocIs
<1>4. QED
  BY <1>2, <1>3

\* A direct block.
LEMMA DirectPart ==
  ASSUME NEW E, NEW q, NEW w, Sound(E, w), NEW n \in Nat, n < NDIR,
         Part(E, q, w, n, n), NEW y, Foreign(y, w, n, n), y = q[n + 1],
         NEW b, b = BlockWrite(w, n), ~b.full,
         NEW v \in Walk, v.disk = Put(b.disk, b.got, y), v.bmap = b.bmap,
         v.ip.i_block = b.ip.i_block
  PROVE  Part(E, q, v, n + 1, n + 1) /\ Free(w) # {}
<1> DEFINE a == balloc(w)
           x == a.got
<1>1. /\ w \in Walk /\ w.disk \in Disks /\ w.bmap \subseteq Block \ {0}
      /\ w.ip \in INODE /\ y \in [Cell -> Nat]
  BY DEF Sound, Walk, Foreign
<1>2. n \in 0..IND /\ n \in 0..DIND /\ IND = NDIR
  BY PlacesDef DEF IND
<1>3. w.ip.i_block[n] = 0
  BY <1>2 DEF Part, Unset
<1>4. /\ b.disk = w.disk /\ b.bmap = a.bmap /\ b.got = x
      /\ b.full = a.full /\ b.ip = Pointing(w.ip, n, x)
  BY <1>1, <1>3, DirectWriteIs
<1>5. Free(w) # {} /\ x \in Free(w) /\ a.bmap = w.bmap \cup {x}
  BY <1>1, <1>4, ballocIs
<1>6. x \in Block \ {0} /\ x \notin w.bmap /\ x \in Nat
  BY <1>5, FileDataAssumption DEF Free
<1> HIDE DEF a, x
<1>7. v.disk = Put(w.disk, x, y) /\ v.bmap = w.bmap \cup {x}
      /\ v.ip.i_block = Pointing(w.ip, n, x).i_block
  BY <1>4, <1>5
<1>8. \A j \in 0..DIND : Pointing(w.ip, n, x).i_block[j]
                         = IF j = n THEN x ELSE w.ip.i_block[j]
  <2>1. n \in 0..DIND /\ w.ip \in INODE /\ x \in Nat
    BY <1>1, <1>2, <1>6
  <2>2. QED
    BY <2>1, PointerIs
<1>9. \A j \in 0..DIND : v.ip.i_block[j] = IF j = n THEN x ELSE w.ip.i_block[j]
  BY <1>7, <1>8
<1>10. \A c \in Block : v.disk[c] = IF c = x THEN y ELSE w.disk[c]
  BY <1>1, <1>7, PutIsDisk
<1>11. Linked(w, n, x, y, v)
  BY <1>6, <1>7, <1>9, <1>10 DEF Linked
<1>12. /\ Direct(E, v, n + 1)
       /\ \A k \in 0..IND : k >= n + 1 => v.ip.i_block[k] = 0
       /\ \A k \in 0..(NDIR - 1) : k < n => v.disk[v.ip.i_block[k]] = q[k + 1]
  <2>1. n <= NDIR
    BY PlacesDef
  <2>2. OnePointerMore(E, q, v, n)
    BY <1>11, <2>1, DirectAdded
  <2>3. QED
    BY <2>2 DEF OnePointerMore
<1>13. \A c \in Cell : ~Within(c, n + 1)
  BY PlacesDef DEF Within, Cell
<1>14. v.disk[v.ip.i_block[n]] = q[n + 1]
  BY <1>2, <1>6, <1>9, <1>10
<1>15. Indirect(E, v, n + 1)
  BY <1>13 DEF Indirect
<1>16. Unset(v, n + 1, n + 1)
  <2>1. ~(n + 1 > NDIR)
    BY PlacesDef
  <2>2. QED
    BY <1>12, <2>1 DEF Unset
<1>17. Holds(q, v, n + 1)
  <2>1. \A k \in 0..(NDIR - 1) : k < n + 1 => k < n \/ k = n
    OBVIOUS
  <2>2. \A k \in 0..(NDIR - 1) :
          k < n + 1 => v.disk[v.ip.i_block[k]] = q[k + 1]
    BY <1>12, <1>14, <2>1
  <2>3. QED
    BY <1>13, <2>2 DEF Holds
<1>18. QED
  BY <1>5, <1>12, <1>15, <1>16, <1>17 DEF Part

\* The first block behind the direct ones needs a block of pointers, too.
LEMMA MapPart ==
  ASSUME NEW E, NEW q, NEW w, Sound(E, w), Part(E, q, w, NDIR, NDIR),
         NEW y, Foreign(y, w, NDIR, NDIR),
         NEW p, p = PointerBlock(w, IND), ~p.full
  PROVE  /\ Part(E, q, p, NDIR + 1, NDIR) /\ Foreign(y, p, NDIR + 1, NDIR)
         /\ p.got = p.ip.i_block[IND] /\ Free(w) # {}
<1> DEFINE a == balloc(w)
           x == a.got
<1>1. /\ w \in Walk /\ w.disk \in Disks /\ w.bmap \subseteq Block \ {0}
      /\ w.ip \in INODE
  BY DEF Sound, Walk
<1>2. IND = NDIR /\ IND \in 0..IND /\ IND \in 0..DIND
  BY PlacesDef DEF IND
<1>3. w.ip.i_block[IND] = 0
  BY <1>2 DEF Part, Unset
<1>4. /\ p \in Walk /\ p.disk = Put(w.disk, x, Zero) /\ p.bmap = a.bmap
      /\ p.ip = Pointing(w.ip, IND, x) /\ p.got = x /\ p.full = a.full
  BY <1>1, <1>2, <1>3, PointerBlockIs
<1>5. Free(w) # {} /\ x \in Free(w) /\ a.bmap = w.bmap \cup {x}
  BY <1>1, <1>4, ballocIs
<1>6. x \in Block \ {0} /\ x \notin w.bmap /\ x \in Nat
  BY <1>5, FileDataAssumption DEF Free
<1> HIDE DEF a, x
<1>7. p.bmap = w.bmap \cup {x}
  BY <1>4, <1>5
<1>8. \A j \in 0..DIND : Pointing(w.ip, IND, x).i_block[j]
                         = IF j = IND THEN x ELSE w.ip.i_block[j]
  <2>1. IND \in 0..DIND /\ w.ip \in INODE /\ x \in Nat
    BY <1>1, <1>2, <1>6
  <2>2. QED
    BY <2>1, PointerIs
<1>9. \A j \in 0..DIND : p.ip.i_block[j] = IF j = IND THEN x ELSE w.ip.i_block[j]
  BY <1>4, <1>8
<1>10. \A b \in Block : p.disk[b] = IF b = x THEN Zero ELSE w.disk[b]
  BY <1>1, <1>4, PlacesDef, PutIsDisk
<1>11. \A c \in Cell : Zero[c] = 0
  BY DEF Zero
<1>12. Foreign(Zero, w, NDIR, NDIR)
  <2>1. \A k \in 0..IND : k < NDIR => w.ip.i_block[k] # 0
    BY <1>1 DEF Part, Direct
  <2>2. \A c \in Cell : ~Within(c, NDIR)
    BY PlacesDef DEF Within, Cell
  <2>3. QED
    BY <1>2, <1>11, <2>1, <2>2, PlacesDef DEF Foreign
<1>13. Linked(w, NDIR, x, Zero, p)
  BY <1>2, <1>4, <1>6, <1>7, <1>9, <1>10 DEF Linked
<1>14. /\ Direct(E, p, NDIR + 1)
       /\ \A c \in Cell : ~Within(c, NDIR)
       /\ \A k \in 0..IND : k >= NDIR + 1 => p.ip.i_block[k] = 0
       /\ \A k \in 0..(NDIR - 1) : k < NDIR => p.disk[p.ip.i_block[k]] = q[k + 1]
  <2>1. NDIR \in Nat /\ NDIR <= NDIR
    BY PlacesDef
  <2>2. OnePointerMore(E, q, p, NDIR)
    BY <1>12, <1>13, <2>1, DirectAdded
  <2>3. QED
    BY <2>2 DEF OnePointerMore
<1>15. p.ip.i_block[IND] = x
  BY <1>2, <1>9
<1>16. Part(E, q, p, NDIR + 1, NDIR)
  <2>1. Direct(E, p, NDIR + 1) /\ Indirect(E, p, NDIR)
    BY <1>2, <1>14 DEF Indirect
  <2>2. Holds(q, p, NDIR)
    BY <1>2, <1>14 DEF Holds
  <2>3. Unset(p, NDIR + 1, NDIR)
    BY <1>2, <1>6, <1>10, <1>11, <1>14, <1>15 DEF Unset
  <2>4. QED
    BY <2>1, <2>2, <2>3 DEF Part
<1>17. Foreign(y, p, NDIR + 1, NDIR)
  BY <1>4, <1>6, <1>7, <1>9, ForeignNext
<1>18. QED
  BY <1>4, <1>5, <1>15, <1>16, <1>17

\* The block a walk ends with is no part of what it has done.
LEMMA PartSame ==
  ASSUME NEW E, NEW q, NEW K, NEW n, NEW w, NEW p, Part(E, q, w, K, n),
         p.disk = w.disk, p.bmap = w.bmap, p.ip = w.ip
  PROVE  Part(E, q, p, K, n)
<1>1. Direct(E, p, K)
  BY DEF Part, Direct
<1>2. Indirect(E, p, n)
  BY DEF Part, Indirect
<1>3. Unset(p, K, n)
  BY DEF Part, Unset
<1>4. Holds(q, p, n)
  BY DEF Part, Holds
<1>5. QED
  BY <1>1, <1>2, <1>3, <1>4 DEF Part

\* A block is copied: the copy has one more, if there was room.
LEMMA CopyPart ==
  ASSUME IInv, job.on, job.dst \in Fit, job.offset < Single,
         NEW y, Harmless(Theirs, bmap, y),
         Foreign(y, Start, job.offset, job.offset),
         y = want[job.dst][job.offset + 1],
         NEW v, v = mywrite(Start, job.offset, y), ~v.full
  PROVE  /\ Part(Elsewhere, want[job.dst], v, job.offset + 1, job.offset + 1)
         /\ Free(Start) # {}
<1> DEFINE n == job.offset
           q == want[job.dst]
           E == Elsewhere
           b == BlockWrite(Start, n)
<1>1. /\ Kept(Theirs, disk, bmap, Start) /\ Sound(E, Start)
      /\ Part(E, q, Start, n, n)
  BY StartKept, SoundKept, FirstPart
<1>2. Start \in Walk /\ Start.ip \in INODE /\ Start.disk \in Disks
      /\ Start.bmap \subseteq Block \ {0} /\ y \in [Cell -> Nat]
  BY <1>1 DEF Sound, Walk, Foreign
<1>3. Theirs \subseteq bmap
  BY TheirsAway
<1>4. n \in Nat /\ n < NDIR + PTRS /\ n < Single + PTRS * PTRS
  <2>1. Single \in Nat /\ PTRS * PTRS \in Nat
    BY FileDataAssumption DEF Single
  <2>2. n \in Nat
    BY DEF IInv, Typed, TypeOK
  <2>3. QED
    BY <2>1, <2>2 DEF Single
<1> HIDE DEF E
<1>5. b \in Walk
  <2>1. Kept(Theirs, disk, bmap, b)
    BY <1>1, <1>3, <1>4, BlockWriteKeeps
  <2>2. QED
    BY <2>1 DEF Kept
<1>6. /\ v \in Walk /\ v.disk = Put(b.disk, b.got, y) /\ v.bmap = b.bmap
      /\ v.full = b.full /\ v.ip.i_block = b.ip.i_block
  BY <1>2, <1>4, <1>5, mywriteIs
<1>7. CASE n < NDIR
  <2>1. v.disk = Put(b.disk, b.got, y) /\ v.bmap = b.bmap
        /\ v.ip.i_block = b.ip.i_block /\ ~b.full
    BY <1>6
  <2> HIDE DEF b, q, n
  <2>2. Part(E, q, v, n + 1, n + 1) /\ Free(Start) # {}
    BY <1>1, <1>4, <1>6, <1>7, <2>1, DirectPart DEF b, q, n
  <2>3. QED
    BY <2>2 DEF E, q, n
<1>8. CASE n >= NDIR
  <2> DEFINE p == PointerBlock(Start, IND)
             e == n - NDIR
             r == Pointed(p, p.got, e)
  <2>1. e \in Cell /\ n = NDIR + e /\ IND \in 0..IND /\ IND \in 0..DIND
        /\ IND = NDIR
    BY <1>4, <1>8, PlacesDef DEF Cell, IND
  <2>2. b = r
    BY <1>4, <1>8, PlacesDef DEF BlockWrite
  <2>3. Kept(Theirs, disk, bmap, p)
    BY <1>1, <1>3, <2>1, PointerBlockKeeps
  <2>4. p \in Walk /\ Sound(E, p)
    BY <2>3, SoundKept DEF Sound, E
  <2>5. ~r.full
    BY <1>6, <2>2
  <2>6. ~p.full
    BY <2>1, <2>4, <2>5, FullStays
  <2> HIDE DEF p, b
  <2>7. CASE n = NDIR
    <3>1. Part(E, q, Start, NDIR, NDIR) /\ Foreign(y, Start, NDIR, NDIR)
      BY <1>1, <2>7
    <3>2. /\ Part(E, q, p, NDIR + 1, NDIR) /\ Foreign(y, p, NDIR + 1, NDIR)
          /\ p.got = p.ip.i_block[IND] /\ Free(Start) # {}
      BY <1>1, <2>6, <3>1, MapPart DEF p
    <3>3. NDIR + 1 \in Nat /\ NDIR + 1 > NDIR
      BY PlacesDef
    <3>4. /\ Part(E, q, p, NDIR + 1, n) /\ Foreign(y, p, NDIR + 1, n)
      BY <2>7, <3>2
    <3>5. v.disk = Put(r.disk, r.got, y) /\ v.bmap = r.bmap
          /\ v.ip.i_block = r.ip.i_block
      BY <1>6, <2>2
    <3> HIDE DEF r, e, q, n
    <3>6. Part(E, q, v, n + 1, n + 1)
      BY <1>6, <2>1, <2>4, <2>5, <3>2, <3>3, <3>4, <3>5, PointedPart DEF r, n, q
    <3>7. QED
      BY <3>2, <3>6 DEF E, n, q
  <2>8. CASE n > NDIR
    <3> DEFINE z == Start.ip.i_block[IND]
    <3>1. z \in Start.bmap /\ z # 0 /\ z \in Nat
      BY <1>1, <1>2, <2>1, <2>8, FileDataAssumption DEF Part, Direct
    <3>2. p = Got(Start, z)
      BY <1>2, <2>1, <3>1, PointerBlockIs DEF p
    <3>3. /\ p.disk = Start.disk /\ p.bmap = Start.bmap /\ p.ip = Start.ip
          /\ p.got = z /\ p.full = Start.full
      <4> HIDE DEF z
      <4>1. /\ Got(Start, z).disk = Start.disk /\ Got(Start, z).bmap = Start.bmap
            /\ Got(Start, z).ip = Start.ip /\ Got(Start, z).got = z
            /\ Got(Start, z).full = Start.full
        BY <1>2, <3>1, GotIs
      <4>2. QED
        BY <3>2, <4>1
    <3>4. p.got = p.ip.i_block[IND]
      BY <3>3
    <3> HIDE DEF z
    <3>5. Part(E, q, p, n, n)
      BY <1>1, <3>3, PartSame
    <3>6. Foreign(y, p, n, n)
      BY <3>3 DEF Foreign
    <3>7. v.disk = Put(r.disk, r.got, y) /\ v.bmap = r.bmap
          /\ v.ip.i_block = r.ip.i_block
      BY <1>6, <2>2
    <3> HIDE DEF r, e, q, n
    <3>8. Part(E, q, v, n + 1, n + 1) /\ Free(p) # {}
      BY <1>4, <1>6, <2>1, <2>4, <2>5, <2>8, <3>4, <3>5, <3>6, <3>7, PointedPart
         DEF r, n, q
    <3>9. Free(Start) # {}
      BY <3>3, <3>8 DEF Free
    <3>10. QED
      BY <3>8, <3>9 DEF E, n, q
  <2>9. QED
    BY <1>4, <1>8, <2>7, <2>8, PlacesDef
<1>9. QED
  BY <1>4, <1>7, <1>8, PlacesDef

\* What is read for another file is foreign to the copy.
LEMMA DataForeign ==
  ASSUME IInv, job.on, job.dst \in Fit, NEW s \in File \ {job.dst}, NEW n \in Nat
  PROVE  Foreign(At(disk, BlockRead(disk, itab[s], n)), Start,
                 job.offset, job.offset)
<1> DEFINE B == BlockRead(disk, itab[s], n)
           y == At(disk, B)
           o == job.offset
           E == Elsewhere
           q == want[job.dst]
<1>1. /\ Typed /\ Shapes /\ Views[s] = itab[s] /\ Views[job.dst] = job.ip
      /\ job.ip.size = o /\ o \in Nat
  BY ViewsAre DEF IInv, Shapes, Files, Typed, TypeOK
<1>2. /\ Start.disk = disk /\ Start.bmap = bmap /\ Start.ip = job.ip
      /\ disk \in Disks /\ bmap \subseteq Block \ {0}
  BY <1>1 DEF Start, Typed, TypeOK, Disks
<1>3. Harmless(Theirs, bmap, y)
  BY DataHarmless
<1>4. Part(E, q, Start, o, o)
  BY FirstPart
<1>5. IND < o => B # job.ip.i_block[IND]
  BY <1>1, DataIsNoMap
<1>6. \A c \in Cell : Zero[c] = 0
  BY DEF Zero
<1> HIDE DEF B, E, q, o
<1>7. \A c \in Cell : y[c] = 0 \/ (B \in Block /\ y[c] = disk[B][c])
  BY <1>6 DEF At
<1> HIDE DEF y
<1>8. ASSUME NEW c \in Cell, NEW k \in 0..IND, k < o
      PROVE  y[c] # job.ip.i_block[k]
  <2>1. /\ job.ip.i_block[k] \in bmap
        /\ \A b \in Block, e \in Cell : disk[b][e] # job.ip.i_block[k]
    BY <1>2, <1>4, <1>8 DEF Part, Direct
  <2>2. QED
    BY <1>2, <1>7, <2>1
<1>9. ASSUME NEW c \in Cell, NEW e \in Cell, Within(e, o),
             y[c] = disk[job.ip.i_block[IND]][e]
      PROVE  FALSE
  <2>1. /\ disk[job.ip.i_block[IND]][e] \in bmap
        /\ \A b \in Block, f \in Cell :
             disk[b][f] = disk[job.ip.i_block[IND]][e] => b = job.ip.i_block[IND]
    BY <1>2, <1>4, <1>9 DEF Part, Indirect
  <2>2. B = job.ip.i_block[IND]
    BY <1>2, <1>7, <1>9, <2>1
  <2>3. IND < o
    BY <1>1, <1>9, IndirectBefore
  <2>4. QED
    BY <1>5, <2>2, <2>3
<1>10. y \in [Cell -> Nat]
       /\ \A c \in Cell : y[c] \in Block => y[c] \in bmap \cup {0}
  BY <1>3 DEF Harmless, Away
<1>11. Foreign(y, Start, o, o)
  BY <1>2, <1>8, <1>9, <1>10 DEF Foreign
<1>12. QED
  BY <1>11 DEF y, B, o

\* What Part says is what the invariant says.
LEMMA LastPart ==
  ASSUME NEW q, NEW w \in Walk, NEW n \in Nat, n <= Single,
         NEW t \in File, NEW W \in [File -> INODE], W[t] = w.ip, w.ip.size = n,
         NEW E, \A g \in File \ {t}, j \in 0..DIND : W[g].i_block[j] \in E,
         Part(E, q, w, n, n)
  PROVE  /\ Sole(w.disk, w.bmap, W, t)
         /\ \A k \in 1..n : At(w.disk, BlockRead(w.disk, w.ip, k - 1)) = q[k]
<1>1. w.bmap \subseteq Block \ {0} /\ DOMAIN W = File
  BY DEF Walk
<1>2. ASSUME NEW k \in 0..IND, k < n
      PROVE  /\ w.ip.i_block[k] \in w.bmap
             /\ \A g \in File : \A j \in 0..DIND :
                  W[g].i_block[j] = w.ip.i_block[k] => g = t /\ j = k
             /\ \A b \in Block, c \in Cell : w.disk[b][c] # w.ip.i_block[k]
  <2> DEFINE x == w.ip.i_block[k]
  <2>1. /\ x \in w.bmap /\ x \notin E
        /\ \A j \in 0..DIND : w.ip.i_block[j] = x => j = k
        /\ \A b \in Block, c \in Cell : w.disk[b][c] # x
    BY <1>2 DEF Part, Direct
  <2> HIDE DEF x
  <2>2. \A g \in File : \A j \in 0..DIND : W[g].i_block[j] = x => g = t /\ j = k
    BY <2>1
  <2>3. QED
    BY <2>1, <2>2 DEF x
<1>3. ASSUME NEW c \in Cell, Within(c, n), NEW x, x = w.disk[w.ip.i_block[IND]][c]
      PROVE  /\ x \in w.bmap
             /\ \A g \in File : \A j \in 0..DIND : W[g].i_block[j] # x
             /\ \A b \in Block, e \in Cell :
                  w.disk[b][e] = x => b = w.ip.i_block[IND] /\ e = c
  <2>1. /\ x \in w.bmap /\ x \notin E
        /\ \A j \in 0..DIND : w.ip.i_block[j] # x
        /\ \A b \in Block, e \in Cell :
             w.disk[b][e] = x => b = w.ip.i_block[IND] /\ e = c
    BY <1>3 DEF Part, Indirect
  <2>2. \A g \in File : \A j \in 0..DIND : W[g].i_block[j] # x
    BY <2>1
  <2>3. QED
    BY <2>1, <2>2
<1>4. Sole(w.disk, w.bmap, W, t)
  BY <1>1, <1>2, <1>3 DEF Sole, Within
<1>5. ASSUME NEW k \in 1..n
      PROVE  At(w.disk, BlockRead(w.disk, w.ip, k - 1)) = q[k]
  <2>1. CASE k - 1 < NDIR
    <3> DEFINE h == k - 1
    <3>1. h \in 0..(NDIR - 1) /\ h \in 0..IND /\ h < n /\ h + 1 = k
      BY <2>1, PlacesDef DEF IND
    <3>2. BlockRead(w.disk, w.ip, h) = w.ip.i_block[h]
      BY <2>1 DEF BlockRead
    <3> HIDE DEF h
    <3>3. w.ip.i_block[h] \in Block
      BY <1>1, <1>2, <3>1
    <3>4. w.disk[w.ip.i_block[h]] = q[h + 1]
      BY <3>1 DEF Part, Holds
    <3>5. At(w.disk, BlockRead(w.disk, w.ip, h)) = q[k]
      BY <3>1, <3>2, <3>3, <3>4 DEF At
    <3>6. QED
      BY <3>5 DEF h
  <2>2. CASE k - 1 >= NDIR
    <3> DEFINE h == k - 1
               c == h - NDIR
               p == w.ip.i_block[IND]
    <3>1. /\ c \in Cell /\ Within(c, n) /\ ~(h < NDIR) /\ h < NDIR + PTRS
          /\ NDIR + c + 1 = k
      BY <2>2, PlacesDef DEF Cell, Within, Single
    <3>2. IND \in 0..IND /\ IND < n
      BY <3>1, IndirectBefore
    <3>3. p \in Block
      BY <1>1, <1>2, <3>2
    <3>4. BlockRead(w.disk, w.ip, h) = w.disk[p][c]
      BY <3>1, <3>3 DEF BlockRead, At
    <3> HIDE DEF h, c, p
    <3>5. w.disk[p][c] \in Block
      BY <1>1, <1>3, <3>1 DEF p
    <3>6. w.disk[w.disk[p][c]] = q[NDIR + c + 1]
      BY <3>1 DEF Part, Holds, p
    <3>7. At(w.disk, BlockRead(w.disk, w.ip, h)) = q[k]
      BY <3>1, <3>4, <3>5, <3>6 DEF At
    <3>8. QED
      BY <3>7 DEF h
  <2>3. QED
    BY <2>1, <2>2, PlacesDef
<1>6. QED
  BY <1>4, <1>5

-----------------------------------------------------------------------------
(***************************************************************************)
(* One turn of the loop                                                    *)
(***************************************************************************)
\* Finding the block changes neither the size nor the type of the inode.
LEMMA PointerBlockSize ==
  ASSUME NEW w \in Walk, NEW k \in 0..DIND
  PROVE  /\ PointerBlock(w, k) \in Walk
         /\ PointerBlock(w, k).ip.size = w.ip.size
         /\ PointerBlock(w, k).ip.used = w.ip.used
<1>1. w.ip \in INODE
  BY DEF Walk
<1>2. CASE w.ip.i_block[k] # 0
  <2> DEFINE x == w.ip.i_block[k]
  <2>1. x \in Nat
    BY <1>1 DEF INODE
  <2>2. PointerBlock(w, k) = Got(w, x)
    BY <1>2, PointerBlockIs
  <2> HIDE DEF x
  <2>3. Got(w, x) \in Walk /\ Got(w, x).ip = w.ip
    BY <2>1, GotIs
  <2>4. QED
    BY <2>2, <2>3
<1>3. CASE w.ip.i_block[k] = 0
  <2> DEFINE x == balloc(w).got
  <2>1. PointerBlock(w, k) \in Walk /\ PointerBlock(w, k).ip = Pointing(w.ip, k, x)
    BY <1>3, PointerBlockIs
  <2>2. x \in Nat
    BY ballocIs DEF Walk
  <2> HIDE DEF x
  <2>3. /\ Pointing(w.ip, k, x).used = w.ip.used
        /\ Pointing(w.ip, k, x).size = w.ip.size
    BY <1>1, <2>2, PointerSet
  <2>4. QED
    BY <2>1, <2>3
<1>4. QED
  BY <1>2, <1>3

LEMMA PointedSize ==
  ASSUME NEW w \in Walk, NEW b, NEW c \in Cell
  PROVE  Pointed(w, b, c) \in Walk /\ Pointed(w, b, c).ip = w.ip
<1>1. w.disk \in Disks
  BY DEF Walk
<1>2. CASE At(w.disk, b)[c] # 0
  <2> DEFINE x == At(w.disk, b)[c]
  <2>1. x \in Nat
    BY <1>1, AtIsBlock
  <2>2. Pointed(w, b, c) = Got(w, x)
    BY <1>2, PointedIs
  <2> HIDE DEF x
  <2>3. Got(w, x) \in Walk /\ Got(w, x).ip = w.ip
    BY <2>1, GotIs
  <2>4. QED
    BY <2>2, <2>3
<1>3. CASE At(w.disk, b)[c] = 0
  BY <1>3, PointedIs
<1>4. QED
  BY <1>2, <1>3

LEMMA BlockWriteSize ==
  ASSUME NEW w \in Walk, NEW n \in Nat, n < Single + PTRS * PTRS
  PROVE  /\ BlockWrite(w, n) \in Walk
         /\ BlockWrite(w, n).ip.size = w.ip.size
         /\ BlockWrite(w, n).ip.used = w.ip.used
<1>1. w.ip \in INODE
  BY DEF Walk
<1>2. CASE n < NDIR
  <2>1. n \in 0..DIND
    BY <1>2, PlacesDef
  <2>2. CASE w.ip.i_block[n] # 0
    <3> DEFINE x == w.ip.i_block[n]
    <3>1. x \in Nat
      BY <1>1, <2>1 DEF INODE
    <3>2. BlockWrite(w, n) = Got(w, x)
      BY <1>2, <2>2 DEF BlockWrite, Got
    <3> HIDE DEF x
    <3>3. Got(w, x) \in Walk /\ Got(w, x).ip = w.ip
      BY <3>1, GotIs
    <3>4. QED
      BY <3>2, <3>3
  <2>3. CASE w.ip.i_block[n] = 0
    <3> DEFINE x == balloc(w).got
    <3>1. BlockWrite(w, n) \in Walk /\ BlockWrite(w, n).ip = Pointing(w.ip, n, x)
      BY <1>2, <2>3, DirectWriteIs
    <3>2. x \in Nat
      BY ballocIs DEF Walk
    <3> HIDE DEF x
    <3>3. /\ Pointing(w.ip, n, x).used = w.ip.used
          /\ Pointing(w.ip, n, x).size = w.ip.size
      BY <1>1, <2>1, <3>2, PointerSet
    <3>4. QED
      BY <3>1, <3>3
  <2>4. QED
    BY <2>2, <2>3
<1>3. CASE n >= NDIR /\ n < NDIR + PTRS
  <2> DEFINE p == PointerBlock(w, IND)
  <2>1. BlockWrite(w, n) = Pointed(p, p.got, n - NDIR)
    BY <1>3, PlacesDef DEF BlockWrite
  <2>2. n - NDIR \in Cell /\ IND \in 0..DIND
    BY <1>3, PlacesDef DEF Cell
  <2>3. p \in Walk /\ p.ip.size = w.ip.size /\ p.ip.used = w.ip.used
    BY <2>2, PointerBlockSize
  <2> HIDE DEF p
  <2>4. QED
    BY <2>1, <2>2, <2>3, PointedSize
<1>4. CASE n >= NDIR + PTRS
  <2> DEFINE p == PointerBlock(w, DIND)
             k == n - (NDIR - BLKSIZE)
             b == At(p.disk, p.got)[k \div BLKSIZE]
  <2>1. BlockWrite(w, n) = Pointed(p, b, k % PTRS)
    BY <1>4, PlacesDef DEF BlockWrite
  <2>2. k % PTRS \in Cell
    BY <1>4, PlacesDef, PlaceInBlock
  <2>3. p \in Walk /\ p.ip.size = w.ip.size /\ p.ip.used = w.ip.used
    BY PlacesDef, PointerBlockSize
  <2> HIDE DEF p, b, k
  <2>4. QED
    BY <2>1, <2>2, <2>3, PointedSize
<1>5. QED
  BY <1>2, <1>3, <1>4, PlacesDef

\* mywrite of the block behind the end of the file makes it one longer.
LEMMA mywriteSize ==
  ASSUME NEW w \in Walk, NEW n \in Nat, NEW x \in [Cell -> Nat],
         n < Single + PTRS * PTRS, w.ip.size = n
  PROVE  mywrite(w, n, x).ip.size = n + 1 /\ mywrite(w, n, x).ip.used = w.ip.used
<1> DEFINE b == BlockWrite(w, n)
           v == mywrite(w, n, x)
<1>1. b \in Walk /\ b.ip.size = w.ip.size /\ b.ip.used = w.ip.used
  BY BlockWriteSize
<1>2. /\ v.ip.used = b.ip.used
      /\ v.ip.size = IF n + 1 > b.ip.size THEN n + 1 ELSE b.ip.size
  BY <1>1, mywriteIs
<1> HIDE DEF b, v
<1>3. v.ip.size = n + 1 /\ v.ip.used = w.ip.used
  BY <1>1, <1>2
<1>4. QED
  BY <1>3 DEF v

\* A turn of the loop.  Start is what mywrite begins with, w what it ends with.
LEMMA CopyBlockInv ==
  ASSUME IInv, CopyBlock
  PROVE  IInv'
<1> DEFINE s == job.src
           t == job.dst
           n == job.offset
           y == At(disk, BlockRead(disk, itab[s], n))
           w == mywrite(Start, n, y)
           v == mywrite([disk |-> disk, bmap |-> bmap, ip |-> job.ip, got |-> 0,
                         full |-> FALSE], n, y)
           q == want[t]
<1>1. /\ Typed /\ Shapes /\ Cleared /\ FullDisk /\ Copying /\ Placed /\ Owned
      /\ AllOrNothing /\ TypeOK
  BY DEF IInv, Typed
<1>2. /\ job.on /\ n < itab[s].size
      /\ disk' = w.disk /\ bmap' = w.bmap
      /\ job' = [job EXCEPT !.ip = w.ip, !.offset = @ + 1]
      /\ full' = IF w.full THEN full \cup {t} ELSE full
      /\ itab' = itab /\ want' = want /\ kills' = kills
  <2>1. v = w
    BY DEF Start
  <2>2. /\ job.on /\ n < itab[s].size
        /\ disk' = v.disk /\ bmap' = v.bmap
        /\ job' = [job EXCEPT !.ip = v.ip, !.offset = @ + 1]
        /\ full' = IF v.full THEN full \cup {t} ELSE full
        /\ itab' = itab /\ want' = want /\ kills' = kills
    BY DEF CopyBlock
  <2> HIDE DEF v, w
  <2>3. QED
    BY <2>1, <2>2
<1> HIDE DEF v
<1>3. /\ disk \in Disks /\ itab \in [File -> INODE] /\ bmap \subseteq Block \ {0}
      /\ want \in [File -> Seq([Cell -> Nat])] /\ job.ip \in INODE /\ n \in Nat
      /\ job \in [on : BOOLEAN, src : File \cup {0}, dst : File \cup {0},
                  offset : Nat, ip : INODE]
  BY <1>1 DEF Typed, TypeOK, Disks
<1>4. /\ s \in File /\ t \in File /\ itab[t].used /\ itab[s].used /\ s # t
      /\ itab[t].size = 0 /\ job.ip.used /\ job.ip.size = n
      /\ Len(q) = itab[s].size /\ itab[s].size \in Nat
      /\ itab[s].size \in {0, Len(want[s])}
      /\ itab[s].size <= Single + PTRS * PTRS
  <2>1. /\ s \in File /\ t \in File /\ itab[t].used /\ itab[s].used /\ s # t
        /\ itab[t].size = 0 /\ job.ip.used /\ job.ip.size = n
        /\ Len(q) = itab[s].size
        /\ itab[s].size \in {0, Len(want[s])}
        /\ itab[s].size <= Single + PTRS * PTRS
    BY <1>1, <1>2 DEF Shapes, Files
  <2>2. itab[s].size \in Nat
    BY <1>3, <2>1 DEF INODE
  <2>3. QED
    BY <2>1, <2>2
<1>5. n < Single + PTRS * PTRS
  <2>1. Single \in Nat /\ PTRS * PTRS \in Nat
    BY FileDataAssumption DEF Single
  <2>2. QED
    BY <1>2, <1>3, <1>4, <2>1
<1> HIDE DEF s, t, n
<1>6. Kept(Theirs, disk, bmap, Start) /\ Theirs \subseteq bmap
  BY <1>2, StartKept, TheirsAway
<1>7. Harmless(Theirs, bmap, y) /\ y \in [Cell -> Nat]
  <2>1. Harmless(Theirs, bmap, y)
    BY <1>2, <1>3, <1>4, DataHarmless DEF t
  <2>2. QED
    BY <2>1 DEF Harmless
<1> HIDE DEF y
<1>8. Kept(Theirs, disk, bmap, w)
  BY <1>3, <1>5, <1>6, <1>7, mywriteKeeps
<1>9. /\ w \in Walk /\ bmap \subseteq w.bmap /\ w.bmap \subseteq Block \ {0}
      /\ w.disk \in Disks /\ w.ip \in INODE
      /\ w.full => Free(w) = {}
  BY <1>8 DEF Kept, Walk
<1>10. w.ip.size = n + 1 /\ w.ip.used
  <2>1. Start \in Walk /\ Start.ip = job.ip
    BY <1>6 DEF Kept, Start
  <2>2. Start.ip.size = n /\ Start.ip.used
    BY <1>4, <2>1
  <2>3. y \in [Cell -> Nat]
    BY <1>7
  <2>4. QED
    <3> HIDE DEF w
    <3>1. /\ mywrite(Start, n, y).ip.size = n + 1
          /\ mywrite(Start, n, y).ip.used = Start.ip.used
      <4>1. /\ Start \in Walk /\ n \in Nat /\ y \in [Cell -> Nat]
            /\ n < Single + PTRS * PTRS /\ Start.ip.size = n
        BY <1>3, <1>5, <2>1, <2>2, <2>3
      <4>2. QED
        BY <4>1, mywriteSize
    <3>2. QED
      BY <2>2, <3>1 DEF w
<1> HIDE DEF w
<1>11. /\ job'.on /\ job'.src = s /\ job'.dst = t /\ job'.offset = n + 1
       /\ job'.ip = w.ip
       /\ job' \in [on : BOOLEAN, src : File \cup {0}, dst : File \cup {0},
                    offset : Nat, ip : INODE]
  <2>1. job' = [job EXCEPT !.ip = w.ip, !.offset = n + 1]
    BY <1>2 DEF n
  <2>2. n + 1 \in Nat /\ w.ip \in INODE
    BY <1>3, <1>9
  <2>3. job'.on = job.on /\ job'.src = s /\ job'.dst = t
    BY <1>3, <2>1 DEF s, t
  <2>4. QED
    BY <1>2, <1>3, <2>1, <2>2, <2>3
<1>12. /\ full' \subseteq File /\ full \subseteq full'
       /\ w.full => t \in full'
  BY <1>1, <1>2, <1>4 DEF TypeOK
<1>13. Typed'
  <2>1. TypeOK'
    <3>1. disk' \in [Block -> [Cell -> Nat]] /\ bmap' \subseteq Block \ {0}
      BY <1>2, <1>9 DEF Disks
    <3>2. itab' \in [File -> INODE] /\ job'.ip \in INODE /\ job'.on \in BOOLEAN
      BY <1>2, <1>3, <1>9, <1>11
    <3>3. job'.offset \in Nat
      BY <1>3, <1>11
    <3>4. full' \subseteq File /\ kills' \in 0..MaxKill
      <4>1. kills' = kills /\ full' \subseteq File
        BY <1>2, <1>12
      <4>2. kills \in 0..MaxKill
        BY <1>1 DEF TypeOK
      <4>3. QED
        BY <4>1, <4>2
    <3>5. QED
      BY <3>1, <3>2, <3>3, <3>4 DEF TypeOK
  <2>2. QED
    BY <1>2, <1>3, <1>11, <2>1 DEF Typed
<1>14. Files' = Files
  BY <1>2 DEF Files
<1>15. Shapes'
  <2>1. ASSUME NEW f \in File
        PROVE  /\ ~itab'[f].used => itab'[f] = Blank /\ f \notin full'
               /\ itab'[f].size \in {0, Len(want'[f])}
               /\ itab'[f].size <= Single + PTRS * PTRS
    BY <1>1, <1>2, <1>4 DEF Shapes
  <2>2. /\ job'.src \in Files' /\ job'.dst \in Files' /\ job'.src # job'.dst
        /\ itab'[job'.dst].size = 0
        /\ \A k \in 0..DIND : itab'[job'.dst].i_block[k] = 0
    BY <1>1, <1>2, <1>11, <1>14 DEF Shapes, s, t
  <2>3. /\ job'.ip.used /\ job'.ip.size = job'.offset
        /\ job'.offset <= itab'[job'.src].size
        /\ Len(want'[job'.dst]) = itab'[job'.src].size
    BY <1>2, <1>3, <1>4, <1>10, <1>11 DEF q
  <2>4. QED
    BY <2>1, <2>2, <2>3 DEF Shapes
<1>16. FullDisk'
  <2>1. CASE w.full
    BY <1>2, <1>9, <2>1 DEF FullDisk, Free
  <2>2. CASE ~w.full
    BY <1>1, <1>2, <1>9, <2>2 DEF FullDisk
  <2>3. QED
    BY <2>1, <2>2
<1>17. /\ Views \in [File -> INODE] /\ Views' \in [File -> INODE]
       /\ Views'[t] = w.ip /\ \A f \in File \ {t} : Views'[f] = Views[f]
  <2>1. /\ Views \in [File -> INODE]
        /\ \A f \in File \ {t} : Views[f] = itab[f]
    BY <1>1, ViewsAre DEF t
  <2>2. \A f \in File : View(f)' = IF f = t THEN w.ip ELSE itab[f]
    BY <1>2, <1>11 DEF View
  <2>3. Views' = [f \in File |-> IF f = t THEN w.ip ELSE itab[f]]
    BY <2>2 DEF Views
  <2>4. QED
    BY <1>3, <1>4, <1>9, <2>1, <2>3
<1>18. Placed'
  <2>1. Marked(w.disk, w.bmap, Views')
    BY <1>2, <1>8, <1>17, SoundKept DEF t
  <2>2. QED
    BY <1>2, <2>1 DEF Placed
<1>19. \A f \in Fit' : f \in Fit /\ f \in File
  BY <1>2, <1>12, <1>14 DEF Fit, Files
<1>20. ASSUME NEW f \in Fit', f # t
       PROVE  /\ Sole(w.disk, w.bmap, Views', f)
              /\ Contents(w.disk, itab[f]) = Contents(disk, itab[f])
  <2>1. f \in Fit \ {t}
    BY <1>19, <1>20
  <2>2. QED
    BY <1>2, <1>8, <1>17, <2>1, OthersStay DEF t
<1>21. AllOrNothing'
  <2>1. SUFFICES ASSUME NEW f \in Fit'
                 PROVE  Contents(w.disk, itab[f]) \in {<<>>, want[f]}
    BY <1>2 DEF AllOrNothing
  <2>2. CASE f = t
    BY <1>4, <2>2, EmptyContents
  <2>3. CASE f # t
    BY <1>1, <1>19, <1>20, <2>3 DEF AllOrNothing
  <2>4. QED
    BY <2>2, <2>3
<1>22. ASSUME t \in Fit'
       PROVE  /\ Part(Elsewhere, q, w, n + 1, n + 1)
              /\ n + 1 \in Nat /\ n + 1 <= Single /\ s \in Fit'
              /\ Contents(disk, itab[s]) = q
  <2>1. t \in Fit /\ ~w.full /\ Len(q) <= Single
    <3>1. t \in Fit /\ t \notin full'
      BY <1>19, <1>22 DEF Fit
    <3>2. Len(want[t]) <= Single
      BY <3>1 DEF Fit, Single
    <3>3. ~w.full
      BY <1>12, <3>1
    <3>4. QED
      BY <3>1, <3>2, <3>3 DEF q
  <2>2. n < Single /\ itab[s].size <= Single /\ itab[s].size = Len(want[s])
    BY <1>2, <1>3, <1>4, <2>1, FileDataAssumption DEF Single
  <2>3. Contents(disk, itab[s]) = q
    BY <1>1, <1>2, <2>1 DEF Copying, q, t, s
  <2>4. y = q[n + 1]
    <3>1. itab[s] \in INODE
      BY <1>3, <1>4
    <3>2. n + 1 \in 1..itab[s].size /\ (n + 1) - 1 = n
      BY <1>2, <1>3, <1>4
    <3>3. Contents(disk, itab[s])[n + 1]
            = At(disk, BlockRead(disk, itab[s], (n + 1) - 1))
      BY <1>3, <3>1, <3>2, ContentsIs
    <3>4. QED
      BY <2>3, <3>2, <3>3 DEF y
  <2>5. Foreign(y, Start, n, n)
    BY <1>2, <1>3, <1>4, <2>1, DataForeign DEF y, t, n
  <2>6. Part(Elsewhere, q, w, n + 1, n + 1) /\ Free(Start) # {}
    BY <1>2, <1>7, <2>1, <2>2, <2>4, <2>5, CopyPart DEF w, q, t, n
  <2>7. full = {} /\ full' = {}
    <3>1. Start.bmap = bmap
      BY DEF Start
    <3>2. full = {}
      BY <1>1, <2>6, <3>1 DEF FullDisk, Free
    <3>3. QED
      BY <1>2, <2>1, <3>2
  <2>8. s \in Fit'
    BY <1>2, <1>4, <2>2, <2>7 DEF Fit, Files, Single
  <2>9. QED
    BY <1>3, <2>2, <2>3, <2>6, <2>8, FileDataAssumption DEF Single
<1>23. Cleared'
  <2>1. SUFFICES ASSUME t \in Fit'
                 PROVE  /\ \A k \in 0..IND : k >= n + 1 => w.ip.i_block[k] = 0
                        /\ \A c \in Cell : n + 1 > NDIR /\ NDIR + c >= n + 1 =>
                             w.disk[w.ip.i_block[IND]][c] = 0
    BY <1>2, <1>11 DEF Cleared
  <2>2. Unset(w, n + 1, n + 1)
    BY <1>22, <2>1 DEF Part
  <2>3. \A c \in Cell : NDIR + c >= n + 1 => ~Within(c, n + 1)
    BY <1>3, PlacesDef DEF Within, Cell
  <2>4. QED
    BY <2>2, <2>3 DEF Unset
<1>24. t \in Fit' =>
         /\ Sole(w.disk, w.bmap, Views', t)
         /\ \A k \in 1..(n + 1) : At(w.disk, BlockRead(w.disk, w.ip, k - 1)) = q[k]
  <2>1. SUFFICES ASSUME t \in Fit'
                 PROVE  /\ Sole(w.disk, w.bmap, Views', t)
                        /\ \A k \in 1..(n + 1) :
                             At(w.disk, BlockRead(w.disk, w.ip, k - 1)) = q[k]
    OBVIOUS
  <2>2. \A g \in File \ {t}, j \in 0..DIND : Views'[g].i_block[j] \in Elsewhere
    BY <1>17, ElsewhereIs DEF t
  <2>3. Part(Elsewhere, q, w, n + 1, n + 1) /\ n + 1 \in Nat /\ n + 1 <= Single
    BY <1>22, <2>1
  <2>4. QED
    BY <1>4, <1>9, <1>10, <1>17, <2>2, <2>3, LastPart
<1>25. Copying'
  <2>1. SUFFICES ASSUME t \in Fit'
                 PROVE  /\ Contents(w.disk, itab[s]) = q
                        /\ \A k \in 1..(n + 1) :
                             At(w.disk, BlockRead(w.disk, w.ip, k - 1)) = q[k]
    BY <1>2, <1>11 DEF Copying, q
  <2>2. Contents(w.disk, itab[s]) = q
    BY <1>4, <1>20, <1>22, <2>1
  <2>3. QED
    BY <1>24, <2>1, <2>2
<1>26. Owned'
  <2>1. SUFFICES ASSUME NEW f \in Fit' PROVE Sole(w.disk, w.bmap, Views', f)
    BY <1>2 DEF Owned
  <2>2. QED
    BY <1>20, <1>24
<1>27. QED
  BY <1>13, <1>15, <1>16, <1>18, <1>21, <1>23, <1>25, <1>26 DEF IInv

-----------------------------------------------------------------------------
(***************************************************************************)
(* Every step, and what follows from the invariant                         *)
(***************************************************************************)
\* Nothing changes what the invariant is about in a step that changes nothing.
LEMMA StutterInv ==
  ASSUME IInv, UNCHANGED vars
  PROVE  IInv'
<1>1. /\ disk' = disk /\ bmap' = bmap /\ itab' = itab /\ job' = job
      /\ want' = want /\ full' = full /\ kills' = kills
  BY DEF vars
<1>2. Files' = Files /\ Fit' = Fit
  BY <1>1 DEF Files, Fit
<1>3. Views' = Views
  BY <1>1 DEF Views, View
<1>4. Typed' /\ Shapes' /\ FullDisk'
  BY <1>1, <1>2 DEF IInv, Typed, TypeOK, Shapes, FullDisk
<1>5. Cleared' /\ Copying' /\ AllOrNothing'
  BY <1>1, <1>2 DEF IInv, Cleared, Copying, AllOrNothing
<1>6. Placed' /\ Owned'
  BY <1>1, <1>2, <1>3 DEF IInv, Placed, Owned
<1>7. QED
  BY <1>4, <1>5, <1>6 DEF IInv

\* The inductive invariant: the blocks of every file there was room for are
\* its own, and what a cp has not got to is unset.
THEOREM Invariance == Spec => []IInv
<1>1. Init => IInv
  BY InitInv
<1>2. IInv /\ [Next]_vars => IInv'
  <2>1. ASSUME IInv, Next
        PROVE  IInv'
    <3>1. CASE \E s, t \in File : mycp(s, t)
      BY <2>1, <3>1, mycpInv
    <3>2. CASE CopyBlock
      BY <2>1, <3>2, CopyBlockInv
    <3>3. CASE CopyEnd
      BY <2>1, <3>3, CopyEndInv
    <3>4. CASE Kill
      BY <2>1, <3>4, KillInv
    <3>5. CASE Done
      BY <2>1, <3>5, StutterInv DEF Done
    <3>6. QED
      BY <2>1, <3>1, <3>2, <3>3, <3>4, <3>5 DEF Next
  <2>2. QED
    BY <2>1, StutterInv
<1>3. QED
  BY <1>1, <1>2, PTL DEF Spec

\* cp is all or nothing on disk: a copy there was room for is empty or equal
\* to its source as it was when the cp began, whenever the process is killed
\* (mycp and mywrite of write_cp_mv.c, which puts the inode at close only).
THEOREM CopiesWhole == Spec => []AllOrNothing
<1>1. IInv => AllOrNothing
  BY DEF IInv
<1>2. QED
  BY <1>1, Invariance, PTL

\* A block is reached through pointer k of the inode, the block of pointers
\* among them, or through place c of the block of pointers.
ByInode(f, r, k) ==
  /\ k \in 0..IND /\ k < Views[f].size /\ r[3] = Views[f].i_block[k]
  /\ r = IF k < NDIR THEN <<"data", k, r[3]>> ELSE <<"map", 0, r[3]>>

ByMap(f, r, c) ==
  /\ c \in Cell /\ NDIR + c < Views[f].size
  /\ r[3] = disk[Views[f].i_block[IND]][c] /\ r = <<"data", NDIR + c, r[3]>>

\* There is no third way, as a file there was room for ends before the double
\* indirect blocks begin.
LEMMA Ways ==
  ASSUME IInv, NEW f \in Fit, NEW r \in Reached(disk, View(f))
  PROVE  (\E k \in 0..IND : ByInode(f, r, k)) \/ (\E c \in Cell : ByMap(f, r, c))
<1> DEFINE ip == Views[f]
<1>1. /\ f \in File /\ View(f) = ip /\ ip \in INODE /\ ip.size \in Nat
      /\ ip.size <= Single
  BY ViewsAre, FitIsSingle DEF IInv, INODE
<1>2. /\ NDIR \in Nat /\ PTRS \in Nat /\ IND = NDIR /\ Single = NDIR + PTRS
      /\ IND \in 0..IND
  BY PlacesDef DEF IND, Single
<1>3. /\ bmap \subseteq Block \ {0} /\ Sole(disk, bmap, Views, f)
  BY DEF IInv, Typed, TypeOK, Owned
<1> HIDE DEF ip
<1>4. \/ \E k \in 0..(ip.size - 1) : r = <<"data", k, BlockRead(disk, ip, k)>>
      \/ ip.size > NDIR /\ r = <<"map", 0, ip.i_block[IND]>>
  BY <1>1, <1>2 DEF Reached
<1>5. CASE ip.size > NDIR /\ r = <<"map", 0, ip.i_block[IND]>>
  <2>1. ByInode(f, r, IND)
    BY <1>1, <1>2, <1>5 DEF ByInode, ip
  <2>2. QED
    BY <1>2, <2>1
<1>6. ASSUME NEW k \in 0..(ip.size - 1), r = <<"data", k, BlockRead(disk, ip, k)>>
      PROVE  (\E j \in 0..IND : ByInode(f, r, j)) \/ (\E c \in Cell : ByMap(f, r, c))
  <2>1. k \in Nat /\ k < ip.size
    BY <1>1
  <2>2. CASE k < NDIR
    <3>1. BlockRead(disk, ip, k) = ip.i_block[k] /\ k \in 0..IND
      BY <1>2, <2>1, <2>2 DEF BlockRead
    <3>2. ByInode(f, r, k)
      BY <1>6, <2>1, <2>2, <3>1 DEF ByInode, ip
    <3>3. QED
      BY <3>1, <3>2
  <2>3. CASE ~(k < NDIR)
    <3> DEFINE c == k - NDIR
    <3>1. c \in Cell /\ k = NDIR + c /\ k < NDIR + PTRS
      BY <1>1, <1>2, <2>1, <2>3 DEF Cell
    <3>2. ip.i_block[IND] \in Block
      BY <1>1, <1>2, <1>3, <2>1, <2>3 DEF Sole, ip
    <3>3. BlockRead(disk, ip, k) = disk[ip.i_block[IND]][c]
      BY <2>3, <3>1, <3>2 DEF BlockRead, At
    <3> HIDE DEF c
    <3>4. ByMap(f, r, c)
      BY <1>6, <2>1, <3>1, <3>3 DEF ByMap, ip
    <3>5. QED
      BY <3>1, <3>4
  <2>4. QED
    BY <2>2, <2>3
<1>7. QED
  BY <1>4, <1>5, <1>6

\* What follows from Sole, for the two ways: the block is marked.
LEMMA WayMarked ==
  ASSUME IInv, NEW f \in Fit, NEW r, NEW k
  PROVE  /\ ByInode(f, r, k) => r[3] \in bmap
         /\ ByMap(f, r, k) => r[3] \in bmap
<1>1. Sole(disk, bmap, Views, f)
  BY DEF IInv, Owned
<1>2. QED
  BY <1>1 DEF Sole, ByInode, ByMap

\* The blocks of pointers lie on the disk.
LEMMA MapOnDisk ==
  ASSUME IInv, NEW f \in Fit, NEW r, NEW c, ByMap(f, r, c)
  PROVE  /\ IND \in 0..IND /\ IND \in 0..DIND /\ IND < Views[f].size
         /\ Views[f].i_block[IND] \in Block
<1>1. f \in File /\ Views[f].size \in Nat
  BY FitIsSingle DEF IInv
<1>2. Sole(disk, bmap, Views, f) /\ bmap \subseteq Block \ {0}
  BY DEF IInv, Owned, Typed, TypeOK
<1>3. IND \in 0..IND /\ IND \in 0..DIND
  BY PlacesDef DEF IND
<1>4. IND < Views[f].size
  BY <1>1, PlacesDef DEF ByMap, IND, Cell
<1>5. QED
  BY <1>2, <1>3, <1>4 DEF Sole

\* Two ways of the inodes to one block are the same.
LEMMA InodeInode ==
  ASSUME IInv, NEW f \in Fit, NEW g \in Fit, NEW r, NEW s, r[3] = s[3],
         NEW k \in 0..IND, NEW j \in 0..IND, ByInode(f, r, k), ByInode(g, s, j)
  PROVE  f = g /\ r = s
<1>1. /\ Sole(disk, bmap, Views, f) /\ g \in DOMAIN Views /\ j \in 0..DIND
  BY ViewsAre, FitIsSingle, PlacesDef DEF IInv, Owned, IND, DIND
<1>2. g = f /\ j = k
  BY <1>1 DEF Sole, ByInode
<1>3. QED
  BY <1>2 DEF ByInode

\* A way of an inode and one of a block of pointers do not meet.
LEMMA InodeMap ==
  ASSUME IInv, NEW f \in Fit, NEW g \in Fit, NEW r, NEW s, r[3] = s[3],
         NEW k \in 0..IND, NEW c \in Cell, ByInode(f, r, k), ByMap(g, s, c)
  PROVE  FALSE
<1>1. Sole(disk, bmap, Views, f) /\ Views[g].i_block[IND] \in Block
  BY MapOnDisk DEF IInv, Owned
<1>2. disk[Views[g].i_block[IND]][c] = Views[f].i_block[k]
  BY DEF ByInode, ByMap
<1>3. k \in 0..IND /\ k < Views[f].size
  BY DEF ByInode
<1>4. QED
  BY <1>1, <1>2, <1>3 DEF Sole

\* Two ways of blocks of pointers to one block are the same.
LEMMA MapMap ==
  ASSUME IInv, NEW f \in Fit, NEW g \in Fit, NEW r, NEW s, r[3] = s[3],
         NEW c \in Cell, NEW e \in Cell, ByMap(f, r, c), ByMap(g, s, e)
  PROVE  f = g /\ r = s
<1> DEFINE x == Views[f].i_block[IND]
           z == Views[g].i_block[IND]
<1>1. /\ Sole(disk, bmap, Views, f) /\ g \in DOMAIN Views
      /\ IND \in 0..IND /\ IND \in 0..DIND /\ IND < Views[f].size /\ z \in Block
  BY ViewsAre, FitIsSingle, MapOnDisk DEF IInv, Owned
<1>2. NDIR + c < Views[f].size /\ disk[z][e] = disk[x][c]
  BY DEF ByMap
<1>3. z = x /\ e = c
  BY <1>1, <1>2 DEF Sole
<1>4. g = f
  BY <1>1, <1>3 DEF Sole
<1>5. QED
  BY <1>3, <1>4 DEF ByMap

LEMMA OwnBlocks ==
  ASSUME IInv PROVE BlocksOK
<1>1. TypeOK
  BY DEF IInv, Typed
<1>2. ASSUME NEW f \in Fit, NEW r \in Reached(disk, View(f))
      PROVE  r[3] \in bmap
  BY <1>2, Ways, WayMarked
<1>3. ASSUME NEW f \in Fit, NEW g \in Fit,
             NEW r \in Reached(disk, View(f)), NEW s \in Reached(disk, View(g)),
             r[3] = s[3]
      PROVE  f = g /\ r = s
  <2>1. CASE /\ \E k \in 0..IND : ByInode(f, r, k)
             /\ \E j \in 0..IND : ByInode(g, s, j)
    BY <1>3, <2>1, InodeInode
  <2>2. CASE /\ \E k \in 0..IND : ByInode(f, r, k)
             /\ \E c \in Cell : ByMap(g, s, c)
    BY <1>3, <2>2, InodeMap
  <2>3. CASE /\ \E c \in Cell : ByMap(f, r, c)
             /\ \E k \in 0..IND : ByInode(g, s, k)
    BY <1>3, <2>3, InodeMap
  <2>4. CASE /\ \E c \in Cell : ByMap(f, r, c)
             /\ \E e \in Cell : ByMap(g, s, e)
    BY <1>3, <2>4, MapMap
  <2>5. QED
    BY <2>1, <2>2, <2>3, <2>4, Ways
<1>4. QED
  BY <1>1, <1>2, <1>3 DEF BlocksOK, BlocksOwn

\* No block is reached twice by the files there was room for, during a cp and
\* after a kill too, and each is marked (balloc and mywrite).
THEOREM BlocksAreOwn == Spec => []BlocksOK
<1>1. QED
  BY OwnBlocks, Invariance, PTL

\* BlockRead and BlockExt2 differ in when they take a pointer of 0 to lead to
\* block 0; no file there was room for has one within its size.
LEMMA SameBlocks ==
  ASSUME IInv PROVE ReadsAsExt2
<1>1. SUFFICES ASSUME NEW f \in Fit, NEW k \in 0..(View(f).size - 1)
               PROVE  BlockRead(disk, View(f), k) = BlockExt2(disk, View(f), k)
  BY DEF ReadsAsExt2
<1> DEFINE ip == Views[f]
<1>2. View(f) = ip /\ ip.size \in Nat /\ ip.size <= Single
  BY ViewsAre, FitIsSingle DEF IInv
<1>3. Sole(disk, bmap, Views, f) /\ 0 \notin bmap
  BY DEF IInv, Owned, Typed, TypeOK
<1>4. NDIR \in Nat /\ PTRS \in Nat /\ IND = NDIR /\ Single = NDIR + PTRS
  BY PlacesDef DEF IND, Single
<1>5. k \in Nat /\ k < ip.size /\ k < NDIR + PTRS
  BY <1>1, <1>2, <1>4
<1>6. IND \in 0..IND
  BY <1>4
<1>7. CASE k < NDIR
  <2>1. k \in 0..(NDIR - 1)
    BY <1>4, <1>5, <1>7
  <2>2. QED
    BY <1>2, <1>7, <2>1 DEF BlockRead, BlockExt2
<1>8. CASE ~(k < NDIR)
  <2>1. ip.i_block[IND] # 0
    BY <1>2, <1>3, <1>4, <1>5, <1>6, <1>8 DEF Sole
  <2>2. k \notin 0..(NDIR - 1) /\ k - NDIR \in Cell
    BY <1>4, <1>5, <1>8 DEF Cell
  <2> HIDE DEF ip
  <2>3. QED
    BY <1>2, <1>5, <1>8, <2>1, <2>2 DEF BlockRead, BlockExt2
<1>9. QED
  BY <1>7, <1>8

\* Any reader that follows the format finds the blocks of a file where myread
\* finds them (read_cat.c against the constants of ext2_fs.h).
THEOREM LayoutIsExt2 == Spec => []ReadsAsExt2
<1>1. QED
  BY SameBlocks, Invariance, PTL

=============================================================================
