----------------------------- MODULE DiskProofs -----------------------------
(***************************************************************************)
(* What the program keeps in the blocks of the disk: the table of the      *)
(* inodes, the mode and the time of each, and the entries of a directory.  *)
(* The three components share no variable; their proofs stand together     *)
(* because they are about the layout of the same disk, and share lemmas.   *)
(***************************************************************************)
EXTENDS InodeTable, Attributes, DirBlock, NaturalsInduction,
        WellFoundedInduction, TLAPS

-----------------------------------------------------------------------------
LEMMA Least ==
  ASSUME NEW S \in SUBSET Nat, S # {}
  PROVE  \E n \in S : \A m \in S : n <= m
<1> DEFINE R == {p \in Nat \X Nat : p[1] < p[2]}
<1>1. R = OpToRel(<, Nat)
  BY DEF OpToRel
<1>2. IsWellFoundedOn(R, Nat)
  BY <1>1, NatLessThanWellFounded
<1> HIDE DEF R
<1>3. PICK n \in S : \A m \in S : ~(<<m, n>> \in R)
  BY <1>2, WFMin
<1>4. ASSUME NEW m \in S PROVE n <= m
  <2>1. n \in Nat /\ m \in Nat
    OBVIOUS
  <2>2. ~(m < n)
    BY <1>3, <2>1 DEF R
  <2>3. QED
    BY <2>1, <2>2
<1>5. QED
  BY <1>4


-----------------------------------------------------------------------------
(***************************************************************************)
(* The table of the inodes.  On a plain file system, whatever the number   *)
(* of inodes, the place of the table and the commands that hold them, iget *)
(* and iput find the inode of the number they are given and touch no other *)
(* byte: the lemmas are the arithmetic of blk and disp.                    *)
(***************************************************************************)

\* A number divided by a greater one.
LEMMA DivSmall ==
  ASSUME NEW x \in Nat, NEW p \in Nat, x < p
  PROVE  x \div p = 0 /\ x % p = x
  OBVIOUS

\* Eighths of a block put together again.
LEMMA DivEight ==
  ASSUME NEW x \in Nat
  PROVE  1024 * (x \div 8) + 128 * (x % 8) = 128 * x
  OBVIOUS

LEMMA SameMultiple ==
  ASSUME NEW t \in Nat, NEW x \in Nat, NEW y \in Nat,
         1024 * t + 128 * (x - 1) = 1024 * t + 128 * (y - 1)
  PROVE  x = y
  OBVIOUS

LEMMA Widths == sizeof_INODE = 128 /\ BLKSIZE = 1024 /\ PerBlock = 8
  BY DEF sizeof_INODE, BLKSIZE, PerBlock

\* blk and disp are the place of the inode in the one group.
LEMMA PlaceIs ==
  ASSUME Plain, NEW i \in Numbers
  PROVE  /\ Table[0] \in Nat
         /\ Place(i) = 1024 * Table[0] + 128 * (i - 1)
         /\ Where(i) = 1024 * Table[0] + 128 * (i - 1)
<1>1. i \in Nat /\ 1 <= i /\ i <= Inodes /\ Inodes \in Nat /\ PerGroup \in Nat
  BY InodeTableAssumption DEF Numbers
<1>2. i - 1 \in Nat /\ i - 1 < PerGroup /\ Inodes - 1 \in Nat /\ Inodes - 1 < PerGroup
  BY <1>1 DEF Plain
<1>3. (i - 1) \div PerGroup = 0 /\ (i - 1) % PerGroup = i - 1
      /\ (Inodes - 1) \div PerGroup = 0
  BY <1>1, <1>2, DivSmall
<1>4. Table[0] \in Nat
  BY <1>3, InodeTableAssumption
<1>5. Place(i) = 1024 * Table[0] + 128 * (i - 1)
  <2>1. Place(i) = Table[0] * BLKSIZE + InodeSize * (i - 1)
    BY <1>3 DEF Place
  <2>2. InodeSize = 128 /\ BLKSIZE = 1024
    BY Widths DEF Plain
  <2> QED BY <1>2, <1>4, <2>1, <2>2
<1>6. 1024 * ((i - 1) \div 8) + 128 * ((i - 1) % 8) = 128 * (i - 1)
  BY <1>2, DivEight
<1>7. (i - 1) \div 8 \in Nat /\ (i - 1) % 8 \in Nat
  BY <1>2
<1>8. Where(i) = 1024 * Table[0] + 128 * (i - 1)
  BY <1>1, <1>4, <1>6, <1>7, Widths DEF Where
<1> QED BY <1>4, <1>5, <1>8

\* The table lies on the disk, and its inodes do not overlap.
LEMMA PlaceOnDisk ==
  ASSUME Plain, NEW i \in Numbers
  PROVE  Where(i) = Place(i) /\ Place(i) \in Addr
<1>1. i \in Nat /\ 1 <= i /\ i <= Inodes /\ Inodes \in Nat /\ Blocks \in Nat
  BY InodeTableAssumption DEF Numbers
<1>2. Table[0] \in Nat /\ Place(i) = 1024 * Table[0] + 128 * (i - 1)
      /\ Where(i) = Place(i)
  BY PlaceIs
<1>3. Table[0] * 1024 + 128 * Inodes <= Blocks * 1024
  BY InodeTableAssumption, Widths
<1> DEFINE u == 8 * Table[0] + (i - 1)
<1>4. u \in 0..(8 * Blocks - 1) /\ Place(i) = 128 * u
  BY <1>1, <1>2, <1>3
<1> HIDE DEF u
<1>5. Place(i) \in Addr
  BY <1>4, Widths DEF Addr
<1> QED BY <1>2, <1>5

LEMMA PlaceInjective ==
  ASSUME Plain, NEW i \in Numbers, NEW j \in Numbers, i # j
  PROVE  Place(i) # Place(j)
<1>1. Table[0] \in Nat /\ i \in Nat /\ j \in Nat
  BY PlaceIs, InodeTableAssumption DEF Numbers
<1>2. Place(i) = 1024 * Table[0] + 128 * (i - 1)
  BY PlaceIs
<1>3. Place(j) = 1024 * Table[0] + 128 * (j - 1)
  BY PlaceIs
<1>4. 1024 * Table[0] + 128 * (i - 1) # 1024 * Table[0] + 128 * (j - 1)
  BY <1>1, SameMultiple
<1> QED BY <1>2, <1>3, <1>4

-----------------------------------------------------------------------------
\* What is loaded is an inode, and equal to the disk's unless changed.
TableInv == /\ BytesOK
            /\ \A i \in loaded : minode[i].INODE \in Content
            /\ LoadedIsTable

LEMMA TableInitInv == ASSUME Plain, TableInit PROVE TableInv
<1>1. \A i \in Numbers : Place(i) \in Addr
  BY PlaceOnDisk
<1>2. bytes \in [Addr -> Content \cup {Rest}]
  BY InodeTableAssumption DEF TableInit
<1>3. \A i \in Numbers : bytes[Place(i)] \in Content
  BY <1>1, InodeTableAssumption DEF TableInit
<1>4. minode \in [Used -> [INODE : Content \cup {Rest}, dirty : BOOLEAN]]
  BY DEF TableInit, NoInode
<1> QED BY <1>2, <1>3, <1>4 DEF TableInit, TableInv, BytesOK, LoadedIsTable

LEMMA TableNextInv == ASSUME Plain, TableInv, [TableNext]_tableVars PROVE TableInv'
<1> USE DEF TableInv
<1>0. Used \subseteq Numbers
  BY InodeTableAssumption
<1>1. ASSUME NEW i \in Used, iget(i) PROVE TableInv'
  <2>1. Where(i) = Place(i) /\ i \in Numbers
    BY <1>0, PlaceOnDisk
  <2>2. PICK stale \in BOOLEAN :
          minode' = [minode EXCEPT ![i] = [INODE |-> bytes[Place(i)], dirty |-> stale]]
    BY <1>1, <2>1 DEF iget
  <2>3. bytes' = bytes /\ loaded' = loaded \cup {i} /\ i \notin loaded
    BY <1>1 DEF iget
  <2>4. bytes[Place(i)] \in Content
    BY <2>1 DEF BytesOK
  <2>5. BytesOK'
    BY <2>2, <2>3, <2>4 DEF BytesOK, Place
  <2>6. /\ minode'[i].INODE = bytes[Place(i)]
        /\ \A j \in loaded : minode'[j] = minode[j]
    BY <2>2, <2>3 DEF BytesOK
  <2>7. \A j \in loaded' : minode'[j].INODE \in Content
    BY <2>3, <2>4, <2>6
  <2>8. LoadedIsTable'
    BY <2>3, <2>6 DEF LoadedIsTable, Place
  <2> QED BY <2>5, <2>7, <2>8
<1>2. ASSUME NEW i \in Used, NEW c \in Content, Change(i, c) PROVE TableInv'
  <2>1. /\ bytes' = bytes /\ loaded' = loaded /\ i \in loaded
        /\ minode' = [minode EXCEPT ![i] = [INODE |-> c, dirty |-> TRUE]]
    BY <1>2 DEF Change
  <2>2. BytesOK'
    BY <2>1 DEF BytesOK, Place
  <2>3. /\ minode'[i].INODE = c /\ minode'[i].dirty = TRUE
        /\ \A j \in loaded \ {i} : minode'[j] = minode[j]
    BY <2>1 DEF BytesOK
  <2>4. \A j \in loaded' : minode'[j].INODE \in Content
    BY <2>1, <2>3
  <2>5. LoadedIsTable'
    BY <2>1, <2>3 DEF LoadedIsTable, Place
  <2> QED BY <2>2, <2>4, <2>5
<1>3. ASSUME NEW i \in Used, iput(i) PROVE TableInv'
  <2>1. Where(i) = Place(i) /\ Place(i) \in Addr /\ i \in Numbers
    BY <1>0, PlaceOnDisk
  <2>2. /\ i \in loaded /\ loaded' = loaded \ {i} /\ minode[i].INODE \in Content
        /\ minode' = [minode EXCEPT ![i] = NoInode]
        /\ bytes' = IF minode[i].dirty THEN [bytes EXCEPT ![Place(i)] = minode[i].INODE]
                   ELSE bytes
    BY <1>3, <2>1 DEF iput
  <2>3. \A j \in Numbers \ {i} : Place(j) # Place(i)
    BY <2>1, PlaceInjective
  <2>4. /\ bytes' \in [Addr -> Content \cup {Rest}]
        /\ \A j \in Numbers \ {i} : bytes'[Place(j)] = bytes[Place(j)]
        /\ bytes'[Place(i)] \in Content
    BY <2>1, <2>2, <2>3, PlaceOnDisk DEF BytesOK
  <2>5. minode' \in [Used -> [INODE : Content \cup {Rest}, dirty : BOOLEAN]]
    BY <2>2 DEF BytesOK, NoInode
  <2>6. \A j \in Numbers : bytes'[Place(j)] \in Content
    BY <2>4 DEF BytesOK
  <2>7. BytesOK'
    BY <2>2, <2>4, <2>5, <2>6 DEF BytesOK, Place
  <2>8. \A j \in loaded' : minode'[j] = minode[j] /\ j \in Numbers \ {i}
    BY <1>0, <2>2 DEF BytesOK
  <2>9. \A j \in loaded' : minode'[j].INODE \in Content
    BY <2>2, <2>8
  <2>10. LoadedIsTable'
    BY <2>2, <2>4, <2>8 DEF LoadedIsTable, Place
  <2> QED BY <2>7, <2>9, <2>10
<1>4. CASE UNCHANGED tableVars
  BY <1>4 DEF tableVars, BytesOK, LoadedIsTable, Place
<1> QED BY <1>1, <1>2, <1>3, <1>4 DEF TableNext

LEMMA TableAlways == ASSUME Plain PROVE TableSpec => []TableInv
  BY TableInitInv, TableNextInv, PTL DEF TableSpec

\* The places of the inodes hold inodes, and nothing else becomes one: what
\* iput writes is what iget read or a command put there.
THEOREM BytesCorrect == ASSUME Plain PROVE TableSpec => []BytesOK
<1>1. TableInv => BytesOK
  BY DEF TableInv
<1> QED BY TableAlways, <1>1, PTL

\* An unchanged inode in memory is the one the file system has under its
\* number, whatever its neighbours in the block do.
THEOREM ReadsItsInode == ASSUME Plain PROVE TableSpec => []LoadedIsTable
<1>1. TableInv => LoadedIsTable
  BY DEF TableInv
<1> QED BY TableAlways, <1>1, PTL

\* A put changes the inode it puts and no other byte of the disk.
THEOREM WritesItsInode == ASSUME Plain PROVE TableSpec => OnlyOwn
<1> DEFINE Own == \A a \in Addr : bytes'[a] # bytes[a] =>
                    \E i \in loaded \ loaded' : a = Place(i)
<1>1. ASSUME TableInv, [TableNext]_tableVars PROVE [Own]_tableVars
  <2>1. ASSUME NEW i \in Used, iget(i) PROVE Own
    BY <2>1 DEF iget
  <2>2. ASSUME NEW i \in Used, NEW c \in Content, Change(i, c) PROVE Own
    BY <2>2 DEF Change
  <2>3. ASSUME NEW i \in Used, iput(i) PROVE Own
    <3>1. Where(i) = Place(i) /\ i \in loaded \ loaded'
      BY <2>3, PlaceOnDisk, InodeTableAssumption DEF iput
    <3>2. \A a \in Addr : a # Place(i) => bytes'[a] = bytes[a]
      BY <1>1, <2>3, <3>1 DEF iput, TableInv, BytesOK
    <3> QED BY <3>1, <3>2
  <2> QED BY <1>1, <2>1, <2>2, <2>3 DEF TableNext
<1> QED BY <1>1, TableAlways, PTL DEF TableSpec, OnlyOwn
-----------------------------------------------------------------------------
(***************************************************************************)
(* chmod's digits: what strtol computes of them                            *)
(***************************************************************************)
\* What strtol has read after each of the first n characters.
Reads(s, n, v) ==
  v = [k \in 0..n |-> IF k = 0 THEN 0 ELSE 8 * v[k - 1] + s[k]]

LEMMA ReadsExists ==
  ASSUME NEW s, NEW n \in Nat
  PROVE  \E v : Reads(s, n, v)
<1> DEFINE S == {l \in Nat : ~\E v : Reads(s, l, v)}
<1>1. SUFFICES ASSUME S # {} PROVE FALSE
  OBVIOUS
<1>2. PICK m \in S : \A l \in S : m <= l
  <2>1. S \in SUBSET Nat
    OBVIOUS
  <2> HIDE DEF S
  <2>2. QED
    BY <1>1, <2>1, Least
<1>3. m \in Nat /\ ~\E v : Reads(s, m, v)
  OBVIOUS
<1>4. CASE m = 0
  <2> DEFINE w == [k \in 0..0 |-> 0]
  <2>1. w = [k \in 0..0 |-> IF k = 0 THEN 0 ELSE 8 * w[k - 1] + s[k]]
    OBVIOUS
  <2> HIDE DEF w
  <2>2. Reads(s, 0, w)
    BY <2>1 DEF Reads
  <2>3. QED
    BY <1>3, <1>4, <2>2
<1>5. CASE m # 0
  <2>1. m - 1 \in Nat /\ ~(m <= m - 1)
    BY <1>3, <1>5
  <2>2. m - 1 \notin S
    <3> HIDE DEF S
    <3>1. QED
      BY <1>2, <2>1
  <2>3. PICK g : Reads(s, m - 1, g)
    BY <2>1, <2>2
  <2> DEFINE At(k) == IF k = 0 THEN 0 ELSE 8 * g[k - 1] + s[k]
             w == [k \in 0..m |-> At(k)]
  <2>4. \A k \in 0..(m - 1) : g[k] = At(k)
    BY <2>3 DEF Reads
  <2>5. \A k \in 0..(m - 1) : w[k] = g[k]
    BY <2>1, <2>4
  <2>6. \A k \in 0..m : k # 0 => k - 1 \in 0..(m - 1)
    BY <1>3
  <2>7. \A k \in 0..m : At(k) = IF k = 0 THEN 0 ELSE 8 * w[k - 1] + s[k]
    <3> HIDE DEF w
    <3>1. QED
      BY <2>5, <2>6
  <2>8. Reads(s, m, w)
    <3>1. w = [k \in 0..m |-> At(k)]
      OBVIOUS
    <3> HIDE DEF w
    <3>2. QED
      BY <2>7, <3>1 DEF Reads
  <2> HIDE DEF w
  <2>9. QED
    BY <1>3, <2>8
<1>6. QED
  BY <1>4, <1>5

LEMMA ReadsNat ==
  ASSUME NEW s \in Seq(Nat), NEW n \in 0..Len(s), NEW v, Reads(s, n, v)
  PROVE  \A k \in 0..n : v[k] \in Nat
<1> DEFINE S == {k \in 0..n : v[k] \notin Nat}
<1>1. SUFFICES ASSUME S # {} PROVE FALSE
  OBVIOUS
<1>2. PICK m \in S : \A l \in S : m <= l
  <2>1. S \in SUBSET Nat
    OBVIOUS
  <2> HIDE DEF S
  <2>2. QED
    BY <1>1, <2>1, Least
<1>3. m \in 0..n /\ v[m] \notin Nat
  OBVIOUS
<1>4. v[0] = 0
  BY DEF Reads
<1>5. m - 1 \in 0..n /\ m \in 1..Len(s)
  BY <1>3, <1>4
<1>6. m - 1 \notin S
  <2> HIDE DEF S
  <2>1. QED
    BY <1>2, <1>3
<1>7. v[m - 1] \in Nat /\ s[m] \in Nat
  BY <1>5, <1>6
<1>8. v[m] = 8 * v[m - 1] + s[m]
  BY <1>3, <1>5 DEF Reads
<1>9. QED
  BY <1>3, <1>7, <1>8

\* strtol reads the characters before the first that is no octal digit.
LEMMA strtolReads ==
  ASSUME NEW s \in Seq(Nat)
  PROVE  \E n, v :
           /\ n \in 0..Len(s) /\ Reads(s, n, v) /\ strtol(s) = v[n]
           /\ (\A k \in 1..Len(s) : s[k] \in Octal) => n = Len(s)
<1> DEFINE bad == {k \in DOMAIN s : s[k] \notin Octal}
           n   == IF bad = {} THEN Len(s)
                  ELSE (CHOOSE k \in bad : \A j \in bad : k <= j) - 1
           v   == CHOOSE f : Reads(s, n, f)
<1>1. strtol(s) = v[n]
  BY DEF strtol, Reads
<1>2. n \in 0..Len(s)
  <2>1. CASE bad = {}
    BY <2>1
  <2>2. CASE bad # {}
    <3>1. bad \in SUBSET Nat
      OBVIOUS
    <3>2. \E k \in bad : \A j \in bad : k <= j
      <4> HIDE DEF bad
      <4>1. QED
        BY <2>2, <3>1, Least
    <3>3. (CHOOSE k \in bad : \A j \in bad : k <= j) \in bad
      BY <3>2
    <3>4. QED
      BY <2>2, <3>3
  <2>3. QED
    BY <2>1, <2>2
<1>3. (\A k \in 1..Len(s) : s[k] \in Octal) => n = Len(s)
  OBVIOUS
<1> HIDE DEF n, bad
<1>4. n \in Nat
  BY <1>2
<1>5. Reads(s, n, v)
  BY <1>4, ReadsExists
<1> HIDE DEF v
<1>6. QED
  BY <1>1, <1>2, <1>3, <1>5

\* The argument in the buffer, behind the digits of the type.
Buffer(type, s) == TypeDigits(type) \o <<Char(s, 1), Char(s, 2), Char(s, 3)>>

LEMMA CharsNat ==
  ASSUME NEW s \in Seq(Octal \cup {NotOctal}), NEW k \in 1..3
  PROVE  Char(s, k) \in Nat
<1>1. s \in Seq(Nat)
  BY DEF Octal, NotOctal
<1>2. QED
  BY <1>1 DEF Char, NUL

LEMMA DirectoryBuffer ==
  ASSUME NEW a \in Nat, NEW b \in Nat, NEW c \in Nat,
         NEW t, t = <<4, 0>> \o <<a, b, c>>
  PROVE  /\ t \in Seq(Nat) /\ Len(t) = 5
         /\ t[1] = 4 /\ t[2] = 0
         /\ t[3] = a /\ t[4] = b /\ t[5] = c
<1>1. t \in Seq(Nat) /\ Len(t) = 5
  OBVIOUS
<1>2. t[1] = 4 /\ t[2] = 0
  OBVIOUS
<1>3. t[3] = a /\ t[4] = b /\ t[5] = c
  OBVIOUS
<1>4. QED
  BY <1>1, <1>2, <1>3

LEMMA RegularBuffer ==
  ASSUME NEW a \in Nat, NEW b \in Nat, NEW c \in Nat,
         NEW t, t = <<1, 0, 0>> \o <<a, b, c>>
  PROVE  /\ t \in Seq(Nat) /\ Len(t) = 6
         /\ t[1] = 1 /\ t[2] = 0 /\ t[3] = 0
         /\ t[4] = a /\ t[5] = b /\ t[6] = c
<1>1. t \in Seq(Nat) /\ Len(t) = 6
  OBVIOUS
<1>2. t[1] = 1 /\ t[2] = 0 /\ t[3] = 0
  OBVIOUS
<1>3. t[4] = a /\ t[5] = b /\ t[6] = c
  OBVIOUS
<1>4. QED
  BY <1>1, <1>2, <1>3

LEMMA SymlinkBuffer ==
  ASSUME NEW a \in Nat, NEW b \in Nat, NEW c \in Nat,
         NEW t, t = <<1, 2, 0>> \o <<a, b, c>>
  PROVE  /\ t \in Seq(Nat) /\ Len(t) = 6
         /\ t[1] = 1 /\ t[2] = 2 /\ t[3] = 0
         /\ t[4] = a /\ t[5] = b /\ t[6] = c
<1>1. t \in Seq(Nat) /\ Len(t) = 6
  OBVIOUS
<1>2. t[1] = 1 /\ t[2] = 2 /\ t[3] = 0
  OBVIOUS
<1>3. t[4] = a /\ t[5] = b /\ t[6] = c
  OBVIOUS
<1>4. QED
  BY <1>1, <1>2, <1>3

LEMMA BufferNat ==
  ASSUME NEW type \in {8, 4, 10}, NEW s \in Seq(Octal \cup {NotOctal})
  PROVE  Buffer(type, s) \in Seq(Nat)
<1>1. Char(s, 1) \in Nat /\ Char(s, 2) \in Nat /\ Char(s, 3) \in Nat
  <2>1. 1 \in 1..3 /\ 2 \in 1..3 /\ 3 \in 1..3
    OBVIOUS
  <2>2. QED
    BY <2>1, CharsNat
<1>2. CASE type = 4
  <2>1. Buffer(type, s) = <<4, 0>> \o <<Char(s, 1), Char(s, 2), Char(s, 3)>>
    BY <1>2 DEF Buffer, TypeDigits
  <2>2. QED
    BY <1>1, <2>1, DirectoryBuffer
<1>3. CASE type = 8
  <2>1. Buffer(type, s) = <<1, 0, 0>> \o <<Char(s, 1), Char(s, 2), Char(s, 3)>>
    BY <1>3 DEF Buffer, TypeDigits
  <2>2. QED
    BY <1>1, <2>1, RegularBuffer
<1>4. CASE type = 10
  <2>1. Buffer(type, s) = <<1, 2, 0>> \o <<Char(s, 1), Char(s, 2), Char(s, 3)>>
    BY <1>4 DEF Buffer, TypeDigits
  <2>2. QED
    BY <1>1, <2>1, SymlinkBuffer
<1>5. QED
  BY <1>2, <1>3, <1>4

LEMMA SixteenBits ==
  ASSUME NEW x \in Nat
  PROVE  x % 65536 \in Nat /\ x % 65536 < 65536 /\ (x < 65536 => x % 65536 = x)
<1>1. x % 65536 \in Int /\ 0 <= x % 65536 /\ x % 65536 < 65536
  OBVIOUS
<1>2. x < 65536 => x % 65536 = x
  OBVIOUS
<1>3. QED
  BY <1>1, <1>2

LEMMA ModeInRange ==
  ASSUME NEW type \in {8, 4, 10}, NEW s \in Seq(Octal \cup {NotOctal})
  PROVE  ModeOf(type, s) \in 0..(MODE - 1)
<1> DEFINE t == Buffer(type, s)
<1>1. t \in Seq(Nat)
  BY BufferNat
<1>2. ModeOf(type, s) = strtol(t) % MODE
  BY DEF ModeOf, Buffer
<1> HIDE DEF t
<1>3. PICK n, v : n \in 0..Len(t) /\ Reads(t, n, v) /\ strtol(t) = v[n]
  BY <1>1, strtolReads
<1>4. v[n] \in Nat
  <2>1. \A k \in 0..n : v[k] \in Nat
    BY <1>1, <1>3, ReadsNat
  <2>2. n \in 0..n
    BY <1>1, <1>3
  <2>3. QED
    BY <2>1, <2>2
<1>5. v[n] % 65536 \in Nat /\ v[n] % 65536 < 65536
  BY <1>4, SixteenBits
<1>6. ModeOf(type, s) \in Nat /\ ModeOf(type, s) < MODE /\ MODE \in Nat
  BY <1>2, <1>3, <1>5 DEF MODE
<1> QED
  BY <1>6

\* Digits below 8 are read to the end.
LEMMA AllRead ==
  ASSUME NEW t \in Seq(Nat), \A k \in 1..Len(t) : t[k] \in 0..7
  PROVE  \E v : /\ strtol(t) = v[Len(t)] /\ v[0] = 0
                /\ \A k \in 0..Len(t) : v[k] \in Nat
                /\ \A k \in 1..Len(t) : v[k] = 8 * v[k - 1] + t[k]
<1>1. \A k \in 1..Len(t) : t[k] \in Octal
  BY DEF Octal
<1>2. PICK n, v :
        /\ n \in 0..Len(t) /\ Reads(t, n, v) /\ strtol(t) = v[n]
        /\ (\A k \in 1..Len(t) : t[k] \in Octal) => n = Len(t)
  BY strtolReads
<1>3. n = Len(t) /\ Len(t) \in Nat
  BY <1>1, <1>2
<1>4. v[0] = 0
  BY <1>2, <1>3 DEF Reads
<1>5. \A k \in 0..n : k # 0 => v[k] = 8 * v[k - 1] + t[k]
  BY <1>2 DEF Reads
<1>6. \A k \in 1..n : k \in 0..n /\ k # 0
  BY <1>3
<1>7. \A k \in 0..n : v[k] \in Nat
  BY <1>2, ReadsNat
<1>8. QED
  BY <1>2, <1>3, <1>4, <1>5, <1>6, <1>7

LEMMA DirectoryRead ==
  ASSUME NEW a \in Nat, NEW b \in Nat, NEW c \in Nat, a < 8, b < 8, c < 8
  PROVE  strtol(<<4, 0>> \o <<a, b, c>>) = 16384 + (64 * a + 8 * b + c)
<1> DEFINE t == <<4, 0>> \o <<a, b, c>>
<1>1. a \in 0..7 /\ b \in 0..7 /\ c \in 0..7
  OBVIOUS
<1>2. /\ t \in Seq(Nat) /\ Len(t) = 5 /\ t[1] = 4 /\ t[2] = 0
      /\ t[3] = a /\ t[4] = b /\ t[5] = c
  BY <1>1, DirectoryBuffer
<1> HIDE DEF t
<1>3. \A k \in 1..Len(t) : t[k] \in 0..7
  <2>1. \A k \in 1..5 : k = 1 \/ k = 2 \/ k = 3 \/ k = 4 \/ k = 5
    OBVIOUS
  <2>2. t[1] \in 0..7 /\ t[2] \in 0..7 /\ t[3] \in 0..7 /\ t[4] \in 0..7 /\ t[5] \in 0..7
    BY <1>1, <1>2
  <2>3. 1..Len(t) = 1..5
    BY <1>2
  <2>4. QED
    BY <2>1, <2>2, <2>3
<1>4. PICK v : /\ strtol(t) = v[Len(t)] /\ v[0] = 0
               /\ \A k \in 0..Len(t) : v[k] \in Nat
               /\ \A k \in 1..Len(t) : v[k] = 8 * v[k - 1] + t[k]
  BY <1>2, <1>3, AllRead
<1>5. v[1] = 4
  <2>1. v[1] = 8 * v[0] + t[1]
    <3>1. 1 \in 1..Len(t) /\ 1 - 1 = 0
      BY <1>2
    <3>2. v[1] = 8 * v[1 - 1] + t[1]
      BY <1>4, <3>1
    <3>3. QED
      BY <3>1, <3>2
  <2>2. QED
    BY <1>1, <1>2, <1>4, <2>1
<1>6. v[2] = 32
  <2>1. v[2] = 8 * v[1] + t[2]
    BY <1>2, <1>4
  <2>2. QED
    BY <1>1, <1>2, <1>5, <2>1
<1>7. v[3] = 256 + a
  <2>1. v[3] = 8 * v[2] + t[3]
    BY <1>2, <1>4
  <2>2. QED
    BY <1>1, <1>2, <1>6, <2>1
<1>8. v[4] = 2048 + 8 * a + b
  <2>1. v[4] = 8 * v[3] + t[4]
    BY <1>2, <1>4
  <2>2. QED
    BY <1>1, <1>2, <1>7, <2>1
<1>9. v[5] = 16384 + 64 * a + 8 * b + c
  <2>1. v[5] = 8 * v[4] + t[5]
    BY <1>2, <1>4
  <2>2. QED
    BY <1>1, <1>2, <1>8, <2>1
<1>10. QED
  BY <1>1, <1>2, <1>4, <1>9 DEF t

LEMMA RegularRead ==
  ASSUME NEW a \in Nat, NEW b \in Nat, NEW c \in Nat, a < 8, b < 8, c < 8
  PROVE  strtol(<<1, 0, 0>> \o <<a, b, c>>) = 32768 + (64 * a + 8 * b + c)
<1> DEFINE t == <<1, 0, 0>> \o <<a, b, c>>
<1>1. a \in 0..7 /\ b \in 0..7 /\ c \in 0..7
  OBVIOUS
<1>2. /\ t \in Seq(Nat) /\ Len(t) = 6 /\ t[1] = 1 /\ t[2] = 0 /\ t[3] = 0
      /\ t[4] = a /\ t[5] = b /\ t[6] = c
  BY <1>1, RegularBuffer
<1> HIDE DEF t
<1>3. \A k \in 1..Len(t) : t[k] \in 0..7
  <2>1. \A k \in 1..6 : k = 1 \/ k = 2 \/ k = 3 \/ k = 4 \/ k = 5 \/ k = 6
    OBVIOUS
  <2>2. t[1] \in 0..7 /\ t[2] \in 0..7 /\ t[3] \in 0..7 /\ t[4] \in 0..7 /\ t[5] \in 0..7 /\ t[6] \in 0..7
    BY <1>1, <1>2
  <2>3. 1..Len(t) = 1..6
    BY <1>2
  <2>4. QED
    BY <2>1, <2>2, <2>3
<1>4. PICK v : /\ strtol(t) = v[Len(t)] /\ v[0] = 0
               /\ \A k \in 0..Len(t) : v[k] \in Nat
               /\ \A k \in 1..Len(t) : v[k] = 8 * v[k - 1] + t[k]
  BY <1>2, <1>3, AllRead
<1>5. v[1] = 1
  <2>1. v[1] = 8 * v[0] + t[1]
    <3>1. 1 \in 1..Len(t) /\ 1 - 1 = 0
      BY <1>2
    <3>2. v[1] = 8 * v[1 - 1] + t[1]
      BY <1>4, <3>1
    <3>3. QED
      BY <3>1, <3>2
  <2>2. QED
    BY <1>1, <1>2, <1>4, <2>1
<1>6. v[2] = 8
  <2>1. v[2] = 8 * v[1] + t[2]
    BY <1>2, <1>4
  <2>2. QED
    BY <1>1, <1>2, <1>5, <2>1
<1>7. v[3] = 64
  <2>1. v[3] = 8 * v[2] + t[3]
    BY <1>2, <1>4
  <2>2. QED
    BY <1>1, <1>2, <1>6, <2>1
<1>8. v[4] = 512 + a
  <2>1. v[4] = 8 * v[3] + t[4]
    BY <1>2, <1>4
  <2>2. QED
    BY <1>1, <1>2, <1>7, <2>1
<1>9. v[5] = 4096 + 8 * a + b
  <2>1. v[5] = 8 * v[4] + t[5]
    BY <1>2, <1>4
  <2>2. QED
    BY <1>1, <1>2, <1>8, <2>1
<1>10. v[6] = 32768 + 64 * a + 8 * b + c
  <2>1. v[6] = 8 * v[5] + t[6]
    BY <1>2, <1>4
  <2>2. QED
    BY <1>1, <1>2, <1>9, <2>1
<1>11. QED
  BY <1>1, <1>2, <1>4, <1>10 DEF t

LEMMA SymlinkRead ==
  ASSUME NEW a \in Nat, NEW b \in Nat, NEW c \in Nat, a < 8, b < 8, c < 8
  PROVE  strtol(<<1, 2, 0>> \o <<a, b, c>>) = 40960 + (64 * a + 8 * b + c)
<1> DEFINE t == <<1, 2, 0>> \o <<a, b, c>>
<1>1. a \in 0..7 /\ b \in 0..7 /\ c \in 0..7
  OBVIOUS
<1>2. /\ t \in Seq(Nat) /\ Len(t) = 6 /\ t[1] = 1 /\ t[2] = 2 /\ t[3] = 0
      /\ t[4] = a /\ t[5] = b /\ t[6] = c
  BY <1>1, SymlinkBuffer
<1> HIDE DEF t
<1>3. \A k \in 1..Len(t) : t[k] \in 0..7
  <2>1. \A k \in 1..6 : k = 1 \/ k = 2 \/ k = 3 \/ k = 4 \/ k = 5 \/ k = 6
    OBVIOUS
  <2>2. t[1] \in 0..7 /\ t[2] \in 0..7 /\ t[3] \in 0..7 /\ t[4] \in 0..7 /\ t[5] \in 0..7 /\ t[6] \in 0..7
    BY <1>1, <1>2
  <2>3. 1..Len(t) = 1..6
    BY <1>2
  <2>4. QED
    BY <2>1, <2>2, <2>3
<1>4. PICK v : /\ strtol(t) = v[Len(t)] /\ v[0] = 0
               /\ \A k \in 0..Len(t) : v[k] \in Nat
               /\ \A k \in 1..Len(t) : v[k] = 8 * v[k - 1] + t[k]
  BY <1>2, <1>3, AllRead
<1>5. v[1] = 1
  <2>1. v[1] = 8 * v[0] + t[1]
    <3>1. 1 \in 1..Len(t) /\ 1 - 1 = 0
      BY <1>2
    <3>2. v[1] = 8 * v[1 - 1] + t[1]
      BY <1>4, <3>1
    <3>3. QED
      BY <3>1, <3>2
  <2>2. QED
    BY <1>1, <1>2, <1>4, <2>1
<1>6. v[2] = 10
  <2>1. v[2] = 8 * v[1] + t[2]
    BY <1>2, <1>4
  <2>2. QED
    BY <1>1, <1>2, <1>5, <2>1
<1>7. v[3] = 80
  <2>1. v[3] = 8 * v[2] + t[3]
    BY <1>2, <1>4
  <2>2. QED
    BY <1>1, <1>2, <1>6, <2>1
<1>8. v[4] = 640 + a
  <2>1. v[4] = 8 * v[3] + t[4]
    BY <1>2, <1>4
  <2>2. QED
    BY <1>1, <1>2, <1>7, <2>1
<1>9. v[5] = 5120 + 8 * a + b
  <2>1. v[5] = 8 * v[4] + t[5]
    BY <1>2, <1>4
  <2>2. QED
    BY <1>1, <1>2, <1>8, <2>1
<1>10. v[6] = 40960 + 64 * a + 8 * b + c
  <2>1. v[6] = 8 * v[5] + t[6]
    BY <1>2, <1>4
  <2>2. QED
    BY <1>1, <1>2, <1>9, <2>1
<1>11. QED
  BY <1>1, <1>2, <1>4, <1>10 DEF t

\* Three octal digits give the permissions they stand for, under the type.
LEMMA ModeIs ==
  ASSUME NEW type \in {8, 4, 10}, NEW s \in Seq(Octal), Len(s) = 3
  PROVE  ModeOf(type, s) = type * TYPE + Perm(s) /\ Perm(s) \in Nat /\ Perm(s) < 512
<1> DEFINE t == Buffer(type, s)
<1>1. ModeOf(type, s) = strtol(t) % MODE
  BY DEF ModeOf, Buffer
<1>2. s[1] \in Octal /\ s[2] \in Octal /\ s[3] \in Octal
  OBVIOUS
<1>3. PICK a \in Nat, b \in Nat, c \in Nat :
        a = s[1] /\ b = s[2] /\ c = s[3] /\ a < 8 /\ b < 8 /\ c < 8
  BY <1>2 DEF Octal
<1> DEFINE p == 64 * a + 8 * b + c
<1>4. Char(s, 1) = a /\ Char(s, 2) = b /\ Char(s, 3) = c
  BY <1>3 DEF Char
<1>5. p \in Nat /\ p < 512
  BY <1>3
<1>6. Perm(s) = p
  BY <1>3 DEF Perm
<1>7. t = TypeDigits(type) \o <<a, b, c>>
  BY <1>4 DEF Buffer
<1> HIDE DEF t
<1>8. CASE type = 4
  <2>1. t = <<4, 0>> \o <<a, b, c>>
    BY <1>7, <1>8 DEF TypeDigits
  <2>2. strtol(<<4, 0>> \o <<a, b, c>>) = 16384 + (64 * a + 8 * b + c)
    BY <1>3, DirectoryRead
  <2>3. strtol(t) = 16384 + p
    BY <2>1, <2>2
  <2> HIDE DEF p
  <2>4. 16384 + p \in Nat /\ 16384 + p < 65536
    BY <1>5
  <2>5. ModeOf(type, s) = 16384 + p
    BY <1>1, <2>3, <2>4, SixteenBits DEF MODE
  <2>6. QED
    BY <1>5, <1>6, <1>8, <2>5 DEF TYPE
<1>9. CASE type = 8
  <2>1. t = <<1, 0, 0>> \o <<a, b, c>>
    BY <1>7, <1>9 DEF TypeDigits
  <2>2. strtol(<<1, 0, 0>> \o <<a, b, c>>) = 32768 + (64 * a + 8 * b + c)
    BY <1>3, RegularRead
  <2>3. strtol(t) = 32768 + p
    BY <2>1, <2>2
  <2> HIDE DEF p
  <2>4. 32768 + p \in Nat /\ 32768 + p < 65536
    BY <1>5
  <2>5. ModeOf(type, s) = 32768 + p
    BY <1>1, <2>3, <2>4, SixteenBits DEF MODE
  <2>6. QED
    BY <1>5, <1>6, <1>9, <2>5 DEF TYPE
<1>10. CASE type = 10
  <2>1. t = <<1, 2, 0>> \o <<a, b, c>>
    BY <1>7, <1>10 DEF TypeDigits
  <2>2. strtol(<<1, 2, 0>> \o <<a, b, c>>) = 40960 + (64 * a + 8 * b + c)
    BY <1>3, SymlinkRead
  <2>3. strtol(t) = 40960 + p
    BY <2>1, <2>2
  <2> HIDE DEF p
  <2>4. 40960 + p \in Nat /\ 40960 + p < 65536
    BY <1>5
  <2>5. ModeOf(type, s) = 40960 + p
    BY <1>1, <2>3, <2>4, SixteenBits DEF MODE
  <2>6. QED
    BY <1>5, <1>6, <1>10, <2>5 DEF TYPE
<1>11. QED
  BY <1>8, <1>9, <1>10

-----------------------------------------------------------------------------
(***************************************************************************)
(* The inductive invariant                                                 *)
(***************************************************************************)
CORE == [mode : 0..(MODE - 1), atime : 0..MaxTime, dirty : BOOLEAN]
DISK == [mode : 0..(MODE - 1), atime : 0..MaxTime]

\* An inode given only modes of three octal digits has the type it was made
\* with, on disk as in memory, and the permissions wanted where it is shown.
\* Only a dirty slot differs in the mode from the disk: this is why a put that
\* writes nothing loses no mode.
Formed(i) == \E p \in Nat : p < 512 /\ disk[i].mode = Kind[i] * TYPE + p
Good(i) ==
  /\ Formed(i)
  /\ i \in held => core[i].mode = Kind[i] * TYPE + wanted[i]
  /\ i \notin held => disk[i].mode = Kind[i] * TYPE + wanted[i]
  /\ i \in held /\ ~core[i].dirty => core[i].mode = disk[i].mode

\* No time is ahead of the clock, and none in memory behind the disk.
Timed(i) ==
  /\ disk[i].atime <= time /\ core[i].atime <= time
  /\ i \in held => disk[i].atime <= core[i].atime

AttrInv ==
  /\ AttrOK
  /\ \A i \in Inode \ odd : Good(i)
  /\ \A i \in Inode : Timed(i)

LEMMA InModes ==
  ASSUME NEW x \in Nat, x < 65536
  PROVE  x \in 0..(MODE - 1)
<1>1. MODE \in Nat /\ x < MODE
  BY DEF MODE
<1>2. QED
  BY <1>1

LEMMA TypeAndPerms ==
  ASSUME NEW k \in {8, 4, 10}, NEW p \in Nat, p < 512
  PROVE  /\ (k * TYPE + p) \div TYPE = k /\ (k * TYPE + p) % 512 = p
         /\ k * TYPE + p \in 0..(MODE - 1)
<1>1. CASE k = 8
  <2>1. k * TYPE + p = 32768 + p /\ TYPE = 4096
    BY <1>1 DEF TYPE
  <2>2. (32768 + p) \div 4096 = 8 /\ (32768 + p) % 512 = p
    OBVIOUS
  <2>3. 32768 + p \in Nat /\ 32768 + p < 65536
    OBVIOUS
  <2>4. 32768 + p \in 0..(MODE - 1)
    BY <2>3, InModes
  <2>5. QED
    BY <1>1, <2>1, <2>2, <2>4
<1>2. CASE k = 4
  <2>1. k * TYPE + p = 16384 + p /\ TYPE = 4096
    BY <1>2 DEF TYPE
  <2>2. (16384 + p) \div 4096 = 4 /\ (16384 + p) % 512 = p
    OBVIOUS
  <2>3. 16384 + p \in Nat /\ 16384 + p < 65536
    OBVIOUS
  <2>4. 16384 + p \in 0..(MODE - 1)
    BY <2>3, InModes
  <2>5. QED
    BY <1>2, <2>1, <2>2, <2>4
<1>3. CASE k = 10
  <2>1. k * TYPE + p = 40960 + p /\ TYPE = 4096
    BY <1>3 DEF TYPE
  <2>2. (40960 + p) \div 4096 = 10 /\ (40960 + p) % 512 = p
    OBVIOUS
  <2>3. 40960 + p \in Nat /\ 40960 + p < 65536
    OBVIOUS
  <2>4. 40960 + p \in 0..(MODE - 1)
    BY <2>3, InModes
  <2>5. QED
    BY <1>3, <2>1, <2>2, <2>4
<1>4. QED
  BY <1>1, <1>2, <1>3

LEMMA PermsAre == \A p : p \in Perms <=> p \in Nat /\ p < 512
BY DEF Perms

LEMMA ModNat == ASSUME NEW x \in Nat PROVE x % 512 \in Nat /\ x % 512 < 512
OBVIOUS

\* What an action leaves alone stays good.
LEMMA GoodKept ==
  ASSUME NEW i, Good(i), disk'[i] = disk[i], core'[i] = core[i],
         i \in held' <=> i \in held, wanted'[i] = wanted[i]
  PROVE  Good(i)'
BY DEF Good, Formed

LEMMA TimedKept ==
  ASSUME NEW i, Timed(i), disk'[i].atime = disk[i].atime,
         core'[i].atime = core[i].atime, i \in held' <=> i \in held,
         time' = time
  PROVE  Timed(i)'
BY DEF Timed

\* What a command leaves of the inode it looked at.
LEMMA LeavesEffect ==
  ASSUME AttrOK, NEW i \in Inode, NEW c \in CORE, Leaves(i, c)
  PROVE  /\ disk' \in [Inode -> DISK] /\ core' \in [Inode -> CORE]
         /\ \A j \in Inode \ {i} : disk'[j] = disk[j] /\ core'[j] = core[j]
         /\ i \in held => core'[i] = c /\ disk'[i] = disk[i]
         /\ i \notin held => /\ core'[i] = core[i]
                             /\ disk'[i] = IF c.dirty THEN Out(c) ELSE disk[i]
<1>1. disk \in [Inode -> DISK] /\ core \in [Inode -> CORE]
  BY DEF AttrOK, DISK, CORE
<1>2. Out(c) \in DISK
  BY DEF Out, DISK, CORE
<1> HIDE DEF DISK, CORE
<1>3. CASE i \in held
  BY <1>1, <1>3 DEF Leaves
<1>4. CASE i \notin held
  BY <1>1, <1>2, <1>4 DEF Leaves
<1>5. QED
  BY <1>3, <1>4

LEMMA GotCore ==
  ASSUME AttrOK, NEW i \in Inode, NEW stale \in BOOLEAN
  PROVE  /\ Got(i, stale) \in CORE
         /\ i \in held => Got(i, stale) = core[i]
         /\ i \notin held => /\ Got(i, stale).mode = disk[i].mode
                             /\ Got(i, stale).atime = disk[i].atime
                             /\ Got(i, stale).dirty = stale
<1>1. disk[i] \in DISK /\ core[i] \in CORE
  BY DEF AttrOK, DISK, CORE
<1>2. QED
  BY <1>1 DEF Got, Load, DISK, CORE

LEMMA AttrInitInv == AttrInit => AttrInv
<1> SUFFICES ASSUME AttrInit PROVE AttrInv
  OBVIOUS
<1>1. Root \in Inode /\ Kind \in [Inode -> {8, 4, 10}] /\ MaxTime \in Nat /\ MaxKill \in Nat
  BY AttributesAssumption
<1>2. \A i \in Inode : Kind[i] * TYPE + 420 \in 0..(MODE - 1)
  <2> SUFFICES ASSUME NEW i \in Inode PROVE Kind[i] * TYPE + 420 \in 0..(MODE - 1)
    OBVIOUS
  <2>1. Kind[i] \in {8, 4, 10} /\ 420 \in Nat /\ 420 < 512
    BY <1>1
  <2>2. QED
    BY <2>1, TypeAndPerms
<1>3. 420 \in Perms
  BY PermsAre
<1>4. \A i \in Inode : /\ disk[i] \in DISK /\ core[i] \in CORE
                       /\ disk[i].mode = Kind[i] * TYPE + 420
                       /\ core[i].mode = Kind[i] * TYPE + 420
                       /\ disk[i].atime = 0 /\ core[i].atime = 0
  <2> SUFFICES ASSUME NEW i \in Inode
               PROVE  /\ disk[i] \in DISK /\ core[i] \in CORE
                      /\ disk[i].mode = Kind[i] * TYPE + 420
                      /\ core[i].mode = Kind[i] * TYPE + 420
                      /\ disk[i].atime = 0 /\ core[i].atime = 0
    OBVIOUS
  <2>1. disk[i] = [mode |-> Kind[i] * TYPE + 420, atime |-> 0]
    BY DEF AttrInit
  <2>2. core[i] = [mode |-> disk[i].mode, atime |-> disk[i].atime, dirty |-> FALSE]
    BY DEF AttrInit, Load
  <2>3. Kind[i] * TYPE + 420 \in 0..(MODE - 1) /\ 0 \in 0..MaxTime
    BY <1>1, <1>2
  <2>4. QED
    BY <2>1, <2>2, <2>3 DEF DISK, CORE
<1>5. AttrOK
  <2>1. disk \in [Inode -> DISK] /\ core \in [Inode -> CORE]
    <3> HIDE DEF DISK, CORE
    <3>1. DOMAIN disk = Inode /\ DOMAIN core = Inode
      BY DEF AttrInit
    <3>2. disk = [i \in Inode |-> disk[i]] /\ core = [i \in Inode |-> core[i]]
      BY DEF AttrInit
    <3>3. QED
      BY <1>4, <3>2
  <2>2. wanted \in [Inode -> Perms]
    BY <1>3 DEF AttrInit
  <2>3. QED
    <3>1. held = {Root} /\ time = 0 /\ kills = 0 /\ odd = {}
      BY DEF AttrInit
    <3>2. 0 \in 0..MaxTime /\ 0 \in 0..MaxKill
      BY <1>1
    <3>3. QED
      BY <1>1, <2>1, <2>2, <3>1, <3>2 DEF AttrOK, DISK, CORE
<1>6. \A i \in Inode : Good(i)
  <2>1. \A i \in Inode : Formed(i)
    <3>1. 420 \in Nat /\ 420 < 512
      OBVIOUS
    <3>2. QED
      BY <1>4, <3>1 DEF Formed
  <2>2. \A i \in Inode : wanted[i] = 420
    BY DEF AttrInit
  <2>3. \A i \in Inode : core[i].mode = disk[i].mode
    BY <1>4
  <2>4. ASSUME NEW i \in Inode PROVE Good(i)
    <3>1. /\ Formed(i) /\ core[i].mode = disk[i].mode
          /\ core[i].mode = Kind[i] * TYPE + wanted[i]
          /\ disk[i].mode = Kind[i] * TYPE + wanted[i]
      BY <1>4, <2>1, <2>2, <2>3
    <3>2. QED
      BY <3>1 DEF Good
  <2>5. QED
    BY <2>4
<1>7. \A i \in Inode : Timed(i)
  <2>1. time = 0
    BY DEF AttrInit
  <2>2. ASSUME NEW i \in Inode PROVE Timed(i)
    <3>1. disk[i].atime = 0 /\ core[i].atime = 0
      BY <1>4
    <3>2. 0 <= 0
      OBVIOUS
    <3>3. QED
      BY <2>1, <3>1, <3>2 DEF Timed
  <2>3. QED
    BY <2>2
<1>8. QED
  BY <1>5, <1>6, <1>7 DEF AttrInv

\* chmod: the type is the one the mode has, and stays.
LEMMA mychmodInv ==
  ASSUME AttrInv, NEW i \in Inode, NEW s \in Digits, mychmod(i, s)
  PROVE  AttrInv' /\ \A j \in Inode : disk'[j].atime >= disk[j].atime
<1> DEFINE g == Got(i, TRUE)
           c == [g EXCEPT !.mode = ModeOf(TypeOf(i), s), !.dirty = TRUE]
<1>1. /\ AttrOK /\ Kind \in [Inode -> {8, 4, 10}] /\ MaxTime \in Nat /\ time \in Nat
      /\ s \in Seq(Octal \cup {NotOctal})
  BY AttributesAssumption DEF AttrInv, AttrOK
<1>2. /\ TypeOf(i) \in {8, 4, 10} /\ Leaves(i, c) /\ Asked(i, s)
      /\ UNCHANGED <<held, time, kills>>
  BY DEF mychmod
<1>3. /\ g \in CORE /\ (i \in held => g = core[i])
      /\ (i \notin held => g.mode = disk[i].mode /\ g.atime = disk[i].atime)
  BY <1>1, GotCore
<1>4. TypeOf(i) = g.mode \div TYPE
  BY DEF TypeOf, Got, Load
<1>5. ModeOf(TypeOf(i), s) \in 0..(MODE - 1)
  BY <1>1, <1>2, ModeInRange
<1> HIDE DEF g
<1>6. /\ c \in CORE /\ c.mode = ModeOf(TypeOf(i), s) /\ c.atime = g.atime
      /\ c.dirty = TRUE
  BY <1>3, <1>5 DEF CORE
<1> HIDE DEF c
<1>7. /\ disk' \in [Inode -> DISK] /\ core' \in [Inode -> CORE]
      /\ \A j \in Inode \ {i} : disk'[j] = disk[j] /\ core'[j] = core[j]
      /\ i \in held => core'[i] = c /\ disk'[i] = disk[i]
      /\ i \notin held => core'[i] = core[i] /\ disk'[i] = Out(c)
  BY <1>1, <1>2, <1>6, LeavesEffect
<1>8. /\ wanted' \in [Inode -> Perms] /\ odd' \subseteq Inode /\ odd \subseteq odd'
      /\ \A j \in Inode \ {i} : wanted'[j] = wanted[j]
      /\ i \notin odd' => /\ Len(s) = 3 /\ s \in Seq(Octal) /\ wanted'[i] = Perm(s)
  <2>1. wanted \in [Inode -> Perms] /\ odd \subseteq Inode
    BY <1>1 DEF AttrOK
  <2>2. CASE Len(s) = 3 /\ s \in Seq(Octal)
    <3>1. Perm(s) \in Perms
      <4>1. Perm(s) \in Nat /\ Perm(s) < 512
        BY <1>2, <2>2, ModeIs
      <4>2. QED
        BY <4>1, PermsAre
    <3>2. wanted' = [wanted EXCEPT ![i] = Perm(s)] /\ odd' = odd
      BY <1>2, <2>2 DEF Asked
    <3>3. QED
      BY <2>1, <2>2, <3>1, <3>2
  <2>3. CASE ~(Len(s) = 3 /\ s \in Seq(Octal))
    <3>1. odd' = odd \cup {i} /\ wanted' = wanted
      BY <1>2, <2>3 DEF Asked
    <3>2. QED
      BY <2>1, <3>1
  <2>4. QED
    BY <2>2, <2>3
<1>9. AttrOK'
  BY <1>1, <1>2, <1>7, <1>8 DEF AttrOK, DISK, CORE
<1>10. \A j \in Inode \ odd' : Good(j)'
  <2> SUFFICES ASSUME NEW j \in Inode \ odd' PROVE Good(j)'
    OBVIOUS
  <2>1. Good(j)
    BY <1>8 DEF AttrInv
  <2>2. CASE j # i
    BY <1>2, <1>7, <1>8, <2>1, <2>2, GoodKept
  <2>3. CASE j = i
    <3>1. Len(s) = 3 /\ s \in Seq(Octal) /\ wanted'[i] = Perm(s)
      BY <1>8, <2>3
    <3>2. Kind[i] \in {8, 4, 10}
      BY <1>1
    <3>3. TypeOf(i) = Kind[i]
      <4>1. \E p \in Nat : p < 512 /\ g.mode = Kind[i] * TYPE + p
        <5>1. CASE i \in held
          <6>1. g.mode = Kind[i] * TYPE + wanted[i]
            BY <1>3, <2>1, <2>3, <5>1 DEF Good
          <6>2. wanted[i] \in Nat /\ wanted[i] < 512
            BY <1>1, PermsAre DEF AttrOK
          <6>3. QED
            BY <6>1, <6>2
        <5>2. CASE i \notin held
          BY <1>3, <2>1, <2>3, <5>2 DEF Good, Formed
        <5>3. QED
          BY <5>1, <5>2
      <4>2. QED
        BY <1>4, <3>2, <4>1, TypeAndPerms
    <3>4. c.mode = Kind[i] * TYPE + Perm(s) /\ Perm(s) \in Nat /\ Perm(s) < 512
      BY <1>6, <3>1, <3>2, <3>3, ModeIs
    <3>5. CASE i \in held
      <4>1. Formed(i)'
        BY <1>7, <2>1, <2>3, <3>5 DEF Good, Formed
      <4>2. QED
        BY <1>2, <1>6, <1>7, <2>3, <3>1, <3>4, <3>5, <4>1 DEF Good
    <3>6. CASE i \notin held
      <4>1. disk'[i].mode = Kind[i] * TYPE + Perm(s)
        BY <1>7, <3>4, <3>6 DEF Out
      <4>2. Formed(i)'
        BY <3>4, <4>1 DEF Formed
      <4>3. QED
        BY <1>2, <2>3, <3>1, <3>6, <4>1, <4>2 DEF Good
    <3>7. QED
      BY <3>5, <3>6
  <2>4. QED
    BY <2>2, <2>3
<1>11. \A j \in Inode : /\ disk'[j].atime = disk[j].atime
                        /\ core'[j].atime = core[j].atime
  <2>1. i \in held => core'[i].atime = core[i].atime
    BY <1>3, <1>6, <1>7
  <2>2. i \notin held => disk'[i].atime = disk[i].atime
    BY <1>3, <1>6, <1>7 DEF Out
  <2>3. QED
    BY <1>7, <2>1, <2>2
<1>12. \A j \in Inode : Timed(j)'
  BY <1>2, <1>11, TimedKept DEF AttrInv
<1>13. \A j \in Inode : disk'[j].atime >= disk[j].atime
  <2>1. \A j \in Inode : disk[j].atime \in Nat
    BY <1>1 DEF AttrOK
  <2>2. QED
    BY <1>11, <2>1
<1>14. QED
  BY <1>9, <1>10, <1>12, <1>13 DEF AttrInv

\* utime: the mode and the dirty flag stay, and the new time is ahead of all.
LEMMA myutimeInv ==
  ASSUME AttrInv, NEW i \in Inode, myutime(i)
  PROVE  AttrInv' /\ \A j \in Inode : disk'[j].atime >= disk[j].atime
<1>1. AttrOK /\ MaxTime \in Nat /\ time \in Nat
  BY AttributesAssumption DEF AttrInv, AttrOK
<1>2. PICK stale \in BOOLEAN : Leaves(i, [Got(i, stale) EXCEPT !.atime = time + 1])
  BY DEF myutime
<1> DEFINE g == Got(i, stale)
           c == [g EXCEPT !.atime = time + 1]
<1>3. /\ g \in CORE /\ (i \in held => g = core[i])
      /\ (i \notin held => /\ g.mode = disk[i].mode /\ g.atime = disk[i].atime
                           /\ g.dirty = stale)
  BY <1>1, GotCore
<1> HIDE DEF g
<1>4. /\ time' = time + 1 /\ time' \in 0..MaxTime
      /\ UNCHANGED <<held, wanted, odd, kills>>
  BY <1>1 DEF myutime
<1>5. /\ c \in CORE /\ c.mode = g.mode /\ c.atime = time + 1 /\ c.dirty = g.dirty
  BY <1>1, <1>3, <1>4 DEF CORE
<1>6. Leaves(i, c)
  BY <1>2 DEF g
<1> HIDE DEF c
<1>7. /\ disk' \in [Inode -> DISK] /\ core' \in [Inode -> CORE]
      /\ \A j \in Inode \ {i} : disk'[j] = disk[j] /\ core'[j] = core[j]
      /\ i \in held => core'[i] = c /\ disk'[i] = disk[i]
      /\ i \notin held => /\ core'[i] = core[i]
                          /\ disk'[i] = IF c.dirty THEN Out(c) ELSE disk[i]
  BY <1>1, <1>5, <1>6, LeavesEffect
<1>8. AttrOK'
  BY <1>1, <1>4, <1>7 DEF AttrOK, DISK, CORE
<1>9. disk'[i].mode = disk[i].mode
  BY <1>3, <1>5, <1>7 DEF Out
<1>10. \A j \in Inode \ odd' : Good(j)'
  <2> SUFFICES ASSUME NEW j \in Inode \ odd' PROVE Good(j)'
    OBVIOUS
  <2>1. Good(j)
    BY <1>4 DEF AttrInv
  <2>2. CASE j # i
    BY <1>4, <1>7, <2>1, <2>2, GoodKept
  <2>3. CASE j = i
    <3>1. /\ disk'[i].mode = disk[i].mode
          /\ i \in held => /\ core'[i].mode = core[i].mode
                           /\ core'[i].dirty = core[i].dirty
      BY <1>3, <1>5, <1>7, <1>9
    <3>2. QED
      BY <1>4, <2>1, <2>3, <3>1 DEF Good, Formed
  <2>4. QED
    BY <2>2, <2>3
<1>11. \A j \in Inode : /\ disk[j].atime \in Nat /\ core[j].atime \in Nat
                        /\ disk'[j].atime \in Nat /\ core'[j].atime \in Nat
                        /\ disk[j].atime <= time /\ core[j].atime <= time
                        /\ j \in held => disk[j].atime <= core[j].atime
  BY <1>1, <1>7 DEF AttrOK, DISK, CORE, AttrInv, Timed
<1>12. /\ disk'[i].atime = time + 1 \/ disk'[i].atime = disk[i].atime
       /\ core'[i].atime = time + 1 \/ core'[i].atime = core[i].atime
       /\ i \in held => core'[i].atime = time + 1 /\ disk'[i].atime = disk[i].atime
  BY <1>5, <1>7 DEF Out
<1>13. \A j \in Inode : Timed(j)'
  <2> SUFFICES ASSUME NEW j \in Inode PROVE Timed(j)'
    OBVIOUS
  <2>1. CASE j # i
    <3>1. disk'[j].atime = disk[j].atime /\ core'[j].atime = core[j].atime
      BY <1>7, <2>1
    <3>2. QED
      BY <1>1, <1>4, <1>11, <3>1 DEF Timed
  <2>2. CASE j = i
    BY <1>1, <1>4, <1>11, <1>12, <2>2 DEF Timed
  <2>3. QED
    BY <2>1, <2>2
<1>14. \A j \in Inode : disk'[j].atime >= disk[j].atime
  <2> SUFFICES ASSUME NEW j \in Inode PROVE disk'[j].atime >= disk[j].atime
    OBVIOUS
  <2>1. CASE j # i
    BY <1>7, <1>11, <2>1
  <2>2. CASE j = i
    BY <1>1, <1>11, <1>12, <2>2
  <2>3. QED
    BY <2>1, <2>2
<1>15. QED
  BY <1>8, <1>10, <1>13, <1>14 DEF AttrInv

\* stat: what is put is what is on the disk.
LEMMA mystatInv ==
  ASSUME AttrInv, NEW i \in Inode, mystat(i)
  PROVE  AttrInv' /\ \A j \in Inode : disk'[j].atime >= disk[j].atime
<1>1. AttrOK
  BY DEF AttrInv
<1>2. PICK stale \in BOOLEAN : Leaves(i, Got(i, stale))
  BY DEF mystat
<1> DEFINE c == Got(i, stale)
<1>3. /\ c \in CORE /\ (i \in held => c = core[i])
      /\ (i \notin held => c.mode = disk[i].mode /\ c.atime = disk[i].atime)
  BY <1>1, GotCore
<1>4. Leaves(i, c)
  BY <1>2
<1> HIDE DEF c
<1>5. /\ disk' \in [Inode -> DISK] /\ core' \in [Inode -> CORE]
      /\ \A j \in Inode \ {i} : disk'[j] = disk[j] /\ core'[j] = core[j]
      /\ i \in held => core'[i] = c /\ disk'[i] = disk[i]
      /\ i \notin held => /\ core'[i] = core[i]
                          /\ disk'[i] = IF c.dirty THEN Out(c) ELSE disk[i]
  BY <1>1, <1>3, <1>4, LeavesEffect
<1>6. UNCHANGED <<held, time, wanted, odd, kills>>
  BY DEF mystat
<1>7. /\ core'[i] = core[i]
      /\ disk'[i].mode = disk[i].mode /\ disk'[i].atime = disk[i].atime
  BY <1>3, <1>5 DEF Out
<1>8. \A j \in Inode : /\ core'[j] = core[j] /\ disk'[j].mode = disk[j].mode
                       /\ disk'[j].atime = disk[j].atime
  BY <1>5, <1>7
<1>9. AttrOK'
  BY <1>1, <1>5, <1>6 DEF AttrOK, DISK, CORE
<1>10. \A j \in Inode \ odd' : Good(j)'
  BY <1>6, <1>8 DEF AttrInv, Good, Formed
<1>11. \A j \in Inode : Timed(j)'
  BY <1>6, <1>8, TimedKept DEF AttrInv
<1>12. \A j \in Inode : disk'[j].atime >= disk[j].atime
  <2>1. \A j \in Inode : disk[j].atime \in Nat
    BY <1>1 DEF AttrOK
  <2>2. QED
    BY <1>8, <2>1
<1>13. QED
  BY <1>9, <1>10, <1>11, <1>12 DEF AttrInv

\* cd into a directory: what is loaded is what is on the disk.
LEMMA HoldInv ==
  ASSUME AttrInv, NEW i \in Inode, Hold(i)
  PROVE  AttrInv' /\ \A j \in Inode : disk'[j].atime >= disk[j].atime
<1>1. AttrOK
  BY DEF AttrInv
<1>2. PICK stale \in BOOLEAN : core' = [core EXCEPT ![i] = Load(disk[i], stale)]
  BY DEF Hold
<1>3. /\ i \notin held /\ held' = held \cup {i}
      /\ UNCHANGED <<disk, time, wanted, odd, kills>>
  BY DEF Hold
<1>4. Load(disk[i], stale) \in CORE
  BY <1>1 DEF AttrOK, Load, CORE
<1>5. core' \in [Inode -> CORE]
  BY <1>1, <1>2, <1>4 DEF AttrOK, CORE
<1>6. /\ core'[i].mode = disk[i].mode /\ core'[i].atime = disk[i].atime
      /\ \A j \in Inode \ {i} : core'[j] = core[j]
  BY <1>1, <1>2 DEF AttrOK, Load
<1>7. AttrOK'
  BY <1>1, <1>3, <1>5 DEF AttrOK, CORE
<1>8. \A j \in Inode \ odd' : Good(j)'
  <2> SUFFICES ASSUME NEW j \in Inode \ odd' PROVE Good(j)'
    OBVIOUS
  <2>1. Good(j)
    BY <1>3 DEF AttrInv
  <2>2. CASE j # i
    BY <1>3, <1>6, <2>1, <2>2, GoodKept
  <2>3. CASE j = i
    BY <1>3, <1>6, <2>1, <2>3 DEF Good, Formed
  <2>4. QED
    BY <2>2, <2>3
<1>9. \A j \in Inode : disk[j].atime \in Nat /\ core[j].atime \in Nat
  BY <1>1 DEF AttrOK
<1>10. \A j \in Inode : Timed(j)'
  <2> SUFFICES ASSUME NEW j \in Inode PROVE Timed(j)'
    OBVIOUS
  <2>1. Timed(j)
    BY DEF AttrInv
  <2>2. CASE j # i
    <3>1. core'[j] = core[j] /\ disk'[j] = disk[j] /\ (j \in held' <=> j \in held)
      BY <1>3, <1>6, <2>2
    <3>2. QED
      BY <1>3, <2>1, <3>1, TimedKept
  <2>3. CASE j = i
    BY <1>3, <1>6, <1>9, <2>1, <2>3 DEF Timed
  <2>4. QED
    BY <2>2, <2>3
<1>11. \A j \in Inode : disk'[j].atime >= disk[j].atime
  BY <1>3, <1>9
<1>12. QED
  BY <1>7, <1>8, <1>10, <1>11 DEF AttrInv

\* The inodes of S are put: each that was held is on the disk as it was in
\* memory, and no time went back.
LEMMA WrittenEffect ==
  ASSUME AttrInv, NEW S \in SUBSET held, disk' = Written(S)
  PROVE  /\ disk' \in [Inode -> DISK]
         /\ \A j \in Inode : /\ disk'[j].atime >= disk[j].atime
                             /\ disk'[j].atime <= time
                             /\ j \in held => disk'[j].atime <= core[j].atime
                             /\ j \notin S => disk'[j] = disk[j]
         /\ \A j \in S \ odd : /\ disk'[j].mode = Kind[j] * TYPE + wanted[j]
<1>1. AttrOK /\ S \subseteq Inode /\ MaxTime \in Nat
  BY AttributesAssumption DEF AttrInv, AttrOK
<1>2. /\ \A j \in Inode : Out(core[j]) \in DISK /\ disk[j] \in DISK
  BY <1>1 DEF AttrOK, Out, DISK
<1>3. \A j \in Inode : disk'[j] = IF j \in S /\ core[j].dirty THEN Out(core[j]) ELSE disk[j]
  BY DEF Written
<1>4. disk' \in [Inode -> DISK]
  <2> HIDE DEF DISK
  <2>1. QED
    BY <1>2 DEF Written
<1>5. \A j \in Inode : /\ disk[j].atime \in Nat /\ core[j].atime \in Nat
                       /\ Out(core[j]).atime = core[j].atime /\ time \in Nat
                       /\ Out(core[j]).mode = core[j].mode
  BY <1>1 DEF AttrOK, Out
<1>6. \A j \in Inode : /\ disk'[j].atime >= disk[j].atime
                       /\ disk'[j].atime <= time
                       /\ j \in held => disk'[j].atime <= core[j].atime
                       /\ j \notin S => disk'[j] = disk[j]
  <2> SUFFICES ASSUME NEW j \in Inode
               PROVE  /\ disk'[j].atime >= disk[j].atime
                      /\ disk'[j].atime <= time
                      /\ j \in held => disk'[j].atime <= core[j].atime
                      /\ j \notin S => disk'[j] = disk[j]
    OBVIOUS
  <2>1. Timed(j)
    BY DEF AttrInv
  <2>2. CASE j \in S /\ core[j].dirty
    BY <1>3, <1>5, <2>1, <2>2 DEF Timed
  <2>3. CASE ~(j \in S /\ core[j].dirty)
    BY <1>3, <1>5, <2>1, <2>3 DEF Timed
  <2>4. QED
    BY <2>2, <2>3
<1>7. \A j \in S \ odd : disk'[j].mode = Kind[j] * TYPE + wanted[j]
  <2> SUFFICES ASSUME NEW j \in S \ odd
               PROVE disk'[j].mode = Kind[j] * TYPE + wanted[j]
    OBVIOUS
  <2>1. Good(j) /\ j \in held /\ j \in Inode
    BY <1>1 DEF AttrInv
  <2>2. CASE core[j].dirty
    BY <1>3, <1>5, <2>1, <2>2 DEF Good
  <2>3. CASE ~core[j].dirty
    BY <1>3, <2>1, <2>3 DEF Good
  <2>4. QED
    BY <2>2, <2>3
<1>8. QED
  BY <1>4, <1>6, <1>7

\* The form follows from the permissions wanted.
LEMMA FormedBy ==
  ASSUME AttrOK, NEW j \in Inode, disk'[j].mode = Kind[j] * TYPE + wanted[j]
  PROVE  Formed(j)'
<1>1. wanted[j] \in Nat /\ wanted[j] < 512
  BY PermsAre DEF AttrOK
<1>2. QED
  BY <1>1 DEF Formed

\* cd away from a directory: it is put.
LEMMA ReleaseInv ==
  ASSUME AttrInv, NEW i \in Inode, Release(i)
  PROVE  AttrInv' /\ \A j \in Inode : disk'[j].atime >= disk[j].atime
<1>1. AttrOK
  BY DEF AttrInv
<1>2. /\ i \in held \ {Root} /\ held' = held \ {i} /\ disk' = Written({i})
      /\ UNCHANGED <<core, time, wanted, odd, kills>>
  BY DEF Release
<1>3. /\ disk' \in [Inode -> DISK]
      /\ \A j \in Inode : /\ disk'[j].atime >= disk[j].atime
                          /\ disk'[j].atime <= time
                          /\ j \in held => disk'[j].atime <= core[j].atime
                          /\ j \notin {i} => disk'[j] = disk[j]
      /\ \A j \in {i} \ odd : disk'[j].mode = Kind[j] * TYPE + wanted[j]
  BY <1>2, WrittenEffect
<1>4. AttrOK'
  BY <1>1, <1>2, <1>3 DEF AttrOK, DISK
<1>5. \A j \in Inode \ odd' : Good(j)'
  <2> SUFFICES ASSUME NEW j \in Inode \ odd' PROVE Good(j)'
    OBVIOUS
  <2>1. Good(j)
    BY <1>2 DEF AttrInv
  <2>2. CASE j # i
    <3>1. disk'[j] = disk[j] /\ core'[j] = core[j] /\ wanted'[j] = wanted[j]
          /\ (j \in held' <=> j \in held)
      BY <1>2, <1>3, <2>2
    <3>2. QED
      BY <2>1, <3>1, GoodKept
  <2>3. CASE j = i
    <3>1. disk'[i].mode = Kind[i] * TYPE + wanted[i]
      BY <1>2, <1>3, <2>3
    <3>2. Formed(i)'
      BY <1>1, <3>1, FormedBy
    <3>3. QED
      BY <1>2, <2>3, <3>1, <3>2 DEF Good
  <2>4. QED
    BY <2>2, <2>3
<1>6. \A j \in Inode : Timed(j)'
  <2>1. \A j \in Inode : core[j].atime <= time
    BY DEF AttrInv, Timed
  <2>2. QED
    BY <1>2, <1>3, <2>1 DEF Timed
<1>7. QED
  BY <1>3, <1>4, <1>5, <1>6 DEF AttrInv

\* The process ends and starts again: the inodes of S were put, what the other
\* held ones were given is forgotten.
LEMMA RestartInv ==
  ASSUME AttrInv, NEW S \in SUBSET held, Root \notin S, Restart(S),
         time' = time, odd' = odd, kills' \in 0..MaxKill,
         wanted' \in [Inode -> Perms],
         \A j \in Inode : j \in S \/ j \notin held => wanted'[j] = wanted[j],
         \A j \in held \ S : wanted'[j] = disk[j].mode % 512
  PROVE  AttrInv' /\ \A j \in Inode : disk'[j].atime >= disk[j].atime
<1>1. AttrOK /\ Root \in Inode /\ Root \in held /\ held \subseteq Inode
      /\ Kind \in [Inode -> {8, 4, 10}]
  BY AttributesAssumption DEF AttrInv, AttrOK
<1>2. /\ disk' = Written(S) /\ held' = {Root}
      /\ core' = [core EXCEPT ![Root] = Load(disk[Root], FALSE)]
  BY DEF Restart
<1>3. /\ disk' \in [Inode -> DISK]
      /\ \A j \in Inode : /\ disk'[j].atime >= disk[j].atime
                          /\ disk'[j].atime <= time
                          /\ j \in held => disk'[j].atime <= core[j].atime
                          /\ j \notin S => disk'[j] = disk[j]
      /\ \A j \in S \ odd : disk'[j].mode = Kind[j] * TYPE + wanted[j]
  BY <1>2, WrittenEffect
<1>4. Load(disk[Root], FALSE) \in CORE
  BY <1>1 DEF AttrOK, Load, CORE
<1>5. core' \in [Inode -> CORE]
  BY <1>1, <1>2, <1>4 DEF AttrOK, CORE
<1>6. /\ core'[Root].mode = disk[Root].mode /\ core'[Root].atime = disk[Root].atime
      /\ core'[Root].dirty = FALSE /\ disk'[Root] = disk[Root]
      /\ \A j \in Inode \ {Root} : core'[j] = core[j]
  BY <1>1, <1>2, <1>3 DEF AttrOK, Load
<1>7. AttrOK'
  BY <1>1, <1>2, <1>3, <1>5 DEF AttrOK, DISK, CORE
<1>8. ASSUME NEW j \in Inode \ odd
      PROVE  Formed(j)' /\ disk'[j].mode = Kind[j] * TYPE + wanted'[j]
  <2>1. Good(j)
    BY DEF AttrInv
  <2>2. CASE j \in S
    <3>1. disk'[j].mode = Kind[j] * TYPE + wanted[j]
      BY <1>3, <2>2
    <3>2. QED
      BY <1>1, <2>2, <3>1, FormedBy
  <2>3. CASE j \notin held
    <3>1. disk'[j].mode = Kind[j] * TYPE + wanted[j]
      BY <1>3, <2>1, <2>3 DEF Good
    <3>2. QED
      BY <1>1, <2>3, <3>1, FormedBy
  <2>4. CASE j \in held \ S
    <3>1. disk'[j] = disk[j] /\ wanted'[j] = disk[j].mode % 512
      BY <1>3, <2>4
    <3>2. PICK p \in Nat : p < 512 /\ disk[j].mode = Kind[j] * TYPE + p
      BY <2>1 DEF Good, Formed
    <3>3. Kind[j] \in {8, 4, 10}
      BY <1>1
    <3>4. (Kind[j] * TYPE + p) % 512 = p
      BY <3>2, <3>3, TypeAndPerms
    <3>5. QED
      BY <3>1, <3>2, <3>4 DEF Formed
  <2>5. QED
    BY <2>2, <2>3, <2>4
<1>9. \A j \in Inode \ odd' : Good(j)'
  <2> SUFFICES ASSUME NEW j \in Inode \ odd' PROVE Good(j)'
    OBVIOUS
  <2>1. Formed(j)' /\ disk'[j].mode = Kind[j] * TYPE + wanted'[j]
    BY <1>8
  <2>2. CASE j # Root
    BY <1>2, <2>1, <2>2 DEF Good
  <2>3. CASE j = Root
    <3>1. core'[j].mode = disk'[j].mode
      BY <1>6, <2>3
    <3>2. QED
      BY <2>1, <3>1 DEF Good
  <2>4. QED
    BY <2>2, <2>3
<1>10. \A j \in Inode : Timed(j)'
  <2>1. \A j \in Inode : /\ core[j].atime <= time /\ disk[j].atime <= time
                         /\ disk[j].atime \in Nat
    BY <1>1 DEF AttrInv, Timed, AttrOK
  <2>2. \A j \in Inode : core'[j].atime <= time
    BY <1>1, <1>6, <2>1
  <2>3. disk'[Root].atime <= core'[Root].atime
    BY <1>1, <1>6, <2>1
  <2>4. QED
    BY <1>2, <1>3, <2>2, <2>3 DEF Timed
<1>11. QED
  BY <1>3, <1>7, <1>9, <1>10 DEF AttrInv

LEMMA QuitInv ==
  ASSUME AttrInv, Quit
  PROVE  AttrInv' /\ \A j \in Inode : disk'[j].atime >= disk[j].atime
<1>1. AttrOK /\ Root \in Inode
  BY AttributesAssumption DEF AttrInv
<1>2. /\ Restart(held \ {Root}) /\ time' = time /\ odd' = odd /\ kills' = kills
      /\ wanted' = [wanted EXCEPT ![Root] = disk[Root].mode % 512]
  BY DEF Quit
<1>3. disk[Root].mode % 512 \in Perms
  <2>1. disk[Root].mode \in Nat
    BY <1>1 DEF AttrOK
  <2>2. QED
    BY <2>1, ModNat, PermsAre
<1>4. /\ wanted' \in [Inode -> Perms] /\ wanted'[Root] = disk[Root].mode % 512
      /\ \A j \in Inode \ {Root} : wanted'[j] = wanted[j]
  BY <1>1, <1>2, <1>3 DEF AttrOK
<1>5. kills' \in 0..MaxKill
  BY <1>1, <1>2 DEF AttrOK
<1>6. Root \in held
  BY <1>1 DEF AttrOK
<1>7. \A j \in held \ (held \ {Root}) : j = Root
  OBVIOUS
<1>8. \A j \in Inode : j \in held \ {Root} \/ j \notin held => j \in Inode \ {Root}
  BY <1>6
<1> DEFINE S == held \ {Root}
<1>9. /\ S \in SUBSET held /\ Root \notin S /\ Restart(S)
      /\ \A j \in Inode : j \in S \/ j \notin held => wanted'[j] = wanted[j]
      /\ \A j \in held \ S : wanted'[j] = disk[j].mode % 512
  BY <1>2, <1>4, <1>7, <1>8
<1> HIDE DEF S
<1>10. QED
  BY <1>2, <1>4, <1>5, <1>9, RestartInv

LEMMA KillInv ==
  ASSUME AttrInv, Kill
  PROVE  AttrInv' /\ \A j \in Inode : disk'[j].atime >= disk[j].atime
<1>1. AttrOK /\ Root \in Inode /\ MaxKill \in Nat
  BY AttributesAssumption DEF AttrInv
<1>2. /\ Restart({}) /\ time' = time /\ odd' = odd /\ kills < MaxKill /\ kills' = kills + 1
      /\ wanted' = [i \in Inode |-> IF i \in held THEN disk[i].mode % 512 ELSE wanted[i]]
  BY DEF Kill
<1>3. \A j \in Inode : disk[j].mode % 512 \in Perms
  <2>1. \A j \in Inode : disk[j].mode \in Nat
    BY <1>1 DEF AttrOK
  <2>2. QED
    BY <2>1, ModNat, PermsAre
<1>4. /\ wanted' \in [Inode -> Perms]
      /\ \A j \in Inode : wanted'[j] = IF j \in held THEN disk[j].mode % 512 ELSE wanted[j]
  BY <1>1, <1>2, <1>3 DEF AttrOK
<1>5. kills' \in 0..MaxKill /\ held \subseteq Inode
  BY <1>1, <1>2 DEF AttrOK
<1> DEFINE S == {}
<1>6. /\ S \in SUBSET held /\ Root \notin S /\ Restart(S)
      /\ \A j \in Inode : j \in S \/ j \notin held => wanted'[j] = wanted[j]
      /\ \A j \in held \ S : wanted'[j] = disk[j].mode % 512
  BY <1>2, <1>4, <1>5
<1> HIDE DEF S
<1>7. QED
  BY <1>2, <1>4, <1>5, <1>6, RestartInv

\* What any action does.
LEMMA AttrStep ==
  ASSUME AttrInv, AttrNext
  PROVE  AttrInv' /\ \A j \in Inode : disk'[j].atime >= disk[j].atime
<1>1. CASE \E i \in Inode, s \in Digits : mychmod(i, s)
  BY <1>1, mychmodInv
<1>2. CASE \E i \in Inode : myutime(i)
  BY <1>2, myutimeInv
<1>3. CASE \E i \in Inode : mystat(i)
  BY <1>3, mystatInv
<1>4. CASE \E i \in Inode : Hold(i)
  BY <1>4, HoldInv
<1>5. CASE \E i \in Inode : Release(i)
  BY <1>5, ReleaseInv
<1>6. CASE Quit
  BY <1>6, QuitInv
<1>7. CASE Kill
  BY <1>7, KillInv
<1>8. QED
  BY <1>1, <1>2, <1>3, <1>4, <1>5, <1>6, <1>7 DEF AttrNext

LEMMA AttrStutter ==
  ASSUME AttrInv, UNCHANGED attrVars
  PROVE  AttrInv'
BY DEF AttrInv, attrVars, AttrOK, Good, Formed, Timed

LEMMA AttrAlways == AttrSpec => []AttrInv
<1>1. AttrInv /\ [AttrNext]_attrVars => AttrInv'
  BY AttrStep, AttrStutter
<1>2. QED
  BY AttrInitInv, <1>1, PTL DEF AttrSpec

\* chmod's modes keep the type of the inode and the permissions given last,
\* through cd, quit and recycled slots, however many inodes there are, whatever
\* is held and however often the process is killed: ModesOK.
THEOREM ModesKept == AttrSpec => []ModesOK
<1>1. AttrInv => ModesOK
  BY DEF AttrInv, ModesOK, ModeKept, Good, Shown, Out
<1>2. QED
  BY AttrAlways, <1>1, PTL

\* No put, quit or kill takes an access time on disk back: AtimeForward.
THEOREM TimesForward == AttrSpec => AtimeForward
<1>1. AttrInv /\ [AttrNext]_attrVars
        => [\A i \in Inode : disk'[i].atime >= disk[i].atime]_attrVars
  BY AttrStep
<1>2. QED
  BY AttrAlways, <1>1, PTL DEF AttrSpec, AtimeForward

-----------------------------------------------------------------------------
(***************************************************************************)
(* The block of a directory.  With names of one length entry k of a block  *)
(* has its place, Pos(k), whatever the names are: enter_name adds one      *)
(* behind the last, rm_child moves those behind the removed one down.      *)
(***************************************************************************)
\* The cells of a name.
NameCells == IF Name = {} THEN 1 ELSE Cells(NameLen[CHOOSE x \in Name : TRUE])

\* The cells entry k takes at least, "." and ".." before the others, and its
\* place.
Size(k) == IF k < 2 THEN 3 ELSE 2 + NameCells
Pos(k)  == IF k = 0 THEN 0 ELSE IF k = 1 THEN 3 ELSE 6 + (2 + NameCells) * (k - 2)

Names == Name \cup {Dot, DotDot}

LEMMA CellsOne == Cells(1) = 1 /\ Cells(2) = 1
BY DEF Cells

LEMMA CellsNat ==
  ASSUME NEW l \in Nat, l # 0
  PROVE  Cells(l) \in Nat /\ Cells(l) >= 1
BY DEF Cells

LEMMA NameCellsIs ==
  ASSUME OneLength
  PROVE  /\ NameCells \in Nat /\ NameCells >= 1
         /\ \A x \in Name : Cells(NameLen[x]) = NameCells
<1>1. CASE Name = {}
  BY <1>1 DEF NameCells
<1>2. CASE Name # {}
  <2> DEFINE z == CHOOSE x \in Name : TRUE
  <2>1. z \in Name
    BY <1>2
  <2>2. NameCells = Cells(NameLen[z])
    BY <1>2 DEF NameCells
  <2> HIDE DEF z
  <2>3. NameLen[z] \in Nat /\ NameLen[z] # 0
    BY <2>1, DirAssumption
  <2>4. Cells(NameLen[z]) \in Nat /\ Cells(NameLen[z]) >= 1
    BY <2>3, CellsNat
  <2>5. \A x \in Name : NameLen[x] = NameLen[z]
    BY <2>1 DEF OneLength
  <2>6. QED
    BY <2>2, <2>4, <2>5
<1>3. QED
  BY <1>1, <1>2

LEMMA TimesNext ==
  ASSUME NEW e \in Nat, NEW k \in Nat
  PROVE  e * k \in Nat /\ e * (k + 1) = e * k + e
OBVIOUS

LEMMA TimesLess ==
  ASSUME NEW e \in Nat, NEW j \in Nat, NEW k \in Nat, j < k
  PROVE  e * j + e <= e * k
<1>1. k = j + 1 + (k - j - 1) /\ k - j - 1 \in Nat
  OBVIOUS
<1> DEFINE d == k - j - 1
<1>2. e * d \in Nat
  BY <1>1
<1>3. e * k = e * j + e + e * d
  BY <1>1
<1> HIDE DEF d
<1>4. e * j \in Nat /\ e * k \in Nat
  OBVIOUS
<1>5. QED
  BY <1>2, <1>3, <1>4

LEMMA SizeIs ==
  ASSUME OneLength, NEW k \in Nat
  PROVE  Size(k) \in Nat /\ Size(k) >= 3
BY NameCellsIs DEF Size

LEMMA PosFirst == Pos(0) = 0 /\ Pos(1) = 3
BY DEF Pos

LEMMA PosNext ==
  ASSUME OneLength, NEW k \in Nat
  PROVE  Pos(k) \in Nat /\ Pos(k + 1) = Pos(k) + Size(k) /\ Pos(k + 1) \in Nat
<1>1. NameCells \in Nat
  BY NameCellsIs
<1> DEFINE e == 2 + NameCells
<1>2. e \in Nat
  BY <1>1
<1>3. CASE k = 0
  BY <1>3 DEF Pos, Size
<1>4. CASE k = 1
  <2>1. k + 1 = 2 /\ Size(k) = 3 /\ Pos(k) = 3
    BY <1>4 DEF Size, Pos
  <2>2. Pos(2) = 6 + e * 0
    BY DEF Pos
  <2>3. e * 0 = 0
    BY <1>2
  <2>4. QED
    BY <2>1, <2>2, <2>3
<1>5. CASE k >= 2
  <2>1. k - 2 \in Nat /\ k - 2 + 1 = k + 1 - 2 /\ ~(k < 2)
    BY <1>5
  <2>2. Pos(k) = 6 + e * (k - 2) /\ Size(k) = e
    BY <1>5, <2>1 DEF Pos, Size
  <2>3. Pos(k + 1) = 6 + e * (k - 2 + 1)
    BY <1>5, <2>1 DEF Pos
  <2> HIDE DEF e
  <2>4. e * (k - 2) \in Nat /\ e * (k - 2 + 1) = e * (k - 2) + e
    BY <1>2, <2>1, TimesNext
  <2>5. QED
    BY <1>2, <2>2, <2>3, <2>4
<1>6. QED
  BY <1>3, <1>4, <1>5

LEMMA PosLess ==
  ASSUME OneLength, NEW j \in Nat, NEW k \in Nat, j < k
  PROVE  Pos(j) + Size(j) <= Pos(k)
<1>1. NameCells \in Nat
  BY NameCellsIs
<1> DEFINE e == 2 + NameCells
<1>2. e \in Nat /\ e >= 2
  BY <1>1
<1>3. CASE k = 1
  BY <1>3, PosFirst DEF Size
<1>4. CASE k >= 2
  <2>1. k - 2 \in Nat
    BY <1>4
  <2>2. Pos(k) = 6 + e * (k - 2)
    BY <1>4 DEF Pos
  <2>3. CASE j < 2
    <3>1. Pos(j) + Size(j) <= 6
      BY <2>3, PosFirst DEF Size
    <3> HIDE DEF e
    <3>2. e * (k - 2) \in Nat
      BY <1>2, <2>1, TimesNext
    <3>3. Pos(j) \in Nat /\ Size(j) \in Nat
      BY PosNext, SizeIs
    <3>4. QED
      BY <2>2, <3>1, <3>2, <3>3
  <2>4. CASE j >= 2
    <3>1. Pos(j) = 6 + e * (j - 2) /\ Size(j) = e /\ j - 2 \in Nat /\ j - 2 < k - 2
      BY <1>4, <2>4 DEF Pos, Size
    <3> HIDE DEF e
    <3>2. e * (j - 2) + e <= e * (k - 2)
      BY <1>2, <2>1, <3>1, TimesLess
    <3>3. e * (j - 2) \in Nat /\ e * (k - 2) \in Nat
      BY <1>2, <2>1, <3>1, TimesNext
    <3>4. QED
      BY <1>2, <2>2, <3>1, <3>2, <3>3
  <2>5. QED
    BY <2>3, <2>4
<1>5. QED
  BY <1>3, <1>4

LEMMA PosMany ==
  ASSUME OneLength, NEW k \in Nat
  PROVE  3 * k <= Pos(k)
<1>1. NameCells \in Nat /\ NameCells >= 1
  BY NameCellsIs
<1> DEFINE e == 2 + NameCells
<1>2. CASE k < 2
  BY <1>2, PosFirst
<1>3. CASE k >= 2
  <2>1. Pos(k) = 6 + e * (k - 2) /\ k - 2 \in Nat /\ e \in Nat /\ e >= 3
    BY <1>1, <1>3 DEF Pos
  <2> HIDE DEF e
  <2>2. PICK d \in Nat : e = 3 + d
    <3>1. e - 3 \in Nat /\ e = 3 + (e - 3)
      BY <2>1
    <3>2. QED
      BY <3>1
  <2>3. e * (k - 2) = 3 * (k - 2) + d * (k - 2) /\ d * (k - 2) \in Nat
    BY <2>1, <2>2
  <2>4. QED
    BY <2>1, <2>3
<1>4. QED
  BY <1>2, <1>3

\* The parts of a cell.
LEMMA CellParts ==
  /\ \A i : INODE(i)[1] = "inode" /\ INODE(i)[2] = i
  /\ \A r, l : LENS(r, l)[1] = "lens" /\ LENS(r, l)[2] = r /\ LENS(r, l)[3] = l
  /\ \A x, k : CHARS(x, k)[1] = "chars" /\ CHARS(x, k)[2] = x /\ CHARS(x, k)[3] = k
BY DEF INODE, LENS, CHARS

LEMMA LensNotZero == \A r, l : LENS(r, l) # ZERO
<1>1. ZERO[1] = "inode"
  BY CellParts DEF ZERO
<1>2. QED
  BY <1>1, CellParts

LEMMA LengthIs ==
  ASSUME OneLength
  PROVE  /\ Length(Dot) = 1 /\ Length(DotDot) = 2
         /\ \A x \in Name : /\ Length(x) = NameLen[x] /\ Length(x) \in Nat
                            /\ Length(x) # 0 /\ Length(x) % 4 # 0
                            /\ Cells(Length(x)) = NameCells
<1>1. Dot # DotDot /\ Dot \notin Name /\ DotDot \notin Name
  BY DirAssumption
<1>2. Length(Dot) = 1 /\ Length(DotDot) = 2
  BY <1>1 DEF Length
<1>3. \A x \in Name : Length(x) = NameLen[x]
  BY <1>1 DEF Length
<1>4. \A x \in Name : NameLen[x] \in Nat /\ NameLen[x] # 0
  BY DirAssumption
<1>5. QED
  BY <1>2, <1>3, <1>4, NameCellsIs DEF OneLength

(***************************************************************************)
(* A block laid out as entries 0..m with the names nm and the inodes io:   *)
(* each as long as its name needs, the last as long as the block leaves.   *)
(***************************************************************************)
Rec(m, k) == IF k = m THEN BlockCells - Pos(k) ELSE Size(k)

Entry(b, o, x, i, r) ==
  /\ b[o] = INODE(i)
  /\ b[o + 1] = LENS(r, Length(x))
  /\ \A c \in 0..(Cells(Length(x)) - 1) : b[o + 2 + c] = CHARS(x, c)

\* The names and inodes of entries 0..m.
Entries(m, nm, io) ==
  /\ m \in Nat /\ m >= 1 /\ Pos(m) + Size(m) <= BlockCells
  /\ nm[0] = Dot /\ nm[1] = DotDot /\ io[0] = Self /\ io[1] = Up
  /\ \A k \in 2..m : nm[k] \in Name /\ io[k] \in Ino
  /\ \A j, k \in 0..m : nm[j] = nm[k] => j = k

Laid(b, m, nm, io) ==
  /\ b \in [Offset -> Cell]
  /\ Entries(m, nm, io)
  /\ \A k \in 0..m : Entry(b, Pos(k), nm[k], io[k], Rec(m, k))

LEMMA InoNat == \A i \in Ino : i \in Nat /\ i # 0
<1>1. \A i \in Ino : i \in 1..255
  BY DirAssumption
<1>2. \A i \in 1..255 : i \in Nat /\ i # 0
  OBVIOUS
<1>3. QED
  BY <1>1, <1>2

LEMMA EntryParts ==
  ASSUME OneLength, NEW m, NEW nm, NEW io, Entries(m, nm, io), NEW k \in 0..m
  PROVE  /\ k \in Nat /\ m \in Nat /\ nm[k] \in Names
         /\ io[k] \in Nat /\ io[k] # 0 /\ io[k] \in {0, Self, Up} \cup Ino
         /\ Length(nm[k]) \in Nat
         /\ Cells(Length(nm[k])) = Size(k) - 2
         /\ ideal_length(Length(nm[k])) = Size(k)
<1>1. k \in Nat /\ m \in Nat
  BY DEF Entries
<1>2. /\ nm[k] \in Names
      /\ io[k] \in Nat /\ io[k] # 0 /\ io[k] \in {0, Self, Up} \cup Ino
  <2>1. CASE k < 2
    <3>1. k = 0 \/ k = 1
      BY <1>1, <2>1
    <3>2. Self \in Nat /\ Self # 0 /\ Up \in Nat /\ Up # 0
      BY DirAssumption
    <3>3. CASE k = 0
      BY <3>2, <3>3 DEF Entries, Names
    <3>4. CASE k = 1
      BY <3>2, <3>4 DEF Entries, Names
    <3>5. QED
      BY <3>1, <3>3, <3>4
  <2>2. CASE k >= 2
    <3>1. nm[k] \in Name /\ io[k] \in Ino
      BY <1>1, <2>2 DEF Entries
    <3>2. io[k] \in Nat /\ io[k] # 0
      BY <3>1, InoNat
    <3>3. QED
      BY <3>1, <3>2 DEF Names
  <2>3. QED
    BY <1>1, <2>1, <2>2
<1>3. Length(nm[k]) \in Nat /\ Cells(Length(nm[k])) = Size(k) - 2
  <2>1. CASE k < 2
    <3>1. k = 0 \/ k = 1
      BY <1>1, <2>1
    <3>2. nm[k] = Dot \/ nm[k] = DotDot
      BY <3>1 DEF Entries
    <3>3. Length(nm[k]) = 1 \/ Length(nm[k]) = 2
      BY <3>2, LengthIs
    <3>4. QED
      BY <2>1, <3>3, CellsOne DEF Size
  <2>2. CASE k >= 2
    <3>1. nm[k] \in Name
      BY <1>1, <2>2 DEF Entries
    <3>2. QED
      BY <1>1, <2>2, <3>1, LengthIs, NameCellsIs DEF Size
  <2>3. QED
    BY <1>1, <2>1, <2>2
<1>4. ideal_length(Length(nm[k])) = Size(k)
  BY <1>1, <1>3, SizeIs DEF ideal_length
<1>5. QED
  BY <1>1, <1>2, <1>3, <1>4

\* Where the entries are.
LEMMA EntryPlace ==
  ASSUME OneLength, NEW m, NEW nm, NEW io, Entries(m, nm, io), NEW k \in 0..m
  PROVE  /\ Pos(k) \in Nat /\ Size(k) \in Nat /\ Size(k) >= 3
         /\ Pos(k) + Size(k) <= BlockCells
         /\ Rec(m, k) \in Nat /\ Rec(m, k) >= Size(k)
         /\ Pos(k) + Rec(m, k) = IF k = m THEN BlockCells ELSE Pos(k + 1)
         /\ BlockCells \in Nat
<1>1. k \in Nat /\ m \in Nat /\ Pos(m) + Size(m) <= BlockCells /\ BlockCells \in Nat
  BY DirAssumption DEF Entries
<1>2. Pos(k) \in Nat /\ Size(k) \in Nat /\ Size(k) >= 3 /\ Pos(k + 1) = Pos(k) + Size(k)
  BY <1>1, SizeIs, PosNext
<1>3. Pos(m) \in Nat /\ Size(m) \in Nat
  BY <1>1, SizeIs, PosNext
<1>4. k < m => Pos(k) + Size(k) <= Pos(m)
  BY <1>1, PosLess
<1>5. Pos(k) + Size(k) <= BlockCells
  <2>1. CASE k = m
    BY <2>1, <1>1
  <2>2. CASE k # m
    BY <2>2, <1>1, <1>2, <1>3, <1>4
  <2>3. QED
    BY <2>1, <2>2
<1>6. QED
  BY <1>1, <1>2, <1>5 DEF Rec

LEMMA EntryReads ==
  ASSUME OneLength, NEW b, NEW m, NEW nm, NEW io, Laid(b, m, nm, io), NEW k \in 0..m
  PROVE  /\ inode(b, Pos(k)) = io[k]
         /\ rec_len(b, Pos(k)) = Rec(m, k)
         /\ name_len(b, Pos(k)) = Length(nm[k])
         /\ Pos(k) \in Offset
<1>1. Entry(b, Pos(k), nm[k], io[k], Rec(m, k)) /\ Entries(m, nm, io)
  BY DEF Laid
<1>2. inode(b, Pos(k)) = io[k]
  BY <1>1, CellParts DEF Entry, inode
<1>3. b[Pos(k) + 1] = LENS(Rec(m, k), Length(nm[k]))
  BY <1>1 DEF Entry
<1>4. /\ b[Pos(k) + 1] # ZERO /\ b[Pos(k) + 1][1] = "lens"
      /\ b[Pos(k) + 1][2] = Rec(m, k) /\ b[Pos(k) + 1][3] = Length(nm[k])
  BY <1>3, LensNotZero, CellParts
<1>5. rec_len(b, Pos(k)) = Rec(m, k)
  BY <1>4 DEF rec_len
<1>6. name_len(b, Pos(k)) = Length(nm[k])
  BY <1>4 DEF name_len
<1>7. Pos(k) \in Offset
  BY <1>1, EntryPlace DEF Offset
<1>8. QED
  BY <1>2, <1>5, <1>6, <1>7

\* cp visits the entries one after the other and stays behind the last.
Visit(m, k) == IF k <= m THEN Pos(k) ELSE BlockCells

LEMMA AdvanceIs ==
  ASSUME OneLength, NEW b, NEW m, NEW nm, NEW io, Laid(b, m, nm, io), NEW k \in Nat
  PROVE  Advance(b)[Visit(m, k)] = Visit(m, k + 1)
<1>1. Entries(m, nm, io) /\ m \in Nat /\ BlockCells \in Nat
  BY DirAssumption DEF Laid, Entries
<1>2. \A o \in 0..(2 * BlockCells) :
        Advance(b)[o] = IF o \in Offset THEN o + rec_len(b, o) ELSE o
  BY DEF Advance
<1>3. CASE k <= m
  <2>1. k \in 0..m
    BY <1>1, <1>3
  <2>2. Pos(k) \in Offset /\ rec_len(b, Pos(k)) = Rec(m, k)
    BY <2>1, EntryReads
  <2>3. Advance(b)[Pos(k)] = Pos(k) + Rec(m, k)
    <3>1. Pos(k) \in 0..(2 * BlockCells)
      BY <1>1, <2>2 DEF Offset
    <3>2. QED
      BY <1>2, <2>2, <3>1
  <2>4. Pos(k) + Rec(m, k) = IF k = m THEN BlockCells ELSE Pos(k + 1)
    BY <1>1, <2>1, EntryPlace
  <2>5. QED
    BY <1>1, <1>3, <2>3, <2>4 DEF Visit
<1>4. CASE ~(k <= m)
  <2>1. BlockCells \in 0..(2 * BlockCells) /\ BlockCells \notin Offset
    BY <1>1 DEF Offset
  <2>2. QED
    BY <1>1, <1>2, <1>4, <2>1 DEF Visit
<1>5. QED
  BY <1>3, <1>4

\* The first so many values of cp.
Walk(b, f) ==
  f = [k \in 0..MaxEntries |-> IF k = 0 THEN 0 ELSE Advance(b)[f[k - 1]]]

LEMMA MaxEntriesNat == MaxEntries \in Nat
BY DirAssumption DEF MaxEntries

LEMMA WalkExists ==
  ASSUME OneLength, NEW b, NEW m, NEW nm, NEW io, Laid(b, m, nm, io)
  PROVE  \E f : Walk(b, f)
<1> DEFINE w == [k \in 0..MaxEntries |-> Visit(m, k)]
<1>1. \A k \in 0..MaxEntries : w[k] = Visit(m, k)
  OBVIOUS
<1>2. m \in Nat
  BY DEF Laid, Entries
<1>3. \A k \in 0..MaxEntries : Visit(m, k) = IF k = 0 THEN 0 ELSE Advance(b)[w[k - 1]]
  <2>1. SUFFICES ASSUME NEW k \in 0..MaxEntries
                 PROVE  Visit(m, k) = IF k = 0 THEN 0 ELSE Advance(b)[w[k - 1]]
    OBVIOUS
  <2>2. k \in Nat
    BY MaxEntriesNat
  <2>3. CASE k = 0
    BY <1>2, <2>3, PosFirst DEF Visit
  <2>4. CASE k # 0
    <3>1. k - 1 \in 0..MaxEntries /\ k - 1 \in Nat /\ k - 1 + 1 = k
      BY <2>2, <2>4, MaxEntriesNat
    <3>2. w[k - 1] = Visit(m, k - 1)
      BY <3>1
    <3> HIDE DEF w
    <3>3. Advance(b)[Visit(m, k - 1)] = Visit(m, k - 1 + 1)
      BY <3>1, AdvanceIs
    <3>4. QED
      BY <2>4, <3>1, <3>2, <3>3
  <2>5. QED
    BY <2>3, <2>4
<1>4. w = [k \in 0..MaxEntries |-> Visit(m, k)]
  OBVIOUS
<1> HIDE DEF w
<1>5. Walk(b, w)
  BY <1>3, <1>4 DEF Walk
<1>6. QED
  BY <1>5

LEMMA WalkIs ==
  ASSUME OneLength, NEW b, NEW m, NEW nm, NEW io, Laid(b, m, nm, io),
         NEW f, Walk(b, f)
  PROVE  \A k \in 0..MaxEntries : f[k] = Visit(m, k)
<1> DEFINE S == {k \in 0..MaxEntries : f[k] # Visit(m, k)}
<1>1. SUFFICES ASSUME S # {} PROVE FALSE
  OBVIOUS
<1>2. PICK n \in S : \A l \in S : n <= l
  <2>1. S \in SUBSET Nat
    BY MaxEntriesNat
  <2> HIDE DEF S
  <2>2. QED
    BY <1>1, <2>1, Least
<1>3. n \in 0..MaxEntries /\ n \in Nat /\ f[n] # Visit(m, n)
  BY MaxEntriesNat
<1>4. m \in Nat
  BY DEF Laid, Entries
<1>5. CASE n = 0
  <2>1. f[0] = 0
    BY <1>3, <1>5 DEF Walk
  <2>2. QED
    BY <1>3, <1>4, <1>5, <2>1, PosFirst DEF Visit
<1>6. CASE n # 0
  <2>1. n - 1 \in 0..MaxEntries /\ n - 1 \in Nat /\ n - 1 + 1 = n /\ ~(n <= n - 1)
    BY <1>3, <1>6, MaxEntriesNat
  <2>2. n - 1 \notin S
    <3> HIDE DEF S
    <3>1. QED
      BY <1>2, <2>1
  <2>3. f[n - 1] = Visit(m, n - 1)
    BY <2>1, <2>2
  <2>4. f[n] = Advance(b)[f[n - 1]]
    BY <1>3, <1>6 DEF Walk
  <2>5. Advance(b)[Visit(m, n - 1)] = Visit(m, n - 1 + 1)
    BY <2>1, AdvanceIs
  <2>6. QED
    BY <1>3, <2>1, <2>3, <2>4, <2>5
<1>7. QED
  BY <1>5, <1>6

\* No block holds more entries than MaxEntries.
LEMMA EntriesFit ==
  ASSUME OneLength, NEW m, NEW nm, NEW io, Entries(m, nm, io)
  PROVE  m < MaxEntries
<1>1. m \in Nat /\ Pos(m) + Size(m) <= BlockCells /\ BlockCells \in Nat
  BY DirAssumption DEF Entries
<1>2. 3 * m <= Pos(m) /\ Pos(m) \in Nat /\ Size(m) >= 3 /\ Size(m) \in Nat
  BY <1>1, PosMany, PosNext, SizeIs
<1>3. 3 * (m + 1) <= BlockCells
  BY <1>1, <1>2
<1>4. QED
  BY <1>1, <1>3 DEF MaxEntries

LEMMA ChainIs ==
  ASSUME OneLength, NEW b, NEW m, NEW nm, NEW io, Laid(b, m, nm, io)
  PROVE  Chain(b) = {Pos(k) : k \in 0..m}
<1> DEFINE cp == CHOOSE f : Walk(b, f)
<1>1. Chain(b) = {cp[k] : k \in 0..MaxEntries} \cap Offset
  BY DEF Chain, Walk
<1>2. Walk(b, cp)
  BY WalkExists
<1> HIDE DEF cp
<1>3. \A k \in 0..MaxEntries : cp[k] = Visit(m, k)
  BY <1>2, WalkIs
<1>4. m \in Nat /\ m < MaxEntries /\ BlockCells \notin Offset
  <2>1. Entries(m, nm, io) /\ m \in Nat
    BY DEF Laid, Entries
  <2>2. BlockCells \notin Offset
    BY DirAssumption DEF Offset
  <2>3. QED
    BY <2>1, <2>2, EntriesFit
<1>5. \A k \in 0..m : Pos(k) \in Offset /\ k \in 0..MaxEntries
  BY <1>4, EntryReads, MaxEntriesNat
<1>6. ASSUME NEW k \in 0..MaxEntries, Visit(m, k) \in Offset
      PROVE  k \in 0..m /\ Visit(m, k) = Pos(k)
  BY <1>4, <1>6, MaxEntriesNat DEF Visit
<1>7. \A k \in 0..m : Visit(m, k) = Pos(k)
  BY <1>4 DEF Visit
<1>8. {cp[k] : k \in 0..MaxEntries} \cap Offset = {Pos(k) : k \in 0..m}
  BY <1>3, <1>5, <1>6, <1>7
<1>9. QED
  BY <1>1, <1>8

LEMMA PosOrder ==
  ASSUME OneLength, NEW j \in Nat, NEW k \in Nat
  PROVE  /\ Pos(j) \in Nat /\ Pos(k) \in Nat
         /\ j < k <=> Pos(j) < Pos(k)
         /\ Pos(j) = Pos(k) => j = k
<1>1. Pos(j) \in Nat /\ Pos(k) \in Nat
  BY PosNext
<1>2. Size(j) \in Nat /\ Size(j) >= 3 /\ Size(k) \in Nat /\ Size(k) >= 3
  BY SizeIs
<1>3. j < k => Pos(j) + Size(j) <= Pos(k)
  BY PosLess
<1>4. k < j => Pos(k) + Size(k) <= Pos(j)
  BY PosLess
<1>5. QED
  BY <1>1, <1>2, <1>3, <1>4

LEMMA FirstOne ==
  ASSUME NEW p \in Int
  PROVE  First({p}) = p
BY DEF First

LEMMA LastBelow ==
  ASSUME OneLength, NEW k \in Nat
  PROVE  Last({Pos(j) : j \in 0..k}) = Pos(k)
<1> DEFINE S == {Pos(j) : j \in 0..k}
<1>1. \A j \in 0..k : Pos(j) \in Nat /\ Pos(j) <= Pos(k)
  <2>1. SUFFICES ASSUME NEW j \in 0..k PROVE Pos(j) \in Nat /\ Pos(j) <= Pos(k)
    OBVIOUS
  <2>2. j \in Nat /\ ~(k < j)
    OBVIOUS
  <2>3. QED
    BY <2>2, PosOrder
<1>2. Pos(k) \in S /\ \A y \in S : y \in Nat /\ y <= Pos(k)
  BY <1>1
<1>3. \A x \in S : (\A y \in S : y <= x) => x = Pos(k)
  BY <1>2
<1> HIDE DEF S
<1>4. Last(S) = Pos(k)
  BY <1>2, <1>3 DEF Last
<1>5. QED
  BY <1>4 DEF S

LEMMA HasNameIs ==
  ASSUME OneLength, NEW b, NEW m, NEW nm, NEW io, Laid(b, m, nm, io),
         NEW k \in 0..m, NEW x \in Names
  PROVE  HasName(b, Pos(k), x) <=> nm[k] = x
<1>1. Entry(b, Pos(k), nm[k], io[k], Rec(m, k)) /\ Entries(m, nm, io)
  BY DEF Laid
<1>2. name_len(b, Pos(k)) = Length(nm[k])
  BY EntryReads
<1>3. nm[k] = x => HasName(b, Pos(k), x)
  BY <1>1, <1>2 DEF Entry, HasName
<1>4. ASSUME HasName(b, Pos(k), x) PROVE nm[k] = x
  <2>1. Length(nm[k]) = Length(x)
    BY <1>2, <1>4 DEF HasName
  <2>2. 0 \in 0..(Cells(Length(x)) - 1)
    BY <1>1, <2>1, EntryParts, EntryPlace
  <2>3. b[Pos(k) + 2 + 0] = CHARS(x, 0)
    BY <1>4, <2>2 DEF HasName
  <2>4. b[Pos(k) + 2 + 0] = CHARS(nm[k], 0)
    BY <1>1, <2>1, <2>2 DEF Entry
  <2>5. CHARS(x, 0)[2] = x /\ CHARS(nm[k], 0)[2] = nm[k]
    BY CellParts
  <2>6. QED
    BY <2>3, <2>4, <2>5
<1>5. QED
  BY <1>3, <1>4

\* A name is found at the one entry that has it.
LEMMA FoundIs ==
  ASSUME OneLength, NEW b, NEW m, NEW nm, NEW io, Laid(b, m, nm, io),
         NEW k \in 0..m, nm[k] \in Names
  PROVE  Found(b, Chain(b), nm[k]) = {Pos(k)}
<1>1. Chain(b) = {Pos(j) : j \in 0..m}
  BY ChainIs
<1>2. Pos(k) \in Chain(b) /\ HasName(b, Pos(k), nm[k])
  BY <1>1, HasNameIs
<1>3. ASSUME NEW o \in Chain(b), HasName(b, o, nm[k]) PROVE o = Pos(k)
  <2>1. PICK j \in 0..m : o = Pos(j)
    BY <1>1
  <2>2. nm[j] = nm[k]
    BY <1>3, <2>1, HasNameIs
  <2>3. j = k
    BY <2>2 DEF Laid, Entries
  <2>4. QED
    BY <2>1, <2>3
<1>4. QED
  BY <1>2, <1>3 DEF Found

LEMMA FoundNone ==
  ASSUME OneLength, NEW b, NEW m, NEW nm, NEW io, Laid(b, m, nm, io),
         NEW x \in Names, \A k \in 0..m : nm[k] # x
  PROVE  Found(b, Chain(b), x) = {}
<1>1. Chain(b) = {Pos(j) : j \in 0..m}
  BY ChainIs
<1>2. \A j \in 0..m : ~HasName(b, Pos(j), x)
  BY HasNameIs
<1>3. QED
  BY <1>1, <1>2 DEF Found

LEMMA SearchIs ==
  ASSUME OneLength, NEW b, NEW m, NEW nm, NEW io, Laid(b, m, nm, io),
         NEW k \in 0..m
  PROVE  SearchIn(b, Chain(b), nm[k]) = io[k] /\ search(b, nm[k]) = io[k]
<1>1. Entries(m, nm, io)
  BY DEF Laid
<1>2. nm[k] \in Names
  BY <1>1, EntryParts
<1>3. Found(b, Chain(b), nm[k]) = {Pos(k)}
  BY <1>2, FoundIs
<1>4. Pos(k) \in Int
  BY <1>1, EntryPlace
<1>5. First({Pos(k)}) = Pos(k)
  BY <1>4, FirstOne
<1>6. inode(b, Pos(k)) = io[k]
  BY EntryReads
<1>7. QED
  BY <1>3, <1>5, <1>6 DEF SearchIn, search

LEMMA SearchNone ==
  ASSUME OneLength, NEW b, NEW m, NEW nm, NEW io, Laid(b, m, nm, io),
         NEW x \in Names, \A k \in 0..m : nm[k] # x
  PROVE  SearchIn(b, Chain(b), x) = 0 /\ search(b, x) = 0
BY FoundNone DEF SearchIn, search

\* The names search finds, and the entries.
LEMMA SearchFinds ==
  ASSUME OneLength, NEW b, NEW m, NEW nm, NEW io, Laid(b, m, nm, io),
         NEW x \in Name
  PROVE  /\ search(b, x) # 0 => \E k \in 2..m : nm[k] = x
         /\ search(b, x) = 0 => \A k \in 0..m : nm[k] # x
<1>1. Entries(m, nm, io) /\ x \in Names
  BY DEF Laid, Names
<1>2. ASSUME NEW k \in 0..m, nm[k] = x PROVE k \in 2..m /\ search(b, x) # 0
  <2>1. search(b, x) = io[k]
    BY <1>2, SearchIs
  <2>2. io[k] # 0 /\ k \in Nat
    BY <1>1, EntryParts
  <2>3. k # 0 /\ k # 1
    BY <1>1, <1>2, DirAssumption DEF Entries
  <2>4. QED
    BY <2>1, <2>2, <2>3
<1>3. (\A k \in 0..m : nm[k] # x) => search(b, x) = 0
  BY <1>1, SearchNone
<1>4. QED
  BY <1>2, <1>3

\* The directory as search shows it, of any block.
ListingOf(b) ==
  [nm \in {x \in Name : SearchIn(b, Chain(b), x) # 0} |-> SearchIn(b, Chain(b), nm)]

\* The names of the entries behind "." and "..".
Listed(m, nm) == {nm[k] : k \in 2..m}

LEMMA ListingIs ==
  ASSUME OneLength, NEW b, NEW m, NEW nm, NEW io, Laid(b, m, nm, io)
  PROVE  /\ DOMAIN ListingOf(b) = Listed(m, nm)
         /\ \A k \in 2..m : ListingOf(b)[nm[k]] = io[k]
<1> DEFINE D == {x \in Name : SearchIn(b, Chain(b), x) # 0}
<1>1. Entries(m, nm, io) /\ m \in Nat
  BY DEF Laid, Entries
<1>2. ASSUME NEW x \in Name, search(b, x) # 0 PROVE \E k \in 2..m : nm[k] = x
  BY <1>2, SearchFinds
<1>3. ASSUME NEW k \in 2..m
      PROVE  nm[k] \in Name /\ SearchIn(b, Chain(b), nm[k]) = io[k] /\ io[k] # 0
  <2>1. k \in 0..m
    BY <1>1
  <2>2. nm[k] \in Name
    BY <1>1 DEF Entries
  <2>3. QED
    BY <1>1, <2>1, <2>2, SearchIs, EntryParts
<1>4. D = Listed(m, nm)
  BY <1>2, <1>3 DEF search, Listed
<1>5. ListingOf(b) = [x \in D |-> SearchIn(b, Chain(b), x)]
  BY DEF ListingOf
<1>6. \A k \in 2..m : nm[k] \in D
  BY <1>3
<1> HIDE DEF D
<1>7. DOMAIN ListingOf(b) = Listed(m, nm)
  BY <1>4, <1>5
<1>8. \A k \in 2..m : ListingOf(b)[nm[k]] = SearchIn(b, Chain(b), nm[k])
  BY <1>5, <1>6
<1>9. QED
  BY <1>3, <1>7, <1>8

LEMMA ListingFunction ==
  ASSUME NEW b
  PROVE  ListingOf(b) = [x \in DOMAIN ListingOf(b) |-> ListingOf(b)[x]]
BY DEF ListingOf

LEMMA LaidWellFormed ==
  ASSUME OneLength, NEW m, NEW nm, NEW io, Laid(buf, m, nm, io)
  PROVE  WellFormed
<1>1. Chain(buf) = {Pos(k) : k \in 0..m} /\ Entries(m, nm, io) /\ m \in Nat
  BY ChainIs DEF Laid, Entries
<1>2. ASSUME NEW k \in 0..m
      PROVE  /\ rec_len(buf, Pos(k)) >= ideal_length(name_len(buf, Pos(k)))
             /\ Pos(k) + rec_len(buf, Pos(k)) \in Chain(buf) \cup {BlockCells}
  <2>1. /\ rec_len(buf, Pos(k)) = Rec(m, k)
        /\ name_len(buf, Pos(k)) = Length(nm[k])
    BY EntryReads
  <2>2. /\ ideal_length(Length(nm[k])) = Size(k) /\ Rec(m, k) >= Size(k)
        /\ Pos(k) + Rec(m, k) = IF k = m THEN BlockCells ELSE Pos(k + 1)
    BY <1>1, EntryParts, EntryPlace
  <2>3. k # m => k + 1 \in 0..m
    BY <1>1
  <2>4. QED
    BY <1>1, <2>1, <2>2, <2>3
<1>3. QED
  BY <1>1, <1>2 DEF WellFormed

LEMMA LaidDots ==
  ASSUME OneLength, NEW m, NEW nm, NEW io, Laid(buf, m, nm, io)
  PROVE  DotsStay
<1>1. Entries(m, nm, io) /\ 0 \in 0..m /\ 1 \in 0..m
  BY DEF Laid, Entries
<1>2. nm[0] = Dot /\ io[0] = Self /\ nm[1] = DotDot /\ io[1] = Up
  BY <1>1 DEF Entries
<1>3. search(buf, Dot) = Self /\ search(buf, DotDot) = Up
  BY <1>1, <1>2, SearchIs
<1>4. HasName(buf, Pos(0), Dot) /\ HasName(buf, Pos(1), DotDot)
  BY <1>1, <1>2, HasNameIs DEF Names
<1>5. rec_len(buf, Pos(0)) = Rec(m, 0)
  BY <1>1, EntryReads
<1>6. Rec(m, 0) = 3
  BY <1>1 DEF Rec, Size, Entries
<1>7. QED
  BY <1>3, <1>4, <1>5, <1>6, PosFirst DEF DotsStay

LEMMA LaidEmptyRight ==
  ASSUME OneLength, NEW m, NEW nm, NEW io, Laid(buf, m, nm, io)
  PROVE  EmptyRight
<1>1. /\ Entries(m, nm, io) /\ 0 \in 0..m /\ 1 \in 0..m /\ m \in Nat /\ m >= 1
      /\ nm[0] = Dot /\ nm[1] = DotDot
  BY DEF Laid, Entries
<1>2. Found(buf, Chain(buf), Dot) = {0} /\ Found(buf, Chain(buf), DotDot) = {3}
  <2>1. Found(buf, Chain(buf), nm[0]) = {Pos(0)}
    BY <1>1, FoundIs DEF Names
  <2>2. Found(buf, Chain(buf), nm[1]) = {Pos(1)}
    BY <1>1, FoundIs DEF Names
  <2>3. QED
    BY <1>1, <2>1, <2>2, PosFirst
<1>3. is_empty(buf) <=> {o \in Chain(buf) : o > 0 /\ o > 3} = {}
  BY <1>2 DEF is_empty
<1>4. Chain(buf) = {Pos(k) : k \in 0..m}
  BY ChainIs
<1>5. m >= 2 => ~is_empty(buf)
  <2>1. Pos(2) = 6
    BY PosFirst, PosNext DEF Size
  <2>2. m >= 2 => 2 \in 0..m
    BY <1>1
  <2>3. QED
    BY <1>3, <1>4, <2>1, <2>2
<1>6. m = 1 => is_empty(buf)
  <2>1. ASSUME m = 1, NEW k \in 0..m PROVE Pos(k) = 0 \/ Pos(k) = 3
    <3>1. k = 0 \/ k = 1
      BY <2>1
    <3>2. QED
      BY <3>1, PosFirst
  <2>2. QED
    BY <1>3, <1>4, <2>1
<1>7. DOMAIN ListingOf(buf) = Listed(m, nm)
  BY ListingIs
<1>8. Listing = ListingOf(buf)
  BY DEF Listing, ListingOf
<1>9. DOMAIN Listing = {} <=> m = 1
  <2>1. m >= 2 => nm[2] \in Listed(m, nm)
    BY <1>1 DEF Listed
  <2>2. m = 1 => Listed(m, nm) = {}
    BY DEF Listed
  <2>3. DOMAIN Listing = Listed(m, nm)
    BY <1>7, <1>8
  <2>4. m = 1 \/ m >= 2
    BY <1>1
  <2>5. QED
    BY <2>1, <2>2, <2>3, <2>4
<1>10. QED
  BY <1>1, <1>5, <1>6, <1>9 DEF EmptyRight

LEMMA CellIs ==
  /\ \A i \in {0, Self, Up} \cup Ino : INODE(i) \in Cell
  /\ \A r \in 0..BlockCells, x \in Names : LENS(r, Length(x)) \in Cell
  /\ LENS(0, 0) \in Cell
  /\ \A x \in Names, k \in Offset : CHARS(x, k) \in Cell
<1>1. \A i \in {0, Self, Up} \cup Ino : INODE(i) \in Cell
  BY DEF Cell
<1>2. \A r \in 0..BlockCells, x \in Names : LENS(r, Length(x)) \in Cell
  BY DEF Cell, Names
<1>3. LENS(0, 0) \in Cell
  <2>1. 0 \in 0..BlockCells
    BY DirAssumption
  <2>2. QED
    BY <2>1 DEF Cell
<1>4. \A x \in Names, k \in Offset : CHARS(x, k) \in Cell
  BY DEF Cell, Names
<1>5. QED
  BY <1>1, <1>2, <1>3, <1>4

\* mymkdir lays out "." and "..".
LEMMA FreshLaid ==
  ASSUME OneLength
  PROVE  Laid(FreshBlock, 1, [k \in 0..1 |-> IF k = 0 THEN Dot ELSE DotDot],
                             [k \in 0..1 |-> IF k = 0 THEN Self ELSE Up])
<1> DEFINE nm == [k \in 0..1 |-> IF k = 0 THEN Dot ELSE DotDot]
           io == [k \in 0..1 |-> IF k = 0 THEN Self ELSE Up]
<1>1. nm[0] = Dot /\ nm[1] = DotDot /\ io[0] = Self /\ io[1] = Up
  OBVIOUS
<1> HIDE DEF nm, io
<1>2. BlockCells \in Nat /\ BlockCells >= 6 /\ Dot # DotDot
  BY DirAssumption
<1>3. FreshBlock \in [Offset -> Cell]
  <2>1. SUFFICES ASSUME NEW o \in Offset PROVE FreshBlock[o] \in Cell
    BY DEF FreshBlock
  <2>2. INODE(Self) \in Cell /\ INODE(Up) \in Cell /\ ZERO \in Cell
    BY CellIs DEF ZERO
  <2>3. LENS(3, 1) \in Cell /\ LENS(BlockCells - 3, 2) \in Cell
    <3>1. 3 \in 0..BlockCells /\ BlockCells - 3 \in 0..BlockCells
      BY <1>2
    <3>2. Dot \in Names /\ DotDot \in Names
      BY DEF Names
    <3>3. LENS(3, Length(Dot)) \in Cell /\ LENS(BlockCells - 3, Length(DotDot)) \in Cell
      BY <3>1, <3>2, CellIs
    <3>4. QED
      BY <3>3, LengthIs
  <2>4. CHARS(Dot, 0) \in Cell /\ CHARS(DotDot, 0) \in Cell
    <3>1. 0 \in Offset
      BY <1>2 DEF Offset
    <3>2. QED
      BY <3>1, CellIs DEF Names
  <2>5. QED
    BY <2>2, <2>3, <2>4 DEF FreshBlock
<1>4. Pos(0) = 0 /\ Pos(1) = 3 /\ Size(0) = 3 /\ Size(1) = 3
  BY PosFirst DEF Size
<1>5. Entries(1, nm, io)
  <2>1. \A j, k \in 0..1 : nm[j] = nm[k] => j = k
    BY <1>1, <1>2
  <2>2. QED
    BY <1>1, <1>2, <1>4, <2>1 DEF Entries
<1>6. Length(Dot) = 1 /\ Length(DotDot) = 2 /\ Cells(1) = 1 /\ Cells(2) = 1
  BY LengthIs, CellsOne
<1>7. /\ FreshBlock[0] = INODE(Self) /\ FreshBlock[1] = LENS(3, 1)
      /\ FreshBlock[2] = CHARS(Dot, 0) /\ FreshBlock[3] = INODE(Up)
      /\ FreshBlock[4] = LENS(BlockCells - 3, 2) /\ FreshBlock[5] = CHARS(DotDot, 0)
  <2>1. \A o \in 0..5 : o \in Offset
    BY <1>2 DEF Offset
  <2>2. QED
    BY <2>1 DEF FreshBlock
<1>8. Entry(FreshBlock, Pos(0), nm[0], io[0], Rec(1, 0))
  BY <1>1, <1>4, <1>6, <1>7 DEF Entry, Rec
<1>9. Entry(FreshBlock, Pos(1), nm[1], io[1], Rec(1, 1))
  BY <1>1, <1>4, <1>6, <1>7 DEF Entry, Rec
<1>10. \A k \in 0..1 : k = 0 \/ k = 1
  OBVIOUS
<1>11. \A k \in 0..1 : Entry(FreshBlock, Pos(k), nm[k], io[k], Rec(1, k))
  BY <1>8, <1>9, <1>10
<1>12. Laid(FreshBlock, 1, nm, io)
  BY <1>3, <1>5, <1>11 DEF Laid
<1>13. QED
  BY <1>12 DEF nm, io

\* An entry stays one in a block that agrees on its inode and its name.
LEMMA EntryKept ==
  ASSUME NEW b, NEW c, NEW o \in Nat, NEW x, NEW i, NEW r, NEW r2, NEW s \in Nat,
         Entry(b, o, x, i, r), Cells(Length(x)) = s - 2, s >= 3,
         \A y \in o..(o + s - 1) : y # o + 1 => c[y] = b[y],
         c[o + 1] = LENS(r2, Length(x))
  PROVE  Entry(c, o, x, i, r2)
<1>1. c[o] = INODE(i)
  <2>1. o \in o..(o + s - 1) /\ o # o + 1
    OBVIOUS
  <2>2. QED
    BY <2>1 DEF Entry
<1>2. ASSUME NEW k \in 0..(Cells(Length(x)) - 1)
      PROVE  c[o + 2 + k] = CHARS(x, k)
  <2>1. o + 2 + k \in o..(o + s - 1) /\ o + 2 + k # o + 1
    OBVIOUS
  <2>2. b[o + 2 + k] = CHARS(x, k)
    BY DEF Entry
  <2>3. QED
    BY <2>1, <2>2
<1>3. QED
  BY <1>1, <1>2 DEF Entry

LEMMA EntryWhole ==
  ASSUME NEW b, NEW c, NEW o \in Nat, NEW x, NEW i, NEW r, NEW s \in Nat,
         Entry(b, o, x, i, r), Cells(Length(x)) = s - 2, s >= 3,
         \A y \in o..(o + s - 1) : c[y] = b[y]
  PROVE  Entry(c, o, x, i, r)
<1>1. o + 1 \in o..(o + s - 1)
  OBVIOUS
<1>2. c[o + 1] = LENS(r, Length(x))
  BY <1>1 DEF Entry
<1>3. QED
  BY <1>2, EntryKept

\* What PutEntry writes, and where.
LEMMA PutEntryIs ==
  ASSUME NEW b, NEW o \in Nat, NEW i, NEW r, NEW x, NEW s \in Nat,
         Cells(Length(x)) = s - 2, s >= 3, o + s <= BlockCells
  PROVE  Entry(PutEntry(b, o, i, r, x), o, x, i, r)
<1> DEFINE At(y) == IF y = o THEN INODE(i)
                    ELSE IF y = o + 1 THEN LENS(r, Length(x))
                    ELSE IF y - o - 2 \in 0..(Cells(Length(x)) - 1)
                         THEN CHARS(x, y - o - 2)
                    ELSE b[y]
           c == PutEntry(b, o, i, r, x)
<1>1. c = [y \in Offset |-> At(y)]
  BY DEF PutEntry
<1>2. BlockCells \in Nat
  BY DirAssumption
<1>3. \A y \in Offset : y \in Int /\ c[y] = At(y)
  BY <1>1, <1>2 DEF Offset
<1>4. \A y \in o..(o + s - 1) : y \in Offset
  BY <1>2 DEF Offset
<1> HIDE DEF c
<1>5. c[o] = INODE(i) /\ c[o + 1] = LENS(r, Length(x))
  BY <1>3, <1>4
<1>6. ASSUME NEW k \in 0..(Cells(Length(x)) - 1)
      PROVE  c[o + 2 + k] = CHARS(x, k)
  <2>1. o + 2 + k \in o..(o + s - 1) /\ o + 2 + k - o - 2 = k
    OBVIOUS
  <2>2. c[o + 2 + k] = At(o + 2 + k)
    BY <1>3, <1>4, <2>1
  <2>3. At(o + 2 + k) = CHARS(x, o + 2 + k - o - 2)
    BY <2>1
  <2>4. QED
    BY <2>1, <2>2, <2>3
<1>7. Entry(c, o, x, i, r)
  BY <1>5, <1>6 DEF Entry
<1>8. QED
  BY <1>7 DEF c

LEMMA PutEntryElse ==
  ASSUME NEW b, NEW o \in Nat, NEW i, NEW r, NEW x, NEW y \in Offset,
         y < o \/ y >= o + 2 + Cells(Length(x)), Cells(Length(x)) \in Nat
  PROVE  PutEntry(b, o, i, r, x)[y] = b[y]
<1> DEFINE At(z) == IF z = o THEN INODE(i)
                    ELSE IF z = o + 1 THEN LENS(r, Length(x))
                    ELSE IF z - o - 2 \in 0..(Cells(Length(x)) - 1)
                         THEN CHARS(x, z - o - 2)
                    ELSE b[z]
<1>1. PutEntry(b, o, i, r, x) = [z \in Offset |-> At(z)]
  BY DEF PutEntry
<1>2. y \in Int
  BY DirAssumption DEF Offset
<1>3. ~(y - o - 2 \in 0..(Cells(Length(x)) - 1)) /\ y # o /\ y # o + 1
  BY <1>2
<1>4. PutEntry(b, o, i, r, x)[y] = At(y)
  BY <1>1
<1>5. At(y) = b[y]
  BY <1>3
<1>6. QED
  BY <1>4, <1>5

LEMMA PutEntryCells ==
  ASSUME OneLength, NEW b \in [Offset -> Cell], NEW o \in Nat,
         NEW i \in {0, Self, Up} \cup Ino,
         NEW r \in 0..BlockCells, NEW x \in Names, NEW s \in Nat,
         Cells(Length(x)) = s - 2, s >= 3, o + s <= BlockCells
  PROVE  PutEntry(b, o, i, r, x) \in [Offset -> Cell]
<1>1. SUFFICES ASSUME NEW y \in Offset PROVE PutEntry(b, o, i, r, x)[y] \in Cell
  BY DEF PutEntry
<1>2. INODE(i) \in Cell /\ LENS(r, Length(x)) \in Cell /\ b[y] \in Cell
  BY CellIs
<1>3. y - o - 2 \in 0..(Cells(Length(x)) - 1) => CHARS(x, y - o - 2) \in Cell
  <2>1. BlockCells \in Nat /\ y \in Nat
    BY DirAssumption DEF Offset
  <2>2. y - o - 2 \in 0..(Cells(Length(x)) - 1) => y - o - 2 \in Offset
    BY <2>1 DEF Offset
  <2>3. QED
    BY <2>2, CellIs
<1>4. QED
  BY <1>2, <1>3 DEF PutEntry

\* Entry m + 1 behind entries 0..m.
Added(m, f, x) == [k \in 0..(m + 1) |-> IF k = m + 1 THEN x ELSE f[k]]

LEMMA LastEntryIs ==
  ASSUME OneLength, NEW b, NEW m, NEW nm, NEW io, Laid(b, m, nm, io)
  PROVE  /\ LastEntry(b) = Pos(m)
         /\ remain(b) = BlockCells - Pos(m + 1)
         /\ rec_len(b, Pos(m)) = BlockCells - Pos(m)
         /\ ideal_length(name_len(b, Pos(m))) = Size(m)
         /\ name_len(b, Pos(m)) = Length(nm[m])
<1>1. Entries(m, nm, io) /\ m \in Nat /\ m \in 0..m /\ BlockCells \in Nat
  BY DirAssumption DEF Laid, Entries
<1>2. Chain(b) = {Pos(j) : j \in 0..m}
  BY ChainIs
<1>3. LastEntry(b) = Pos(m)
  BY <1>1, <1>2, LastBelow DEF LastEntry
<1>4. rec_len(b, Pos(m)) = Rec(m, m) /\ name_len(b, Pos(m)) = Length(nm[m])
  BY <1>1, EntryReads
<1>5. ideal_length(Length(nm[m])) = Size(m)
  BY <1>1, EntryParts
<1>6. Rec(m, m) = BlockCells - Pos(m)
  BY DEF Rec
<1>7. Pos(m + 1) = Pos(m) + Size(m) /\ Pos(m) \in Nat /\ Size(m) \in Nat
  BY <1>1, PosNext, SizeIs
<1>8. remain(b) = BlockCells - Pos(m + 1)
  BY <1>1, <1>3, <1>4, <1>5, <1>6, <1>7 DEF remain
<1>9. QED
  BY <1>3, <1>4, <1>5, <1>6, <1>8

LEMMA EntriesAdded ==
  ASSUME OneLength, NEW m, NEW nm, NEW io, Entries(m, nm, io),
         NEW x \in Name, NEW i \in Ino, \A k \in 0..m : nm[k] # x,
         Pos(m + 1) + Size(m + 1) <= BlockCells
  PROVE  Entries(m + 1, Added(m, nm, x), Added(m, io, i))
<1> DEFINE n2 == Added(m, nm, x)
           i2 == Added(m, io, i)
<1>1. m \in Nat /\ m >= 1
  BY DEF Entries
<1>2. /\ n2[m + 1] = x /\ i2[m + 1] = i
      /\ \A k \in 0..m : n2[k] = nm[k] /\ i2[k] = io[k]
  BY <1>1 DEF Added
<1> HIDE DEF n2, i2
<1>3. n2[0] = Dot /\ n2[1] = DotDot /\ i2[0] = Self /\ i2[1] = Up
  BY <1>1, <1>2 DEF Entries
<1>4. \A k \in 2..(m + 1) : n2[k] \in Name /\ i2[k] \in Ino
  <2>1. SUFFICES ASSUME NEW k \in 2..(m + 1) PROVE n2[k] \in Name /\ i2[k] \in Ino
    OBVIOUS
  <2>2. CASE k = m + 1
    BY <1>2, <2>2
  <2>3. CASE k # m + 1
    <3>1. k \in 2..m /\ k \in 0..m
      BY <1>1, <2>3
    <3>2. QED
      BY <1>2, <3>1 DEF Entries
  <2>4. QED
    BY <2>2, <2>3
<1>5. \A j, k \in 0..(m + 1) : n2[j] = n2[k] => j = k
  <2>1. SUFFICES ASSUME NEW j \in 0..(m + 1), NEW k \in 0..(m + 1), n2[j] = n2[k]
                 PROVE  j = k
    OBVIOUS
  <2>2. j \in 0..m \/ j = m + 1
    BY <1>1
  <2>3. k \in 0..m \/ k = m + 1
    BY <1>1
  <2>4. CASE j \in 0..m /\ k \in 0..m
    <3>1. nm[j] = nm[k]
      BY <1>2, <2>1, <2>4
    <3>2. QED
      BY <2>4, <3>1 DEF Entries
  <2>5. QED
    BY <1>2, <2>1, <2>2, <2>3, <2>4
<1>6. Entries(m + 1, n2, i2)
  BY <1>1, <1>3, <1>4, <1>5 DEF Entries
<1>7. QED
  BY <1>6 DEF n2, i2

\* enter_name adds an entry behind the last.
LEMMA EnterLaid ==
  ASSUME OneLength, NEW b, NEW m, NEW nm, NEW io, Laid(b, m, nm, io),
         NEW x \in Name, NEW i \in Ino, \A k \in 0..m : nm[k] # x,
         remain(b) >= ideal_length(Length(x))
  PROVE  Laid(enter_name(b, x, i), m + 1, Added(m, nm, x), Added(m, io, i))
<1> DEFINE n2  == Added(m, nm, x)
           i2  == Added(m, io, i)
           b1  == [b EXCEPT ![Pos(m) + 1] = LENS(Size(m), Length(nm[m]))]
           rec == BlockCells - Pos(m + 1)
           c   == PutEntry(b1, Pos(m + 1), i, rec, x)
<1>1. /\ Entries(m, nm, io) /\ m \in Nat /\ m >= 1 /\ BlockCells \in Nat
      /\ b \in [Offset -> Cell] /\ x \in Names
  BY DirAssumption DEF Laid, Entries, Names
<1>2. /\ Pos(m) \in Nat /\ Size(m) \in Nat /\ Size(m) >= 3
      /\ Pos(m + 1) = Pos(m) + Size(m) /\ Pos(m + 1) \in Nat
      /\ Size(m + 1) \in Nat /\ Size(m + 1) >= 3
  BY <1>1, PosNext, SizeIs
<1>3. Cells(Length(x)) = Size(m + 1) - 2 /\ ideal_length(Length(x)) = Size(m + 1)
  <2>1. Size(m + 1) = 2 + NameCells
    BY <1>1 DEF Size
  <2>2. Cells(Length(x)) = NameCells /\ NameCells \in Nat
    BY LengthIs, NameCellsIs
  <2>3. QED
    BY <2>1, <2>2 DEF ideal_length
<1>4. enter_name(b, x, i) = c
  BY LastEntryIs, <1>2 DEF enter_name
<1>5. Pos(m + 1) + Size(m + 1) <= BlockCells
  <2>1. remain(b) = BlockCells - Pos(m + 1)
    BY LastEntryIs
  <2>2. QED
    BY <1>1, <1>2, <1>3, <2>1
<1>6. rec \in 0..BlockCells
  BY <1>1, <1>2, <1>5
<1>7. Entries(m + 1, n2, i2)
  BY <1>1, <1>5, EntriesAdded
<1>8. b1 \in [Offset -> Cell]
  <2>1. Size(m) \in 0..BlockCells
    BY <1>1, <1>2, <1>5
  <2>2. nm[m] \in Names
    BY <1>1, EntryParts
  <2>3. LENS(Size(m), Length(nm[m])) \in Cell
    BY <2>1, <2>2, CellIs
  <2>4. QED
    BY <1>1, <2>3
<1>9. c \in [Offset -> Cell]
  <2> HIDE DEF b1, rec
  <2>1. i \in {0, Self, Up} \cup Ino
    OBVIOUS
  <2>2. QED
    BY <1>1, <1>2, <1>3, <1>5, <1>6, <1>8, <2>1, PutEntryCells
<1>10. /\ Entry(c, Pos(m + 1), x, i, rec)
       /\ \A y \in Offset : y < Pos(m + 1) => c[y] = b1[y]
  <2> HIDE DEF b1, rec
  <2>1. Entry(PutEntry(b1, Pos(m + 1), i, rec, x), Pos(m + 1), x, i, rec)
    BY <1>2, <1>3, <1>5, PutEntryIs
  <2>2. \A y \in Offset : y < Pos(m + 1) =>
          PutEntry(b1, Pos(m + 1), i, rec, x)[y] = b1[y]
    <3>1. Cells(Length(x)) \in Nat
      BY <1>2, <1>3
    <3>2. QED
      BY <1>2, <3>1, PutEntryElse
  <2>3. QED
    BY <2>1, <2>2
<1>11. /\ b1[Pos(m) + 1] = LENS(Size(m), Length(nm[m]))
       /\ \A y \in Offset : y # Pos(m) + 1 => b1[y] = b[y]
  <2>1. Pos(m) + 1 \in Offset
    BY <1>1, <1>2, <1>5 DEF Offset
  <2>2. QED
    BY <1>1, <2>1
<1> HIDE DEF b1, c
<1>12. \A k \in 0..m : n2[k] = nm[k] /\ i2[k] = io[k]
  BY <1>1 DEF Added
<1>13. n2[m + 1] = x /\ i2[m + 1] = i
  BY <1>1 DEF Added
<1> HIDE DEF n2, i2
<1>14. ASSUME NEW k \in 0..(m + 1)
       PROVE  Entry(c, Pos(k), n2[k], i2[k], Rec(m + 1, k))
  <2>1. CASE k = m + 1
    BY <1>10, <1>13, <2>1 DEF Rec
  <2>2. CASE k \in 0..m
    <3>1. Entry(b, Pos(k), nm[k], io[k], Rec(m, k))
      BY <2>2 DEF Laid
    <3>2. /\ Pos(k) \in Nat /\ Size(k) \in Nat /\ Size(k) >= 3 /\ k \in Nat
          /\ Cells(Length(nm[k])) = Size(k) - 2
      BY <1>1, <2>2, EntryPlace, EntryParts
    <3>3. Pos(k) + Size(k) <= Pos(m + 1)
      BY <1>1, <2>2, <3>2, PosLess
    <3>4. \A y \in Pos(k)..(Pos(k) + Size(k) - 1) : y \in Offset /\ y < Pos(m + 1)
      <4>1. Pos(m + 1) <= BlockCells
        BY <1>1, <1>2, <1>5
      <4>2. \A y \in Pos(k)..(Pos(k) + Size(k) - 1) : y \in Nat /\ y < Pos(m + 1)
        BY <1>2, <3>2, <3>3
      <4>3. QED
        BY <1>1, <1>2, <4>1, <4>2 DEF Offset
    <3>5. Rec(m + 1, k) = Size(k)
      BY <1>1, <2>2 DEF Rec
    <3>6. CASE k = m
      <4>1. c[Pos(k) + 1] = LENS(Size(k), Length(nm[k]))
        <5>1. Pos(k) + 1 \in Pos(k)..(Pos(k) + Size(k) - 1)
          BY <3>2
        <5>2. QED
          BY <1>10, <1>11, <3>4, <3>6, <5>1
      <4>2. \A y \in Pos(k)..(Pos(k) + Size(k) - 1) : y # Pos(k) + 1 => c[y] = b[y]
        BY <1>10, <1>11, <3>4, <3>6
      <4>3. Entry(c, Pos(k), nm[k], io[k], Size(k))
        BY <3>1, <3>2, <4>1, <4>2, EntryKept
      <4>4. QED
        BY <1>12, <2>2, <3>5, <4>3
    <3>7. CASE k # m
      <4>1. k < m
        BY <1>1, <2>2, <3>7
      <4>2. Pos(k) + Size(k) <= Pos(m)
        BY <1>1, <3>2, <4>1, PosLess
      <4>3. \A y \in Pos(k)..(Pos(k) + Size(k) - 1) : y # Pos(m) + 1
        BY <1>2, <3>2, <4>2
      <4>4. \A y \in Pos(k)..(Pos(k) + Size(k) - 1) : c[y] = b[y]
        BY <1>10, <1>11, <3>4, <4>3
      <4>5. Entry(c, Pos(k), nm[k], io[k], Rec(m, k))
        BY <3>1, <3>2, <4>4, EntryWhole
      <4>6. Rec(m, k) = Size(k)
        BY <3>7 DEF Rec
      <4>7. QED
        BY <1>12, <2>2, <3>5, <4>5, <4>6
    <3>8. QED
      BY <3>6, <3>7
  <2>3. QED
    BY <1>1, <2>1, <2>2
<1>15. Laid(c, m + 1, n2, i2)
  BY <1>7, <1>9, <1>14 DEF Laid
<1>16. QED
  BY <1>4, <1>15 DEF n2, i2

LEMMA FirstIs ==
  ASSUME NEW S \in SUBSET Int, NEW n \in S, \A y \in S : n <= y
  PROVE  First(S) = n
<1>1. \A x \in S : (\A y \in S : x <= y) => x = n
  OBVIOUS
<1>2. QED
  BY <1>1 DEF First

\* strcpy copies the cells of a name, to the one with the zero byte.
LEMMA strcpyIs ==
  ASSUME OneLength, NEW b, NEW d \in Nat, NEW o \in Nat, NEW x \in Name,
         NEW i, NEW r, Entry(b, o, x, i, r), o + 2 + NameCells <= BlockCells
  PROVE  strcpy(b, d, o) =
           [y \in Offset |-> IF y - d - 2 \in 0..(NameCells - 1)
                             THEN b[o + y - d] ELSE b[y]]
<1> DEFINE S == {k \in 0..(BlockCells - 3 - o) :
                   Ends(b[o + 2 + k]) \/ o + 2 + k = BlockCells - 1}
<1>1. /\ NameCells \in Nat /\ NameCells >= 1 /\ BlockCells \in Nat
      /\ Cells(Length(x)) = NameCells /\ Length(x) % 4 # 0
  BY NameCellsIs, LengthIs, DirAssumption
<1>2. \A k \in 0..(NameCells - 1) : b[o + 2 + k] = CHARS(x, k)
  BY <1>1 DEF Entry
<1>3. \A k \in 0..(NameCells - 1) : Ends(b[o + 2 + k]) <=> k = NameCells - 1
  <2>1. SUFFICES ASSUME NEW k \in 0..(NameCells - 1)
                 PROVE  Ends(CHARS(x, k)) <=> k = NameCells - 1
    BY <1>2
  <2>2. /\ CHARS(x, k)[1] = "chars" /\ CHARS(x, k)[2] = x /\ CHARS(x, k)[3] = k
    BY CellParts
  <2>3. QED
    BY <1>1, <2>2 DEF Ends
<1>4. NameCells - 1 \in S
  <2>1. NameCells - 1 \in 0..(BlockCells - 3 - o) /\ NameCells - 1 \in 0..(NameCells - 1)
    BY <1>1
  <2>2. QED
    BY <1>3, <2>1
<1>5. \A k \in S : NameCells - 1 <= k
  <2>1. SUFFICES ASSUME NEW k \in S, ~(NameCells - 1 <= k) PROVE FALSE
    OBVIOUS
  <2>2. k \in Nat /\ (Ends(b[o + 2 + k]) \/ o + 2 + k = BlockCells - 1)
    BY <1>1
  <2>3. k \in 0..(NameCells - 1) /\ k # NameCells - 1 /\ o + 2 + k # BlockCells - 1
    BY <1>1, <2>1, <2>2
  <2>4. ~Ends(b[o + 2 + k])
    BY <1>3, <2>3
  <2>5. QED
    BY <2>2, <2>3, <2>4
<1>6. S \in SUBSET Int
  BY <1>1
<1>7. strcpy(b, d, o) = [y \in Offset |-> IF y - d - 2 \in 0..First(S)
                                          THEN b[o + y - d] ELSE b[y]]
  BY DEF strcpy
<1> HIDE DEF S
<1>8. First(S) = NameCells - 1
  BY <1>4, <1>5, <1>6, FirstIs
<1>9. QED
  BY <1>7, <1>8

\* The block after one turn of the loop: the entry at o copied to d.
Copied(b, d, o) ==
  LET b1 == strcpy(b, d, o)
  IN [b1 EXCEPT ![d] = b1[o], ![d + 1] = b1[o + 1]]

LEMMA CopiedCells ==
  ASSUME OneLength, NEW b \in [Offset -> Cell], NEW d \in Nat, NEW o \in Nat,
         NEW x \in Name, NEW i, NEW r, Entry(b, o, x, i, r),
         o + 2 + NameCells <= BlockCells, d + 2 + NameCells = o
  PROVE  /\ \A y \in Offset : y < d \/ y >= o => Copied(b, d, o)[y] = b[y]
         /\ \A y \in d..(o - 1) : Copied(b, d, o)[y] = b[o + y - d]
         /\ Copied(b, d, o) \in [Offset -> Cell]
<1> DEFINE b1 == strcpy(b, d, o)
           At(y) == IF y - d - 2 \in 0..(NameCells - 1) THEN b[o + y - d] ELSE b[y]
           c == Copied(b, d, o)
<1>1. NameCells \in Nat /\ NameCells >= 1 /\ BlockCells \in Nat
  BY NameCellsIs, DirAssumption
<1>2. b1 = [y \in Offset |-> At(y)]
  BY strcpyIs
<1>3. c = [b1 EXCEPT ![d] = b1[o], ![d + 1] = b1[o + 1]]
  BY DEF Copied
<1> HIDE DEF b1, c
<1>4. /\ d \in Offset /\ d + 1 \in Offset /\ o \in Offset /\ o + 1 \in Offset
      /\ \A y \in d..(o - 1) : y \in Offset /\ o + y - d \in Offset
  BY <1>1 DEF Offset
<1>5. b1[o] = b[o] /\ b1[o + 1] = b[o + 1]
  <2>1. ~(o - d - 2 \in 0..(NameCells - 1)) /\ ~(o + 1 - d - 2 \in 0..(NameCells - 1))
    BY <1>1
  <2>2. QED
    BY <1>2, <1>4, <2>1
<1>6. /\ c[d] = b[o] /\ c[d + 1] = b[o + 1]
      /\ \A y \in Offset : y # d /\ y # d + 1 => c[y] = At(y)
  <2>1. d # d + 1
    OBVIOUS
  <2>2. b1 = [y \in Offset |-> b1[y]]
    BY <1>2
  <2>3. c[d] = b1[o] /\ c[d + 1] = b1[o + 1]
    BY <1>3, <1>4, <2>1, <2>2
  <2>4. \A y \in Offset : y # d /\ y # d + 1 => c[y] = b1[y]
    BY <1>3, <2>2
  <2>5. QED
    BY <1>2, <1>5, <2>3, <2>4
<1>7. ASSUME NEW y \in Offset, y < d \/ y >= o PROVE c[y] = b[y]
  <2>1. y \in Int
    BY <1>1 DEF Offset
  <2>2. ~(y - d - 2 \in 0..(NameCells - 1)) /\ y # d /\ y # d + 1
    BY <1>1, <1>7, <2>1
  <2>3. QED
    BY <1>6, <2>2
<1>8. ASSUME NEW y \in d..(o - 1) PROVE c[y] = b[o + y - d]
  <2>1. CASE y = d
    <3>1. o + y - d = o
      BY <2>1
    <3>2. QED
      BY <1>6, <2>1, <3>1
  <2>2. CASE y = d + 1
    <3>1. o + y - d = o + 1
      BY <2>2
    <3>2. QED
      BY <1>6, <2>2, <3>1
  <2>3. CASE y # d /\ y # d + 1
    <3>1. y - d - 2 \in 0..(NameCells - 1)
      BY <1>1, <2>3
    <3>2. QED
      BY <1>4, <1>6, <2>3, <3>1
  <2>4. QED
    BY <2>1, <2>2, <2>3
<1>9. c \in [Offset -> Cell]
  <2>1. ASSUME NEW y \in Offset PROVE At(y) \in Cell
    <3>1. y \in Int
      BY <1>1 DEF Offset
    <3>2. y - d - 2 \in 0..(NameCells - 1) => o + y - d \in Offset
      BY <1>1, <3>1 DEF Offset
    <3>3. QED
      BY <3>2
  <2>2. b1 \in [Offset -> Cell]
    BY <1>2, <2>1
  <2>3. b1[o] \in Cell /\ b1[o + 1] \in Cell
    BY <1>4, <2>2
  <2>4. QED
    BY <1>3, <2>2, <2>3
<1>10. QED
  BY <1>7, <1>8, <1>9 DEF c

\* The entry is at d now, and everything else is as it was.
LEMMA CopiedIs ==
  ASSUME OneLength, NEW b \in [Offset -> Cell], NEW d \in Nat, NEW o \in Nat,
         NEW x \in Name, NEW i, NEW r, Entry(b, o, x, i, r),
         o + 2 + NameCells <= BlockCells, d + 2 + NameCells = o
  PROVE  Entry(Copied(b, d, o), d, x, i, r)
<1> DEFINE c == Copied(b, d, o)
<1>1. \A y \in d..(o - 1) : c[y] = b[o + y - d]
  BY CopiedCells
<1> HIDE DEF c
<1>2. NameCells \in Nat /\ NameCells >= 1 /\ Cells(Length(x)) = NameCells
  BY NameCellsIs, LengthIs
<1>3. c[d] = b[o] /\ c[d + 1] = b[o + 1]
  <2>1. d \in d..(o - 1) /\ d + 1 \in d..(o - 1) /\ o + d - d = o /\ o + (d + 1) - d = o + 1
    BY <1>2
  <2>2. QED
    BY <1>1, <2>1
<1>4. ASSUME NEW k \in 0..(Cells(Length(x)) - 1)
      PROVE  c[d + 2 + k] = CHARS(x, k)
  <2>1. d + 2 + k \in d..(o - 1) /\ o + (d + 2 + k) - d = o + 2 + k
    BY <1>2
  <2>2. c[d + 2 + k] = b[o + 2 + k]
    BY <1>1, <2>1
  <2>3. QED
    BY <2>2 DEF Entry
<1>5. Entry(c, d, x, i, r)
  BY <1>3, <1>4 DEF Entry
<1>6. QED
  BY <1>5 DEF c

(***************************************************************************)
(* rm_child in the middle: when entry k goes and the shifting has come to  *)
(* entry i, entry j of the block is the entry Old(k, i, j) of before.      *)
(***************************************************************************)
Old(k, i, j) == IF k <= j /\ j < i THEN j + 1 ELSE j

Moved(c, m, nm, io, k, i) ==
  /\ c \in [Offset -> Cell]
  /\ \A j \in 0..m : Entry(c, Pos(j), nm[Old(k, i, j)], io[Old(k, i, j)],
                           Rec(m, Old(k, i, j)))

LEMMA OldIs ==
  ASSUME NEW k \in Nat, k >= 2, NEW i \in Nat, NEW j \in Nat
  PROVE  /\ Old(k, i, j) \in Nat /\ (Old(k, i, j) <= i \/ Old(k, i, j) <= j)
         /\ Size(Old(k, i, j)) = Size(j)
<1>1. Old(k, i, j) \in Nat /\ (Old(k, i, j) <= i \/ Old(k, i, j) <= j)
  BY DEF Old
<1>2. CASE k <= j /\ j < i
  <2>1. Old(k, i, j) = j + 1 /\ ~(j < 2) /\ ~(j + 1 < 2)
    BY <1>2 DEF Old
  <2>2. QED
    BY <1>1, <2>1 DEF Size
<1>3. CASE ~(k <= j /\ j < i)
  BY <1>1, <1>3 DEF Old
<1>4. QED
  BY <1>2, <1>3

LEMMA MovedOn ==
  ASSUME OneLength, NEW m, NEW nm, NEW io, Entries(m, nm, io),
         NEW k \in Nat, k >= 2, NEW i \in Nat, k <= i, i < m,
         NEW c, Moved(c, m, nm, io, k, i)
  PROVE  /\ Moved(Copied(c, Pos(i), Pos(i + 1)), m, nm, io, k, i + 1)
         /\ rec_len(Copied(c, Pos(i), Pos(i + 1)), Pos(i + 1)) = Rec(m, i + 1)
<1> DEFINE d  == Pos(i)
           o  == Pos(i + 1)
           c2 == Copied(c, d, o)
<1>1. /\ m \in Nat /\ i + 1 \in 0..m /\ i \in 0..m /\ i + 1 \in Nat /\ BlockCells \in Nat
      /\ c \in [Offset -> Cell]
  BY DirAssumption DEF Entries, Moved
<1>2. /\ d \in Nat /\ o \in Nat /\ o = d + Size(i) /\ Size(i) = 2 + NameCells
      /\ Size(i + 1) = 2 + NameCells /\ NameCells \in Nat /\ NameCells >= 1
      /\ o + 2 + NameCells <= BlockCells
  <2>1. d \in Nat /\ o \in Nat /\ o = d + Size(i)
    BY PosNext
  <2>2. Size(i) = 2 + NameCells /\ Size(i + 1) = 2 + NameCells
    BY <1>1 DEF Size
  <2>3. o + Size(i + 1) <= BlockCells
    BY <1>1, EntryPlace
  <2>4. QED
    BY <1>1, <2>1, <2>2, <2>3, NameCellsIs
<1> HIDE DEF d, o
<1>3. nm[i + 1] \in Name
  BY <1>1 DEF Entries
<1>4. Entry(c, o, nm[i + 1], io[i + 1], Rec(m, i + 1))
  <2>1. Old(k, i, i + 1) = i + 1
    BY DEF Old
  <2>2. QED
    BY <1>1, <2>1 DEF Moved, o
<1>5. d + 2 + NameCells = o
  BY <1>2
<1>6. Entry(c2, d, nm[i + 1], io[i + 1], Rec(m, i + 1))
  BY <1>1, <1>2, <1>3, <1>4, <1>5, CopiedIs
<1>7. /\ \A y \in Offset : y < d \/ y >= o => c2[y] = c[y]
      /\ c2 \in [Offset -> Cell]
  BY <1>1, <1>2, <1>3, <1>4, <1>5, CopiedCells
<1> HIDE DEF c2
<1>8. ASSUME NEW j \in 0..m, j # i
      PROVE  Entry(c2, Pos(j), nm[Old(k, i, j)], io[Old(k, i, j)], Rec(m, Old(k, i, j)))
  <2> DEFINE h == Old(k, i, j)
  <2>1. Entry(c, Pos(j), nm[h], io[h], Rec(m, h))
    BY DEF Moved
  <2>2. h \in 0..m /\ Size(h) = Size(j)
    <3>1. i <= m /\ j \in Nat /\ j <= m
      BY <1>1
    <3>2. h \in Nat /\ (h <= i \/ h <= j) /\ Size(h) = Size(j)
      BY <3>1, OldIs
    <3>3. QED
      BY <1>1, <3>1, <3>2
  <2> HIDE DEF h
  <2>3. Cells(Length(nm[h])) = Size(j) - 2
    BY <2>2, EntryParts
  <2>4. Pos(j) \in Nat /\ Size(j) \in Nat /\ Size(j) >= 3 /\ Pos(j) + Size(j) <= BlockCells
    BY EntryPlace
  <2>5. Pos(j) + Size(j) <= d \/ o <= Pos(j)
    <3>1. CASE j < i
      BY <1>1, <3>1, PosLess DEF d
    <3>2. CASE j = i + 1
      BY <1>2, <3>2 DEF o
    <3>3. CASE i + 1 < j
      <4>1. j \in Nat /\ i + 1 \in Nat
        BY <1>1
      <4>2. o < Pos(j)
        BY <3>3, <4>1, PosOrder DEF o
      <4>3. QED
        BY <1>2, <2>4, <4>2
    <3>4. QED
      BY <1>1, <1>8, <3>1, <3>2, <3>3
  <2>6. \A y \in Pos(j)..(Pos(j) + Size(j) - 1) : y \in Offset /\ (y < d \/ y >= o)
    <3>1. \A y \in Pos(j)..(Pos(j) + Size(j) - 1) : y \in Offset
      BY <1>1, <2>4 DEF Offset
    <3>2. \A y \in Pos(j)..(Pos(j) + Size(j) - 1) : y < d \/ y >= o
      BY <1>2, <2>4, <2>5
    <3>3. QED
      BY <3>1, <3>2
  <2>7. \A y \in Pos(j)..(Pos(j) + Size(j) - 1) : c2[y] = c[y]
    BY <1>7, <2>6
  <2>8. Entry(c2, Pos(j), nm[h], io[h], Rec(m, h))
    BY <2>1, <2>3, <2>4, <2>7, EntryWhole
  <2>9. QED
    BY <2>8 DEF h
<1>9. ASSUME NEW j \in 0..m
      PROVE  Entry(c2, Pos(j), nm[Old(k, i + 1, j)], io[Old(k, i + 1, j)],
                   Rec(m, Old(k, i + 1, j)))
  <2>1. CASE j = i
    <3>1. Old(k, i + 1, j) = i + 1
      BY <2>1 DEF Old
    <3>2. QED
      BY <1>6, <2>1, <3>1 DEF d
  <2>2. CASE j # i
    <3>1. Old(k, i + 1, j) = Old(k, i, j)
      BY <1>1, <2>2 DEF Old
    <3>2. QED
      BY <1>8, <2>2, <3>1
  <2>3. QED
    BY <2>1, <2>2
<1>10. rec_len(c2, o) = Rec(m, i + 1)
  <2>1. o + 1 \in Offset
    BY <1>1, <1>2 DEF Offset
  <2>2. c2[o + 1] = c[o + 1]
    BY <1>2, <1>7, <2>1
  <2>3. c2[o + 1] = LENS(Rec(m, i + 1), Length(nm[i + 1]))
    BY <1>4, <2>2 DEF Entry
  <2>4. QED
    BY <2>3, LensNotZero, CellParts DEF rec_len
<1>11. Moved(c2, m, nm, io, k, i + 1)
  BY <1>7, <1>9 DEF Moved
<1>12. QED
  BY <1>10, <1>11 DEF c2, d, o

\* States of the loop, on its way and at its end.
Going(c, prev, dp) == Loop(c, prev, dp, FALSE)
Ended(c, prev, dp) == Loop(c, prev, dp, TRUE)

LEMMA ShiftIs ==
  ASSUME OneLength, NEW m, NEW nm, NEW io, Entries(m, nm, io),
         NEW k \in Nat, k >= 2, NEW i \in Nat, k <= i, i < m,
         NEW c, Moved(c, m, nm, io, k, i)
  PROVE  /\ i + 1 = m => Shift(Going(c, Pos(i), Pos(i + 1)))
              = Ended(Copied(c, Pos(i), Pos(i + 1)), Pos(i), Pos(i + 1))
         /\ i + 1 # m => Shift(Going(c, Pos(i), Pos(i + 1)))
              = Going(Copied(c, Pos(i), Pos(i + 1)), Pos(i + 1), Pos(i + 2))
<1> DEFINE s  == Going(c, Pos(i), Pos(i + 1))
           c2 == Copied(c, Pos(i), Pos(i + 1))
           cp == Pos(i + 1) + rec_len(c2, Pos(i + 1))
<1>1. s.buf = c /\ s.prev = Pos(i) /\ s.dp = Pos(i + 1)
  BY DEF Going, Loop
<1>2. Shift(s) = IF cp >= BlockCells
                 THEN Ended(c2, Pos(i), Pos(i + 1))
                 ELSE Going(c2, Pos(i + 1), cp)
  BY <1>1 DEF Shift, Copied, Going, Ended
<1>3. rec_len(c2, Pos(i + 1)) = Rec(m, i + 1)
  BY MovedOn
<1> HIDE DEF s, c2
<1>6. m \in Nat /\ i + 1 \in 0..m /\ i + 1 \in Nat /\ BlockCells \in Nat
  BY DirAssumption DEF Entries
<1>7. Pos(i + 1) + Rec(m, i + 1) = IF i + 1 = m THEN BlockCells ELSE Pos(i + 1 + 1)
  BY <1>6, EntryPlace
<1>8. i + 1 # m => Pos(i + 2) < BlockCells
  <2>1. SUFFICES ASSUME i + 1 # m PROVE Pos(i + 2) < BlockCells
    OBVIOUS
  <2>2. i + 2 \in 0..m
    BY <1>6, <2>1
  <2>3. Pos(i + 2) \in Nat /\ Size(i + 2) \in Nat /\ Size(i + 2) >= 3
        /\ Pos(i + 2) + Size(i + 2) <= BlockCells
    BY <2>2, EntryPlace
  <2>4. QED
    BY <1>6, <2>3
<1>9. i + 1 + 1 = i + 2
  OBVIOUS
<1>10. CASE i + 1 = m
  <2>1. cp >= BlockCells
    BY <1>3, <1>6, <1>7, <1>10
  <2>2. QED
    BY <1>2, <1>10, <2>1 DEF s, c2
<1>11. CASE i + 1 # m
  <2>1. cp = Pos(i + 2)
    BY <1>3, <1>7, <1>9, <1>11
  <2>2. Pos(i + 2) \in Nat
    BY <1>6, PosNext
  <2>3. ~(cp >= BlockCells)
    BY <1>6, <1>8, <1>11, <2>1, <2>2
  <2>4. Shift(s) = Going(c2, Pos(i + 1), cp)
    BY <1>2, <2>3
  <2>5. QED
    BY <1>11, <2>1, <2>4 DEF s, c2
<1>12. QED
  BY <1>10, <1>11

\* The loop from state a on, with its turns.
Turn(s) == IF s.done THEN s ELSE Shift(s)

Loops(a, n, f) == f = [t \in 0..n |-> IF t = 0 THEN a ELSE Turn(f[t - 1])]

LEMMA LoopsExist ==
  ASSUME NEW a, NEW n \in Nat
  PROVE  \E f : Loops(a, n, f)
<1> DEFINE S == {l \in Nat : ~\E f : Loops(a, l, f)}
<1>1. SUFFICES ASSUME S # {} PROVE FALSE
  OBVIOUS
<1>2. PICK m \in S : \A l \in S : m <= l
  <2>1. S \in SUBSET Nat
    OBVIOUS
  <2> HIDE DEF S
  <2>2. QED
    BY <1>1, <2>1, Least
<1>3. m \in Nat /\ ~\E f : Loops(a, m, f)
  OBVIOUS
<1>4. CASE m = 0
  <2> DEFINE w == [t \in 0..0 |-> a]
  <2>1. w = [t \in 0..0 |-> IF t = 0 THEN a ELSE Turn(w[t - 1])]
    OBVIOUS
  <2> HIDE DEF w
  <2>2. Loops(a, 0, w)
    BY <2>1 DEF Loops
  <2>3. QED
    BY <1>3, <1>4, <2>2
<1>5. CASE m # 0
  <2>1. m - 1 \in Nat /\ ~(m <= m - 1)
    BY <1>3, <1>5
  <2>2. m - 1 \notin S
    <3> HIDE DEF S
    <3>1. QED
      BY <1>2, <2>1
  <2>3. PICK g : Loops(a, m - 1, g)
    BY <2>1, <2>2
  <2> DEFINE At(t) == IF t = 0 THEN a ELSE Turn(g[t - 1])
             w == [t \in 0..m |-> At(t)]
  <2>4. \A t \in 0..(m - 1) : g[t] = At(t)
    BY <2>3 DEF Loops
  <2>5. \A t \in 0..(m - 1) : w[t] = g[t]
    BY <2>1, <2>4
  <2>6. \A t \in 0..m : t # 0 => t - 1 \in 0..(m - 1)
    BY <1>3
  <2>7. \A t \in 0..m : At(t) = IF t = 0 THEN a ELSE Turn(w[t - 1])
    <3> HIDE DEF w
    <3>1. QED
      BY <2>5, <2>6
  <2>8. Loops(a, m, w)
    <3>1. w = [t \in 0..m |-> At(t)]
      OBVIOUS
    <3> HIDE DEF w
    <3>2. QED
      BY <2>7, <3>1 DEF Loops
  <2> HIDE DEF w
  <2>9. QED
    BY <1>3, <2>8
<1>6. QED
  BY <1>4, <1>5

\* After t turns.  The last turn of all leaves prev and dp where they are.
LoopAt(s, m, nm, io, k, t) ==
  \E c : IF k + t < m
         THEN s = Going(c, Pos(k + t), Pos(k + t + 1)) /\ Moved(c, m, nm, io, k, k + t)
         ELSE s = Ended(c, Pos(m - 1), Pos(m)) /\ Moved(c, m, nm, io, k, m)

LEMMA TurnAt ==
  ASSUME OneLength, NEW m, NEW nm, NEW io, Entries(m, nm, io),
         NEW k \in Nat, k >= 2, NEW t \in Nat, NEW s, LoopAt(s, m, nm, io, k, t)
  PROVE  LoopAt(Turn(s), m, nm, io, k, t + 1)
<1>1. m \in Nat
  BY DEF Entries
<1>2. CASE k + t < m
  <2> DEFINE i == k + t
  <2>1. PICK c : s = Going(c, Pos(i), Pos(i + 1)) /\ Moved(c, m, nm, io, k, i)
    BY <1>2 DEF LoopAt
  <2>2. i \in Nat /\ k <= i /\ i < m /\ k + (t + 1) = i + 1 /\ i + 1 + 1 = i + 2
    BY <1>2
  <2> DEFINE c2 == Copied(c, Pos(i), Pos(i + 1))
  <2> HIDE DEF i
  <2>3. Turn(s) = Shift(s)
    BY <2>1 DEF Turn, Going, Ended, Loop
  <2>4. /\ i + 1 = m => Shift(s) = Ended(c2, Pos(i), Pos(i + 1))
        /\ i + 1 # m => Shift(s) = Going(c2, Pos(i + 1), Pos(i + 2))
    BY <2>1, <2>2, ShiftIs
  <2>5. Moved(c2, m, nm, io, k, i + 1)
    BY <2>1, <2>2, MovedOn
  <2> HIDE DEF c2
  <2>6. CASE i + 1 = m
    <3>1. i = m - 1 /\ ~(k + (t + 1) < m)
      BY <1>1, <2>2, <2>6
    <3>2. Turn(s) = Ended(c2, Pos(m - 1), Pos(m)) /\ Moved(c2, m, nm, io, k, m)
      BY <2>3, <2>4, <2>5, <2>6, <3>1
    <3>3. QED
      BY <3>1, <3>2 DEF LoopAt
  <2>7. CASE i + 1 # m
    <3>1. k + (t + 1) < m
      BY <1>1, <2>2, <2>7
    <3>2. Turn(s) = Going(c2, Pos(k + (t + 1)), Pos(k + (t + 1) + 1))
      BY <2>2, <2>3, <2>4, <2>7
    <3>3. Moved(c2, m, nm, io, k, k + (t + 1))
      BY <2>2, <2>5
    <3>4. QED
      BY <3>1, <3>2, <3>3 DEF LoopAt
  <2>8. QED
    BY <2>6, <2>7
<1>3. CASE ~(k + t < m)
  <2>1. PICK c : s = Ended(c, Pos(m - 1), Pos(m)) /\ Moved(c, m, nm, io, k, m)
    BY <1>3 DEF LoopAt
  <2>2. Turn(s) = s
    BY <2>1 DEF Turn, Going, Ended, Loop
  <2>3. ~(k + (t + 1) < m)
    BY <1>1, <1>3
  <2>4. QED
    BY <2>1, <2>2, <2>3 DEF LoopAt
<1>4. QED
  BY <1>2, <1>3

LEMMA LoopsAt ==
  ASSUME OneLength, NEW m, NEW nm, NEW io, Entries(m, nm, io),
         NEW k \in Nat, k >= 2, NEW a, LoopAt(a, m, nm, io, k, 0),
         NEW n \in Nat, NEW f, Loops(a, n, f)
  PROVE  LoopAt(f[n], m, nm, io, k, n)
<1> DEFINE S == {t \in 0..n : ~LoopAt(f[t], m, nm, io, k, t)}
<1>1. SUFFICES ASSUME S # {} PROVE FALSE
  OBVIOUS
<1>2. PICK l \in S : \A t \in S : l <= t
  <2>1. S \in SUBSET Nat
    OBVIOUS
  <2> HIDE DEF S
  <2>2. QED
    BY <1>1, <2>1, Least
<1>3. l \in 0..n /\ l \in Nat /\ ~LoopAt(f[l], m, nm, io, k, l)
  OBVIOUS
<1>4. CASE l = 0
  <2>1. f[0] = a
    BY <1>3, <1>4 DEF Loops
  <2>2. QED
    BY <1>3, <1>4, <2>1
<1>5. CASE l # 0
  <2>1. l - 1 \in 0..n /\ l - 1 \in Nat /\ l - 1 + 1 = l /\ ~(l <= l - 1)
    BY <1>3, <1>5
  <2>2. l - 1 \notin S
    <3> HIDE DEF S
    <3>1. QED
      BY <1>2, <2>1
  <2>3. LoopAt(f[l - 1], m, nm, io, k, l - 1)
    BY <2>1, <2>2
  <2>4. f[l] = Turn(f[l - 1])
    BY <1>3, <1>5 DEF Loops
  <2>5. LoopAt(Turn(f[l - 1]), m, nm, io, k, l - 1 + 1)
    <3> DEFINE s == f[l - 1]
    <3>1. LoopAt(s, m, nm, io, k, l - 1)
      BY <2>3
    <3> HIDE DEF s
    <3>2. LoopAt(Turn(s), m, nm, io, k, l - 1 + 1)
      BY <2>1, <3>1, TurnAt
    <3>3. QED
      BY <3>2 DEF s
  <2>6. QED
    BY <1>3, <2>1, <2>4, <2>5
<1>6. QED
  BY <1>4, <1>5

\* Where the loop of rm_child ends.
LEMMA ShiftingEnds ==
  ASSUME OneLength, NEW b, NEW m, NEW nm, NEW io, Laid(b, m, nm, io),
         NEW k \in Nat, k >= 2, k < m
  PROVE  \E c : /\ Moved(c, m, nm, io, k, m)
                /\ RemoveMiddle(b, Pos(k), Pos(k + 1))
                     = Clear(Grow(c, Pos(m - 1), rec_len(b, Pos(k))), Pos(m))
<1> DEFINE a    == Going(b, Pos(k), Pos(k + 1))
           loop == CHOOSE f : Loops(a, MaxEntries, f)
           end  == loop[MaxEntries]
<1>1. Entries(m, nm, io) /\ m \in Nat /\ b \in [Offset -> Cell]
  BY DEF Laid, Entries
<1>2. RemoveMiddle(b, Pos(k), Pos(k + 1))
        = Clear(Grow(end.buf, end.prev, rec_len(b, Pos(k))), end.dp)
  BY DEF RemoveMiddle, Loops, Turn, Going
<1>3. Moved(b, m, nm, io, k, k)
  <2>1. \A j \in 0..m : Old(k, k, j) = j
    BY DEF Old
  <2>2. QED
    BY <1>1, <2>1 DEF Moved, Laid
<1>4. LoopAt(a, m, nm, io, k, 0)
  <2>1. k + 0 = k /\ k + 0 < m
    OBVIOUS
  <2>2. QED
    BY <1>3, <2>1 DEF LoopAt
<1> HIDE DEF a
<1>5. Loops(a, MaxEntries, loop)
  BY MaxEntriesNat, LoopsExist
<1> HIDE DEF loop
<1>6. LoopAt(end, m, nm, io, k, MaxEntries)
  BY <1>1, <1>4, <1>5, MaxEntriesNat, LoopsAt
<1> HIDE DEF end
<1>7. ~(k + MaxEntries < m)
  BY <1>1, EntriesFit, MaxEntriesNat
<1>8. PICK c : end = Ended(c, Pos(m - 1), Pos(m)) /\ Moved(c, m, nm, io, k, m)
  BY <1>6, <1>7 DEF LoopAt
<1>9. end.buf = c /\ end.prev = Pos(m - 1) /\ end.dp = Pos(m)
  BY <1>8 DEF Ended, Loop
<1>10. QED
  BY <1>2, <1>8, <1>9

(***************************************************************************)
(* What rm_child does in the end, in both cases: entry p becomes the last, *)
(* and the entry behind it is cleared.                                     *)
(***************************************************************************)
WithLens(b, o, c) == [b EXCEPT ![o + 1] = c]

LEMMA ClosedCells ==
  ASSUME NEW b \in [Offset -> Cell], NEW d \in Nat, NEW o \in Nat, d + 3 <= o,
         o + 3 <= BlockCells, NEW len, NEW x \in Names, NEW r \in 0..BlockCells,
         Grow(b, d, len) = WithLens(b, d, LENS(r, Length(x)))
  PROVE  /\ Clear(Grow(b, d, len), o) \in [Offset -> Cell]
         /\ Clear(Grow(b, d, len), o)[d + 1] = LENS(r, Length(x))
         /\ \A y \in Offset : y < o /\ y # d + 1 => Clear(Grow(b, d, len), o)[y] = b[y]
<1> DEFINE b1 == Grow(b, d, len)
           b2 == [b1 EXCEPT ![o] = ZERO]
           b3 == [b2 EXCEPT ![o + 1] = LENS(0, 0)]
           b4 == [b3 EXCEPT ![o + 2] = ZERO]
<1>1. BlockCells \in Nat
  BY DirAssumption
<1>2. d + 1 \in Offset /\ o \in Offset /\ o + 1 \in Offset /\ o + 2 \in Offset
  BY <1>1 DEF Offset
<1>3. LENS(r, Length(x)) \in Cell /\ LENS(0, 0) \in Cell /\ ZERO \in Cell
  BY CellIs DEF ZERO
<1>4. b1 = [b EXCEPT ![d + 1] = LENS(r, Length(x))]
  BY DEF WithLens
<1>5. Clear(b1, o) = b4
  BY DEF Clear
<1> HIDE DEF b1
<1>6. b1 \in [Offset -> Cell] /\ b1[d + 1] = LENS(r, Length(x))
  BY <1>2, <1>3, <1>4
<1>7. \A y \in Offset : y # d + 1 => b1[y] = b[y]
  BY <1>4
<1>8. b2 \in [Offset -> Cell] /\ \A y \in Offset : y # o => b2[y] = b1[y]
  BY <1>3, <1>6
<1> HIDE DEF b2
<1>9. b3 \in [Offset -> Cell] /\ \A y \in Offset : y # o + 1 => b3[y] = b2[y]
  BY <1>3, <1>8
<1> HIDE DEF b3
<1>10. b4 \in [Offset -> Cell] /\ \A y \in Offset : y # o + 2 => b4[y] = b3[y]
  BY <1>3, <1>9
<1> HIDE DEF b4
<1>11. ASSUME NEW y \in Offset, y < o PROVE b4[y] = b1[y]
  <2>1. y \in Int /\ y # o /\ y # o + 1 /\ y # o + 2
    BY <1>1, <1>11 DEF Offset
  <2>2. QED
    BY <1>8, <1>9, <1>10, <2>1
<1>12. b4[d + 1] = LENS(r, Length(x))
  BY <1>2, <1>6, <1>11
<1>13. \A y \in Offset : y < o /\ y # d + 1 => b4[y] = b[y]
  BY <1>7, <1>11
<1>14. QED
  BY <1>5, <1>10, <1>12, <1>13 DEF b1

LEMMA ClosedLaid ==
  ASSUME OneLength, NEW p, NEW n2, NEW i2, Entries(p, n2, i2),
         NEW b \in [Offset -> Cell], NEW r \in Nat, NEW len \in Nat,
         Pos(p + 1) + 3 <= BlockCells, r + len = BlockCells - Pos(p),
         Entry(b, Pos(p), n2[p], i2[p], r),
         \A j \in 0..p : j # p => Entry(b, Pos(j), n2[j], i2[j], Size(j))
  PROVE  Laid(Clear(Grow(b, Pos(p), len), Pos(p + 1)), p, n2, i2)
<1> DEFINE d == Pos(p)
           o == Pos(p + 1)
           c == Clear(Grow(b, d, len), o)
<1>1. p \in Nat /\ p \in 0..p /\ BlockCells \in Nat
  BY DirAssumption DEF Entries
<1>2. /\ d \in Nat /\ o \in Nat /\ o = d + Size(p) /\ Size(p) \in Nat /\ Size(p) >= 3
  BY <1>1, PosNext, SizeIs
<1>3. n2[p] \in Names
  BY <1>1, EntryParts
<1>4. b[d + 1] = LENS(r, Length(n2[p]))
  BY DEF Entry
<1>5. rec_len(b, d) = r /\ name_len(b, d) = Length(n2[p])
  BY <1>4, LensNotZero, CellParts DEF rec_len, name_len
<1> HIDE DEF d, o
<1>6. d + 3 <= o /\ o + 3 <= BlockCells /\ rec_len(b, d) + len = BlockCells - d
  BY <1>2, <1>5 DEF d, o
<1>7. BlockCells - d \in 0..BlockCells
  BY <1>1, <1>2, <1>6
<1>8. /\ c \in [Offset -> Cell]
      /\ c[d + 1] = LENS(BlockCells - d, Length(n2[p]))
      /\ \A y \in Offset : y < o /\ y # d + 1 => c[y] = b[y]
  <2>1. Grow(b, d, len) = WithLens(b, d, LENS(BlockCells - d, Length(n2[p])))
    BY <1>5, <1>6 DEF Grow, WithLens
  <2> DEFINE x   == n2[p]
             rec == BlockCells - d
  <2> HIDE DEF x, rec
  <2>2. x \in Names /\ rec \in 0..BlockCells
    BY <1>3, <1>7 DEF x, rec
  <2>3. Grow(b, d, len) = WithLens(b, d, LENS(rec, Length(x)))
    BY <2>1 DEF x, rec
  <2>4. /\ c \in [Offset -> Cell]
        /\ c[d + 1] = LENS(rec, Length(x))
        /\ \A y \in Offset : y < o /\ y # d + 1 => c[y] = b[y]
    BY <1>2, <1>6, <2>2, <2>3, ClosedCells
  <2>5. QED
    BY <2>4 DEF x, rec
<1> HIDE DEF c
<1>9. ASSUME NEW j \in 0..p PROVE Entry(c, Pos(j), n2[j], i2[j], Rec(p, j))
  <2>1. /\ j \in Nat /\ Pos(j) \in Nat /\ Size(j) \in Nat /\ Size(j) >= 3
        /\ Cells(Length(n2[j])) = Size(j) - 2
    BY EntryPlace, EntryParts
  <2>2. CASE j = p
    <3>1. \A y \in d..(d + Size(p) - 1) : y \in Offset /\ y < o
      <4>1. \A y \in d..(d + Size(p) - 1) : y \in Nat /\ y < o
        BY <1>2
      <4>2. o < BlockCells
        BY <1>1, <1>2, <1>6
      <4>3. QED
        BY <1>1, <1>2, <4>1, <4>2 DEF Offset
    <3>2. \A y \in d..(d + Size(p) - 1) : y # d + 1 => c[y] = b[y]
      BY <1>8, <3>1
    <3>3. Entry(b, d, n2[p], i2[p], r)
      BY DEF d
    <3>4. Cells(Length(n2[p])) = Size(p) - 2
      BY <2>1, <2>2
    <3>5. Entry(c, d, n2[p], i2[p], BlockCells - d)
      BY <1>2, <1>8, <3>2, <3>3, <3>4, EntryKept
    <3>6. QED
      BY <2>2, <3>5 DEF Rec, d
  <2>3. CASE j # p
    <3>1. j < p
      BY <1>1, <2>3
    <3>2. Pos(j) + Size(j) <= d
      BY <1>1, <2>1, <3>1, PosLess DEF d
    <3>3. \A y \in Pos(j)..(Pos(j) + Size(j) - 1) : y \in Offset /\ y < o /\ y # d + 1
      <4>1. \A y \in Pos(j)..(Pos(j) + Size(j) - 1) : y \in Nat /\ y < d
        BY <1>2, <2>1, <3>2
      <4>2. d < o /\ o < BlockCells
        BY <1>1, <1>2, <1>6
      <4>3. QED
        BY <1>1, <1>2, <4>1, <4>2 DEF Offset
    <3>4. \A y \in Pos(j)..(Pos(j) + Size(j) - 1) : c[y] = b[y]
      BY <1>8, <3>3
    <3>5. Entry(b, Pos(j), n2[j], i2[j], Size(j))
      BY <2>3
    <3>6. Entry(c, Pos(j), n2[j], i2[j], Size(j))
      BY <2>1, <3>4, <3>5, EntryWhole
    <3>7. QED
      BY <2>3, <3>6 DEF Rec
  <2>4. QED
    BY <2>2, <2>3
<1>10. Laid(c, p, n2, i2)
  BY <1>8, <1>9 DEF Laid
<1>11. QED
  BY <1>10 DEF c, d, o

\* What stays when entry k of 0..m goes.
Dropped(m, k, f) == [j \in 0..(m - 1) |-> f[Old(k, m, j)]]

LEMMA EntriesDropped ==
  ASSUME OneLength, NEW m, NEW nm, NEW io, Entries(m, nm, io),
         NEW k \in Nat, k >= 2, k <= m
  PROVE  Entries(m - 1, Dropped(m, k, nm), Dropped(m, k, io))
<1> DEFINE n2 == Dropped(m, k, nm)
           i2 == Dropped(m, k, io)
<1>1. m \in Nat /\ m - 1 \in Nat /\ m - 1 >= 1 /\ BlockCells \in Nat
  BY DirAssumption DEF Entries
<1>2. \A j \in 0..(m - 1) : n2[j] = nm[Old(k, m, j)] /\ i2[j] = io[Old(k, m, j)]
  BY DEF Dropped
<1> HIDE DEF n2, i2
<1>3. ASSUME NEW j \in 0..(m - 1)
      PROVE  /\ Old(k, m, j) \in 0..m
             /\ j < 2 => Old(k, m, j) = j
             /\ j >= 2 => Old(k, m, j) \in 2..m
  BY <1>1 DEF Old
<1>4. n2[0] = Dot /\ n2[1] = DotDot /\ i2[0] = Self /\ i2[1] = Up
  <2>1. 0 \in 0..(m - 1) /\ 1 \in 0..(m - 1)
    BY <1>1
  <2>2. QED
    BY <1>2, <1>3, <2>1 DEF Entries
<1>5. ASSUME NEW j \in 2..(m - 1) PROVE n2[j] \in Name /\ i2[j] \in Ino
  <2>1. j \in 0..(m - 1) /\ j >= 2
    BY <1>1
  <2>2. Old(k, m, j) \in 2..m
    BY <1>3, <2>1
  <2>3. QED
    BY <1>2, <2>1, <2>2 DEF Entries
<1>6. ASSUME NEW i \in 0..(m - 1), NEW j \in 0..(m - 1), n2[i] = n2[j]
      PROVE  i = j
  <2>1. nm[Old(k, m, i)] = nm[Old(k, m, j)]
    BY <1>2, <1>6
  <2>2. Old(k, m, i) = Old(k, m, j)
    BY <1>3, <2>1 DEF Entries
  <2>3. QED
    BY <1>1, <2>2 DEF Old
<1>7. Pos(m - 1) + Size(m - 1) <= BlockCells
  <2>1. m - 1 \in 0..m
    BY <1>1
  <2>2. QED
    BY <2>1, EntryPlace
<1>8. Entries(m - 1, n2, i2)
  BY <1>1, <1>4, <1>5, <1>6, <1>7 DEF Entries
<1>9. QED
  BY <1>8 DEF n2, i2

LEMMA rm_childIs ==
  ASSUME OneLength, NEW b, NEW m, NEW nm, NEW io, Laid(b, m, nm, io),
         NEW k \in Nat, k >= 2, k <= m
  PROVE  /\ k = m => rm_child(b, nm[k]) = RemoveLast(b, Pos(k - 1), Pos(k))
         /\ k # m => rm_child(b, nm[k]) = RemoveMiddle(b, Pos(k), Pos(k + 1))
<1> DEFINE chain == Chain(b)
           o     == First(Found(b, chain, nm[k]) \ {0})
           prev  == Last({x \in chain : x < o})
           next  == o + rec_len(b, o)
<1>1. rm_child(b, nm[k]) = IF next = BlockCells THEN RemoveLast(b, prev, o)
                           ELSE RemoveMiddle(b, o, next)
  BY DEF rm_child
<1>2. Entries(m, nm, io) /\ m \in Nat /\ k \in 0..m /\ k - 1 \in Nat /\ BlockCells \in Nat
  BY DirAssumption DEF Laid, Entries
<1>3. chain = {Pos(j) : j \in 0..m}
  BY ChainIs
<1>4. Pos(k) \in Nat /\ Pos(k) # 0
  <2>1. 0 < k /\ 0 \in Nat
    OBVIOUS
  <2>2. QED
    BY <2>1, PosOrder, PosFirst
<1>5. o = Pos(k)
  <2>1. nm[k] \in Names
    BY <1>2, EntryParts
  <2>2. Found(b, chain, nm[k]) = {Pos(k)}
    BY <1>2, <2>1, FoundIs
  <2>3. Found(b, chain, nm[k]) \ {0} = {Pos(k)}
    BY <1>4, <2>2
  <2>4. First({Pos(k)}) = Pos(k)
    BY <1>4, FirstOne
  <2>5. QED
    BY <2>3, <2>4
<1> HIDE DEF o, chain
<1>6. prev = Pos(k - 1)
  <2>1. ASSUME NEW j \in 0..m PROVE Pos(j) < Pos(k) <=> j \in 0..(k - 1)
    <3>1. j \in Nat
      BY <1>2
    <3>2. j < k <=> Pos(j) < Pos(k)
      BY <3>1, PosOrder
    <3>3. QED
      BY <1>2, <3>1, <3>2
  <2>2. \A j \in 0..(k - 1) : j \in 0..m
    BY <1>2
  <2>3. {x \in chain : x < o} = {Pos(j) : j \in 0..(k - 1)}
    BY <1>3, <1>5, <2>1, <2>2
  <2>4. QED
    BY <1>2, <2>3, LastBelow
<1> HIDE DEF prev
<1>7. rec_len(b, o) = Rec(m, k)
  BY <1>2, <1>5, EntryReads
<1>8. Pos(k) + Rec(m, k) = IF k = m THEN BlockCells ELSE Pos(k + 1)
  BY <1>2, EntryPlace
<1>9. k = m => next = BlockCells
  BY <1>5, <1>7, <1>8
<1>10. k # m => next = Pos(k + 1) /\ next # BlockCells
  <2>1. SUFFICES ASSUME k # m PROVE next = Pos(k + 1) /\ next # BlockCells
    OBVIOUS
  <2>2. next = Pos(k + 1)
    BY <1>5, <1>7, <1>8, <2>1
  <2>3. k + 1 \in 0..m
    BY <1>2, <2>1
  <2>4. Pos(k + 1) \in Nat /\ Size(k + 1) \in Nat /\ Size(k + 1) >= 3
        /\ Pos(k + 1) + Size(k + 1) <= BlockCells
    BY <1>2, <2>3, EntryPlace
  <2>5. QED
    BY <1>2, <2>2, <2>4
<1> HIDE DEF next
<1>11. QED
  BY <1>1, <1>5, <1>6, <1>9, <1>10

\* rm_child takes an entry out, wherever it is.
LEMMA RemoveLaid ==
  ASSUME OneLength, NEW b, NEW m, NEW nm, NEW io, Laid(b, m, nm, io),
         NEW k \in Nat, k >= 2, k <= m
  PROVE  Laid(rm_child(b, nm[k]), m - 1, Dropped(m, k, nm), Dropped(m, k, io))
<1> DEFINE p  == m - 1
           n2 == Dropped(m, k, nm)
           i2 == Dropped(m, k, io)
<1>1. /\ Entries(m, nm, io) /\ m \in Nat /\ m \in 0..m /\ k \in 0..m /\ BlockCells \in Nat
      /\ p \in Nat /\ p >= 1 /\ p + 1 = m /\ b \in [Offset -> Cell]
  BY DirAssumption DEF Laid, Entries
<1>2. Entries(p, n2, i2)
  BY <1>1, EntriesDropped
<1>3. /\ Pos(m) \in Nat /\ Size(m) \in Nat /\ Size(m) >= 3
      /\ Pos(m) + Size(m) <= BlockCells
  BY <1>1, EntryPlace
<1>4. Pos(p) \in Nat /\ Pos(m) = Pos(p) + Size(p) /\ Size(p) \in Nat
  BY <1>1, PosNext, SizeIs
<1>5. \A j \in 0..p : n2[j] = nm[Old(k, m, j)] /\ i2[j] = io[Old(k, m, j)]
  BY DEF Dropped
<1> HIDE DEF n2, i2
<1>6. CASE k = m
  <2>1. ASSUME NEW j \in 0..p
        PROVE  n2[j] = nm[j] /\ i2[j] = io[j] /\ Entry(b, Pos(j), n2[j], i2[j], Size(j))
    <3>1. Old(k, m, j) = j /\ j \in 0..m /\ j # m
      BY <1>1, <1>6 DEF Old
    <3>2. Rec(m, j) = Size(j)
      BY <3>1 DEF Rec
    <3>3. Entry(b, Pos(j), nm[j], io[j], Rec(m, j))
      BY <3>1 DEF Laid
    <3>4. QED
      BY <1>5, <3>1, <3>2, <3>3
  <2> DEFINE len == BlockCells - Pos(m)
  <2>2. len \in Nat /\ Size(p) + len = BlockCells - Pos(p)
    BY <1>1, <1>3, <1>4
  <2>3. rec_len(b, Pos(m)) = len
    BY LastEntryIs
  <2>4. rm_child(b, nm[k]) = Clear(Grow(b, Pos(p), len), Pos(m))
    BY <1>6, <2>3, rm_childIs DEF RemoveLast
  <2> HIDE DEF len
  <2>5. p \in 0..p /\ Pos(p + 1) + 3 <= BlockCells
    BY <1>1, <1>3
  <2> HIDE DEF p
  <2>6. Laid(Clear(Grow(b, Pos(p), len), Pos(p + 1)), p, n2, i2)
    BY <1>1, <1>2, <1>4, <2>1, <2>2, <2>5, ClosedLaid
  <2>7. QED
    BY <1>1, <2>4, <2>6 DEF p, n2, i2
<1>7. CASE k # m
  <2>1. k < m /\ k <= p
    BY <1>1, <1>7
  <2>2. PICK c : /\ Moved(c, m, nm, io, k, m)
                 /\ RemoveMiddle(b, Pos(k), Pos(k + 1))
                      = Clear(Grow(c, Pos(m - 1), rec_len(b, Pos(k))), Pos(m))
    BY <2>1, ShiftingEnds
  <2>3. rec_len(b, Pos(k)) = Size(k)
    BY <1>1, <1>7, EntryReads DEF Rec
  <2>4. Size(k) = Size(p) /\ Size(k) \in Nat
    BY <1>1, <1>4, <2>1 DEF Size
  <2> DEFINE r == BlockCells - Pos(m)
  <2>5. r \in Nat /\ r + Size(k) = BlockCells - Pos(p)
    BY <1>1, <1>3, <1>4, <2>4
  <2>6. ASSUME NEW j \in 0..p
        PROVE  Entry(c, Pos(j), n2[j], i2[j], Rec(m, Old(k, m, j)))
    <3>1. j \in 0..m
      BY <1>1
    <3>2. QED
      BY <1>5, <2>2, <3>1 DEF Moved
  <2>7. p \in 0..p /\ Rec(m, Old(k, m, p)) = r
    <3>1. Old(k, m, p) = m
      BY <1>1, <2>1 DEF Old
    <3>2. QED
      BY <1>1, <3>1 DEF Rec
  <2>8. ASSUME NEW j \in 0..p, j # p PROVE Rec(m, Old(k, m, j)) = Size(j)
    <3>1. j \in Nat /\ j < p
      BY <1>1, <2>8
    <3>2. Old(k, m, j) # m
      BY <1>1, <3>1 DEF Old
    <3>3. Size(Old(k, m, j)) = Size(j)
      BY <1>1, <3>1, OldIs
    <3>4. QED
      BY <3>2, <3>3 DEF Rec
  <2>9. rm_child(b, nm[k]) = Clear(Grow(c, Pos(p), Size(k)), Pos(m))
    BY <1>7, <2>2, <2>3, rm_childIs
  <2> HIDE DEF r
  <2>10. Pos(p + 1) + 3 <= BlockCells /\ c \in [Offset -> Cell]
    BY <1>1, <1>3, <2>2 DEF Moved
  <2> HIDE DEF p
  <2>11. Entry(c, Pos(p), n2[p], i2[p], r)
    BY <2>6, <2>7
  <2>12. \A j \in 0..p : j # p => Entry(c, Pos(j), n2[j], i2[j], Size(j))
    BY <2>6, <2>8
  <2>13. Laid(Clear(Grow(c, Pos(p), Size(k)), Pos(p + 1)), p, n2, i2)
    BY <1>2, <2>4, <2>5, <2>10, <2>11, <2>12, ClosedLaid
  <2>14. QED
    BY <1>1, <2>9, <2>13 DEF p, n2, i2
<1>8. QED
  BY <1>6, <1>7

(***************************************************************************)
(* The block implements the map.                                           *)
(***************************************************************************)
LEMMA FunctionsSame ==
  ASSUME NEW f, NEW g, f = [x \in DOMAIN f |-> f[x]], g = [x \in DOMAIN g |-> g[x]],
         DOMAIN f = DOMAIN g, \A x \in DOMAIN f : f[x] = g[x]
  PROVE  f = g
OBVIOUS

LEMMA ListedAdded ==
  ASSUME NEW m \in Nat, m >= 1, NEW nm, NEW x
  PROVE  Listed(m + 1, Added(m, nm, x)) = Listed(m, nm) \cup {x}
<1>1. /\ Added(m, nm, x)[m + 1] = x
      /\ \A k \in 2..m : Added(m, nm, x)[k] = nm[k]
  BY DEF Added
<1>2. \A k \in 2..(m + 1) : k \in 2..m \/ k = m + 1
  OBVIOUS
<1>3. m + 1 \in 2..(m + 1) /\ \A k \in 2..m : k \in 2..(m + 1)
  OBVIOUS
<1>4. QED
  BY <1>1, <1>2, <1>3 DEF Listed

WithName(f, x, i) == [y \in DOMAIN f \cup {x} |-> IF y = x THEN i ELSE f[y]]

\* enter_name adds its name to the directory and changes no other.
LEMMA EnterListing ==
  ASSUME OneLength, NEW b, NEW m, NEW nm, NEW io, Laid(b, m, nm, io),
         NEW x \in Name, NEW i \in Ino, \A k \in 0..m : nm[k] # x,
         NEW c, Laid(c, m + 1, Added(m, nm, x), Added(m, io, i))
  PROVE  /\ x \notin DOMAIN ListingOf(b)
         /\ ListingOf(c) = WithName(ListingOf(b), x, i)
<1> DEFINE g == [y \in DOMAIN ListingOf(b) \cup {x} |->
                   IF y = x THEN i ELSE ListingOf(b)[y]]
<1>1. m \in Nat /\ m >= 1
  BY DEF Laid, Entries
<1>2. DOMAIN ListingOf(b) = Listed(m, nm)
  BY ListingIs
<1>3. x \notin Listed(m, nm)
  BY <1>1 DEF Listed
<1>4. DOMAIN ListingOf(c) = Listed(m, nm) \cup {x}
  <2>1. DOMAIN ListingOf(c) = Listed(m + 1, Added(m, nm, x))
    BY ListingIs
  <2>2. Listed(m + 1, Added(m, nm, x)) = Listed(m, nm) \cup {x}
    BY <1>1, ListedAdded
  <2>3. QED
    BY <2>1, <2>2
<1>5. DOMAIN g = Listed(m, nm) \cup {x}
  BY <1>2
<1>6. \A y \in Listed(m, nm) \cup {x} : g[y] = IF y = x THEN i ELSE ListingOf(b)[y]
  BY <1>2
<1>7. ASSUME NEW y \in Listed(m, nm) \cup {x} PROVE ListingOf(c)[y] = g[y]
  <2>1. CASE y = x
    <3>1. m + 1 \in 2..(m + 1) /\ Added(m, nm, x)[m + 1] = x /\ Added(m, io, i)[m + 1] = i
      BY <1>1 DEF Added
    <3>2. ListingOf(c)[Added(m, nm, x)[m + 1]] = Added(m, io, i)[m + 1]
      BY <3>1, ListingIs
    <3>3. QED
      BY <1>6, <2>1, <3>1, <3>2
  <2>2. CASE y # x
    <3>1. PICK k \in 2..m : y = nm[k]
      BY <2>2 DEF Listed
    <3>2. /\ k \in 2..(m + 1)
          /\ Added(m, nm, x)[k] = nm[k] /\ Added(m, io, i)[k] = io[k]
      BY <1>1 DEF Added
    <3>3. ListingOf(c)[Added(m, nm, x)[k]] = Added(m, io, i)[k]
      BY <3>2, ListingIs
    <3>4. ListingOf(b)[nm[k]] = io[k]
      BY ListingIs
    <3>5. QED
      BY <1>6, <2>2, <3>1, <3>2, <3>3, <3>4
  <2>3. QED
    BY <2>1, <2>2
<1>8. g = [y \in DOMAIN g |-> g[y]]
  OBVIOUS
<1> HIDE DEF g
<1>9. ListingOf(c) = [y \in DOMAIN ListingOf(c) |-> ListingOf(c)[y]]
  BY ListingFunction
<1>10. ListingOf(c) = g
  BY <1>4, <1>5, <1>7, <1>8, <1>9, FunctionsSame
<1>11. QED
  BY <1>2, <1>3, <1>10 DEF g, WithName

LEMMA ListedDropped ==
  ASSUME NEW m, NEW nm, NEW io, Entries(m, nm, io), NEW k \in Nat, k >= 2, k <= m
  PROVE  /\ Listed(m - 1, Dropped(m, k, nm)) = Listed(m, nm) \ {nm[k]}
         /\ \A j \in 2..m : j # k =>
              \E i \in 2..(m - 1) : Old(k, m, i) = j
<1>1. m \in Nat /\ m - 1 \in Nat /\ \A i, j \in 0..m : nm[i] = nm[j] => i = j
  BY DEF Entries
<1>2. ASSUME NEW j \in 2..m, j # k
      PROVE  \E i \in 2..(m - 1) : Old(k, m, i) = j
  <2>1. CASE j < k
    <3>1. j \in 2..(m - 1) /\ Old(k, m, j) = j
      BY <1>1, <2>1 DEF Old
    <3>2. QED
      BY <3>1
  <2>2. CASE k < j
    <3>1. j - 1 \in 2..(m - 1) /\ Old(k, m, j - 1) = j
      BY <1>1, <2>2 DEF Old
    <3>2. QED
      BY <3>1
  <2>3. QED
    BY <1>2, <2>1, <2>2
<1>3. ASSUME NEW i \in 2..(m - 1)
      PROVE  /\ Old(k, m, i) \in 2..m /\ Old(k, m, i) # k
             /\ Dropped(m, k, nm)[i] = nm[Old(k, m, i)]
  <2>1. Old(k, m, i) \in 2..m /\ Old(k, m, i) # k
    BY <1>1 DEF Old
  <2>2. i \in 0..(m - 1)
    BY <1>1
  <2>3. QED
    BY <2>1, <2>2 DEF Dropped
<1>4. k \in 0..m /\ \A j \in 2..m : j \in 0..m
  BY <1>1
<1>5. ASSUME NEW y \in Listed(m - 1, Dropped(m, k, nm))
      PROVE  y \in Listed(m, nm) /\ y # nm[k]
  <2>1. PICK i \in 2..(m - 1) : y = Dropped(m, k, nm)[i]
    BY DEF Listed
  <2>2. y = nm[Old(k, m, i)] /\ Old(k, m, i) \in 2..m /\ Old(k, m, i) # k
    BY <1>3, <2>1
  <2>3. QED
    BY <1>1, <1>4, <2>2 DEF Listed
<1>6. ASSUME NEW y \in Listed(m, nm), y # nm[k]
      PROVE  y \in Listed(m - 1, Dropped(m, k, nm))
  <2>1. PICK j \in 2..m : y = nm[j]
    BY DEF Listed
  <2>2. PICK i \in 2..(m - 1) : Old(k, m, i) = j
    BY <1>2, <1>6, <2>1
  <2>3. QED
    BY <1>3, <2>1, <2>2 DEF Listed
<1>7. QED
  BY <1>2, <1>5, <1>6

\* rm_child takes its name from the directory and changes no other.
LEMMA RemoveListing ==
  ASSUME OneLength, NEW b, NEW m, NEW nm, NEW io, Laid(b, m, nm, io),
         NEW k \in Nat, k >= 2, k <= m,
         NEW c, Laid(c, m - 1, Dropped(m, k, nm), Dropped(m, k, io))
  PROVE  /\ nm[k] \in DOMAIN ListingOf(b)
         /\ ListingOf(c) = [y \in DOMAIN ListingOf(b) \ {nm[k]} |-> ListingOf(b)[y]]
<1> DEFINE D == Listed(m, nm) \ {nm[k]}
           g == [y \in DOMAIN ListingOf(b) \ {nm[k]} |-> ListingOf(b)[y]]
<1>1. Entries(m, nm, io) /\ m \in Nat /\ k \in 2..m
  BY DEF Laid, Entries
<1>2. DOMAIN ListingOf(b) = Listed(m, nm)
  BY ListingIs
<1>3. nm[k] \in Listed(m, nm)
  BY <1>1 DEF Listed
<1>4. DOMAIN ListingOf(c) = D
  <2>1. DOMAIN ListingOf(c) = Listed(m - 1, Dropped(m, k, nm))
    BY ListingIs
  <2>2. Listed(m - 1, Dropped(m, k, nm)) = D
    BY <1>1, ListedDropped
  <2>3. QED
    BY <2>1, <2>2
<1>5. DOMAIN g = D /\ \A y \in D : g[y] = ListingOf(b)[y]
  BY <1>2
<1>6. g = [y \in DOMAIN g |-> g[y]]
  OBVIOUS
<1> HIDE DEF g
<1>7. ASSUME NEW y \in D PROVE ListingOf(c)[y] = ListingOf(b)[y]
  <2>1. PICK j \in 2..m : y = nm[j]
    BY DEF Listed
  <2>2. j # k
    BY <1>7, <2>1
  <2>3. PICK i \in 2..(m - 1) : Old(k, m, i) = j
    BY <1>1, <2>2, ListedDropped
  <2>4. Dropped(m, k, nm)[i] = nm[j] /\ Dropped(m, k, io)[i] = io[j]
    <3>1. i \in 0..(m - 1)
      BY <1>1
    <3>2. QED
      BY <2>3, <3>1 DEF Dropped
  <2>5. ListingOf(c)[Dropped(m, k, nm)[i]] = Dropped(m, k, io)[i]
    BY ListingIs
  <2>6. ListingOf(b)[nm[j]] = io[j]
    BY ListingIs
  <2>7. QED
    BY <2>1, <2>4, <2>5, <2>6
<1> HIDE DEF D
<1>8. ListingOf(c) = [y \in DOMAIN ListingOf(c) |-> ListingOf(c)[y]]
  BY ListingFunction
<1>9. \A y \in DOMAIN ListingOf(c) : ListingOf(c)[y] = g[y]
  BY <1>4, <1>5, <1>7
<1>10. ListingOf(c) = g
  BY <1>4, <1>5, <1>6, <1>8, <1>9, FunctionsSame
<1>11. QED
  BY <1>2, <1>3, <1>10 DEF g

(***************************************************************************)
(* Every block mymkdir, enter_name and rm_child make is laid out.          *)
(***************************************************************************)
IsLaid == \E m, nm, io : Laid(buf, m, nm, io)

\* What a step does, by the entries before it.
LEMMA EnterStep ==
  ASSUME OneLength, NEW x \in Name, NEW i \in Ino, Enter(x, i),
         NEW m, NEW nm, NEW io, Laid(buf, m, nm, io)
  PROVE  /\ \A k \in 0..m : nm[k] # x
         /\ Laid(buf', m + 1, Added(m, nm, x), Added(m, io, i))
<1>1. /\ search(buf, x) = 0 /\ remain(buf) >= ideal_length(Length(x))
      /\ buf' = enter_name(buf, x, i)
  BY DEF Enter
<1>2. \A k \in 0..m : nm[k] # x
  BY <1>1, SearchFinds
<1>3. Laid(enter_name(buf, x, i), m + 1, Added(m, nm, x), Added(m, io, i))
  BY <1>1, <1>2, EnterLaid
<1>4. QED
  BY <1>1, <1>2, <1>3

LEMMA RemoveStep ==
  ASSUME OneLength, NEW x \in Name, Remove(x),
         NEW m, NEW nm, NEW io, Laid(buf, m, nm, io)
  PROVE  \E k \in 2..m : /\ nm[k] = x
                         /\ Laid(buf', m - 1, Dropped(m, k, nm), Dropped(m, k, io))
<1>1. search(buf, x) # 0 /\ buf' = rm_child(buf, x)
  BY DEF Remove
<1>2. PICK k \in 2..m : nm[k] = x
  BY <1>1, SearchFinds
<1>3. m \in Nat
  BY DEF Laid, Entries
<1>4. k \in Nat /\ k >= 2 /\ k <= m
  BY <1>3
<1>5. Laid(rm_child(buf, nm[k]), m - 1, Dropped(m, k, nm), Dropped(m, k, io))
  BY <1>4, RemoveLaid
<1>6. QED
  BY <1>1, <1>2, <1>5

LEMMA InitLaid ==
  ASSUME OneLength, Init
  PROVE  IsLaid
<1>1. Laid(buf, 1, [k \in 0..1 |-> IF k = 0 THEN Dot ELSE DotDot],
                   [k \in 0..1 |-> IF k = 0 THEN Self ELSE Up])
  BY FreshLaid DEF Init
<1>2. QED
  BY <1>1 DEF IsLaid

LEMMA NextLaid ==
  ASSUME OneLength, IsLaid, [Next]_buf
  PROVE  IsLaid'
<1>1. PICK m, nm, io : Laid(buf, m, nm, io)
  BY DEF IsLaid
<1>2. ASSUME NEW x \in Name, NEW i \in Ino, Enter(x, i) PROVE IsLaid'
  <2>1. Laid(buf', m + 1, Added(m, nm, x), Added(m, io, i))
    BY <1>1, <1>2, EnterStep
  <2>2. QED
    BY <2>1 DEF IsLaid
<1>3. ASSUME NEW x \in Name, Remove(x) PROVE IsLaid'
  <2>1. PICK k \in 2..m : Laid(buf', m - 1, Dropped(m, k, nm), Dropped(m, k, io))
    BY <1>1, <1>3, RemoveStep
  <2>2. QED
    BY <2>1 DEF IsLaid
<1>4. CASE UNCHANGED buf
  BY <1>1, <1>4 DEF IsLaid
<1>5. QED
  BY <1>2, <1>3, <1>4 DEF Next

LEMMA AlwaysLaid ==
  ASSUME OneLength
  PROVE  Spec => []IsLaid
<1>1. Init => IsLaid
  BY InitLaid
<1>2. IsLaid /\ [Next]_buf => IsLaid'
  BY NextLaid
<1>3. QED
  BY <1>1, <1>2, PTL DEF Spec

\* However names of one length are entered and removed, the block is that of
\* a directory: the entries fill it, each is long enough for its name, and the
\* first two are "." and ".." with the inodes pwd and cd read there.
THEOREM DirectoryCorrect ==
  ASSUME OneLength
  PROVE  Spec => []BlockOK
<1>1. ASSUME IsLaid PROVE BlockOK
  <2>1. PICK m, nm, io : Laid(buf, m, nm, io)
    BY <1>1 DEF IsLaid
  <2>2. TypeOK
    BY <2>1 DEF Laid, TypeOK
  <2>3. WellFormed
    BY <2>1, LaidWellFormed
  <2>4. DotsStay
    BY <2>1, LaidDots
  <2>5. QED
    BY <2>2, <2>3, <2>4 DEF BlockOK
<1>2. QED
  BY <1>1, AlwaysLaid, PTL

\* is_empty, on which rmdir relies, finds a directory empty exactly when
\* search finds no name in it.
THEOREM EmptyFound ==
  ASSUME OneLength
  PROVE  Spec => []EmptyRight
<1>1. ASSUME IsLaid PROVE EmptyRight
  BY <1>1, LaidEmptyRight DEF IsLaid
<1>2. QED
  BY <1>1, AlwaysLaid, PTL

LEMMA InitMaps ==
  ASSUME OneLength, Init
  PROVE  Dir!Init
<1> DEFINE nm == [k \in 0..1 |-> IF k = 0 THEN Dot ELSE DotDot]
           io == [k \in 0..1 |-> IF k = 0 THEN Self ELSE Up]
<1>1. Laid(buf, 1, nm, io)
  BY FreshLaid DEF Init
<1> HIDE DEF nm, io
<1>2. DOMAIN ListingOf(buf) = Listed(1, nm)
  BY <1>1, ListingIs
<1>3. Listed(1, nm) = {}
  BY DEF Listed
<1>4. ListingOf(buf) = [x \in DOMAIN ListingOf(buf) |-> ListingOf(buf)[x]]
  BY ListingFunction
<1> DEFINE e == [x \in {} |-> x]
<1>5. e = [x \in DOMAIN e |-> e[x]] /\ DOMAIN e = {}
  OBVIOUS
<1> HIDE DEF e
<1>6. ListingOf(buf) = e
  BY <1>2, <1>3, <1>4, <1>5, FunctionsSame
<1>7. Listing = ListingOf(buf)
  BY DEF Listing, ListingOf
<1>8. QED
  BY <1>6, <1>7 DEF Dir!Init, e

LEMMA StepMaps ==
  ASSUME OneLength, IsLaid, [Next]_buf
  PROVE  [Dir!Next]_Listing
<1>1. PICK m, nm, io : Laid(buf, m, nm, io)
  BY DEF IsLaid
<1>2. Listing = ListingOf(buf) /\ Listing' = ListingOf(buf')
  BY DEF Listing, ListingOf
<1>3. m \in Nat
  BY <1>1 DEF Laid, Entries
<1>4. ASSUME NEW x \in Name, NEW i \in Ino, Enter(x, i) PROVE Dir!Enter(x, i)
  <2>1. /\ \A k \in 0..m : nm[k] # x
        /\ Laid(buf', m + 1, Added(m, nm, x), Added(m, io, i))
    BY <1>1, <1>4, EnterStep
  <2> DEFINE c == buf'
  <2>2. Laid(c, m + 1, Added(m, nm, x), Added(m, io, i))
    BY <2>1
  <2> HIDE DEF c
  <2>3. /\ x \notin DOMAIN ListingOf(buf)
        /\ ListingOf(c) = WithName(ListingOf(buf), x, i)
    BY <1>1, <2>1, <2>2, EnterListing
  <2>4. QED
    BY <1>2, <2>3 DEF Dir!Enter, WithName, c
<1>5. ASSUME NEW x \in Name, Remove(x) PROVE Dir!Remove(x)
  <2>1. PICK k \in 2..m : /\ nm[k] = x
                          /\ Laid(buf', m - 1, Dropped(m, k, nm), Dropped(m, k, io))
    BY <1>1, <1>5, RemoveStep
  <2>2. k \in Nat /\ k >= 2 /\ k <= m
    BY <1>3
  <2> DEFINE c == buf'
  <2>3. Laid(c, m - 1, Dropped(m, k, nm), Dropped(m, k, io))
    BY <2>1
  <2> HIDE DEF c
  <2>4. /\ nm[k] \in DOMAIN ListingOf(buf)
        /\ ListingOf(c) = [y \in DOMAIN ListingOf(buf) \ {nm[k]} |-> ListingOf(buf)[y]]
    BY <1>1, <2>2, <2>3, RemoveListing
  <2>5. QED
    BY <1>2, <2>1, <2>4 DEF Dir!Remove, c
<1>6. CASE UNCHANGED buf
  <2>1. Listing' = Listing
    BY <1>2, <1>6
  <2>2. QED
    BY <2>1
<1>7. CASE Next
  <2>1. PICK x \in Name : Remove(x) \/ \E i \in Ino : Enter(x, i)
    BY <1>7 DEF Next
  <2>2. CASE Remove(x)
    BY <1>5, <2>2 DEF Dir!Next
  <2>3. CASE \E i \in Ino : Enter(x, i)
    BY <1>4, <2>3 DEF Dir!Next
  <2>4. QED
    BY <2>1, <2>2, <2>3
<1>8. QED
  BY <1>6, <1>7

\* The block of a directory implements a map from names to inodes: entering
\* or removing one name, whether its entry is the last or in the middle,
\* loses, duplicates or redirects no other.
THEOREM DirectoryImplementsMap ==
  ASSUME OneLength
  PROVE  Spec => ImplementsDir
<1>1. Init => Dir!Init
  BY InitMaps
<1>2. IsLaid /\ [Next]_buf => [Dir!Next]_Listing
  BY StepMaps
<1>3. QED
  BY <1>1, <1>2, AlwaysLaid, PTL DEF Spec, ImplementsDir, Dir!Spec

=============================================================================
