--------------------------- MODULE NamespaceProofs ---------------------------
(***************************************************************************)
(* Proofs about Namespace for every set of inodes, of blocks and of paths. *)
(*                                                                         *)
(* A command is a chain of calls, each of which takes a state of the       *)
(* running command and returns the next.  For each call there is a lemma   *)
(* of what it does to the disk, to the cache and to the log (its name ends *)
(* in Is), and the commands are chains of these.                           *)
(***************************************************************************)
EXTENDS Namespace, FiniteSetTheorems, WellFoundedInduction, TLAPS

-----------------------------------------------------------------------------
(***************************************************************************)
(* Types                                                                   *)
(***************************************************************************)
ENTS  == UNION {[N -> Ino] : N \in SUBSET Name}
DIR   == [parent : Ino, ents : ENTS]
DISK  == [imap : SUBSET Ino, bmap : SUBSET Block, itab : [Ino -> INODE],
          dirs : [Block \cup {0} -> DIR]]
SLOT  == [refCount : Nat, dirty : BOOLEAN, INODE : INODE]
CACHE == [Ino -> SLOT]
WRITE == [disk : DISK, cache : CACHE]
RUN   == [disk : DISK, cache : CACHE, log : Seq(WRITE), stale : BOOLEAN,
          blockless : BOOLEAN]

\* A set of natural numbers that is not empty has a least element.
LEMMA Least ==
  ASSUME NEW S \in SUBSET Nat, S # {}
  PROVE  \E n \in S : \A m \in S : n <= m
<1> DEFINE R == {p \in Nat \X Nat : p[1] < p[2]}
<1>1. R = OpToRel(<, Nat)
  BY DEF OpToRel
<1>2. IsWellFoundedOn(R, Nat)
  BY <1>1, NatLessThanWellFounded
<1> HIDE DEF R
<1>3. PICK n \in S : \A m \in S : ~(<<m, n>> \in R)
  BY <1>2, WFMin
<1>4. ASSUME NEW m \in S PROVE n <= m
  <2>1. n \in Nat /\ m \in Nat
    OBVIOUS
  <2>2. ~(m < n)
    BY <1>3, <2>1 DEF R
  <2>3. QED
    BY <2>1, <2>2
<1>5. QED
  BY <1>4

LEMMA RootIs == Root \in Ino /\ 0 \notin Ino /\ 0 \notin Block /\ Ino \subseteq Nat
                /\ Block \subseteq Nat
BY NamespaceAssumption

LEMMA EntsAre ==
  ASSUME NEW N \in SUBSET Name, NEW e \in [N -> Ino]
  PROVE  e \in ENTS /\ DOMAIN e = N
BY DEF ENTS

LEMMA EntsHave ==
  ASSUME NEW e \in ENTS
  PROVE  DOMAIN e \subseteq Name /\ \A x \in DOMAIN e : e[x] \in Ino
BY DEF ENTS

LEMMA LinksIs == LinkMod \in Nat /\ LinkMod > 2
BY DEF LinkMod

LEMMA LinksWrap ==
  ASSUME NEW x \in Int
  PROVE  x % LinkMod \in 0..(LinkMod - 1)
<1> HIDE DEF LinkMod
<1> QED
  BY LinksIs

LEMMA InodesAre ==
  /\ Blank \in INODE /\ Uncached \in SLOT
  /\ \A i \in Ino : EmptyDir(i) \in DIR /\ DOMAIN EmptyDir(i).ents = {}
<1>1. Blank \in INODE
  BY LinksIs DEF Blank, INODE
<1>2. Uncached \in SLOT
  BY <1>1 DEF Uncached, SLOT
<1>3. <<>> \in ENTS /\ DOMAIN <<>> = {}
  BY DEF ENTS
<1>4. QED
  BY <1>1, <1>2, <1>3 DEF EmptyDir, DIR

-----------------------------------------------------------------------------
(***************************************************************************)
(* The calls a command is made of                                          *)
(***************************************************************************)
\* Each write is logged, with the state it leaves.
Logs(m, r) == \/ r.log = m.log
              \/ r.log = Append(m.log, [disk |-> r.disk, cache |-> r.cache])

LEMMA put_blockIs ==
  ASSUME NEW m \in RUN, NEW d \in DISK
  PROVE  /\ put_block(m, d) \in RUN
         /\ put_block(m, d).disk = d /\ put_block(m, d).cache = m.cache
         /\ put_block(m, d).stale = m.stale
         /\ put_block(m, d).blockless = m.blockless
         /\ put_block(m, d).log = Append(m.log, [disk |-> d, cache |-> m.cache])
<1>1. [disk |-> d, cache |-> m.cache] \in WRITE
  BY DEF WRITE, RUN
<1>2. Append(m.log, [disk |-> d, cache |-> m.cache]) \in Seq(WRITE)
  BY <1>1 DEF RUN
<1>3. QED
  BY <1>2 DEF put_block, RUN

LEMMA ViewIs ==
  ASSUME NEW m \in RUN, NEW i \in Ino
  PROVE  View(m, i) \in INODE
BY DEF View, RUN, DISK, CACHE, SLOT

LEMMA igetIs ==
  ASSUME NEW m \in RUN, NEW i \in Ino
  PROVE  /\ iget(m, i) \in RUN
         /\ iget(m, i).disk = m.disk /\ iget(m, i).log = m.log
         /\ iget(m, i).stale = m.stale /\ iget(m, i).blockless = m.blockless
         /\ \A j \in Ino \ {i} : iget(m, i).cache[j] = m.cache[j]
         /\ iget(m, i).cache[i].refCount = m.cache[i].refCount + 1
         /\ iget(m, i).cache[i].INODE = View(m, i)
         /\ m.cache[i].refCount > 0 =>
              iget(m, i).cache[i].dirty = m.cache[i].dirty
<1> DEFINE new == IF m.cache[i].refCount > 0
                  THEN [m.cache[i] EXCEPT !.refCount = @ + 1]
                  ELSE [refCount |-> 1, dirty |-> m.stale, INODE |-> m.disk.itab[i]]
<1>1. m.cache \in [Ino -> SLOT] /\ m.disk.itab[i] \in INODE /\ m.stale \in BOOLEAN
  BY DEF RUN, CACHE, DISK
<1>2. /\ new \in SLOT /\ new.refCount = m.cache[i].refCount + 1
      /\ new.INODE = View(m, i)
      /\ m.cache[i].refCount > 0 => new.dirty = m.cache[i].dirty
  BY <1>1 DEF SLOT, View
<1>3. iget(m, i) = [m EXCEPT !.cache = [m.cache EXCEPT ![i] = new]]
  BY <1>1 DEF iget, RUN
<1> HIDE DEF new
<1>4. [m.cache EXCEPT ![i] = new] \in CACHE
  BY <1>1, <1>2 DEF CACHE
<1>5. QED
  BY <1>1, <1>2, <1>3, <1>4 DEF RUN

\* r is m after a reference to i was put.
Puts(m, i, r) ==
  /\ r \in RUN /\ Logs(m, r)
  /\ r.disk.imap = m.disk.imap /\ r.disk.bmap = m.disk.bmap
  /\ r.disk.dirs = m.disk.dirs
  /\ r.stale = m.stale /\ r.blockless = m.blockless
  /\ \A j \in Ino \ {i} : /\ r.cache[j] = m.cache[j]
                          /\ r.disk.itab[j] = m.disk.itab[j]
  /\ m.cache[i].refCount > 0 => r.cache[i].refCount = m.cache[i].refCount - 1
  /\ m.cache[i].refCount > 1 =>
       /\ r.cache[i].INODE = m.cache[i].INODE
       /\ r.cache[i].dirty = m.cache[i].dirty
       /\ r.disk = m.disk /\ r.log = m.log
  /\ ~(m.cache[i].refCount > 1) =>
       /\ r.cache[i].refCount = 0
       /\ m.cache[i].dirty => r.disk.itab[i] = m.cache[i].INODE
       /\ ~m.cache[i].dirty => r.disk.itab[i] = m.disk.itab[i]

LEMMA iputIs ==
  ASSUME NEW m \in RUN, NEW i \in Ino
  PROVE  Puts(m, i, iput(m, i))
<1> DEFINE c == m.cache[i]
           out == [m EXCEPT !.cache = [m.cache EXCEPT ![i] = Uncached]]
           d == [m.disk EXCEPT !.itab = [m.disk.itab EXCEPT ![i] = c.INODE]]
<1>1. m.cache \in [Ino -> SLOT] /\ m.disk \in DISK /\ c \in SLOT
  BY DEF RUN, CACHE
<1>2. CASE c.refCount > 1
  <2> DEFINE new == [c EXCEPT !.refCount = @ - 1]
  <2>1. iput(m, i) = [m EXCEPT !.cache = [m.cache EXCEPT ![i] = new]]
    BY <1>1, <1>2, SMTT(30) DEF iput, RUN
  <2>2. /\ new \in SLOT /\ new.refCount = c.refCount - 1
        /\ new.INODE = c.INODE /\ new.dirty = c.dirty
    BY <1>1, <1>2 DEF SLOT
  <2> HIDE DEF new, c
  <2>3. [m.cache EXCEPT ![i] = new] \in CACHE
    BY <1>1, <2>2 DEF CACHE
  <2> DEFINE r == iput(m, i)
  <2>4. /\ r \in RUN /\ r.disk = m.disk /\ r.log = m.log /\ r.stale = m.stale
        /\ r.blockless = m.blockless /\ r.cache[i] = new
        /\ \A j \in Ino \ {i} : r.cache[j] = m.cache[j]
    BY <1>1, <2>1, <2>3 DEF RUN
  <2> HIDE DEF r
  <2>5. Logs(m, r)
    BY <2>4 DEF Logs
  <2>6. /\ r.cache[i].refCount = m.cache[i].refCount - 1
        /\ r.cache[i].INODE = m.cache[i].INODE /\ r.cache[i].dirty = m.cache[i].dirty
        /\ m.cache[i].refCount > 1
    BY <1>2, <2>2, <2>4 DEF c
  <2>7. QED
    BY <2>4, <2>5, <2>6 DEF Puts, r
<1>3. CASE ~(c.refCount > 1)
  <2>1. iput(m, i) = IF c.dirty THEN put_block(out, d) ELSE out
    <3>1. [m EXCEPT !.cache[i] = Uncached] = out
      BY DEF RUN
    <3>2. [m.disk EXCEPT !.itab[i] = c.INODE] = d
      BY <1>1 DEF DISK
    <3> HIDE DEF out, d
    <3>3. QED
      BY <1>3, <3>1, <3>2 DEF iput
  <2>2. /\ d \in DISK /\ d.imap = m.disk.imap /\ d.bmap = m.disk.bmap
        /\ d.dirs = m.disk.dirs /\ d.itab[i] = c.INODE
        /\ \A j \in Ino \ {i} : d.itab[j] = m.disk.itab[j]
    BY <1>1 DEF DISK, SLOT
  <2>3. /\ out \in RUN /\ out.disk = m.disk /\ out.log = m.log
        /\ out.stale = m.stale /\ out.blockless = m.blockless
        /\ out.cache[i].refCount = 0
        /\ \A j \in Ino \ {i} : out.cache[j] = m.cache[j]
    BY <1>1, InodesAre DEF RUN, CACHE, Uncached
  <2>4. c.refCount > 0 => c.refCount - 1 = 0
    BY <1>1, <1>3 DEF SLOT
  <2> HIDE DEF out, d, c
  <2>5. CASE c.dirty
    <3> DEFINE r == put_block(out, d)
    <3>1. /\ r \in RUN /\ r.disk = d /\ r.cache = out.cache /\ r.stale = out.stale
          /\ r.blockless = out.blockless
          /\ r.log = Append(out.log, [disk |-> d, cache |-> out.cache])
      BY <2>2, <2>3, put_blockIs
    <3>2. iput(m, i) = r
      BY <2>1, <2>5
    <3> HIDE DEF r
    <3>3. Logs(m, r)
      BY <2>3, <3>1 DEF Logs
    <3>4. Puts(m, i, r)
      BY <1>3, <2>2, <2>3, <2>4, <2>5, <3>1, <3>3 DEF Puts, c
    <3>5. QED
      BY <3>2, <3>4
  <2>6. CASE ~c.dirty
    BY <1>3, <2>1, <2>3, <2>4, <2>6 DEF Logs, c, Puts
  <2>7. QED
    BY <2>5, <2>6
<1>4. QED
  BY <1>2, <1>3

LEMMA StoreIs ==
  ASSUME NEW m \in RUN, NEW i \in Ino, NEW ip \in INODE
  PROVE  /\ Store(m, i, ip) \in RUN
         /\ Store(m, i, ip).disk = m.disk /\ Store(m, i, ip).log = m.log
         /\ Store(m, i, ip).stale = m.stale
         /\ Store(m, i, ip).blockless = m.blockless
         /\ \A j \in Ino \ {i} : Store(m, i, ip).cache[j] = m.cache[j]
         /\ Store(m, i, ip).cache[i].refCount = m.cache[i].refCount
         /\ Store(m, i, ip).cache[i].INODE = ip
         /\ Store(m, i, ip).cache[i].dirty
<1> DEFINE new == [m.cache[i] EXCEPT !.INODE = ip, !.dirty = TRUE]
<1>1. m.cache \in [Ino -> SLOT]
  BY DEF RUN, CACHE
<1>2. new \in SLOT /\ new.refCount = m.cache[i].refCount /\ new.INODE = ip /\ new.dirty
  BY <1>1 DEF SLOT
<1>3. Store(m, i, ip) = [m EXCEPT !.cache = [m.cache EXCEPT ![i] = new]]
  BY <1>1 DEF Store, RUN, SLOT
<1> HIDE DEF new
<1>4. [m.cache EXCEPT ![i] = new] \in CACHE
  BY <1>1, <1>2 DEF CACHE
<1>5. QED
  BY <1>1, <1>2, <1>3, <1>4 DEF RUN

\* Of the disk, a write changes what it is meant to: the four maps.
LEMMA AddLinksIs ==
  ASSUME NEW m \in RUN, NEW i \in Ino, NEW k \in Int
  PROVE  LET ip == m.cache[i].INODE
             r == AddLinks(m, i, k)
         IN /\ r \in RUN /\ r.disk = m.disk /\ r.log = m.log
            /\ r.stale = m.stale /\ r.blockless = m.blockless
            /\ \A j \in Ino \ {i} : r.cache[j] = m.cache[j]
            /\ r.cache[i].refCount = m.cache[i].refCount
            /\ r.cache[i].dirty
            /\ r.cache[i].INODE.type = ip.type /\ r.cache[i].INODE.block = ip.block
            /\ r.cache[i].INODE.links = (ip.links + k) % LinkMod
<1> DEFINE ip == m.cache[i].INODE
           new == [ip EXCEPT !.links = (ip.links + k) % LinkMod]
<1>1. ip \in INODE /\ ip.links \in Int
  BY LinksIs DEF RUN, CACHE, SLOT, INODE
<1>2. (ip.links + k) % LinkMod \in 0..(LinkMod - 1)
  BY <1>1, LinksWrap
<1>3. /\ new \in INODE /\ new.type = ip.type /\ new.block = ip.block
      /\ new.links = (ip.links + k) % LinkMod
  <2> HIDE DEF ip
  <2>1. QED
    BY <1>1, <1>2 DEF INODE
<1>4. AddLinks(m, i, k) = Store(m, i, new)
  BY DEF AddLinks
<1> HIDE DEF new
<1>5. QED
  BY <1>3, <1>4, StoreIs

\* r is m after a write.
Wrote(m, r) ==
  /\ r \in RUN /\ r.cache = m.cache /\ r.stale = m.stale
  /\ r.log = Append(m.log, [disk |-> r.disk, cache |-> r.cache])

LEMMA put_blockWrote ==
  ASSUME NEW m \in RUN, NEW d \in DISK
  PROVE  /\ Wrote(m, put_block(m, d)) /\ put_block(m, d).disk = d
         /\ put_block(m, d).blockless = m.blockless
<1> DEFINE r == put_block(m, d)
<1>1. /\ r \in RUN /\ r.disk = d /\ r.cache = m.cache /\ r.stale = m.stale
      /\ r.blockless = m.blockless
      /\ r.log = Append(m.log, [disk |-> d, cache |-> m.cache])
  BY put_blockIs
<1> HIDE DEF r
<1>2. Wrote(m, r)
  BY <1>1 DEF Wrote
<1>3. QED
  BY <1>1, <1>2 DEF r

LEMMA WroteLogs ==
  ASSUME NEW m, NEW r, Wrote(m, r)
  PROVE  Logs(m, r)
BY DEF Wrote, Logs

\* The same disk but for one of its parts.
OnlyImap(d, e) == e.bmap = d.bmap /\ e.itab = d.itab /\ e.dirs = d.dirs
OnlyBmap(d, e) == e.imap = d.imap /\ e.itab = d.itab /\ e.dirs = d.dirs
OnlyDirs(d, e) == e.imap = d.imap /\ e.bmap = d.bmap /\ e.itab = d.itab

Marks(m, i, r) == /\ Wrote(m, r) /\ OnlyImap(m.disk, r.disk)
                  /\ r.disk.imap = m.disk.imap \cup {i} /\ r.blockless = m.blockless
Frees(m, i, r) == /\ Wrote(m, r) /\ OnlyImap(m.disk, r.disk)
                  /\ r.disk.imap = m.disk.imap \ {i} /\ r.blockless = m.blockless
MarksBlock(m, b, r) ==
                  /\ Wrote(m, r) /\ OnlyBmap(m.disk, r.disk)
                  /\ r.disk.bmap = m.disk.bmap \cup {b} /\ r.blockless = m.blockless
FreesBlock(m, b, r) ==
                  /\ Wrote(m, r) /\ OnlyBmap(m.disk, r.disk)
                  /\ r.disk.bmap = m.disk.bmap \ {b} /\ r.blockless = m.blockless

LEMMA SetImapIs ==
  ASSUME NEW m \in RUN, NEW i \in Ino
  PROVE  Marks(m, i, SetImap(m, i))
<1> DEFINE d == [m.disk EXCEPT !.imap = @ \cup {i}]
<1>1. d \in DISK /\ OnlyImap(m.disk, d) /\ d.imap = m.disk.imap \cup {i}
  BY DEF RUN, DISK, OnlyImap
<1>2. SetImap(m, i) = put_block(m, d)
  BY DEF SetImap
<1> HIDE DEF d
<1>3. QED
  BY <1>1, <1>2, put_blockWrote DEF Marks

LEMMA idallocIs ==
  ASSUME NEW m \in RUN, NEW i \in Ino
  PROVE  Frees(m, i, idalloc(m, i))
<1> DEFINE d == [m.disk EXCEPT !.imap = @ \ {i}]
<1>1. d \in DISK /\ OnlyImap(m.disk, d) /\ d.imap = m.disk.imap \ {i}
  BY DEF RUN, DISK, OnlyImap
<1>2. idalloc(m, i) = put_block(m, d)
  BY DEF idalloc
<1> HIDE DEF d
<1>3. QED
  BY <1>1, <1>2, put_blockWrote DEF Frees

LEMMA SetBmapIs ==
  ASSUME NEW m \in RUN, NEW b \in Block \cup {0}
  PROVE  IF b = 0 THEN SetBmap(m, b) = m ELSE MarksBlock(m, b, SetBmap(m, b))
<1>1. CASE b = 0
  BY <1>1 DEF SetBmap
<1>2. CASE b # 0
  <2> DEFINE d == [m.disk EXCEPT !.bmap = @ \cup {b}]
  <2>1. d \in DISK /\ OnlyBmap(m.disk, d) /\ d.bmap = m.disk.bmap \cup {b}
    BY <1>2 DEF RUN, DISK, OnlyBmap
  <2>2. SetBmap(m, b) = put_block(m, d)
    BY <1>2 DEF SetBmap
  <2> HIDE DEF d
  <2>3. QED
    BY <1>2, <2>1, <2>2, put_blockWrote DEF MarksBlock
<1>3. QED
  BY <1>1, <1>2

LEMMA bdallocIs ==
  ASSUME NEW m \in RUN, NEW b
  PROVE  FreesBlock(m, b, bdalloc(m, b))
<1> DEFINE d == [m.disk EXCEPT !.bmap = @ \ {b}]
<1>1. d \in DISK /\ OnlyBmap(m.disk, d) /\ d.bmap = m.disk.bmap \ {b}
  BY DEF RUN, DISK, OnlyBmap
<1>2. bdalloc(m, b) = put_block(m, d)
  BY DEF bdalloc
<1> HIDE DEF d
<1>3. QED
  BY <1>1, <1>2, put_blockWrote DEF FreesBlock

\* What a directory block has under a name, 0 if it has none.
Found(d, b, nm) ==
  IF b # 0 /\ nm \in DOMAIN d.dirs[b].ents THEN d.dirs[b].ents[nm] ELSE 0

LEMMA FoundIs ==
  ASSUME NEW d \in DISK, NEW b \in Block \cup {0}
  PROVE  /\ \A nm : Found(d, b, nm) \in Ino \cup {0}
         /\ \A nm : Found(d, b, nm) # 0 => nm \in Name /\ b # 0
         /\ b # 0 => \A nm : nm \in DOMAIN d.dirs[b].ents <=> Found(d, b, nm) # 0
         /\ b # 0 => \A nm \in DOMAIN d.dirs[b].ents :
              d.dirs[b].ents[nm] = Found(d, b, nm)
         /\ d.dirs[b].parent \in Ino
<1>1. d.dirs[b].ents \in ENTS /\ d.dirs[b].parent \in Ino
  BY DEF DISK, DIR
<1>2. QED
  BY <1>1, EntsHave, RootIs DEF Found

LEMMA searchIs ==
  ASSUME NEW m, NEW i, NEW nm
  PROVE  search(m, i, nm) = Found(m.disk, View(m, i).block, nm)
BY DEF search, Found

LEMMA FreeIs ==
  ASSUME NEW m \in RUN
  PROVE  /\ FreeIno(m) \in (Ino \ m.disk.imap) \cup {0}
         /\ FreeBlock(m) \in (Block \ m.disk.bmap) \cup {0}
<1>1. ASSUME NEW S \in SUBSET Nat, S # {} PROVE First(S) \in S
  <2>1. PICK n \in S : \A k \in S : n <= k
    BY <1>1, Least
  <2>2. QED
    BY <2>1 DEF First
<1>2. QED
  BY <1>1, RootIs DEF FreeIno, FreeBlock, First

\* The entries of a block are changed, under one name.
Renames(m, b, nm, x, r) ==
  /\ Wrote(m, r) /\ OnlyDirs(m.disk, r.disk)
  /\ \A c \in Block : /\ r.disk.dirs[c].parent = m.disk.dirs[c].parent
                      /\ \A n \in Name : Found(r.disk, c, n) =
                           IF c = b /\ n = nm THEN x ELSE Found(m.disk, c, n)

LEMMA EntsWritten ==
  ASSUME NEW m \in RUN, NEW b \in Block \cup {0}, NEW e \in ENTS
  PROVE  LET d == [m.disk EXCEPT !.dirs[b].ents = e]
         IN /\ d \in DISK /\ OnlyDirs(m.disk, d)
            /\ d.dirs[b].ents = e
            /\ \A c \in Block \cup {0} : /\ d.dirs[c].parent = m.disk.dirs[c].parent
                                         /\ c # b => d.dirs[c] = m.disk.dirs[c]
<1>1. m.disk \in DISK /\ m.disk.dirs \in [Block \cup {0} -> DIR]
  BY DEF RUN, DISK
<1> DEFINE new == [m.disk.dirs[b] EXCEPT !.ents = e]
           d == [m.disk EXCEPT !.dirs = [m.disk.dirs EXCEPT ![b] = new]]
<1>2. new \in DIR /\ new.ents = e /\ new.parent = m.disk.dirs[b].parent
  BY <1>1 DEF DIR
<1>3. [m.disk EXCEPT !.dirs[b].ents = e] = d
  BY <1>1 DEF DISK
<1> HIDE DEF new
<1>4. [m.disk.dirs EXCEPT ![b] = new] \in [Block \cup {0} -> DIR]
  BY <1>1, <1>2
<1>5. d \in DISK /\ OnlyDirs(m.disk, d)
  BY <1>1, <1>4 DEF DISK, OnlyDirs
<1>6. d.dirs = [m.disk.dirs EXCEPT ![b] = new]
  BY <1>1 DEF DISK
<1> HIDE DEF d
<1>7. QED
  BY <1>1, <1>2, <1>3, <1>5, <1>6

LEMMA enter_nameIs ==
  ASSUME NEW m \in RUN, NEW pino \in Ino, NEW ino \in Ino, NEW nm \in Name
  PROVE  LET b == m.cache[pino].INODE.block
             r == enter_name(m, pino, ino, nm)
         IN Renames(m, b, nm, ino, r) /\ r.blockless = (m.blockless \/ b = 0)
<1> DEFINE b == m.cache[pino].INODE.block
           ents == m.disk.dirs[b].ents
           new == [x \in DOMAIN ents \cup {nm} |-> IF x = nm THEN ino ELSE ents[x]]
           d == [m.disk EXCEPT !.dirs[b].ents = new]
           q == put_block(m, d)
           r == [q EXCEPT !.blockless = @ \/ b = 0]
<1>1. b \in Block \cup {0} /\ ents \in ENTS
  BY DEF RUN, DISK, CACHE, SLOT, INODE, DIR
<1>2. DOMAIN ents \in SUBSET Name /\ \A x \in DOMAIN ents : ents[x] \in Ino
  BY <1>1, EntsHave
<1>3. new \in ENTS /\ DOMAIN new = DOMAIN ents \cup {nm}
      /\ \A x \in DOMAIN new : new[x] = IF x = nm THEN ino ELSE ents[x]
  <2> HIDE DEF ents
  <2>1. new \in [DOMAIN ents \cup {nm} -> Ino] /\ DOMAIN ents \cup {nm} \in SUBSET Name
    BY <1>2
  <2>2. QED
    BY <2>1, EntsAre
<1> HIDE DEF new
<1>4. /\ d \in DISK /\ OnlyDirs(m.disk, d) /\ d.dirs[b].ents = new
      /\ \A c \in Block \cup {0} : /\ d.dirs[c].parent = m.disk.dirs[c].parent
                                   /\ c # b => d.dirs[c] = m.disk.dirs[c]
  <2> HIDE DEF b
  <2>1. QED
    BY <1>1, <1>3, EntsWritten
<1>5. enter_name(m, pino, ino, nm) = r
  BY DEF enter_name, new
<1> HIDE DEF d
<1>6. Wrote(m, q) /\ q.disk = d /\ q.blockless = m.blockless
  BY <1>4, put_blockWrote
<1> HIDE DEF q
<1>7. /\ r \in RUN /\ r.disk = q.disk /\ r.cache = q.cache /\ r.log = q.log
      /\ r.stale = q.stale /\ r.blockless = (m.blockless \/ b = 0)
  BY <1>6 DEF Wrote, RUN
<1> HIDE DEF r
<1>8. Wrote(m, r)
  BY <1>6, <1>7 DEF Wrote
<1>9. ASSUME NEW c \in Block, NEW n \in Name
      PROVE  Found(d, c, n) = IF c = b /\ n = nm THEN ino ELSE Found(m.disk, c, n)
  <2> HIDE DEF b
  <2>1. CASE c # b
    BY <1>4, <2>1 DEF Found
  <2>2. CASE c = b
    BY <1>3, <1>4, <2>2, RootIs DEF Found
  <2>3. QED
    BY <2>1, <2>2
<1>10. Renames(m, b, nm, ino, r)
  BY <1>4, <1>6, <1>7, <1>8, <1>9 DEF Renames
<1>11. QED
  BY <1>5, <1>7, <1>10

LEMMA rm_childIs ==
  ASSUME NEW m \in RUN, NEW pino \in Ino, NEW nm \in Name
  PROVE  /\ Renames(m, m.cache[pino].INODE.block, nm, 0, rm_child(m, pino, nm))
         /\ rm_child(m, pino, nm).blockless = m.blockless
<1> DEFINE b == m.cache[pino].INODE.block
           ents == m.disk.dirs[b].ents
           new == [x \in DOMAIN ents \ {nm} |-> ents[x]]
           d == [m.disk EXCEPT !.dirs[b].ents = new]
           r == put_block(m, d)
<1>1. b \in Block \cup {0} /\ ents \in ENTS
  BY DEF RUN, DISK, CACHE, SLOT, INODE, DIR
<1>2. DOMAIN ents \in SUBSET Name /\ \A x \in DOMAIN ents : ents[x] \in Ino
  BY <1>1, EntsHave
<1>3. new \in ENTS /\ DOMAIN new = DOMAIN ents \ {nm}
      /\ \A x \in DOMAIN new : new[x] = ents[x]
  <2> HIDE DEF ents
  <2>1. new \in [DOMAIN ents \ {nm} -> Ino] /\ DOMAIN ents \ {nm} \in SUBSET Name
    BY <1>2
  <2>2. QED
    BY <2>1, EntsAre
<1> HIDE DEF new
<1>4. /\ d \in DISK /\ OnlyDirs(m.disk, d) /\ d.dirs[b].ents = new
      /\ \A c \in Block \cup {0} : /\ d.dirs[c].parent = m.disk.dirs[c].parent
                                   /\ c # b => d.dirs[c] = m.disk.dirs[c]
  <2> HIDE DEF b
  <2>1. QED
    BY <1>1, <1>3, EntsWritten
<1>5. rm_child(m, pino, nm) = r
  BY DEF rm_child, new
<1> HIDE DEF d
<1>6. Wrote(m, r) /\ r.disk = d /\ r.blockless = m.blockless
  BY <1>4, put_blockWrote
<1> HIDE DEF r
<1>7. ASSUME NEW c \in Block, NEW n \in Name
      PROVE  Found(d, c, n) = IF c = b /\ n = nm THEN 0 ELSE Found(m.disk, c, n)
  <2> HIDE DEF b
  <2>1. CASE c # b
    BY <1>4, <2>1 DEF Found
  <2>2. CASE c = b
    BY <1>3, <1>4, <2>2, RootIs DEF Found
  <2>3. QED
    BY <2>1, <2>2
<1>8. Renames(m, b, nm, 0, r)
  BY <1>4, <1>6, <1>7 DEF Renames
<1>9. QED
  BY <1>5, <1>6, <1>8

LEMMA EmptyDirIs ==
  ASSUME NEW m \in RUN, NEW b \in Block, NEW pino \in Ino
  PROVE  LET r == put_block(m, [m.disk EXCEPT !.dirs[b] = EmptyDir(pino)])
         IN /\ Wrote(m, r) /\ OnlyDirs(m.disk, r.disk) /\ r.blockless = m.blockless
            /\ \A c \in Block : \A nm : Found(r.disk, c, nm) =
                 IF c = b THEN 0 ELSE Found(m.disk, c, nm)
            /\ \A c \in Block : r.disk.dirs[c].parent =
                 IF c = b THEN pino ELSE m.disk.dirs[c].parent
<1> DEFINE d == [m.disk EXCEPT !.dirs[b] = EmptyDir(pino)]
           r == put_block(m, d)
<1>1. m.disk \in DISK /\ b \in Block \cup {0} /\ EmptyDir(pino) \in DIR
      /\ DOMAIN EmptyDir(pino).ents = {} /\ EmptyDir(pino).parent = pino
  BY InodesAre DEF RUN, EmptyDir
<1>2. /\ d \in DISK /\ OnlyDirs(m.disk, d) /\ d.dirs[b] = EmptyDir(pino)
      /\ \A c \in Block : c # b => d.dirs[c] = m.disk.dirs[c]
  BY <1>1 DEF DISK, OnlyDirs
<1> HIDE DEF d
<1>3. Wrote(m, r) /\ r.disk = d /\ r.blockless = m.blockless
  BY <1>2, put_blockWrote
<1> HIDE DEF r
<1>4. ASSUME NEW c \in Block
      PROVE  /\ \A nm : Found(d, c, nm) = IF c = b THEN 0 ELSE Found(m.disk, c, nm)
             /\ d.dirs[c].parent = IF c = b THEN pino ELSE m.disk.dirs[c].parent
  <2>1. CASE c # b
    BY <1>2, <2>1 DEF Found
  <2>2. CASE c = b
    BY <1>1, <1>2, <2>2 DEF Found
  <2>3. QED
    BY <2>1, <2>2
<1>5. QED
  BY <1>2, <1>3, <1>4 DEF r, d

-----------------------------------------------------------------------------
(***************************************************************************)
(* Walking a path                                                          *)
(***************************************************************************)
\* w has what getino has found after each of the names of p.
Walks(m, p, w) ==
  w = [k \in 0..Len(p) |-> IF k = 0 THEN Root
                           ELSE IF w[k - 1] = 0 THEN 0
                           ELSE search(m, w[k - 1], p[k])]

LEMMA WalkExists ==
  ASSUME NEW m, NEW p \in Seq(Name)
  PROVE  \E w : Walks(m, p, w)
<1> DEFINE Prefix(n, w) ==
             w = [k \in 0..n |-> IF k = 0 THEN Root
                                 ELSE IF w[k - 1] = 0 THEN 0
                                 ELSE search(m, w[k - 1], p[k])]
           S == {n \in Nat : ~\E w : Prefix(n, w)}
<1>1. SUFFICES ASSUME S # {} PROVE FALSE
  <2>1. Len(p) \in Nat
    OBVIOUS
  <2>2. QED
    BY <2>1 DEF Walks
<1>2. PICK n \in S : \A l \in S : n <= l
  <2>1. S \in SUBSET Nat
    OBVIOUS
  <2> HIDE DEF S
  <2>2. QED
    BY <1>1, <2>1, Least
<1>3. n \in Nat /\ ~\E w : Prefix(n, w)
  OBVIOUS
<1>4. CASE n = 0
  <2> DEFINE w == [k \in 0..0 |-> Root]
  <2>1. w = [k \in 0..0 |-> IF k = 0 THEN Root
                            ELSE IF w[k - 1] = 0 THEN 0
                            ELSE search(m, w[k - 1], p[k])]
    OBVIOUS
  <2> HIDE DEF w
  <2>2. Prefix(0, w)
    BY <2>1
  <2> HIDE DEF Prefix
  <2>3. QED
    BY <1>3, <1>4, <2>2
<1>5. CASE n # 0
  <2>1. n - 1 \in Nat /\ ~(n <= n - 1)
    BY <1>3, <1>5
  <2>2. n - 1 \notin S
    <3> HIDE DEF S
    <3>1. QED
      BY <1>2, <2>1
  <2>3. PICK g : Prefix(n - 1, g)
    BY <2>1, <2>2
  <2> DEFINE At(k) == IF k = 0 THEN Root
                      ELSE IF g[k - 1] = 0 THEN 0
                      ELSE search(m, g[k - 1], p[k])
             w == [k \in 0..n |-> At(k)]
  <2>4. \A k \in 0..(n - 1) : g[k] = At(k)
    BY <2>3
  <2>5. \A k \in 0..(n - 1) : w[k] = g[k]
    BY <2>1, <2>4
  <2>6. \A k \in 0..n : k # 0 => k - 1 \in 0..(n - 1)
    BY <1>3
  <2>7. \A k \in 0..n : At(k) = IF k = 0 THEN Root
                                ELSE IF w[k - 1] = 0 THEN 0
                                ELSE search(m, w[k - 1], p[k])
    <3> HIDE DEF w
    <3>1. QED
      BY <2>5, <2>6
  <2>8. Prefix(n, w)
    <3>1. w = [k \in 0..n |-> At(k)]
      OBVIOUS
    <3> HIDE DEF w, At
    <3>2. QED
      BY <2>7, <3>1
  <2> HIDE DEF w, Prefix
  <2>9. QED
    BY <1>3, <2>8
<1>6. QED
  BY <1>4, <1>5

LEMMA WalkSteps ==
  ASSUME NEW m, NEW p \in Seq(Name), NEW w, Walks(m, p, w)
  PROVE  /\ w[0] = Root
         /\ \A k \in 1..Len(p) :
              w[k] = (IF w[k - 1] = 0 THEN 0 ELSE search(m, w[k - 1], p[k]))
<1> DEFINE n == Len(p)
<1>1. w = [k \in 0..n |-> IF k = 0 THEN Root
                          ELSE IF w[k - 1] = 0 THEN 0
                          ELSE search(m, w[k - 1], p[k])]
  BY DEF Walks
<1>2. n \in Nat
  OBVIOUS
<1> HIDE DEF n
<1>3. 0 \in 0..n /\ \A k \in 1..n : k \in 0..n /\ k # 0
  BY <1>2
<1>4. /\ w[0] = Root
      /\ \A k \in 1..n :
           w[k] = (IF w[k - 1] = 0 THEN 0 ELSE search(m, w[k - 1], p[k]))
  BY <1>1, <1>3
<1>5. QED
  BY <1>4 DEF n

\* Wherever a walk in m gets within A, a walk in r gets too.
Follows(m, r, A) ==
  /\ Root \in A /\ 0 \notin A
  /\ \A i \in A, nm \in Name :
       /\ search(m, i, nm) \in A \cup {0}
       /\ search(m, i, nm) # 0 => search(r, i, nm) = search(m, i, nm)

LEMMA WalkFollows ==
  ASSUME NEW m, NEW r, NEW A, Follows(m, r, A), NEW p \in Seq(Name)
  PROVE  /\ getino(m, p) \in A \cup {0}
         /\ getino(m, p) # 0 => getino(r, p) = getino(m, p)
<1> DEFINE n == Len(p)
           v == CHOOSE w : Walks(m, p, w)
           u == CHOOSE w : Walks(r, p, w)
<1>1. Walks(m, p, v) /\ Walks(r, p, u)
  BY WalkExists
<1>2. getino(m, p) = v[n] /\ getino(r, p) = u[n]
  BY DEF getino, Walks
<1> HIDE DEF v, u
<1>3. n \in Nat /\ \A k \in 1..n : p[k] \in Name
  OBVIOUS
<1>4. /\ v[0] = Root /\ u[0] = Root
      /\ \A k \in 1..n : v[k] = (IF v[k - 1] = 0 THEN 0 ELSE search(m, v[k - 1], p[k]))
                      /\ u[k] = (IF u[k - 1] = 0 THEN 0 ELSE search(r, u[k - 1], p[k]))
  <2>1. /\ v[0] = Root
        /\ \A k \in 1..n : v[k] = (IF v[k - 1] = 0 THEN 0 ELSE search(m, v[k - 1], p[k]))
    BY <1>1, WalkSteps
  <2>2. /\ u[0] = Root
        /\ \A k \in 1..n : u[k] = (IF u[k - 1] = 0 THEN 0 ELSE search(r, u[k - 1], p[k]))
    BY <1>1, WalkSteps
  <2>3. QED
    BY <2>1, <2>2
<1> DEFINE Fine(k) == v[k] \in A \cup {0} /\ (v[k] # 0 => u[k] = v[k])
           S == {k \in 0..n : ~Fine(k)}
<1> HIDE DEF n
<1>5. S = {}
  <2>1. SUFFICES ASSUME S # {} PROVE FALSE
    OBVIOUS
  <2>2. S \in SUBSET Nat
    BY <1>3
  <2> HIDE DEF S
  <2>3. PICK k \in S : \A l \in S : k <= l
    BY <2>1, <2>2, Least
  <2>4. k \in 0..n /\ ~Fine(k)
    BY DEF S
  <2>5. k # 0
    BY <1>4, <2>4 DEF Follows
  <2>6. k \in 1..n /\ k - 1 \in 0..n /\ k - 1 \notin S
    BY <1>3, <2>3, <2>4, <2>5
  <2>7. Fine(k - 1)
    BY <2>6 DEF S
  <2>8. CASE v[k - 1] = 0
    BY <1>4, <2>4, <2>6, <2>8
  <2>9. CASE v[k - 1] # 0
    BY <1>3, <1>4, <2>4, <2>6, <2>7, <2>9 DEF Follows
  <2>10. QED
    BY <2>8, <2>9
<1>6. Fine(n)
  BY <1>3, <1>5
<1>7. QED
  BY <1>2, <1>6

\* The last name of a path is looked up where the others lead to.
LEMMA WalkLast ==
  ASSUME NEW m, NEW p \in Seq(Name), p # <<>>
  PROVE  /\ dirname(p) \in Seq(Name) /\ basename(p) \in Name
         /\ getino(m, p) = IF getino(m, dirname(p)) = 0 THEN 0
                           ELSE search(m, getino(m, dirname(p)), basename(p))
<1> DEFINE n == Len(p)
           q == dirname(p)
           v == CHOOSE w : Walks(m, p, w)
           u == CHOOSE w : Walks(m, q, w)
<1>1. q \in Seq(Name) /\ basename(p) \in Name
  BY DEF dirname, basename
<1>2. Walks(m, p, v) /\ Walks(m, q, u)
  BY <1>1, WalkExists
<1>3. getino(m, p) = v[n] /\ getino(m, q) = u[Len(q)]
  BY DEF getino, Walks
<1> HIDE DEF v, u
<1>4. n \in Nat \ {0} /\ Len(q) = n - 1 /\ \A k \in 1..(n - 1) : q[k] = p[k]
  <2>1. n \in Nat \ {0}
    OBVIOUS
  <2>2. q = [k \in 1..(n - 1) |-> p[k]]
    BY <2>1 DEF dirname
  <2>3. n - 1 \in Nat
    BY <2>1
  <2> HIDE DEF q
  <2>4. QED
    BY <2>1, <2>2, <2>3
<1> HIDE DEF q
<1>5. /\ v[0] = Root /\ u[0] = Root
      /\ \A k \in 1..n : v[k] = (IF v[k - 1] = 0 THEN 0 ELSE search(m, v[k - 1], p[k]))
      /\ \A k \in 1..(n - 1) :
           u[k] = (IF u[k - 1] = 0 THEN 0 ELSE search(m, u[k - 1], p[k]))
  <2>1. /\ v[0] = Root
        /\ \A k \in 1..n : v[k] = (IF v[k - 1] = 0 THEN 0 ELSE search(m, v[k - 1], p[k]))
    BY <1>2, WalkSteps
  <2> HIDE DEF n
  <2>2. /\ u[0] = Root
        /\ \A k \in 1..Len(q) :
             u[k] = (IF u[k - 1] = 0 THEN 0 ELSE search(m, u[k - 1], q[k]))
    BY <1>1, <1>2, WalkSteps
  <2>3. QED
    BY <1>4, <2>1, <2>2
<1> DEFINE S == {k \in 0..(n - 1) : u[k] # v[k]}
<1> HIDE DEF n
<1>6. S = {}
  <2>1. SUFFICES ASSUME S # {} PROVE FALSE
    OBVIOUS
  <2>2. S \in SUBSET Nat
    BY <1>4
  <2> HIDE DEF S
  <2>3. PICK k \in S : \A l \in S : k <= l
    BY <2>1, <2>2, Least
  <2>4. k \in 0..(n - 1) /\ u[k] # v[k]
    BY DEF S
  <2>5. k # 0
    BY <1>5, <2>4
  <2>6. k \in 1..n /\ k \in 1..(n - 1) /\ k - 1 \in 0..(n - 1) /\ k - 1 \notin S
    BY <1>4, <2>3, <2>4, <2>5
  <2>7. u[k - 1] = v[k - 1]
    BY <2>6 DEF S
  <2>8. QED
    BY <1>5, <2>4, <2>6, <2>7
<1>7. u[n - 1] = v[n - 1] /\ n \in 1..n /\ p[n] = basename(p)
  BY <1>4, <1>6 DEF basename, n
<1>8. QED
  BY <1>1, <1>3, <1>4, <1>5, <1>7 DEF q

LEMMA WalkNowhere ==
  ASSUME NEW m
  PROVE  getino(m, <<>>) = Root
<1>1. <<>> \in Seq(Name) /\ Len(<<>>) = 0
  OBVIOUS
<1> DEFINE v == CHOOSE w : Walks(m, <<>>, w)
<1>2. Walks(m, <<>>, v)
  BY <1>1, WalkExists
<1>3. getino(m, <<>>) = v[0]
  BY <1>1 DEF getino, Walks
<1> HIDE DEF v
<1>4. QED
  BY <1>1, <1>2, <1>3 DEF Walks

-----------------------------------------------------------------------------
(***************************************************************************)
(* References                                                              *)
(***************************************************************************)
Balanced(m, r) == \A j \in Ino : r.cache[j].refCount = m.cache[j].refCount
Took(m, r, i)  == \A j \in Ino : r.cache[j].refCount =
                    m.cache[j].refCount + (IF j = i THEN 1 ELSE 0)

LEMMA RefsAre ==
  ASSUME NEW m \in RUN
  PROVE  \A j \in Ino : m.cache[j].refCount \in Nat
BY DEF RUN, CACHE, SLOT

LEMMA igetTook ==
  ASSUME NEW m \in RUN, NEW i \in Ino
  PROVE  iget(m, i) \in RUN /\ Took(m, iget(m, i), i)
BY igetIs, RefsAre DEF Took

LEMMA iputBalanced ==
  ASSUME NEW m \in RUN, NEW r \in RUN, NEW i \in Ino, Took(m, r, i)
  PROVE  iput(r, i) \in RUN /\ Balanced(m, iput(r, i))
<1> DEFINE q == iput(r, i)
<1>1. Puts(r, i, q)
  BY iputIs
<1> HIDE DEF q
<1>2. m.cache[i].refCount \in Nat /\ r.cache[i].refCount = m.cache[i].refCount + 1
  BY RefsAre DEF Took
<1>3. r.cache[i].refCount > 0 /\ q.cache[i].refCount = m.cache[i].refCount
  BY <1>1, <1>2 DEF Puts
<1>4. \A j \in Ino : q.cache[j].refCount = m.cache[j].refCount
  BY <1>1, <1>3, RefsAre DEF Puts, Took
<1>5. q \in RUN /\ Balanced(m, q)
  BY <1>1, <1>4 DEF Puts, Balanced
<1>6. QED
  BY <1>5 DEF q

LEMMA ChangeBalanced ==
  /\ \A m \in RUN, i \in Ino, ip \in INODE :
       Store(m, i, ip) \in RUN /\ Balanced(m, Store(m, i, ip))
  /\ \A m \in RUN, i \in Ino, k \in Int :
       AddLinks(m, i, k) \in RUN /\ Balanced(m, AddLinks(m, i, k))
  /\ \A m, r : Wrote(m, r) => r \in RUN /\ Balanced(m, r)
<1>1. ASSUME NEW m \in RUN, NEW i \in Ino, NEW ip \in INODE
      PROVE  Store(m, i, ip) \in RUN /\ Balanced(m, Store(m, i, ip))
  BY StoreIs DEF Balanced
<1>2. ASSUME NEW m \in RUN, NEW i \in Ino, NEW k \in Int
      PROVE  AddLinks(m, i, k) \in RUN /\ Balanced(m, AddLinks(m, i, k))
  BY AddLinksIs DEF Balanced
<1>3. ASSUME NEW m, NEW r, Wrote(m, r)
      PROVE  r \in RUN /\ Balanced(m, r)
  BY <1>3 DEF Wrote, Balanced
<1>4. QED
  BY <1>1, <1>2, <1>3

LEMMA AddLinksBalanced ==
  ASSUME NEW m \in RUN, NEW i \in Ino, NEW k \in {-1, 0, 1}
  PROVE  AddLinks(m, i, k) \in RUN /\ Balanced(m, AddLinks(m, i, k))
BY ChangeBalanced

LEMMA BalancedTook ==
  ASSUME NEW m, NEW r, NEW q
  PROVE  /\ Balanced(m, r) /\ Balanced(r, q) => Balanced(m, q)
         /\ \A i : Took(m, r, i) /\ Balanced(r, q) => Took(m, q, i)
         /\ \A i : Balanced(m, r) /\ Took(r, q, i) => Took(m, q, i)
BY DEF Balanced, Took

LEMMA mycreatBalanced ==
  ASSUME NEW m \in RUN, NEW pino \in Ino, NEW nm \in Name, FreeIno(m) # 0
  PROVE  mycreat(m, pino, nm) \in RUN /\ Balanced(m, mycreat(m, pino, nm))
<1> DEFINE ino == FreeIno(m)
           ip == [type |-> "reg", links |-> 1, block |-> 0]
           a == SetImap(m, ino)
           b == iget(a, ino)
           c == Store(b, ino, ip)
           d == iput(c, ino)
           e == enter_name(d, pino, ino, nm)
<1>1. ino \in Ino /\ ip \in INODE
  BY FreeIs, LinksIs DEF INODE
<1>2. mycreat(m, pino, nm) = e
  BY DEF mycreat
<1> HIDE DEF ino, ip
<1>3. a \in RUN /\ Balanced(m, a)
  BY <1>1, SetImapIs, ChangeBalanced DEF Marks
<1> HIDE DEF a
<1>4. b \in RUN /\ Took(a, b, ino)
  BY <1>1, <1>3, igetTook
<1> HIDE DEF b
<1>5. c \in RUN /\ Took(a, c, ino)
  BY <1>1, <1>4, ChangeBalanced, BalancedTook
<1> HIDE DEF c
<1>6. d \in RUN /\ Balanced(a, d)
  BY <1>1, <1>3, <1>5, iputBalanced
<1> HIDE DEF d
<1>7. e \in RUN /\ Balanced(d, e)
  BY <1>1, <1>6, enter_nameIs, ChangeBalanced DEF Renames
<1> HIDE DEF e
<1>8. QED
  BY <1>2, <1>3, <1>6, <1>7, BalancedTook

LEMMA mymkdirBalanced ==
  ASSUME NEW m \in RUN, NEW pino \in Ino, NEW nm \in Name, FreeIno(m) # 0
  PROVE  mymkdir(m, pino, nm) \in RUN /\ Balanced(m, mymkdir(m, pino, nm))
<1> DEFINE ino == FreeIno(m)
           bno == FreeBlock(m)
           ip == [type |-> "dir", links |-> 2, block |-> bno]
           a == SetImap(m, ino)
           z == SetBmap(a, bno)
           b == iget(z, ino)
           c == Store(b, ino, ip)
           d == iput(c, ino)
           m3 == put_block(d, [d.disk EXCEPT !.dirs[bno] = EmptyDir(pino)])
           e == enter_name(m3, pino, ino, nm)
           f == [e EXCEPT !.blockless = @ \/ bno = 0]
<1>1. ino \in Ino /\ bno \in Block \cup {0} /\ ip \in INODE
  BY FreeIs, LinksIs DEF INODE
<1>2. mymkdir(m, pino, nm) = f
  BY DEF mymkdir
<1> HIDE DEF ino, ip, bno
<1>3. a \in RUN /\ Balanced(m, a)
  BY <1>1, SetImapIs, ChangeBalanced DEF Marks
<1> HIDE DEF a
<1>4. z \in RUN /\ Balanced(m, z)
  <2>1. z = a \/ MarksBlock(a, bno, z)
    BY <1>1, <1>3, SetBmapIs
  <2> HIDE DEF z
  <2>2. QED
    BY <1>3, <2>1, ChangeBalanced, BalancedTook DEF MarksBlock
<1> HIDE DEF z
<1>5. b \in RUN /\ Took(z, b, ino)
  BY <1>1, <1>4, igetTook
<1> HIDE DEF b
<1>6. c \in RUN /\ Took(z, c, ino)
  BY <1>1, <1>5, ChangeBalanced, BalancedTook
<1> HIDE DEF c
<1>7. d \in RUN /\ Balanced(z, d)
  BY <1>1, <1>4, <1>6, iputBalanced
<1> HIDE DEF d
<1>8. m3 \in RUN /\ Balanced(d, m3)
  <2> DEFINE D == [d.disk EXCEPT !.dirs[bno] = EmptyDir(pino)]
  <2>1. D \in DISK
    BY <1>1, <1>7, InodesAre DEF RUN, DISK
  <2> HIDE DEF D
  <2>2. Wrote(d, put_block(d, D))
    BY <1>7, <2>1, put_blockWrote
  <2>3. QED
    BY <2>2, ChangeBalanced DEF D
<1> HIDE DEF m3
<1>9. e \in RUN /\ Balanced(m3, e)
  BY <1>1, <1>8, enter_nameIs, ChangeBalanced DEF Renames
<1> HIDE DEF e
<1>10. f \in RUN /\ f.cache = e.cache
  BY <1>9 DEF RUN
<1> HIDE DEF f
<1>11. Balanced(e, f)
  BY <1>10 DEF Balanced
<1>12. QED
  BY <1>2, <1>4, <1>7, <1>8, <1>9, <1>10, <1>11, BalancedTook

\* The same is read in r as in m.
Alike(m, r) == /\ r.disk.dirs = m.disk.dirs
               /\ \A j \in Ino : View(r, j) = View(m, j)

LEMMA FollowsSelf ==
  ASSUME NEW m \in RUN
  PROVE  Follows(m, m, Ino)
<1>1. \A i \in Ino, nm \in Name : search(m, i, nm) \in Ino \cup {0}
  <2>1. TAKE i \in Ino, nm \in Name
  <2>2. m.disk \in DISK /\ View(m, i).block \in Block \cup {0}
    BY ViewIs DEF RUN, INODE
  <2>3. QED
    BY <2>2, searchIs, FoundIs
<1>2. QED
  BY <1>1, RootIs DEF Follows

LEMMA getinoIs ==
  ASSUME NEW m \in RUN, NEW p \in Seq(Name)
  PROVE  getino(m, p) \in Ino \cup {0}
BY FollowsSelf, WalkFollows

LEMMA AlikeSearch ==
  ASSUME NEW m, NEW r, Alike(m, r)
  PROVE  \A i \in Ino : \A nm : search(r, i, nm) = search(m, i, nm)
BY DEF Alike, search

LEMMA AlikeWalk ==
  ASSUME NEW m \in RUN, NEW r \in RUN, Alike(m, r), NEW p \in Seq(Name)
  PROVE  getino(r, p) = getino(m, p)
<1>1. Follows(m, r, Ino) /\ Follows(r, m, Ino)
  BY FollowsSelf, AlikeSearch DEF Follows
<1>2. QED
  BY <1>1, WalkFollows

LEMMA igetAlike ==
  ASSUME NEW m \in RUN, NEW i \in Ino
  PROVE  Alike(m, iget(m, i))
<1> DEFINE r == iget(m, i)
<1>1. /\ r.disk = m.disk /\ \A j \in Ino \ {i} : r.cache[j] = m.cache[j]
      /\ r.cache[i].refCount = m.cache[i].refCount + 1
      /\ r.cache[i].INODE = View(m, i)
  BY igetIs
<1> HIDE DEF r
<1>2. r.cache[i].refCount > 0
  BY <1>1, RefsAre
<1>3. QED
  BY <1>1, <1>2 DEF Alike, View, r

LEMMA AlikeAlike ==
  ASSUME NEW m, NEW r, NEW q, Alike(m, r), Alike(r, q)
  PROVE  Alike(m, q)
BY DEF Alike

\* The path of a command that makes an entry.
Named(p) == p \in Seq(Name) /\ p # <<>>

LEMMA PathsNamed ==
  /\ \A p \in Path : Named(p)
  /\ \A s \in Path, d \in Path \cup {<<>>} : \A t :
       t \in {Append(d, basename(s)), d \o s} => Named(t)
<1>1. \A p \in Path : Named(p)
  BY NamespaceAssumption DEF Named
<1>2. ASSUME NEW s \in Path, NEW d \in Path \cup {<<>>}
      PROVE  Named(Append(d, basename(s))) /\ Named(d \o s)
  <2>1. s \in Seq(Name) /\ s # <<>> /\ basename(s) \in Name
    BY <1>1, WalkLast DEF Named
  <2>2. d \in Seq(Name)
    <3>1. CASE d = <<>>
      BY <3>1
    <3>2. CASE d \in Path
      BY <1>1, <3>2 DEF Named
    <3>3. QED
      BY <3>1, <3>2
  <2> DEFINE a == Append(d, basename(s))
             b == d \o s
  <2>3. a \in Seq(Name) /\ Len(a) = Len(d) + 1 /\ Len(d) \in Nat /\ Len(s) \in Nat
    BY <2>1, <2>2
  <2>4. b \in Seq(Name) /\ Len(b) = Len(d) + Len(s) /\ Len(s) # 0
    BY <2>1, <2>2
  <2> HIDE DEF a, b
  <2>5. Len(a) # 0 /\ Len(b) # 0 /\ Len(<<>>) = 0
    BY <2>3, <2>4
  <2>6. QED
    BY <2>3, <2>4, <2>5 DEF Named, a, b
<1>3. QED
  BY <1>1, <1>2

LEMMA creat_fileRefs ==
  ASSUME NEW m \in RUN, NEW p, Named(p), getino(m, dirname(p)) # 0,
         getino(m, p) = 0 => FreeIno(m) # 0
  PROVE  LET r == creat_file(m, p)
             pino == getino(m, dirname(p))
         IN /\ r \in RUN
            /\ IF View(m, pino).type = "dir" /\ getino(m, p) = 0
               THEN Balanced(m, r)
               ELSE r = iget(m, pino)
<1> DEFINE pino == getino(m, dirname(p))
           nm == basename(p)
           m1 == iget(m, pino)
           a == mycreat(m1, pino, nm)
           b == AddLinks(a, pino, 0)
           c == iput(b, pino)
<1>1. pino \in Ino /\ nm \in Name /\ getino(m, p) = search(m, pino, nm)
  BY WalkLast, getinoIs DEF Named
<1>2. creat_file(m, p) = IF Refused(m1, pino, nm) THEN m1 ELSE c
  BY DEF creat_file
<1> HIDE DEF pino, nm
<1>3. /\ m1 \in RUN /\ Took(m, m1, pino) /\ Alike(m, m1) /\ m1.disk = m.disk
      /\ m1.cache[pino].INODE = View(m, pino)
  BY <1>1, igetTook, igetAlike, igetIs
<1>4. Refused(m1, pino, nm) <=> ~(View(m, pino).type = "dir" /\ getino(m, p) = 0)
  BY <1>1, <1>3, AlikeSearch DEF Refused, IsDir
<1>5. CASE ~(View(m, pino).type = "dir" /\ getino(m, p) = 0)
  BY <1>2, <1>3, <1>4, <1>5 DEF pino, m1
<1>6. CASE View(m, pino).type = "dir" /\ getino(m, p) = 0
  <2>1. FreeIno(m1) # 0
    BY <1>3, <1>6 DEF FreeIno
  <2> HIDE DEF m1
  <2>2. a \in RUN /\ Took(m, a, pino)
    BY <1>1, <1>3, <2>1, mycreatBalanced, BalancedTook
  <2> HIDE DEF a
  <2>3. b \in RUN /\ Took(m, b, pino)
    BY <1>1, <2>2, AddLinksBalanced, BalancedTook
  <2> HIDE DEF b
  <2>4. c \in RUN /\ Balanced(m, c)
    BY <1>1, <2>3, iputBalanced
  <2> HIDE DEF c
  <2>5. QED
    BY <1>2, <1>4, <1>6, <2>4 DEF pino
<1>7. QED
  BY <1>5, <1>6

LEMMA make_dirRefs ==
  ASSUME NEW m \in RUN, NEW p, Named(p), getino(m, dirname(p)) # 0,
         getino(m, p) = 0 => FreeIno(m) # 0
  PROVE  LET r == make_dir(m, p)
             pino == getino(m, dirname(p))
         IN /\ r \in RUN
            /\ IF View(m, pino).type = "dir" /\ getino(m, p) = 0
               THEN Balanced(m, r)
               ELSE r = iget(m, pino)
<1> DEFINE pino == getino(m, dirname(p))
           nm == basename(p)
           m1 == iget(m, pino)
           a == mymkdir(m1, pino, nm)
           b == AddLinks(a, pino, 1)
           c == iput(b, pino)
<1>1. pino \in Ino /\ nm \in Name /\ getino(m, p) = search(m, pino, nm)
  BY WalkLast, getinoIs DEF Named
<1>2. make_dir(m, p) = IF Refused(m1, pino, nm) THEN m1 ELSE c
  BY DEF make_dir
<1> HIDE DEF pino, nm
<1>3. /\ m1 \in RUN /\ Took(m, m1, pino) /\ Alike(m, m1) /\ m1.disk = m.disk
      /\ m1.cache[pino].INODE = View(m, pino)
  BY <1>1, igetTook, igetAlike, igetIs
<1>4. Refused(m1, pino, nm) <=> ~(View(m, pino).type = "dir" /\ getino(m, p) = 0)
  BY <1>1, <1>3, AlikeSearch DEF Refused, IsDir
<1>5. CASE ~(View(m, pino).type = "dir" /\ getino(m, p) = 0)
  BY <1>2, <1>3, <1>4, <1>5 DEF pino, m1
<1>6. CASE View(m, pino).type = "dir" /\ getino(m, p) = 0
  <2>1. FreeIno(m1) # 0
    BY <1>3, <1>6 DEF FreeIno
  <2> HIDE DEF m1
  <2>2. a \in RUN /\ Took(m, a, pino)
    BY <1>1, <1>3, <2>1, mymkdirBalanced, BalancedTook
  <2> HIDE DEF a
  <2>3. b \in RUN /\ Took(m, b, pino)
    BY <1>1, <2>2, AddLinksBalanced, BalancedTook
  <2> HIDE DEF b
  <2>4. c \in RUN /\ Balanced(m, c)
    BY <1>1, <2>3, iputBalanced
  <2> HIDE DEF c
  <2>5. QED
    BY <1>2, <1>4, <1>6, <2>4 DEF pino
<1>7. QED
  BY <1>5, <1>6

LEMMA mylinkRefs ==
  ASSUME NEW m \in RUN, NEW old, NEW new, Named(old), Named(new),
         getino(m, old) # 0, getino(m, dirname(new)) # 0
  PROVE  LET r == mylink(m, old, new)
             oino == getino(m, old)
         IN /\ r \in RUN
            /\ IF View(m, oino).type = "dir" \/ getino(m, new) # 0
               THEN r = iget(m, oino) ELSE Balanced(m, r)
<1> DEFINE oino == getino(m, old)
           pino == getino(m, dirname(new))
           nm == basename(new)
           m1 == iget(m, oino)
           a == iget(m1, pino)
           m2 == enter_name(a, pino, oino, nm)
           b == AddLinks(m2, oino, 1)
           c == iput(b, oino)
           d == iput(c, pino)
<1>1. oino \in Ino /\ pino \in Ino /\ nm \in Name /\ new \in Seq(Name)
  BY WalkLast, getinoIs DEF Named
<1>2. mylink(m, old, new) = IF IsDir(m1, oino) \/ getino(m1, new) # 0 THEN m1 ELSE d
  BY DEF mylink
<1> HIDE DEF oino, pino, nm
<1>3. /\ m1 \in RUN /\ Took(m, m1, oino) /\ Alike(m, m1)
      /\ m1.cache[oino].INODE = View(m, oino)
  BY <1>1, igetTook, igetAlike, igetIs
<1>4. IsDir(m1, oino) \/ getino(m1, new) # 0 <=>
        View(m, oino).type = "dir" \/ getino(m, new) # 0
  BY <1>1, <1>3, AlikeWalk DEF IsDir
<1>5. CASE View(m, oino).type = "dir" \/ getino(m, new) # 0
  BY <1>2, <1>3, <1>4, <1>5 DEF oino, m1
<1>6. CASE ~(View(m, oino).type = "dir" \/ getino(m, new) # 0)
  <2> HIDE DEF m1
  <2>1. a \in RUN /\ Took(m1, a, pino)
    BY <1>1, <1>3, igetTook
  <2> HIDE DEF a
  <2>2. m2 \in RUN /\ Balanced(a, m2)
    BY <1>1, <2>1, enter_nameIs, ChangeBalanced DEF Renames
  <2> HIDE DEF m2
  <2>3. b \in RUN /\ Balanced(m2, b)
    BY <1>1, <2>2, AddLinksBalanced
  <2> HIDE DEF b
  <2>4. Took(m1, b, pino)
    BY <2>1, <2>2, <2>3, BalancedTook
  <2>5. Puts(b, oino, c)
    BY <1>1, <2>3, iputIs
  <2> HIDE DEF c
  <2>6. c \in RUN /\ Took(m, c, pino)
    <3>1. b.cache[oino].refCount > 0
      BY <1>1, <1>3, <2>4, RefsAre DEF Took
    <3>2. \A j \in Ino : c.cache[j].refCount =
            b.cache[j].refCount - (IF j = oino THEN 1 ELSE 0)
      BY <2>3, <2>5, <3>1, RefsAre DEF Puts
    <3>3. \A j \in Ino : c.cache[j].refCount =
            m.cache[j].refCount + (IF j = pino THEN 1 ELSE 0)
      BY <1>3, <2>4, <3>2, RefsAre DEF Took
    <3>4. QED
      BY <2>5, <3>3 DEF Puts, Took
  <2>7. d \in RUN /\ Balanced(m, d)
    BY <1>1, <2>6, iputBalanced
  <2> HIDE DEF d
  <2>8. QED
    BY <1>2, <1>4, <1>6, <2>7 DEF oino
<1>7. QED
  BY <1>5, <1>6

\* The count is taken off, but the inode not marked.
Drop(m, i) == [m EXCEPT !.cache[i].INODE.links = (@ - 1) % LinkMod]

LEMMA DropIs ==
  ASSUME NEW m \in RUN, NEW i \in Ino
  PROVE  /\ Drop(m, i) \in RUN
         /\ Drop(m, i).disk = m.disk /\ Drop(m, i).log = m.log
         /\ Drop(m, i).stale = m.stale /\ Drop(m, i).blockless = m.blockless
         /\ \A j \in Ino \ {i} : Drop(m, i).cache[j] = m.cache[j]
         /\ Drop(m, i).cache[i].refCount = m.cache[i].refCount
         /\ Drop(m, i).cache[i].INODE.links = (m.cache[i].INODE.links - 1) % LinkMod
<1> DEFINE ip == m.cache[i].INODE
           k == (ip.links - 1) % LinkMod
           new == [m.cache[i] EXCEPT !.INODE = [ip EXCEPT !.links = k]]
<1>1. m.cache \in [Ino -> SLOT] /\ ip \in INODE /\ ip.links \in Int
  BY LinksIs DEF RUN, CACHE, SLOT, INODE
<1>2. k \in 0..(LinkMod - 1)
  BY <1>1, LinksWrap
<1>3. Drop(m, i) = [m EXCEPT !.cache = [m.cache EXCEPT ![i] = new]]
  BY <1>1 DEF Drop, RUN, SLOT
<1> HIDE DEF k
<1>4. [ip EXCEPT !.links = k] \in INODE /\ [ip EXCEPT !.links = k].links = k
  BY <1>1, <1>2 DEF INODE
<1>5. new \in SLOT /\ new.refCount = m.cache[i].refCount /\ new.INODE.links = k
  <2> HIDE DEF ip
  <2>1. QED
    BY <1>1, <1>4 DEF SLOT
<1> HIDE DEF new
<1>6. [m.cache EXCEPT ![i] = new] \in CACHE
  BY <1>1, <1>5 DEF CACHE
<1>7. QED
  BY <1>1, <1>3, <1>5, <1>6 DEF RUN, k

LEMMA myunlinkRefs ==
  ASSUME NEW m \in RUN, NEW p, Named(p), getino(m, p) # 0
  PROVE  LET r == myunlink(m, p)
             ino == getino(m, p)
         IN /\ r \in RUN
            /\ IF View(m, ino).type = "dir" THEN r = iget(m, ino)
                                            ELSE Balanced(m, r)
<1> DEFINE ino == getino(m, p)
           pino == getino(m, dirname(p))
           nm == basename(p)
           m1 == iget(m, ino)
           a == iget(m1, pino)
           m2 == rm_child(a, pino, nm)
           b == AddLinks(m2, pino, 0)
           m3 == iput(b, pino)
           last == Drop(m3, ino)
           c == AddLinks(m3, ino, -1)
           d == bdalloc(last, ino)
           e == idalloc(d, ino)
<1>1. ino \in Ino /\ pino \in Ino /\ nm \in Name
  BY WalkLast, getinoIs DEF Named
<1>2. myunlink(m, p) = IF IsDir(m1, ino) THEN m1
                       ELSE IF last.cache[ino].INODE.links > 0 THEN iput(c, ino)
                            ELSE iput(e, ino)
  BY DEF myunlink, Drop
<1> HIDE DEF ino, pino, nm
<1>3. /\ m1 \in RUN /\ Took(m, m1, ino) /\ m1.cache[ino].INODE = View(m, ino)
  BY <1>1, igetTook, igetIs
<1>4. CASE View(m, ino).type = "dir"
  BY <1>2, <1>3, <1>4 DEF ino, m1, IsDir
<1>5. CASE ~(View(m, ino).type = "dir")
  <2>0. ~IsDir(m1, ino)
    BY <1>3, <1>5 DEF IsDir
  <2> HIDE DEF m1
  <2>1. a \in RUN /\ Took(m1, a, pino)
    BY <1>1, <1>3, igetTook
  <2> HIDE DEF a
  <2>2. m2 \in RUN /\ Took(m1, m2, pino)
    BY <1>1, <2>1, rm_childIs, ChangeBalanced, BalancedTook DEF Renames
  <2> HIDE DEF m2
  <2>3. b \in RUN /\ Took(m1, b, pino)
    BY <1>1, <2>2, AddLinksBalanced, BalancedTook
  <2> HIDE DEF b
  <2>4. m3 \in RUN /\ Took(m, m3, ino)
    BY <1>1, <1>3, <2>3, iputBalanced, BalancedTook
  <2> HIDE DEF m3
  <2>5. c \in RUN /\ Took(m, c, ino)
    BY <1>1, <2>4, AddLinksBalanced, BalancedTook
  <2>6. last \in RUN /\ Balanced(m3, last)
    <3> HIDE DEF last
    <3>1. /\ last \in RUN
          /\ \A j \in Ino \ {ino} : last.cache[j] = m3.cache[j]
          /\ last.cache[ino].refCount = m3.cache[ino].refCount
      BY <1>1, <2>4, DropIs DEF last
    <3>2. QED
      BY <3>1 DEF Balanced
  <2> HIDE DEF last
  <2>7. d \in RUN /\ Balanced(last, d)
    BY <1>1, <2>6, bdallocIs, ChangeBalanced DEF FreesBlock
  <2> HIDE DEF d
  <2>8. e \in RUN /\ Balanced(d, e)
    BY <1>1, <2>7, idallocIs, ChangeBalanced DEF Frees
  <2>9. Took(m, e, ino)
    BY <2>4, <2>6, <2>7, <2>8, BalancedTook
  <2> HIDE DEF c, e
  <2>10. /\ iput(c, ino) \in RUN /\ Balanced(m, iput(c, ino))
         /\ iput(e, ino) \in RUN /\ Balanced(m, iput(e, ino))
    BY <1>1, <2>5, <2>8, <2>9, iputBalanced
  <2>11. QED
    BY <1>2, <1>5, <2>0, <2>10 DEF ino
<1>6. QED
  BY <1>4, <1>5

LEMMA mysymlinkRefs ==
  ASSUME NEW m \in RUN, NEW old, NEW new, Named(old), Named(new),
         getino(m, old) # 0, getino(m, dirname(new)) # 0,
         View(m, getino(m, dirname(new))).type = "dir",
         getino(m, new) = 0 => FreeIno(m) # 0
  PROVE  LET r == mysymlink(m, old, new)
             m1 == iget(m, getino(m, old))
         IN /\ r \in RUN
            /\ IF getino(m, new) # 0 THEN r = iget(m1, getino(m, new))
                                     ELSE Balanced(m, r)
<1> DEFINE oino == getino(m, old)
           m1 == iget(m, oino)
           m2 == creat_file(m1, new)
           x == FreeIno(m1)
           m3 == iget(m2, x)
           ip == [m3.cache[x].INODE EXCEPT !.type = "lnk"]
           a == Store(m3, x, ip)
           m4 == iput(a, x)
           b == AddLinks(m4, oino, 0)
           c == iput(b, oino)
<1>1. oino \in Ino /\ new \in Seq(Name) /\ dirname(new) \in Seq(Name)
  BY WalkLast, getinoIs DEF Named
<1>2. mysymlink(m, old, new) = IF getino(m, new) # 0 THEN iget(m1, getino(m, new)) ELSE c
  BY DEF mysymlink
<1>3. m1 \in RUN /\ Took(m, m1, oino) /\ Alike(m, m1) /\ m1.disk = m.disk
  <2> HIDE DEF oino
  <2>1. QED
    BY <1>1, igetTook, igetAlike, igetIs
<1>4. getino(m1, new) = getino(m, new) /\ getino(m1, dirname(new)) = getino(m, dirname(new))
  <2> HIDE DEF m1
  <2>1. QED
    BY <1>1, <1>3, AlikeWalk
<1>5. CASE getino(m, new) # 0
  <2>1. getino(m, new) \in Ino
    BY <1>1, <1>5, getinoIs
  <2>2. iget(m1, getino(m, new)) \in RUN
    BY <1>3, <2>1, igetTook
  <2>3. QED
    BY <1>2, <1>5, <2>2
<1>6. CASE getino(m, new) = 0
  <2>1. x \in Ino
    BY <1>3, <1>6, FreeIs DEF FreeIno
  <2> HIDE DEF x
  <2>2. getino(m, dirname(new)) \in Ino
    BY <1>1, getinoIs
  <2>3. View(m1, getino(m1, dirname(new))).type = "dir" /\ FreeIno(m1) # 0
    BY <1>3, <1>4, <1>6, <2>2 DEF Alike, FreeIno
  <2> HIDE DEF oino, m1
  <2>4. m2 \in RUN /\ Balanced(m1, m2)
    BY <1>3, <1>4, <1>6, <2>3, creat_fileRefs
  <2> HIDE DEF m2
  <2>5. m3 \in RUN /\ Took(m2, m3, x) /\ m3.cache[x].INODE \in INODE
    BY <2>1, <2>4, igetTook, igetIs, ViewIs
  <2>6. ip \in INODE
    <3> HIDE DEF m3
    <3>1. QED
      BY <2>5 DEF INODE
  <2> HIDE DEF m3, ip
  <2>7. a \in RUN /\ Took(m2, a, x)
    BY <2>1, <2>5, <2>6, ChangeBalanced, BalancedTook
  <2> HIDE DEF a
  <2>8. m4 \in RUN /\ Balanced(m2, m4)
    BY <2>1, <2>4, <2>7, iputBalanced
  <2> HIDE DEF m4
  <2>9. b \in RUN /\ Took(m, b, oino)
    BY <1>1, <1>3, <2>4, <2>8, AddLinksBalanced, BalancedTook
  <2> HIDE DEF b
  <2>10. c \in RUN /\ Balanced(m, c)
    BY <1>1, <2>9, iputBalanced
  <2> HIDE DEF c
  <2>11. QED
    BY <1>2, <1>6, <2>10
<1>7. QED
  BY <1>5, <1>6

\* A reference taken and put back on what is not dirty, or stays in memory,
\* leaves what is read as it was.
LEMMA myrmdirRefs ==
  ASSUME NEW m \in RUN, NEW p, Named(p), getino(m, p) # 0
  PROVE  LET r == myrmdir(m, p)
             ino == getino(m, p)
             m1 == iget(iget(m, ino), ino)
         IN /\ r \in RUN
            /\ \/ r = m1
               \/ /\ View(m, ino).type = "dir" /\ ino \notin r.disk.imap
                  /\ Took(m, r, ino)
<1> DEFINE ino == getino(m, p)
           m0 == iget(m, ino)
           m1 == iget(m0, ino)
           b == m1.cache[ino].INODE.block
           m2 == IF b = 0 THEN m1 ELSE bdalloc(m1, b)
           f == idalloc(m2, ino)
           m3 == iput(f, ino)
           pino == getino(m3, dirname(p))
           nm == basename(p)
           a == iget(m3, pino)
           m4 == rm_child(a, pino, nm)
           c == AddLinks(m4, pino, -1)
           d == iput(c, pino)
<1>1. ino \in Ino /\ nm \in Name /\ dirname(p) \in Seq(Name)
      /\ getino(m, dirname(p)) \in Ino
  BY WalkLast, getinoIs DEF Named
<1>2. myrmdir(m, p) = IF ~IsDir(m1, ino) \/ ~is_empty(m1, ino) THEN m1 ELSE d
  BY DEF myrmdir
<1> HIDE DEF ino, nm
<1>3. m0 \in RUN /\ m0.disk = m.disk /\ Alike(m, m0) /\ m0.cache[ino].INODE = View(m, ino)
      /\ Took(m, m0, ino)
  BY <1>1, igetTook, igetAlike, igetIs
<1> HIDE DEF m0
<1>4. m1 \in RUN /\ m1.disk = m.disk /\ Alike(m, m1)
      /\ m1.cache[ino].INODE = View(m0, ino) /\ Took(m0, m1, ino)
  BY <1>1, <1>3, igetTook, igetAlike, AlikeAlike, igetIs
<1>5. View(m0, ino) = View(m, ino)
  BY <1>1, <1>3 DEF Alike
<1>6. CASE ~IsDir(m1, ino) \/ ~is_empty(m1, ino)
  BY <1>2, <1>4, <1>6 DEF m1, m0, ino
<1>7. CASE ~(~IsDir(m1, ino) \/ ~is_empty(m1, ino))
  <2>0. View(m, ino).type = "dir"
    BY <1>7, <1>4, <1>5 DEF IsDir
  <2> HIDE DEF m1
  <2>1. /\ m2 \in RUN /\ m2.cache = m1.cache
        /\ m2.disk.itab = m.disk.itab /\ m2.disk.dirs = m.disk.dirs
    <3>1. CASE b = 0
      BY <3>1, <1>4
    <3>2. CASE b # 0
      <4>1. FreesBlock(m1, b, bdalloc(m1, b))
        BY <1>4, bdallocIs
      <4>2. QED
        BY <3>2, <4>1, <1>4 DEF FreesBlock, Wrote, OnlyBmap
    <3>3. QED
      BY <3>1, <3>2
  <2> HIDE DEF m2
  <2>2. /\ f \in RUN /\ f.cache = m1.cache
        /\ f.disk.itab = m.disk.itab /\ f.disk.dirs = m.disk.dirs
        /\ ino \notin f.disk.imap
    BY <1>1, <2>1, idallocIs DEF Frees, Wrote, OnlyImap
  <2> HIDE DEF f
  <2>3. \A j \in Ino : m.cache[j].refCount \in Nat
    BY RefsAre
  <2>4. m1.cache[ino].refCount = m.cache[ino].refCount + 2
    BY <1>1, <1>3, <1>4, <2>3 DEF Took
  <2>5. Puts(f, ino, m3)
    BY <1>1, <2>2, iputIs
  <2>6. f.cache[ino].refCount > 1 /\ f.cache[ino].refCount > 0
    BY <1>1, <2>2, <2>3, <2>4
  <2> HIDE DEF m3
  <2>7. /\ m3 \in RUN /\ m3.disk = f.disk
        /\ m3.cache[ino].refCount = m.cache[ino].refCount + 1
        /\ m3.cache[ino].INODE = View(m, ino)
        /\ \A j \in Ino \ {ino} : m3.cache[j] = m1.cache[j]
    BY <1>1, <1>4, <1>5, <2>2, <2>3, <2>4, <2>5, <2>6 DEF Puts
  <2>8. Took(m, m3, ino)
    BY <1>1, <1>3, <1>4, <2>3, <2>7 DEF Took
  <2>9. Alike(m, m3)
    <3>1. ASSUME NEW j \in Ino PROVE View(m3, j) = View(m, j)
      <4>1. CASE j = ino
        BY <4>1, <1>1, <2>3, <2>7 DEF View
      <4>2. CASE j # ino
        <5>1. View(m3, j) = View(m1, j)
          BY <4>2, <2>2, <2>7, <1>4 DEF View
        <5>2. QED
          BY <5>1, <1>4 DEF Alike
      <4>3. QED
        BY <4>1, <4>2
    <3>2. QED
      BY <3>1, <2>2, <2>7 DEF Alike
  <2>10. pino \in Ino
    BY <1>1, <2>7, <2>9, AlikeWalk
  <2> HIDE DEF pino
  <2>11. a \in RUN /\ Took(m3, a, pino) /\ a.disk = m3.disk
    BY <2>7, <2>10, igetTook, igetIs
  <2> HIDE DEF a
  <2>12. m4 \in RUN /\ Took(m3, m4, pino) /\ m4.disk.imap = m3.disk.imap
    <3>1. Renames(a, a.cache[pino].INODE.block, nm, 0, m4)
      BY <1>1, <2>10, <2>11, rm_childIs
    <3> HIDE DEF m4
    <3>2. Wrote(a, m4) /\ m4.disk.imap = a.disk.imap
      BY <3>1 DEF Renames, OnlyDirs
    <3>3. QED
      BY <2>10, <2>11, <3>2, ChangeBalanced, BalancedTook
  <2> HIDE DEF m4
  <2>13. c \in RUN /\ Took(m3, c, pino) /\ c.disk = m4.disk
    <3>1. c \in RUN /\ Balanced(m4, c)
      BY <2>10, <2>12, AddLinksBalanced
    <3>2. c.disk = m4.disk
      BY <2>10, <2>12, AddLinksIs, -1 \in Int
    <3> HIDE DEF c
    <3>3. QED
      BY <2>10, <2>12, <3>1, <3>2, BalancedTook
  <2> HIDE DEF c
  <2>14. d \in RUN /\ Balanced(m3, d)
    BY <2>7, <2>10, <2>13, iputBalanced
  <2>15. d.disk.imap = c.disk.imap
    BY <2>10, <2>13, iputIs DEF Puts
  <2> HIDE DEF d
  <2>16. Took(m, d, ino) /\ ino \notin d.disk.imap
    BY <2>2, <2>7, <2>8, <2>12, <2>13, <2>14, <2>15, BalancedTook
  <2>17. QED
    BY <1>2, <1>7, <2>0, <2>14, <2>16 DEF ino
<1>8. QED
  BY <1>6, <1>7

LEMMA mycpIs ==
  ASSUME NEW m \in RUN, NEW s, NEW t, Named(s), Named(t), Copyable(m, s, t)
  PROVE  mycp(m, s, t) \in RUN
<1> DEFINE ino == getino(m, s)
           m1 == iget(m, ino)
           m2 == creat_file(m1, t)
           r == Copied(m, s, t)
           copy == getino(r, t)
           g == iget(r, copy)
<1>1. ino \in Ino /\ t \in Seq(Name) /\ dirname(t) \in Seq(Name)
  BY WalkLast, getinoIs DEF Named, Copyable, Exists
<1>2. /\ getino(m, dirname(t)) # 0 /\ (getino(m, t) = 0 => FreeIno(m) # 0)
      /\ Copies(m, t) => copy # 0
  BY DEF Copyable, Makeable, HasParent
<1>3. r = IF m1.cache[ino].INODE.type = "reg" THEN iput(m2, ino) ELSE m2
  BY DEF Copied
<1>4. mycp(m, s, t) = IF Copies(m, t) THEN iput(g, copy) ELSE r
  BY DEF mycp
<1> HIDE DEF ino, r
<1>5. m1 \in RUN /\ Alike(m, m1) /\ m1.disk = m.disk
  BY <1>1, igetTook, igetAlike, igetIs
<1> HIDE DEF m1
<1>6. getino(m1, t) = getino(m, t) /\ getino(m1, dirname(t)) = getino(m, dirname(t))
      /\ FreeIno(m1) = FreeIno(m)
  BY <1>1, <1>5, AlikeWalk DEF FreeIno
<1>7. m2 \in RUN
  BY <1>2, <1>5, <1>6, creat_fileRefs
<1> HIDE DEF m2
<1>8. r \in RUN
  <2>1. iput(m2, ino) \in RUN
    BY <1>1, <1>7, iputIs DEF Puts
  <2>2. QED
    BY <1>3, <1>7, <2>1
<1>9. copy \in Ino \cup {0}
  BY <1>1, <1>8, getinoIs
<1> HIDE DEF copy
<1>10. Copies(m, t) => iput(g, copy) \in RUN
  BY <1>2, <1>8, <1>9, igetTook, iputIs DEF Puts
<1>11. QED
  BY <1>4, <1>8, <1>10

LEMMA mymvIs ==
  ASSUME NEW m \in RUN, NEW s, NEW t, Named(s), Named(t),
         Exists(m, s), HasParent(m, t),
         getino(m, t) = 0 => /\ Copyable(mylink(m, s, t), s, t)
                             /\ Exists(mycp(mylink(m, s, t), s, t), s)
  PROVE  mymv(m, s, t) \in RUN
<1> DEFINE l == mylink(m, s, t)
           c == mycp(l, s, t)
           u == myunlink(c, s)
<1>1. mymv(m, s, t) = IF getino(m, t) # 0 THEN m ELSE u
  BY DEF mymv
<1>2. CASE getino(m, t) # 0
  BY <1>1, <1>2
<1>3. CASE getino(m, t) = 0
  <2>1. l \in RUN
    BY mylinkRefs DEF Exists, HasParent
  <2>2. Copyable(l, s, t) /\ getino(c, s) # 0
    BY <1>3 DEF Exists
  <2> HIDE DEF l
  <2>3. c \in RUN
    BY <2>1, <2>2, mycpIs
  <2> HIDE DEF c
  <2>4. u \in RUN
    BY <2>2, <2>3, myunlinkRefs
  <2>5. QED
    BY <1>1, <1>3, <2>4
<1>4. QED
  BY <1>2, <1>3

-----------------------------------------------------------------------------
(***************************************************************************)
(* The types of all variables, in all states.                              *)
(***************************************************************************)
Typed ==
  /\ disk \in DISK /\ cache \in CACHE
  /\ kills \in 0..MaxKill /\ past \subseteq Event /\ session \in Sessions

LEMMA TypedTypeOK == Typed => TypeOK
<1> SUFFICES ASSUME Typed PROVE TypeOK
  OBVIOUS
<1>1. /\ disk.imap \subseteq Ino /\ disk.bmap \subseteq Block
      /\ disk.itab \in [Ino -> INODE] /\ disk.dirs \in [Block \cup {0} -> DIR]
  BY DEF Typed, DISK
<1>2. ASSUME NEW b \in Block \cup {0}
      PROVE  /\ disk.dirs[b].parent \in Ino
             /\ DOMAIN disk.dirs[b].ents \subseteq Name
             /\ \A nm \in DOMAIN disk.dirs[b].ents : disk.dirs[b].ents[nm] \in Ino
  <2>1. disk.dirs[b].parent \in Ino /\ disk.dirs[b].ents \in ENTS
    BY <1>1 DEF DIR
  <2>2. QED
    BY <2>1, EntsHave
<1>3. QED
  BY <1>1, <1>2 DEF Typed, TypeOK, CACHE, SLOT

LEMMA StartIs ==
  ASSUME Typed, NEW stale \in BOOLEAN
  PROVE  /\ Start(stale) \in RUN
         /\ Start(stale).disk = disk /\ Start(stale).cache = cache
         /\ Start(stale).log = <<>> /\ Start(stale).blockless = FALSE
BY DEF Typed, Start, RUN

\* A program that is started again finds nothing in memory but the root.
LEMMA BootIs ==
  ASSUME NEW d \in DISK
  PROVE  /\ BootCache(d) \in CACHE
         /\ \A i \in Ino : BootCache(d)[i].refCount > 0 =>
                             i = Root /\ BootCache(d)[i].INODE = d.itab[i]
<1>1. d.itab[Root] \in INODE
  BY RootIs DEF DISK
<1>2. [refCount |-> 3, dirty |-> FALSE, INODE |-> d.itab[Root]] \in SLOT
  BY <1>1 DEF SLOT
<1>3. QED
  BY <1>2, InodesAre DEF BootCache, BootRefs, CACHE, Uncached

LEMMA RestartTyped ==
  ASSUME Typed, NEW d \in DISK, NEW c, NEW events \in SUBSET Event,
         Restart(d, c, events), kills' \in 0..MaxKill, session' = session
  PROVE  Typed'
<1>1. Lost(d, c) \subseteq Event
  BY DEF Lost, Event, Spoiling
<1>2. past' \subseteq Event
  BY <1>1 DEF Restart, Typed, Event
<1>3. QED
  BY <1>2, BootIs DEF Restart, Typed

LEMMA RunTyped ==
  ASSUME Typed, NEW c, NEW m \in RUN, Run(c, m), session' = session
  PROVE  Typed'
<1>1. /\ m.disk \in DISK /\ m.cache \in CACHE /\ m.log \in Seq(WRITE)
      /\ Blockless(m) \subseteq Event
  BY DEF RUN, Blockless, Event, Spoiling
<1>2. CASE /\ disk' = m.disk /\ cache' = m.cache
           /\ past' = past \cup Blockless(m) /\ UNCHANGED kills
  BY <1>1, <1>2 DEF Typed
<1>3. CASE \E k \in DOMAIN m.log :
             /\ Killed
             /\ Restart(m.log[k].disk, m.log[k].cache,
                        Blockless(m) \cup Halfway(c, k))
  <2>1. PICK k \in DOMAIN m.log :
             /\ Killed
             /\ Restart(m.log[k].disk, m.log[k].cache,
                        Blockless(m) \cup Halfway(c, k))
    BY <1>3
  <2>2. m.log[k].disk \in DISK
    <3>1. m.log[k] \in WRITE
      BY <1>1
    <3>2. QED
      BY <3>1 DEF WRITE
  <2>3. kills' \in 0..MaxKill
    BY <2>1, NamespaceAssumption DEF Killed, Typed
  <2>4. Halfway(c, k) \subseteq Event
    BY DEF Halfway, Event, Spoiling
  <2>5. QED
    BY <1>1, <2>1, <2>2, <2>3, <2>4, RestartTyped
<1>4. QED
  BY <1>2, <1>3 DEF Run

LEMMA FlushTyped ==
  ASSUME Typed, NEW S
  PROVE  Flush(S) \in DISK
<1> DEFINE t == [i \in Ino |-> IF i \in S THEN cache[i].INODE ELSE disk.itab[i]]
<1>1. t \in [Ino -> INODE]
  BY DEF Typed, DISK, CACHE, SLOT
<1>2. Flush(S) = [disk EXCEPT !.itab = t]
  BY DEF Typed, DISK, Flush
<1> HIDE DEF t
<1>3. QED
  BY <1>1, <1>2 DEF Typed, DISK

LEMMA InitTyped == Init => Typed
<1> SUFFICES ASSUME Init PROVE Typed
  OBVIOUS
<1> DEFINE ip == [type |-> "dir", links |-> 2, block |-> RootBlock]
<1>1. ip \in INODE
  BY NamespaceAssumption, LinksIs DEF INODE
<1>2. FreshDisk \in DISK
  BY <1>1, RootIs, InodesAre, NamespaceAssumption DEF FreshDisk, DISK
<1>3. QED
  BY <1>2, BootIs, NamespaceAssumption DEF Init, Typed

LEMMA CreatTyped ==
  ASSUME Typed, NEW p \in Path, Creat(p), session' = session
  PROVE  Typed'
<1>1. Start(FALSE) \in RUN
  BY StartIs
<1>2. creat_file(Start(FALSE), p) \in RUN
  BY <1>1, PathsNamed, creat_fileRefs DEF Creat, Makeable, HasParent
<1>3. QED
  BY <1>2, RunTyped DEF Creat

LEMMA MkdirTyped ==
  ASSUME Typed, NEW p \in Path, Mkdir(p), session' = session
  PROVE  Typed'
<1>1. Start(FALSE) \in RUN
  BY StartIs
<1>2. make_dir(Start(FALSE), p) \in RUN
  BY <1>1, PathsNamed, make_dirRefs DEF Mkdir, Makeable, HasParent
<1>3. QED
  BY <1>2, RunTyped DEF Mkdir

LEMMA LinkTyped ==
  ASSUME Typed, NEW p \in Path, NEW q \in Path, Link(p, q), session' = session
  PROVE  Typed'
<1>1. Start(FALSE) \in RUN
  BY StartIs
<1>2. mylink(Start(FALSE), p, q) \in RUN
  BY <1>1, PathsNamed, mylinkRefs DEF Link, Exists, HasParent
<1>3. QED
  BY <1>2, RunTyped DEF Link

LEMMA UnlinkTyped ==
  ASSUME Typed, NEW p \in Path, Unlink(p), session' = session
  PROVE  Typed'
<1>1. PICK stale \in BOOLEAN :
        /\ Exists(Start(stale), p)
        /\ Run("unlink", myunlink(Start(stale), p))
  BY DEF Unlink
<1>2. Start(stale) \in RUN
  BY StartIs
<1>3. myunlink(Start(stale), p) \in RUN
  BY <1>1, <1>2, PathsNamed, myunlinkRefs DEF Exists
<1>4. QED
  BY <1>1, <1>3, RunTyped

LEMMA SymlinkTyped ==
  ASSUME Typed, NEW p \in Path, NEW q \in Path, Symlink(p, q), session' = session
  PROVE  Typed'
<1>1. Start(FALSE) \in RUN
  BY StartIs
<1>2. mysymlink(Start(FALSE), p, q) \in RUN
  BY <1>1, PathsNamed, mysymlinkRefs DEF Symlink, Exists, Makeable, HasParent
<1>3. QED
  BY <1>2, RunTyped DEF Symlink

LEMMA RmdirTyped ==
  ASSUME Typed, NEW p \in Path, Rmdir(p), session' = session
  PROVE  Typed'
<1>1. Start(FALSE) \in RUN
  BY StartIs
<1>2. myrmdir(Start(FALSE), p) \in RUN
  BY <1>1, PathsNamed, myrmdirRefs DEF Rmdir, Exists
<1>3. QED
  BY <1>2, RunTyped DEF Rmdir

LEMMA CpTyped ==
  ASSUME Typed, NEW p \in Path, NEW q \in Path, Cp(p, q), session' = session
  PROVE  Typed'
<1>1. Start(FALSE) \in RUN
  BY StartIs
<1>2. mycp(Start(FALSE), p, q) \in RUN
  BY <1>1, PathsNamed, mycpIs DEF Cp
<1>3. QED
  BY <1>2, RunTyped DEF Cp

LEMMA MvTyped ==
  ASSUME Typed, NEW p \in Path, NEW d \in Path \cup {<<>>}, Mv(p, d),
         session' = session
  PROVE  Typed'
<1> DEFINE m == Start(FALSE)
<1>1. PICK t \in {Append(d, basename(p)), d \o p} :
        /\ Exists(m, p) /\ HasParent(m, t)
        /\ getino(m, t) = 0 => /\ Copyable(mylink(m, p, t), p, t)
                               /\ Exists(mycp(mylink(m, p, t), p, t), p)
        /\ Run("mv", mymv(m, p, t))
  BY DEF Mv
<1>2. m \in RUN
  BY StartIs
<1>3. Named(p) /\ Named(t)
  BY PathsNamed
<1> HIDE DEF m
<1>4. mymv(m, p, t) \in RUN
  BY <1>1, <1>2, <1>3, mymvIs
<1>5. QED
  BY <1>1, <1>4, RunTyped

LEMMA QuitTyped ==
  ASSUME Typed, Quit \/ Kill, session' = session
  PROVE  Typed'
<1>1. CASE Quit
  BY <1>1, FlushTyped, RestartTyped DEF Quit, Typed
<1>2. CASE Kill
  <2>1. PICK S \in SUBSET Flushed : Restart(Flush(S), cache, {})
    BY <1>2 DEF Kill
  <2>2. kills' \in 0..MaxKill
    BY <1>2, NamespaceAssumption DEF Kill, Killed, Typed
  <2>3. QED
    BY <2>1, <2>2, FlushTyped, RestartTyped
<1>3. QED
  BY <1>1, <1>2

LEMMA NextTyped == Typed /\ [Next]_vars => Typed'
<1> SUFFICES ASSUME Typed, [Next]_vars PROVE Typed'
  OBVIOUS
<1>1. CASE UNCHANGED vars
  BY <1>1 DEF vars, Typed
<1>2. CASE Next
  <2>0. session' = session
    BY <1>2 DEF Next
  <2>1. CASE \E p \in Path : Creat(p)
    BY <2>0, <2>1, CreatTyped
  <2>2. CASE \E p \in Path : Mkdir(p)
    BY <2>0, <2>2, MkdirTyped
  <2>3. CASE \E p, q \in Path : Link(p, q)
    BY <2>0, <2>3, LinkTyped
  <2>4. CASE \E p \in Path : Unlink(p)
    BY <2>0, <2>4, UnlinkTyped
  <2>5. CASE \E p, q \in Path : Symlink(p, q)
    BY <2>0, <2>5, SymlinkTyped
  <2>6. CASE \E p \in Path : Rmdir(p)
    BY <2>0, <2>6, RmdirTyped
  <2>7. CASE \E p, q \in Path : Cp(p, q)
    BY <2>0, <2>7, CpTyped
  <2>8. CASE \E p \in Path, d \in Path \cup {<<>>} : Mv(p, d)
    BY <2>0, <2>8, MvTyped
  <2>9. CASE Quit \/ Kill
    BY <2>0, <2>9, QuitTyped
  <2>10. QED
    BY <1>2, <2>1, <2>2, <2>3, <2>4, <2>5, <2>6, <2>7, <2>8, <2>9 DEF Next
<1>3. QED
  BY <1>1, <1>2

LEMMA AlwaysTyped == Spec => []Typed
<1>1. QED
  BY InitTyped, NextTyped, PTL DEF Spec

\* What is on the disk and in memory stays well typed through all commands,
\* kills and restarts, sound or not.
THEOREM TypeCorrect == Spec => []TypeOK
<1>1. QED
  BY AlwaysTyped, TypedTypeOK, PTL

-----------------------------------------------------------------------------
(***************************************************************************)
(* References are put back, in all states.                                 *)
(***************************************************************************)
\* What RefsBalanced says of a step.
PutsBack ==
  Returns /\ disk'.dirs # disk.dirs /\ session \cap {"cp", "mv"} = {} =>
    \A i \in Ino :
      \/ cache'[i].refCount = cache[i].refCount
      \/ /\ i \notin disk'.imap /\ Look(i).type = "dir"
         /\ cache'[i].refCount = cache[i].refCount + 1

LEMMA RunReturns ==
  ASSUME NEW c, NEW m, Run(c, m), Returns
  PROVE  c \in session /\ disk' = m.disk /\ cache' = m.cache
BY DEF Run, Returns, Restart

LEMMA RunPutsBack ==
  ASSUME Typed, NEW stale \in BOOLEAN, NEW c, NEW m, Run(c, m),
         m.disk = disk \/ Balanced(Start(stale), m)
  PROVE  PutsBack
<1> SUFFICES ASSUME Returns, disk'.dirs # disk.dirs PROVE PutsBack
  BY DEF PutsBack
<1>1. disk' = m.disk /\ cache' = m.cache
  BY RunReturns
<1>2. Balanced(Start(stale), m)
  BY <1>1
<1>3. QED
  BY <1>1, <1>2, StartIs DEF PutsBack, Balanced

LEMMA igetDisk ==
  ASSUME NEW m \in RUN, NEW p \in Seq(Name), getino(m, p) # 0
  PROVE  iget(m, getino(m, p)).disk = m.disk /\ iget(m, getino(m, p)) \in RUN
BY getinoIs, igetIs

LEMMA NextPutsBack == Typed /\ [Next]_vars => PutsBack
<1> SUFFICES ASSUME Typed, [Next]_vars PROVE PutsBack
  OBVIOUS
<1> DEFINE m == Start(FALSE)
<1>0. m \in RUN /\ m.disk = disk /\ m.cache = cache
  BY StartIs
<1>1. CASE UNCHANGED vars
  BY <1>1 DEF vars, PutsBack
<1>2. CASE \E p \in Path : Creat(p)
  <2>1. PICK p \in Path : Creat(p)
    BY <1>2
  <2>2. Named(p) /\ dirname(p) \in Seq(Name) /\ getino(m, dirname(p)) # 0
        /\ (getino(m, p) = 0 => FreeIno(m) # 0)
    BY <2>1, PathsNamed, WalkLast DEF Creat, Makeable, HasParent, Named
  <2>3. Run("creat", creat_file(m, p))
    BY <2>1 DEF Creat
  <2> HIDE DEF m
  <2>4. creat_file(m, p).disk = disk \/ Balanced(m, creat_file(m, p))
    BY <1>0, <2>2, creat_fileRefs, igetDisk
  <2>5. QED
    BY <2>3, <2>4, RunPutsBack DEF m
<1>3. CASE \E p \in Path : Mkdir(p)
  <2>1. PICK p \in Path : Mkdir(p)
    BY <1>3
  <2>2. Named(p) /\ dirname(p) \in Seq(Name) /\ getino(m, dirname(p)) # 0
        /\ (getino(m, p) = 0 => FreeIno(m) # 0)
    BY <2>1, PathsNamed, WalkLast DEF Mkdir, Makeable, HasParent, Named
  <2>3. Run("mkdir", make_dir(m, p))
    BY <2>1 DEF Mkdir
  <2> HIDE DEF m
  <2>4. make_dir(m, p).disk = disk \/ Balanced(m, make_dir(m, p))
    BY <1>0, <2>2, make_dirRefs, igetDisk
  <2>5. QED
    BY <2>3, <2>4, RunPutsBack DEF m
<1>4. CASE \E p, q \in Path : Link(p, q)
  <2>1. PICK p \in Path, q \in Path : Link(p, q)
    BY <1>4
  <2>2. Named(p) /\ Named(q) /\ getino(m, p) # 0 /\ getino(m, dirname(q)) # 0
        /\ p \in Seq(Name)
    BY <2>1, PathsNamed DEF Link, Exists, HasParent, Named
  <2>3. Run("link", mylink(m, p, q))
    BY <2>1 DEF Link
  <2> HIDE DEF m
  <2>4. mylink(m, p, q).disk = disk \/ Balanced(m, mylink(m, p, q))
    BY <1>0, <2>2, mylinkRefs, igetDisk
  <2>5. QED
    BY <2>3, <2>4, RunPutsBack DEF m
<1>5. CASE \E p \in Path : Unlink(p)
  <2>1. PICK p \in Path, stale \in BOOLEAN :
          Exists(Start(stale), p) /\ Run("unlink", myunlink(Start(stale), p))
    BY <1>5 DEF Unlink
  <2> DEFINE u == Start(stale)
  <2>2. Named(p) /\ p \in Seq(Name) /\ getino(u, p) # 0 /\ u \in RUN /\ u.disk = disk
    BY <2>1, PathsNamed, StartIs DEF Exists, Named
  <2>3. Run("unlink", myunlink(u, p))
    BY <2>1
  <2> HIDE DEF u
  <2>4. myunlink(u, p).disk = disk \/ Balanced(u, myunlink(u, p))
    BY <2>2, myunlinkRefs, igetDisk
  <2>5. QED
    BY <2>3, <2>4, RunPutsBack DEF u
<1>6. CASE \E p, q \in Path : Symlink(p, q)
  <2>1. PICK p \in Path, q \in Path : Symlink(p, q)
    BY <1>6
  <2>2. /\ Named(p) /\ Named(q) /\ p \in Seq(Name) /\ q \in Seq(Name)
        /\ getino(m, p) # 0 /\ getino(m, dirname(q)) # 0
        /\ View(m, getino(m, dirname(q))).type = "dir"
        /\ getino(m, q) = 0 => FreeIno(m) # 0
    BY <2>1, PathsNamed DEF Symlink, Exists, Makeable, HasParent, Named
  <2>3. Run("symlink", mysymlink(m, p, q))
    BY <2>1 DEF Symlink
  <2> HIDE DEF m
  <2> DEFINE m1 == iget(m, getino(m, p))
  <2>4. m1 \in RUN /\ m1.disk = disk
    BY <1>0, <2>2, igetDisk
  <2>5. getino(m, q) \in Ino \cup {0}
    BY <1>0, <2>2, getinoIs
  <2>6. getino(m, q) # 0 => mysymlink(m, p, q) = iget(m1, getino(m, q))
    BY <1>0, <2>2, mysymlinkRefs
  <2>7. getino(m, q) = 0 => Balanced(m, mysymlink(m, p, q))
    BY <1>0, <2>2, mysymlinkRefs
  <2> HIDE DEF m1
  <2>8. mysymlink(m, p, q).disk = disk \/ Balanced(m, mysymlink(m, p, q))
    BY <2>4, <2>5, <2>6, <2>7, igetIs
  <2>9. QED
    BY <2>3, <2>8, RunPutsBack DEF m
<1>7. CASE \E p \in Path : Rmdir(p)
  <2>1. PICK p \in Path : Rmdir(p)
    BY <1>7
  <2> DEFINE ino == getino(m, p)
             m0 == iget(m, ino)
             m1 == iget(m0, ino)
             r == myrmdir(m, p)
  <2>2. Named(p) /\ p \in Seq(Name) /\ ino # 0
    BY <2>1, PathsNamed DEF Rmdir, Exists, Named
  <2>3. Run("rmdir", r)
    BY <2>1 DEF Rmdir
  <2>4. View(m, ino) = Look(ino)
    BY DEF Look, Now
  <2> HIDE DEF m
  <2>5. ino \in Ino
    BY <1>0, <2>2, getinoIs
  <2>6. \/ r = m1
        \/ View(m, ino).type = "dir" /\ ino \notin r.disk.imap /\ Took(m, r, ino)
    BY <1>0, <2>2, myrmdirRefs
  <2> HIDE DEF ino, r
  <2>7. m1.disk = disk
    BY <1>0, <2>5, igetIs
  <2> HIDE DEF m1
  <2>8. CASE r = m1
    BY <2>3, <2>7, <2>8, RunPutsBack
  <2>9. CASE View(m, ino).type = "dir" /\ ino \notin r.disk.imap /\ Took(m, r, ino)
    <3>1. SUFFICES ASSUME Returns PROVE PutsBack
      BY DEF PutsBack
    <3>2. disk' = r.disk /\ cache' = r.cache
      BY <2>3, <3>1, RunReturns
    <3>3. \A i \in Ino : cache[i].refCount \in Nat
      BY DEF Typed, CACHE, SLOT
    <3>4. QED
      BY <1>0, <2>4, <2>9, <3>2, <3>3 DEF PutsBack, Took
  <2>10. QED
    BY <2>6, <2>8, <2>9
<1>8. CASE (\E p, q \in Path : Cp(p, q)) \/ \E p \in Path, d \in Path \cup {<<>>} : Mv(p, d)
  <2>1. "cp" \in session \/ "mv" \in session
    BY <1>8 DEF Cp, Mv, Run
  <2>2. QED
    BY <2>1 DEF PutsBack
<1>9. CASE Quit \/ Kill
  <2>1. ~Returns
    BY <1>9 DEF Quit, Kill, Restart, Returns
  <2>2. QED
    BY <2>1 DEF PutsBack
<1>10. QED
  BY <1>1, <1>2, <1>3, <1>4, <1>5, <1>6, <1>7, <1>8, <1>9 DEF Next

\* A command that changes a directory and returns has put back each reference
\* it took, except that rmdir keeps one to the directory it has removed.  No
\* state is left out: neither those after a kill, nor those with a dangling
\* entry.
THEOREM BalancedRefs == Spec => RefsBalanced
<1>1. Typed /\ [Next]_vars => [PutsBack]_vars
  BY NextPutsBack
<1>2. QED
  BY <1>1, AlwaysTyped, PTL DEF Spec, RefsBalanced, PutsBack

-----------------------------------------------------------------------------
(***************************************************************************)
(* Graphs of entries                                                       *)
(*                                                                         *)
(* What directories contain is a function from inodes and names to inodes. *)
(* What a walk from the root can reach is the least set that has the root  *)
(* and is closed.                                                          *)
(***************************************************************************)
GRAPH == [Ino -> [Name -> Ino \cup {0}]]

Closed(K, A) == Root \in A /\ \A d \in A, nm \in Name : K[d][nm] \in A \cup {0}
Reach(K) == {i \in Ino : \A A \in SUBSET Ino : Closed(K, A) => i \in A}

\* The entries that name an inode.
Edges(K, i) == {e \in Reach(K) \X Name : K[e[1]][e[2]] = i}

LEMMA EdgesIs ==
  ASSUME NEW K, NEW i, NEW e, NEW x
  PROVE  <<e, x>> \in Edges(K, i) <=> e \in Reach(K) /\ x \in Name /\ K[e][x] = i
BY DEF Edges

LEMMA ReachIs ==
  ASSUME NEW K \in GRAPH
  PROVE  Reach(K) \subseteq Ino /\ Closed(K, Reach(K))
<1>1. Root \in Reach(K)
  BY RootIs DEF Reach, Closed
<1>2. ASSUME NEW d \in Reach(K), NEW nm \in Name
      PROVE  K[d][nm] \in Reach(K) \cup {0}
  <2>1. K[d][nm] \in Ino \cup {0}
    BY DEF Reach, GRAPH
  <2>2. ASSUME NEW A \in SUBSET Ino, Closed(K, A), K[d][nm] # 0
        PROVE  K[d][nm] \in A
    BY <2>2 DEF Reach, Closed
  <2>3. QED
    BY <2>1, <2>2 DEF Reach
<1>3. QED
  BY <1>1, <1>2 DEF Closed, Reach

LEMMA ReachLeast ==
  ASSUME NEW K, NEW A \in SUBSET Ino, Closed(K, A)
  PROVE  Reach(K) \subseteq A
BY DEF Reach

LEMMA ReachParent ==
  ASSUME NEW K \in GRAPH, NEW i \in Reach(K), i # Root
  PROVE  \E d \in Reach(K), nm \in Name : K[d][nm] = i
<1>1. SUFFICES ASSUME \A d \in Reach(K), nm \in Name : K[d][nm] # i PROVE FALSE
  OBVIOUS
<1>2. Closed(K, Reach(K) \ {i}) /\ Reach(K) \subseteq Ino
  BY <1>1, ReachIs DEF Closed
<1> DEFINE A == Reach(K) \ {i}
<1>3. A \in SUBSET Ino /\ Closed(K, A)
  BY <1>2
<1> HIDE DEF A
<1>4. Reach(K) \subseteq A
  BY <1>3, ReachLeast
<1>5. QED
  BY <1>4 DEF A

LEMMA ReachSame ==
  ASSUME NEW K \in GRAPH, NEW L \in GRAPH,
         \A d \in Reach(K), nm \in Name : L[d][nm] = K[d][nm]
  PROVE  /\ Reach(L) = Reach(K)
         /\ \A i : Edges(L, i) = Edges(K, i)
<1>1. Closed(L, Reach(K)) /\ Reach(K) \subseteq Ino
  BY ReachIs DEF Closed
<1>2. Reach(L) \subseteq Reach(K)
  BY <1>1, ReachLeast
<1>3. Closed(K, Reach(L)) /\ Reach(L) \subseteq Ino
  BY <1>2, ReachIs DEF Closed
<1>4. Reach(K) \subseteq Reach(L)
  BY <1>3, ReachLeast
<1>5. QED
  BY <1>2, <1>4 DEF Edges

\* An entry of d named a for i is written where there was none.
Enters(K, d, a, i, L) ==
  /\ d \in Reach(K) /\ a \in Name /\ i \in Ino /\ K[d][a] = 0
  /\ \A e \in Reach(K), x \in Name :
       L[e][x] = IF e = d /\ x = a THEN i ELSE K[e][x]
  /\ i \notin Reach(K) => \A x \in Name : L[i][x] = 0

LEMMA ReachEnters ==
  ASSUME NEW K \in GRAPH, NEW L \in GRAPH, NEW d, NEW a, NEW i,
         Enters(K, d, a, i, L)
  PROVE  /\ Reach(L) = Reach(K) \cup {i}
         /\ <<d, a>> \notin Edges(K, i)
         /\ Edges(L, i) = Edges(K, i) \cup {<<d, a>>}
         /\ \A j \in Ino \ {i} : Edges(L, j) = Edges(K, j)
<1> DEFINE R == Reach(K)
           A == R \cap Reach(L)
<1>1. Closed(K, R) /\ R \subseteq Ino /\ Closed(L, Reach(L)) /\ i # 0
  BY ReachIs, RootIs DEF Enters
<1>2. Reach(L) \subseteq R \cup {i}
  <2>1. Closed(L, R \cup {i})
    BY <1>1 DEF Closed, Enters
  <2>2. R \cup {i} \in SUBSET Ino
    BY <1>1 DEF Enters
  <2>3. QED
    BY <2>1, <2>2, ReachLeast
<1>3. R \subseteq A
  <2>1. Closed(K, A)
    BY <1>1 DEF Closed, Enters
  <2>2. A \in SUBSET Ino
    BY <1>1
  <2> HIDE DEF A
  <2>3. QED
    BY <2>1, <2>2, ReachLeast
<1>4. i \in Reach(L)
  <2>1. L[d][a] = i /\ d \in Reach(L)
    BY <1>3 DEF Enters
  <2>2. QED
    BY <1>1, <2>1 DEF Closed, Enters
<1>5. Reach(L) = R \cup {i}
  BY <1>2, <1>3, <1>4
<1> HIDE DEF R, A
<1>6. <<d, a>> \notin Edges(K, i)
  BY <1>1 DEF Edges, Enters
<1>7. Edges(L, i) = Edges(K, i) \cup {<<d, a>>}
  <2>1. ASSUME NEW e, NEW x
        PROVE  <<e, x>> \in Edges(L, i) <=> <<e, x>> \in Edges(K, i) \cup {<<d, a>>}
    BY <1>1, <1>5, EdgesIs DEF Enters, R
  <2>2. QED
    BY <2>1 DEF Edges, Enters
<1>8. ASSUME NEW j \in Ino \ {i} PROVE Edges(L, j) = Edges(K, j)
  <2>1. ASSUME NEW e, NEW x
        PROVE  <<e, x>> \in Edges(L, j) <=> <<e, x>> \in Edges(K, j)
    BY <1>1, <1>5, RootIs, EdgesIs DEF Enters, R
  <2>2. QED
    BY <2>1 DEF Edges
<1>9. QED
  BY <1>5, <1>6, <1>7, <1>8 DEF R

\* An entry of d named a is removed; it was for i, which has no entries.
Removes(K, d, a, i, L) ==
  /\ d \in Reach(K) /\ a \in Name /\ i \in Ino \ {Root} /\ K[d][a] = i
  /\ \A x \in Name : K[i][x] = 0
  /\ \A e \in Reach(K), x \in Name :
       L[e][x] = IF e = d /\ x = a THEN 0 ELSE K[e][x]

LEMMA ReachRemoves ==
  ASSUME NEW K \in GRAPH, NEW L \in GRAPH, NEW d, NEW a, NEW i,
         Removes(K, d, a, i, L)
  PROVE  /\ Reach(L) \cup {i} = Reach(K)
         /\ <<d, a>> \in Edges(K, i)
         /\ Edges(L, i) = Edges(K, i) \ {<<d, a>>}
         /\ i \in Reach(L) <=> Edges(L, i) # {}
         /\ \A j \in Ino \ {i} : Edges(L, j) = Edges(K, j)
<1> DEFINE R == Reach(K)
           A == Reach(L) \cup {i}
<1>1. /\ Closed(K, R) /\ R \subseteq Ino /\ Closed(L, Reach(L))
      /\ Reach(L) \subseteq Ino /\ i # 0 /\ i \in R /\ d # i
  <2>1. Closed(K, R) /\ R \subseteq Ino /\ Closed(L, Reach(L))
        /\ Reach(L) \subseteq Ino /\ i # 0
    BY ReachIs, RootIs DEF Removes
  <2>2. QED
    BY <2>1 DEF Closed, Removes
<1>2. Reach(L) \subseteq R
  <2>1. Closed(L, R)
    BY <1>1 DEF Closed, Removes
  <2>2. QED
    BY <1>1, <2>1, ReachLeast
<1>3. R \subseteq A
  <2>1. Closed(K, A)
    BY <1>1, <1>2 DEF Closed, Removes
  <2>2. A \in SUBSET Ino
    BY <1>1
  <2> HIDE DEF A
  <2>3. QED
    BY <2>1, <2>2, ReachLeast
<1>4. Reach(L) \cup {i} = R
  BY <1>1, <1>2, <1>3
<1> HIDE DEF R, A
<1>5. <<d, a>> \in Edges(K, i)
  BY DEF Edges, Removes
<1>6. \A e \in R \ {i} : e \in Reach(L)
  BY <1>4
<1>7. Edges(L, i) = Edges(K, i) \ {<<d, a>>}
  <2>1. ASSUME NEW e, NEW x
        PROVE  <<e, x>> \in Edges(L, i) <=> <<e, x>> \in Edges(K, i) \ {<<d, a>>}
    BY <1>1, <1>4, EdgesIs DEF Removes, R
  <2>2. QED
    BY <2>1 DEF Edges
<1>8. ASSUME NEW j \in Ino \ {i} PROVE Edges(L, j) = Edges(K, j)
  <2>1. ASSUME NEW e, NEW x
        PROVE  <<e, x>> \in Edges(L, j) <=> <<e, x>> \in Edges(K, j)
    <3>1. ASSUME e \in Reach(L), x \in Name, L[e][x] = j
          PROVE  e \in Reach(K) /\ K[e][x] = j
      BY <1>4, <3>1, RootIs DEF Removes, R
    <3>2. ASSUME e \in Reach(K), x \in Name, K[e][x] = j
          PROVE  e \in Reach(L) /\ L[e][x] = j
      BY <1>4, <3>2, RootIs DEF Removes, R
    <3>3. QED
      BY <3>1, <3>2, EdgesIs
  <2>2. QED
    BY <2>1 DEF Edges
<1>9. i \in Reach(L) <=> Edges(L, i) # {}
  <2>1. ASSUME i \in Reach(L) PROVE Edges(L, i) # {}
    <3>1. i # Root
      BY DEF Removes
    <3>2. PICK e \in Reach(L), x \in Name : L[e][x] = i
      BY <2>1, <3>1, ReachParent
    <3>3. QED
      BY <3>2, EdgesIs
  <2>2. ASSUME Edges(L, i) # {} PROVE i \in Reach(L)
    <3>1. PICK p : p \in Edges(L, i)
      BY <2>2
    <3>2. p[1] \in Reach(L) /\ p[2] \in Name /\ L[p[1]][p[2]] = i
      BY <3>1 DEF Edges
    <3>3. QED
      BY <1>1, <3>2 DEF Closed
  <2>3. QED
    BY <2>1, <2>2
<1>10. QED
  BY <1>4, <1>5, <1>7, <1>8, <1>9 DEF R

-----------------------------------------------------------------------------
(***************************************************************************)
(* The tree that a command sees                                            *)
(***************************************************************************)
SeenDir(m, i) == View(m, i).type = "dir"

Kids(m) == [d \in Ino |-> [nm \in Name |->
              IF SeenDir(m, d) THEN Found(m.disk, View(m, d).block, nm) ELSE 0]]

Seen(m) == Reach(Kids(m))

\* The names of the subdirectories of d.
Subs(m, d) == {nm \in Name : Kids(m)[d][nm] # 0 /\ SeenDir(m, Kids(m)[d][nm])}

Rooted(ip) == ip.type = "dir" /\ ip.block = RootBlock

\* Every inode seen was written; directories have blocks of their own and one
\* entry each, in the directory their ".." names.
Tree(m) ==
  /\ \A i \in Seen(m) :
       /\ View(m, i).type # "none"
       /\ SeenDir(m, i) => View(m, i).block \in Block \ Metadata
       /\ ~SeenDir(m, i) => View(m, i).block = 0
  /\ \A i, j \in Seen(m) :
       SeenDir(m, i) /\ SeenDir(m, j) /\ View(m, i).block = View(m, j).block => i = j
  /\ Rooted(View(m, Root))
  /\ \A d \in Seen(m), a \in Name :
       Kids(m)[d][a] # 0 =>
         /\ Kids(m)[d][a] # Root
         /\ SeenDir(m, Kids(m)[d][a]) =>
              /\ m.disk.dirs[View(m, Kids(m)[d][a]).block].parent = d
              /\ Edges(Kids(m), Kids(m)[d][a]) = {<<d, a>>}

LEMMA KidsAre ==
  ASSUME NEW m \in RUN
  PROVE  /\ Kids(m) \in GRAPH
         /\ \A d \in Ino, nm \in Name : Kids(m)[d][nm] =
              IF SeenDir(m, d) THEN Found(m.disk, View(m, d).block, nm) ELSE 0
<1>1. ASSUME NEW d \in Ino, NEW nm \in Name
      PROVE  (IF SeenDir(m, d) THEN Found(m.disk, View(m, d).block, nm) ELSE 0)
               \in Ino \cup {0}
  <2>1. m.disk \in DISK /\ View(m, d).block \in Block \cup {0}
    BY ViewIs DEF RUN, INODE
  <2>2. QED
    BY <2>1, FoundIs
<1>2. QED
  BY <1>1 DEF Kids, GRAPH

LEMMA SeenIs ==
  ASSUME NEW m \in RUN
  PROVE  /\ Seen(m) \subseteq Ino /\ Root \in Seen(m)
         /\ \A d \in Seen(m), nm \in Name : Kids(m)[d][nm] \in Seen(m) \cup {0}
BY KidsAre, ReachIs DEF Seen, Closed

\* r shows the tree that m shows; the link counts may differ.
Keeps(m, r) ==
  \A i \in Seen(m) :
    /\ View(r, i).type # "none" /\ View(r, i).block = View(m, i).block
    /\ SeenDir(r, i) <=> SeenDir(m, i)
    /\ SeenDir(m, i) =>
         /\ \A nm \in Name : Found(r.disk, View(m, i).block, nm) =
                             Found(m.disk, View(m, i).block, nm)
         /\ r.disk.dirs[View(m, i).block].parent = m.disk.dirs[View(m, i).block].parent

LEMMA KeepsTree ==
  ASSUME NEW m \in RUN, NEW r \in RUN, Tree(m), Keeps(m, r)
  PROVE  /\ Tree(r) /\ Seen(r) = Seen(m)
         /\ \A d \in Seen(m), nm \in Name : Kids(r)[d][nm] = Kids(m)[d][nm]
         /\ \A i : Edges(Kids(r), i) = Edges(Kids(m), i)
         /\ \A d \in Seen(m) : Subs(r, d) = Subs(m, d)
<1>1. \A d \in Seen(m), nm \in Name : Kids(r)[d][nm] = Kids(m)[d][nm]
  BY KidsAre, SeenIs DEF Keeps
<1>2. Seen(r) = Seen(m) /\ \A i : Edges(Kids(r), i) = Edges(Kids(m), i)
  BY <1>1, KidsAre, ReachSame DEF Seen
<1>3. \A d \in Seen(m) : Subs(r, d) = Subs(m, d)
  <2>1. ASSUME NEW d \in Seen(m), NEW nm \in Name
        PROVE  nm \in Subs(r, d) <=> nm \in Subs(m, d)
    BY <1>1, SeenIs DEF Subs, Keeps
  <2>2. QED
    BY <2>1 DEF Subs
<1>4. Tree(r)
  <2>1. ASSUME NEW i \in Seen(r)
        PROVE  /\ View(r, i).type # "none"
               /\ SeenDir(r, i) => View(r, i).block \in Block \ Metadata
               /\ ~SeenDir(r, i) => View(r, i).block = 0
    BY <1>2 DEF Tree, Keeps
  <2>2. ASSUME NEW i \in Seen(r), NEW j \in Seen(r), SeenDir(r, i), SeenDir(r, j),
               View(r, i).block = View(r, j).block
        PROVE  i = j
    BY <1>2, <2>2 DEF Tree, Keeps
  <2>3. Rooted(View(r, Root))
    BY SeenIs DEF Tree, Keeps, Rooted, SeenDir
  <2>4. ASSUME NEW d \in Seen(r), NEW a \in Name, Kids(r)[d][a] # 0
        PROVE  /\ Kids(r)[d][a] # Root
               /\ SeenDir(r, Kids(r)[d][a]) =>
                    /\ r.disk.dirs[View(r, Kids(r)[d][a]).block].parent = d
                    /\ Edges(Kids(r), Kids(r)[d][a]) = {<<d, a>>}
    <3> DEFINE i == Kids(m)[d][a]
    <3>1. d \in Seen(m) /\ Kids(r)[d][a] = i /\ i # 0 /\ i \in Seen(m)
      BY <1>1, <1>2, <2>4, SeenIs
    <3>2. /\ i # Root
          /\ SeenDir(m, i) => /\ m.disk.dirs[View(m, i).block].parent = d
                              /\ Edges(Kids(m), i) = {<<d, a>>}
      BY <3>1 DEF Tree
    <3> HIDE DEF i
    <3>3. QED
      BY <1>2, <3>1, <3>2 DEF Keeps
  <2>5. QED
    BY <2>1, <2>2, <2>3, <2>4 DEF Tree
<1>5. QED
  BY <1>1, <1>2, <1>3, <1>4

\* What i may be to get an entry in d: a file that is seen, or an inode that is
\* not, but was written, without a block or with an empty one of its own.
Enterable(m, d, i) ==
  \/ i \in Seen(m) /\ ~SeenDir(m, i)
  \/ /\ i \notin Seen(m) /\ View(m, i).type # "none"
     /\ ~SeenDir(m, i) => View(m, i).block = 0
     /\ SeenDir(m, i) =>
          /\ View(m, i).block \in Block \ Metadata
          /\ \A j \in Seen(m) : SeenDir(m, j) => View(m, j).block # View(m, i).block
          /\ \A x \in Name : Found(m.disk, View(m, i).block, x) = 0
          /\ m.disk.dirs[View(m, i).block].parent = d

LEMMA RenamesView ==
  ASSUME NEW m, NEW b, NEW nm, NEW x, NEW r, Renames(m, b, nm, x, r)
  PROVE  \A j : View(r, j) = View(m, j) /\ (SeenDir(r, j) <=> SeenDir(m, j))
BY DEF Renames, Wrote, OnlyDirs, View, SeenDir

LEMMA EdgesSeen ==
  ASSUME NEW m \in RUN, NEW i \in Ino, i \notin Seen(m)
  PROVE  Edges(Kids(m), i) = {}
<1>1. SUFFICES ASSUME NEW p \in Edges(Kids(m), i) PROVE FALSE
  OBVIOUS
<1>2. p[1] \in Seen(m) /\ p[2] \in Name /\ Kids(m)[p[1]][p[2]] = i
  BY <1>1 DEF Edges, Seen
<1>3. QED
  BY <1>2, SeenIs, RootIs

LEMMA EnterTree ==
  ASSUME NEW m \in RUN, NEW r \in RUN, Tree(m), NEW d \in Seen(m), SeenDir(m, d),
         NEW nm \in Name, NEW i \in Ino, Kids(m)[d][nm] = 0, Enterable(m, d, i),
         Renames(m, View(m, d).block, nm, i, r)
  PROVE  /\ Tree(r) /\ Seen(r) = Seen(m) \cup {i}
         /\ Enters(Kids(m), d, nm, i, Kids(r))
         /\ \A e \in Seen(m), x \in Name :
              Kids(r)[e][x] = IF e = d /\ x = nm THEN i ELSE Kids(m)[e][x]
         /\ i \notin Seen(m) => \A x \in Name : Kids(r)[i][x] = 0
<1> DEFINE b == View(m, d).block
<1>1. \A j : View(r, j) = View(m, j) /\ (SeenDir(r, j) <=> SeenDir(m, j))
  BY RenamesView
<1>2. /\ d \in Ino /\ b \in Block
      /\ \A j \in Seen(m) : SeenDir(m, j) => View(m, j).block \in Block
      /\ \A j \in Seen(m) : SeenDir(m, j) /\ View(m, j).block = b => j = d
  BY SeenIs DEF Tree
<1> HIDE DEF b
<1>3. /\ Renames(m, b, nm, i, r)
      /\ \A c \in Block : r.disk.dirs[c].parent = m.disk.dirs[c].parent
  BY DEF b, Renames
<1>4. ASSUME NEW e \in Seen(m), NEW x \in Name
      PROVE  Kids(r)[e][x] = IF e = d /\ x = nm THEN i ELSE Kids(m)[e][x]
  <2>1. e \in Ino
    BY SeenIs
  <2>2. CASE ~SeenDir(m, e)
    BY <1>1, <2>1, <2>2, KidsAre
  <2>3. CASE SeenDir(m, e)
    <3>1. Kids(r)[e][x] = Found(r.disk, View(m, e).block, x)
          /\ Kids(m)[e][x] = Found(m.disk, View(m, e).block, x)
      BY <1>1, <2>1, <2>3, KidsAre
    <3>2. View(m, e).block = b <=> e = d
      BY <1>2, <2>3 DEF b
    <3>3. View(m, e).block \in Block
      BY <1>2, <2>3
    <3>4. QED
      BY <1>3, <3>1, <3>2, <3>3 DEF Renames
  <2>4. QED
    BY <2>2, <2>3
<1>5. ASSUME i \notin Seen(m), NEW x \in Name
      PROVE  Kids(r)[i][x] = 0
  <2>1. CASE ~SeenDir(m, i)
    BY <1>1, <2>1, KidsAre
  <2>2. CASE SeenDir(m, i)
    <3>1. View(m, i).block \in Block /\ View(m, i).block # b
          /\ Found(m.disk, View(m, i).block, x) = 0
      BY <1>5, <2>2 DEF Enterable, b
    <3>2. Kids(r)[i][x] = Found(r.disk, View(m, i).block, x)
      BY <1>1, <2>2, KidsAre
    <3>3. QED
      BY <1>3, <3>1, <3>2 DEF Renames
  <2>3. QED
    BY <2>1, <2>2
<1>6. Enters(Kids(m), d, nm, i, Kids(r))
  BY <1>4, <1>5 DEF Enters, Seen
<1>7. /\ Seen(r) = Seen(m) \cup {i}
      /\ Edges(Kids(r), i) = Edges(Kids(m), i) \cup {<<d, nm>>}
      /\ \A j \in Ino \ {i} : Edges(Kids(r), j) = Edges(Kids(m), j)
  <2>1. Kids(m) \in GRAPH /\ Kids(r) \in GRAPH
    BY KidsAre
  <2>2. /\ Reach(Kids(r)) = Reach(Kids(m)) \cup {i}
        /\ <<d, nm>> \notin Edges(Kids(m), i)
        /\ Edges(Kids(r), i) = Edges(Kids(m), i) \cup {<<d, nm>>}
        /\ \A j \in Ino \ {i} : Edges(Kids(r), j) = Edges(Kids(m), j)
    BY <1>6, <2>1, ReachEnters
  <2>3. QED
    BY <2>2 DEF Seen
<1>8. Tree(r)
  <2>1. ASSUME NEW j \in Seen(r)
        PROVE  /\ View(r, j).type # "none"
               /\ SeenDir(r, j) => View(r, j).block \in Block \ Metadata
               /\ ~SeenDir(r, j) => View(r, j).block = 0
    BY <1>1, <1>7 DEF Tree, Enterable
  <2>2. ASSUME NEW j \in Seen(r), NEW k \in Seen(r), SeenDir(r, j), SeenDir(r, k),
               View(r, j).block = View(r, k).block
        PROVE  j = k
    BY <1>1, <1>7, <2>2 DEF Tree, Enterable
  <2>3. Rooted(View(r, Root))
    BY <1>1 DEF Tree
  <2>4. ASSUME NEW e \in Seen(r), NEW a \in Name, Kids(r)[e][a] # 0
        PROVE  /\ Kids(r)[e][a] # Root
               /\ SeenDir(r, Kids(r)[e][a]) =>
                    /\ r.disk.dirs[View(r, Kids(r)[e][a]).block].parent = e
                    /\ Edges(Kids(r), Kids(r)[e][a]) = {<<e, a>>}
    <3> DEFINE j == Kids(r)[e][a]
    <3>1. e \in Seen(m)
      BY <1>5, <1>7, <2>4
    <3>2. CASE e = d /\ a = nm
      <4>1. j = i
        BY <1>4, <3>1, <3>2
      <4>2. i # Root
        BY SeenIs DEF Tree, Enterable, Rooted, SeenDir
      <4>3. ASSUME SeenDir(r, i)
            PROVE  r.disk.dirs[View(r, i).block].parent = d
                   /\ Edges(Kids(r), i) = {<<d, nm>>}
        <5>1. i \notin Seen(m) /\ View(r, i).block \in Block
              /\ m.disk.dirs[View(r, i).block].parent = d
          BY <1>1, <4>3 DEF Enterable
        <5>2. Edges(Kids(m), i) = {}
          BY <5>1, EdgesSeen
        <5>3. QED
          BY <1>3, <1>7, <5>1, <5>2
      <4> HIDE DEF j
      <4>4. QED
        BY <3>2, <4>1, <4>2, <4>3 DEF j
    <3>3. CASE ~(e = d /\ a = nm)
      <4>1. j = Kids(m)[e][a] /\ j # 0 /\ j \in Seen(m)
        BY <1>4, <2>4, <3>1, <3>3, SeenIs
      <4>2. /\ j # Root
            /\ SeenDir(m, j) => /\ m.disk.dirs[View(m, j).block].parent = e
                                /\ Edges(Kids(m), j) = {<<e, a>>}
        BY <3>1, <4>1 DEF Tree
      <4> HIDE DEF j
      <4>3. ASSUME SeenDir(r, j)
            PROVE  r.disk.dirs[View(r, j).block].parent = e
                   /\ Edges(Kids(r), j) = {<<e, a>>}
        <5>1. SeenDir(m, j) /\ View(r, j).block = View(m, j).block
              /\ View(m, j).block \in Block
          BY <1>1, <1>2, <4>1, <4>3
        <5>2. j # i /\ j \in Ino
          BY <4>1, <5>1, SeenIs DEF Enterable
        <5>3. QED
          BY <1>3, <1>7, <4>2, <5>1, <5>2
      <4>4. QED
        BY <4>2, <4>3 DEF j
    <3>4. QED
      BY <3>2, <3>3
  <2>5. QED
    BY <2>1, <2>2, <2>3, <2>4 DEF Tree
<1>9. QED
  BY <1>4, <1>5, <1>6, <1>7, <1>8

LEMMA RemoveTree ==
  ASSUME NEW m \in RUN, NEW r \in RUN, Tree(m), NEW d \in Seen(m), SeenDir(m, d),
         NEW nm \in Name, NEW i \in Ino, Kids(m)[d][nm] = i,
         \A x \in Name : Kids(m)[i][x] = 0,
         Renames(m, View(m, d).block, nm, 0, r)
  PROVE  /\ Tree(r) /\ Removes(Kids(m), d, nm, i, Kids(r))
         /\ Seen(r) \subseteq Seen(m)
         /\ \A e \in Seen(m), x \in Name :
              Kids(r)[e][x] = IF e = d /\ x = nm THEN 0 ELSE Kids(m)[e][x]
<1> DEFINE b == View(m, d).block
<1>1. \A j : View(r, j) = View(m, j) /\ (SeenDir(r, j) <=> SeenDir(m, j))
  BY RenamesView
<1>2. /\ d \in Ino /\ b \in Block /\ i # 0
      /\ \A j \in Seen(m) : SeenDir(m, j) => View(m, j).block \in Block
      /\ \A j \in Seen(m) : SeenDir(m, j) /\ View(m, j).block = b => j = d
  BY SeenIs, RootIs DEF Tree
<1> HIDE DEF b
<1>3. /\ Renames(m, b, nm, 0, r)
      /\ \A c \in Block : r.disk.dirs[c].parent = m.disk.dirs[c].parent
  BY DEF b, Renames
<1>4. ASSUME NEW e \in Seen(m), NEW x \in Name
      PROVE  Kids(r)[e][x] = IF e = d /\ x = nm THEN 0 ELSE Kids(m)[e][x]
  <2>1. e \in Ino
    BY SeenIs
  <2>2. CASE ~SeenDir(m, e)
    BY <1>1, <2>1, <2>2, KidsAre
  <2>3. CASE SeenDir(m, e)
    <3>1. Kids(r)[e][x] = Found(r.disk, View(m, e).block, x)
          /\ Kids(m)[e][x] = Found(m.disk, View(m, e).block, x)
      BY <1>1, <2>1, <2>3, KidsAre
    <3>2. View(m, e).block = b <=> e = d
      BY <1>2, <2>3 DEF b
    <3>3. View(m, e).block \in Block
      BY <1>2, <2>3
    <3>4. QED
      BY <1>3, <3>1, <3>2, <3>3 DEF Renames
  <2>4. QED
    BY <2>2, <2>3
<1>5. i # Root
  BY <1>2 DEF Tree
<1>6. Removes(Kids(m), d, nm, i, Kids(r))
  BY <1>4, <1>5 DEF Removes, Seen
<1>7. /\ Seen(r) \cup {i} = Seen(m)
      /\ <<d, nm>> \in Edges(Kids(m), i)
      /\ Edges(Kids(r), i) = Edges(Kids(m), i) \ {<<d, nm>>}
      /\ i \in Seen(r) <=> Edges(Kids(r), i) # {}
      /\ \A j \in Ino \ {i} : Edges(Kids(r), j) = Edges(Kids(m), j)
  <2>1. Kids(m) \in GRAPH /\ Kids(r) \in GRAPH
    BY KidsAre
  <2>2. /\ Reach(Kids(r)) \cup {i} = Reach(Kids(m))
        /\ <<d, nm>> \in Edges(Kids(m), i)
        /\ Edges(Kids(r), i) = Edges(Kids(m), i) \ {<<d, nm>>}
        /\ i \in Reach(Kids(r)) <=> Edges(Kids(r), i) # {}
        /\ \A j \in Ino \ {i} : Edges(Kids(r), j) = Edges(Kids(m), j)
    BY <1>6, <2>1, ReachRemoves
  <2>3. QED
    BY <2>2 DEF Seen
<1>8. Tree(r)
  <2>1. ASSUME NEW j \in Seen(r)
        PROVE  /\ View(r, j).type # "none"
               /\ SeenDir(r, j) => View(r, j).block \in Block \ Metadata
               /\ ~SeenDir(r, j) => View(r, j).block = 0
    BY <1>1, <1>7 DEF Tree
  <2>2. ASSUME NEW j \in Seen(r), NEW k \in Seen(r), SeenDir(r, j), SeenDir(r, k),
               View(r, j).block = View(r, k).block
        PROVE  j = k
    BY <1>1, <1>7, <2>2 DEF Tree
  <2>3. Rooted(View(r, Root))
    BY <1>1 DEF Tree
  <2>4. ASSUME NEW e \in Seen(r), NEW a \in Name, Kids(r)[e][a] # 0
        PROVE  /\ Kids(r)[e][a] # Root
               /\ SeenDir(r, Kids(r)[e][a]) =>
                    /\ r.disk.dirs[View(r, Kids(r)[e][a]).block].parent = e
                    /\ Edges(Kids(r), Kids(r)[e][a]) = {<<e, a>>}
    <3> DEFINE j == Kids(r)[e][a]
    <3>1. e \in Seen(m)
      BY <1>7
    <3>2. ~(e = d /\ a = nm)
      BY <1>4, <2>4, <3>1
    <3>3. j = Kids(m)[e][a] /\ j # 0 /\ j \in Seen(m)
      BY <1>4, <2>4, <3>1, <3>2, SeenIs
    <3>4. /\ j # Root
          /\ SeenDir(m, j) => /\ m.disk.dirs[View(m, j).block].parent = e
                              /\ Edges(Kids(m), j) = {<<e, a>>}
      BY <3>1, <3>3 DEF Tree
    <3> HIDE DEF j
    <3>5. ASSUME SeenDir(r, j)
          PROVE  r.disk.dirs[View(r, j).block].parent = e
                 /\ Edges(Kids(r), j) = {<<e, a>>}
      <4>1. SeenDir(m, j) /\ View(r, j).block = View(m, j).block
            /\ View(m, j).block \in Block
        BY <1>1, <1>2, <3>3, <3>5
      <4>2. j # i /\ j \in Ino
        BY <1>7, <3>2, <3>3, <3>4, <4>1, SeenIs
      <4>3. QED
        BY <1>3, <1>7, <3>4, <4>1, <4>2
    <3>6. QED
      BY <3>4, <3>5 DEF j
  <2>5. QED
    BY <2>1, <2>2, <2>3, <2>4 DEF Tree
<1>9. QED
  BY <1>4, <1>6, <1>7, <1>8

-----------------------------------------------------------------------------
(***************************************************************************)
(* Link counts, marks and copies                                           *)
(***************************************************************************)
\* The entries of all directories and as many kills fit in a link count.
Small == Cardinality(Ino \X Name) + MaxKill < LinkMod

LEMMA EdgesFinite ==
  ASSUME NEW m \in RUN, NEW i
  PROVE  /\ IsFiniteSet(Edges(Kids(m), i))
         /\ Cardinality(Edges(Kids(m), i)) \in Nat
         /\ Cardinality(Edges(Kids(m), i)) <= Cardinality(Ino \X Name)
         /\ Cardinality(Ino \X Name) \in Nat
<1>1. IsFiniteSet(Ino \X Name)
  BY NamespaceAssumption, FS_Product
<1>2. Edges(Kids(m), i) \in SUBSET (Ino \X Name)
  <2>1. Reach(Kids(m)) \subseteq Ino
    BY KidsAre, ReachIs
  <2>2. QED
    BY <2>1 DEF Edges
<1>3. QED
  BY <1>1, <1>2, FS_Subset, FS_CardinalityType

LEMMA SubsFinite ==
  ASSUME NEW m, NEW d
  PROVE  IsFiniteSet(Subs(m, d)) /\ Cardinality(Subs(m, d)) \in Nat
<1>1. Subs(m, d) \in SUBSET Name
  BY DEF Subs
<1>2. QED
  BY <1>1, NamespaceAssumption, FS_Subset, FS_CardinalityType

\* While a command changes an entry and the count of inode o, that count is
\* owed v.
Owed(i, o, v) == IF i = o THEN v ELSE 0

FileCounts(m, o, v, k) ==
  \A i \in Seen(m) : ~SeenDir(m, i) =>
    View(m, i).links + Owed(i, o, v) - Cardinality(Edges(Kids(m), i)) \in 0..k

Dots(m, d) == 2 + Cardinality(Subs(m, d))

DirCounts(m, o, v, k, again) ==
  \A d \in Seen(m) : SeenDir(m, d) /\ (d # Root \/ ~again) =>
    \E j \in 0..k : View(m, d).links = (Dots(m, d) - Owed(d, o, v) - j) % LinkMod

\* What the user does is of two kinds, w.unlinks says which: where files are
\* unlinked, which unmarks blocks, there is no directory but the root.  The
\* program was started again or not, w.again.  A rmdir unmarks a directory that
\* is still seen, w.doomed.
FLAGS == [unlinks : BOOLEAN, again : BOOLEAN, doomed : SUBSET Ino]

Marked(m, w) ==
  /\ Seen(m) \ w.doomed \subseteq m.disk.imap
  /\ \A i \in Seen(m) \ w.doomed : SeenDir(m, i) => View(m, i).block \in m.disk.bmap
  /\ w.unlinks => \A i \in Seen(m) : SeenDir(m, i) => i = Root
  /\ ~w.unlinks => Metadata \subseteq m.disk.bmap

\* What is in memory and not dirty is on the disk.
Clean(m) ==
  /\ Rooted(m.disk.itab[Root])
  /\ \A i \in Seen(m) : m.cache[i].refCount > 0 /\ ~m.cache[i].dirty =>
       m.cache[i].INODE = m.disk.itab[i]

Good(m, o, v, k, w) ==
  /\ Tree(m) /\ Marked(m, w) /\ Clean(m)
  /\ FileCounts(m, o, v, k) /\ DirCounts(m, o, v, k, w.again)

\* r shows the same tree with the same counts.
Still(m, r) ==
  \A i \in Seen(m) :
    /\ View(r, i) = View(m, i)
    /\ SeenDir(m, i) =>
         /\ \A nm \in Name : Found(r.disk, View(m, i).block, nm) =
                             Found(m.disk, View(m, i).block, nm)
         /\ r.disk.dirs[View(m, i).block].parent = m.disk.dirs[View(m, i).block].parent

LEMMA StillKeeps ==
  ASSUME NEW m, NEW r, Tree(m), Still(m, r)
  PROVE  Keeps(m, r)
BY DEF Still, Keeps, Tree, SeenDir

LEMMA StillStill ==
  ASSUME NEW m, NEW r, NEW q, Still(m, r), Still(r, q), Seen(r) = Seen(m)
  PROVE  Still(m, q)
BY DEF Still, SeenDir

LEMMA StillCounts ==
  ASSUME NEW m \in RUN, NEW r \in RUN, Tree(m), Still(m, r), NEW o, NEW v, NEW k
  PROVE  /\ Tree(r) /\ Seen(r) = Seen(m)
         /\ FileCounts(m, o, v, k) => FileCounts(r, o, v, k)
         /\ \A a : DirCounts(m, o, v, k, a) => DirCounts(r, o, v, k, a)
<1>1. /\ Tree(r) /\ Seen(r) = Seen(m)
      /\ \A i : Edges(Kids(r), i) = Edges(Kids(m), i)
      /\ \A d \in Seen(m) : Subs(r, d) = Subs(m, d)
  BY StillKeeps, KeepsTree
<1>2. \A i \in Seen(m) : View(r, i) = View(m, i) /\ (SeenDir(r, i) <=> SeenDir(m, i))
  BY DEF Still, SeenDir
<1>3. FileCounts(m, o, v, k) => FileCounts(r, o, v, k)
  BY <1>1, <1>2 DEF FileCounts
<1>4. \A a : DirCounts(m, o, v, k, a) => DirCounts(r, o, v, k, a)
  BY <1>1, <1>2 DEF DirCounts, Dots
<1>5. QED
  BY <1>1, <1>3, <1>4

LEMMA StillGood ==
  ASSUME NEW m \in RUN, NEW r \in RUN, NEW o, NEW v, NEW k, NEW w,
         Good(m, o, v, k, w), Still(m, r),
         Seen(m) \ w.doomed \subseteq r.disk.imap,
         \A i \in Seen(m) \ w.doomed : SeenDir(m, i) => View(m, i).block \in r.disk.bmap,
         ~w.unlinks => Metadata \subseteq r.disk.bmap,
         Rooted(r.disk.itab[Root]),
         \A i \in Seen(m) : r.cache[i].refCount > 0 /\ ~r.cache[i].dirty =>
           r.cache[i].INODE = r.disk.itab[i]
  PROVE  Good(r, o, v, k, w) /\ Seen(r) = Seen(m)
<1>1. /\ Tree(r) /\ Seen(r) = Seen(m)
      /\ FileCounts(r, o, v, k) /\ DirCounts(r, o, v, k, w.again)
  BY StillCounts DEF Good
<1>2. \A i \in Seen(m) : View(r, i) = View(m, i) /\ (SeenDir(r, i) <=> SeenDir(m, i))
  BY DEF Still, SeenDir
<1>3. Marked(r, w)
  BY <1>1, <1>2 DEF Good, Marked
<1>4. Clean(r)
  BY <1>1 DEF Clean
<1>5. QED
  BY <1>1, <1>3, <1>4 DEF Good

LEMMA igetGood ==
  ASSUME NEW m \in RUN, NEW i \in Ino, NEW o, NEW v, NEW k, NEW w,
         Good(m, o, v, k, w)
  PROVE  LET r == iget(m, i)
         IN Good(r, o, v, k, w) /\ Still(m, r) /\ Seen(r) = Seen(m)
<1> DEFINE r == iget(m, i)
<1>1. /\ r \in RUN /\ r.disk = m.disk
      /\ \A j \in Ino \ {i} : r.cache[j] = m.cache[j]
      /\ r.cache[i].INODE = View(m, i)
      /\ m.cache[i].refCount > 0 => r.cache[i].dirty = m.cache[i].dirty
  BY igetIs
<1>2. \A j \in Ino : View(r, j) = View(m, j)
  BY igetAlike DEF Alike
<1> HIDE DEF r
<1>3. Still(m, r)
  BY <1>1, <1>2, SeenIs DEF Still
<1>4. ASSUME NEW j \in Seen(m), r.cache[j].refCount > 0, ~r.cache[j].dirty
      PROVE  r.cache[j].INODE = r.disk.itab[j]
  <2>1. CASE j # i
    BY <1>1, <1>4, <2>1, SeenIs DEF Good, Clean
  <2>2. CASE j = i
    BY <1>1, <1>4, <2>2 DEF Good, Clean, View
  <2>3. QED
    BY <2>1, <2>2
<1>5. Good(r, o, v, k, w) /\ Seen(r) = Seen(m)
  <2>1. /\ Seen(m) \ w.doomed \subseteq r.disk.imap
        /\ \A j \in Seen(m) \ w.doomed : SeenDir(m, j) => View(m, j).block \in r.disk.bmap
        /\ ~w.unlinks => Metadata \subseteq r.disk.bmap
        /\ Rooted(r.disk.itab[Root])
    BY <1>1 DEF Good, Marked, Clean
  <2>2. QED
    BY <1>1, <1>3, <1>4, <2>1, StillGood
<1>6. QED
  BY <1>3, <1>5 DEF r

LEMMA iputGood ==
  ASSUME NEW m \in RUN, NEW i \in Ino, NEW o, NEW v, NEW k, NEW w,
         Good(m, o, v, k, w), m.cache[i].refCount > 0
  PROVE  LET r == iput(m, i)
         IN Good(r, o, v, k, w) /\ Still(m, r) /\ Seen(r) = Seen(m)
<1> DEFINE r == iput(m, i)
<1>1. Puts(m, i, r)
  BY iputIs
<1> HIDE DEF r
<1>2. /\ r \in RUN /\ r.disk.imap = m.disk.imap /\ r.disk.bmap = m.disk.bmap
      /\ r.disk.dirs = m.disk.dirs
      /\ \A j \in Ino \ {i} : /\ r.cache[j] = m.cache[j]
                              /\ r.disk.itab[j] = m.disk.itab[j]
  BY <1>1 DEF Puts
<1>3. \A j \in Ino \ {i} : View(r, j) = View(m, j)
  BY <1>2 DEF View
<1>4. m.cache[i].refCount \in Nat /\ View(m, i) = m.cache[i].INODE
  BY RefsAre DEF View
<1>5. ASSUME i \in Seen(m)
      PROVE  /\ View(r, i) = View(m, i)
             /\ r.cache[i].refCount > 0 /\ ~r.cache[i].dirty =>
                  r.cache[i].INODE = r.disk.itab[i]
             /\ r.disk.itab[i] \in {m.disk.itab[i], View(m, i)}
  <2>1. CASE m.cache[i].refCount > 1
    <3>1. /\ r.cache[i].refCount > 0 /\ r.cache[i].INODE = m.cache[i].INODE
          /\ r.cache[i].dirty = m.cache[i].dirty /\ r.disk = m.disk
      BY <1>1, <1>4, <2>1 DEF Puts
    <3>2. QED
      BY <1>4, <1>5, <3>1 DEF Good, Clean, View
  <2>2. CASE ~(m.cache[i].refCount > 1)
    <3>1. /\ r.cache[i].refCount = 0
          /\ m.cache[i].dirty => r.disk.itab[i] = m.cache[i].INODE
          /\ ~m.cache[i].dirty => r.disk.itab[i] = m.disk.itab[i]
      BY <1>1, <2>2 DEF Puts
    <3>2. ~m.cache[i].dirty => m.cache[i].INODE = m.disk.itab[i]
      BY <1>5 DEF Good, Clean
    <3>3. QED
      BY <1>4, <3>1, <3>2 DEF View
  <2>3. QED
    BY <2>1, <2>2
<1>6. Still(m, r)
  <2>1. \A j \in Seen(m) : View(r, j) = View(m, j)
    BY <1>3, <1>5, SeenIs
  <2>2. QED
    BY <1>2, <2>1 DEF Still, Found
<1>7. Good(r, o, v, k, w) /\ Seen(r) = Seen(m)
  <2>1. /\ Seen(m) \ w.doomed \subseteq r.disk.imap
        /\ \A j \in Seen(m) \ w.doomed : SeenDir(m, j) => View(m, j).block \in r.disk.bmap
        /\ ~w.unlinks => Metadata \subseteq r.disk.bmap
    BY <1>2 DEF Good, Marked
  <2>2. Rooted(r.disk.itab[Root])
    BY <1>2, <1>5, SeenIs DEF Good, Clean, Tree
  <2>3. \A j \in Seen(m) : r.cache[j].refCount > 0 /\ ~r.cache[j].dirty =>
          r.cache[j].INODE = r.disk.itab[j]
    <3>1. ASSUME NEW j \in Seen(m), r.cache[j].refCount > 0, ~r.cache[j].dirty
          PROVE  r.cache[j].INODE = r.disk.itab[j]
      <4>1. CASE j = i
        BY <1>5, <3>1, <4>1
      <4>2. CASE j # i
        BY <1>2, <3>1, <4>2, SeenIs DEF Good, Clean
      <4>3. QED
        BY <4>1, <4>2
    <3>2. QED
      BY <3>1
  <2>4. QED
    BY <1>2, <1>6, <2>1, <2>2, <2>3, StillGood
<1>8. QED
  BY <1>6, <1>7 DEF r

\* A write that leaves the tree, and what is marked of it, as it is.
LEMMA WroteGood ==
  ASSUME NEW m \in RUN, NEW r, NEW o, NEW v, NEW k, NEW w, Good(m, o, v, k, w),
         Wrote(m, r), r.disk.itab = m.disk.itab,
         Seen(m) \ w.doomed \subseteq r.disk.imap,
         \A i \in Seen(m) \ w.doomed : SeenDir(m, i) => View(m, i).block \in r.disk.bmap,
         ~w.unlinks => Metadata \subseteq r.disk.bmap,
         \A i \in Seen(m) : SeenDir(m, i) =>
           /\ \A nm \in Name : Found(r.disk, View(m, i).block, nm) =
                               Found(m.disk, View(m, i).block, nm)
           /\ r.disk.dirs[View(m, i).block].parent =
                m.disk.dirs[View(m, i).block].parent
  PROVE  Good(r, o, v, k, w) /\ Still(m, r) /\ Seen(r) = Seen(m)
<1>1. r \in RUN /\ r.cache = m.cache
  BY DEF Wrote
<1>2. \A j : View(r, j) = View(m, j)
  BY <1>1 DEF View
<1>3. Still(m, r)
  BY <1>2 DEF Still
<1>4. /\ Rooted(r.disk.itab[Root])
      /\ \A i \in Seen(m) : r.cache[i].refCount > 0 /\ ~r.cache[i].dirty =>
           r.cache[i].INODE = r.disk.itab[i]
  BY <1>1 DEF Good, Clean
<1>5. QED
  BY <1>1, <1>3, <1>4, StillGood

LEMMA MarksGood ==
  ASSUME NEW m \in RUN, NEW i, NEW r, NEW o, NEW v, NEW k, NEW w,
         Good(m, o, v, k, w), Marks(m, i, r)
  PROVE  Good(r, o, v, k, w) /\ Still(m, r) /\ Seen(r) = Seen(m)
<1>1. /\ Wrote(m, r) /\ r.disk.itab = m.disk.itab /\ r.disk.dirs = m.disk.dirs
      /\ r.disk.bmap = m.disk.bmap /\ r.disk.imap = m.disk.imap \cup {i}
  BY DEF Marks, OnlyImap
<1>2. /\ Seen(m) \ w.doomed \subseteq r.disk.imap
      /\ \A j \in Seen(m) \ w.doomed : SeenDir(m, j) => View(m, j).block \in r.disk.bmap
      /\ ~w.unlinks => Metadata \subseteq r.disk.bmap
  BY <1>1 DEF Good, Marked
<1>3. \A j \in Seen(m) : SeenDir(m, j) =>
           /\ \A nm \in Name : Found(r.disk, View(m, j).block, nm) =
                               Found(m.disk, View(m, j).block, nm)
           /\ r.disk.dirs[View(m, j).block].parent =
                m.disk.dirs[View(m, j).block].parent
  BY <1>1 DEF Found
<1>4. QED
  BY <1>1, <1>2, <1>3, WroteGood

LEMMA FreesGood ==
  ASSUME NEW m \in RUN, NEW i, NEW r, NEW o, NEW v, NEW k, NEW w,
         Good(m, o, v, k, w), Frees(m, i, r), i \notin Seen(m) \ w.doomed
  PROVE  Good(r, o, v, k, w) /\ Still(m, r) /\ Seen(r) = Seen(m)
<1>1. /\ Wrote(m, r) /\ r.disk.itab = m.disk.itab /\ r.disk.dirs = m.disk.dirs
      /\ r.disk.bmap = m.disk.bmap /\ r.disk.imap = m.disk.imap \ {i}
  BY DEF Frees, OnlyImap
<1>2. /\ Seen(m) \ w.doomed \subseteq r.disk.imap
      /\ \A j \in Seen(m) \ w.doomed : SeenDir(m, j) => View(m, j).block \in r.disk.bmap
      /\ ~w.unlinks => Metadata \subseteq r.disk.bmap
  BY <1>1 DEF Good, Marked
<1>3. \A j \in Seen(m) : SeenDir(m, j) =>
           /\ \A nm \in Name : Found(r.disk, View(m, j).block, nm) =
                               Found(m.disk, View(m, j).block, nm)
           /\ r.disk.dirs[View(m, j).block].parent =
                m.disk.dirs[View(m, j).block].parent
  BY <1>1 DEF Found
<1>4. QED
  BY <1>1, <1>2, <1>3, WroteGood

LEMMA MarksBlockGood ==
  ASSUME NEW m \in RUN, NEW b, NEW r, NEW o, NEW v, NEW k, NEW w,
         Good(m, o, v, k, w), MarksBlock(m, b, r)
  PROVE  Good(r, o, v, k, w) /\ Still(m, r) /\ Seen(r) = Seen(m)
<1>1. /\ Wrote(m, r) /\ r.disk.itab = m.disk.itab /\ r.disk.dirs = m.disk.dirs
      /\ r.disk.imap = m.disk.imap /\ r.disk.bmap = m.disk.bmap \cup {b}
  BY DEF MarksBlock, OnlyBmap
<1>2. /\ Seen(m) \ w.doomed \subseteq r.disk.imap
      /\ \A j \in Seen(m) \ w.doomed : SeenDir(m, j) => View(m, j).block \in r.disk.bmap
      /\ ~w.unlinks => Metadata \subseteq r.disk.bmap
  BY <1>1 DEF Good, Marked
<1>3. \A j \in Seen(m) : SeenDir(m, j) =>
           /\ \A nm \in Name : Found(r.disk, View(m, j).block, nm) =
                               Found(m.disk, View(m, j).block, nm)
           /\ r.disk.dirs[View(m, j).block].parent =
                m.disk.dirs[View(m, j).block].parent
  BY <1>1 DEF Found
<1>4. QED
  BY <1>1, <1>2, <1>3, WroteGood

LEMMA FreesBlockGood ==
  ASSUME NEW m \in RUN, NEW b, NEW r, NEW o, NEW v, NEW k, NEW w,
         Good(m, o, v, k, w), FreesBlock(m, b, r),
         \A i \in Seen(m) \ w.doomed : SeenDir(m, i) => View(m, i).block # b,
         w.unlinks \/ b \notin Metadata
  PROVE  Good(r, o, v, k, w) /\ Still(m, r) /\ Seen(r) = Seen(m)
<1>1. /\ Wrote(m, r) /\ r.disk.itab = m.disk.itab /\ r.disk.dirs = m.disk.dirs
      /\ r.disk.imap = m.disk.imap /\ r.disk.bmap = m.disk.bmap \ {b}
  BY DEF FreesBlock, OnlyBmap
<1>2. /\ Seen(m) \ w.doomed \subseteq r.disk.imap
      /\ \A j \in Seen(m) \ w.doomed : SeenDir(m, j) => View(m, j).block \in r.disk.bmap
      /\ ~w.unlinks => Metadata \subseteq r.disk.bmap
  BY <1>1 DEF Good, Marked
<1>3. \A j \in Seen(m) : SeenDir(m, j) =>
           /\ \A nm \in Name : Found(r.disk, View(m, j).block, nm) =
                               Found(m.disk, View(m, j).block, nm)
           /\ r.disk.dirs[View(m, j).block].parent =
                m.disk.dirs[View(m, j).block].parent
  BY <1>1 DEF Found
<1>4. QED
  BY <1>1, <1>2, <1>3, WroteGood

-----------------------------------------------------------------------------
(***************************************************************************)
(* The steps of a command                                                  *)
(*                                                                         *)
(* A command is on its way when its tree is good, but for the count of one *)
(* inode, which it owes a link or has a link too many of, and every write  *)
(* at which it may be killed left a tree that is good.                     *)
(***************************************************************************)
\* Only the disk and the cache of a run say whether it is good.
LEMMA GoodSame ==
  ASSUME NEW m, NEW r, r.disk = m.disk, r.cache = m.cache
  PROVE  /\ Seen(r) = Seen(m)
         /\ \A o, v, k, w : Good(m, o, v, k, w) <=> Good(r, o, v, k, w)
         /\ \A i : View(r, i) = View(m, i) /\ (SeenDir(r, i) <=> SeenDir(m, i))
<1>1. \A i : View(r, i) = View(m, i) /\ (SeenDir(r, i) <=> SeenDir(m, i))
  BY DEF View, SeenDir
<1>2. Kids(r) = Kids(m)
  BY <1>1 DEF Kids
<1>3. Seen(r) = Seen(m) /\ \A d : Subs(r, d) = Subs(m, d)
  BY <1>1, <1>2 DEF Seen, Subs
<1>4. Tree(m) <=> Tree(r)
  BY <1>1, <1>2, <1>3 DEF Tree
<1>5. \A w : Marked(m, w) <=> Marked(r, w)
  BY <1>1, <1>3 DEF Marked
<1>6. Clean(m) <=> Clean(r)
  BY <1>3 DEF Clean
<1>7. \A o, v, k : FileCounts(m, o, v, k) <=> FileCounts(r, o, v, k)
  BY <1>1, <1>2, <1>3 DEF FileCounts
<1>8. \A o, v, k, a : DirCounts(m, o, v, k, a) <=> DirCounts(r, o, v, k, a)
  BY <1>1, <1>3 DEF DirCounts, Dots
<1>9. QED
  BY <1>1, <1>3, <1>4, <1>5, <1>6, <1>7, <1>8 DEF Good

LEMMA LinksOf ==
  ASSUME NEW m \in RUN, NEW i \in Ino
  PROVE  View(m, i).links \in 0..(LinkMod - 1) /\ View(m, i).links \in Nat
<1>1. View(m, i).links \in 0..(LinkMod - 1)
  BY ViewIs DEF INODE
<1> HIDE DEF LinkMod
<1>2. QED
  BY <1>1, LinksIs

\* What is owed is off by one at most.
LEMMA Weaken ==
  ASSUME NEW m \in RUN, NEW o, NEW v \in {-1, 0, 1}, NEW k \in Nat, NEW w,
         Good(m, o, v, k, w),
         v = 0 \/ (v = 1 /\ SeenDir(m, o)) \/ (v = -1 /\ ~SeenDir(m, o))
  PROVE  Good(m, Root, 0, k + 1, w)
<1>1. FileCounts(m, Root, 0, k + 1)
  <2>1. SUFFICES ASSUME NEW i \in Seen(m), ~SeenDir(m, i)
                 PROVE  View(m, i).links + Owed(i, Root, 0)
                          - Cardinality(Edges(Kids(m), i)) \in 0..(k + 1)
    BY DEF FileCounts
  <2>2. View(m, i).links \in Nat /\ Cardinality(Edges(Kids(m), i)) \in Nat
    BY SeenIs, LinksOf, EdgesFinite
  <2>3. View(m, i).links + Owed(i, o, v) - Cardinality(Edges(Kids(m), i)) \in 0..k
    BY <2>1 DEF Good, FileCounts
  <2>4. Owed(i, Root, 0) = 0 /\ Owed(i, o, v) \in {-1, 0}
    BY <2>1 DEF Owed
  <2>5. QED
    BY <2>2, <2>3, <2>4
<1>2. DirCounts(m, Root, 0, k + 1, w.again)
  <2>1. SUFFICES ASSUME NEW d \in Seen(m), SeenDir(m, d), d # Root \/ ~w.again
                 PROVE  \E j \in 0..(k + 1) : View(m, d).links =
                          (Dots(m, d) - Owed(d, Root, 0) - j) % LinkMod
    BY DEF DirCounts
  <2>2. PICK j \in 0..k : View(m, d).links = (Dots(m, d) - Owed(d, o, v) - j) % LinkMod
    BY <2>1 DEF Good, DirCounts
  <2>3. Dots(m, d) \in Nat
    BY SubsFinite DEF Dots
  <2>4. Owed(d, Root, 0) = 0 /\ Owed(d, o, v) \in {0, 1}
    BY <2>1 DEF Owed
  <2>5. Dots(m, d) - Owed(d, o, v) - j = Dots(m, d) - Owed(d, Root, 0) - (j + Owed(d, o, v))
    BY <2>3, <2>4
  <2>6. j + Owed(d, o, v) \in 0..(k + 1)
    BY <2>4
  <2>7. QED
    BY <2>2, <2>5, <2>6
<1>3. QED
  BY <1>1, <1>2 DEF Good

\* Nothing is owed to an inode that is not seen.
LEMMA OwedNone ==
  ASSUME NEW m, NEW o, NEW v, NEW k, NEW w, v = 0 \/ o \notin Seen(m)
  PROVE  Good(m, o, v, k, w) <=> Good(m, Root, 0, k, w)
<1>1. \A i \in Seen(m) : Owed(i, o, v) = Owed(i, Root, 0)
  BY DEF Owed
<1>2. QED
  BY <1>1 DEF Good, FileCounts, DirCounts

\* Of the inodes not doomed, the marked ones are those seen and those in L; so
\* are the blocks, B.
Exact(m, L, B, w) ==
  /\ m.disk.imap = (Seen(m) \ w.doomed) \cup L
  /\ ~w.unlinks => \A b \in Block : b \in m.disk.bmap <=>
       \/ b \in Metadata \cup B
       \/ \E d \in Seen(m) \ w.doomed : SeenDir(m, d) /\ View(m, d).block = b

\* How a command is run: after c.k kills; the writes after which it may be
\* killed, c.claim; what must be seen throughout, c.keep.
CTX == [k : 0..MaxKill, w : FLAGS, claim : SUBSET Nat, keep : SUBSET Ino]

LogFine(m, c) ==
  \A j \in DOMAIN m.log : j \in c.claim =>
    Good(m.log[j], Root, 0, c.k + 1, c.w) /\ c.keep \subseteq Seen(m.log[j])

Fine(m, o, v, L, B, c) ==
  /\ Good(m, o, v, c.k, c.w) /\ (c.k = 0 => Exact(m, L, B, c.w))
  /\ LogFine(m, c) /\ c.keep \subseteq Seen(m)

\* The command may be killed here.
Settled(m, o, v, c) ==
  \/ v = 0
  \/ o \in Seen(m) /\ v = 1 /\ (SeenDir(m, o) \/ c.claim = {})
  \/ o \in Seen(m) /\ v = -1 /\ (~SeenDir(m, o) \/ c.claim = {})

LEMMA CtxIs ==
  ASSUME NEW c \in CTX
  PROVE  c.k \in Nat /\ c.k <= MaxKill /\ c.w \in FLAGS
         /\ c.claim \in SUBSET Nat /\ c.keep \in SUBSET Ino
BY NamespaceAssumption DEF CTX

LEMMA LogStep ==
  ASSUME NEW m \in RUN, NEW r \in RUN, NEW c, LogFine(m, c), Logs(m, r),
         Len(r.log) \in c.claim =>
           Good(r, Root, 0, c.k + 1, c.w) /\ c.keep \subseteq Seen(r)
  PROVE  LogFine(r, c)
<1>1. m.log \in Seq(WRITE) /\ r.log \in Seq(WRITE)
  BY DEF RUN
<1>2. CASE r.log = m.log
  BY <1>2 DEF LogFine
<1>3. CASE r.log = Append(m.log, [disk |-> r.disk, cache |-> r.cache])
  <2> DEFINE q == [disk |-> r.disk, cache |-> r.cache]
             n == Len(m.log)
  <2>1. /\ Len(r.log) = n + 1 /\ r.log[n + 1] = q /\ n \in Nat
        /\ DOMAIN r.log = 1..(n + 1) /\ DOMAIN m.log = 1..n
        /\ \A j \in 1..n : r.log[j] = m.log[j]
    BY <1>1, <1>3
  <2>2. q.disk = r.disk /\ q.cache = r.cache
    OBVIOUS
  <2> HIDE DEF q, n
  <2>3. n + 1 \in c.claim =>
          Good(q, Root, 0, c.k + 1, c.w) /\ c.keep \subseteq Seen(q)
    BY <2>1, <2>2, GoodSame
  <2>4. ASSUME NEW j \in DOMAIN r.log, j \in c.claim
        PROVE  Good(r.log[j], Root, 0, c.k + 1, c.w) /\ c.keep \subseteq Seen(r.log[j])
    <3>1. CASE j = n + 1
      BY <2>1, <2>3, <2>4, <3>1
    <3>2. CASE j # n + 1
      <4>1. j \in 1..n
        BY <2>1, <3>2
      <4>2. QED
        BY <2>1, <2>4, <4>1 DEF LogFine
    <3>3. QED
      BY <3>1, <3>2
  <2>5. QED
    BY <2>4 DEF LogFine
<1>4. QED
  BY <1>2, <1>3 DEF Logs

LEMMA SettledStep ==
  ASSUME NEW m \in RUN, NEW r \in RUN, NEW c \in CTX, NEW o, NEW v \in {-1, 0, 1},
         LogFine(m, c), Logs(m, r), Good(r, o, v, c.k, c.w), Settled(r, o, v, c),
         c.keep \subseteq Seen(r)
  PROVE  LogFine(r, c)
<1>1. c.claim = {} \/ v = 0 \/ (v = 1 /\ SeenDir(r, o)) \/ (v = -1 /\ ~SeenDir(r, o))
  BY DEF Settled
<1>2. CASE c.claim = {}
  BY <1>2 DEF LogFine
<1>3. CASE c.claim # {}
  <2>1. Good(r, Root, 0, c.k + 1, c.w)
    BY <1>1, <1>3, CtxIs, Weaken
  <2>2. QED
    BY <2>1, LogStep
<1>4. QED
  BY <1>2, <1>3

\* A step that leaves the tree and its counts as they are.
LEMMA StillFine ==
  ASSUME NEW m \in RUN, NEW r \in RUN, NEW c \in CTX, NEW o, NEW v \in {-1, 0, 1},
         NEW L, NEW B, NEW M, NEW C,
         Fine(m, o, v, L, B, c), Settled(m, o, v, c), Logs(m, r),
         Good(r, o, v, c.k, c.w), Still(m, r), Seen(r) = Seen(m),
         Exact(m, L, B, c.w) => Exact(r, M, C, c.w)
  PROVE  Fine(r, o, v, M, C, c) /\ Settled(r, o, v, c)
<1>1. Settled(r, o, v, c)
  BY DEF Settled, Still, SeenDir
<1>2. LogFine(r, c)
  BY <1>1, SettledStep DEF Fine
<1>3. QED
  BY <1>1, <1>2 DEF Fine

LEMMA SameExact ==
  ASSUME NEW m, NEW r, NEW L, NEW B, NEW w, Still(m, r), Seen(r) = Seen(m),
         r.disk.imap = m.disk.imap, r.disk.bmap = m.disk.bmap, Exact(m, L, B, w)
  PROVE  Exact(r, L, B, w)
<1>1. \A i \in Seen(m) : View(r, i) = View(m, i) /\ (SeenDir(r, i) <=> SeenDir(m, i))
  BY DEF Still, SeenDir
<1>2. QED
  BY <1>1 DEF Exact
LEMMA WrapAdd ==
  ASSUME NEW a \in Int, NEW v \in Int
  PROVE  ((a % LinkMod) + v) % LinkMod = (a + v) % LinkMod
<1>1. LinkMod = 65536
  BY DEF LinkMod
<1> HIDE DEF LinkMod
<1>2. ((a % 65536) + v) % 65536 = (a + v) % 65536
  OBVIOUS
<1>3. QED
  BY <1>1, <1>2

LEMMA WrapSame ==
  ASSUME NEW a \in 0..(LinkMod - 1)
  PROVE  a % LinkMod = a
<1> HIDE DEF LinkMod
<1> QED
  BY LinksIs

At(m, o, v, L, B, c) ==
  m \in RUN /\ Fine(m, o, v, L, B, c) /\ Settled(m, o, v, c)

\* What is owed, and to be marked or not, at some point of a command.
DEBT == {-1, 0, 1}

LEMMA igetAt ==
  ASSUME NEW m, NEW i \in Ino, NEW c \in CTX, NEW o, NEW v \in DEBT, NEW L, NEW B,
         At(m, o, v, L, B, c)
  PROVE  LET r == iget(m, i)
         IN At(r, o, v, L, B, c) /\ Still(m, r) /\ Seen(r) = Seen(m)
<1> DEFINE r == iget(m, i)
<1>1. m \in RUN /\ Fine(m, o, v, L, B, c) /\ Settled(m, o, v, c)
  BY DEF At
<1>2. r \in RUN /\ r.disk = m.disk /\ r.log = m.log
  BY <1>1, igetIs
<1>3. Good(r, o, v, c.k, c.w) /\ Still(m, r) /\ Seen(r) = Seen(m)
  BY <1>1, igetGood DEF Fine
<1> HIDE DEF r
<1>4. Logs(m, r)
  BY <1>2 DEF Logs
<1>5. Exact(m, L, B, c.w) => Exact(r, L, B, c.w)
  BY <1>2, <1>3, SameExact
<1>6. Fine(r, o, v, L, B, c) /\ Settled(r, o, v, c)
  BY <1>1, <1>2, <1>3, <1>4, <1>5, StillFine DEF DEBT
<1>7. QED
  BY <1>2, <1>3, <1>6 DEF At, r

LEMMA iputAt ==
  ASSUME NEW m, NEW i \in Ino, NEW c \in CTX, NEW o, NEW v \in DEBT, NEW L, NEW B,
         At(m, o, v, L, B, c), m.cache[i].refCount > 0
  PROVE  LET r == iput(m, i)
         IN At(r, o, v, L, B, c) /\ Still(m, r) /\ Seen(r) = Seen(m)
<1> DEFINE r == iput(m, i)
<1>1. m \in RUN /\ Fine(m, o, v, L, B, c) /\ Settled(m, o, v, c)
  BY DEF At
<1>2. Puts(m, i, r)
  BY <1>1, iputIs
<1>3. Good(r, o, v, c.k, c.w) /\ Still(m, r) /\ Seen(r) = Seen(m)
  BY <1>1, iputGood DEF Fine
<1> HIDE DEF r
<1>4. /\ r \in RUN /\ Logs(m, r)
      /\ r.disk.imap = m.disk.imap /\ r.disk.bmap = m.disk.bmap
  BY <1>2 DEF Puts
<1>5. Exact(m, L, B, c.w) => Exact(r, L, B, c.w)
  BY <1>3, <1>4, SameExact
<1>6. Fine(r, o, v, L, B, c) /\ Settled(r, o, v, c)
  BY <1>1, <1>3, <1>4, <1>5, StillFine DEF DEBT
<1>7. QED
  BY <1>3, <1>4, <1>6 DEF At, r

\* An inode that is put, and was marked, is read as before.
LEMMA iputAlike ==
  ASSUME NEW m \in RUN, NEW i \in Ino, m.cache[i].refCount > 0, m.cache[i].dirty
  PROVE  Alike(m, iput(m, i))
<1> DEFINE r == iput(m, i)
<1>1. Puts(m, i, r)
  BY iputIs
<1> HIDE DEF r
<1>2. m.cache[i].refCount \in Nat
  BY RefsAre
<1>3. View(r, i) = View(m, i)
  <2>1. CASE m.cache[i].refCount > 1
    <3>1. /\ r.cache[i].INODE = m.cache[i].INODE
          /\ r.cache[i].refCount = m.cache[i].refCount - 1
      BY <1>1, <2>1 DEF Puts
    <3>2. r.cache[i].refCount > 0
      BY <1>2, <2>1, <3>1
    <3>3. QED
      BY <3>1, <3>2 DEF View
  <2>2. CASE ~(m.cache[i].refCount > 1)
    <3>1. r.cache[i].refCount = 0 /\ r.disk.itab[i] = m.cache[i].INODE
      BY <1>1, <2>2 DEF Puts
    <3>2. QED
      BY <3>1 DEF View
  <2>3. QED
    BY <2>1, <2>2
<1>4. \A j \in Ino \ {i} : View(r, j) = View(m, j)
  BY <1>1 DEF Puts, View
<1>5. QED
  BY <1>1, <1>3, <1>4 DEF Alike, Puts, r

\* The bitmap of inodes is written.
LEMMA MarksAt ==
  ASSUME NEW m, NEW i \in Ino, NEW r, NEW c \in CTX, NEW o, NEW v \in DEBT, NEW B,
         At(m, o, v, {}, B, c), Marks(m, i, r)
  PROVE  At(r, o, v, {i}, B, c) /\ Still(m, r) /\ Seen(r) = Seen(m)
<1>1. m \in RUN /\ Fine(m, o, v, {}, B, c) /\ Settled(m, o, v, c)
  BY DEF At
<1>2. /\ r \in RUN /\ Logs(m, r)
      /\ r.disk.imap = m.disk.imap \cup {i} /\ r.disk.bmap = m.disk.bmap
  BY WroteLogs DEF Marks, OnlyImap, Wrote
<1>3. Good(r, o, v, c.k, c.w) /\ Still(m, r) /\ Seen(r) = Seen(m)
  BY <1>1, MarksGood DEF Fine
<1>4. \A j \in Seen(m) : View(r, j) = View(m, j) /\ (SeenDir(r, j) <=> SeenDir(m, j))
  BY <1>3 DEF Still, SeenDir
<1>5. Exact(m, {}, B, c.w) => Exact(r, {i}, B, c.w)
  BY <1>2, <1>3, <1>4 DEF Exact
<1>6. Fine(r, o, v, {i}, B, c) /\ Settled(r, o, v, c)
  BY <1>1, <1>2, <1>3, <1>5, StillFine DEF DEBT
<1>7. QED
  BY <1>2, <1>3, <1>6 DEF At

LEMMA FreesAt ==
  ASSUME NEW m, NEW i \in Ino, NEW r, NEW c \in CTX, NEW o, NEW v \in DEBT, NEW B,
         At(m, o, v, {i}, B, c), Frees(m, i, r), i \notin Seen(m) \ c.w.doomed
  PROVE  At(r, o, v, {}, B, c) /\ Still(m, r) /\ Seen(r) = Seen(m)
<1>1. m \in RUN /\ Fine(m, o, v, {i}, B, c) /\ Settled(m, o, v, c)
  BY DEF At
<1>2. /\ r \in RUN /\ Logs(m, r)
      /\ r.disk.imap = m.disk.imap \ {i} /\ r.disk.bmap = m.disk.bmap
  BY WroteLogs DEF Frees, OnlyImap, Wrote
<1>3. Good(r, o, v, c.k, c.w) /\ Still(m, r) /\ Seen(r) = Seen(m)
  BY <1>1, FreesGood DEF Fine
<1>4. \A j \in Seen(m) : View(r, j) = View(m, j) /\ (SeenDir(r, j) <=> SeenDir(m, j))
  BY <1>3 DEF Still, SeenDir
<1>5. Exact(m, {i}, B, c.w) => Exact(r, {}, B, c.w)
  BY <1>2, <1>3, <1>4 DEF Exact
<1>6. Fine(r, o, v, {}, B, c) /\ Settled(r, o, v, c)
  BY <1>1, <1>2, <1>3, <1>5, StillFine DEF DEBT
<1>7. QED
  BY <1>2, <1>3, <1>6 DEF At

\* The bitmap of blocks is written.
LEMMA MarksBlockAt ==
  ASSUME NEW m, NEW b, NEW r, NEW c \in CTX, NEW o, NEW v \in DEBT, NEW L,
         At(m, o, v, L, {}, c), MarksBlock(m, b, r)
  PROVE  At(r, o, v, L, {b}, c) /\ Still(m, r) /\ Seen(r) = Seen(m)
<1>1. m \in RUN /\ Fine(m, o, v, L, {}, c) /\ Settled(m, o, v, c)
  BY DEF At
<1>2. /\ r \in RUN /\ Logs(m, r)
      /\ r.disk.imap = m.disk.imap /\ r.disk.bmap = m.disk.bmap \cup {b}
  BY WroteLogs DEF MarksBlock, OnlyBmap, Wrote
<1>3. Good(r, o, v, c.k, c.w) /\ Still(m, r) /\ Seen(r) = Seen(m)
  BY <1>1, MarksBlockGood DEF Fine
<1>4. \A j \in Seen(m) : View(r, j) = View(m, j) /\ (SeenDir(r, j) <=> SeenDir(m, j))
  BY <1>3 DEF Still, SeenDir
<1>5. Exact(m, L, {}, c.w) => Exact(r, L, {b}, c.w)
  BY <1>2, <1>3, <1>4 DEF Exact
<1>6. Fine(r, o, v, L, {b}, c) /\ Settled(r, o, v, c)
  BY <1>1, <1>2, <1>3, <1>5, StillFine DEF DEBT
<1>7. QED
  BY <1>2, <1>3, <1>6 DEF At

\* No directory that is seen, but one that is doomed, has the block.
Spare(m, b, c) ==
  /\ \A i \in Seen(m) \ c.w.doomed : SeenDir(m, i) => View(m, i).block # b
  /\ c.w.unlinks \/ b \notin Metadata

LEMMA FreesBlockAt ==
  ASSUME NEW m, NEW b, NEW r, NEW c \in CTX, NEW o, NEW v \in DEBT, NEW L,
         At(m, o, v, L, {b}, c), FreesBlock(m, b, r), Spare(m, b, c)
  PROVE  At(r, o, v, L, {}, c) /\ Still(m, r) /\ Seen(r) = Seen(m)
<1>1. m \in RUN /\ Fine(m, o, v, L, {b}, c) /\ Settled(m, o, v, c)
  BY DEF At
<1>2. /\ r \in RUN /\ Logs(m, r)
      /\ r.disk.imap = m.disk.imap /\ r.disk.bmap = m.disk.bmap \ {b}
  BY WroteLogs DEF FreesBlock, OnlyBmap, Wrote
<1>3. Good(r, o, v, c.k, c.w) /\ Still(m, r) /\ Seen(r) = Seen(m)
  BY <1>1, FreesBlockGood DEF Fine, Spare
<1>4. \A j \in Seen(m) : View(r, j) = View(m, j) /\ (SeenDir(r, j) <=> SeenDir(m, j))
  BY <1>3 DEF Still, SeenDir
<1>5. Exact(m, L, {b}, c.w) => Exact(r, L, {}, c.w)
  <2>1. SUFFICES ASSUME Exact(m, L, {b}, c.w) PROVE Exact(r, L, {}, c.w)
    OBVIOUS
  <2>2. r.disk.imap = (Seen(r) \ c.w.doomed) \cup L
    BY <1>2, <1>3, <2>1 DEF Exact
  <2>3. ASSUME ~c.w.unlinks, NEW x \in Block
        PROVE  x \in r.disk.bmap <=>
                 \/ x \in Metadata \cup {}
                 \/ \E d \in Seen(r) \ c.w.doomed : SeenDir(r, d) /\ View(r, d).block = x
    BY <1>2, <1>3, <1>4, <2>1, <2>3 DEF Exact, Spare
  <2>4. QED
    BY <2>2, <2>3 DEF Exact
<1>6. Fine(r, o, v, L, {}, c) /\ Settled(r, o, v, c)
  BY <1>1, <1>2, <1>3, <1>5, StillFine DEF DEBT
<1>7. QED
  BY <1>2, <1>3, <1>6 DEF At

\* The block of a new directory is written.
LEMMA EmptyDirAt ==
  ASSUME NEW m, NEW b \in Block, NEW pino \in Ino, NEW c \in CTX, NEW o,
         NEW v \in DEBT, NEW L, NEW B, At(m, o, v, L, B, c),
         \A i \in Seen(m) : SeenDir(m, i) => View(m, i).block # b
  PROVE  LET r == put_block(m, [m.disk EXCEPT !.dirs[b] = EmptyDir(pino)])
         IN At(r, o, v, L, B, c) /\ Still(m, r) /\ Seen(r) = Seen(m)
<1> DEFINE r == put_block(m, [m.disk EXCEPT !.dirs[b] = EmptyDir(pino)])
<1>1. m \in RUN /\ Fine(m, o, v, L, B, c) /\ Settled(m, o, v, c)
  BY DEF At
<1>2. /\ Wrote(m, r) /\ OnlyDirs(m.disk, r.disk) /\ r.blockless = m.blockless
      /\ \A x \in Block : \A nm : Found(r.disk, x, nm) =
           IF x = b THEN 0 ELSE Found(m.disk, x, nm)
      /\ \A x \in Block : r.disk.dirs[x].parent =
           IF x = b THEN pino ELSE m.disk.dirs[x].parent
  BY <1>1, EmptyDirIs
<1> HIDE DEF r
<1>3. /\ r \in RUN /\ Logs(m, r) /\ r.disk.itab = m.disk.itab
      /\ r.disk.imap = m.disk.imap /\ r.disk.bmap = m.disk.bmap
  BY <1>2, WroteLogs DEF OnlyDirs, Wrote
<1>4. Good(m, o, v, c.k, c.w) /\ Tree(m) /\ Marked(m, c.w)
  BY <1>1 DEF Fine, Good
<1>5. \A i \in Seen(m) : SeenDir(m, i) =>
        /\ \A nm \in Name : Found(r.disk, View(m, i).block, nm) =
                            Found(m.disk, View(m, i).block, nm)
        /\ r.disk.dirs[View(m, i).block].parent =
             m.disk.dirs[View(m, i).block].parent
  BY <1>2, <1>4 DEF Tree
<1>6. /\ Seen(m) \ c.w.doomed \subseteq r.disk.imap
      /\ \A i \in Seen(m) \ c.w.doomed : SeenDir(m, i) => View(m, i).block \in r.disk.bmap
      /\ ~c.w.unlinks => Metadata \subseteq r.disk.bmap
  BY <1>3, <1>4 DEF Marked
<1>7. Good(r, o, v, c.k, c.w) /\ Still(m, r) /\ Seen(r) = Seen(m)
  BY <1>1, <1>2, <1>3, <1>4, <1>5, <1>6, WroteGood
<1>8. Exact(m, L, B, c.w) => Exact(r, L, B, c.w)
  BY <1>3, <1>7, SameExact
<1>9. Fine(r, o, v, L, B, c) /\ Settled(r, o, v, c)
  BY <1>1, <1>3, <1>7, <1>8, StillFine DEF DEBT
<1>10. QED
  BY <1>3, <1>7, <1>9 DEF At, r
\* Only what is in memory changes, and none of what is seen.
LEMMA MemoryAt ==
  ASSUME NEW m, NEW r \in RUN, NEW c \in CTX, NEW o, NEW v \in DEBT, NEW L, NEW B,
         At(m, o, v, L, B, c), r.disk = m.disk, r.log = m.log,
         \A j \in Seen(m) : View(r, j) = View(m, j),
         \A j \in Seen(m) : \/ r.cache[j] = m.cache[j]
                            \/ r.cache[j].dirty
  PROVE  At(r, o, v, L, B, c) /\ Still(m, r) /\ Seen(r) = Seen(m)
<1>1. m \in RUN /\ Fine(m, o, v, L, B, c) /\ Settled(m, o, v, c)
  BY DEF At
<1>2. Good(m, o, v, c.k, c.w) /\ Marked(m, c.w) /\ Clean(m)
  BY <1>1 DEF Fine, Good
<1>3. Still(m, r)
  BY DEF Still
<1>4. /\ Seen(m) \ c.w.doomed \subseteq r.disk.imap
      /\ \A j \in Seen(m) \ c.w.doomed : SeenDir(m, j) => View(m, j).block \in r.disk.bmap
      /\ ~c.w.unlinks => Metadata \subseteq r.disk.bmap
      /\ Rooted(r.disk.itab[Root])
  BY <1>2 DEF Marked, Clean
<1>5. \A j \in Seen(m) : r.cache[j].refCount > 0 /\ ~r.cache[j].dirty =>
           r.cache[j].INODE = r.disk.itab[j]
  <2>1. SUFFICES ASSUME NEW j \in Seen(m), r.cache[j].refCount > 0, ~r.cache[j].dirty
                 PROVE  r.cache[j].INODE = r.disk.itab[j]
    OBVIOUS
  <2>2. r.cache[j] = m.cache[j]
    BY <2>1
  <2>3. m.cache[j].refCount > 0 /\ ~m.cache[j].dirty
    BY <2>1, <2>2
  <2>4. QED
    BY <1>2, <2>2, <2>3 DEF Clean
<1>6. Good(r, o, v, c.k, c.w) /\ Seen(r) = Seen(m)
  BY <1>1, <1>2, <1>3, <1>4, <1>5, StillGood
<1>7. Logs(m, r)
  BY DEF Logs
<1>8. Exact(m, L, B, c.w) => Exact(r, L, B, c.w)
  BY <1>3, <1>6, SameExact
<1>9. Fine(r, o, v, L, B, c) /\ Settled(r, o, v, c)
  BY <1>1, <1>3, <1>6, <1>7, <1>8, StillFine DEF DEBT
<1>10. QED
  BY <1>3, <1>6, <1>9 DEF At

LEMMA StoreAt ==
  ASSUME NEW m, NEW i \in Ino, NEW ip \in INODE, NEW c \in CTX, NEW o,
         NEW v \in DEBT, NEW L, NEW B, At(m, o, v, L, B, c), i \notin Seen(m)
  PROVE  LET r == Store(m, i, ip)
         IN At(r, o, v, L, B, c) /\ Still(m, r) /\ Seen(r) = Seen(m)
<1> DEFINE r == Store(m, i, ip)
<1>1. m \in RUN
  BY DEF At
<1>2. /\ r \in RUN /\ r.disk = m.disk /\ r.log = m.log
      /\ \A j \in Ino \ {i} : r.cache[j] = m.cache[j]
  BY <1>1, StoreIs
<1> HIDE DEF r
<1>3. \A j \in Seen(m) : View(r, j) = View(m, j) /\ r.cache[j] = m.cache[j]
  BY <1>1, <1>2, SeenIs DEF View
<1>4. At(r, o, v, L, B, c) /\ Still(m, r) /\ Seen(r) = Seen(m)
  BY <1>2, <1>3, MemoryAt
<1>5. QED
  BY <1>4 DEF r

\* The inode is marked, its count not changed.
LEMMA AddZeroAlike ==
  ASSUME NEW m \in RUN, NEW i \in Ino
  PROVE  LET r == AddLinks(m, i, 0)
         IN /\ r \in RUN /\ Alike(m, r) /\ r.disk = m.disk /\ r.log = m.log
            /\ \A j \in Ino : r.cache[j] = m.cache[j] \/ r.cache[j].dirty
<1> DEFINE r == AddLinks(m, i, 0)
           ip == m.cache[i].INODE
<1>1. /\ r \in RUN /\ r.disk = m.disk /\ r.log = m.log
      /\ \A j \in Ino \ {i} : r.cache[j] = m.cache[j]
      /\ r.cache[i].refCount = m.cache[i].refCount
      /\ r.cache[i].dirty
      /\ r.cache[i].INODE.type = ip.type /\ r.cache[i].INODE.block = ip.block
      /\ r.cache[i].INODE.links = (ip.links + 0) % LinkMod
  <2>1. 0 \in Int
    OBVIOUS
  <2>2. QED
    BY <2>1, AddLinksIs
<1> HIDE DEF r
<1>2. ip \in INODE /\ r.cache[i].INODE \in INODE
  BY <1>1 DEF RUN, CACHE, SLOT
<1> HIDE DEF ip
<1>3. ip.links \in 0..(LinkMod - 1) /\ ip.links + 0 = ip.links
  <2>1. ip.links \in 0..(LinkMod - 1)
    BY <1>2 DEF INODE
  <2> HIDE DEF LinkMod
  <2>2. QED
    BY <2>1, LinksIs
<1>4. r.cache[i].INODE.links = ip.links
  BY <1>1, <1>3, WrapSame
<1>5. r.cache[i].INODE = ip
  <2> DEFINE q == r.cache[i].INODE
  <2>1. q \in INODE /\ q.type = ip.type /\ q.block = ip.block /\ q.links = ip.links
    BY <1>1, <1>2, <1>4
  <2> HIDE DEF q
  <2>2. q = ip
    BY <1>2, <2>1 DEF INODE
  <2>3. QED
    BY <2>2 DEF q
<1>6. Alike(m, r)
  BY <1>1, <1>5 DEF Alike, View, ip
<1>7. QED
  BY <1>1, <1>6 DEF r

LEMMA AddZeroAt ==
  ASSUME NEW m, NEW i \in Ino, NEW c \in CTX, NEW o, NEW v \in DEBT, NEW L, NEW B,
         At(m, o, v, L, B, c)
  PROVE  LET r == AddLinks(m, i, 0)
         IN At(r, o, v, L, B, c) /\ Still(m, r) /\ Seen(r) = Seen(m)
<1> DEFINE r == AddLinks(m, i, 0)
<1>1. m \in RUN
  BY DEF At
<1>2. /\ r \in RUN /\ Alike(m, r) /\ r.disk = m.disk /\ r.log = m.log
      /\ \A j \in Ino : r.cache[j] = m.cache[j] \/ r.cache[j].dirty
  BY <1>1, AddZeroAlike
<1> HIDE DEF r
<1>3. \A j \in Seen(m) : View(r, j) = View(m, j)
  BY <1>1, <1>2, SeenIs DEF Alike
<1>4. \A j \in Seen(m) : r.cache[j] = m.cache[j] \/ r.cache[j].dirty
  BY <1>1, <1>2, SeenIs
<1>5. At(r, o, v, L, B, c) /\ Still(m, r) /\ Seen(r) = Seen(m)
  BY <1>2, <1>3, <1>4, MemoryAt
<1>6. QED
  BY <1>5 DEF r

LEMMA DropAt ==
  ASSUME NEW m, NEW i \in Ino, NEW c \in CTX, NEW o, NEW v \in DEBT, NEW L, NEW B,
         At(m, o, v, L, B, c), i \notin Seen(m)
  PROVE  LET r == Drop(m, i)
         IN At(r, o, v, L, B, c) /\ Still(m, r) /\ Seen(r) = Seen(m)
<1> DEFINE r == Drop(m, i)
<1>1. m \in RUN
  BY DEF At
<1>2. /\ r \in RUN /\ r.disk = m.disk /\ r.log = m.log
      /\ \A j \in Ino \ {i} : r.cache[j] = m.cache[j]
  BY <1>1, DropIs
<1> HIDE DEF r
<1>3. \A j \in Seen(m) : View(r, j) = View(m, j) /\ r.cache[j] = m.cache[j]
  BY <1>1, <1>2, SeenIs DEF View
<1>4. At(r, o, v, L, B, c) /\ Still(m, r) /\ Seen(r) = Seen(m)
  BY <1>2, <1>3, MemoryAt
<1>5. QED
  BY <1>4 DEF r
\* Only what is in memory changes, and the counts add up.
LEMMA KeepsAt ==
  ASSUME NEW m \in RUN, NEW r \in RUN, NEW c \in CTX, NEW o, NEW v, NEW L, NEW B,
         Fine(m, o, v, L, B, c), r.disk = m.disk, r.log = m.log, Keeps(m, r),
         \A j \in Seen(m) : \/ r.cache[j] = m.cache[j]
                            \/ r.cache[j].dirty,
         FileCounts(r, Root, 0, c.k), DirCounts(r, Root, 0, c.k, c.w.again)
  PROVE  At(r, Root, 0, L, B, c) /\ Seen(r) = Seen(m)
<1>1. Good(m, o, v, c.k, c.w) /\ Tree(m) /\ Marked(m, c.w) /\ Clean(m)
  BY DEF Fine, Good
<1>2. Tree(r) /\ Seen(r) = Seen(m)
  BY <1>1, KeepsTree
<1>3. \A j \in Seen(m) : View(r, j).block = View(m, j).block
                         /\ (SeenDir(r, j) <=> SeenDir(m, j))
  BY DEF Keeps
<1>4. Marked(r, c.w)
  BY <1>1, <1>2, <1>3 DEF Marked
<1>5. Clean(r)
  <2>1. SUFFICES ASSUME NEW j \in Seen(m), r.cache[j].refCount > 0, ~r.cache[j].dirty
                 PROVE  r.cache[j].INODE = r.disk.itab[j]
    BY <1>1, <1>2 DEF Clean
  <2>2. r.cache[j] = m.cache[j]
    BY <2>1
  <2>3. m.cache[j].refCount > 0 /\ ~m.cache[j].dirty
    BY <2>1, <2>2
  <2>4. QED
    BY <1>1, <2>2, <2>3 DEF Clean
<1>6. Good(r, Root, 0, c.k, c.w)
  BY <1>2, <1>4, <1>5 DEF Good
<1>7. c.k = 0 => Exact(r, L, B, c.w)
  BY <1>2, <1>3 DEF Fine, Exact
<1>8. LogFine(r, c) /\ c.keep \subseteq Seen(r)
  BY <1>2 DEF Fine, LogFine
<1>9. QED
  BY <1>2, <1>6, <1>7, <1>8 DEF At, Fine, Settled

\* The count of links is brought up to date.
LEMMA PayAt ==
  ASSUME Small, NEW m \in RUN, NEW c \in CTX, NEW v \in DEBT, NEW i \in Ino,
         NEW L, NEW B, Fine(m, i, v, L, B, c), m.cache[i].refCount > 0
  PROVE  LET r == AddLinks(m, i, v)
         IN /\ At(r, Root, 0, L, B, c) /\ Keeps(m, r) /\ Seen(r) = Seen(m)
            /\ Balanced(m, r) /\ r.disk = m.disk /\ r.blockless = m.blockless
<1> DEFINE r == AddLinks(m, i, v)
<1>1. /\ r \in RUN /\ r.disk = m.disk /\ r.log = m.log /\ r.blockless = m.blockless
      /\ \A j \in Ino \ {i} : r.cache[j] = m.cache[j]
      /\ r.cache[i].refCount = m.cache[i].refCount
      /\ r.cache[i].dirty
      /\ r.cache[i].INODE.type = m.cache[i].INODE.type
      /\ r.cache[i].INODE.block = m.cache[i].INODE.block
      /\ r.cache[i].INODE.links = (m.cache[i].INODE.links + v) % LinkMod
  <2>1. v \in Int
    BY DEF DEBT
  <2>2. QED
    BY <2>1, AddLinksIs
<1> HIDE DEF r
<1>2. /\ \A j \in Ino \ {i} : View(r, j) = View(m, j)
      /\ View(r, i).type = View(m, i).type /\ View(r, i).block = View(m, i).block
      /\ View(r, i).links = (View(m, i).links + v) % LinkMod
  BY <1>1 DEF View
<1>3. \A j \in Ino : /\ View(r, j).type = View(m, j).type
                     /\ View(r, j).block = View(m, j).block
                     /\ (SeenDir(r, j) <=> SeenDir(m, j))
  BY <1>2 DEF SeenDir
<1>4. Good(m, i, v, c.k, c.w) /\ Tree(m)
  BY DEF Fine, Good
<1>5. Keeps(m, r)
  BY <1>1, <1>3, <1>4, SeenIs DEF Keeps, Found, Tree
<1>6. /\ Seen(r) = Seen(m)
      /\ \A j : Edges(Kids(r), j) = Edges(Kids(m), j)
      /\ \A d \in Seen(m) : Subs(r, d) = Subs(m, d)
  BY <1>1, <1>4, <1>5, KeepsTree
<1>7. FileCounts(r, Root, 0, c.k)
  <2>1. SUFFICES ASSUME NEW j \in Seen(m), ~SeenDir(m, j)
                 PROVE  View(r, j).links + Owed(j, Root, 0)
                          - Cardinality(Edges(Kids(m), j)) \in 0..c.k
    BY <1>3, <1>6, SeenIs DEF FileCounts
  <2>2. View(m, j).links + Owed(j, i, v) - Cardinality(Edges(Kids(m), j)) \in 0..c.k
    BY <1>4, <2>1 DEF Good, FileCounts
  <2>3. CASE j # i
    BY <1>2, <2>2, <2>3, SeenIs DEF Owed
  <2>4. CASE j = i
    <3> DEFINE a == View(m, j).links
               e == Cardinality(Edges(Kids(m), j))
    <3>1. a + v - e \in 0..c.k
      BY <2>2, <2>4 DEF Owed
    <3>2. /\ e \in Nat /\ e + c.k < LinkMod /\ a \in Nat /\ v \in Int /\ c.k \in Nat
          /\ LinkMod \in Nat
      <4>1. a \in Nat
        BY <2>4, LinksOf
      <4>2. e \in Nat /\ e <= Cardinality(Ino \X Name) /\ Cardinality(Ino \X Name) \in Nat
        BY EdgesFinite
      <4>3. c.k \in Nat /\ c.k <= MaxKill /\ MaxKill \in Nat /\ v \in Int
        BY CtxIs, NamespaceAssumption DEF DEBT
      <4>4. Cardinality(Ino \X Name) + MaxKill < LinkMod /\ LinkMod \in Nat
        BY LinksIs DEF Small
      <4> HIDE DEF a, e, LinkMod
      <4>5. QED
        BY <4>1, <4>2, <4>3, <4>4
    <3> HIDE DEF a, e, LinkMod
    <3>3. a + v \in 0..(LinkMod - 1)
      BY <3>1, <3>2
    <3>4. (a + v) % LinkMod = a + v
      BY <3>3, WrapSame
    <3>5. View(r, j).links = a + v
      BY <1>2, <2>4, <3>4 DEF a
    <3>6. View(r, j).links + 0 - e \in 0..c.k
      BY <3>1, <3>2, <3>5
    <3>7. QED
      BY <3>6 DEF Owed, e
  <2>5. QED
    BY <2>3, <2>4
<1>8. DirCounts(r, Root, 0, c.k, c.w.again)
  <2>1. SUFFICES ASSUME NEW d \in Seen(m), SeenDir(m, d), d # Root \/ ~c.w.again
                 PROVE  \E j \in 0..c.k : View(r, d).links =
                          (Dots(m, d) - Owed(d, Root, 0) - j) % LinkMod
    BY <1>3, <1>6, SeenIs DEF DirCounts, Dots
  <2>2. PICK j \in 0..c.k : View(m, d).links = (Dots(m, d) - Owed(d, i, v) - j) % LinkMod
    BY <1>4, <2>1 DEF Good, DirCounts
  <2>3. CASE d # i
    BY <1>2, <2>2, <2>3, SeenIs DEF Owed
  <2>4. CASE d = i
    <3> DEFINE a == Dots(m, d) - v - j
    <3>1. Dots(m, d) \in Nat /\ v \in Int /\ j \in Int
      BY SubsFinite, CtxIs DEF Dots, DEBT
    <3>2. a \in Int /\ a + v = Dots(m, d) - 0 - j
      BY <3>1
    <3>3. View(m, d).links = a % LinkMod
      BY <2>2, <2>4 DEF Owed
    <3>4. View(r, d).links = ((a % LinkMod) + v) % LinkMod
      BY <1>2, <2>4, <3>3
    <3> HIDE DEF a, LinkMod
    <3>5. View(r, d).links = (Dots(m, d) - 0 - j) % LinkMod
      BY <3>1, <3>2, <3>4, WrapAdd
    <3>6. QED
      BY <3>5 DEF Owed
  <2>5. QED
    BY <2>3, <2>4
<1>9. \A j \in Seen(m) : r.cache[j] = m.cache[j] \/ r.cache[j].dirty
  BY <1>1, SeenIs
<1>10. At(r, Root, 0, L, B, c)
  BY <1>1, <1>5, <1>7, <1>8, <1>9, KeepsAt
<1>11. Balanced(m, r)
  BY <1>1 DEF Balanced
<1>12. QED
  BY <1>1, <1>5, <1>6, <1>10, <1>11 DEF r

\* A file that is seen becomes a symbolic link.
LEMMA LnkAt ==
  ASSUME NEW m, NEW i \in Ino, NEW c \in CTX, NEW L, NEW B,
         At(m, Root, 0, L, B, c), i \in Seen(m), ~SeenDir(m, i),
         m.cache[i].refCount > 0
  PROVE  LET r == Store(m, i, [m.cache[i].INODE EXCEPT !.type = "lnk"])
         IN /\ At(r, Root, 0, L, B, c) /\ Keeps(m, r) /\ Seen(r) = Seen(m)
            /\ Balanced(m, r) /\ r.disk = m.disk /\ r.blockless = m.blockless
<1> DEFINE ip == [m.cache[i].INODE EXCEPT !.type = "lnk"]
           r == Store(m, i, ip)
<1>1. m \in RUN /\ Fine(m, Root, 0, L, B, c)
  BY DEF At
<1>2. /\ ip \in INODE /\ ip.type = "lnk" /\ ip.block = m.cache[i].INODE.block
      /\ ip.links = m.cache[i].INODE.links
  <2>1. m.cache[i].INODE \in INODE
    BY <1>1 DEF RUN, CACHE, SLOT
  <2>2. QED
    BY <2>1 DEF INODE
<1> HIDE DEF ip
<1>3. /\ r \in RUN /\ r.disk = m.disk /\ r.log = m.log /\ r.blockless = m.blockless
      /\ \A j \in Ino \ {i} : r.cache[j] = m.cache[j]
      /\ r.cache[i].refCount = m.cache[i].refCount
      /\ r.cache[i].INODE = ip /\ r.cache[i].dirty
  BY <1>1, <1>2, StoreIs
<1> HIDE DEF r
<1>4. /\ \A j \in Ino \ {i} : View(r, j) = View(m, j)
      /\ View(r, i).type = "lnk" /\ View(r, i).block = View(m, i).block
      /\ View(r, i).links = View(m, i).links
  BY <1>2, <1>3 DEF View
<1>5. Good(m, Root, 0, c.k, c.w) /\ Tree(m)
  BY <1>1 DEF Fine, Good
<1>6. \A j \in Seen(m) : /\ View(r, j).type # "none"
                         /\ View(r, j).block = View(m, j).block
                         /\ View(r, j).links = View(m, j).links
                         /\ (SeenDir(r, j) <=> SeenDir(m, j))
  BY <1>1, <1>4, <1>5, SeenIs DEF SeenDir, Tree
<1>7. Keeps(m, r)
  BY <1>3, <1>6 DEF Keeps, Found
<1>8. /\ Seen(r) = Seen(m)
      /\ \A j : Edges(Kids(r), j) = Edges(Kids(m), j)
      /\ \A d \in Seen(m) : Subs(r, d) = Subs(m, d)
  BY <1>1, <1>3, <1>5, <1>7, KeepsTree
<1>9. FileCounts(r, Root, 0, c.k) /\ DirCounts(r, Root, 0, c.k, c.w.again)
  BY <1>5, <1>6, <1>8 DEF Good, FileCounts, DirCounts, Dots
<1>10. \A j \in Seen(m) : r.cache[j] = m.cache[j] \/ r.cache[j].dirty
  BY <1>1, <1>3, SeenIs
<1>11. At(r, Root, 0, L, B, c)
  BY <1>1, <1>3, <1>7, <1>9, <1>10, KeepsAt
<1>12. Balanced(m, r)
  BY <1>3 DEF Balanced
<1>13. QED
  BY <1>3, <1>7, <1>8, <1>11, <1>12 DEF r, ip
\* What an entry written by a command changes.
Entered(m, d, nm, i, r) ==
  /\ Wrote(m, r) /\ OnlyDirs(m.disk, r.disk) /\ r.blockless = m.blockless
  /\ Tree(r) /\ Seen(r) = Seen(m) \cup {i}
  /\ \A j : View(r, j) = View(m, j) /\ (SeenDir(r, j) <=> SeenDir(m, j))
  /\ Cardinality(Edges(Kids(r), i)) = Cardinality(Edges(Kids(m), i)) + 1
  /\ \A j \in Ino \ {i} : Edges(Kids(r), j) = Edges(Kids(m), j)
  /\ \A e \in Seen(m) : e # d \/ ~SeenDir(m, i) => Dots(r, e) = Dots(m, e)
  /\ SeenDir(m, i) => Dots(r, d) = Dots(m, d) + 1 /\ Dots(r, i) = 2
  /\ \A e \in Seen(m), x \in Name :
       Kids(r)[e][x] = IF e = d /\ x = nm THEN i ELSE Kids(m)[e][x]

LEMMA EnteredIs ==
  ASSUME NEW m \in RUN, Tree(m), NEW d \in Seen(m), SeenDir(m, d),
         m.cache[d].refCount > 0, NEW nm \in Name, NEW i \in Ino,
         Kids(m)[d][nm] = 0, Enterable(m, d, i)
  PROVE  Entered(m, d, nm, i, enter_name(m, d, i, nm))
<1> DEFINE r == enter_name(m, d, i, nm)
           b == View(m, d).block
<1>1. b \in Block /\ b # 0 /\ m.cache[d].INODE = View(m, d) /\ d \in Ino
  BY SeenIs, RootIs DEF Tree, View
<1>2. Renames(m, b, nm, i, r) /\ r.blockless = (m.blockless \/ b = 0)
  BY <1>1, enter_nameIs
<1> HIDE DEF r, b
<1>3. Wrote(m, r) /\ OnlyDirs(m.disk, r.disk) /\ r \in RUN
  BY <1>2 DEF Renames, Wrote
<1>4. r.blockless = m.blockless
  <2>1. m.blockless \in BOOLEAN
    BY DEF RUN
  <2>2. QED
    BY <1>1, <1>2, <2>1
<1>5. \A j : View(r, j) = View(m, j) /\ (SeenDir(r, j) <=> SeenDir(m, j))
  BY <1>2, RenamesView
<1>6. /\ Tree(r) /\ Seen(r) = Seen(m) \cup {i}
      /\ Enters(Kids(m), d, nm, i, Kids(r))
      /\ \A e \in Seen(m), x \in Name :
           Kids(r)[e][x] = IF e = d /\ x = nm THEN i ELSE Kids(m)[e][x]
      /\ i \notin Seen(m) => \A x \in Name : Kids(r)[i][x] = 0
  BY <1>2, <1>3, EnterTree DEF b
<1>7. /\ <<d, nm>> \notin Edges(Kids(m), i)
      /\ Edges(Kids(r), i) = Edges(Kids(m), i) \cup {<<d, nm>>}
      /\ \A j \in Ino \ {i} : Edges(Kids(r), j) = Edges(Kids(m), j)
  <2>1. Kids(m) \in GRAPH /\ Kids(r) \in GRAPH
    BY <1>3, KidsAre
  <2>2. /\ Reach(Kids(r)) = Reach(Kids(m)) \cup {i}
        /\ <<d, nm>> \notin Edges(Kids(m), i)
        /\ Edges(Kids(r), i) = Edges(Kids(m), i) \cup {<<d, nm>>}
        /\ \A j \in Ino \ {i} : Edges(Kids(r), j) = Edges(Kids(m), j)
    BY <1>6, <2>1, ReachEnters
  <2>3. QED
    BY <2>2
<1>8. Cardinality(Edges(Kids(r), i)) = Cardinality(Edges(Kids(m), i)) + 1
  <2>1. IsFiniteSet(Edges(Kids(m), i))
    BY EdgesFinite
  <2>2. QED
    BY <1>7, <2>1, FS_AddElement
<1>9. ASSUME NEW e \in Seen(m), e # d \/ ~SeenDir(m, i)
      PROVE  Dots(r, e) = Dots(m, e)
  <2>1. ASSUME NEW x \in Name PROVE x \in Subs(r, e) <=> x \in Subs(m, e)
    <3>1. CASE e = d /\ x = nm
      BY <1>5, <1>6, <1>9, <3>1 DEF Subs
    <3>2. CASE ~(e = d /\ x = nm)
      BY <1>5, <1>6, <3>2 DEF Subs
    <3>3. QED
      BY <3>1, <3>2
  <2>2. Subs(r, e) = Subs(m, e)
    BY <2>1 DEF Subs
  <2>3. QED
    BY <2>2 DEF Dots
<1>10. ASSUME SeenDir(m, i)
       PROVE  Dots(r, d) = Dots(m, d) + 1 /\ Dots(r, i) = 2
  <2>1. i \notin Seen(m) /\ i # 0
    BY <1>10, RootIs DEF Enterable
  <2>2. nm \notin Subs(m, d)
    BY DEF Subs
  <2>3. ASSUME NEW x \in Name PROVE x \in Subs(r, d) <=> x \in Subs(m, d) \cup {nm}
    <3>1. CASE x = nm
      BY <1>5, <1>6, <1>10, <2>1, <3>1 DEF Subs
    <3>2. CASE x # nm
      BY <1>5, <1>6, <3>2 DEF Subs
    <3>3. QED
      BY <3>1, <3>2
  <2>4. Subs(r, d) = Subs(m, d) \cup {nm}
    BY <2>3 DEF Subs
  <2>5. IsFiniteSet(Subs(m, d)) /\ Cardinality(Subs(m, d)) \in Nat
    BY SubsFinite
  <2>6. Cardinality(Subs(r, d)) = Cardinality(Subs(m, d)) + 1
    BY <2>2, <2>4, <2>5, FS_AddElement
  <2>7. Subs(r, i) = {}
    BY <1>6, <2>1 DEF Subs
  <2>8. QED
    BY <2>5, <2>6, <2>7, FS_EmptySet DEF Dots
<1>11. QED
  BY <1>3, <1>4, <1>5, <1>6, <1>7, <1>8, <1>9, <1>10 DEF Entered, r

\* A new inode was written: marked, and not forgotten in memory.
Ready(m, i) ==
  /\ i \in m.disk.imap /\ i \notin Seen(m)
  /\ m.cache[i].refCount > 0 /\ ~m.cache[i].dirty => m.cache[i].INODE = m.disk.itab[i]

\* A file gets another entry, before its count.
LEMMA EnterOldAt ==
  ASSUME NEW m, NEW c \in CTX, At(m, Root, 0, {}, {}, c),
         NEW d \in Seen(m), NEW i \in Seen(m), ~SeenDir(m, i),
         NEW nm, NEW r, Entered(m, d, nm, i, r), Len(r.log) \notin c.claim
  PROVE  Fine(r, i, 1, {}, {}, c) /\ r \in RUN
<1>1. m \in RUN /\ Fine(m, Root, 0, {}, {}, c) /\ r \in RUN /\ Logs(m, r)
  BY WroteLogs DEF At, Entered, Wrote
<1>2. /\ Good(m, Root, 0, c.k, c.w) /\ Tree(m) /\ Marked(m, c.w) /\ Clean(m)
      /\ FileCounts(m, Root, 0, c.k) /\ DirCounts(m, Root, 0, c.k, c.w.again)
  BY <1>1 DEF Fine, Good
<1>3. /\ r.disk.imap = m.disk.imap /\ r.disk.bmap = m.disk.bmap
      /\ r.disk.itab = m.disk.itab /\ r.cache = m.cache /\ Seen(r) = Seen(m)
  BY DEF Entered, OnlyDirs, Wrote
<1>4. \A j : View(r, j) = View(m, j) /\ (SeenDir(r, j) <=> SeenDir(m, j))
  BY DEF Entered
<1>5. Marked(r, c.w) /\ Clean(r) /\ Tree(r)
  BY <1>2, <1>3, <1>4 DEF Marked, Clean, Entered
<1>6. FileCounts(r, i, 1, c.k)
  <2>1. SUFFICES ASSUME NEW j \in Seen(m), ~SeenDir(m, j)
                 PROVE  View(m, j).links + Owed(j, i, 1)
                          - Cardinality(Edges(Kids(r), j)) \in 0..c.k
    BY <1>3, <1>4 DEF FileCounts
  <2>2. View(m, j).links + Owed(j, Root, 0) - Cardinality(Edges(Kids(m), j)) \in 0..c.k
    BY <1>2, <2>1 DEF FileCounts
  <2>3. Owed(j, Root, 0) = 0
    BY DEF Owed
  <2>4. j \in Ino /\ View(m, j).links \in Nat /\ Cardinality(Edges(Kids(m), j)) \in Nat
    BY <1>1, SeenIs, LinksOf, EdgesFinite
  <2>5. CASE j = i
    <3>1. Cardinality(Edges(Kids(r), j)) = Cardinality(Edges(Kids(m), j)) + 1
      BY <2>5 DEF Entered
    <3>2. QED
      BY <2>2, <2>3, <2>4, <2>5, <3>1 DEF Owed
  <2>6. CASE j # i
    BY <2>2, <2>4, <2>6 DEF Entered, Owed
  <2>7. QED
    BY <2>5, <2>6
<1>7. DirCounts(r, i, 1, c.k, c.w.again)
  <2>1. \A e \in Seen(m) : Dots(r, e) = Dots(m, e)
    BY DEF Entered
  <2>2. \A e \in Seen(m) : SeenDir(m, e) => Owed(e, i, 1) = 0 /\ Owed(e, Root, 0) = 0
    BY DEF Owed
  <2>3. QED
    BY <1>2, <1>3, <1>4, <2>1, <2>2 DEF DirCounts
<1>8. Good(r, i, 1, c.k, c.w)
  BY <1>5, <1>6, <1>7 DEF Good
<1>9. c.k = 0 => Exact(r, {}, {}, c.w)
  BY <1>1, <1>3, <1>4 DEF Fine, Exact
<1>10. LogFine(r, c) /\ c.keep \subseteq Seen(r)
  BY <1>1, <1>3, LogStep DEF Fine
<1>11. QED
  BY <1>1, <1>8, <1>9, <1>10 DEF Fine

\* A new file gets its entry.
LEMMA EnterFileAt ==
  ASSUME NEW m, NEW c \in CTX, NEW d \in Seen(m), NEW i \in Ino,
         At(m, Root, 0, {i}, {}, c), c.w.doomed = {},
         Ready(m, i), ~SeenDir(m, i), View(m, i).links = 1,
         NEW nm, NEW r, Entered(m, d, nm, i, r)
  PROVE  At(r, Root, 0, {}, {}, c)
<1>1. m \in RUN /\ Fine(m, Root, 0, {i}, {}, c) /\ r \in RUN /\ Logs(m, r)
  BY WroteLogs DEF At, Entered, Wrote
<1>2. /\ Good(m, Root, 0, c.k, c.w) /\ Tree(m) /\ Marked(m, c.w) /\ Clean(m)
      /\ FileCounts(m, Root, 0, c.k) /\ DirCounts(m, Root, 0, c.k, c.w.again)
  BY <1>1 DEF Fine, Good
<1>3. /\ r.disk.imap = m.disk.imap /\ r.disk.bmap = m.disk.bmap
      /\ r.disk.itab = m.disk.itab /\ r.cache = m.cache /\ Seen(r) = Seen(m) \cup {i}
  BY DEF Entered, OnlyDirs, Wrote
<1>4. \A j : View(r, j) = View(m, j) /\ (SeenDir(r, j) <=> SeenDir(m, j))
  BY DEF Entered
<1>5. Marked(r, c.w) /\ Clean(r) /\ Tree(r)
  BY <1>2, <1>3, <1>4 DEF Marked, Clean, Entered, Ready
<1>6. FileCounts(r, Root, 0, c.k)
  <2>1. SUFFICES ASSUME NEW j \in Seen(r), ~SeenDir(m, j)
                 PROVE  View(m, j).links + Owed(j, Root, 0)
                          - Cardinality(Edges(Kids(r), j)) \in 0..c.k
    BY <1>3, <1>4 DEF FileCounts
  <2>3. Owed(j, Root, 0) = 0
    BY DEF Owed
  <2>5. CASE j = i
    <3>1. Edges(Kids(m), i) = {}
      BY <1>1, EdgesSeen DEF Ready
    <3>2. Cardinality(Edges(Kids(r), j)) = 1
      BY <2>5, <3>1, FS_EmptySet DEF Entered
    <3>3. QED
      BY <2>3, <2>5, <3>2, CtxIs
  <2>6. CASE j # i
    <3>1. j \in Seen(m) /\ j \in Ino
      BY <1>1, <1>3, <2>6, SeenIs
    <3>2. QED
      BY <1>2, <2>1, <2>6, <3>1 DEF Entered, FileCounts
  <2>7. QED
    BY <2>5, <2>6
<1>7. DirCounts(r, Root, 0, c.k, c.w.again)
  <2>1. \A e \in Seen(m) : Dots(r, e) = Dots(m, e)
    BY DEF Entered
  <2>2. QED
    BY <1>2, <1>3, <1>4, <2>1 DEF DirCounts
<1>8. Good(r, Root, 0, c.k, c.w)
  BY <1>5, <1>6, <1>7 DEF Good
<1>9. c.k = 0 => Exact(r, {}, {}, c.w)
  BY <1>1, <1>3, <1>4 DEF Fine, Exact
<1>10. LogFine(r, c) /\ c.keep \subseteq Seen(r)
  <2>1. LogFine(m, c) /\ c.keep \subseteq Seen(r)
    BY <1>1, <1>3 DEF Fine
  <2>2. QED
    BY <1>1, <1>8, <2>1, SettledStep DEF Settled
<1>11. QED
  BY <1>1, <1>8, <1>9, <1>10 DEF At, Fine, Settled

\* A new directory gets its entry, before its parent counts its "..".
LEMMA EnterDirAt ==
  ASSUME NEW m, NEW c \in CTX, NEW d \in Seen(m), SeenDir(m, d), NEW i \in Ino,
         NEW b, At(m, Root, 0, {i}, {b}, c), c.w.doomed = {}, ~c.w.unlinks,
         Ready(m, i), SeenDir(m, i), View(m, i).links = 2,
         View(m, i).block = b, b \in m.disk.bmap,
         NEW nm, NEW r, Entered(m, d, nm, i, r)
  PROVE  At(r, d, 1, {}, {}, c)
<1>1. m \in RUN /\ Fine(m, Root, 0, {i}, {b}, c) /\ r \in RUN /\ Logs(m, r)
  BY WroteLogs DEF At, Entered, Wrote
<1>2. /\ Good(m, Root, 0, c.k, c.w) /\ Tree(m) /\ Marked(m, c.w) /\ Clean(m)
      /\ FileCounts(m, Root, 0, c.k) /\ DirCounts(m, Root, 0, c.k, c.w.again)
  BY <1>1 DEF Fine, Good
<1>3. /\ r.disk.imap = m.disk.imap /\ r.disk.bmap = m.disk.bmap
      /\ r.disk.itab = m.disk.itab /\ r.cache = m.cache /\ Seen(r) = Seen(m) \cup {i}
      /\ i # d
  BY DEF Entered, OnlyDirs, Wrote, Ready
<1>4. \A j : View(r, j) = View(m, j) /\ (SeenDir(r, j) <=> SeenDir(m, j))
  BY DEF Entered
<1>5. Marked(r, c.w) /\ Clean(r) /\ Tree(r)
  BY <1>2, <1>3, <1>4 DEF Marked, Clean, Entered, Ready
<1>6. FileCounts(r, d, 1, c.k)
  <2>1. ASSUME NEW j \in Seen(r), ~SeenDir(m, j)
        PROVE  View(m, j).links + Owed(j, d, 1)
                          - Cardinality(Edges(Kids(r), j)) \in 0..c.k
    <3>1. j \in Seen(m) /\ j \in Ino /\ j # i /\ j # d
      BY <1>1, <1>3, <2>1, SeenIs
    <3>2. Owed(j, d, 1) = 0 /\ Owed(j, Root, 0) = 0
      BY <3>1 DEF Owed
    <3>3. QED
      BY <1>2, <2>1, <3>1, <3>2 DEF Entered, FileCounts
  <2>2. QED
    BY <1>4, <2>1 DEF FileCounts
<1>7. DirCounts(r, d, 1, c.k, c.w.again)
  <2>1. SUFFICES ASSUME NEW e \in Seen(r), SeenDir(m, e), e # Root \/ ~c.w.again
                 PROVE  \E j \in 0..c.k : View(m, e).links =
                          (Dots(r, e) - Owed(e, d, 1) - j) % LinkMod
    BY <1>3, <1>4 DEF DirCounts
  <2>2. CASE e = i
    <3>1. Dots(r, e) = 2 /\ Owed(e, d, 1) = 0 /\ 0 \in 0..c.k
      BY <1>3, <2>1, <2>2, CtxIs DEF Entered, Owed
    <3>2. 2 \in 0..(LinkMod - 1)
      <4> HIDE DEF LinkMod
      <4>1. QED
        BY LinksIs
    <3>3. (2 - 0 - 0) % LinkMod = 2
      BY <3>2, WrapSame
    <3>4. QED
      BY <2>2, <3>1, <3>3
  <2>3. CASE e # i
    <3>1. e \in Seen(m)
      BY <1>3, <2>3
    <3>2. PICK j \in 0..c.k : View(m, e).links =
                          (Dots(m, e) - Owed(e, Root, 0) - j) % LinkMod
      BY <1>2, <2>1, <3>1 DEF DirCounts
    <3>3. Dots(m, e) \in Nat
      BY SubsFinite DEF Dots
    <3>4. Dots(r, e) - Owed(e, d, 1) = Dots(m, e) - Owed(e, Root, 0)
      <4>1. CASE e = d
        <5>1. Dots(r, e) = Dots(m, e) + 1 /\ Owed(e, d, 1) = 1 /\ Owed(e, Root, 0) = 0
          BY <4>1 DEF Entered, Owed
        <5>2. QED
          BY <3>3, <5>1
      <4>2. CASE e # d
        BY <3>1, <4>2 DEF Entered, Owed
      <4>3. QED
        BY <4>1, <4>2
    <3>5. QED
      BY <3>2, <3>4
  <2>4. QED
    BY <2>2, <2>3
<1>8. Good(r, d, 1, c.k, c.w)
  BY <1>5, <1>6, <1>7 DEF Good
<1>9. c.k = 0 => Exact(r, {}, {}, c.w)
  <2>1. SUFFICES ASSUME Exact(m, {i}, {b}, c.w) PROVE Exact(r, {}, {}, c.w)
    BY <1>1 DEF Fine
  <2>2. r.disk.imap = (Seen(r) \ c.w.doomed) \cup {}
    BY <1>3, <2>1 DEF Exact
  <2>3. ASSUME NEW x \in Block
        PROVE  x \in r.disk.bmap <=>
                 \/ x \in Metadata \cup {}
                 \/ \E e \in Seen(r) \ c.w.doomed : SeenDir(r, e) /\ View(r, e).block = x
    BY <1>3, <1>4, <2>1 DEF Exact
  <2>4. QED
    BY <2>2, <2>3 DEF Exact
<1>10. d \in Seen(r) /\ SeenDir(r, d)
  BY <1>3, <1>4
<1>11. LogFine(r, c) /\ c.keep \subseteq Seen(r)
  <2>1. LogFine(m, c) /\ c.keep \subseteq Seen(r)
    BY <1>1, <1>3 DEF Fine
  <2>2. QED
    BY <1>1, <1>8, <1>10, <2>1, SettledStep DEF Settled
<1>12. QED
  BY <1>1, <1>8, <1>9, <1>10, <1>11 DEF At, Fine, Settled
\* What an entry removed by a command changes.
Removed(m, d, nm, i, r) ==
  /\ Wrote(m, r) /\ OnlyDirs(m.disk, r.disk) /\ r.blockless = m.blockless
  /\ Tree(r) /\ Seen(r) \cup {i} = Seen(m) /\ d # i
  /\ i \in Seen(r) <=> Edges(Kids(r), i) # {}
  /\ \A j : View(r, j) = View(m, j) /\ (SeenDir(r, j) <=> SeenDir(m, j))
  /\ Cardinality(Edges(Kids(r), i)) = Cardinality(Edges(Kids(m), i)) - 1
  /\ \A j \in Ino \ {i} : Edges(Kids(r), j) = Edges(Kids(m), j)
  /\ \A e \in Seen(m) : e # d \/ ~SeenDir(m, i) => Dots(r, e) = Dots(m, e)
  /\ SeenDir(m, i) => Dots(r, d) = Dots(m, d) - 1 /\ i \notin Seen(r)
  /\ \A e \in Seen(m), x \in Name :
       Kids(r)[e][x] = IF e = d /\ x = nm THEN 0 ELSE Kids(m)[e][x]

LEMMA RemovedIs ==
  ASSUME NEW m \in RUN, Tree(m), NEW d \in Seen(m), SeenDir(m, d),
         m.cache[d].refCount > 0, NEW nm \in Name, NEW i \in Ino,
         Kids(m)[d][nm] = i, \A x \in Name : Kids(m)[i][x] = 0
  PROVE  Removed(m, d, nm, i, rm_child(m, d, nm))
<1> DEFINE r == rm_child(m, d, nm)
           b == View(m, d).block
<1>1. b \in Block /\ b # 0 /\ m.cache[d].INODE = View(m, d) /\ d \in Ino /\ i # 0
  BY SeenIs, RootIs DEF Tree, View
<1>2. Renames(m, b, nm, 0, r) /\ r.blockless = m.blockless
  BY <1>1, rm_childIs
<1> HIDE DEF r, b
<1>3. Wrote(m, r) /\ OnlyDirs(m.disk, r.disk) /\ r \in RUN
  BY <1>2 DEF Renames, Wrote
<1>4. d # i
  BY <1>1
<1>5. \A j : View(r, j) = View(m, j) /\ (SeenDir(r, j) <=> SeenDir(m, j))
  BY <1>2, RenamesView
<1>6. /\ Tree(r) /\ Removes(Kids(m), d, nm, i, Kids(r))
      /\ Seen(r) \subseteq Seen(m)
      /\ \A e \in Seen(m), x \in Name :
           Kids(r)[e][x] = IF e = d /\ x = nm THEN 0 ELSE Kids(m)[e][x]
  BY <1>2, <1>3, RemoveTree DEF b
<1>7. /\ Seen(r) \cup {i} = Seen(m)
      /\ <<d, nm>> \in Edges(Kids(m), i)
      /\ Edges(Kids(r), i) = Edges(Kids(m), i) \ {<<d, nm>>}
      /\ i \in Seen(r) <=> Edges(Kids(r), i) # {}
      /\ \A j \in Ino \ {i} : Edges(Kids(r), j) = Edges(Kids(m), j)
  <2>1. Kids(m) \in GRAPH /\ Kids(r) \in GRAPH
    BY <1>3, KidsAre
  <2>2. /\ Reach(Kids(r)) \cup {i} = Reach(Kids(m))
        /\ <<d, nm>> \in Edges(Kids(m), i)
        /\ Edges(Kids(r), i) = Edges(Kids(m), i) \ {<<d, nm>>}
        /\ i \in Reach(Kids(r)) <=> Edges(Kids(r), i) # {}
        /\ \A j \in Ino \ {i} : Edges(Kids(r), j) = Edges(Kids(m), j)
    BY <1>6, <2>1, ReachRemoves
  <2>3. QED
    BY <2>2 DEF Seen
<1>8. Cardinality(Edges(Kids(r), i)) = Cardinality(Edges(Kids(m), i)) - 1
  <2>1. IsFiniteSet(Edges(Kids(m), i))
    BY EdgesFinite
  <2>2. QED
    BY <1>7, <2>1, FS_RemoveElement
<1>9. ASSUME NEW e \in Seen(m), e # d \/ ~SeenDir(m, i)
      PROVE  Dots(r, e) = Dots(m, e)
  <2>1. ASSUME NEW x \in Name PROVE x \in Subs(r, e) <=> x \in Subs(m, e)
    <3>1. CASE e = d /\ x = nm
      BY <1>5, <1>6, <1>9, <3>1 DEF Subs
    <3>2. CASE ~(e = d /\ x = nm)
      BY <1>5, <1>6, <3>2 DEF Subs
    <3>3. QED
      BY <3>1, <3>2
  <2>2. Subs(r, e) = Subs(m, e)
    BY <2>1 DEF Subs
  <2>3. QED
    BY <2>2 DEF Dots
<1>10. ASSUME SeenDir(m, i)
       PROVE  Dots(r, d) = Dots(m, d) - 1 /\ i \notin Seen(r)
  <2>1. Edges(Kids(m), i) = {<<d, nm>>}
    BY <1>1, <1>10 DEF Tree
  <2>2. i \notin Seen(r)
    BY <1>7, <2>1
  <2>3. ASSUME NEW x \in Name PROVE x \in Subs(r, d) <=> x \in Subs(m, d) \ {nm}
    <3>1. CASE x = nm
      BY <1>5, <1>6, <3>1 DEF Subs
    <3>2. CASE x # nm
      BY <1>5, <1>6, <3>2 DEF Subs
    <3>3. QED
      BY <3>1, <3>2
  <2>4. Subs(r, d) = Subs(m, d) \ {nm} /\ nm \in Subs(m, d)
    BY <1>1, <1>10, <2>3 DEF Subs
  <2>5. IsFiniteSet(Subs(m, d)) /\ Cardinality(Subs(m, d)) \in Nat
    BY SubsFinite
  <2>6. Cardinality(Subs(r, d)) = Cardinality(Subs(m, d)) - 1
    BY <2>4, <2>5, FS_RemoveElement
  <2>7. QED
    BY <2>2, <2>5, <2>6 DEF Dots
<1>11. QED
  BY <1>3, <1>2, <1>4, <1>5, <1>6, <1>7, <1>8, <1>9, <1>10 DEF Removed, r

\* A file loses an entry; its count is still too large then.
LEMMA RemoveFileGood ==
  ASSUME NEW m \in RUN, NEW k \in Nat, NEW w, Good(m, Root, 0, k, w), w.doomed = {},
         NEW i \in Ino, ~SeenDir(m, i), NEW d, NEW nm, NEW r, Removed(m, d, nm, i, r)
  PROVE  Good(r, i, -1, k, w)
<1>1. r \in RUN
  BY DEF Removed, Wrote
<1>2. /\ Tree(m) /\ Marked(m, w) /\ Clean(m)
      /\ FileCounts(m, Root, 0, k) /\ DirCounts(m, Root, 0, k, w.again)
  BY DEF Good
<1>3. /\ r.disk.imap = m.disk.imap /\ r.disk.bmap = m.disk.bmap
      /\ r.disk.itab = m.disk.itab /\ r.cache = m.cache /\ Seen(r) \subseteq Seen(m)
  BY DEF Removed, OnlyDirs, Wrote
<1>4. \A j : View(r, j) = View(m, j) /\ (SeenDir(r, j) <=> SeenDir(m, j))
  BY DEF Removed
<1>5. Marked(r, w) /\ Clean(r) /\ Tree(r)
  BY <1>2, <1>3, <1>4 DEF Marked, Clean, Removed
<1>6. FileCounts(r, i, -1, k)
  <2>1. SUFFICES ASSUME NEW j \in Seen(r), ~SeenDir(m, j)
                 PROVE  View(m, j).links + Owed(j, i, -1)
                          - Cardinality(Edges(Kids(r), j)) \in 0..k
    BY <1>4 DEF FileCounts
  <2>2. View(m, j).links + Owed(j, Root, 0) - Cardinality(Edges(Kids(m), j)) \in 0..k
    BY <1>2, <1>3, <2>1 DEF FileCounts
  <2>3. Owed(j, Root, 0) = 0
    BY DEF Owed
  <2>4. j \in Ino /\ View(m, j).links \in Nat /\ Cardinality(Edges(Kids(m), j)) \in Nat
    BY <1>3, SeenIs, LinksOf, EdgesFinite
  <2>5. CASE j = i
    <3>1. Cardinality(Edges(Kids(r), j)) = Cardinality(Edges(Kids(m), j)) - 1
      BY <2>5 DEF Removed
    <3>2. Owed(j, i, -1) = -1
      BY <2>5 DEF Owed
    <3>3. QED
      BY <2>2, <2>3, <2>4, <3>1, <3>2
  <2>6. CASE j # i
    BY <2>2, <2>4, <2>6 DEF Removed, Owed
  <2>7. QED
    BY <2>5, <2>6
<1>7. DirCounts(r, i, -1, k, w.again)
  <2>1. \A e \in Seen(m) : Dots(r, e) = Dots(m, e)
    BY DEF Removed
  <2>2. \A e \in Seen(m) : SeenDir(m, e) => Owed(e, i, -1) = 0 /\ Owed(e, Root, 0) = 0
    BY DEF Owed
  <2>3. QED
    BY <1>2, <1>3, <1>4, <2>1, <2>2 DEF DirCounts
<1>8. QED
  BY <1>5, <1>6, <1>7 DEF Good

LEMMA RemoveFileAt ==
  ASSUME NEW m, NEW c \in CTX, At(m, Root, 0, {}, {}, c), c.w.doomed = {},
         NEW i \in Ino, ~SeenDir(m, i), NEW d, NEW nm, NEW r, Removed(m, d, nm, i, r),
         c.keep \subseteq Seen(r)
  PROVE  /\ i \in Seen(r) => At(r, i, -1, {}, {}, c)
         /\ i \notin Seen(r) => At(r, Root, 0, {i}, {}, c)
<1>1. m \in RUN /\ Fine(m, Root, 0, {}, {}, c) /\ r \in RUN /\ Logs(m, r)
  BY WroteLogs DEF At, Removed, Wrote
<1>2. Good(r, i, -1, c.k, c.w) /\ -1 \in {-1, 0, 1}
  BY <1>1, CtxIs, RemoveFileGood DEF Fine
<1>3. /\ r.disk.imap = m.disk.imap /\ r.disk.bmap = m.disk.bmap
      /\ Seen(m) = Seen(r) \cup {i} /\ LogFine(m, c)
  BY <1>1 DEF Removed, OnlyDirs, Wrote, Fine
<1>4. \A j : View(r, j) = View(m, j) /\ (SeenDir(r, j) <=> SeenDir(m, j))
  BY DEF Removed
<1>5. CASE i \in Seen(r)
  <2>1. Settled(r, i, -1, c)
    BY <1>4, <1>5 DEF Settled
  <2>2. LogFine(r, c)
    BY <1>1, <1>2, <1>3, <2>1, SettledStep
  <2>3. c.k = 0 => Exact(r, {}, {}, c.w)
    <3>1. Seen(r) = Seen(m)
      BY <1>3, <1>5
    <3>2. QED
      BY <1>1, <1>3, <1>4, <3>1 DEF Fine, Exact
  <2>4. QED
    BY <1>1, <1>2, <1>5, <2>1, <2>2, <2>3 DEF At, Fine
<1>6. CASE i \notin Seen(r)
  <2>1. Good(r, Root, 0, c.k, c.w)
    BY <1>2, <1>6, OwedNone
  <2>2. Settled(r, Root, 0, c)
    BY DEF Settled
  <2>3. LogFine(r, c)
    BY <1>1, <1>3, <2>1, <2>2, SettledStep
  <2>4. c.k = 0 => Exact(r, {i}, {}, c.w)
    <3>1. SUFFICES ASSUME Exact(m, {}, {}, c.w) PROVE Exact(r, {i}, {}, c.w)
      BY <1>1 DEF Fine
    <3>2. r.disk.imap = (Seen(r) \ c.w.doomed) \cup {i}
      BY <1>3, <3>1 DEF Exact
    <3>3. \A e : e \in Seen(m) /\ SeenDir(m, e) <=> e \in Seen(r) /\ SeenDir(r, e)
      BY <1>3, <1>4
    <3>4. ASSUME ~c.w.unlinks, NEW x \in Block
          PROVE  x \in r.disk.bmap <=>
                   \/ x \in Metadata \cup {}
                   \/ \E e \in Seen(r) \ c.w.doomed : SeenDir(r, e) /\ View(r, e).block = x
      BY <1>3, <1>4, <3>1, <3>3, <3>4 DEF Exact
    <3>5. QED
      BY <3>2, <3>4 DEF Exact
  <2>5. QED
    BY <1>1, <1>6, <2>1, <2>2, <2>3, <2>4 DEF At, Fine
<1>7. QED
  BY <1>5, <1>6

\* A doomed directory loses its entry, and is not seen any more.
LEMMA RemoveDirAt ==
  ASSUME NEW m, NEW x \in CTX, At(m, Root, 0, {}, {}, x),
         NEW i \in Ino, SeenDir(m, i), x.w.doomed = {i},
         NEW d \in Seen(m), SeenDir(m, d), NEW nm, NEW r, Removed(m, d, nm, i, r),
         NEW c \in CTX, c.k = x.k, c.claim = {}, c.keep = {}, c.w.doomed = {},
         c.w.unlinks = x.w.unlinks, c.w.again = x.w.again
  PROVE  At(r, d, -1, {}, {}, c)
<1>1. m \in RUN /\ Fine(m, Root, 0, {}, {}, x) /\ r \in RUN
  BY DEF At, Removed, Wrote
<1>2. /\ Tree(m) /\ Marked(m, x.w) /\ Clean(m)
      /\ FileCounts(m, Root, 0, c.k) /\ DirCounts(m, Root, 0, c.k, c.w.again)
  BY <1>1 DEF Fine, Good
<1>3. /\ r.disk.imap = m.disk.imap /\ r.disk.bmap = m.disk.bmap
      /\ r.disk.itab = m.disk.itab /\ r.cache = m.cache /\ Seen(r) = Seen(m) \ {i}
  BY DEF Removed, OnlyDirs, Wrote
<1>4. \A j : View(r, j) = View(m, j) /\ (SeenDir(r, j) <=> SeenDir(m, j))
  BY DEF Removed
<1>5. Marked(r, c.w) /\ Clean(r) /\ Tree(r)
  BY <1>2, <1>3, <1>4 DEF Marked, Clean, Removed
<1>6. FileCounts(r, d, -1, c.k)
  <2>1. \A j \in Seen(r) : ~SeenDir(m, j) => j \in Seen(m) /\ j \in Ino \ {i}
          /\ Owed(j, d, -1) = 0 /\ Owed(j, Root, 0) = 0
    BY <1>1, <1>3, SeenIs DEF Owed
  <2>2. QED
    BY <1>2, <1>4, <2>1 DEF FileCounts, Removed
<1>7. DirCounts(r, d, -1, c.k, c.w.again)
  <2>1. SUFFICES ASSUME NEW e \in Seen(r), SeenDir(m, e), e # Root \/ ~c.w.again
                 PROVE  \E j \in 0..c.k : View(m, e).links =
                          (Dots(r, e) - Owed(e, d, -1) - j) % LinkMod
    BY <1>4 DEF DirCounts
  <2>2. e \in Seen(m)
    BY <1>3
  <2>3. PICK j \in 0..c.k : View(m, e).links =
                          (Dots(m, e) - Owed(e, Root, 0) - j) % LinkMod
    BY <1>2, <2>1, <2>2 DEF DirCounts
  <2>4. Dots(m, e) \in Nat
    BY SubsFinite DEF Dots
  <2>5. Dots(r, e) - Owed(e, d, -1) = Dots(m, e) - Owed(e, Root, 0)
    <3>1. CASE e = d
      <4>1. Dots(r, e) = Dots(m, e) - 1 /\ Owed(e, d, -1) = -1 /\ Owed(e, Root, 0) = 0
        BY <3>1 DEF Removed, Owed
      <4>2. QED
        BY <2>4, <4>1
    <3>2. CASE e # d
      BY <2>2, <3>2 DEF Removed, Owed
    <3>3. QED
      BY <3>1, <3>2
  <2>6. QED
    BY <2>3, <2>5
<1>8. Good(r, d, -1, c.k, c.w)
  BY <1>5, <1>6, <1>7 DEF Good
<1>9. c.k = 0 => Exact(r, {}, {}, c.w)
  <2>1. SUFFICES ASSUME Exact(m, {}, {}, x.w) PROVE Exact(r, {}, {}, c.w)
    BY <1>1 DEF Fine
  <2>2. r.disk.imap = (Seen(r) \ c.w.doomed) \cup {}
    BY <1>3, <2>1 DEF Exact
  <2>3. ASSUME ~c.w.unlinks, NEW y \in Block
        PROVE  y \in r.disk.bmap <=>
                 \/ y \in Metadata \cup {}
                 \/ \E e \in Seen(r) \ c.w.doomed : SeenDir(r, e) /\ View(r, e).block = y
    BY <1>3, <1>4, <2>1, <2>3 DEF Exact
  <2>4. QED
    BY <2>2, <2>3 DEF Exact
<1>10. Settled(r, d, -1, c) /\ LogFine(r, c) /\ c.keep \subseteq Seen(r)
  BY <1>3 DEF Settled, LogFine, Removed
<1>11. QED
  BY <1>1, <1>8, <1>9, <1>10 DEF At, Fine

-----------------------------------------------------------------------------
(***************************************************************************)
(* The commands, on the tree                                               *)
(***************************************************************************)
LEMMA StillKids ==
  ASSUME NEW m \in RUN, NEW r \in RUN, Tree(m), Still(m, r)
  PROVE  \A d \in Seen(m) : /\ \A nm \in Name : Kids(r)[d][nm] = Kids(m)[d][nm]
                            /\ SeenDir(r, d) <=> SeenDir(m, d)
<1>1. Keeps(m, r)
  BY StillKeeps
<1>2. \A d \in Seen(m), nm \in Name : Kids(r)[d][nm] = Kids(m)[d][nm]
  BY <1>1, KeepsTree
<1>3. QED
  BY <1>1, <1>2 DEF Keeps

LEMMA SearchSeen ==
  ASSUME NEW m \in RUN, Tree(m), NEW d \in Seen(m), NEW nm \in Name
  PROVE  search(m, d, nm) = Kids(m)[d][nm]
<1>1. d \in Ino
  BY SeenIs
<1>2. CASE SeenDir(m, d)
  BY <1>1, <1>2, KidsAre, searchIs
<1>3. CASE ~SeenDir(m, d)
  <2>1. View(m, d).block = 0
    BY <1>3 DEF Tree
  <2>2. QED
    BY <1>1, <1>3, <2>1, KidsAre DEF search
<1>4. QED
  BY <1>2, <1>3

\* A walk stays within the tree.
LEMMA SeenFollows ==
  ASSUME NEW m \in RUN, Tree(m)
  PROVE  Follows(m, m, Seen(m))
BY SearchSeen, SeenIs, RootIs DEF Follows

LEMMA PathSeen ==
  ASSUME NEW m \in RUN, Tree(m), NEW p \in Seq(Name)
  PROVE  getino(m, p) \in Seen(m) \cup {0}
BY SeenFollows, WalkFollows

LEMMA PathLast ==
  ASSUME NEW m \in RUN, Tree(m), NEW p, Named(p), getino(m, dirname(p)) # 0
  PROVE  /\ getino(m, dirname(p)) \in Seen(m) /\ basename(p) \in Name
         /\ getino(m, p) = Kids(m)[getino(m, dirname(p))][basename(p)]
         /\ getino(m, p) # 0 => /\ getino(m, p) \in Seen(m) \ {Root}
                                /\ SeenDir(m, getino(m, dirname(p)))
<1> DEFINE d == getino(m, dirname(p))
           nm == basename(p)
<1>1. /\ dirname(p) \in Seq(Name) /\ nm \in Name /\ p \in Seq(Name)
      /\ getino(m, p) = search(m, d, nm)
  BY WalkLast DEF Named
<1>2. d \in Seen(m) /\ getino(m, p) \in Seen(m) \cup {0}
  BY <1>1, PathSeen
<1> HIDE DEF d, nm
<1>3. getino(m, p) = Kids(m)[d][nm]
  BY <1>1, <1>2, SearchSeen
<1>4. getino(m, p) # 0 => getino(m, p) # Root /\ SeenDir(m, d)
  <2>1. ~SeenDir(m, d) => Kids(m)[d][nm] = 0
    BY <1>1, <1>2, KidsAre, SeenIs
  <2>2. QED
    BY <1>1, <1>2, <1>3, <2>1 DEF Tree
<1>5. QED
  BY <1>1, <1>2, <1>3, <1>4 DEF d, nm

\* i is read, its inode is written, and it is put.
Write(m, i, ip) == iput(Store(iget(m, i), i, ip), i)

LEMMA WriteAt ==
  ASSUME NEW m, NEW i \in Ino, NEW ip \in INODE, NEW c \in CTX, NEW L, NEW B,
         At(m, Root, 0, L, B, c), i \notin Seen(m), i \in m.disk.imap
  PROVE  LET r == Write(m, i, ip)
         IN /\ At(r, Root, 0, L, B, c) /\ Still(m, r) /\ Seen(r) = Seen(m)
            /\ Ready(r, i) /\ View(r, i) = ip /\ Balanced(m, r)
            /\ r.disk.imap = m.disk.imap /\ r.disk.bmap = m.disk.bmap
            /\ r.disk.dirs = m.disk.dirs /\ r.blockless = m.blockless
<1> DEFINE a == iget(m, i)
           b == Store(a, i, ip)
           r == iput(b, i)
<1>0. m \in RUN /\ 0 \in DEBT
  BY DEF At, DEBT
<1>1. /\ At(a, Root, 0, L, B, c) /\ Still(m, a) /\ Seen(a) = Seen(m)
      /\ a \in RUN /\ a.disk = m.disk /\ a.blockless = m.blockless /\ Took(m, a, i)
  BY <1>0, igetAt, igetIs, igetTook
<1> HIDE DEF a
<1>2. /\ At(b, Root, 0, L, B, c) /\ Still(a, b) /\ Seen(b) = Seen(m)
  <2>1. i \notin Seen(a)
    BY <1>1
  <2>2. At(b, Root, 0, L, B, c) /\ Still(a, b) /\ Seen(b) = Seen(a)
    BY <1>0, <1>1, <2>1, StoreAt
  <2>3. QED
    BY <1>1, <2>2
<1>3. /\ b \in RUN /\ b.disk = a.disk /\ b.blockless = a.blockless
      /\ b.cache[i].INODE = ip /\ b.cache[i].dirty
      /\ b.cache[i].refCount = a.cache[i].refCount
      /\ Balanced(a, b)
  BY <1>1, StoreIs, ChangeBalanced
<1> HIDE DEF b
<1>4. m.cache[i].refCount \in Nat /\ b.cache[i].refCount = m.cache[i].refCount + 1
  BY <1>0, <1>1, <1>3, RefsAre DEF Took
<1>5. b.cache[i].refCount > 0
  BY <1>4
<1>6. /\ At(r, Root, 0, L, B, c) /\ Still(b, r) /\ Seen(r) = Seen(b)
      /\ Alike(b, r)
  BY <1>0, <1>2, <1>3, <1>5, iputAt, iputAlike
<1>7. Puts(b, i, r)
  BY <1>3, iputIs
<1>8. r \in RUN /\ Balanced(m, r)
  <2>1. Took(m, b, i)
    BY <1>1, <1>3, BalancedTook
  <2>2. QED
    BY <1>0, <1>3, <2>1, iputBalanced
<1> HIDE DEF r
<1>9. View(r, i) = ip
  <2>1. View(b, i) = ip
    BY <1>3, <1>5 DEF View
  <2>2. QED
    BY <1>6, <2>1 DEF Alike
<1>10. /\ r.disk.imap = m.disk.imap /\ r.disk.bmap = m.disk.bmap
       /\ r.disk.dirs = m.disk.dirs /\ r.blockless = m.blockless
  BY <1>1, <1>3, <1>7 DEF Puts
<1>11. Still(m, r)
  BY <1>1, <1>2, <1>6, StillStill
<1>12. Ready(r, i)
  <2>1. r.cache[i].refCount = 0 \/ r.cache[i].dirty
    <3>1. CASE b.cache[i].refCount > 1
      <4>1. r.cache[i].dirty = b.cache[i].dirty
        BY <1>7, <3>1 DEF Puts
      <4>2. QED
        BY <1>3, <4>1
    <3>2. CASE ~(b.cache[i].refCount > 1)
      BY <1>7, <3>2 DEF Puts
    <3>3. QED
      BY <3>1, <3>2
  <2>2. i \in r.disk.imap /\ i \notin Seen(r)
    BY <1>2, <1>6, <1>10
  <2>3. QED
    BY <2>1, <2>2 DEF Ready
<1>13. QED
  BY <1>2, <1>6, <1>8, <1>9, <1>10, <1>11, <1>12 DEF Write, r, b, a

LEMMA FreeUnseen ==
  ASSUME NEW m \in RUN, NEW c, Marked(m, c.w), c.w.doomed = {}, FreeIno(m) # 0
  PROVE  FreeIno(m) \in Ino \ Seen(m)
BY FreeIs DEF Marked

\* r shows all that m shows, and maybe more.
Grows(m, r) ==
  \A d \in Seen(m) : /\ d \in Seen(r) /\ (SeenDir(r, d) <=> SeenDir(m, d))
                     /\ \A nm \in Name : Kids(m)[d][nm] # 0 =>
                          Kids(r)[d][nm] = Kids(m)[d][nm]

LEMMA StillGrows ==
  ASSUME NEW m \in RUN, NEW r \in RUN, Tree(m), Still(m, r), Seen(r) = Seen(m)
  PROVE  Grows(m, r)
BY StillKids DEF Grows

LEMMA GrowsGrows ==
  ASSUME NEW m \in RUN, NEW r, NEW q, Grows(m, r), Grows(r, q)
  PROVE  Grows(m, q)
BY DEF Grows

LEMMA GrowsWalk ==
  ASSUME NEW m \in RUN, NEW r \in RUN, Tree(m), Tree(r), Grows(m, r),
         NEW p \in Seq(Name), getino(m, p) # 0
  PROVE  getino(r, p) = getino(m, p)
<1>1. ASSUME NEW i \in Seen(m), NEW nm \in Name
      PROVE  /\ search(m, i, nm) \in Seen(m) \cup {0}
             /\ search(m, i, nm) # 0 => search(r, i, nm) = search(m, i, nm)
  <2>1. search(m, i, nm) = Kids(m)[i][nm]
    BY SearchSeen
  <2>2. i \in Seen(r)
    BY DEF Grows
  <2>3. search(r, i, nm) = Kids(r)[i][nm]
    BY <2>2, SearchSeen
  <2>4. QED
    BY <2>1, <2>3, SeenIs DEF Grows
<1>2. Follows(m, r, Seen(m))
  BY <1>1, SeenIs, RootIs DEF Follows
<1>3. QED
  BY <1>2, WalkFollows

LEMMA mycreatAt ==
  ASSUME NEW m, NEW c \in CTX, At(m, Root, 0, {}, {}, c), c.w.doomed = {},
         NEW pino \in Seen(m), SeenDir(m, pino), m.cache[pino].refCount > 0,
         NEW nm \in Name, Kids(m)[pino][nm] = 0, FreeIno(m) # 0
  PROVE  LET r == mycreat(m, pino, nm)
             i == FreeIno(m)
         IN /\ At(r, Root, 0, {}, {}, c) /\ Seen(r) = Seen(m) \cup {i}
            /\ i \in Ino \ Seen(m) /\ ~SeenDir(r, i)
            /\ r.blockless = m.blockless /\ Grows(m, r)
<1> DEFINE i == FreeIno(m)
           ip == [type |-> "reg", links |-> 1, block |-> 0]
           a == SetImap(m, i)
           d == Write(a, i, ip)
           r == enter_name(d, pino, i, nm)
<1>0. m \in RUN /\ Tree(m) /\ Marked(m, c.w)
  BY DEF At, Fine, Good
<1>1. i \in Ino \ Seen(m) /\ ip \in INODE /\ pino \in Ino
  BY <1>0, FreeUnseen, LinksIs, SeenIs DEF INODE
<1>2. mycreat(m, pino, nm) = r
  BY DEF mycreat, Write
<1>3. ip.type = "reg" /\ ip.links = 1 /\ ip.block = 0
  OBVIOUS
<1> HIDE DEF i, ip
<1>4. Marks(m, i, a)
  BY <1>0, <1>1, SetImapIs
<1> HIDE DEF a
<1>5. /\ At(a, Root, 0, {i}, {}, c) /\ Still(m, a) /\ Seen(a) = Seen(m)
      /\ a \in RUN /\ Balanced(m, a) /\ i \in a.disk.imap
      /\ a.blockless = m.blockless
  <2>1. 0 \in DEBT
    BY DEF DEBT
  <2>2. QED
    BY <1>1, <1>4, <2>1, MarksAt, ChangeBalanced DEF Marks
<1>6. /\ At(d, Root, 0, {i}, {}, c) /\ Still(a, d) /\ Seen(d) = Seen(a)
      /\ Ready(d, i) /\ View(d, i) = ip /\ Balanced(a, d)
      /\ d.blockless = a.blockless
  <2>1. i \notin Seen(a)
    BY <1>1, <1>5
  <2>2. QED
    BY <1>1, <1>5, <2>1, WriteAt
<1> HIDE DEF d
<1>7. d \in RUN /\ Tree(d) /\ Still(m, d) /\ Seen(d) = Seen(m)
  BY <1>5, <1>6, StillStill DEF At, Fine, Good
<1>8. SeenDir(d, pino) /\ Kids(d)[pino][nm] = 0 /\ d.cache[pino].refCount > 0
  <2>1. d.cache[pino].refCount = m.cache[pino].refCount
    BY <1>1, <1>5, <1>6 DEF Balanced
  <2>2. QED
    BY <1>0, <1>7, <2>1, StillKids
<1>9. i \notin Seen(d) /\ ~SeenDir(d, i) /\ Enterable(d, pino, i)
  BY <1>1, <1>3, <1>6, <1>7 DEF Enterable, SeenDir
<1>10. Entered(d, pino, nm, i, r)
  BY <1>1, <1>7, <1>8, <1>9, EnteredIs
<1> HIDE DEF r
<1>11. At(r, Root, 0, {}, {}, c)
  BY <1>1, <1>3, <1>6, <1>7, <1>9, <1>10, EnterFileAt
<1>12. Seen(r) = Seen(m) \cup {i} /\ ~SeenDir(r, i) /\ r.blockless = m.blockless
  BY <1>5, <1>6, <1>7, <1>9, <1>10 DEF Entered
<1>13. Grows(m, r)
  <2>1. Grows(m, d)
    BY <1>0, <1>7, StillGrows
  <2>2. Grows(d, r)
    <3>1. \A e \in Seen(d) : /\ e \in Seen(r) /\ (SeenDir(r, e) <=> SeenDir(d, e))
                             /\ \A x \in Name : Kids(r)[e][x] =
                                  IF e = pino /\ x = nm THEN i ELSE Kids(d)[e][x]
      BY <1>10 DEF Entered
    <3>2. QED
      BY <1>8, <3>1 DEF Grows
  <2>3. QED
    BY <1>0, <2>1, <2>2, GrowsGrows
<1>14. QED
  BY <1>1, <1>2, <1>11, <1>12, <1>13 DEF i
\* Block b is written as a directory in pino that has no entries.
Empties(m, b, pino, r) ==
  /\ Wrote(m, r) /\ OnlyDirs(m.disk, r.disk) /\ r.blockless = m.blockless
  /\ \A x \in Block : \A nm : Found(r.disk, x, nm) =
       IF x = b THEN 0 ELSE Found(m.disk, x, nm)
  /\ \A x \in Block : r.disk.dirs[x].parent =
       IF x = b THEN pino ELSE m.disk.dirs[x].parent

LEMMA EmptiesIs ==
  ASSUME NEW m \in RUN, NEW b \in Block, NEW pino \in Ino
  PROVE  Empties(m, b, pino, put_block(m, [m.disk EXCEPT !.dirs[b] = EmptyDir(pino)]))
BY EmptyDirIs DEF Empties

LEMMA mymkdirAt ==
  ASSUME NEW m, NEW c \in CTX, At(m, Root, 0, {}, {}, c),
         c.w.doomed = {}, ~c.w.unlinks,
         NEW pino \in Seen(m), SeenDir(m, pino), m.cache[pino].refCount > 0,
         NEW nm \in Name, Kids(m)[pino][nm] = 0, FreeIno(m) # 0
  PROVE  LET r == mymkdir(m, pino, nm)
         IN r.blockless \/ /\ At(r, pino, 1, {}, {}, c)
                           /\ Seen(r) = Seen(m) \cup {FreeIno(m)}
                           /\ r.blockless = m.blockless
<1> DEFINE i == FreeIno(m)
           bno == FreeBlock(m)
           ip == [type |-> "dir", links |-> 2, block |-> bno]
           a == SetImap(m, i)
           z == SetBmap(a, bno)
           d == Write(z, i, ip)
           y == put_block(d, [d.disk EXCEPT !.dirs[bno] = EmptyDir(pino)])
           e == enter_name(y, pino, i, nm)
           r == [e EXCEPT !.blockless = @ \/ bno = 0]
<1>0. /\ m \in RUN /\ Tree(m) /\ Marked(m, c.w) /\ 0 \in DEBT
      /\ mymkdir(m, pino, nm) \in RUN
  BY SeenIs, mymkdirBalanced DEF At, Fine, Good, DEBT
<1>1. i \in Ino \ Seen(m) /\ bno \in Block \cup {0} /\ ip \in INODE /\ pino \in Ino
  BY <1>0, FreeUnseen, FreeIs, LinksIs, SeenIs DEF INODE
<1>2. mymkdir(m, pino, nm) = r
  BY DEF mymkdir, Write
<1>3. ip.type = "dir" /\ ip.links = 2 /\ ip.block = bno
  OBVIOUS
<1>4. bno \notin Metadata /\ \A j \in Seen(m) : SeenDir(m, j) => View(m, j).block # bno
  <2>1. bno \notin m.disk.bmap /\ bno \notin {} /\ (bno \in Metadata => bno \in Block)
    BY <1>0, FreeIs, RootIs, NamespaceAssumption DEF RUN, DISK
  <2>2. Seen(m) \ c.w.doomed = Seen(m)
    OBVIOUS
  <2> HIDE DEF bno
  <2>3. QED
    BY <1>0, <2>1, <2>2 DEF Marked
<1>5. CASE bno = 0
  <2>1. "blockless" \in DOMAIN e
    <3>1. r \in RUN
      BY <1>0, <1>2
    <3>2. DOMAIN r = DOMAIN e
      <4> HIDE DEF e, bno
      <4>1. QED
        OBVIOUS
    <3> HIDE DEF r
    <3>3. "blockless" \in DOMAIN r
      BY <3>1 DEF RUN
    <3>4. QED
      BY <3>2, <3>3
  <2>2. r.blockless = (e.blockless \/ bno = 0)
    <3> HIDE DEF e, bno
    <3>1. QED
      BY <2>1
  <2> HIDE DEF r, e
  <2>3. r.blockless
    BY <1>5, <2>2
  <2>4. QED
    BY <1>2, <2>3
<1>6. CASE bno # 0
  <2>0. bno \in Block
    BY <1>1, <1>6
  <2> HIDE DEF i, ip, bno
  <2>1. Marks(m, i, a)
    BY <1>0, <1>1, SetImapIs
  <2> HIDE DEF a
  <2>2. /\ At(a, Root, 0, {i}, {}, c) /\ Still(m, a) /\ Seen(a) = Seen(m)
        /\ a \in RUN /\ Balanced(m, a) /\ i \in a.disk.imap
        /\ a.blockless = m.blockless
    BY <1>0, <1>1, <2>1, MarksAt, ChangeBalanced DEF Marks
  <2>3. MarksBlock(a, bno, z)
    BY <1>1, <1>6, <2>2, SetBmapIs
  <2> HIDE DEF z
  <2>4. /\ At(z, Root, 0, {i}, {bno}, c) /\ Still(a, z) /\ Seen(z) = Seen(m)
        /\ z \in RUN /\ Balanced(a, z) /\ i \in z.disk.imap /\ bno \in z.disk.bmap
        /\ z.blockless = m.blockless
    BY <1>0, <2>2, <2>3, MarksBlockAt, ChangeBalanced DEF MarksBlock, OnlyBmap
  <2>5. /\ At(d, Root, 0, {i}, {bno}, c) /\ Still(z, d) /\ Seen(d) = Seen(z)
        /\ Ready(d, i) /\ View(d, i) = ip /\ Balanced(z, d)
        /\ d.disk.bmap = z.disk.bmap /\ d.blockless = z.blockless
    <3>1. i \notin Seen(z)
      BY <1>1, <2>4
    <3>2. QED
      BY <1>1, <2>4, <3>1, WriteAt
  <2> HIDE DEF d
  <2>6. d \in RUN /\ Still(m, d) /\ Seen(d) = Seen(m)
    <3>1. Still(m, z)
      BY <2>2, <2>4, StillStill
    <3>2. QED
      BY <2>4, <2>5, <3>1, StillStill DEF At
  <2>7. Empties(d, bno, pino, y)
    BY <1>1, <2>0, <2>6, EmptiesIs
  <2>8. At(y, Root, 0, {i}, {bno}, c) /\ Still(d, y) /\ Seen(y) = Seen(d)
    <3>1. \A j \in Seen(d) : SeenDir(d, j) => View(d, j).block # bno
      BY <1>4, <2>6 DEF Still, SeenDir
    <3>2. QED
      BY <1>0, <1>1, <2>0, <2>5, <3>1, EmptyDirAt
  <2> HIDE DEF y
  <2>9. /\ y \in RUN /\ Tree(y) /\ Still(m, y) /\ Seen(y) = Seen(m)
    <3>1. Still(m, y)
      BY <2>6, <2>8, StillStill
    <3>2. QED
      BY <2>6, <2>8, <3>1 DEF At, Fine, Good
  <2>10. \A j : View(y, j) = View(d, j)
    BY <2>7 DEF Empties, Wrote, OnlyDirs, View
  <2>11. Ready(y, i) /\ View(y, i) = ip /\ SeenDir(y, i) /\ bno \in y.disk.bmap
    <3>1. Ready(y, i)
      BY <2>5, <2>7, <2>8 DEF Empties, Ready, Wrote, OnlyDirs
    <3>2. QED
      BY <1>3, <2>4, <2>5, <2>7, <2>10, <3>1 DEF Empties, SeenDir, OnlyDirs
  <2>12. /\ SeenDir(y, pino) /\ Kids(y)[pino][nm] = 0 /\ y.cache[pino].refCount > 0
         /\ pino \in Seen(y)
    <3>1. y.cache[pino].refCount = m.cache[pino].refCount
      <4>1. y.cache = d.cache
        BY <2>7 DEF Empties, Wrote
      <4>2. QED
        BY <1>1, <2>2, <2>4, <2>5, <4>1 DEF Balanced
    <3>2. QED
      BY <1>0, <2>9, <3>1, StillKids
  <2>13. Enterable(y, pino, i)
    <3>1. i \notin Seen(y) /\ View(y, i).type = "dir" /\ View(y, i).block = bno
      BY <1>1, <1>3, <2>9, <2>11
    <3>2. \A j \in Seen(y) : SeenDir(y, j) => View(y, j).block # bno
      BY <1>4, <2>9 DEF Still, SeenDir
    <3>3. \A x \in Name : Found(y.disk, bno, x) = 0
      BY <2>0, <2>7 DEF Empties
    <3>4. y.disk.dirs[bno].parent = pino
      BY <2>0, <2>7 DEF Empties
    <3>5. QED
      BY <1>4, <2>0, <2>11, <3>1, <3>2, <3>3, <3>4 DEF Enterable
  <2>14. Entered(y, pino, nm, i, e)
    BY <1>1, <2>9, <2>12, <2>13, EnteredIs
  <2> HIDE DEF e
  <2>15. At(e, pino, 1, {}, {}, c)
    <3>1. View(y, i).links = 2 /\ View(y, i).block = bno
      BY <1>3, <2>11
    <3>2. QED
      BY <1>1, <2>8, <2>11, <2>12, <2>14, <3>1, EnterDirAt
  <2>16. Seen(e) = Seen(m) \cup {i} /\ e.blockless = m.blockless /\ e \in RUN
    BY <2>4, <2>5, <2>7, <2>9, <2>14 DEF Empties, Entered, Wrote
  <2>17. r = e
    BY <1>6, <2>16 DEF RUN
  <2>18. QED
    BY <1>2, <2>15, <2>16, <2>17 DEF i
<1>7. QED
  BY <1>5, <1>6
LEMMA creat_fileAt ==
  ASSUME NEW m, NEW c \in CTX, At(m, Root, 0, {}, {}, c), c.w.doomed = {},
         NEW p, Named(p), getino(m, dirname(p)) # 0,
         getino(m, p) = 0 => FreeIno(m) # 0
  PROVE  LET r == creat_file(m, p)
         IN /\ At(r, Root, 0, {}, {}, c) /\ Grows(m, r)
            /\ r.blockless = m.blockless
            /\ SeenDir(m, getino(m, dirname(p))) /\ getino(m, p) = 0 =>
                 FreeIno(m) \in Seen(r) /\ ~SeenDir(r, FreeIno(m))
<1> DEFINE pino == getino(m, dirname(p))
           nm == basename(p)
           m1 == iget(m, pino)
           a == mycreat(m1, pino, nm)
           b == AddLinks(a, pino, 0)
           e == iput(b, pino)
<1>0. m \in RUN /\ Tree(m) /\ 0 \in DEBT
  BY DEF At, Fine, Good, DEBT
<1>1. /\ pino \in Seen(m) /\ pino \in Ino /\ nm \in Name
      /\ getino(m, p) = search(m, pino, nm) /\ getino(m, p) = Kids(m)[pino][nm]
  BY <1>0, PathLast, WalkLast, SeenIs DEF Named
<1>2. creat_file(m, p) = IF Refused(m1, pino, nm) THEN m1 ELSE e
  BY DEF creat_file
<1> HIDE DEF pino, nm
<1>3. /\ m1 \in RUN /\ Took(m, m1, pino) /\ Alike(m, m1) /\ m1.disk = m.disk
      /\ m1.cache[pino].INODE = View(m, pino) /\ m1.blockless = m.blockless
  BY <1>0, <1>1, igetTook, igetAlike, igetIs
<1>4. At(m1, Root, 0, {}, {}, c) /\ Still(m, m1) /\ Seen(m1) = Seen(m)
  BY <1>0, <1>1, igetAt
<1>10. Grows(m, m1)
  BY <1>0, <1>3, <1>4, StillGrows
<1>5. Refused(m1, pino, nm) <=> ~(SeenDir(m, pino) /\ getino(m, p) = 0)
  <2> HIDE DEF m1
  <2>1. search(m1, pino, nm) = getino(m, p)
    <3>1. \A i \in Ino : \A x : search(m1, i, x) = search(m, i, x)
      BY <1>3, AlikeSearch
    <3>2. QED
      BY <1>1, <3>1
  <2>2. m1.cache[pino].INODE = View(m, pino)
    BY <1>3
  <2>3. QED
    BY <2>1, <2>2 DEF Refused, IsDir, SeenDir
<1>6. FreeIno(m1) = FreeIno(m)
  BY <1>3 DEF FreeIno
<1> HIDE DEF m1
<1>7. CASE ~(SeenDir(m, pino) /\ getino(m, p) = 0)
  BY <1>2, <1>3, <1>4, <1>5, <1>7, <1>10 DEF pino
<1>8. CASE SeenDir(m, pino) /\ getino(m, p) = 0
  <2>1. SeenDir(m1, pino) /\ Kids(m1)[pino][nm] = 0 /\ pino \in Seen(m1)
    BY <1>0, <1>1, <1>3, <1>4, <1>8, StillKids
  <2>2. m1.cache[pino].refCount > 0
    BY <1>0, <1>1, <1>3, RefsAre DEF Took
  <2>3. FreeIno(m1) # 0
    BY <1>6, <1>8
  <2>4. /\ At(a, Root, 0, {}, {}, c) /\ Seen(a) = Seen(m1) \cup {FreeIno(m1)}
        /\ ~SeenDir(a, FreeIno(m1)) /\ a.blockless = m1.blockless
        /\ Grows(m1, a)
    BY <1>1, <1>4, <2>1, <2>2, <2>3, mycreatAt
  <2>5. Balanced(m1, a)
    BY <1>1, <1>3, <2>3, mycreatBalanced
  <2> HIDE DEF a
  <2>6. /\ At(b, Root, 0, {}, {}, c) /\ Still(a, b) /\ Seen(b) = Seen(a)
        /\ b.blockless = a.blockless /\ Balanced(a, b) /\ b \in RUN
    <3>1. a \in RUN /\ 0 \in Int /\ 0 \in {-1, 0, 1}
      BY <2>4 DEF At
    <3>2. At(b, Root, 0, {}, {}, c) /\ Still(a, b) /\ Seen(b) = Seen(a)
      BY <1>0, <1>1, <2>4, AddZeroAt
    <3>3. b \in RUN /\ b.blockless = a.blockless /\ Balanced(a, b)
      BY <1>1, <3>1, AddLinksIs, AddLinksBalanced
    <3>4. QED
      BY <3>2, <3>3
  <2> HIDE DEF b
  <2>7. b.cache[pino].refCount > 0
    BY <1>1, <2>2, <2>5, <2>6 DEF Balanced
  <2>8. /\ At(e, Root, 0, {}, {}, c) /\ Still(b, e) /\ Seen(e) = Seen(b)
    BY <1>0, <1>1, <2>6, <2>7, iputAt
  <2>9. e.blockless = b.blockless
    BY <1>1, <2>6, iputIs DEF Puts
  <2> HIDE DEF e
  <2>10. FreeIno(m) \in Seen(e) /\ ~SeenDir(e, FreeIno(m))
    BY <1>6, <2>4, <2>6, <2>8 DEF Still, SeenDir
  <2>11. Grows(m, e) /\ e.blockless = m.blockless
    <3>1. Tree(a) /\ a \in RUN /\ Tree(b) /\ e \in RUN
      BY <2>4, <2>6, <2>8 DEF At, Fine, Good
    <3>2. Grows(a, b) /\ Grows(b, e)
      BY <2>6, <2>8, <3>1, StillGrows
    <3>3. Grows(m, a)
      BY <1>0, <1>10, <2>4, GrowsGrows
    <3>4. Grows(m, b)
      BY <1>0, <3>2, <3>3, GrowsGrows
    <3>5. QED
      BY <1>0, <1>3, <2>4, <2>6, <2>9, <3>2, <3>4, GrowsGrows
  <2>12. QED
    BY <1>2, <1>5, <1>8, <2>8, <2>10, <2>11
<1>9. QED
  BY <1>7, <1>8

LEMMA make_dirAt ==
  ASSUME Small, NEW m, NEW c \in CTX, At(m, Root, 0, {}, {}, c),
         c.w.doomed = {}, ~c.w.unlinks,
         NEW p, Named(p), getino(m, dirname(p)) # 0,
         getino(m, p) = 0 => FreeIno(m) # 0
  PROVE  LET r == make_dir(m, p)
         IN \/ r.blockless
            \/ At(r, Root, 0, {}, {}, c) /\ Seen(m) \subseteq Seen(r)
<1> DEFINE pino == getino(m, dirname(p))
           nm == basename(p)
           m1 == iget(m, pino)
           a == mymkdir(m1, pino, nm)
           b == AddLinks(a, pino, 1)
           e == iput(b, pino)
<1>0. m \in RUN /\ Tree(m) /\ 0 \in DEBT /\ 1 \in DEBT
  BY DEF At, Fine, Good, DEBT
<1>1. /\ pino \in Seen(m) /\ pino \in Ino /\ nm \in Name
      /\ getino(m, p) = search(m, pino, nm) /\ getino(m, p) = Kids(m)[pino][nm]
  BY <1>0, PathLast, WalkLast, SeenIs DEF Named
<1>2. make_dir(m, p) = IF Refused(m1, pino, nm) THEN m1 ELSE e
  BY DEF make_dir
<1> HIDE DEF pino, nm
<1>3. /\ m1 \in RUN /\ Took(m, m1, pino) /\ Alike(m, m1) /\ m1.disk = m.disk
      /\ m1.cache[pino].INODE = View(m, pino) /\ m1.blockless = m.blockless
  BY <1>0, <1>1, igetTook, igetAlike, igetIs
<1>4. At(m1, Root, 0, {}, {}, c) /\ Still(m, m1) /\ Seen(m1) = Seen(m)
  BY <1>0, <1>1, igetAt
<1>5. Refused(m1, pino, nm) <=> ~(SeenDir(m, pino) /\ getino(m, p) = 0)
  <2> HIDE DEF m1
  <2>1. search(m1, pino, nm) = getino(m, p)
    <3>1. \A i \in Ino : \A x : search(m1, i, x) = search(m, i, x)
      BY <1>3, AlikeSearch
    <3>2. QED
      BY <1>1, <3>1
  <2>2. m1.cache[pino].INODE = View(m, pino)
    BY <1>3
  <2>3. QED
    BY <2>1, <2>2 DEF Refused, IsDir, SeenDir
<1>6. FreeIno(m1) = FreeIno(m)
  BY <1>3 DEF FreeIno
<1> HIDE DEF m1
<1>7. CASE ~(SeenDir(m, pino) /\ getino(m, p) = 0)
  BY <1>2, <1>3, <1>4, <1>5, <1>7 DEF pino
<1>8. CASE SeenDir(m, pino) /\ getino(m, p) = 0
  <2>1. SeenDir(m1, pino) /\ Kids(m1)[pino][nm] = 0 /\ pino \in Seen(m1)
    BY <1>0, <1>1, <1>3, <1>4, <1>8, StillKids
  <2>2. m1.cache[pino].refCount > 0
    BY <1>0, <1>1, <1>3, RefsAre DEF Took
  <2>3. FreeIno(m1) # 0
    BY <1>6, <1>8
  <2>4. a.blockless \/ /\ At(a, pino, 1, {}, {}, c)
                       /\ Seen(a) = Seen(m1) \cup {FreeIno(m1)}
                       /\ a.blockless = m1.blockless
    BY <1>1, <1>4, <2>1, <2>2, <2>3, mymkdirAt
  <2>5. Balanced(m1, a) /\ a \in RUN
    BY <1>1, <1>3, <2>3, mymkdirBalanced
  <2> HIDE DEF a
  <2>6. b \in RUN /\ b.blockless = a.blockless
    <3>1. 1 \in Int
      OBVIOUS
    <3>2. QED
      BY <1>1, <2>5, <3>1, AddLinksIs
  <2>7. e.blockless = b.blockless
    BY <1>1, <2>6, iputIs DEF Puts
  <2>8. CASE a.blockless
    <3> HIDE DEF b, e
    <3>1. QED
      BY <1>2, <1>5, <1>8, <2>6, <2>7, <2>8
  <2>9. CASE ~a.blockless
    <3>1. a.cache[pino].refCount > 0
      BY <1>1, <2>2, <2>5 DEF Balanced
    <3>2. Fine(a, pino, 1, {}, {}, c) /\ Seen(a) = Seen(m1) \cup {FreeIno(m1)}
      BY <2>4, <2>9 DEF At
    <3>3. /\ At(b, Root, 0, {}, {}, c) /\ Keeps(a, b) /\ Seen(b) = Seen(a)
          /\ Balanced(a, b) /\ b.disk = a.disk /\ b.blockless = a.blockless
      BY <1>0, <1>1, <2>5, <3>1, <3>2, PayAt
    <3> HIDE DEF b
    <3>4. b.cache[pino].refCount > 0
      BY <1>1, <3>1, <3>3 DEF Balanced
    <3>5. /\ At(e, Root, 0, {}, {}, c) /\ Still(b, e) /\ Seen(e) = Seen(b)
      BY <1>0, <1>1, <3>3, <3>4, iputAt
    <3> HIDE DEF e
    <3>6. Seen(m) \subseteq Seen(e)
      BY <1>4, <3>2, <3>3, <3>5
    <3>7. QED
      BY <1>2, <1>5, <1>8, <3>5, <3>6
  <2>10. QED
    BY <2>8, <2>9
<1>9. QED
  BY <1>7, <1>8

\* Of a link, the state after its first write is left out.
LEMMA mylinkAt ==
  ASSUME Small, NEW m, NEW c \in CTX, At(m, Root, 0, {}, {}, c),
         c.w.doomed = {}, 1 \notin c.claim, m.log = <<>>,
         NEW old, NEW new, Named(old), Named(new),
         getino(m, old) # 0, getino(m, dirname(new)) # 0
  PROVE  LET r == mylink(m, old, new)
             oino == getino(m, old)
             pino == getino(m, dirname(new))
             nm == basename(new)
         IN /\ SeenDir(m, oino) \/ getino(m, new) # 0 => r = iget(m, oino)
            /\ ~(SeenDir(m, oino) \/ getino(m, new) # 0) =>
                 \/ r.blockless
                 \/ /\ At(r, Root, 0, {}, {}, c) /\ Seen(r) = Seen(m)
                    /\ SeenDir(m, pino)
                    /\ \A e \in Seen(m), x \in Name : Kids(r)[e][x] =
                         IF e = pino /\ x = nm THEN oino ELSE Kids(m)[e][x]
                    /\ \A e \in Seen(m) : SeenDir(r, e) <=> SeenDir(m, e)
                    /\ r.blockless = m.blockless
<1> DEFINE oino == getino(m, old)
           pino == getino(m, dirname(new))
           nm == basename(new)
           m1 == iget(m, oino)
           a == iget(m1, pino)
           m2 == enter_name(a, pino, oino, nm)
           b == AddLinks(m2, oino, 1)
           e == iput(b, oino)
           r == iput(e, pino)
<1>0. m \in RUN /\ Tree(m) /\ 0 \in DEBT /\ 1 \in DEBT /\ 1 \in Int
  BY DEF At, Fine, Good, DEBT
<1>1. /\ oino \in Seen(m) /\ oino \in Ino /\ pino \in Seen(m) /\ pino \in Ino
      /\ nm \in Name /\ new \in Seq(Name) /\ getino(m, new) = Kids(m)[pino][nm]
  BY <1>0, PathLast, PathSeen, SeenIs DEF Named
<1>2. mylink(m, old, new) = IF IsDir(m1, oino) \/ getino(m1, new) # 0 THEN m1 ELSE r
  BY DEF mylink
<1> HIDE DEF oino, pino, nm
<1>3. /\ m1 \in RUN /\ Took(m, m1, oino) /\ Alike(m, m1) /\ m1.disk = m.disk
      /\ m1.cache[oino].INODE = View(m, oino) /\ m1.blockless = m.blockless
      /\ m1.log = m.log
  BY <1>0, <1>1, igetTook, igetAlike, igetIs
<1>4. At(m1, Root, 0, {}, {}, c) /\ Still(m, m1) /\ Seen(m1) = Seen(m)
  BY <1>0, <1>1, igetAt
<1>5. IsDir(m1, oino) \/ getino(m1, new) # 0 <=> SeenDir(m, oino) \/ getino(m, new) # 0
  BY <1>0, <1>1, <1>3, AlikeWalk DEF IsDir, SeenDir
<1>6. CASE SeenDir(m, oino) \/ getino(m, new) # 0
  BY <1>2, <1>5, <1>6 DEF oino, m1
<1>7. CASE ~(SeenDir(m, oino) \/ getino(m, new) # 0)
  <2> HIDE DEF m1
  <2>1. /\ a \in RUN /\ Took(m1, a, pino) /\ a.log = m.log
        /\ a.blockless = m.blockless /\ a.cache[pino].INODE = View(m1, pino)
    BY <1>1, <1>3, igetTook, igetIs
  <2>2. At(a, Root, 0, {}, {}, c) /\ Still(m1, a) /\ Seen(a) = Seen(m1)
    BY <1>0, <1>1, <1>4, igetAt
  <2> HIDE DEF a
  <2>3. Tree(a) /\ Still(m, a) /\ Seen(a) = Seen(m)
    BY <1>4, <2>2, StillStill DEF At, Fine, Good
  <2>4. \A d \in Seen(m) : /\ \A x \in Name : Kids(a)[d][x] = Kids(m)[d][x]
                           /\ SeenDir(a, d) <=> SeenDir(m, d)
    BY <1>0, <2>1, <2>3, StillKids
  <2>5. a.cache[pino].refCount > 0 /\ a.cache[oino].refCount > 0
    BY <1>0, <1>1, <1>3, <2>1, RefsAre DEF Took
  <2>6. /\ m2 \in RUN /\ b \in RUN /\ e \in RUN /\ r \in RUN
        /\ r.blockless = m2.blockless /\ Balanced(a, m2) /\ m2.cache = a.cache
    <3>1. Renames(a, a.cache[pino].INODE.block, nm, oino, m2)
      BY <1>1, <2>1, enter_nameIs
    <3>2. m2 \in RUN /\ m2.cache = a.cache /\ Balanced(a, m2)
      BY <3>1 DEF Renames, Wrote, Balanced
    <3> HIDE DEF m2
    <3>3. b \in RUN /\ b.blockless = m2.blockless
      BY <1>0, <1>1, <3>2, AddLinksIs
    <3> HIDE DEF b
    <3>4. e \in RUN /\ e.blockless = b.blockless
      BY <1>1, <3>3, iputIs DEF Puts
    <3> HIDE DEF e
    <3>5. r \in RUN /\ r.blockless = e.blockless
      BY <1>1, <3>4, iputIs DEF Puts
    <3>6. QED
      BY <3>2, <3>3, <3>4, <3>5
  <2>7. CASE ~SeenDir(m, pino)
    <3>1. View(a, pino).block = 0
      BY <1>1, <2>3, <2>4, <2>7 DEF Tree
    <3>2. a.cache[pino].INODE.block = 0
      BY <2>5, <3>1 DEF View
    <3>3. m2.blockless = (a.blockless \/ a.cache[pino].INODE.block = 0)
      BY <1>1, <2>1, enter_nameIs
    <3> HIDE DEF m2
    <3>4. m2.blockless
      BY <3>2, <3>3
    <3> HIDE DEF r
    <3>5. QED
      BY <1>2, <1>5, <1>7, <2>6, <3>4 DEF oino
  <2>8. CASE SeenDir(m, pino)
    <3>1. SeenDir(a, pino) /\ Kids(a)[pino][nm] = 0 /\ ~SeenDir(a, oino)
      BY <1>1, <1>7, <2>4, <2>8
    <3>2. Enterable(a, pino, oino) /\ pino \in Seen(a) /\ oino \in Seen(a)
      BY <1>1, <2>3, <3>1 DEF Enterable
    <3>3. Entered(a, pino, nm, oino, m2)
      BY <1>1, <2>1, <2>3, <2>5, <3>1, <3>2, EnteredIs
    <3>4. Len(m2.log) \notin c.claim
      <4>1. m2.log = Append(<<>>, [disk |-> m2.disk, cache |-> m2.cache])
        BY <2>1, <3>3 DEF Entered, Wrote
      <4> HIDE DEF m2
      <4>2. Len(m2.log) = 1
        BY <4>1
      <4>3. QED
        BY <4>2
    <3> HIDE DEF m2
    <3>5. Fine(m2, oino, 1, {}, {}, c) /\ m2 \in RUN
      BY <2>2, <3>1, <3>2, <3>3, <3>4, EnterOldAt
    <3>6. m2.cache[oino].refCount > 0
      BY <1>1, <2>5, <2>6 DEF Balanced
    <3>7. /\ At(b, Root, 0, {}, {}, c) /\ Keeps(m2, b) /\ Seen(b) = Seen(m2)
          /\ Balanced(m2, b) /\ b.disk = m2.disk
      BY <1>0, <1>1, <3>5, <3>6, PayAt
    <3> HIDE DEF b
    <3>8. b.cache[oino].refCount > 0 /\ b.cache[pino].refCount > 0
      BY <1>1, <2>5, <2>6, <3>7 DEF Balanced
    <3>9. /\ At(e, Root, 0, {}, {}, c) /\ Still(b, e) /\ Seen(e) = Seen(b)
      BY <1>0, <1>1, <3>7, <3>8, iputAt
    <3>10. e.cache[pino].refCount > 0
      <4>1. Puts(b, oino, e)
        BY <1>1, <2>6, iputIs
      <4>2. b.cache[oino].refCount \in Nat /\ b.cache[pino].refCount \in Nat
        BY <1>1, <2>6, RefsAre
      <4>3. CASE pino # oino
        BY <1>1, <3>8, <4>1, <4>3 DEF Puts
      <4>4. CASE pino = oino
        BY <1>7, <2>8, <4>4
      <4>5. QED
        BY <4>3, <4>4
    <3> HIDE DEF e
    <3>11. /\ At(r, Root, 0, {}, {}, c) /\ Still(e, r) /\ Seen(r) = Seen(e)
      BY <1>0, <1>1, <3>9, <3>10, iputAt
    <3> HIDE DEF r
    <3>12. Seen(m2) = Seen(m) /\ m2.blockless = m.blockless
      BY <1>1, <2>1, <2>3, <3>3 DEF Entered
    <3>13. \A d \in Seen(m) : /\ \A x \in Name : Kids(r)[d][x] = Kids(m2)[d][x]
                              /\ SeenDir(r, d) <=> SeenDir(m2, d)
      <4>1. Tree(b) /\ Tree(e) /\ Tree(m2)
        BY <3>5, <3>7, <3>9 DEF At, Fine, Good
      <4>2. Still(b, r)
        BY <3>9, <3>11, StillStill
      <4>3. \A d \in Seen(b) : /\ \A x \in Name : Kids(r)[d][x] = Kids(b)[d][x]
                               /\ SeenDir(r, d) <=> SeenDir(b, d)
        BY <2>6, <4>1, <4>2, StillKids
      <4>4. \A d \in Seen(m2), x \in Name : Kids(b)[d][x] = Kids(m2)[d][x]
        BY <2>6, <3>7, <4>1, KeepsTree
      <4>5. \A d \in Seen(m2) : SeenDir(b, d) <=> SeenDir(m2, d)
        BY <3>7 DEF Keeps
      <4>6. QED
        BY <3>7, <3>12, <4>3, <4>4, <4>5
    <3>14. \A d \in Seen(m) : /\ SeenDir(m2, d) <=> SeenDir(m, d)
                              /\ \A x \in Name : Kids(m2)[d][x] =
                                   IF d = pino /\ x = nm THEN oino ELSE Kids(m)[d][x]
      BY <2>3, <2>4, <3>3 DEF Entered
    <3>15. /\ At(r, Root, 0, {}, {}, c) /\ Seen(r) = Seen(m)
           /\ SeenDir(m, pino)
           /\ \A d \in Seen(m), x \in Name : Kids(r)[d][x] =
                IF d = pino /\ x = nm THEN oino ELSE Kids(m)[d][x]
           /\ \A d \in Seen(m) : SeenDir(r, d) <=> SeenDir(m, d)
           /\ r.blockless = m.blockless
      BY <2>6, <2>8, <3>7, <3>9, <3>11, <3>12, <3>13, <3>14
    <3>16. mylink(m, old, new) = r
      BY <1>2, <1>5, <1>7
    <3>17. QED
      BY <1>7, <3>15, <3>16 DEF oino, pino, nm
  <2>9. QED
    BY <2>7, <2>8
<1>8. QED
  BY <1>6, <1>7 DEF oino

-----------------------------------------------------------------------------
(***************************************************************************)
(* unlink                                                                  *)
(***************************************************************************)
\* Inode i has an entry other than nm of d.
Elsewhere(m, i, d, nm) ==
  \E e \in Seen(m), x \in Name : Kids(m)[e][x] = i /\ ~(e = d /\ x = nm)

\* Where blocks are unmarked by the number of an inode, with nothing said of
\* the bitmap of blocks.
LEMMA AnyBlocks ==
  ASSUME NEW m, NEW c, c.w.unlinks, NEW o, NEW v, NEW L, NEW B, NEW C,
         At(m, o, v, L, B, c)
  PROVE  At(m, o, v, L, C, c)
BY DEF At, Fine, Exact

LEMMA ForgetAt ==
  ASSUME NEW m, NEW c, c.k # 0, NEW o, NEW v, NEW L, NEW B, NEW M,
         At(m, o, v, L, B, c)
  PROVE  At(m, o, v, M, B, c)
BY DEF At, Fine

\* The last entry of a file is gone: its number and a block are unmarked.
LEMMA FreeFileAt ==
  ASSUME NEW m, NEW i \in Ino, i \notin Seen(m), NEW c \in CTX, c.w.doomed = {},
         c.w.unlinks, RootBlock \notin Ino, At(m, Root, 0, {i}, {}, c),
         m.cache[i].refCount > 0
  PROVE  LET r == iput(idalloc(bdalloc(m, i), i), i)
         IN At(r, Root, 0, {}, {}, c) /\ Seen(r) = Seen(m) /\ Still(m, r)
<1> DEFINE a == bdalloc(m, i)
           b == idalloc(a, i)
           r == iput(b, i)
<1>0. m \in RUN /\ Tree(m) /\ Marked(m, c.w) /\ 0 \in DEBT
  BY DEF At, Fine, Good, DEBT
<1>1. FreesBlock(m, i, a)
  BY <1>0, bdallocIs
<1> HIDE DEF a
<1>2. Spare(m, i, c)
  <2>1. \A j \in Seen(m) : SeenDir(m, j) => View(m, j).block = RootBlock
    BY <1>0 DEF Marked, Tree, Rooted
  <2>2. QED
    BY <2>1 DEF Spare
<1>3. At(m, Root, 0, {i}, {i}, c)
  BY AnyBlocks
<1>4. At(a, Root, 0, {i}, {}, c) /\ Still(m, a) /\ Seen(a) = Seen(m)
  BY <1>0, <1>1, <1>2, <1>3, FreesBlockAt
<1>5. a \in RUN /\ a.cache = m.cache
  BY <1>1 DEF FreesBlock, Wrote
<1>6. Frees(a, i, b)
  BY <1>5, idallocIs
<1> HIDE DEF b
<1>7. At(b, Root, 0, {}, {}, c) /\ Still(a, b) /\ Seen(b) = Seen(a)
  BY <1>0, <1>4, <1>6, FreesAt
<1>8. b.cache[i].refCount > 0
  BY <1>5, <1>6 DEF Frees, Wrote
<1>9. At(r, Root, 0, {}, {}, c) /\ Still(b, r) /\ Seen(r) = Seen(b)
  BY <1>0, <1>7, <1>8, iputAt
<1> HIDE DEF r
<1>10. Still(m, r)
  <2>1. Still(m, b)
    BY <1>4, <1>7, StillStill
  <2>2. QED
    BY <1>4, <1>7, <1>9, <2>1, StillStill
<1>11. QED
  BY <1>4, <1>7, <1>9, <1>10 DEF r, b, a

\* What is left of an unlink after the entry is gone.
Unlinked(m, i) ==
  IF Drop(m, i).cache[i].INODE.links > 0 THEN iput(AddLinks(m, i, -1), i)
  ELSE iput(idalloc(bdalloc(Drop(m, i), i), i), i)

LEMMA UnlinkedSeenAt ==
  ASSUME Small, NEW m, NEW i \in Seen(m), ~SeenDir(m, i), NEW c \in CTX,
         At(m, i, -1, {}, {}, c), m.cache[i].refCount > 0
  PROVE  LET r == Unlinked(m, i)
         IN At(r, Root, 0, {}, {}, c) /\ Seen(r) = Seen(m)
<1> DEFINE a == AddLinks(m, i, -1)
           r == iput(a, i)
<1>0. m \in RUN /\ -1 \in DEBT /\ 0 \in DEBT /\ i \in Ino /\ Fine(m, i, -1, {}, {}, c)
  BY SeenIs DEF At, DEBT
<1>1. Drop(m, i).cache[i].INODE.links > 0
  <2> DEFINE n == m.cache[i].INODE.links
             e == Cardinality(Edges(Kids(m), i))
  <2>1. Drop(m, i).cache[i].INODE.links = (n - 1) % LinkMod
    BY <1>0, DropIs
  <2>2. n = View(m, i).links
    BY DEF View
  <2>3. n + -1 - e \in 0..c.k
    <3>1. FileCounts(m, i, -1, c.k)
      BY <1>0 DEF Fine, Good
    <3>2. Owed(i, i, -1) = -1
      BY DEF Owed
    <3>3. QED
      BY <2>2, <3>1, <3>2 DEF FileCounts
  <2>4. e \in Nat /\ e # 0
    <3>1. IsFiniteSet(Edges(Kids(m), i)) /\ e \in Nat
      BY <1>0, EdgesFinite
    <3>2. i # Root
      BY <1>0 DEF Fine, Good, Tree, Rooted, SeenDir
    <3>3. Edges(Kids(m), i) # {}
      <4>1. Kids(m) \in GRAPH /\ i \in Reach(Kids(m))
        BY <1>0, KidsAre DEF Seen
      <4>2. PICK d \in Reach(Kids(m)), x \in Name : Kids(m)[d][x] = i
        BY <3>2, <4>1, ReachParent
      <4>3. <<d, x>> \in Edges(Kids(m), i)
        BY <4>2, EdgesIs
      <4>4. QED
        BY <4>3
    <3>4. QED
      BY <3>1, <3>3, FS_EmptySet
  <2>5. n \in 0..(LinkMod - 1) /\ n \in Nat
    BY <1>0, <2>2, LinksOf
  <2> HIDE DEF n, e, LinkMod
  <2>6. n - 1 \in 0..(LinkMod - 1) /\ n - 1 > 0
    BY <2>3, <2>4, <2>5, CtxIs, LinksIs
  <2>7. (n - 1) % LinkMod = n - 1
    BY <2>6, WrapSame
  <2>8. QED
    BY <2>1, <2>6, <2>7
<1>2. /\ At(a, Root, 0, {}, {}, c) /\ Seen(a) = Seen(m) /\ Balanced(m, a)
  BY <1>0, PayAt
<1>3. a.cache[i].refCount > 0
  BY <1>0, <1>2 DEF Balanced
<1> HIDE DEF a
<1>4. At(r, Root, 0, {}, {}, c) /\ Seen(r) = Seen(a)
  BY <1>0, <1>2, <1>3, iputAt
<1>5. QED
  BY <1>1, <1>2, <1>4 DEF Unlinked, r, a

LEMMA UnlinkedGoneAt ==
  ASSUME NEW m, NEW i \in Ino, i \notin Seen(m), NEW c \in CTX, c.w.doomed = {},
         c.w.unlinks, RootBlock \notin Ino, At(m, Root, 0, {i}, {}, c),
         m.cache[i].refCount > 0, c.k = 0 => View(m, i).links = 1
  PROVE  LET r == Unlinked(m, i)
         IN At(r, Root, 0, {}, {}, c) /\ Seen(r) = Seen(m)
<1> DEFINE a == AddLinks(m, i, -1)
           b == Drop(m, i)
<1>0. m \in RUN /\ 0 \in DEBT /\ -1 \in Int
  BY DEF At, DEBT
<1>1. CASE b.cache[i].INODE.links > 0
  <2>1. c.k # 0
    <3>1. SUFFICES ASSUME c.k = 0 PROVE FALSE
      OBVIOUS
    <3>2. m.cache[i].INODE.links = 1
      BY <3>1 DEF View
    <3>3. b.cache[i].INODE.links = (1 - 1) % LinkMod
      BY <1>0, <3>2, DropIs
    <3> HIDE DEF b
    <3>4. (1 - 1) % LinkMod = 0
      <4>1. 1 - 1 = 0 /\ 0 \in 0..(LinkMod - 1)
        <5> HIDE DEF LinkMod
        <5>1. QED
          BY LinksIs
      <4>2. QED
        BY <4>1, WrapSame
    <3>5. QED
      BY <1>1, <3>3, <3>4
  <2>2. a \in RUN /\ Balanced(m, a)
    BY <1>0, AddLinksBalanced
  <2>3. At(a, Root, 0, {i}, {}, c) /\ Seen(a) = Seen(m)
    <3> DEFINE ip == [m.cache[i].INODE EXCEPT !.links = (@ + -1) % LinkMod]
    <3>1. a = Store(m, i, ip)
      BY DEF AddLinks
    <3>2. ip \in INODE
      <4>1. m.cache[i].INODE \in INODE
        BY <1>0 DEF RUN, CACHE, SLOT
      <4>2. m.cache[i].INODE.links + -1 \in Int
        BY <4>1, LinksIs DEF INODE
      <4>3. (m.cache[i].INODE.links + -1) % LinkMod \in 0..(LinkMod - 1)
        BY <4>2, LinksWrap
      <4>4. QED
        BY <4>1, <4>3 DEF INODE
    <3> HIDE DEF ip
    <3>3. QED
      BY <1>0, <3>1, <3>2, StoreAt
  <2>4. At(a, Root, 0, {}, {}, c)
    BY <2>1, <2>3, ForgetAt
  <2>5. a.cache[i].refCount > 0
    BY <2>2 DEF Balanced
  <2> HIDE DEF a
  <2>6. At(iput(a, i), Root, 0, {}, {}, c) /\ Seen(iput(a, i)) = Seen(a)
    BY <1>0, <2>4, <2>5, iputAt
  <2>7. QED
    BY <1>1, <2>3, <2>6 DEF Unlinked, a
<1>2. CASE ~(b.cache[i].INODE.links > 0)
  <2>1. At(b, Root, 0, {i}, {}, c) /\ Seen(b) = Seen(m)
    BY <1>0, DropAt
  <2>2. b.cache[i].refCount > 0
    BY <1>0, DropIs
  <2> HIDE DEF b
  <2>3. /\ At(iput(idalloc(bdalloc(b, i), i), i), Root, 0, {}, {}, c)
        /\ Seen(iput(idalloc(bdalloc(b, i), i), i)) = Seen(b)
    BY <2>1, <2>2, FreeFileAt
  <2>4. QED
    BY <1>2, <2>1, <2>3 DEF Unlinked, b
<1>3. QED
  BY <1>1, <1>2

LEMMA myunlinkAt ==
  ASSUME Small, NEW m, NEW c \in CTX, At(m, Root, 0, {}, {}, c), c.w.doomed = {},
         NEW p, Named(p), getino(m, p) # 0,
         \/ SeenDir(m, getino(m, p))
         \/ Elsewhere(m, getino(m, p), getino(m, dirname(p)), basename(p))
         \/ c.keep = {} /\ c.w.unlinks /\ RootBlock \notin Ino
  PROVE  At(myunlink(m, p), Root, 0, {}, {}, c)
<1> DEFINE ino == getino(m, p)
           pino == getino(m, dirname(p))
           nm == basename(p)
           m1 == iget(m, ino)
           a == iget(m1, pino)
           m2 == rm_child(a, pino, nm)
           b == AddLinks(m2, pino, 0)
           m3 == iput(b, pino)
<1>0. m \in RUN /\ Tree(m) /\ 0 \in DEBT /\ -1 \in DEBT
  BY DEF At, Fine, Good, DEBT
<1>1. /\ ino \in Seen(m) \ {Root} /\ pino \in Seen(m) /\ nm \in Name
      /\ ino \in Ino /\ pino \in Ino /\ SeenDir(m, pino) /\ ino = Kids(m)[pino][nm]
  <2>1. getino(m, dirname(p)) # 0
    BY WalkLast DEF Named
  <2>2. QED
    BY <1>0, <2>1, PathLast, SeenIs
<1>2. myunlink(m, p) = IF IsDir(m1, ino) THEN m1 ELSE Unlinked(m3, ino)
  BY DEF myunlink, Unlinked, Drop
<1>10. \/ SeenDir(m, ino) \/ Elsewhere(m, ino, pino, nm)
       \/ c.keep = {} /\ c.w.unlinks /\ RootBlock \notin Ino
  OBVIOUS
<1> HIDE DEF ino, pino, nm
<1>3. /\ m1 \in RUN /\ Took(m, m1, ino) /\ Alike(m, m1)
      /\ m1.cache[ino].INODE = View(m, ino)
  BY <1>0, <1>1, igetTook, igetAlike, igetIs
<1>4. At(m1, Root, 0, {}, {}, c) /\ Still(m, m1) /\ Seen(m1) = Seen(m)
  BY <1>0, <1>1, igetAt
<1>5. IsDir(m1, ino) <=> SeenDir(m, ino)
  BY <1>3 DEF IsDir, SeenDir
<1> HIDE DEF m1
<1>6. CASE SeenDir(m, ino)
  BY <1>2, <1>4, <1>5, <1>6
<1>7. CASE ~SeenDir(m, ino)
  <2>1. /\ a \in RUN /\ Took(m1, a, pino) /\ Alike(m1, a)
    BY <1>1, <1>3, igetTook, igetAlike
  <2>2. At(a, Root, 0, {}, {}, c) /\ Still(m1, a) /\ Seen(a) = Seen(m1)
    BY <1>0, <1>1, <1>4, igetAt
  <2> HIDE DEF a
  <2>3. Tree(a) /\ Still(m, a) /\ Seen(a) = Seen(m)
    BY <1>4, <2>2, StillStill DEF At, Fine, Good
  <2>4. \A d \in Seen(m) : /\ \A x \in Name : Kids(a)[d][x] = Kids(m)[d][x]
                           /\ SeenDir(a, d) <=> SeenDir(m, d)
    BY <1>0, <2>1, <2>3, StillKids
  <2>5. a.cache[pino].refCount > 0 /\ a.cache[ino].refCount > 0
    BY <1>0, <1>1, <1>3, <2>1, RefsAre DEF Took
  <2>6. SeenDir(a, pino) /\ Kids(a)[pino][nm] = ino /\ ~SeenDir(a, ino)
    BY <1>1, <1>7, <2>4
  <2>7. \A x \in Name : Kids(a)[ino][x] = 0
    BY <1>1, <2>1, <2>6, KidsAre
  <2>8. Removed(a, pino, nm, ino, m2)
    BY <1>1, <2>1, <2>3, <2>5, <2>6, <2>7, RemovedIs
  <2>9. m2 \in RUN /\ m2.cache = a.cache
        /\ \A j : View(m2, j) = View(a, j) /\ (SeenDir(m2, j) <=> SeenDir(a, j))
    BY <2>8 DEF Removed, Wrote
  <2> HIDE DEF m2
  <2>10. Elsewhere(m, ino, pino, nm) => ino \in Seen(m2)
    <3>1. SUFFICES ASSUME NEW e \in Seen(m), NEW x \in Name, Kids(m)[e][x] = ino,
                          ~(e = pino /\ x = nm)
                   PROVE  ino \in Seen(m2)
      BY DEF Elsewhere
    <3>2. Kids(a)[e][x] = ino /\ e \in Seen(a)
      BY <2>3, <2>4, <3>1
    <3>3. e # ino /\ ino # 0
      BY <1>1, <2>7, <3>2, RootIs
    <3>4. e \in Seen(m2) /\ Kids(m2)[e][x] = ino
      BY <2>8, <3>1, <3>2, <3>3 DEF Removed
    <3>5. QED
      BY <2>9, <3>3, <3>4, SeenIs
  <2>11. c.keep \subseteq Seen(m2)
    <3>1. CASE c.keep = {}
      BY <3>1
    <3>2. CASE ino \in Seen(m2)
      <4>1. Seen(m2) = Seen(m)
        BY <2>3, <2>8, <3>2 DEF Removed
      <4>2. QED
        BY <4>1 DEF At, Fine
    <3>3. QED
      BY <1>7, <1>10, <2>10, <3>1, <3>2
  <2>12. /\ ino \in Seen(m2) => At(m2, ino, -1, {}, {}, c)
         /\ ino \notin Seen(m2) => At(m2, Root, 0, {ino}, {}, c)
    BY <1>1, <2>2, <2>6, <2>8, <2>11, RemoveFileAt
  <2>13. /\ b \in RUN /\ Alike(m2, b) /\ Balanced(m2, b) /\ b.cache[pino].dirty
    <3>1. 0 \in Int
      OBVIOUS
    <3>2. b \in RUN /\ Alike(m2, b)
      BY <1>1, <2>9, AddZeroAlike
    <3>3. Balanced(m2, b)
      BY <1>1, <2>9, <3>1, AddLinksBalanced
    <3>4. b.cache[pino].dirty
      BY <1>1, <2>9, <3>1, AddLinksIs
    <3>5. QED
      BY <3>2, <3>3, <3>4
  <2>14. b.cache[pino].refCount > 0 /\ m3 \in RUN /\ Alike(b, m3)
    <3> HIDE DEF b
    <3>1. b.cache[pino].refCount > 0
      BY <1>1, <2>5, <2>9, <2>13 DEF Balanced
    <3>2. Alike(b, m3)
      BY <1>1, <2>13, <3>1, iputAlike
    <3>3. m3 \in RUN
      BY <1>1, <2>13, iputIs DEF Puts
    <3>4. QED
      BY <3>1, <3>2, <3>3
  <2>15. m3.cache[ino].refCount > 0
    <3>1. Puts(b, pino, m3)
      BY <1>1, <2>13, iputIs
    <3>2. b.cache[ino].refCount > 0
      BY <1>1, <2>5, <2>9, <2>13 DEF Balanced
    <3>3. ino # pino
      BY <2>8 DEF Removed
    <3> HIDE DEF b, m3
    <3>4. QED
      BY <1>1, <3>1, <3>2, <3>3 DEF Puts
  <2>16. CASE ino \in Seen(m2)
    <3>1. At(b, ino, -1, {}, {}, c) /\ Still(m2, b) /\ Seen(b) = Seen(m2)
      BY <1>0, <1>1, <2>12, <2>16, AddZeroAt
    <3> HIDE DEF b
    <3>2. At(m3, ino, -1, {}, {}, c) /\ Still(b, m3) /\ Seen(m3) = Seen(b)
      BY <1>0, <1>1, <2>14, <3>1, iputAt
    <3> HIDE DEF m3
    <3>3. ino \in Seen(m3) /\ ~SeenDir(m3, ino)
      BY <1>1, <2>6, <2>9, <2>13, <2>14, <2>16, <3>1, <3>2 DEF Alike, SeenDir
    <3>4. At(Unlinked(m3, ino), Root, 0, {}, {}, c)
      BY <2>15, <3>2, <3>3, UnlinkedSeenAt
    <3>5. QED
      BY <1>2, <1>5, <1>7, <3>4
  <2>17. CASE ino \notin Seen(m2)
    <3>0. c.w.unlinks /\ RootBlock \notin Ino
      BY <1>7, <1>10, <2>10, <2>17
    <3>1. At(b, Root, 0, {ino}, {}, c) /\ Still(m2, b) /\ Seen(b) = Seen(m2)
      BY <1>0, <1>1, <2>12, <2>17, AddZeroAt
    <3> HIDE DEF b
    <3>2. At(m3, Root, 0, {ino}, {}, c) /\ Still(b, m3) /\ Seen(m3) = Seen(b)
      BY <1>0, <1>1, <2>14, <3>1, iputAt
    <3> HIDE DEF m3
    <3>3. ino \notin Seen(m3)
      BY <2>17, <3>1, <3>2
    <3>4. c.k = 0 => View(m3, ino).links = 1
      <4>1. SUFFICES ASSUME c.k = 0 PROVE View(a, ino).links = 1
        BY <1>1, <2>9, <2>13, <2>14 DEF Alike
      <4>2. FileCounts(a, Root, 0, 0)
        BY <2>2, <4>1 DEF At, Fine, Good
      <4>3. View(a, ino).links + 0 - Cardinality(Edges(Kids(a), ino)) \in 0..0
        BY <1>1, <2>3, <2>6, <4>2 DEF FileCounts, Owed
      <4>4. Cardinality(Edges(Kids(a), ino)) - 1 = 0
        <5>1. Edges(Kids(m2), ino) = {}
          BY <1>1, <2>9, <2>17, EdgesSeen
        <5>2. QED
          BY <2>8, <5>1, FS_EmptySet DEF Removed
      <4>5. View(a, ino).links \in Nat /\ Cardinality(Edges(Kids(a), ino)) \in Nat
        BY <1>1, <2>1, LinksOf, EdgesFinite
      <4>6. QED
        BY <4>3, <4>4, <4>5
    <3>5. At(Unlinked(m3, ino), Root, 0, {}, {}, c)
      BY <1>1, <2>15, <3>0, <3>2, <3>3, <3>4, UnlinkedGoneAt
    <3>6. QED
      BY <1>2, <1>5, <1>7, <3>5
  <2>18. QED
    BY <2>16, <2>17
<1>8. QED
  BY <1>6, <1>7

-----------------------------------------------------------------------------
(***************************************************************************)
(* cp, mv, symlink and rmdir                                               *)
(***************************************************************************)
\* A name put into an inode without a block is not forgotten.
LEMMA mycreatKeeps ==
  ASSUME NEW m \in RUN, NEW pino \in Ino, NEW nm \in Name, FreeIno(m) # 0
  PROVE  m.blockless => mycreat(m, pino, nm).blockless
<1> DEFINE ino == FreeIno(m)
           ip == [type |-> "reg", links |-> 1, block |-> 0]
           a == SetImap(m, ino)
           b == iget(a, ino)
           c == Store(b, ino, ip)
           d == iput(c, ino)
           e == enter_name(d, pino, ino, nm)
<1>1. ino \in Ino /\ ip \in INODE
  BY FreeIs, LinksIs DEF INODE
<1>2. mycreat(m, pino, nm) = e
  BY DEF mycreat
<1> HIDE DEF ino, ip
<1>3. a \in RUN /\ a.blockless = m.blockless
  BY <1>1, SetImapIs DEF Marks, Wrote
<1> HIDE DEF a
<1>4. b \in RUN /\ b.blockless = m.blockless
  BY <1>1, <1>3, igetIs
<1> HIDE DEF b
<1>5. c \in RUN /\ c.blockless = m.blockless
  BY <1>1, <1>4, StoreIs
<1> HIDE DEF c
<1>6. d \in RUN /\ d.blockless = m.blockless
  BY <1>1, <1>5, iputIs DEF Puts
<1> HIDE DEF d
<1>7. e.blockless = (d.blockless \/ d.cache[pino].INODE.block = 0)
  BY <1>1, <1>6, enter_nameIs
<1> HIDE DEF e
<1>8. QED
  BY <1>2, <1>6, <1>7

LEMMA creat_fileKeeps ==
  ASSUME NEW m \in RUN, NEW p, Named(p), getino(m, dirname(p)) # 0,
         getino(m, p) = 0 => FreeIno(m) # 0
  PROVE  m.blockless => creat_file(m, p).blockless
<1> DEFINE pino == getino(m, dirname(p))
           nm == basename(p)
           m1 == iget(m, pino)
           a == mycreat(m1, pino, nm)
           b == AddLinks(a, pino, 0)
           c == iput(b, pino)
<1>1. pino \in Ino /\ nm \in Name /\ getino(m, p) = search(m, pino, nm)
  BY WalkLast, getinoIs DEF Named
<1>2. creat_file(m, p) = IF Refused(m1, pino, nm) THEN m1 ELSE c
  BY DEF creat_file
<1> HIDE DEF pino, nm
<1>3. m1 \in RUN /\ Alike(m, m1) /\ m1.disk = m.disk /\ m1.blockless = m.blockless
  BY <1>1, igetAlike, igetIs
<1> HIDE DEF m1
<1>4. search(m1, pino, nm) = search(m, pino, nm)
  BY <1>1, <1>3, AlikeSearch
<1>5. CASE Refused(m1, pino, nm)
  BY <1>2, <1>3, <1>5
<1>6. CASE ~Refused(m1, pino, nm)
  <2>1. FreeIno(m1) # 0
    BY <1>1, <1>3, <1>4, <1>6 DEF Refused, FreeIno
  <2>2. a \in RUN /\ (m1.blockless => a.blockless)
    BY <1>1, <1>3, <2>1, mycreatBalanced, mycreatKeeps
  <2> HIDE DEF a
  <2>3. b \in RUN /\ b.blockless = a.blockless
    <3>1. 0 \in Int
      OBVIOUS
    <3>2. QED
      BY <1>1, <2>2, <3>1, AddLinksIs
  <2> HIDE DEF b
  <2>4. c.blockless = b.blockless
    BY <1>1, <2>3, iputIs DEF Puts
  <2> HIDE DEF c
  <2>5. QED
    BY <1>2, <1>3, <1>6, <2>2, <2>3, <2>4
<1>7. QED
  BY <1>5, <1>6

LEMMA mycpKeeps ==
  ASSUME NEW m \in RUN, NEW s, NEW t, Named(s), Named(t), Copyable(m, s, t)
  PROVE  m.blockless => mycp(m, s, t).blockless
<1> DEFINE ino == getino(m, s)
           m1 == iget(m, ino)
           m2 == creat_file(m1, t)
           r == Copied(m, s, t)
           copy == getino(r, t)
           g == iget(r, copy)
<1>1. ino \in Ino /\ t \in Seq(Name) /\ dirname(t) \in Seq(Name)
  BY WalkLast, getinoIs DEF Named, Copyable, Exists
<1>2. /\ getino(m, dirname(t)) # 0 /\ (getino(m, t) = 0 => FreeIno(m) # 0)
      /\ Copies(m, t) => copy # 0
  BY DEF Copyable, Makeable, HasParent
<1>3. r = IF m1.cache[ino].INODE.type = "reg" THEN iput(m2, ino) ELSE m2
  BY DEF Copied
<1>4. mycp(m, s, t) = IF Copies(m, t) THEN iput(g, copy) ELSE r
  BY DEF mycp
<1> HIDE DEF ino, r
<1>5. m1 \in RUN /\ Alike(m, m1) /\ m1.disk = m.disk /\ m1.blockless = m.blockless
  BY <1>1, igetAlike, igetIs
<1> HIDE DEF m1
<1>6. getino(m1, t) = getino(m, t) /\ getino(m1, dirname(t)) = getino(m, dirname(t))
      /\ FreeIno(m1) = FreeIno(m)
  BY <1>1, <1>5, AlikeWalk DEF FreeIno
<1>7. m2 \in RUN /\ (m1.blockless => m2.blockless)
  BY <1>2, <1>5, <1>6, creat_fileRefs, creat_fileKeeps
<1> HIDE DEF m2
<1>8. r \in RUN /\ (m1.blockless => r.blockless)
  <2>1. iput(m2, ino) \in RUN /\ iput(m2, ino).blockless = m2.blockless
    BY <1>1, <1>7, iputIs DEF Puts
  <2>2. QED
    BY <1>3, <1>7, <2>1
<1>9. copy \in Ino \cup {0}
  BY <1>1, <1>8, getinoIs
<1> HIDE DEF copy
<1>10. copy \in Ino => iput(g, copy).blockless = r.blockless
  <2>1. SUFFICES ASSUME copy \in Ino PROVE iput(g, copy).blockless = r.blockless
    OBVIOUS
  <2>2. g \in RUN /\ g.blockless = r.blockless
    BY <1>8, <2>1, igetIs
  <2> HIDE DEF g
  <2>3. QED
    BY <2>1, <2>2, iputIs DEF Puts
<1> HIDE DEF g
<1>11. QED
  BY <1>2, <1>4, <1>5, <1>8, <1>9, <1>10

LEMMA myunlinkKeeps ==
  ASSUME NEW m \in RUN, NEW p, Named(p), getino(m, p) # 0
  PROVE  myunlink(m, p).blockless = m.blockless
<1> DEFINE ino == getino(m, p)
           pino == getino(m, dirname(p))
           nm == basename(p)
           m1 == iget(m, ino)
           a == iget(m1, pino)
           m2 == rm_child(a, pino, nm)
           b == AddLinks(m2, pino, 0)
           m3 == iput(b, pino)
           last == Drop(m3, ino)
           c == AddLinks(m3, ino, -1)
           d == bdalloc(last, ino)
           e == idalloc(d, ino)
<1>0. 0 \in Int /\ -1 \in Int
  OBVIOUS
<1>1. ino \in Ino /\ pino \in Ino /\ nm \in Name
  BY WalkLast, getinoIs DEF Named
<1>2. myunlink(m, p) = IF IsDir(m1, ino) THEN m1
                       ELSE IF last.cache[ino].INODE.links > 0 THEN iput(c, ino)
                            ELSE iput(e, ino)
  BY DEF myunlink, Drop
<1> HIDE DEF ino, pino, nm
<1>3. m1 \in RUN /\ m1.blockless = m.blockless
  BY <1>1, igetIs
<1> HIDE DEF m1
<1>4. a \in RUN /\ a.blockless = m.blockless
  BY <1>1, <1>3, igetIs
<1> HIDE DEF a
<1>5. m2 \in RUN /\ m2.blockless = m.blockless
  <2>1. /\ Renames(a, a.cache[pino].INODE.block, nm, 0, m2)
        /\ m2.blockless = a.blockless
    BY <1>1, <1>4, rm_childIs
  <2> HIDE DEF m2
  <2>2. QED
    BY <1>4, <2>1 DEF Renames, Wrote
<1> HIDE DEF m2
<1>6. b \in RUN /\ b.blockless = m.blockless
  BY <1>0, <1>1, <1>5, AddLinksIs
<1> HIDE DEF b
<1>7. m3 \in RUN /\ m3.blockless = m.blockless
  BY <1>1, <1>6, iputIs DEF Puts
<1> HIDE DEF m3
<1>8. iput(c, ino).blockless = m.blockless
  <2>1. c \in RUN /\ c.blockless = m.blockless
    BY <1>0, <1>1, <1>7, AddLinksIs
  <2> HIDE DEF c
  <2>2. QED
    BY <1>1, <2>1, iputIs DEF Puts
<1>9. iput(e, ino).blockless = m.blockless
  <2>1. last \in RUN /\ last.blockless = m.blockless
    BY <1>1, <1>7, DropIs
  <2> HIDE DEF last
  <2>2. d \in RUN /\ d.blockless = m.blockless
    BY <1>1, <2>1, bdallocIs DEF FreesBlock, Wrote
  <2> HIDE DEF d
  <2>3. e \in RUN /\ e.blockless = m.blockless
    BY <1>1, <2>2, idallocIs DEF Frees, Wrote
  <2> HIDE DEF e
  <2>4. QED
    BY <1>1, <2>3, iputIs DEF Puts
<1> HIDE DEF c, e, last
<1>10. QED
  BY <1>2, <1>3, <1>8, <1>9

LEMMA mycpAt ==
  ASSUME NEW m, NEW c \in CTX, At(m, Root, 0, {}, {}, c), c.w.doomed = {},
         NEW s, NEW t, Named(s), Named(t), Copyable(m, s, t)
  PROVE  LET r == mycp(m, s, t)
         IN At(r, Root, 0, {}, {}, c) /\ Grows(m, r)
<1> DEFINE ino == getino(m, s)
           m1 == iget(m, ino)
           m2 == creat_file(m1, t)
           e == Copied(m, s, t)
           copy == getino(e, t)
           g == iget(e, copy)
<1>0. m \in RUN /\ Tree(m) /\ 0 \in DEBT
  BY DEF At, Fine, Good, DEBT
<1>1. ino \in Ino /\ t \in Seq(Name) /\ dirname(t) \in Seq(Name)
  BY <1>0, WalkLast, getinoIs DEF Named, Copyable, Exists
<1>2. /\ getino(m, dirname(t)) # 0 /\ (getino(m, t) = 0 => FreeIno(m) # 0)
      /\ Copies(m, t) => copy # 0
  BY DEF Copyable, Makeable, HasParent
<1>3. e = IF m1.cache[ino].INODE.type = "reg" THEN iput(m2, ino) ELSE m2
  BY DEF Copied
<1>4. mycp(m, s, t) = IF Copies(m, t) THEN iput(g, copy) ELSE e
  BY DEF mycp
<1> HIDE DEF ino, e
<1>5. /\ m1 \in RUN /\ Took(m, m1, ino) /\ Alike(m, m1) /\ m1.disk = m.disk
  BY <1>0, <1>1, igetTook, igetAlike, igetIs
<1>6. At(m1, Root, 0, {}, {}, c) /\ Still(m, m1) /\ Seen(m1) = Seen(m)
  BY <1>0, <1>1, igetAt
<1>7. m1.cache[ino].refCount > 0
  BY <1>0, <1>1, <1>5, RefsAre DEF Took
<1>8. Grows(m, m1)
  BY <1>0, <1>5, <1>6, StillGrows
<1> HIDE DEF m1
<1>9. getino(m1, t) = getino(m, t) /\ getino(m1, dirname(t)) = getino(m, dirname(t))
      /\ FreeIno(m1) = FreeIno(m)
  BY <1>0, <1>1, <1>5, AlikeWalk DEF FreeIno
<1>10. At(m2, Root, 0, {}, {}, c) /\ Grows(m1, m2)
  BY <1>2, <1>6, <1>9, creat_fileAt
<1>11. m2.cache[ino].refCount > 0
  <2>1. Balanced(m1, m2) \/ m2 = iget(m1, getino(m1, dirname(t)))
    BY <1>2, <1>5, <1>9, creat_fileRefs
  <2>2. getino(m1, dirname(t)) \in Ino
    BY <1>1, <1>2, <1>5, <1>9, getinoIs
  <2> DEFINE q == iget(m1, getino(m1, dirname(t)))
  <2>3. Took(m1, q, getino(m1, dirname(t)))
    BY <1>5, <2>2, igetTook
  <2> HIDE DEF q, m2
  <2>4. q.cache[ino].refCount > 0
    BY <1>1, <1>5, <1>7, <2>3, RefsAre DEF Took
  <2>5. QED
    BY <1>1, <1>7, <2>1, <2>4 DEF Balanced, q
<1> HIDE DEF m2
<1>12. Grows(m, m2)
  BY <1>0, <1>8, <1>10, GrowsGrows
<1>13. At(e, Root, 0, {}, {}, c) /\ Grows(m, e)
  <2>1. CASE m1.cache[ino].INODE.type = "reg"
    <3>1. At(e, Root, 0, {}, {}, c) /\ Still(m2, e) /\ Seen(e) = Seen(m2)
      BY <1>0, <1>1, <1>3, <1>10, <1>11, <2>1, iputAt
    <3>2. Grows(m2, e)
      BY <1>10, <3>1, StillGrows DEF At, Fine, Good
    <3>3. QED
      BY <1>0, <1>12, <3>1, <3>2, GrowsGrows
  <2>2. CASE ~(m1.cache[ino].INODE.type = "reg")
    BY <1>3, <1>10, <1>12, <2>2
  <2>3. QED
    BY <2>1, <2>2
<1>14. e \in RUN /\ Tree(e)
  BY <1>13 DEF At, Fine, Good
<1>15. copy \in Ino \cup {0}
  BY <1>1, <1>14, getinoIs
<1> HIDE DEF copy
<1>16. CASE Copies(m, t)
  <2>1. copy \in Ino
    BY <1>2, <1>15, <1>16
  <2>2. Took(e, g, copy) /\ g \in RUN
    BY <1>14, <2>1, igetTook
  <2>3. At(g, Root, 0, {}, {}, c) /\ Still(e, g) /\ Seen(g) = Seen(e)
    BY <1>0, <1>13, <2>1, igetAt
  <2>4. g.cache[copy].refCount > 0
    BY <1>14, <2>1, <2>2, RefsAre DEF Took
  <2> HIDE DEF g
  <2> DEFINE r == iput(g, copy)
  <2>5. At(r, Root, 0, {}, {}, c) /\ Still(g, r) /\ Seen(r) = Seen(g)
    BY <1>0, <2>1, <2>3, <2>4, iputAt
  <2> HIDE DEF r
  <2>6. Grows(m, r)
    <3>1. Still(e, r) /\ Seen(r) = Seen(e) /\ r \in RUN
      BY <2>3, <2>5, StillStill DEF At
    <3>2. Grows(e, r)
      BY <1>14, <3>1, StillGrows
    <3>3. QED
      BY <1>0, <1>13, <3>2, GrowsGrows
  <2>7. QED
    BY <1>4, <1>16, <2>5, <2>6 DEF r
<1>17. CASE ~Copies(m, t)
  BY <1>4, <1>13, <1>17
<1>18. QED
  BY <1>16, <1>17

LEMMA mymvAt ==
  ASSUME Small, NEW m, NEW c \in CTX, At(m, Root, 0, {}, {}, c), c.w.doomed = {},
         1 \notin c.claim, m.log = <<>>,
         NEW s, NEW t, Named(s), Named(t), Exists(m, s), HasParent(m, t),
         getino(m, t) = 0 => /\ Copyable(mylink(m, s, t), s, t)
                             /\ Exists(mycp(mylink(m, s, t), s, t), s)
  PROVE  LET r == mymv(m, s, t)
         IN r.blockless \/ At(r, Root, 0, {}, {}, c)
<1> DEFINE ino == getino(m, s)
           from == getino(m, dirname(s))
           to == getino(m, dirname(t))
           l == mylink(m, s, t)
           q == mycp(l, s, t)
           r == myunlink(q, s)
<1>0. /\ m \in RUN /\ Tree(m) /\ 0 \in DEBT
      /\ s \in Seq(Name) /\ dirname(s) \in Seq(Name)
  BY WalkLast DEF At, Fine, Good, DEBT, Named
<1>1. mymv(m, s, t) = IF getino(m, t) # 0 THEN m ELSE r
  BY DEF mymv
<1>2. CASE getino(m, t) # 0
  BY <1>1, <1>2
<1>3. CASE getino(m, t) = 0
  <2>1. /\ ino # 0 /\ from # 0 /\ to # 0 /\ Copyable(l, s, t) /\ getino(q, s) # 0
    BY <1>0, <1>3, WalkLast DEF Exists, HasParent, Named
  <2>2. /\ ino \in Seen(m) /\ from \in Seen(m) /\ basename(s) \in Name
        /\ ino = Kids(m)[from][basename(s)]
        /\ to \in Seen(m) /\ basename(t) \in Name /\ Kids(m)[to][basename(t)] = 0
    BY <1>0, <1>3, <2>1, PathLast
  <2>3. /\ SeenDir(m, ino) => l = iget(m, ino)
        /\ ~SeenDir(m, ino) =>
             \/ l.blockless
             \/ /\ At(l, Root, 0, {}, {}, c) /\ Seen(l) = Seen(m)
                /\ \A e \in Seen(m), x \in Name : Kids(l)[e][x] =
                     IF e = to /\ x = basename(t) THEN ino ELSE Kids(m)[e][x]
                /\ \A e \in Seen(m) : SeenDir(l, e) <=> SeenDir(m, e)
    BY <1>3, <2>1, mylinkAt
  <2>4. l \in RUN
    BY <1>0, <2>1, mylinkRefs
  <2>5. r \in RUN /\ q \in RUN
    BY <2>1, <2>4, mycpIs, myunlinkRefs
  <2> HIDE DEF ino, from, to, l
  <2>6. ASSUME At(l, Root, 0, {}, {}, c), Grows(m, l)
        PROVE  /\ At(q, Root, 0, {}, {}, c) /\ Grows(l, q) /\ Grows(m, q)
               /\ getino(q, s) = ino /\ getino(q, dirname(s)) = from
    <3>1. At(q, Root, 0, {}, {}, c) /\ Grows(l, q)
      BY <2>1, <2>6, mycpAt
    <3> HIDE DEF q
    <3>2. Grows(m, q) /\ Tree(q) /\ q \in RUN
      BY <1>0, <2>6, <3>1, GrowsGrows DEF At, Fine, Good
    <3>3. getino(q, s) = getino(m, s) /\ getino(q, dirname(s)) = getino(m, dirname(s))
      BY <1>0, <2>1, <3>2, GrowsWalk DEF ino, from
    <3>4. QED
      BY <3>1, <3>2, <3>3 DEF ino, from
  <2>7. CASE SeenDir(m, ino)
    <3>1. At(l, Root, 0, {}, {}, c) /\ Still(m, l) /\ Seen(l) = Seen(m)
      BY <1>0, <2>2, <2>3, <2>7, SeenIs, igetAt
    <3>2. Grows(m, l)
      BY <1>0, <2>4, <3>1, StillGrows
    <3>3. At(q, Root, 0, {}, {}, c) /\ Grows(m, q) /\ getino(q, s) = ino
      BY <2>6, <3>1, <3>2
    <3> HIDE DEF q
    <3>4. SeenDir(q, getino(q, s))
      BY <2>2, <2>7, <3>3 DEF Grows
    <3>5. At(r, Root, 0, {}, {}, c)
      BY <2>1, <3>3, <3>4, myunlinkAt
    <3>6. QED
      BY <1>1, <1>3, <3>5 DEF q
  <2>8. CASE ~SeenDir(m, ino) /\ l.blockless
    <3>1. q.blockless
      BY <2>1, <2>4, <2>8, mycpKeeps
    <3> HIDE DEF q
    <3>2. r.blockless
      BY <2>1, <2>5, <3>1, myunlinkKeeps
    <3>3. QED
      BY <1>1, <1>3, <3>2 DEF q
  <2>9. CASE ~SeenDir(m, ino) /\ ~l.blockless
    <3>1. At(l, Root, 0, {}, {}, c) /\ Grows(m, l)
      BY <2>2, <2>3, <2>9 DEF Grows
    <3>2. /\ At(q, Root, 0, {}, {}, c) /\ Grows(l, q) /\ Grows(m, q)
          /\ getino(q, s) = ino /\ getino(q, dirname(s)) = from
      BY <2>6, <3>1
    <3> HIDE DEF q
    <3>3. Kids(l)[to][basename(t)] = ino /\ to \in Seen(l)
      BY <2>2, <2>3, <2>9
    <3>4. Kids(q)[to][basename(t)] = ino /\ to \in Seen(q)
      BY <2>1, <2>2, <3>2, <3>3 DEF Grows
    <3>5. ~(to = from /\ basename(t) = basename(s))
      BY <2>1, <2>2
    <3>6. Elsewhere(q, getino(q, s), getino(q, dirname(s)), basename(s))
      BY <2>2, <3>2, <3>4, <3>5 DEF Elsewhere
    <3>7. At(r, Root, 0, {}, {}, c)
      BY <2>1, <3>2, <3>6, myunlinkAt
    <3>8. QED
      BY <1>1, <1>3, <3>7 DEF q
  <2>10. QED
    BY <2>7, <2>8, <2>9
<1>4. QED
  BY <1>2, <1>3

LEMMA mysymlinkAt ==
  ASSUME NEW m, NEW c \in CTX, At(m, Root, 0, {}, {}, c), c.w.doomed = {},
         NEW old, NEW new, Named(old), Named(new),
         getino(m, old) # 0, getino(m, dirname(new)) # 0,
         View(m, getino(m, dirname(new))).type = "dir",
         getino(m, new) = 0 => FreeIno(m) # 0
  PROVE  At(mysymlink(m, old, new), Root, 0, {}, {}, c)
<1> DEFINE oino == getino(m, old)
           m1 == iget(m, oino)
           m2 == creat_file(m1, new)
           x == FreeIno(m1)
           m3 == iget(m2, x)
           ip == [m3.cache[x].INODE EXCEPT !.type = "lnk"]
           a == Store(m3, x, ip)
           m4 == iput(a, x)
           b == AddLinks(m4, oino, 0)
           r == iput(b, oino)
<1>0. m \in RUN /\ Tree(m) /\ 0 \in DEBT
  BY DEF At, Fine, Good, DEBT
<1>1. oino \in Ino /\ new \in Seq(Name) /\ dirname(new) \in Seq(Name)
  BY <1>0, WalkLast, getinoIs DEF Named
<1>2. mysymlink(m, old, new) = IF getino(m, new) # 0 THEN iget(m1, getino(m, new)) ELSE r
  BY DEF mysymlink
<1>3. /\ m1 \in RUN /\ Took(m, m1, oino) /\ Alike(m, m1) /\ m1.disk = m.disk
      /\ At(m1, Root, 0, {}, {}, c)
  <2> HIDE DEF oino
  <2>1. QED
    BY <1>0, <1>1, igetTook, igetAlike, igetIs, igetAt
<1>4. getino(m1, new) = getino(m, new) /\ getino(m1, dirname(new)) = getino(m, dirname(new))
  <2> HIDE DEF m1
  <2>1. QED
    BY <1>0, <1>1, <1>3, AlikeWalk
<1>5. CASE getino(m, new) # 0
  <2>1. getino(m, new) \in Ino
    BY <1>0, <1>1, <1>5, getinoIs
  <2>2. At(iget(m1, getino(m, new)), Root, 0, {}, {}, c)
    BY <1>0, <1>3, <2>1, igetAt
  <2>3. QED
    BY <1>2, <1>5, <2>2
<1>6. CASE getino(m, new) = 0
  <2>1. x \in Ino
    BY <1>3, <1>6, FreeIs DEF FreeIno
  <2>2. getino(m, dirname(new)) \in Ino
    BY <1>0, <1>1, getinoIs
  <2>3. View(m1, getino(m1, dirname(new))).type = "dir" /\ FreeIno(m1) # 0
    BY <1>3, <1>4, <1>6, <2>2 DEF Alike, FreeIno
  <2>4. m1.cache[oino].refCount > 0
    BY <1>0, <1>1, <1>3, RefsAre DEF Took
  <2>5. /\ m2 \in RUN /\ Balanced(m1, m2) /\ At(m2, Root, 0, {}, {}, c)
        /\ FreeIno(m1) \in Seen(m2) /\ ~SeenDir(m2, FreeIno(m1))
    <3> HIDE DEF oino, m1
    <3>1. /\ m2 \in RUN /\ Balanced(m1, m2)
      BY <1>3, <1>4, <1>6, <2>3, creat_fileRefs
    <3>2. At(m2, Root, 0, {}, {}, c)
      BY <1>3, <1>4, <1>6, <2>3, creat_fileAt
    <3>3. SeenDir(m1, getino(m1, dirname(new))) /\ getino(m1, new) = 0
      BY <1>4, <1>6, <2>3 DEF SeenDir
    <3>4. FreeIno(m1) \in Seen(m2) /\ ~SeenDir(m2, FreeIno(m1))
      BY <1>3, <1>4, <1>6, <2>3, <3>3, creat_fileAt
    <3>5. QED
      BY <3>1, <3>2, <3>4
  <2>6. x \in Seen(m2) /\ ~SeenDir(m2, x)
    BY <2>5
  <2> HIDE DEF oino, m1, m2, x
  <2>7. m3 \in RUN /\ Took(m2, m3, x)
    BY <2>1, <2>5, igetTook
  <2>8. At(m3, Root, 0, {}, {}, c) /\ Still(m2, m3) /\ Seen(m3) = Seen(m2)
    BY <1>0, <2>1, <2>5, igetAt
  <2>9. m3.cache[x].refCount > 0 /\ x \in Seen(m3) /\ ~SeenDir(m3, x)
    BY <2>1, <2>5, <2>6, <2>7, <2>8, RefsAre DEF Took, Still, SeenDir
  <2> HIDE DEF m3
  <2>10. At(a, Root, 0, {}, {}, c) /\ Balanced(m3, a)
    BY <2>1, <2>8, <2>9, LnkAt
  <2> HIDE DEF a
  <2>11. a \in RUN /\ a.cache[x].refCount > 0 /\ Took(m2, a, x)
    <3>1. a \in RUN /\ a.cache[x].refCount > 0
      BY <2>1, <2>9, <2>10 DEF At, Balanced
    <3>2. Took(m2, a, x)
      BY <2>7, <2>10, BalancedTook
    <3>3. QED
      BY <3>1, <3>2
  <2>12. m4 \in RUN /\ Balanced(m2, m4) /\ At(m4, Root, 0, {}, {}, c)
    BY <1>0, <2>1, <2>5, <2>10, <2>11, iputBalanced, iputAt
  <2> HIDE DEF m4
  <2>13. b \in RUN /\ Balanced(m4, b) /\ At(b, Root, 0, {}, {}, c)
    BY <1>0, <1>1, <2>12, AddLinksBalanced, AddZeroAt
  <2>14. b.cache[oino].refCount > 0
    BY <1>1, <2>4, <2>5, <2>12, <2>13 DEF Balanced
  <2> HIDE DEF b
  <2>15. At(r, Root, 0, {}, {}, c)
    BY <1>0, <1>1, <2>13, <2>14, iputAt
  <2>16. QED
    BY <1>2, <1>6, <2>15
<1>7. QED
  BY <1>5, <1>6

\* A directory that is to be removed, seen as one that is doomed.
Doomed(c, i) == [k |-> c.k, w |-> [c.w EXCEPT !.doomed = {i}],
                 claim |-> {}, keep |-> {}]

LEMMA DoomedIs ==
  ASSUME NEW c \in CTX, NEW i \in Ino
  PROVE  LET x == Doomed(c, i)
         IN /\ x \in CTX /\ x.k = c.k /\ x.claim = {} /\ x.keep = {}
            /\ x.w.doomed = {i} /\ x.w.unlinks = c.w.unlinks /\ x.w.again = c.w.again
<1> DEFINE w == [c.w EXCEPT !.doomed = {i}]
<1>1. c.w \in FLAGS /\ c.k \in 0..MaxKill
  BY DEF CTX
<1>2. w \in FLAGS /\ w.doomed = {i} /\ w.unlinks = c.w.unlinks /\ w.again = c.w.again
  BY <1>1 DEF FLAGS
<1> HIDE DEF w
<1>3. QED
  BY <1>1, <1>2 DEF Doomed, CTX, w

LEMMA DoomAt ==
  ASSUME NEW m, NEW c \in CTX, At(m, Root, 0, {}, {}, c), c.w.doomed = {},
         NEW i \in Seen(m), SeenDir(m, i)
  PROVE  At(m, Root, 0, {i}, {View(m, i).block}, Doomed(c, i))
<1> DEFINE x == Doomed(c, i)
           b == View(m, i).block
<1>1. /\ m \in RUN /\ Good(m, Root, 0, c.k, c.w) /\ Tree(m) /\ Marked(m, c.w)
      /\ c.k = 0 => Exact(m, {}, {}, c.w)
  BY DEF At, Fine, Good
<1>2. i \in Ino
  BY <1>1, SeenIs
<1>3. /\ x \in CTX /\ x.k = c.k /\ x.claim = {} /\ x.keep = {}
      /\ x.w.doomed = {i} /\ x.w.unlinks = c.w.unlinks /\ x.w.again = c.w.again
  BY <1>2, DoomedIs
<1> HIDE DEF x
<1>4. Marked(m, x.w)
  BY <1>1, <1>3 DEF Marked
<1>5. Good(m, Root, 0, x.k, x.w)
  BY <1>1, <1>3, <1>4 DEF Good
<1>6. x.k = 0 => Exact(m, {i}, {b}, x.w)
  <2>1. SUFFICES ASSUME Exact(m, {}, {}, c.w) PROVE Exact(m, {i}, {b}, x.w)
    BY <1>1, <1>3
  <2>2. m.disk.imap = (Seen(m) \ x.w.doomed) \cup {i}
    BY <1>3, <2>1 DEF Exact
  <2>3. ASSUME ~x.w.unlinks, NEW y \in Block
        PROVE  y \in m.disk.bmap <=>
                 \/ y \in Metadata \cup {b}
                 \/ \E d \in Seen(m) \ x.w.doomed : SeenDir(m, d) /\ View(m, d).block = y
    BY <1>3, <2>1, <2>3 DEF Exact
  <2>4. QED
    BY <2>2, <2>3 DEF Exact
<1>7. QED
  BY <1>1, <1>3, <1>5, <1>6 DEF At, Fine, LogFine, Settled, x, b
LEMMA myrmdirAt ==
  ASSUME Small, NEW m, NEW c \in CTX, At(m, Root, 0, {}, {}, c), c.w.doomed = {},
         c.claim = {}, c.keep = {}, NEW p, Named(p), getino(m, p) # 0
  PROVE  At(myrmdir(m, p), Root, 0, {}, {}, c)
<1> DEFINE ino == getino(m, p)
           m0 == iget(m, ino)
           m1 == iget(m0, ino)
           b == m1.cache[ino].INODE.block
           m2 == IF b = 0 THEN m1 ELSE bdalloc(m1, b)
           f == idalloc(m2, ino)
           m3 == iput(f, ino)
           pino == getino(m3, dirname(p))
           nm == basename(p)
           a == iget(m3, pino)
           m4 == rm_child(a, pino, nm)
           e == AddLinks(m4, pino, -1)
           d == iput(e, pino)
           up == getino(m, dirname(p))
           x == Doomed(c, ino)
<1>0. m \in RUN /\ Tree(m) /\ 0 \in DEBT /\ -1 \in DEBT
  BY DEF At, Fine, Good, DEBT
<1>1. /\ ino \in Seen(m) \ {Root} /\ up \in Seen(m) /\ nm \in Name
      /\ ino \in Ino /\ up \in Ino /\ SeenDir(m, up) /\ ino = Kids(m)[up][nm]
      /\ dirname(p) \in Seq(Name) /\ up # 0
  <2>1. getino(m, dirname(p)) # 0 /\ dirname(p) \in Seq(Name)
    BY WalkLast DEF Named
  <2>2. QED
    BY <1>0, <2>1, PathLast, SeenIs
<1>2. myrmdir(m, p) = IF ~IsDir(m1, ino) \/ ~is_empty(m1, ino) THEN m1 ELSE d
  BY DEF myrmdir
<1> HIDE DEF ino, nm
<1>3. /\ m0 \in RUN /\ m0.disk = m.disk /\ Took(m, m0, ino)
      /\ m0.cache[ino].INODE = View(m, ino)
  BY <1>0, <1>1, igetTook, igetIs
<1>4. At(m0, Root, 0, {}, {}, c) /\ Still(m, m0) /\ Seen(m0) = Seen(m)
  BY <1>0, <1>1, igetAt
<1> HIDE DEF m0
<1>5. /\ m1 \in RUN /\ m1.disk = m.disk /\ Took(m0, m1, ino)
      /\ m1.cache[ino].INODE = View(m0, ino)
  BY <1>1, <1>3, igetTook, igetIs
<1>6. At(m1, Root, 0, {}, {}, c) /\ Still(m0, m1) /\ Seen(m1) = Seen(m0)
  BY <1>0, <1>1, <1>4, igetAt
<1> HIDE DEF m1
<1>7. Still(m, m1) /\ Seen(m1) = Seen(m) /\ Tree(m1)
  BY <1>4, <1>6, StillStill DEF At, Fine, Good
<1>8. CASE ~IsDir(m1, ino) \/ ~is_empty(m1, ino)
  BY <1>2, <1>6, <1>8
<1>9. CASE ~(~IsDir(m1, ino) \/ ~is_empty(m1, ino))
  <2>1. View(m1, ino) = View(m, ino) /\ m1.cache[ino].INODE = View(m1, ino)
    BY <1>1, <1>4, <1>5, <1>7 DEF Still
  <2>2. SeenDir(m1, ino) /\ b = View(m1, ino).block
    BY <1>9, <2>1 DEF IsDir, SeenDir
  <2>3. b \in Block \ Metadata /\ b # 0
    BY <1>1, <1>7, <2>2, RootIs DEF Tree
  <2>4. \A y \in Name : Kids(m1)[ino][y] = 0
    <3>1. DOMAIN m1.disk.dirs[b].ents = {}
      BY <1>9, <2>3 DEF is_empty
    <3>2. \A y \in Name : Found(m1.disk, b, y) = 0
      BY <3>1 DEF Found
    <3>3. QED
      BY <1>1, <1>5, <2>2, <3>2, KidsAre
  <2>5. /\ x \in CTX /\ x.k = c.k /\ x.claim = {} /\ x.keep = {}
        /\ x.w.doomed = {ino} /\ x.w.unlinks = c.w.unlinks /\ x.w.again = c.w.again
    BY <1>1, DoomedIs
  <2>6. At(m1, Root, 0, {ino}, {b}, x)
    <3>1. ino \in Seen(m1)
      BY <1>1, <1>7
    <3>2. QED
      BY <1>6, <2>2, <3>1, DoomAt
  <2>7. FreesBlock(m1, b, m2)
    BY <1>5, <2>3, bdallocIs
  <2> HIDE DEF x, b
  <2>8. Spare(m1, b, x)
    BY <1>1, <1>7, <2>2, <2>3, <2>5 DEF Spare, Tree
  <2> HIDE DEF m2
  <2>9. At(m2, Root, 0, {ino}, {}, x) /\ Still(m1, m2) /\ Seen(m2) = Seen(m1)
    BY <1>0, <2>5, <2>6, <2>7, <2>8, FreesBlockAt
  <2>10. m2 \in RUN /\ m2.cache = m1.cache
    BY <2>7 DEF FreesBlock, Wrote
  <2>11. Frees(m2, ino, f)
    BY <1>1, <2>10, idallocIs
  <2> HIDE DEF f
  <2>12. At(f, Root, 0, {}, {}, x) /\ Still(m2, f) /\ Seen(f) = Seen(m2)
    BY <1>0, <1>1, <2>5, <2>9, <2>11, FreesAt
  <2>13. f \in RUN /\ f.cache = m1.cache
    BY <2>10, <2>11 DEF Frees, Wrote
  <2>14. f.cache[ino].refCount > 0
    BY <1>1, <1>3, <1>5, <2>13, RefsAre DEF Took
  <2>15. At(m3, Root, 0, {}, {}, x) /\ Still(f, m3) /\ Seen(m3) = Seen(f)
    BY <1>0, <1>1, <2>5, <2>12, <2>14, iputAt
  <2> HIDE DEF m3
  <2>16. /\ m3 \in RUN /\ Tree(m3) /\ Still(m1, m3) /\ Seen(m3) = Seen(m1)
    <3>1. Still(m1, f) /\ Seen(f) = Seen(m1)
      BY <2>9, <2>12, StillStill
    <3>2. QED
      BY <2>15, <3>1, StillStill DEF At, Fine, Good
  <2>17. pino = up
    <3>1. Still(m, m3) /\ Seen(m3) = Seen(m)
      BY <1>7, <2>16, StillStill
    <3>2. Grows(m, m3)
      BY <1>0, <2>16, <3>1, StillGrows
    <3>3. QED
      BY <1>0, <1>1, <2>16, <3>2, GrowsWalk
  <2> HIDE DEF pino, up
  <2>18. a \in RUN /\ Took(m3, a, pino)
    BY <1>1, <2>16, <2>17, igetTook
  <2>19. At(a, Root, 0, {}, {}, x) /\ Still(m3, a) /\ Seen(a) = Seen(m3)
    BY <1>0, <1>1, <2>5, <2>15, <2>17, igetAt
  <2>20. a.cache[pino].refCount > 0
    BY <1>1, <2>16, <2>17, <2>18, RefsAre DEF Took
  <2> HIDE DEF a
  <2>21. Still(m1, a) /\ Seen(a) = Seen(m1) /\ Tree(a)
    BY <2>16, <2>19, StillStill DEF At, Fine, Good
  <2>22. /\ \A g \in Seen(m1) : /\ \A y \in Name : Kids(a)[g][y] = Kids(m1)[g][y]
                                /\ SeenDir(a, g) <=> SeenDir(m1, g)
         /\ \A g \in Seen(m) : /\ \A y \in Name : Kids(m1)[g][y] = Kids(m)[g][y]
                               /\ SeenDir(m1, g) <=> SeenDir(m, g)
    BY <1>0, <1>5, <1>7, <2>18, <2>21, StillKids
  <2>23. /\ SeenDir(a, pino) /\ Kids(a)[pino][nm] = ino /\ SeenDir(a, ino)
         /\ pino \in Seen(a) /\ ino \in Seen(a) /\ \A y \in Name : Kids(a)[ino][y] = 0
    BY <1>1, <1>7, <2>2, <2>4, <2>17, <2>21, <2>22
  <2>24. Removed(a, pino, nm, ino, m4)
    BY <1>1, <2>18, <2>20, <2>21, <2>23, RemovedIs
  <2> HIDE DEF m4
  <2>25. At(m4, pino, -1, {}, {}, c)
    BY <1>1, <2>5, <2>19, <2>23, <2>24, RemoveDirAt
  <2>26. m4.cache[pino].refCount > 0 /\ m4 \in RUN /\ pino \in Ino
    BY <1>1, <2>17, <2>20, <2>24 DEF Removed, Wrote
  <2>27. At(e, Root, 0, {}, {}, c) /\ Balanced(m4, e)
    BY <1>0, <2>25, <2>26, PayAt DEF At
  <2>28. e.cache[pino].refCount > 0
    BY <2>26, <2>27 DEF Balanced
  <2> HIDE DEF e
  <2>29. At(d, Root, 0, {}, {}, c)
    BY <1>0, <2>26, <2>27, <2>28, iputAt
  <2>30. QED
    BY <1>2, <1>9, <2>29
<1>10. QED
  BY <1>8, <1>9

-----------------------------------------------------------------------------
(***************************************************************************)
(* The tree between commands.  Two things are assumed of the constants: a  *)
(* user who unlinks, which unmarks the block that has the number of the    *)
(* inode, makes no directories, and the root's block has no such number;   *)
(* and that the link counts, of 16 bits, can hold all entries.             *)
(***************************************************************************)
Apart == \A s \in Sessions : "unlink" \in s => "mkdir" \notin s /\ RootBlock \notin Ino

Flags == [unlinks |-> "unlink" \in session, again |-> "restart" \in past,
          doomed |-> {}]

Whole ==
  Sound => /\ Good(Now, Root, 0, kills, Flags)
           /\ kills = 0 => Exact(Now, {}, {}, Flags)

\* What the user's commands do not take away.
Kept == IF session \cap {"unlink", "rmdir"} = {} THEN Seen(Now) ELSE {}

Step == Whole' /\ (Sound' => Kept \subseteq Seen(Now'))

\* The run of command n: claimed is the tree after every write at which a kill
\* is not one of those not survived.
Ctx(n) == [k |-> kills, w |-> Flags,
           claim |-> {j \in Nat : Halfway(n, j) = {}}, keep |-> Kept]

LEMMA CtxFits ==
  ASSUME Typed, NEW n
  PROVE  /\ Ctx(n) \in CTX /\ Ctx(n).k = kills /\ Ctx(n).w = Flags
         /\ Ctx(n).w.doomed = {} /\ Ctx(n).w.unlinks = ("unlink" \in session)
         /\ Ctx(n).claim = {j \in Nat : Halfway(n, j) = {}} /\ Ctx(n).keep = Kept
<1>1. Flags \in FLAGS
  BY DEF Flags, FLAGS
<1>2. Kept \in SUBSET Ino
  <2>1. Now \in RUN
    BY StartIs DEF Now
  <2>2. Seen(Now) \in SUBSET Ino
    BY <2>1, SeenIs
  <2>3. QED
    BY <2>2 DEF Kept
<1>3. kills \in 0..MaxKill
  BY DEF Typed
<1> HIDE DEF Kept
<1>4. Ctx(n) \in CTX
  BY <1>1, <1>2, <1>3 DEF Ctx, CTX
<1>5. QED
  BY <1>4 DEF Ctx, Flags

LEMMA StartAt ==
  ASSUME Typed, Whole, Sound, NEW stale \in BOOLEAN, NEW n
  PROVE  At(Start(stale), Root, 0, {}, {}, Ctx(n)) /\ Seen(Start(stale)) = Seen(Now)
<1> DEFINE m == Start(stale)
           c == Ctx(n)
<1>1. m \in RUN /\ m.disk = disk /\ m.cache = cache /\ m.log = <<>>
  BY StartIs
<1>2. Now.disk = disk /\ Now.cache = cache
  BY StartIs DEF Now
<1>3. c.k = kills /\ c.w = Flags /\ c.keep = Kept
  BY CtxFits
<1> HIDE DEF m, c
<1>4. /\ Seen(m) = Seen(Now)
      /\ \A o, v, k, w : Good(Now, o, v, k, w) <=> Good(m, o, v, k, w)
      /\ \A i : View(m, i) = View(Now, i) /\ (SeenDir(m, i) <=> SeenDir(Now, i))
  BY <1>1, <1>2, GoodSame
<1>5. Good(m, Root, 0, c.k, c.w)
  BY <1>3, <1>4 DEF Whole
<1>6. c.k = 0 => Exact(m, {}, {}, c.w)
  BY <1>1, <1>2, <1>3, <1>4 DEF Whole, Exact
<1>7. c.keep \subseteq Seen(m)
  BY <1>3, <1>4 DEF Kept
<1>8. DOMAIN m.log = {}
  BY <1>1
<1>9. QED
  BY <1>1, <1>4, <1>5, <1>6, <1>7, <1>8 DEF At, Fine, LogFine, Settled, m, c

\* The tree that a program sees that is started again on disk d, when the last
\* one had ch in memory.
LEMMA Reboots ==
  ASSUME NEW d \in DISK, NEW ch \in CACHE, Lost(d, ch) = {},
         NEW e, e.disk = d, e.cache = ch, NEW n, n.disk = d, n.cache = BootCache(d),
         NEW k, NEW w \in FLAGS, w.doomed = {}, NEW u \in FLAGS, u.doomed = {},
         u.unlinks = w.unlinks, u.again, Good(e, Root, 0, k, w)
  PROVE  /\ Good(n, Root, 0, k, u) /\ Seen(n) = Seen(e)
         /\ Exact(e, {}, {}, w) => Exact(n, {}, {}, u)
<1> DEFINE m == [disk |-> d, cache |-> ch, log |-> <<>>, stale |-> FALSE,
                 blockless |-> FALSE]
           r == [disk |-> d, cache |-> BootCache(d), log |-> <<>>, stale |-> FALSE,
                 blockless |-> FALSE]
<1>1. m \in RUN /\ m.disk = d /\ m.cache = ch
  BY DEF RUN
<1>2. r \in RUN /\ r.disk = d /\ r.cache = BootCache(d)
  BY BootIs DEF RUN
<1> HIDE DEF m, r
<1>3. Good(m, Root, 0, k, w) /\ Seen(m) = Seen(e)
  BY <1>1, GoodSame
<1>4. /\ Tree(m) /\ Marked(m, w) /\ Clean(m)
      /\ FileCounts(m, Root, 0, k) /\ DirCounts(m, Root, 0, k, w.again)
  BY <1>3 DEF Good
<1>5. \A i \in Ino : View(r, i) = d.itab[i]
  BY <1>2, BootIs DEF View
<1>6. \A i \in Seen(m) \ {Root} : View(m, i) = d.itab[i]
  <2>1. TAKE i \in Seen(m) \ {Root}
  <2>2. i \in d.imap \ {Root}
    BY <1>1, <1>4 DEF Marked
  <2>3. ~(ch[i].refCount > 0 /\ ch[i].INODE # d.itab[i])
    BY <2>2 DEF Lost
  <2>4. QED
    BY <1>1, <2>3 DEF View
<1>7. Rooted(View(m, Root)) /\ Rooted(d.itab[Root])
  BY <1>1, <1>4 DEF Tree, Clean
<1>8. \A i \in Seen(m) : /\ View(r, i).type = View(m, i).type
                         /\ View(r, i).block = View(m, i).block
                         /\ i # Root => View(r, i) = View(m, i)
                         /\ SeenDir(r, i) <=> SeenDir(m, i)
  <2>1. \A i \in Seen(m) \ {Root} : View(r, i) = View(m, i)
    BY <1>1, <1>5, <1>6, SeenIs
  <2>2. View(r, Root).type = View(m, Root).type /\ View(r, Root).block = View(m, Root).block
    BY <1>5, <1>7, RootIs DEF Rooted
  <2>3. QED
    BY <2>1, <2>2 DEF SeenDir
<1>9. Keeps(m, r)
  BY <1>1, <1>2, <1>4, <1>8 DEF Keeps, Tree
<1>10. /\ Tree(r) /\ Seen(r) = Seen(m)
       /\ \A i : Edges(Kids(r), i) = Edges(Kids(m), i)
       /\ \A i \in Seen(m) : Subs(r, i) = Subs(m, i)
  BY <1>1, <1>2, <1>4, <1>9, KeepsTree
<1>11. Marked(r, u)
  BY <1>1, <1>2, <1>4, <1>8, <1>10 DEF Marked
<1>12. Clean(r)
  BY <1>1, <1>2, <1>4, <1>10, BootIs, SeenIs DEF Clean
<1>13. FileCounts(r, Root, 0, k)
  <2>1. SUFFICES ASSUME NEW i \in Seen(m), ~SeenDir(m, i)
                 PROVE  View(r, i).links + Owed(i, Root, 0)
                          - Cardinality(Edges(Kids(m), i)) \in 0..k
    BY <1>8, <1>10 DEF FileCounts
  <2>2. i # Root
    BY <1>7, <2>1 DEF Rooted, SeenDir
  <2>3. QED
    BY <1>4, <1>8, <2>1, <2>2 DEF FileCounts
<1>14. DirCounts(r, Root, 0, k, u.again)
  BY <1>4, <1>8, <1>10 DEF DirCounts, Dots
<1>15. Good(r, Root, 0, k, u)
  BY <1>10, <1>11, <1>12, <1>13, <1>14 DEF Good
<1>16. Good(n, Root, 0, k, u) /\ Seen(n) = Seen(e)
       /\ \A i : View(n, i) = View(r, i) /\ (SeenDir(n, i) <=> SeenDir(r, i))
  BY <1>2, <1>3, <1>10, <1>15, GoodSame
<1>17. \A i : View(m, i) = View(e, i) /\ (SeenDir(m, i) <=> SeenDir(e, i))
  BY <1>1, GoodSame
<1>18. \A i \in Seen(e) : View(n, i).block = View(e, i).block
                          /\ (SeenDir(n, i) <=> SeenDir(e, i))
  BY <1>3, <1>8, <1>16, <1>17
<1>19. Exact(e, {}, {}, w) => Exact(n, {}, {}, u)
  BY <1>16, <1>18 DEF Exact
<1>20. QED
  BY <1>16, <1>19

LEMMA RunWhole ==
  ASSUME Typed, Whole, NEW n, NEW m \in RUN, Run(n, m), session' = session,
         Sound => m.blockless \/ At(m, Root, 0, {}, {}, Ctx(n))
  PROVE  Step
<1> DEFINE c == Ctx(n)
<1>1. past \subseteq past' /\ Blockless(m) \subseteq past'
  BY DEF Run, Restart
<1>2. SUFFICES ASSUME Sound' PROVE Whole' /\ Kept \subseteq Seen(Now')
  BY DEF Step, Whole
<1>3. Sound /\ ~m.blockless
  BY <1>1, <1>2 DEF Sound, Spoiling, Blockless
<1>4. At(m, Root, 0, {}, {}, c)
  BY <1>3
<1>5. /\ c \in CTX /\ c.k = kills /\ c.w = Flags /\ c.w.doomed = {}
      /\ c.w.unlinks = ("unlink" \in session)
      /\ c.claim = {j \in Nat : Halfway(n, j) = {}} /\ c.keep = Kept
  BY CtxFits
<1> HIDE DEF c
<1>6. Good(m, Root, 0, kills, Flags) /\ (kills = 0 => Exact(m, {}, {}, Flags))
      /\ Kept \subseteq Seen(m)
  BY <1>4, <1>5 DEF At, Fine
<1>7. Now'.disk = disk' /\ Now'.cache = cache'
  BY DEF Now, Start
<1>8. CASE /\ disk' = m.disk /\ cache' = m.cache
           /\ past' = past \cup Blockless(m) /\ UNCHANGED kills
  <2>1. Flags' = Flags
    BY <1>8 DEF Flags, Blockless
  <2>2. /\ Seen(Now') = Seen(m)
        /\ Good(Now', Root, 0, kills, Flags)
        /\ \A i : View(Now', i) = View(m, i) /\ (SeenDir(Now', i) <=> SeenDir(m, i))
    BY <1>6, <1>7, <1>8, GoodSame
  <2>3. kills = 0 => Exact(Now', {}, {}, Flags)
    BY <1>6, <1>7, <1>8, <2>2 DEF Exact
  <2>4. QED
    BY <1>6, <1>8, <2>1, <2>2, <2>3 DEF Whole
<1>9. CASE \E j \in DOMAIN m.log :
             /\ Killed
             /\ Restart(m.log[j].disk, m.log[j].cache,
                        Blockless(m) \cup Halfway(n, j))
  <2>1. PICK j \in DOMAIN m.log :
             /\ Killed
             /\ Restart(m.log[j].disk, m.log[j].cache,
                        Blockless(m) \cup Halfway(n, j))
    BY <1>9
  <2> DEFINE e == m.log[j]
  <2>2. e \in WRITE /\ j \in Nat
    BY DEF RUN
  <2>3. Halfway(n, j) \subseteq Spoiling /\ Lost(e.disk, e.cache) \subseteq Spoiling
    BY DEF Halfway, Lost, Spoiling
  <2>4. Halfway(n, j) = {} /\ Lost(e.disk, e.cache) = {}
    BY <1>2, <2>1, <2>3 DEF Sound, Restart
  <2>5. Good(e, Root, 0, kills + 1, Flags) /\ Kept \subseteq Seen(e)
    BY <1>4, <1>5, <2>2, <2>4 DEF At, Fine, LogFine
  <2>6. e.disk \in DISK /\ e.cache \in CACHE /\ kills' = kills + 1
        /\ disk' = e.disk /\ cache' = BootCache(e.disk)
    BY <2>1, <2>2 DEF WRITE, Restart, Killed
  <2> HIDE DEF e
  <2>7. Flags' = [unlinks |-> "unlink" \in session, again |-> TRUE, doomed |-> {}]
    BY <2>1 DEF Flags, Restart
  <2>8. Flags \in FLAGS /\ Flags.doomed = {} /\ Flags' \in FLAGS /\ Flags'.doomed = {}
        /\ Flags'.unlinks = Flags.unlinks /\ Flags'.again
    BY <2>7 DEF Flags, FLAGS
  <2>9. Good(Now', Root, 0, kills + 1, Flags') /\ Seen(Now') = Seen(e)
    BY <1>7, <2>4, <2>5, <2>6, <2>8, Reboots
  <2>10. kills' # 0
    BY <2>6 DEF Typed
  <2>11. QED
    BY <2>5, <2>6, <2>9, <2>10 DEF Whole
<1>10. QED
  BY <1>8, <1>9 DEF Run

-----------------------------------------------------------------------------
(***************************************************************************)
(* Every command leaves a whole tree, also when it is cut short.           *)
(***************************************************************************)
LEMMA CreatStep ==
  ASSUME Typed, Whole, NEW p \in Path, Creat(p), session' = session
  PROVE  Step
<1> DEFINE m == Start(FALSE)
           r == creat_file(m, p)
           c == Ctx("creat")
<1>1. m \in RUN /\ Named(p)
  BY StartIs, PathsNamed
<1>2. Makeable(m, p) /\ Run("creat", r)
  BY DEF Creat
<1>3. getino(m, dirname(p)) # 0 /\ (getino(m, p) = 0 => FreeIno(m) # 0)
  BY <1>2 DEF Makeable, HasParent
<1>4. Sound => At(m, Root, 0, {}, {}, c)
  BY StartAt
<1>5. c \in CTX /\ c.w.doomed = {}
  BY CtxFits
<1> HIDE DEF m, c
<1>6. r \in RUN
  BY <1>1, <1>3, creat_fileRefs
<1>7. Sound => At(r, Root, 0, {}, {}, c)
  BY <1>1, <1>3, <1>4, <1>5, creat_fileAt
<1> HIDE DEF r
<1>8. QED
  BY <1>2, <1>6, <1>7, RunWhole DEF c

LEMMA MkdirStep ==
  ASSUME Small, Apart, Typed, Whole, NEW p \in Path, Mkdir(p), session' = session
  PROVE  Step
<1> DEFINE m == Start(FALSE)
           r == make_dir(m, p)
           c == Ctx("mkdir")
<1>1. m \in RUN /\ Named(p)
  BY StartIs, PathsNamed
<1>2. Makeable(m, p) /\ Run("mkdir", r)
  BY DEF Mkdir
<1>3. getino(m, dirname(p)) # 0 /\ (getino(m, p) = 0 => FreeIno(m) # 0)
  BY <1>2 DEF Makeable, HasParent
<1>4. Sound => At(m, Root, 0, {}, {}, c)
  BY StartAt
<1>5. "unlink" \notin session
  BY <1>2 DEF Run, Typed, Apart
<1>6. c \in CTX /\ c.w.doomed = {} /\ ~c.w.unlinks
  BY <1>5, CtxFits
<1> HIDE DEF m, c
<1>7. r \in RUN
  BY <1>1, <1>3, make_dirRefs
<1>8. Sound => r.blockless \/ At(r, Root, 0, {}, {}, c)
  BY <1>1, <1>3, <1>4, <1>6, make_dirAt
<1> HIDE DEF r
<1>9. QED
  BY <1>2, <1>7, <1>8, RunWhole DEF c

LEMMA LinkStep ==
  ASSUME Small, Typed, Whole, NEW p \in Path, NEW q \in Path, Link(p, q),
         session' = session
  PROVE  Step
<1> DEFINE m == Start(FALSE)
           r == mylink(m, p, q)
           c == Ctx("link")
<1>1. m \in RUN /\ m.log = <<>> /\ Named(p) /\ Named(q)
  BY StartIs, PathsNamed
<1>2. Exists(m, p) /\ HasParent(m, q) /\ Run("link", r)
  BY DEF Link
<1>3. getino(m, p) # 0 /\ getino(m, dirname(q)) # 0
  BY <1>2 DEF Exists, HasParent
<1>4. Sound => At(m, Root, 0, {}, {}, c)
  BY StartAt
<1>5. c \in CTX /\ c.w.doomed = {} /\ 1 \notin c.claim
  BY CtxFits DEF Halfway
<1> HIDE DEF m, c
<1>6. r \in RUN
  BY <1>1, <1>3, mylinkRefs
<1>7. ASSUME Sound PROVE r.blockless \/ At(r, Root, 0, {}, {}, c)
  <2>1. At(m, Root, 0, {}, {}, c)
    BY <1>4, <1>7
  <2>2. CASE SeenDir(m, getino(m, p)) \/ getino(m, q) # 0
    <3>1. r = iget(m, getino(m, p))
      BY <1>1, <1>3, <1>5, <2>1, <2>2, mylinkAt
    <3>2. getino(m, p) \in Ino
      <4>1. Tree(m)
        BY <2>1 DEF At, Fine, Good
      <4>2. QED
        BY <1>1, <1>3, <4>1, PathSeen, SeenIs DEF Named
    <3>3. 0 \in DEBT
      BY DEF DEBT
    <3>4. At(iget(m, getino(m, p)), Root, 0, {}, {}, c)
      BY <1>5, <2>1, <3>2, <3>3, igetAt
    <3>5. QED
      BY <3>1, <3>4
  <2>3. CASE ~(SeenDir(m, getino(m, p)) \/ getino(m, q) # 0)
    BY <1>1, <1>3, <1>5, <2>1, <2>3, mylinkAt
  <2>4. QED
    BY <2>2, <2>3
<1> HIDE DEF r
<1>8. QED
  BY <1>2, <1>6, <1>7, RunWhole DEF c

LEMMA UnlinkStep ==
  ASSUME Small, Apart, Typed, Whole, NEW p \in Path, Unlink(p), session' = session
  PROVE  Step
<1>1. PICK stale \in BOOLEAN :
        /\ Exists(Start(stale), p)
        /\ Run("unlink", myunlink(Start(stale), p))
  BY DEF Unlink
<1> DEFINE m == Start(stale)
           r == myunlink(m, p)
           c == Ctx("unlink")
<1>2. m \in RUN /\ Named(p) /\ getino(m, p) # 0
  BY <1>1, StartIs, PathsNamed DEF Exists
<1>3. Sound => At(m, Root, 0, {}, {}, c)
  BY StartAt
<1>4. "unlink" \in session /\ RootBlock \notin Ino
  BY <1>1 DEF Run, Typed, Apart
<1>5. c \in CTX /\ c.w.doomed = {} /\ c.w.unlinks /\ c.keep = {}
  BY <1>4, CtxFits DEF Kept
<1>6. Run("unlink", r)
  BY <1>1
<1> HIDE DEF m, c
<1>7. r \in RUN
  BY <1>2, myunlinkRefs
<1>8. Sound => At(r, Root, 0, {}, {}, c)
  BY <1>2, <1>3, <1>4, <1>5, myunlinkAt
<1> HIDE DEF r
<1>9. QED
  BY <1>6, <1>7, <1>8, RunWhole DEF c

LEMMA SymlinkStep ==
  ASSUME Typed, Whole, NEW p \in Path, NEW q \in Path, Symlink(p, q),
         session' = session
  PROVE  Step
<1> DEFINE m == Start(FALSE)
           r == mysymlink(m, p, q)
           c == Ctx("symlink")
<1>1. m \in RUN /\ Named(p) /\ Named(q)
  BY StartIs, PathsNamed
<1>2. /\ Exists(m, p) /\ Makeable(m, q)
      /\ View(m, getino(m, dirname(q))).type = "dir" /\ Run("symlink", r)
  BY DEF Symlink
<1>3. /\ getino(m, p) # 0 /\ getino(m, dirname(q)) # 0
      /\ getino(m, q) = 0 => FreeIno(m) # 0
  BY <1>2 DEF Exists, Makeable, HasParent
<1>4. Sound => At(m, Root, 0, {}, {}, c)
  BY StartAt
<1>5. c \in CTX /\ c.w.doomed = {}
  BY CtxFits
<1> HIDE DEF m, c
<1>6. r \in RUN
  BY <1>1, <1>2, <1>3, mysymlinkRefs
<1>7. Sound => At(r, Root, 0, {}, {}, c)
  BY <1>1, <1>2, <1>3, <1>4, <1>5, mysymlinkAt
<1> HIDE DEF r
<1>8. QED
  BY <1>2, <1>6, <1>7, RunWhole DEF c

LEMMA RmdirStep ==
  ASSUME Small, Typed, Whole, NEW p \in Path, Rmdir(p), session' = session
  PROVE  Step
<1> DEFINE m == Start(FALSE)
           r == myrmdir(m, p)
           c == Ctx("rmdir")
<1>1. m \in RUN /\ Named(p)
  BY StartIs, PathsNamed
<1>2. Exists(m, p) /\ Run("rmdir", r)
  BY DEF Rmdir
<1>3. getino(m, p) # 0
  BY <1>2 DEF Exists
<1>4. Sound => At(m, Root, 0, {}, {}, c)
  BY StartAt
<1>5. "rmdir" \in session
  BY <1>2 DEF Run
<1>6. c \in CTX /\ c.w.doomed = {} /\ c.claim = {} /\ c.keep = {}
  BY <1>5, CtxFits DEF Halfway, Kept
<1> HIDE DEF m, c
<1>7. r \in RUN
  BY <1>1, <1>3, myrmdirRefs
<1>8. Sound => At(r, Root, 0, {}, {}, c)
  BY <1>1, <1>3, <1>4, <1>6, myrmdirAt
<1> HIDE DEF r
<1>9. QED
  BY <1>2, <1>7, <1>8, RunWhole DEF c

LEMMA CpStep ==
  ASSUME Typed, Whole, NEW p \in Path, NEW q \in Path, Cp(p, q), session' = session
  PROVE  Step
<1> DEFINE m == Start(FALSE)
           r == mycp(m, p, q)
           c == Ctx("cp")
<1>1. m \in RUN /\ Named(p) /\ Named(q)
  BY StartIs, PathsNamed
<1>2. Copyable(m, p, q) /\ Run("cp", r)
  BY DEF Cp
<1>3. Sound => At(m, Root, 0, {}, {}, c)
  BY StartAt
<1>4. c \in CTX /\ c.w.doomed = {}
  BY CtxFits
<1> HIDE DEF m, c
<1>5. r \in RUN
  BY <1>1, <1>2, mycpIs
<1>6. Sound => At(r, Root, 0, {}, {}, c)
  BY <1>1, <1>2, <1>3, <1>4, mycpAt
<1> HIDE DEF r
<1>7. QED
  BY <1>2, <1>5, <1>6, RunWhole DEF c

LEMMA MvStep ==
  ASSUME Small, Typed, Whole, NEW p \in Path, NEW d \in Path \cup {<<>>}, Mv(p, d),
         session' = session
  PROVE  Step
<1>1. PICK t \in {Append(d, basename(p)), d \o p} :
        /\ Exists(Start(FALSE), p) /\ HasParent(Start(FALSE), t)
        /\ getino(Start(FALSE), t) = 0 =>
             /\ Copyable(mylink(Start(FALSE), p, t), p, t)
             /\ Exists(mycp(mylink(Start(FALSE), p, t), p, t), p)
        /\ Run("mv", mymv(Start(FALSE), p, t))
  BY DEF Mv
<1> DEFINE m == Start(FALSE)
           r == mymv(m, p, t)
           c == Ctx("mv")
<1>2. m \in RUN /\ m.log = <<>> /\ Named(p) /\ Named(t)
  BY StartIs, PathsNamed
<1>3. Sound => At(m, Root, 0, {}, {}, c)
  BY StartAt
<1>4. c \in CTX /\ c.w.doomed = {} /\ 1 \notin c.claim
  BY CtxFits DEF Halfway
<1>5. Run("mv", r)
  BY <1>1
<1> HIDE DEF m, c
<1>6. /\ Exists(m, p) /\ HasParent(m, t)
      /\ getino(m, t) = 0 => /\ Copyable(mylink(m, p, t), p, t)
                             /\ Exists(mycp(mylink(m, p, t), p, t), p)
  BY <1>1 DEF m
<1>7. r \in RUN
  BY <1>2, <1>6, mymvIs
<1>8. Sound => r.blockless \/ At(r, Root, 0, {}, {}, c)
  BY <1>2, <1>3, <1>4, <1>6, mymvAt
<1> HIDE DEF r
<1>9. QED
  BY <1>5, <1>7, <1>8, RunWhole DEF c

\* quit, and a kill outside the commands: some of the inodes are written.
LEMMA FlushGood ==
  ASSUME Typed, NEW S \in SUBSET Flushed, NEW k, NEW w, Good(Now, Root, 0, k, w)
  PROVE  \E e \in RUN :
           /\ e.disk = Flush(S) /\ e.cache = cache
           /\ Good(e, Root, 0, k, w) /\ Seen(e) = Seen(Now)
           /\ \A L, B : Exact(Now, L, B, w) => Exact(e, L, B, w)
<1> DEFINE m == Now
           e == [disk |-> Flush(S), cache |-> cache, log |-> <<>>, stale |-> FALSE,
                 blockless |-> FALSE]
<1>1. m \in RUN /\ m.disk = disk /\ m.cache = cache
  BY StartIs DEF Now
<1>2. Flush(S) \in DISK
  BY FlushTyped
<1>3. e \in RUN /\ e.disk = Flush(S) /\ e.cache = cache
  BY <1>2 DEF Typed, RUN
<1>4. /\ Flush(S).imap = disk.imap /\ Flush(S).bmap = disk.bmap
      /\ Flush(S).dirs = disk.dirs
      /\ \A i \in Ino : Flush(S).itab[i] = IF i \in S THEN cache[i].INODE
                                           ELSE disk.itab[i]
  BY DEF Flush, Typed, DISK
<1>5. Good(m, Root, 0, k, w)
  OBVIOUS
<1> HIDE DEF m, e
<1>6. \A i \in S : i \in Ino /\ cache[i].refCount = 1 /\ cache[i].dirty
  BY DEF Flushed
<1>7. \A i \in Ino : View(e, i) = View(m, i)
  BY <1>1, <1>3, <1>4, <1>6 DEF View
<1>8. Seen(m) \subseteq Ino /\ Root \in Ino
  BY <1>1, SeenIs, RootIs
<1>9. Still(m, e)
  BY <1>1, <1>3, <1>4, <1>7, <1>8 DEF Still, Found
<1>10. /\ Seen(m) \ w.doomed \subseteq e.disk.imap
       /\ \A i \in Seen(m) \ w.doomed : SeenDir(m, i) => View(m, i).block \in e.disk.bmap
       /\ ~w.unlinks => Metadata \subseteq e.disk.bmap
  BY <1>1, <1>3, <1>4, <1>5 DEF Good, Marked
<1>11. Rooted(e.disk.itab[Root])
  <2>1. CASE Root \in S
    <3>1. e.disk.itab[Root] = View(m, Root)
      BY <1>1, <1>3, <1>4, <1>6, <1>8, <2>1 DEF View
    <3>2. QED
      BY <1>5, <3>1 DEF Good, Tree
  <2>2. CASE Root \notin S
    BY <1>1, <1>3, <1>4, <1>5, <1>8, <2>2 DEF Good, Clean
  <2>3. QED
    BY <2>1, <2>2
<1>12. ASSUME NEW i \in Seen(m), e.cache[i].refCount > 0, ~e.cache[i].dirty
       PROVE  e.cache[i].INODE = e.disk.itab[i]
  <2>1. i \notin S
    BY <1>3, <1>6, <1>12
  <2>2. cache[i].INODE = disk.itab[i]
    BY <1>1, <1>3, <1>5, <1>12 DEF Good, Clean
  <2>3. QED
    BY <1>3, <1>4, <1>8, <2>1, <2>2
<1>13. Good(e, Root, 0, k, w) /\ Seen(e) = Seen(m)
  BY <1>1, <1>3, <1>5, <1>9, <1>10, <1>11, <1>12, StillGood
<1>14. \A L, B : Exact(m, L, B, w) => Exact(e, L, B, w)
  BY <1>1, <1>3, <1>4, <1>9, <1>13, SameExact
<1>15. QED
  BY <1>3, <1>13, <1>14 DEF m

LEMMA QuitStep ==
  ASSUME Typed, Whole, Quit \/ Kill, session' = session
  PROVE  Step
<1>1. PICK S \in SUBSET Flushed : Restart(Flush(S), cache, {})
  BY DEF Quit, Kill
<1>2. kills' = kills \/ kills' = kills + 1
  BY DEF Quit, Kill, Killed
<1>3. SUFFICES ASSUME Sound' PROVE Whole' /\ Kept \subseteq Seen(Now')
  BY DEF Step, Whole
<1>4. Lost(Flush(S), cache) \subseteq Spoiling
  BY DEF Lost, Spoiling
<1>5. Sound /\ Lost(Flush(S), cache) = {}
  BY <1>1, <1>3, <1>4 DEF Sound, Restart
<1>6. Good(Now, Root, 0, kills, Flags) /\ (kills = 0 => Exact(Now, {}, {}, Flags))
  BY <1>5 DEF Whole
<1>7. Flags' = [unlinks |-> "unlink" \in session, again |-> TRUE, doomed |-> {}]
  BY <1>1 DEF Flags, Restart
<1>8. Flags \in FLAGS /\ Flags.doomed = {} /\ Flags' \in FLAGS /\ Flags'.doomed = {}
      /\ Flags'.unlinks = Flags.unlinks /\ Flags'.again
  BY <1>7 DEF Flags, FLAGS
<1>9. PICK e \in RUN :
        /\ e.disk = Flush(S) /\ e.cache = cache
        /\ Good(e, Root, 0, kills, Flags) /\ Seen(e) = Seen(Now)
        /\ \A L, B : Exact(Now, L, B, Flags) => Exact(e, L, B, Flags)
  BY <1>6, FlushGood
<1>10. Flush(S) \in DISK /\ cache \in CACHE
  BY FlushTyped DEF Typed
<1>11. Now'.disk = Flush(S) /\ Now'.cache = BootCache(Flush(S))
  BY <1>1 DEF Now, Start, Restart
<1>12. kills \in Nat
  BY NamespaceAssumption DEF Typed
<1>13. Kept \subseteq Seen(e)
  BY <1>9 DEF Kept
<1>14. CASE kills' = kills
  <2>1. /\ Good(Now', Root, 0, kills, Flags') /\ Seen(Now') = Seen(e)
        /\ Exact(e, {}, {}, Flags) => Exact(Now', {}, {}, Flags')
    BY <1>5, <1>8, <1>9, <1>10, <1>11, Reboots
  <2>2. kills = 0 => Exact(Now', {}, {}, Flags')
    BY <1>6, <1>9, <2>1
  <2>3. QED
    BY <1>13, <1>14, <2>1, <2>2 DEF Whole
<1>15. CASE kills' = kills + 1
  <2>1. Good(e, Root, 0, kills + 1, Flags)
    BY <1>9, <1>12, Weaken
  <2>2. Good(Now', Root, 0, kills + 1, Flags') /\ Seen(Now') = Seen(e)
    BY <1>5, <1>8, <1>9, <1>10, <1>11, <2>1, Reboots
  <2>3. kills' # 0
    BY <1>12, <1>15
  <2>4. QED
    BY <1>13, <1>15, <2>2, <2>3 DEF Whole
<1>16. QED
  BY <1>2, <1>14, <1>15

LEMMA NextStep ==
  ASSUME Small, Apart, Typed, Whole, [Next]_vars
  PROVE  Step
<1>1. CASE UNCHANGED vars
  <2>1. Now' = Now /\ kills' = kills /\ Flags' = Flags /\ past' = past
    BY <1>1 DEF vars, Now, Start, Flags
  <2>2. Whole' /\ Seen(Now') = Seen(Now)
    BY <2>1 DEF Whole, Sound
  <2>3. QED
    BY <2>2 DEF Step, Kept
<1>2. CASE Next
  <2>0. session' = session
    BY <1>2 DEF Next
  <2>1. CASE \E p \in Path : Creat(p)
    BY <2>0, <2>1, CreatStep
  <2>2. CASE \E p \in Path : Mkdir(p)
    BY <2>0, <2>2, MkdirStep
  <2>3. CASE \E p, q \in Path : Link(p, q)
    BY <2>0, <2>3, LinkStep
  <2>4. CASE \E p \in Path : Unlink(p)
    BY <2>0, <2>4, UnlinkStep
  <2>5. CASE \E p, q \in Path : Symlink(p, q)
    BY <2>0, <2>5, SymlinkStep
  <2>6. CASE \E p \in Path : Rmdir(p)
    BY <2>0, <2>6, RmdirStep
  <2>7. CASE \E p, q \in Path : Cp(p, q)
    BY <2>0, <2>7, CpStep
  <2>8. CASE \E p \in Path, d \in Path \cup {<<>>} : Mv(p, d)
    BY <2>0, <2>8, MvStep
  <2>9. CASE Quit \/ Kill
    BY <2>0, <2>9, QuitStep
  <2>10. QED
    BY <1>2, <2>1, <2>2, <2>3, <2>4, <2>5, <2>6, <2>7, <2>8, <2>9 DEF Next
<1>3. QED
  BY <1>1, <1>2

\* On the fresh file system there is the root only.
LEMMA InitWhole == Init => Whole
<1> SUFFICES ASSUME Init PROVE Whole
  OBVIOUS
<1> DEFINE m == Now
<1>1. Typed
  BY InitTyped
<1>2. m \in RUN /\ m.disk = FreshDisk /\ m.cache = BootCache(FreshDisk)
      /\ kills = 0 /\ past = {}
  BY <1>1, StartIs DEF Init, Now
<1>3. FreshDisk \in DISK
  BY <1>1 DEF Init, Typed
<1>4. /\ FreshDisk.imap = {Root} /\ FreshDisk.bmap = Metadata \cup {RootBlock}
      /\ FreshDisk.itab[Root] = [type |-> "dir", links |-> 2, block |-> RootBlock]
      /\ \A b \in Block \cup {0} : FreshDisk.dirs[b].ents = <<>>
  BY RootIs DEF FreshDisk, EmptyDir
<1>5. \A i \in Ino : BootCache(FreshDisk)[i].refCount > 0 =>
                       i = Root /\ BootCache(FreshDisk)[i].INODE = FreshDisk.itab[i]
  BY <1>3, BootIs
<1> HIDE DEF m
<1>6. View(m, Root) = [type |-> "dir", links |-> 2, block |-> RootBlock]
  BY <1>2, <1>4, <1>5, RootIs DEF View
<1>7. \A b \in Block, nm \in Name : Found(m.disk, b, nm) = 0
  BY <1>2, <1>4 DEF Found
<1>8. RootBlock \in Block \ Metadata
  BY NamespaceAssumption
<1>9. \A nm \in Name : Kids(m)[Root][nm] = 0
  BY <1>2, <1>6, <1>7, <1>8, KidsAre, RootIs
<1>10. Seen(m) = {Root}
  <2>1. Closed(Kids(m), {Root})
    BY <1>9 DEF Closed
  <2>2. Seen(m) \subseteq {Root}
    BY <2>1, RootIs, ReachLeast DEF Seen
  <2>3. QED
    BY <1>2, <2>2, SeenIs
<1>11. SeenDir(m, Root) /\ Subs(m, Root) = {}
  BY <1>6, <1>9 DEF SeenDir, Subs
<1>12. Tree(m)
  BY <1>6, <1>8, <1>9, <1>10, <1>11 DEF Tree, Rooted
<1>13. Marked(m, Flags)
  <2>1. Flags.doomed = {}
    BY DEF Flags
  <2>2. QED
    BY <1>2, <1>4, <1>6, <1>10, <1>11, <2>1 DEF Marked
<1>14. Clean(m)
  BY <1>2, <1>4, <1>5, <1>10, RootIs DEF Clean, Rooted
<1>15. FileCounts(m, Root, 0, kills)
  BY <1>10, <1>11 DEF FileCounts
<1>16. DirCounts(m, Root, 0, kills, Flags.again)
  <2>1. Dots(m, Root) = 2
    BY <1>11, FS_EmptySet DEF Dots
  <2>2. View(m, Root).links = (Dots(m, Root) - Owed(Root, Root, 0) - 0) % LinkMod
    BY <1>6, <2>1, LinksIs DEF Owed
  <2>3. 0 \in 0..kills
    BY <1>2
  <2>4. QED
    BY <1>10, <2>2, <2>3 DEF DirCounts
<1>17. Good(m, Root, 0, kills, Flags)
  BY <1>12, <1>13, <1>14, <1>15, <1>16 DEF Good
<1>18. Exact(m, {}, {}, Flags)
  <2>1. Flags.doomed = {}
    BY DEF Flags
  <2>2. QED
    BY <1>2, <1>4, <1>6, <1>10, <1>11, <2>1 DEF Exact
<1>19. QED
  BY <1>17, <1>18 DEF Whole, m

LEMMA AlwaysWhole ==
  ASSUME Small, Apart
  PROVE  Spec => []Typed /\ []Whole /\ [][Step]_vars
<1>1. Init => Typed /\ Whole
  BY InitTyped, InitWhole
<1>2. Typed /\ Whole /\ [Next]_vars => Typed' /\ Whole' /\ [Step]_vars
  BY NextTyped, NextStep DEF Step
<1>3. QED
  BY <1>1, <1>2, PTL DEF Spec

-----------------------------------------------------------------------------
(***************************************************************************)
(* The walk from the root that the properties make sees that tree.         *)
(***************************************************************************)
LEMMA EntsKids ==
  ASSUME Typed, NEW d \in Ino
  PROVE  /\ \A nm : nm \in DOMAIN Ents(d) <=> nm \in Name /\ Kids(Now)[d][nm] # 0
         /\ \A nm \in DOMAIN Ents(d) : Ents(d)[nm] = Kids(Now)[d][nm]
<1>1. Now \in RUN /\ Now.disk = disk
  BY StartIs DEF Now
<1>2. Look(d) = View(Now, d) /\ Look(d).block \in Block \cup {0} /\ disk \in DISK
  BY <1>1, ViewIs DEF Look, INODE, RUN
<1>3. \A nm \in Name : Kids(Now)[d][nm] =
        IF SeenDir(Now, d) THEN Found(disk, Look(d).block, nm) ELSE 0
  BY <1>1, <1>2, KidsAre
<1>4. CASE SeenDir(Now, d) /\ Look(d).block # 0
  <2>1. Ents(d) = disk.dirs[Look(d).block].ents
    BY <1>2, <1>4 DEF Ents, SeenDir
  <2>2. /\ \A nm : Found(disk, Look(d).block, nm) # 0 => nm \in Name
        /\ \A nm : nm \in DOMAIN Ents(d) <=> Found(disk, Look(d).block, nm) # 0
        /\ \A nm \in DOMAIN Ents(d) : Ents(d)[nm] = Found(disk, Look(d).block, nm)
    BY <1>2, <1>4, <2>1, FoundIs
  <2>3. QED
    BY <1>3, <1>4, <2>2
<1>5. CASE ~(SeenDir(Now, d) /\ Look(d).block # 0)
  <2>1. Ents(d) = <<>>
    BY <1>2, <1>5 DEF Ents, SeenDir
  <2>2. \A nm \in Name : Kids(Now)[d][nm] = 0
    BY <1>3, <1>5 DEF Found
  <2>3. DOMAIN Ents(d) = {}
    BY <2>1
  <2>4. QED
    BY <2>2, <2>3
<1>6. QED
  BY <1>4, <1>5

LEMMA BelowIs ==
  ASSUME Typed, NEW A \in SUBSET Ino
  PROVE  /\ A \subseteq Below(A) /\ Below(A) \in SUBSET Ino
         /\ \A d \in A, nm \in Name : Kids(Now)[d][nm] \in Below(A) \cup {0}
         /\ \A B : A \subseteq B /\ (\A d \in A, nm \in Name : Kids(Now)[d][nm] \in B \cup {0})
                     => Below(A) \subseteq B
<1> DEFINE K == Kids(Now)
<1>1. K \in GRAPH
  BY StartIs, KidsAre DEF Now
<1>2. \A d \in A : /\ \A nm : nm \in DOMAIN Ents(d) <=> nm \in Name /\ K[d][nm] # 0
                   /\ \A nm \in DOMAIN Ents(d) : Ents(d)[nm] = K[d][nm]
  BY EntsKids
<1> HIDE DEF K
<1>3. \A x : x \in Below(A) <=>
        x \in A \/ \E d \in A : \E nm \in DOMAIN Ents(d) : x = Ents(d)[nm]
  BY DEF Below
<1>4. \A x : x \in Below(A) <=>
        x \in A \/ \E d \in A : \E nm \in Name : K[d][nm] # 0 /\ x = K[d][nm]
  BY <1>2, <1>3
<1>5. Below(A) \in SUBSET Ino
  BY <1>1, <1>4 DEF GRAPH
<1>6. \A d \in A, nm \in Name : K[d][nm] \in Below(A) \cup {0}
  BY <1>4
<1>7. ASSUME NEW B, A \subseteq B, \A d \in A, nm \in Name : K[d][nm] \in B \cup {0}
      PROVE  Below(A) \subseteq B
  BY <1>4, <1>7
<1>8. QED
  BY <1>4, <1>5, <1>6, <1>7 DEF K

\* w has what Reachable has found after so many rounds.
Rounds(n, w) ==
  w = [k \in 0..n |-> IF k = 0 THEN {Root} ELSE Below(w[k - 1])]

LEMMA RoundsExist ==
  ASSUME NEW N \in Nat
  PROVE  \E w : Rounds(N, w)
<1> DEFINE S == {n \in Nat : ~\E w : Rounds(n, w)}
<1>1. SUFFICES ASSUME S # {} PROVE FALSE
  OBVIOUS
<1>2. PICK n \in S : \A l \in S : n <= l
  <2>1. S \in SUBSET Nat
    OBVIOUS
  <2> HIDE DEF S
  <2>2. QED
    BY <1>1, <2>1, Least
<1>3. n \in Nat /\ ~\E w : Rounds(n, w)
  OBVIOUS
<1>4. CASE n = 0
  <2> DEFINE w == [k \in 0..0 |-> {Root}]
  <2>1. w = [k \in 0..0 |-> IF k = 0 THEN {Root} ELSE Below(w[k - 1])]
    OBVIOUS
  <2> HIDE DEF w
  <2>2. Rounds(0, w)
    BY <2>1 DEF Rounds
  <2>3. QED
    BY <1>3, <1>4, <2>2
<1>5. CASE n # 0
  <2>1. n - 1 \in Nat /\ ~(n <= n - 1)
    BY <1>3, <1>5
  <2>2. n - 1 \notin S
    <3> HIDE DEF S
    <3>1. QED
      BY <1>2, <2>1
  <2>3. PICK g : Rounds(n - 1, g)
    BY <2>1, <2>2
  <2> DEFINE next(k) == IF k = 0 THEN {Root} ELSE Below(g[k - 1])
             w == [k \in 0..n |-> next(k)]
  <2>4. \A k \in 0..(n - 1) : g[k] = next(k)
    BY <2>3 DEF Rounds
  <2>5. \A k \in 0..(n - 1) : w[k] = g[k]
    <3>1. \A k \in 0..(n - 1) : k \in 0..n
      BY <2>1
    <3> HIDE DEF next
    <3>2. QED
      BY <2>4, <3>1
  <2>6. \A k \in 0..n : k # 0 => k - 1 \in 0..(n - 1)
    BY <1>3
  <2>7. \A k \in 0..n : next(k) = IF k = 0 THEN {Root} ELSE Below(w[k - 1])
    <3> HIDE DEF w
    <3>1. QED
      BY <2>5, <2>6
  <2>8. Rounds(n, w)
    <3>1. w = [k \in 0..n |-> next(k)]
      OBVIOUS
    <3> HIDE DEF w, next
    <3>2. QED
      BY <2>7, <3>1 DEF Rounds
  <2> HIDE DEF w
  <2>9. QED
    BY <1>3, <2>8
<1>6. QED
  BY <1>4, <1>5

LEMMA RoundsStep ==
  ASSUME NEW N \in Nat, NEW w, Rounds(N, w)
  PROVE  w[0] = {Root} /\ \A k \in 1..N : w[k] = Below(w[k - 1])
<1>1. w = [k \in 0..N |-> IF k = 0 THEN {Root} ELSE Below(w[k - 1])]
  BY DEF Rounds
<1>2. 0 \in 0..N /\ \A k \in 1..N : k \in 0..N /\ k # 0
  OBVIOUS
<1>3. QED
  BY <1>1, <1>2

\* Every round that does not end the search adds an inode, and there are no
\* more of them than rounds.
LEMMA ReachableSeen ==
  ASSUME Typed
  PROVE  Reachable = Seen(Now)
<1> DEFINE N == Cardinality(Ino)
           K == Kids(Now)
           v == CHOOSE w : Rounds(N, w)
           Ended(A) == \A d \in A, nm \in Name : K[d][nm] \in A \cup {0}
           Fits(k) == /\ v[k] \in SUBSET Seen(Now) /\ Root \in v[k]
                      /\ Ended(v[k]) \/ Cardinality(v[k]) >= k + 1
           S == {k \in 0..N : ~Fits(k)}
<1>1. N \in Nat /\ IsFiniteSet(Ino)
  BY NamespaceAssumption, FS_CardinalityType
<1>2. Rounds(N, v)
  <2> HIDE DEF N
  <2>1. \E w : Rounds(N, w)
    BY <1>1, RoundsExist
  <2>2. QED
    BY <2>1
<1>3. Reachable = v[N]
  BY DEF Reachable, Rounds
<1>4. K \in GRAPH /\ Seen(Now) = Reach(K) /\ Seen(Now) \subseteq Ino /\ Root \in Seen(Now)
  BY StartIs, KidsAre, SeenIs DEF Now, Seen
<1>5. \A A \in SUBSET Ino :
        /\ A \subseteq Below(A) /\ Below(A) \in SUBSET Ino
        /\ \A d \in A, nm \in Name : K[d][nm] \in Below(A) \cup {0}
        /\ \A B : A \subseteq B /\ (\A d \in A, nm \in Name : K[d][nm] \in B \cup {0})
                     => Below(A) \subseteq B
  BY BelowIs
<1> HIDE DEF N, v, K
<1>6. v[0] = {Root} /\ \A k \in 1..N : v[k] = Below(v[k - 1])
  BY <1>1, <1>2, RoundsStep
<1>7. Closed(K, Seen(Now))
  BY <1>4, ReachIs
<1>8. S = {}
  <2>1. SUFFICES ASSUME S # {} PROVE FALSE
    OBVIOUS
  <2>2. PICK n \in S : \A l \in S : n <= l
    <3>1. S \in SUBSET Nat
      BY <1>1
    <3> HIDE DEF S
    <3>2. QED
      BY <2>1, <3>1, Least
  <2>3. n \in 0..N /\ ~Fits(n)
    OBVIOUS
  <2>4. n # 0
    <3>1. Cardinality({Root}) = 1
      BY FS_Singleton
    <3>2. v[0] \in SUBSET Seen(Now) /\ Root \in v[0] /\ Cardinality(v[0]) >= 0 + 1
      BY <1>4, <1>6, <3>1
    <3>3. QED
      BY <2>3, <3>2
  <2>5. n - 1 \in 0..N /\ ~(n <= n - 1) /\ n \in 1..N
    BY <1>1, <2>3, <2>4
  <2>6. Fits(n - 1)
    <3>1. n - 1 \notin S
      <4> HIDE DEF S
      <4>1. QED
        BY <2>2, <2>5
    <3> HIDE DEF Fits
    <3>2. QED
      BY <2>5, <3>1
  <2> DEFINE A == v[n - 1]
  <2>7. A \in SUBSET Seen(Now) /\ A \in SUBSET Ino /\ Root \in A
    BY <1>4, <2>6
  <2>8. v[n] = Below(A)
    BY <1>6, <2>5
  <2>9. Ended(A) \/ Cardinality(A) >= n
    BY <2>5, <2>6
  <2> HIDE DEF A, Fits, Ended
  <2>10. A \subseteq Below(A) /\ Below(A) \in SUBSET Ino
         /\ \A d \in A, nm \in Name : K[d][nm] \in Below(A) \cup {0}
    BY <1>5, <2>7
  <2>11. Below(A) \subseteq Seen(Now)
    <3>1. \A d \in A, nm \in Name : K[d][nm] \in Seen(Now) \cup {0}
      BY <1>7, <2>7 DEF Closed
    <3>2. QED
      BY <1>5, <2>7, <3>1
  <2>12. CASE Ended(A)
    <3>1. Below(A) = A
      <4>1. Below(A) \subseteq A
        BY <1>5, <2>7, <2>12 DEF Ended
      <4>2. QED
        BY <2>10, <4>1
    <3>2. QED
      BY <2>3, <2>7, <2>8, <2>12, <3>1 DEF Fits
  <2>13. CASE ~Ended(A)
    <3>1. Below(A) # A
      BY <2>10, <2>13 DEF Ended
    <3>2. PICK x \in Below(A) : x \notin A
      BY <2>10, <3>1
    <3>3. IsFiniteSet(A) /\ IsFiniteSet(Below(A))
      BY <1>1, <2>7, <2>10, FS_Subset
    <3>4. IsFiniteSet(A \cup {x}) /\ Cardinality(A \cup {x}) = Cardinality(A) + 1
      BY <3>2, <3>3, FS_AddElement
    <3>5. Cardinality(A \cup {x}) <= Cardinality(Below(A))
      <4>1. A \cup {x} \in SUBSET Below(A)
        BY <2>10, <3>2
      <4>2. QED
        BY <3>3, <4>1, FS_Subset
    <3>6. Cardinality(A) \in Nat /\ Cardinality(Below(A)) \in Nat
      BY <3>3, FS_CardinalityType
    <3>7. Cardinality(Below(A)) >= n + 1
      BY <2>5, <2>9, <2>13, <3>4, <3>5, <3>6
    <3>8. QED
      BY <2>3, <2>7, <2>8, <2>10, <2>11, <3>7 DEF Fits
  <2>14. QED
    BY <2>12, <2>13
<1>9. Fits(N)
  <2>1. N \in 0..N
    BY <1>1
  <2> HIDE DEF Fits
  <2>2. QED
    BY <1>8, <2>1
<1>10. Ended(v[N])
  <2>1. v[N] \in SUBSET Ino
    BY <1>4, <1>9
  <2>2. Cardinality(v[N]) <= N /\ Cardinality(v[N]) \in Nat
    BY <1>1, <2>1, FS_Subset, FS_CardinalityType DEF N
  <2>3. ~(Cardinality(v[N]) >= N + 1)
    BY <1>1, <2>2
  <2>4. QED
    BY <1>9, <2>3
<1>11. Seen(Now) \subseteq v[N]
  BY <1>4, <1>9, <1>10, ReachLeast DEF Closed
<1>12. QED
  BY <1>3, <1>9, <1>11

LEMMA DirsSeen ==
  ASSUME Typed
  PROVE  /\ Reachable = Seen(Now) /\ Seen(Now) \subseteq Ino /\ Root \in Seen(Now)
         /\ Dirs = {i \in Seen(Now) : SeenDir(Now, i)}
         /\ \A i : Look(i) = View(Now, i)
         /\ \A i \in Ino : Entries(i) = Edges(Kids(Now), i)
         /\ \A d \in Ino : SubDirs(d) = Subs(Now, d)
<1> DEFINE K == Kids(Now)
           R == Seen(Now)
<1>1. Now \in RUN /\ R = Reach(K) /\ K \in GRAPH
  BY StartIs, KidsAre DEF Now, Seen
<1>2. Reachable = R /\ R \subseteq Ino /\ Root \in R
  BY <1>1, ReachableSeen, SeenIs
<1>3. \A i : Look(i) = View(Now, i)
  BY DEF Look
<1>4. Dirs = {i \in R : SeenDir(Now, i)}
  BY <1>2, <1>3 DEF Dirs, SeenDir
<1>5. \A d \in Ino : /\ \A nm : nm \in DOMAIN Ents(d) <=> nm \in Name /\ K[d][nm] # 0
                     /\ \A nm \in DOMAIN Ents(d) : Ents(d)[nm] = K[d][nm]
  BY EntsKids
<1>6. \A d \in Ino, nm \in Name : K[d][nm] # 0 => SeenDir(Now, d)
  BY <1>1, KidsAre
<1> HIDE DEF K, R
<1>7. ASSUME NEW i \in Ino PROVE Entries(i) = Edges(K, i)
  <2>1. i # 0
    BY RootIs
  <2>2. \A e : e \in Entries(i) <=>
          \E d \in Dirs : \E nm \in {x \in DOMAIN Ents(d) : Ents(d)[x] = i} : e = <<d, nm>>
    BY DEF Entries
  <2>3. \A d \in R : \A nm : d \in Dirs /\ nm \in {x \in DOMAIN Ents(d) : Ents(d)[x] = i}
                           <=> nm \in Name /\ K[d][nm] = i
    BY <1>2, <1>4, <1>5, <1>6, <2>1
  <2>4. \A e : e \in Entries(i) <=>
          \E d \in R : \E nm \in Name : K[d][nm] = i /\ e = <<d, nm>>
    <3>1. Dirs \subseteq R
      BY <1>4
    <3>2. QED
      BY <2>2, <2>3, <3>1
  <2>5. \A e : e \in Edges(K, i) <=>
          \E d \in R : \E nm \in Name : K[d][nm] = i /\ e = <<d, nm>>
    BY <1>1 DEF Edges
  <2>6. QED
    BY <2>4, <2>5
<1>8. ASSUME NEW d \in Ino PROVE SubDirs(d) = Subs(Now, d)
  <2>1. \A nm : nm \in SubDirs(d) <=>
          nm \in DOMAIN Ents(d) /\ SeenDir(Now, Ents(d)[nm])
    BY <1>3 DEF SubDirs, SeenDir
  <2>2. \A nm : nm \in Subs(Now, d) <=>
          nm \in Name /\ K[d][nm] # 0 /\ SeenDir(Now, K[d][nm])
    BY DEF Subs, K
  <2>3. \A nm : nm \in SubDirs(d) <=> nm \in Subs(Now, d)
    BY <1>5, <2>1, <2>2
  <2>4. QED
    BY <2>3
<1>9. QED
  BY <1>2, <1>3, <1>4, <1>7, <1>8 DEF K, R

LEMMA WholeNoDangling == Typed /\ Whole => NoDangling
<1> SUFFICES ASSUME Typed, Whole, Sound
             PROVE  \A i \in Reachable : i \in disk.imap /\ Look(i).type # "none"
  BY DEF NoDangling
<1>1. Tree(Now) /\ Marked(Now, Flags) /\ Now.disk = disk /\ Flags.doomed = {}
  BY StartIs DEF Whole, Good, Now, Flags
<1>2. QED
  BY <1>1, DirsSeen DEF Tree, Marked

LEMMA WholeTree == Typed /\ Whole => TreeShape
<1> SUFFICES ASSUME Typed, Whole, Sound
             PROVE  /\ \A i \in Dirs \ {Root} :
                         /\ Cardinality(Entries(i)) = 1
                         /\ \A e \in Entries(i) : disk.dirs[Look(i).block].parent = e[1]
                    /\ \A i, j \in Dirs :
                         /\ Look(i).block \in disk.bmap \ Metadata
                         /\ Look(i).block = Look(j).block => i = j
  BY DEF TreeShape
<1>1. Tree(Now) /\ Marked(Now, Flags) /\ Now.disk = disk /\ Flags.doomed = {}
  BY StartIs DEF Whole, Good, Now, Flags
<1>2. Now \in RUN /\ Kids(Now) \in GRAPH
  BY StartIs, KidsAre DEF Now
<1>3. /\ Dirs = {i \in Seen(Now) : SeenDir(Now, i)} /\ Seen(Now) \subseteq Ino
      /\ \A i : Look(i) = View(Now, i)
      /\ \A i \in Ino : Entries(i) = Edges(Kids(Now), i)
  BY DirsSeen
<1>4. ASSUME NEW i \in Dirs \ {Root}
      PROVE  /\ Cardinality(Entries(i)) = 1
             /\ \A e \in Entries(i) : disk.dirs[Look(i).block].parent = e[1]
  <2>1. i \in Seen(Now) /\ i # Root /\ SeenDir(Now, i) /\ i \in Ino /\ i # 0
    BY <1>3, RootIs
  <2>2. PICK d \in Seen(Now), a \in Name : Kids(Now)[d][a] = i
    BY <1>2, <2>1, ReachParent DEF Seen
  <2>3. /\ disk.dirs[View(Now, i).block].parent = d
        /\ Edges(Kids(Now), i) = {<<d, a>>}
    BY <1>1, <2>1, <2>2 DEF Tree
  <2>4. Entries(i) = {<<d, a>>}
    BY <1>3, <2>1, <2>3
  <2>5. Cardinality(Entries(i)) = 1
    BY <2>4, FS_Singleton
  <2>6. QED
    BY <1>3, <2>3, <2>4, <2>5
<1>5. \A i, j \in Dirs : /\ Look(i).block \in disk.bmap \ Metadata
                         /\ Look(i).block = Look(j).block => i = j
  BY <1>1, <1>3 DEF Tree, Marked
<1>6. QED
  BY <1>4, <1>5

LEMMA WholeFileLinks == Typed /\ Whole => FileLinks
<1> SUFFICES ASSUME Typed, Whole, Sound, NEW i \in Reachable \ Dirs
             PROVE  Look(i).links \in
                      Cardinality(Entries(i))..(Cardinality(Entries(i)) + kills)
  BY DEF FileLinks
<1>1. Now \in RUN /\ FileCounts(Now, Root, 0, kills)
  BY StartIs DEF Whole, Good, Now
<1>2. /\ i \in Seen(Now) /\ ~SeenDir(Now, i) /\ i \in Ino
      /\ Look(i) = View(Now, i) /\ Entries(i) = Edges(Kids(Now), i)
  BY DirsSeen
<1> DEFINE n == Cardinality(Entries(i))
           l == Look(i).links
<1>3. n \in Nat
  BY <1>1, <1>2, EdgesFinite
<1>4. l \in Nat
  BY <1>1, <1>2, LinksOf
<1>5. l + 0 - n \in 0..kills
  BY <1>1, <1>2 DEF FileCounts, Owed
<1>6. kills \in Nat
  BY NamespaceAssumption DEF Typed
<1> HIDE DEF n, l
<1>7. l \in n..(n + kills)
  BY <1>3, <1>4, <1>5, <1>6
<1>8. QED
  BY <1>7 DEF n, l

LEMMA WholeDirLinks == Typed /\ Whole => DirLinks
<1> SUFFICES ASSUME Typed, Whole, Sound, NEW d \in Dirs,
                    d # Root \/ "restart" \notin past
             PROVE  \E j \in 0..kills :
                      Look(d).links = ((2 + Cardinality(SubDirs(d))) - j) % LinkMod
  BY DEF DirLinks
<1>1. DirCounts(Now, Root, 0, kills, Flags.again)
  BY DEF Whole, Good
<1>2. /\ d \in Seen(Now) /\ SeenDir(Now, d) /\ d \in Ino
      /\ Look(d) = View(Now, d) /\ SubDirs(d) = Subs(Now, d)
  BY DirsSeen
<1>3. Flags.again = ("restart" \in past)
  BY DEF Flags
<1>4. PICK j \in 0..kills :
        View(Now, d).links = (Dots(Now, d) - Owed(d, Root, 0) - j) % LinkMod
  BY <1>1, <1>2, <1>3 DEF DirCounts
<1>5. Dots(Now, d) = 2 + Cardinality(SubDirs(d)) /\ Cardinality(SubDirs(d)) \in Nat
  BY <1>2, SubsFinite DEF Dots
<1>6. Dots(Now, d) - Owed(d, Root, 0) - j = (2 + Cardinality(SubDirs(d))) - j
  <2>1. Owed(d, Root, 0) = 0 /\ j \in Int
    BY DEF Owed
  <2>2. QED
    BY <1>5, <2>1
<1>7. QED
  BY <1>2, <1>4, <1>6

LEMMA WholeNoLeak == Typed /\ Whole => NoInodeLeak /\ BlocksExact
<1> SUFFICES ASSUME Typed, Whole, Sound, kills = 0
             PROVE  /\ disk.imap = Reachable
                    /\ "unlink" \notin session =>
                         disk.bmap = Metadata \cup {Look(d).block : d \in Dirs}
  BY DEF NoInodeLeak, BlocksExact
<1>1. Exact(Now, {}, {}, Flags) /\ Tree(Now)
  BY DEF Whole, Good
<1>2. /\ Flags.doomed = {} /\ Flags.unlinks = ("unlink" \in session)
      /\ Now.disk = disk /\ disk.bmap \subseteq Block
  BY StartIs DEF Flags, Now, Typed, DISK
<1>3. /\ Reachable = Seen(Now) /\ Dirs = {i \in Seen(Now) : SeenDir(Now, i)}
      /\ \A i : Look(i) = View(Now, i)
  BY DirsSeen
<1>4. disk.imap = Reachable
  BY <1>1, <1>2, <1>3 DEF Exact
<1>5. ASSUME "unlink" \notin session
      PROVE  disk.bmap = Metadata \cup {Look(d).block : d \in Dirs}
  <2>1. \A b \in Block : b \in disk.bmap <=>
          b \in Metadata \/ \E d \in Seen(Now) : SeenDir(Now, d) /\ View(Now, d).block = b
    BY <1>1, <1>2, <1>5 DEF Exact
  <2>2. \A d \in Dirs : Look(d).block \in Block
    BY <1>1, <1>3 DEF Tree
  <2>3. Metadata \subseteq Block
    BY NamespaceAssumption
  <2>4. \A b \in Block : b \in disk.bmap <=>
          b \in Metadata \/ \E d \in Dirs : Look(d).block = b
    BY <1>3, <2>1
  <2>5. QED
    BY <1>2, <2>2, <2>3, <2>4
<1>6. QED
  BY <1>4, <1>5

-----------------------------------------------------------------------------
(***************************************************************************)
(* What holds of the tree of every file system                             *)
(***************************************************************************)
\* An entry never names an inode that is free or was never written.
THEOREM NeverDangling ==
  ASSUME Small, Apart PROVE Spec => []NoDangling
<1>1. QED
  BY AlwaysWhole, WholeNoDangling, PTL

\* The directories always form a tree, in blocks of their own that are marked.
THEOREM AlwaysTree ==
  ASSUME Small, Apart PROVE Spec => []TreeOK
<1>1. Typed /\ Whole => TreeOK
  BY TypedTypeOK, WholeTree DEF TreeOK
<1>2. QED
  BY <1>1, AlwaysWhole, PTL

\* A file has as many links as its inode counts, or by the kills fewer.
THEOREM FilesCounted ==
  ASSUME Small, Apart PROVE Spec => []FileLinks
<1>1. QED
  BY AlwaysWhole, WholeFileLinks, PTL

\* A directory's link count is that of its "." and its subdirectories' "..",
\* or by the kills smaller.
THEOREM DirsCounted ==
  ASSUME Small, Apart PROVE Spec => []DirLinks
<1>1. QED
  BY AlwaysWhole, WholeDirLinks, PTL

\* While the process is not killed the inodes marked are those of the tree:
\* what a command takes it puts into the tree or gives back.
THEOREM NoInodeLeaks ==
  ASSUME Small, Apart PROVE Spec => []NoInodeLeak
<1>1. QED
  BY AlwaysWhole, WholeNoLeak, PTL

\* While the process is not killed the blocks marked are the metadata and those
\* of the directories, unless files are unlinked.
THEOREM BlocksMarked ==
  ASSUME Small, Apart PROVE Spec => []BlocksExact
<1>1. QED
  BY AlwaysWhole, WholeNoLeak, PTL

\* What the tree has it keeps, unless the user removes it: no kill takes away
\* a name that a mv has not replaced yet.
THEOREM NothingGone ==
  ASSUME Small, Apart PROVE Spec => NeverGone
<1> DEFINE Sees == Reachable = Seen(Now)
<1>1. Typed => Sees
  BY DirsSeen
<1>2. Sees /\ Sees' /\ [Step]_vars =>
        [Sound' /\ session \cap {"unlink", "rmdir"} = {} =>
           Reachable \subseteq Reachable']_vars
  BY DEF Step, Kept
<1> HIDE DEF Sees
<1>3. QED
  BY <1>1, <1>2, AlwaysWhole, PTL DEF NeverGone
=============================================================================
