------------------------------ MODULE FileData ------------------------------
(***************************************************************************)
(* Where the blocks of a file are: the block map as myread follows it, as  *)
(* mywrite extends it, and cp, which reads one file with the first and     *)
(* writes another with the second (read_cat.c, write_cp_mv.c).             *)
(*                                                                         *)
(* A block is a function from its PTRS pointers' places to numbers; a      *)
(* block of data holds the same number, a token, in each.  A file is a     *)
(* number of whole blocks: the commands read and write at multiples of the *)
(* block size only.  NDIR and PTRS are 12 and 256 in the code.             *)
(***************************************************************************)
EXTENDS Integers, Sequences, FiniteSets

CONSTANTS
  NDIR, PTRS,   \* direct blocks of an inode, pointers in a block
  Block,        \* block numbers, 0 (the boot block) among them
  File,         \* inodes of regular files
  Images,       \* the file systems there may be at the start: disk, bmap, itab
  MaxKill       \* bound on how often the process is killed

Cell    == 0..(PTRS - 1)
BLKSIZE == 4 * PTRS
IND     == NDIR          \* i_block[12]
DIND    == NDIR + 1      \* i_block[13]
Zero    == [c \in Cell |-> 0]

ASSUME FileDataAssumption ==
  /\ NDIR \in Nat \ {0} /\ PTRS \in Nat \ {0, 1} /\ MaxKill \in Nat
  /\ 0 \in Block /\ Block \subseteq Nat

INODE == [used : BOOLEAN, size : Nat, i_block : [0..DIND -> Nat]]
Blank == [used |-> FALSE, size |-> 0, i_block |-> [k \in 0..DIND |-> 0]]

(***************************************************************************)
(* A file system as mke2fs and the commands of ext2 leave it: d, m and V   *)
(* are its blocks, its bitmap and its inodes.                              *)
(***************************************************************************)
\* The longest file without a double indirect block.
Single == NDIR + PTRS

\* Block numbers are those of marked blocks, wherever they are.  A word of a
\* file's data names no free block: the model's data are tokens.
Marked(d, m, V) ==
  /\ \A f \in DOMAIN V : \A k \in 0..DIND : V[f].i_block[k] \in m \cup {0}
  /\ \A b \in Block, c \in Cell : d[b][c] \in Block => d[b][c] \in m \cup {0}

\* File f has its blocks for itself: what leads to one leads to no other, and
\* is the only number of that block in an inode or a block.
Sole(d, m, V, f) ==
  /\ \A k \in 0..IND : k < V[f].size =>
       /\ V[f].i_block[k] \in m
       /\ \A g \in DOMAIN V : \A j \in 0..DIND :
            V[g].i_block[j] = V[f].i_block[k] => g = f /\ j = k
       /\ \A b \in Block, c \in Cell : d[b][c] # V[f].i_block[k]
  /\ \A c \in Cell : NDIR + c < V[f].size =>
       LET x == d[V[f].i_block[IND]][c] IN
       /\ x \in m
       /\ \A g \in DOMAIN V : \A j \in 0..DIND : V[g].i_block[j] # x
       /\ \A b \in Block, e \in Cell :
            d[b][e] = x => b = V[f].i_block[IND] /\ e = c

ASSUME ImagesAssumption ==
  \A im \in Images :
    /\ im.disk \in [Block -> [Cell -> Nat]] /\ im.bmap \subseteq Block \ {0}
    /\ im.itab \in [File -> INODE] /\ Marked(im.disk, im.bmap, im.itab)
    /\ \A f \in File :
         IF im.itab[f].used
         THEN /\ im.itab[f].size <= Single + PTRS * PTRS
              /\ im.itab[f].size <= Single => Sole(im.disk, im.bmap, im.itab, f)
         ELSE im.itab[f] = Blank

VARIABLES
  disk,     \* the blocks
  bmap,     \* those marked in use
  itab,     \* the inodes on disk
  job,      \* the cp under way, with the inode it has in memory
  want,     \* history: what a complete copy in each file would hold
  full,     \* history: the files a balloc failed for
  kills     \* how often the process was killed

vars == <<disk, bmap, itab, job, want, full, kills>>

NoJob == [on |-> FALSE, src |-> 0, dst |-> 0, offset |-> 0, ip |-> Blank]

\* Beyond the last block nothing is read or written.
At(d, b) == IF b \in Block THEN d[b] ELSE Zero
Put(d, b, x) == IF b \in Block THEN [d EXCEPT ![b] = x] ELSE d

-----------------------------------------------------------------------------
(***************************************************************************)
(* The block map                                                           *)
(***************************************************************************)
\* A faulty variant: one block too many is taken to be direct.
BlockRead_Direct(d, ip, lbk) ==
  IF lbk <= NDIR THEN ip.i_block[lbk]
  ELSE IF lbk < NDIR + PTRS THEN At(d, ip.i_block[IND])[lbk - NDIR]
  ELSE 0

\* myread: which block holds logical block lbk of inode ip.
BlockRead(d, ip, lbk) ==
  IF lbk < NDIR THEN ip.i_block[lbk]
  ELSE IF lbk < NDIR + PTRS THEN At(d, ip.i_block[IND])[lbk - NDIR]
  ELSE LET k    == lbk - (NDIR + PTRS)
           dblk == At(d, ip.i_block[DIND])[k \div PTRS]
       IN At(d, dblk)[k % PTRS]

\* What the format says, for any other program that reads the file
\* (EXT2_NDIR_BLOCKS, EXT2_IND_BLOCK and EXT2_DIND_BLOCK of ext2_fs.h).
BlockExt2(d, ip, lbk) ==
  IF lbk \in 0..(NDIR - 1) THEN ip.i_block[lbk]
  ELSE IF lbk - NDIR \in Cell
  THEN IF ip.i_block[IND] = 0 THEN 0 ELSE At(d, ip.i_block[IND])[lbk - NDIR]
  ELSE LET k  == lbk - NDIR - PTRS
           l1 == ip.i_block[DIND]
           l2 == IF l1 = 0 THEN 0 ELSE At(d, l1)[k \div PTRS]
       IN IF l2 = 0 THEN 0 ELSE At(d, l2)[k % PTRS]

Contents(d, ip) == [k \in 1..ip.size |-> At(d, BlockRead(d, ip, k - 1))]

\* The blocks an inode leads to, pointer blocks included, with the way to each.
Reached(d, ip) ==
  {<<"data", k, BlockRead(d, ip, k)>> : k \in 0..(ip.size - 1)}
    \cup (IF ip.size > NDIR THEN {<<"map", 0, ip.i_block[IND]>>} ELSE {})
    \cup (IF ip.size > NDIR + PTRS THEN {<<"map", 1, ip.i_block[DIND]>>} ELSE {})

-----------------------------------------------------------------------------
(***************************************************************************)
(* mywrite, of one block.  w is the disk, the bitmap and the inode on the  *)
(* way; got is the block a step ends with.                                 *)
(***************************************************************************)
First(S) == CHOOSE b \in S : \A c \in S : b <= c
Free(w)  == Block \ ({0} \cup w.bmap)

\* A faulty variant: the bit is not set.
balloc_Unmarked(w) ==
  IF Free(w) = {} THEN [w EXCEPT !.got = 0, !.full = TRUE]
  ELSE [w EXCEPT !.got = First(Free(w))]

\* balloc returns 0 when no block is free, and mywrite goes on with that.
balloc(w) ==
  IF Free(w) = {} THEN [w EXCEPT !.got = 0, !.full = TRUE]
  ELSE [w EXCEPT !.got = First(Free(w)), !.bmap = @ \cup {First(Free(w))}]

\* The block of pointers in i_block[k], allocated and cleared if there is none.
PointerBlock(w, k) ==
  IF w.ip.i_block[k] # 0 THEN [w EXCEPT !.got = w.ip.i_block[k]]
  ELSE LET a == balloc(w)
       IN [a EXCEPT !.ip.i_block[k] = a.got, !.disk = Put(@, a.got, Zero)]

\* The block that place c of pointer block b names, allocated if it is 0.
Pointed(w, b, c) ==
  IF At(w.disk, b)[c] # 0 THEN [w EXCEPT !.got = At(w.disk, b)[c]]
  ELSE LET a == balloc(w)
       IN [a EXCEPT !.disk = Put(@, b, [At(a.disk, b) EXCEPT ![c] = a.got])]

\* From NDIR + PTRS on the place is counted from another origin, and in
\* bytes where pointers are meant; the block of pointers there is not
\* allocated, so that it is block 0.
BlockWrite(w, lbk) ==
  IF lbk < NDIR
  THEN IF w.ip.i_block[lbk] # 0 THEN [w EXCEPT !.got = w.ip.i_block[lbk]]
       ELSE LET a == balloc(w) IN [a EXCEPT !.ip.i_block[lbk] = a.got]
  ELSE IF lbk < NDIR + PTRS
  THEN LET p == PointerBlock(w, IND) IN Pointed(p, p.got, lbk - NDIR)
  ELSE LET p == PointerBlock(w, DIND)
           k == lbk - (NDIR - BLKSIZE)
       IN Pointed(p, At(p.disk, p.got)[k \div BLKSIZE], k % PTRS)

\* A faulty variant: the size stays one block behind.
mywrite_Behind(w, lbk, data) ==
  LET b == BlockWrite(w, lbk)
  IN [b EXCEPT !.disk = Put(@, b.got, data), !.ip.size = lbk]

mywrite(w, lbk, data) ==
  LET b == BlockWrite(w, lbk)
  IN [b EXCEPT !.disk = Put(@, b.got, data),
               !.ip.size = IF lbk + 1 > @ THEN lbk + 1 ELSE @]

-----------------------------------------------------------------------------
(***************************************************************************)
(* cp: a step for what comes before the loop, one for each turn of it, and *)
(* one for what comes after.  The inode of the copy is written to disk by  *)
(* the last step only.                                                     *)
(***************************************************************************)
Init ==
  /\ \E im \in Images : disk = im.disk /\ bmap = im.bmap /\ itab = im.itab
  /\ job = NoJob
  /\ want = [f \in File |-> Contents(disk, itab[f])]
  /\ full = {} /\ kills = 0

\* creat_file fails if the name exists: the copy is a new inode.
mycp(s, t) ==
  /\ ~job.on /\ itab[s].used /\ ~itab[t].used
  /\ itab' = [itab EXCEPT ![t].used = TRUE]
  /\ job' = [on |-> TRUE, src |-> s, dst |-> t, offset |-> 0, ip |-> itab'[t]]
  /\ want' = [want EXCEPT ![t] = Contents(disk, itab[s])]
  /\ UNCHANGED <<disk, bmap, full, kills>>

\* A faulty variant: the offset of the source is not advanced.
CopyBlock_Stuck ==
  /\ job.on /\ job.offset < itab[job.src].size
  /\ LET data == At(disk, BlockRead(disk, itab[job.src], job.offset))
         w == mywrite([disk |-> disk, bmap |-> bmap, ip |-> job.ip, got |-> 0,
                       full |-> FALSE], job.offset, data)
     IN /\ disk' = w.disk /\ bmap' = w.bmap /\ job' = [job EXCEPT !.ip = w.ip]
        /\ full' = IF w.full THEN full \cup {job.dst} ELSE full
  /\ UNCHANGED <<itab, want, kills>>

CopyBlock ==
  /\ job.on /\ job.offset < itab[job.src].size
  /\ LET data == At(disk, BlockRead(disk, itab[job.src], job.offset))
         w == mywrite([disk |-> disk, bmap |-> bmap, ip |-> job.ip, got |-> 0,
                       full |-> FALSE], job.offset, data)
     IN /\ disk' = w.disk /\ bmap' = w.bmap
        /\ job' = [job EXCEPT !.ip = w.ip, !.offset = @ + 1]
        /\ full' = IF w.full THEN full \cup {job.dst} ELSE full
  /\ UNCHANGED <<itab, want, kills>>

\* Both descriptors are closed, which writes the inode.
CopyEnd ==
  /\ job.on /\ job.offset = itab[job.src].size
  /\ itab' = [itab EXCEPT ![job.dst] = job.ip]
  /\ job' = NoJob
  /\ UNCHANGED <<disk, bmap, want, full, kills>>

\* The process is killed; the bitmap and the blocks stay as they are.
Kill ==
  /\ job.on /\ kills < MaxKill /\ kills' = kills + 1
  /\ job' = NoJob
  /\ UNCHANGED <<disk, bmap, itab, want, full>>

\* Every file exists and nothing is being copied.
Done == ~job.on /\ (\A f \in File : itab[f].used) /\ UNCHANGED vars

Next == (\E s, t \in File : mycp(s, t)) \/ CopyBlock \/ CopyEnd \/ Kill \/ Done

\* The loop of a cp runs for as long as the process does.
Spec == Init /\ [][Next]_vars /\ WF_vars(CopyBlock \/ CopyEnd)

-----------------------------------------------------------------------------
(***************************************************************************)
(* Properties                                                              *)
(***************************************************************************)
\* The inodes, the one in memory included.
Files   == {f \in File : itab[f].used}

\* Those there was room for, and that need no double indirect block: a copy
\* that does has its pointers in block 0.
Fit     == {f \in Files \ full : Len(want[f]) <= NDIR + PTRS}
View(f) == IF job.on /\ job.dst = f THEN job.ip ELSE itab[f]

TypeOK ==
  /\ disk \in [Block -> [Cell -> Nat]] /\ bmap \subseteq Block \ {0}
  /\ itab \in [File -> INODE] /\ job.ip \in INODE
  /\ job.on \in BOOLEAN /\ job.offset \in Nat
  /\ full \subseteq File /\ kills \in 0..MaxKill

\* On disk a copy is empty or complete, whenever the process is killed and
\* however many indirect blocks the copy needs, if there was room for it.
AllOrNothing ==
  \A f \in Fit : Contents(disk, itab[f]) \in {<<>>, want[f]}

\* No block is reached in two ways, from one file or from two, none is the
\* boot block, and each is marked.
BlocksOwn ==
  /\ \A f \in Fit : \A r \in Reached(disk, View(f)) : r[3] \in bmap
  /\ \A f, g \in Fit :
       \A r \in Reached(disk, View(f)), s \in Reached(disk, View(g)) :
         r[3] = s[3] => f = g /\ r = s

\* The state is well typed, and the blocks of the files are their own.
BlocksOK == TypeOK /\ BlocksOwn

\* Other programs find the blocks of a file where this one does.
ReadsAsExt2 ==
  \A f \in Fit : \A k \in 0..(View(f).size - 1) :
    BlockRead(disk, View(f), k) = BlockExt2(disk, View(f), k)

\* A cp comes to an end, on a full disk too, if the process lives.
CpEnds == job.on ~> ~job.on
=============================================================================
