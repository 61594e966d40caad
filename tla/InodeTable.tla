----------------------------- MODULE InodeTable -----------------------------
(***************************************************************************)
(* Where iget and iput find an inode on the disk.  The other modules take  *)
(* the disk for a function from inode numbers to inodes; here it is bytes, *)
(* and the program computes from the number the block and the place in it. *)
(* mount_root looks at the magic number of the superblock and at the place *)
(* of the first group's inode table, never at the size of an inode nor at  *)
(* the number of groups.                                                   *)
(***************************************************************************)
EXTENDS Integers, FiniteSets

CONSTANTS
  Inodes,      \* s_inodes_count
  InodeSize,   \* s_inode_size
  PerGroup,    \* s_inodes_per_group
  Table,       \* bg_inode_table of each group, from group 0
  Blocks,      \* s_blocks_count
  Content,     \* what an inode can hold
  Made,        \* what mke2fs wrote into each
  Rest,        \* what is in the bytes that are no struct ext2_inode
  Used,        \* the inodes the commands are about
  MaxHeld      \* bound on the inodes in memory at a time

BLKSIZE == 1024

\* The widths of the fields of struct ext2_inode, added up: i_mode and i_uid,
\* i_size to i_dtime, i_gid and i_links_count, i_blocks and i_flags, osd1,
\* i_block, i_generation to i_faddr, osd2.
sizeof_INODE == (2 + 2) + 5 * 4 + (2 + 2) + 2 * 4 + 4 + 15 * 4 + 4 * 4 + 12

PerBlock == BLKSIZE \div sizeof_INODE

Numbers == 1..Inodes

\* The disk, each stretch of sizeof_INODE bytes named by its first.
Addr == {sizeof_INODE * u : u \in 0..(PerBlock * Blocks - 1)}

ASSUME InodeTableAssumption ==
  /\ Inodes \in Nat \ {0} /\ PerGroup \in Nat \ {0} /\ Blocks \in Nat
  /\ InodeSize \in {sizeof_INODE * k : k \in 1..PerBlock}
  /\ Table \in [0..((Inodes - 1) \div PerGroup) -> Nat]
  /\ \A g \in DOMAIN Table :
       Table[g] * BLKSIZE + InodeSize * PerGroup <= Blocks * BLKSIZE
  /\ Table[0] * BLKSIZE + sizeof_INODE * Inodes <= Blocks * BLKSIZE
  /\ Made \in Content /\ Rest \notin Content
  /\ Used \subseteq Numbers /\ MaxHeld \in Nat

\* Where ext2 has inode ino.
Place(ino) == Table[(ino - 1) \div PerGroup] * BLKSIZE
                + InodeSize * ((ino - 1) % PerGroup)

\* A faulty variant: the numbers are taken to start from 0.
Where_FromZero(ino) == (ino \div 8 + Table[0]) * BLKSIZE + sizeof_INODE * (ino % 8)

\* Where the program has it: blk and disp.
Where(ino) == ((ino - 1) \div 8 + Table[0]) * BLKSIZE + sizeof_INODE * ((ino - 1) % 8)

VARIABLES
  bytes,         \* the disk
  loaded,        \* the inodes in memory
  minode         \* of each of these, its INODE and its dirty flag

tableVars == <<bytes, loaded, minode>>

NoInode == [INODE |-> Rest, dirty |-> FALSE]

BytesOK ==
  /\ bytes \in [Addr -> Content \cup {Rest}]
  /\ \A i \in Numbers : bytes[Place(i)] \in Content
  /\ loaded \subseteq Used
  /\ minode \in [Used -> [INODE : Content \cup {Rest}, dirty : BOOLEAN]]

TableInit ==
  /\ bytes = [a \in Addr |->
                IF a \in {Place(i) : i \in Numbers} THEN Made ELSE Rest]
  /\ loaded = {} /\ minode = [i \in Used |-> NoInode]

\* The slot keeps the dirty flag of the inode before.
iget(i) ==
  /\ i \notin loaded /\ Cardinality(loaded) < MaxHeld
  /\ loaded' = loaded \cup {i}
  /\ \E stale \in BOOLEAN :
       minode' = [minode EXCEPT ![i] = [INODE |-> bytes[Where(i)], dirty |-> stale]]
  /\ UNCHANGED bytes

\* A command writes to an inode and marks it dirty.
Change(i, c) ==
  /\ i \in loaded
  /\ minode' = [minode EXCEPT ![i] = [INODE |-> c, dirty |-> TRUE]]
  /\ UNCHANGED <<bytes, loaded>>

\* A faulty variant: the block is not read before it is written.
iput_NoGet(i) ==
  /\ i \in loaded /\ loaded' = loaded \ {i}
  /\ minode' = [minode EXCEPT ![i] = NoInode]
  /\ bytes' = IF minode[i].dirty
             THEN [a \in Addr |->
                     IF a = Where(i) THEN minode[i].INODE
                     ELSE IF a \div BLKSIZE = Where(i) \div BLKSIZE THEN Rest
                     ELSE bytes[a]]
             ELSE bytes

\* A faulty variant: the start of the table is forgotten.
iput_NoStart(i) ==
  /\ i \in loaded /\ loaded' = loaded \ {i}
  /\ minode' = [minode EXCEPT ![i] = NoInode]
  /\ bytes' = IF minode[i].dirty
             THEN [bytes EXCEPT ![Where(i) - Table[0] * BLKSIZE] = minode[i].INODE]
             ELSE bytes

\* The last reference: the block with the inode is read, changed in one place
\* and written.
iput(i) ==
  /\ i \in loaded /\ loaded' = loaded \ {i}
  /\ minode' = [minode EXCEPT ![i] = NoInode]
  /\ bytes' = IF minode[i].dirty THEN [bytes EXCEPT ![Where(i)] = minode[i].INODE]
             ELSE bytes

TableNext == \E i \in Used : iget(i) \/ (\E c \in Content : Change(i, c)) \/ iput(i)

TableSpec == TableInit /\ [][TableNext]_tableVars

-----------------------------------------------------------------------------
(***************************************************************************)
(* Properties                                                              *)
(***************************************************************************)
\* An inode in memory that nobody changed is the one the file system has under
\* its number ("get INODE of ino to buf"), whatever the puts of its neighbours
\* in the block wrote meanwhile.
LoadedIsTable ==
  \A i \in loaded : minode[i].dirty \/ minode[i].INODE = bytes[Place(i)]

\* A put writes into the inode it puts and nowhere else: not into another
\* inode of the block, nor outside of the tables.
OnlyOwn ==
  [][\A a \in Addr :
       bytes'[a] # bytes[a] => \E i \in loaded \ loaded' : a = Place(i)]_tableVars

\* What a file system must be like for the program to find its inodes: inodes
\* of the first revision's size in a single group.
Plain == InodeSize = sizeof_INODE /\ Inodes <= PerGroup
=============================================================================
