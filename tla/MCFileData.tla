---------------------------- MODULE MCFileData ----------------------------
(* Instances for TLC: inodes of two direct blocks, blocks of two pointers.  *)
(* File 1 is there at the start, laid out as ext2 lays it out, with any of  *)
(* the lengths in Lens; the others are its copies, or copies of copies.     *)
(* Other files have the blocks behind the first Room of the disk.           *)
EXTENDS FileData

CONSTANTS Lens, LastBlock, Room

MCFile  == 1..4
MCBlock == 0..LastBlock
Token(k) == 1000 + k

\* n blocks of data from block 1 on, then the block i_block[12] names, the
\* block i_block[13] names, and the one the first pointer in there names.
Double(n) == n > NDIR + PTRS
Used(n) == IF Double(n) THEN n + 3 ELSE IF n > NDIR THEN n + 1 ELSE n
Pointers(n, from) == [c \in Cell |-> IF from + c < n THEN from + c + 1 ELSE 0]

Image(n, room) ==
  [disk |->
     [b \in MCBlock |->
        IF b \in 1..n THEN [c \in Cell |-> Token(b)]
        ELSE IF b = n + 1 /\ n > NDIR THEN Pointers(n, NDIR)
        ELSE IF b = n + 2 /\ Double(n) THEN [Zero EXCEPT ![0] = n + 3]
        ELSE IF b = n + 3 /\ Double(n) THEN Pointers(n, NDIR + PTRS)
        ELSE Zero],
   bmap |-> 1..Used(n) \cup (room + 1)..LastBlock,
   itab |->
     [f \in MCFile |->
        IF f # 1 THEN Blank
        ELSE [used |-> TRUE, size |-> n,
              i_block |-> [k \in 0..DIND |->
                IF k < NDIR THEN IF k < n THEN k + 1 ELSE 0
                ELSE IF k = IND THEN IF n > NDIR THEN n + 1 ELSE 0
                ELSE IF Double(n) THEN n + 2 ELSE 0]]]]

MCImages == {Image(n, room) : n \in Lens, room \in Room}
MCLens == 0..5
MCRoom == {9, 24}
=============================================================================
