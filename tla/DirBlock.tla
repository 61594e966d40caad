------------------------------ MODULE DirBlock ------------------------------
(***************************************************************************)
(* The block of a directory: what mymkdir writes into it, and enter_name,  *)
(* rm_child, search and is_empty on it.                                    *)
(*                                                                         *)
(* The block is modelled in cells of four bytes: an entry is a cell for    *)
(* the inode number, a cell for rec_len and name_len, and as many cells as *)
(* the name takes.  Lengths are in cells, except that of a name.  A name   *)
(* whose length is a multiple of four fills its last cell, so that no zero *)
(* byte ends it.                                                           *)
(* What an older name left behind the end of a newer one in a cell is not  *)
(* kept: between names of one length there is nothing, and no counterexam- *)
(* ple reuses such a cell.                                                 *)
(***************************************************************************)
EXTENDS Integers

CONSTANTS
  Name,        \* names of entries
  NameLen,     \* [Name -> Nat]: their lengths in bytes
  Dot, DotDot, \* the names "." and ".."
  Ino,         \* inode numbers, below 256: one byte that is not zero
  Self, Up,    \* the inodes of the directory and of its parent
  BlockCells   \* BLKSIZE, in cells

ASSUME DirAssumption ==
  /\ NameLen \in [Name -> Nat \ {0}]
  /\ Dot \notin Name /\ DotDot \notin Name /\ Dot # DotDot
  /\ Ino \subseteq 1..255 /\ Self \in 1..255 /\ Up \in 1..255
  /\ BlockCells \in Nat /\ BlockCells >= 6

VARIABLE
  buf          \* the cells of the block

Cells(len) == (len + 3) \div 4
Length(nm) == IF nm = Dot THEN 1 ELSE IF nm = DotDot THEN 2 ELSE NameLen[nm]

INODE(i)      == <<"inode", i>>
LENS(rec, nl) == <<"lens", rec, nl>>
CHARS(nm, k)  == <<"chars", nm, k>>
ZERO          == INODE(0)

Offset == 0..(BlockCells - 1)
Cell == {INODE(i) : i \in {0, Self, Up} \cup Ino}
          \cup {LENS(r, l) : r \in 0..BlockCells,
                             l \in {0} \cup {Length(nm) : nm \in Name \cup {Dot, DotDot}}}
          \cup {CHARS(nm, k) : nm \in Name \cup {Dot, DotDot}, k \in Offset}

TypeOK == buf \in [Offset -> Cell]

-----------------------------------------------------------------------------
(***************************************************************************)
(* Entries of a block b, each at its offset.                               *)
(***************************************************************************)
inode(b, o)    == b[o][2]

\* A cell of text read as lengths gives numbers beyond the block; no run that
\* passes comes to it.
rec_len(b, o) ==
  CASE b[o + 1] = ZERO         -> 0
    [] b[o + 1][1] = "lens"    -> b[o + 1][2]
    [] OTHER                   -> BlockCells
name_len(b, o) ==
  CASE b[o + 1] = ZERO         -> 0
    [] b[o + 1][1] = "lens"    -> b[o + 1][3]
    [] OTHER                   -> 4 * BlockCells

HasName(b, o, nm) ==
  /\ name_len(b, o) = Length(nm)
  /\ \A k \in 0..(Cells(Length(nm)) - 1) : b[o + 2 + k] = CHARS(nm, k)

\* No block holds more entries.
MaxEntries == BlockCells \div 3

\* cp += dp->rec_len, and the offsets this visits within the block.
Advance(b) ==
  [o \in 0..(2 * BlockCells) |-> IF o \in Offset THEN o + rec_len(b, o) ELSE o]

Chain(b) ==
  LET cp[k \in 0..MaxEntries] ==
        IF k = 0 THEN 0 ELSE Advance(b)[cp[k - 1]]
  IN {cp[k] : k \in 0..MaxEntries} \cap Offset

First(S) == CHOOSE x \in S : \A y \in S : x <= y
Last(S)  == CHOOSE x \in S : \A y \in S : y <= x

\* search: 0 when no entry has the name.
Found(b, chain, nm) == {o \in chain : HasName(b, o, nm)}

SearchIn(b, chain, nm) ==
  LET found == Found(b, chain, nm)
  IN IF found = {} THEN 0 ELSE inode(b, First(found))

search(b, nm) == SearchIn(b, Chain(b), nm)

\* Faulty variant: ".." counts as a name.
is_empty_DotOnly(b) ==
  LET chain == Chain(b)
  IN {o \in chain : \A d \in Found(b, chain, Dot) : o > d} = {}

\* is_empty counts the entries with another name than "." and ".."; these
\* two, wherever they come, set the count back to 0.
is_empty(b) ==
  LET chain == Chain(b)
      dots  == Found(b, chain, Dot) \cup Found(b, chain, DotDot)
  IN {o \in chain : \A d \in dots : o > d} = {}

-----------------------------------------------------------------------------
\* mymkdir: "." and "..", the latter as long as the rest of the block.
FreshBlock ==
  [o \in Offset |->
     CASE o = 0 -> INODE(Self)
       [] o = 1 -> LENS(3, 1)
       [] o = 2 -> CHARS(Dot, 0)
       [] o = 3 -> INODE(Up)
       [] o = 4 -> LENS(BlockCells - 3, 2)
       [] o = 5 -> CHARS(DotDot, 0)
       [] OTHER -> ZERO]

ideal_length(len) == 2 + Cells(len)

(***************************************************************************)
(* enter_name: the last entry is cut to its ideal length, and the new one  *)
(* takes what remains, whether or not that is enough.                      *)
(***************************************************************************)
LastEntry(b) == Last(Chain(b))

remain(b) == LET o == LastEntry(b)
             IN rec_len(b, o) - ideal_length(name_len(b, o))

\* An entry is written at o.
PutEntry(b, o, ino, rec, nm) ==
  [x \in Offset |->
     IF x = o THEN INODE(ino)
     ELSE IF x = o + 1 THEN LENS(rec, Length(nm))
     ELSE IF x - o - 2 \in 0..(Cells(Length(nm)) - 1) THEN CHARS(nm, x - o - 2)
     ELSE b[x]]

enter_name(b, nm, ino) ==
  LET o   == LastEntry(b)
      len == ideal_length(name_len(b, o))
  IN PutEntry([b EXCEPT ![o + 1] = LENS(len, name_len(b, o))],
              o + len, ino, remain(b), nm)

(***************************************************************************)
(* strcpy(name of the entry at d, name of the entry at s): cells up to the *)
(* first that holds a zero byte.                                           *)
(***************************************************************************)
Ends(c) ==
  \/ c[1] # "chars"
  \/ c[3] = Cells(Length(c[2])) - 1 /\ Length(c[2]) % 4 # 0

strcpy(b, d, s) ==
  LET n == First({k \in 0..(BlockCells - 3 - s) :
                    Ends(b[s + 2 + k]) \/ s + 2 + k = BlockCells - 1})
  IN [x \in Offset |-> IF x - d - 2 \in 0..n THEN b[s + x - d] ELSE b[x]]

\* The entry at o is cleared: its lengths, its inode, the start of its name.
Clear(b, o) ==
  [b EXCEPT ![o] = ZERO, ![o + 1] = LENS(0, 0), ![o + 2] = ZERO]

\* A state of the shifting loop: prev and dp as in the code.
Loop(b, prev, dp, done) == [buf |-> b, prev |-> prev, dp |-> dp, done |-> done]

\* Faulty variant: the inode number stays where it was.
Shift_NoInode(s) ==
  LET b1 == strcpy(s.buf, s.prev, s.dp)
      b2 == [b1 EXCEPT ![s.prev + 1] = b1[s.dp + 1]]
      cp == s.dp + rec_len(b2, s.dp)
  IN IF cp >= BlockCells
     THEN Loop(b2, s.prev, s.dp, TRUE)
     ELSE Loop(b2, s.dp, cp, FALSE)

\* One turn of the shifting loop: the entry at dp is copied over the one
\* before it, its name first.
Shift(s) ==
  LET b1 == strcpy(s.buf, s.prev, s.dp)
      b2 == [b1 EXCEPT ![s.prev] = b1[s.dp], ![s.prev + 1] = b1[s.dp + 1]]
      cp == s.dp + rec_len(b2, s.dp)
  IN IF cp >= BlockCells
     THEN Loop(b2, s.prev, s.dp, TRUE)
     ELSE Loop(b2, s.dp, cp, FALSE)

\* The entry at o grows by len.
Grow(b, o, len) ==
  [b EXCEPT ![o + 1] = LENS(rec_len(b, o) + len, name_len(b, o))]

\* Faulty variant: the entry before does not take over the length.
RemoveLast_NoGrow(b, prev, o) == Clear(b, o)

RemoveLast(b, prev, o) == Clear(Grow(b, prev, rec_len(b, o)), o)

RemoveMiddle(b, o, next) ==
  LET loop[k \in 0..MaxEntries] ==
        IF k = 0 THEN Loop(b, o, next, FALSE)
        ELSE LET s == loop[k - 1] IN IF s.done THEN s ELSE Shift(s)
      end == loop[MaxEntries]
  IN Clear(Grow(end.buf, end.prev, rec_len(b, o)), end.dp)

\* rm_child: the first entry of the block is never compared.
rm_child(b, nm) ==
  LET chain == Chain(b)
      o     == First(Found(b, chain, nm) \ {0})
      prev  == Last({x \in chain : x < o})
      next  == o + rec_len(b, o)
  IN IF next = BlockCells THEN RemoveLast(b, prev, o) ELSE RemoveMiddle(b, o, next)

-----------------------------------------------------------------------------
Init == buf = FreshBlock

\* The callers enter a name they have not found.  Without room for it, the
\* code writes past the end of its buffer on the stack: no run goes there.
Enter(nm, ino) ==
  /\ search(buf, nm) = 0
  /\ remain(buf) >= ideal_length(Length(nm))
  /\ buf' = enter_name(buf, nm, ino)

\* They remove a name they have found.
Remove(nm) ==
  /\ search(buf, nm) # 0
  /\ buf' = rm_child(buf, nm)

Next == \E nm \in Name : Remove(nm) \/ \E ino \in Ino : Enter(nm, ino)

Spec == Init /\ [][Next]_buf

-----------------------------------------------------------------------------
(***************************************************************************)
(* Properties                                                              *)
(***************************************************************************)

\* The names rm_child is right for: of one length, so that an entry fits where
\* the one before it was, and not a multiple of four, so that the last cell has
\* the zero byte at which strcpy stops.
OneLength ==
  /\ \A x, y \in Name : NameLen[x] = NameLen[y]
  /\ \A x \in Name : NameLen[x] % 4 # 0

\* The entries fill the block: each is long enough for its name, none has
\* length 0, which would hang every loop, and the last ends with the block.
WellFormed ==
  \A o \in Chain(buf) :
    /\ rec_len(buf, o) >= ideal_length(name_len(buf, o))
    /\ o + rec_len(buf, o) \in Chain(buf) \cup {BlockCells}

\* The first two entries stay "." and "..": pwd and cd read the inodes of
\* the directory and of its parent there, at fixed places.
DotsStay ==
  /\ search(buf, Dot) = Self /\ search(buf, DotDot) = Up
  /\ HasName(buf, 0, Dot) /\ HasName(buf, rec_len(buf, 0), DotDot)

\* The block is that of a directory, whatever was entered and removed.
BlockOK == TypeOK /\ WellFormed /\ DotsStay

\* The directory as search shows it.
Listing ==
  LET chain == Chain(buf)
  IN [nm \in {x \in Name : SearchIn(buf, chain, x) # 0}
        |-> SearchIn(buf, chain, nm)]

\* rmdir's test finds a directory empty exactly when no name is left in it.
EmptyRight == is_empty(buf) <=> DOMAIN Listing = {}

Dir == INSTANCE DirMap WITH map <- Listing

\* The block implements the map: entering and removing one name, first, last
\* or in the middle, loses, duplicates or redirects no other.
ImplementsDir == Dir!Spec
=============================================================================
