----------------------------- MODULE OpenFiles -----------------------------
(***************************************************************************)
(* The descriptors of the running process (open_close_lseek.c): open, dup, *)
(* dup2, lseek and close, with what myread and mywrite do to an offset and *)
(* a size, one unit at a time.                                             *)
(*                                                                         *)
(* Of an inode in memory only the count of references and the size are     *)
(* kept; InodeCache is the table they are in.  Calls on a closed           *)
(* descriptor, and dup2 of a descriptor onto itself, end the process and   *)
(* are not made; neither is open with every descriptor in use, which       *)
(* stores past the array.                                                  *)
(***************************************************************************)
EXTENDS Integers, FiniteSets

CONSTANTS
  NFD,       \* number of descriptors
  Ino,       \* inode numbers; no two devices
  Regular,   \* those of regular files
  Modes,     \* the modes files are opened with, of 0 (R), 1 (W), 2 (RW),
             \* 3 (APPEND)
  MaxSize,   \* bound on the size of a file
  MaxLeak,   \* bound on the references that failed opens leave behind
  MaxCut     \* bound on how often a file is truncated

Fd   == 0..(NFD - 1)
Oft  == 1..NFD     \* as many as can be in use; malloc never fails
NULL == 0

ASSUME OpenFilesAssumption ==
  /\ NFD \in Nat \ {0} /\ MaxSize \in Nat /\ MaxLeak \in Nat /\ MaxCut \in Nat
  /\ Regular \subseteq Ino /\ IsFiniteSet(Ino) /\ Ino # {}
  /\ Modes \subseteq 0..3

VARIABLES
  dense,     \* whether the user closes only the highest open descriptor
  fd,        \* each descriptor's open file, or NULL
  oft,       \* mode, refCount, inode and offset of each open file
  refCount,  \* the references to each inode in memory
  size,      \* i_size of each inode
  leaked,    \* history: references that failed opens left to each inode
  cuts       \* history: how often each was truncated by an open

past == <<dense, leaked, cuts>>
vars == <<fd, oft, refCount, size, past>>

OFT == [mode : 0..3, refCount : 0..NFD, ino : Ino, offset : 0..MaxSize]

TypeOK ==
  /\ fd \in [Fd -> Oft \cup {NULL}]
  /\ oft \in [Oft -> OFT]
  /\ refCount \in [Ino -> Int]
  /\ size \in [Ino -> 0..MaxSize]
  /\ leaked \in [Ino -> 0..MaxLeak] /\ cuts \in [Ino -> 0..MaxCut]
  /\ dense \in BOOLEAN

IsOpen(d)  == fd[d] # NULL
File(d)    == oft[fd[d]]
Closed     == {d \in Fd : ~IsOpen(d)}
InUse      == {fd[d] : d \in Fd} \ {NULL}
Lowest(S)  == CHOOSE x \in S : \A y \in S : x <= y

Init ==
  /\ fd = [d \in Fd |-> NULL]
  /\ oft = [o \in Oft |-> [mode |-> 0, refCount |-> 0,
                          ino |-> CHOOSE i \in Ino : TRUE, offset |-> 0]]
  /\ refCount = [i \in Ino |-> 0]
  /\ size \in [Ino -> {0, MaxSize}]
  /\ leaked = [i \in Ino |-> 0] /\ cuts = [i \in Ino |-> 0]
  /\ dense \in BOOLEAN

-----------------------------------------------------------------------------
(***************************************************************************)
(* open_file                                                               *)
(***************************************************************************)
\* The scan for a writer ends at the first closed descriptor.
Scanned == {d \in Fd : \A e \in 0..d : IsOpen(e)}

Written(i) == \E d \in Scanned : File(d).mode > 0 /\ File(d).ino = i

\* The inode was loaded before the file is refused, and is not put.
OpenFails(i) ==
  /\ i \notin Regular \/ Written(i)
  /\ leaked[i] < MaxLeak
  /\ leaked' = [leaked EXCEPT ![i] = @ + 1]
  /\ refCount' = [refCount EXCEPT ![i] = @ + 1]
  /\ UNCHANGED <<fd, oft, size, dense, cuts>>

\* mytruncate puts the inode it was given, which the open file keeps.
Truncated(mode) == mode = 1

\* A faulty variant: readers are let in.
open_file_Readers(i, mode) ==
  /\ i \in Regular /\ (mode > 0 => ~Written(i)) /\ Closed # {}
  /\ LET o == Lowest(Oft \ InUse) IN
     /\ fd' = [fd EXCEPT ![Lowest(Closed)] = o]
     /\ oft' = [oft EXCEPT ![o] =
          [mode |-> mode, refCount |-> 1, ino |-> i,
           offset |-> IF mode = 3 THEN size[i] ELSE 0]]
  /\ refCount' = [refCount EXCEPT ![i] = @ + 1]
  /\ UNCHANGED <<size, past>>

open_file(i, mode) ==
  /\ i \in Regular /\ ~Written(i) /\ Closed # {}
  /\ Truncated(mode) => cuts[i] < MaxCut
  /\ LET o == Lowest(Oft \ InUse) IN
     /\ fd' = [fd EXCEPT ![Lowest(Closed)] = o]
     /\ oft' = [oft EXCEPT ![o] =
          [mode |-> mode, refCount |-> 1, ino |-> i,
           offset |-> IF mode = 3 THEN size[i] ELSE 0]]
  /\ size' = IF Truncated(mode) THEN [size EXCEPT ![i] = 0] ELSE size
  /\ refCount' = IF Truncated(mode) THEN refCount
                 ELSE [refCount EXCEPT ![i] = @ + 1]
  /\ cuts' = IF Truncated(mode) THEN [cuts EXCEPT ![i] = @ + 1] ELSE cuts
  /\ UNCHANGED <<dense, leaked>>

-----------------------------------------------------------------------------
(***************************************************************************)
(* close_file, mydup, mydup2                                               *)
(***************************************************************************)
\* A faulty variant: the inode is put with every descriptor.
Put_Always(o) ==
  refCount' = [refCount EXCEPT ![oft[o].ino] = @ - 1]

\* The inode is put with the last descriptor of open file o.
Put(o) ==
  refCount' = IF oft[o].refCount > 1 THEN refCount
              ELSE [refCount EXCEPT ![oft[o].ino] = @ - 1]

\* The callers' discipline.
MayClose(d) == dense => \A e \in Fd : e > d => ~IsOpen(e)

close_file(d) ==
  /\ IsOpen(d) /\ MayClose(d)
  /\ fd' = [fd EXCEPT ![d] = NULL]
  /\ oft' = [oft EXCEPT ![fd[d]].refCount = @ - 1]
  /\ Put(fd[d])
  /\ UNCHANGED <<size, past>>

mydup(d) ==
  /\ IsOpen(d) /\ Closed # {}
  /\ fd' = [fd EXCEPT ![Lowest(Closed)] = fd[d]]
  /\ oft' = [oft EXCEPT ![fd[d]].refCount = @ + 1]
  /\ UNCHANGED <<refCount, size, past>>

\* d is closed first, and may be one of the descriptors of the same file.
mydup2(c, d) ==
  /\ IsOpen(c) /\ c # d
  /\ dense => \A e \in 0..d : e # d => IsOpen(e)
  /\ fd' = [fd EXCEPT ![d] = fd[c]]
  /\ IF IsOpen(d)
     THEN /\ oft' = [[oft EXCEPT ![fd[d]].refCount = @ - 1]
                          EXCEPT ![fd[c]].refCount = @ + 1]
          /\ Put(fd[d])
     ELSE /\ oft' = [oft EXCEPT ![fd[c]].refCount = @ + 1]
          /\ UNCHANGED refCount
  /\ UNCHANGED <<size, past>>

-----------------------------------------------------------------------------
(***************************************************************************)
(* Offsets: mylseek, myread, mywrite.                                      *)
(***************************************************************************)
\* A faulty variant: any position will do.
mylseek_Unchecked(d, position) ==
  /\ IsOpen(d)
  /\ oft' = [oft EXCEPT ![fd[d]].offset = position]
  /\ UNCHANGED <<fd, refCount, size, past>>

mylseek(d, position) ==
  /\ IsOpen(d) /\ position \in 0..size[File(d).ino]
  /\ oft' = [oft EXCEPT ![fd[d]].offset = position]
  /\ UNCHANGED <<fd, refCount, size, past>>

\* A unit is read; neither of the two looks at the mode, callers do.
myread(d) ==
  /\ IsOpen(d) /\ File(d).mode \in {0, 2}
  /\ File(d).offset < size[File(d).ino]
  /\ oft' = [oft EXCEPT ![fd[d]].offset = @ + 1]
  /\ UNCHANGED <<fd, refCount, size, past>>

mywrite(d) ==
  /\ IsOpen(d) /\ File(d).mode > 0 /\ File(d).offset < MaxSize
  /\ oft' = [oft EXCEPT ![fd[d]].offset = @ + 1]
  /\ size' = [size EXCEPT ![File(d).ino] =
                IF File(d).offset + 1 > @ THEN File(d).offset + 1 ELSE @]
  /\ UNCHANGED <<fd, refCount, past>>

Next ==
  \/ \E i \in Ino : OpenFails(i)
  \/ \E i \in Ino, mode \in Modes : open_file(i, mode)
  \/ \E d \in Fd : close_file(d) \/ mydup(d) \/ myread(d) \/ mywrite(d)
  \/ \E c, d \in Fd : mydup2(c, d)
  \/ \E d \in Fd, position \in 0..MaxSize : mylseek(d, position)

Spec == Init /\ [][Next]_vars

-----------------------------------------------------------------------------
(***************************************************************************)
(* Properties                                                              *)
(***************************************************************************)
Descriptors(o) == {d \in Fd : fd[d] = o}
FilesOn(i)     == {o \in InUse : oft[o].ino = i}

\* An open file counts the descriptors that share it: wrong, it is closed
\* under another descriptor.
SharedCounted ==
  \A o \in Oft : oft[o].refCount = Cardinality(Descriptors(o))

\* An inode in memory counts the open files on it, not their descriptors, and
\* what failed opens left; each truncation puts a reference that the open
\* file still needs.
FilesCounted ==
  \A i \in Ino :
    refCount[i] = Cardinality(FilesOn(i)) + leaked[i] - cuts[i]

\* After any mix of open, dup, dup2 and close, both counts are what they
\* should be, but for the references of truncated files.
CountsOK == TypeOK /\ SharedCounted /\ FilesCounted

\* No offset is beyond the end of its file ("Invalid position", mylseek),
\* where myread would copy a length below 0, as long as the file was never
\* truncated: that happens under those that read it.
OffsetInFile ==
  \A o \in InUse : cuts[oft[o].ino] = 0 => oft[o].offset <= size[oft[o].ino]

\* A file that is being written is not opened by anybody else until its
\* writer has closed it ("FILE OPENED FOR WRITE, READ/WRITE OR APPENED",
\* open_file), as long as no descriptor is closed below an open one.
WriterAlone ==
  [][dense =>
       \A o \in InUse : oft[o].mode > 0 =>
         FilesOn(oft[o].ino)' \subseteq FilesOn(oft[o].ino)]_vars
=============================================================================
