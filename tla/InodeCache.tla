----------------------------- MODULE InodeCache -----------------------------
(***************************************************************************)
(* The table of in-memory inodes: minode[] with iget and iput (util.c),    *)
(* the three references taken by mount_root and the flush done by quit     *)
(* (main.c).                                                               *)
(*                                                                         *)
(* The clients are the variables of the program that can hold a MINODE     *)
(* pointer: root, running->cwd, a mount table entry, the mptr of an open   *)
(* file, a local of a command.  Every client here keeps the reference      *)
(* discipline, one iput for each iget.  The commands that break it (a      *)
(* return that skips iput, cd without an argument, opening for write) are  *)
(* no clients of this module.                                              *)
(***************************************************************************)
EXTENDS Integers, FiniteSets

CONSTANTS
  NMINODE,     \* size of the table
  Key,         \* the inodes: pairs <<dev, ino>>, compared for equality only
  RootKey,     \* inode 2 of the root device
  Holder,      \* pointer variables
  RootHolder,  \* those mount_root sets: root, table[0].minodeptr, cwd
  Content,     \* what an inode can hold
  Blank,       \* the zeroes of a slot never used
  NoKey,       \* the dev = ino = 0 of a slot never used
  NoSlot       \* the null pointer

ASSUME CacheAssumption ==
  /\ NMINODE \in Nat \ {0}
  /\ RootKey \in Key /\ NoKey \notin Key
  /\ IsFiniteSet(Holder)
  /\ RootHolder \subseteq Holder /\ RootHolder # {}
  /\ Blank \in Content
  /\ NoSlot \notin Nat

Slot == 0..(NMINODE - 1)

VARIABLES
  minode,      \* the table
  disk,        \* the inode table of the disk
  ptr,         \* the pointer variables
  asked,       \* the inode each pointer was obtained for
  qi           \* the loop index of quit, Running before quit is called

vars == <<minode, disk, ptr, asked, qi>>

Running == -1

MINODE == [refCount : Nat, key : Key \cup {NoKey}, dirty : BOOLEAN,
           INODE : Content]

TypeOK ==
  /\ minode \in [Slot -> MINODE]
  /\ \A s \in Slot : minode[s].refCount # 0 => minode[s].key \in Key
  /\ disk \in [Key -> Content]
  /\ ptr \in [Holder -> Slot \cup {NoSlot}]
  /\ asked \in [Holder -> Key \cup {NoKey}]
  /\ qi \in {Running} \cup 0..NMINODE

-----------------------------------------------------------------------------
(***************************************************************************)
(* mount_root: init() has emptied the table, and three calls of            *)
(* iget(dev, 2) leave the root inode in minode[0] with three references.   *)
(***************************************************************************)
BootTable(d) ==
  [s \in Slot |->
     IF s = 0 THEN [refCount |-> Cardinality(RootHolder), key |-> RootKey,
                    dirty |-> FALSE, INODE |-> d[RootKey]]
              ELSE [refCount |-> 0, key |-> NoKey,
                    dirty |-> FALSE, INODE |-> Blank]]

BootPtr   == [h \in Holder |-> IF h \in RootHolder THEN 0 ELSE NoSlot]
BootAsked == [h \in Holder |-> IF h \in RootHolder THEN RootKey ELSE NoKey]

Init ==
  /\ disk \in [Key -> Content]
  /\ minode = BootTable(disk)
  /\ ptr    = BootPtr
  /\ asked  = BootAsked
  /\ qi     = Running

\* The process ends and is started again: memory is lost, the disk stays.
Reboot ==
  /\ minode' = BootTable(disk)
  /\ ptr'    = BootPtr
  /\ asked'  = BootAsked
  /\ qi'     = Running
  /\ UNCHANGED disk

-----------------------------------------------------------------------------
(***************************************************************************)
(* iget: the slot that holds the inode, or else the first unused slot.     *)
(* Loading an inode leaves the slot's dirty flag as its last user left it. *)
(***************************************************************************)
\* Faulty variant: the search stops after the first slot.
Found_FirstSlot(k) == {s \in {0} : minode[s].refCount # 0 /\ minode[s].key = k}

Found(k) == {s \in Slot : minode[s].refCount # 0 /\ minode[s].key = k}

\* Faulty variant: a slot with one reference counts as unused.
Unused_OneRef == {s \in Slot : minode[s].refCount <= 1}

Unused == {s \in Slot : minode[s].refCount = 0}

\* The first slot of S in the order the loops of iget run.
IsFirst(s, S) == s \in S /\ \A t \in S : s <= t

Point(h, s, k) ==
  /\ ptr'   = [ptr EXCEPT ![h] = s]
  /\ asked' = [asked EXCEPT ![h] = k]

\* Faulty variant: a shared slot's count stays as it was.
IgetFound_NoCount(h, k) ==
  /\ qi = Running
  /\ ptr[h] = NoSlot
  /\ \E s \in Slot : IsFirst(s, Found(k)) /\ Point(h, s, k)
  /\ UNCHANGED <<minode, disk, qi>>

IgetFound(h, k) ==
  /\ qi = Running
  /\ ptr[h] = NoSlot
  /\ \E s \in Slot :
       /\ IsFirst(s, Found(k))
       /\ minode' = [minode EXCEPT ![s].refCount = @ + 1]
       /\ Point(h, s, k)
  /\ UNCHANGED <<disk, qi>>

IgetLoad(h, k) ==
  /\ qi = Running
  /\ ptr[h] = NoSlot
  /\ Found(k) = {}
  /\ \E s \in Slot :
       /\ IsFirst(s, Unused)
       /\ minode' = [minode EXCEPT ![s].refCount = 1, ![s].key = k,
                                   ![s].INODE = disk[k]]
       /\ Point(h, s, k)
  /\ UNCHANGED <<disk, qi>>

\* No slot is left: iget returns a null pointer, which every caller
\* dereferences at once, so that the process is killed.
IgetPanic(h, k) ==
  /\ qi = Running
  /\ ptr[h] = NoSlot
  /\ Found(k) = {}
  /\ Unused = {}
  /\ Reboot

\* Faulty variant: the test of the dirty flag is the wrong way round.
Release_WriteClean(s) ==
  /\ minode' = [minode EXCEPT ![s].refCount = @ - 1]
  /\ disk' = IF minode[s].refCount - 1 > 0 \/ minode[s].dirty THEN disk
             ELSE [disk EXCEPT ![minode[s].key] = minode[s].INODE]

(***************************************************************************)
(* iput: the last reference writes a dirty inode back.  The dirty flag is  *)
(* not cleared.                                                            *)
(***************************************************************************)
Release(s) ==
  /\ minode' = [minode EXCEPT ![s].refCount = @ - 1]
  /\ disk' = IF minode[s].refCount - 1 > 0 \/ ~minode[s].dirty THEN disk
             ELSE [disk EXCEPT ![minode[s].key] = minode[s].INODE]

Iput(h) ==
  /\ qi = Running
  /\ ptr[h] # NoSlot
  /\ Release(ptr[h])
  /\ Point(h, NoSlot, NoKey)
  /\ UNCHANGED qi

\* Faulty variant: dirty is not set.
Update_NotMarked(h, c) ==
  /\ qi = Running
  /\ ptr[h] # NoSlot
  /\ minode' = [minode EXCEPT ![ptr[h]].INODE = c]
  /\ UNCHANGED <<disk, ptr, asked, qi>>

\* A holder stores into mip->INODE and sets mip->dirty, as chmod does.
Update(h, c) ==
  /\ qi = Running
  /\ ptr[h] # NoSlot
  /\ minode' = [minode EXCEPT ![ptr[h]].INODE = c, ![ptr[h]].dirty = TRUE]
  /\ UNCHANGED <<disk, ptr, asked, qi>>

(***************************************************************************)
(* quit: one iput for every slot in use, then exit.                        *)
(***************************************************************************)
Quit ==
  /\ qi = Running
  /\ qi' = 0
  /\ UNCHANGED <<minode, disk, ptr, asked>>

QuitSlot ==
  /\ qi \in Slot
  /\ IF minode[qi].refCount > 0 THEN Release(qi)
                                ELSE UNCHANGED <<minode, disk>>
  /\ qi' = qi + 1
  /\ UNCHANGED <<ptr, asked>>

Exit == qi = NMINODE /\ Reboot

\* The process is killed between two writes.
Crash == Reboot

Next ==
  \/ \E h \in Holder, k \in Key :
       IgetFound(h, k) \/ IgetLoad(h, k) \/ IgetPanic(h, k)
  \/ \E h \in Holder : Iput(h)
  \/ \E h \in Holder, c \in Content : Update(h, c)
  \/ Quit
  \/ QuitSlot
  \/ Exit
  \/ Crash

Spec == Init /\ [][Next]_vars

-----------------------------------------------------------------------------
(***************************************************************************)
(* Properties                                                              *)
(***************************************************************************)

\* An inode is in memory at most once: were it twice, the holders of one
\* copy would not see, and would later overwrite, the changes made through
\* the other.
Unique ==
  \A s, t \in Slot :
    /\ minode[s].refCount # 0 /\ minode[t].refCount # 0
    /\ minode[s].key = minode[t].key
    => s = t

\* A pointer designates, for as long as it is held, the inode it was asked
\* for: iget never recycles a slot under a holder.
PointersValid ==
  qi = Running =>
    \A h \in Holder : ptr[h] # NoSlot =>
      minode[ptr[h]].refCount > 0 /\ minode[ptr[h]].key = asked[h]

\* The reference count of a slot is the number of pointers to it.
RefsCounted ==
  qi = Running =>
    \A s \in Slot :
      minode[s].refCount = Cardinality({h \in Holder : ptr[h] = s})

\* A cached inode that is not marked dirty is what the disk holds, so the
\* write-back that iput skips would have changed nothing.
Coherent ==
  \A s \in Slot : minode[s].refCount # 0 /\ ~minode[s].dirty =>
    minode[s].INODE = disk[minode[s].key]

\* The current value of an inode: the cached copy, or else the disk's.
Current(k) ==
  IF \E s \in Slot : s \in Found(k)
  THEN minode[CHOOSE s \in Slot : s \in Found(k)].INODE
  ELSE disk[k]

Store == INSTANCE InodeStore
           WITH val <- [k \in Key |-> Current(k)], stable <- disk

\* iget, iput, quit and the dirty flags implement one current value per
\* inode, which is on the disk once the last pointer is given back: loading,
\* sharing and releasing never lose or revive a value, a stale dirty flag left
\* in a recycled slot writes nothing old, and only stopping the program drops
\* what had not reached the disk.
ImplementsStore == Store!Spec
=============================================================================
