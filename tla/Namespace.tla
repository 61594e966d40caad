----------------------------- MODULE Namespace -----------------------------
(***************************************************************************)
(* The commands that change the directory tree (mkdir_creat.c, rmdir.c,    *)
(* link_unlink_symlink.c, and cp and mv of write_cp_mv.c) over the         *)
(* allocators, the inode cache and the directory blocks.                   *)
(*                                                                         *)
(* The program runs one command at a time, to its end, so a command is one *)
(* step.  Its put_block calls are kept in their order in a log: a process  *)
(* killed within a command leaves the disk as some prefix of them left it, *)
(* and the next start repairs nothing.                                     *)
(*                                                                         *)
(* The working directory is the root: cd is not one of the commands.  What *)
(* is in a file is left to FileData: here files are empty.                 *)
(*                                                                         *)
(* A directory is one block, here a map from names to inodes: DirBlock is  *)
(* the block itself.  The free counts are left to Allocator, the slots of  *)
(* minode[] to InodeCache; the cache is a function of the inode here.      *)
(***************************************************************************)
EXTENDS Integers, Sequences, FiniteSets

CONSTANTS
  Ino,         \* inode numbers, 2 among them; 0 is "none"
  Block,       \* block numbers; 0 is the boot block
  Metadata,    \* bitmaps and inode table, in use from the start
  RootBlock,   \* the block of the root directory
  Path,        \* the paths commands are given: sequences of names
  Sessions,    \* sets of commands: the user keeps to one of them
  MaxLeak,     \* bound on the references to one inode not put back
  MaxKill      \* bound on how often the process is killed

Root == 2      \* the inode number getino returns for "/"
LinkMod == 2^16

Name == UNION {{p[k] : k \in DOMAIN p} : p \in Path}

ASSUME NamespaceAssumption ==
  /\ Root \in Ino /\ Ino \subseteq Nat \ {0} /\ IsFiniteSet(Ino)
  /\ Block \subseteq Nat \ {0}
  /\ Metadata \subseteq Block /\ RootBlock \in Block \ Metadata
  /\ IsFiniteSet(Name) /\ \A p \in Path : p \in Seq(Name) \ {<<>>}
  /\ MaxLeak \in Nat /\ MaxKill \in Nat

VARIABLES
  session,     \* the commands the user keeps to
  disk,        \* imap, bmap: numbers marked; itab: inodes; dirs: blocks
  cache,       \* the in-memory inodes, minode[]
  kills,       \* how often the process was killed
  past         \* history: what has happened so far, of the events below

vars == <<session, disk, cache, kills, past>>

\* What the code does not survive: a change dropped that was kept in memory
\* by a reference never put back, a link cut short before it counts the entry
\* it wrote, also in mv, a rmdir cut short, a name put into an inode that has
\* no block.
Spoiling == {"lost", "link", "rmdir", "blockless"}
Event    == {"restart"} \cup Spoiling
Sound    == past \cap Spoiling = {}

INODE == [type : {"none", "reg", "dir", "lnk"}, links : 0..(LinkMod - 1),
          block : Block \cup {0}]
Blank == [type |-> "none", links |-> 0, block |-> 0]
Uncached == [refCount |-> 0, dirty |-> FALSE, INODE |-> Blank]

\* A directory block: the inode of "..", and the other entries.
EmptyDir(pino) == [parent |-> pino, ents |-> <<>>]

TypeOK ==
  /\ disk.imap \subseteq Ino /\ disk.bmap \subseteq Block
  /\ disk.itab \in [Ino -> INODE]
  /\ \A b \in Block \cup {0} :
       /\ disk.dirs[b].parent \in Ino
       /\ DOMAIN disk.dirs[b].ents \subseteq Name
       /\ \A nm \in DOMAIN disk.dirs[b].ents : disk.dirs[b].ents[nm] \in Ino
  /\ cache \in [Ino -> [refCount : Nat, dirty : BOOLEAN, INODE : INODE]]
  /\ kills \in 0..MaxKill
  /\ past \subseteq Event /\ session \in Sessions

-----------------------------------------------------------------------------
(***************************************************************************)
(* mount_root, on a fresh file system and at every later start: root, the  *)
(* mount table and cwd hold three references to the root inode.            *)
(***************************************************************************)
FreshDisk ==
  [imap |-> {Root}, bmap |-> Metadata \cup {RootBlock},
   itab |-> [i \in Ino |-> IF i = Root
               THEN [type |-> "dir", links |-> 2, block |-> RootBlock]
               ELSE Blank],
   dirs |-> [b \in Block \cup {0} |-> EmptyDir(Root)]]

BootRefs(i) == IF i = Root THEN 3 ELSE 0

BootCache(d) ==
  [i \in Ino |-> IF i = Root
     THEN [refCount |-> BootRefs(i), dirty |-> FALSE, INODE |-> d.itab[Root]]
     ELSE Uncached]

Init ==
  /\ disk = FreshDisk
  /\ cache = BootCache(FreshDisk)
  /\ kills = 0 /\ past = {} /\ session \in Sessions

\* Changes to an inode other than the root's that were only in memory.
Lost(d, c) ==
  IF \E i \in d.imap \ {Root} : c[i].refCount > 0 /\ c[i].INODE # d.itab[i]
  THEN {"lost"} ELSE {}

Killed == kills < MaxKill /\ kills' = kills + 1

\* The program is started again on disk d, without the cache c it had.
Restart(d, c, events) ==
  /\ disk' = d
  /\ cache' = BootCache(d)
  /\ past' = past \cup {"restart"} \cup Lost(d, c) \cup events

-----------------------------------------------------------------------------
(***************************************************************************)
(* The running command: disk and cache as it sees them, its log of writes, *)
(* the dirty flag it finds in slots it recycles, and whether it has put a  *)
(* name into an inode that has no block.                                   *)
(***************************************************************************)
Start(stale) == [disk |-> disk, cache |-> cache, log |-> <<>>,
                 stale |-> stale, blockless |-> FALSE]

put_block(m, d) ==
  [m EXCEPT !.disk = d,
            !.log  = Append(@, [disk |-> d, cache |-> m.cache])]

iget(m, i) ==
  LET c == m.cache[i] IN
  [m EXCEPT !.cache[i] =
     IF c.refCount > 0 THEN [c EXCEPT !.refCount = c.refCount + 1]
     ELSE [refCount |-> 1, dirty |-> m.stale, INODE |-> m.disk.itab[i]]]

\* A faulty variant: references are tested before one is taken off.
iput_TestFirst(m, i) ==
  LET c == m.cache[i] IN
  IF c.refCount > 1 THEN m
  ELSE put_block([m EXCEPT !.cache[i] = Uncached],
                 [m.disk EXCEPT !.itab[i] = c.INODE])

iput(m, i) ==
  LET c == m.cache[i] IN
  IF c.refCount > 1 THEN [m EXCEPT !.cache[i].refCount = @ - 1]
  ELSE LET out == [m EXCEPT !.cache[i] = Uncached] IN
       IF c.dirty THEN put_block(out, [m.disk EXCEPT !.itab[i] = c.INODE])
                  ELSE out

\* mip->INODE = ip; mip->dirty = 1;
Store(m, i, ip) ==
  [m EXCEPT !.cache[i].INODE = ip, !.cache[i].dirty = TRUE]

\* A faulty variant: the inode is not marked dirty.
AddLinks_NotDirty(m, i, k) ==
  [m EXCEPT !.cache[i].INODE.links = (@ + k) % LinkMod]

\* i_links_count is an unsigned 16-bit field.
AddLinks(m, i, k) ==
  Store(m, i, [m.cache[i].INODE EXCEPT !.links = (@ + k) % LinkMod])

First(S) == IF S = {} THEN 0 ELSE CHOOSE x \in S : \A y \in S : x <= y

\* ialloc and balloc return 0 when every bit is set.
FreeIno(m)   == First(Ino \ m.disk.imap)
FreeBlock(m) == First(Block \ m.disk.bmap)

\* Faulty variants: a bit is left alone.
idalloc_Forgotten(m, i) == m
bdalloc_Forgotten(m, b) == m
SetBmap_Unmarked(m, b) == m

SetImap(m, i) == put_block(m, [m.disk EXCEPT !.imap = @ \cup {i}])
idalloc(m, i) == put_block(m, [m.disk EXCEPT !.imap = @ \ {i}])
SetBmap(m, b) == IF b = 0 THEN m
                 ELSE put_block(m, [m.disk EXCEPT !.bmap = @ \cup {b}])
bdalloc(m, b) == put_block(m, [m.disk EXCEPT !.bmap = @ \ {b}])

-----------------------------------------------------------------------------
(***************************************************************************)
(* Paths and directories.                                                  *)
(***************************************************************************)

\* The inode as a search reads it: the cached copy if there is one.
View(m, i) == IF m.cache[i].refCount > 0 THEN m.cache[i].INODE
                                         ELSE m.disk.itab[i]

\* Any inode is searched as if it were a directory; without a block it has
\* no entries.
search(m, i, nm) ==
  LET b == View(m, i).block
      ents == m.disk.dirs[b].ents
  IN IF b # 0 /\ nm \in DOMAIN ents THEN ents[nm] ELSE 0

\* Walking a path takes and puts one reference per component.
getino(m, p) ==
  LET walk[k \in 0..Len(p)] ==
        IF k = 0 THEN Root
        ELSE IF walk[k - 1] = 0 THEN 0
        ELSE search(m, walk[k - 1], p[k])
  IN walk[Len(p)]

dirname(p)  == SubSeq(p, 1, Len(p) - 1)
basename(p) == p[Len(p)]

\* i_block[-1], which an inode without a block makes enter_name use, is a
\* field of the inode that is 0: the entry goes to block 0.
enter_name(m, pino, ino, nm) ==
  LET b == m.cache[pino].INODE.block
      ents == m.disk.dirs[b].ents
      new == [x \in DOMAIN ents \cup {nm} |-> IF x = nm THEN ino ELSE ents[x]]
  IN [put_block(m, [m.disk EXCEPT !.dirs[b].ents = new])
        EXCEPT !.blockless = @ \/ b = 0]

rm_child(m, pino, nm) ==
  LET b == m.cache[pino].INODE.block
      ents == m.disk.dirs[b].ents
  IN put_block(m, [m.disk EXCEPT !.dirs[b].ents =
                     [x \in DOMAIN ents \ {nm} |-> ents[x]]])

is_empty(m, i) ==
  LET b == m.cache[i].INODE.block
  IN b = 0 \/ DOMAIN m.disk.dirs[b].ents = {}

-----------------------------------------------------------------------------
(***************************************************************************)
(* The commands.  A command that fails returns without putting back the    *)
(* references it has taken.                                                *)
(***************************************************************************)
IsDir(m, i) == m.cache[i].INODE.type = "dir"

\* A faulty variant: the entry is written before the inode.
mycreat_EntryFirst(m, pino, nm) ==
  LET ino == FreeIno(m)
      m1  == enter_name(iget(SetImap(m, ino), ino), pino, ino, nm)
  IN iput(Store(m1, ino, [type |-> "reg", links |-> 1, block |-> 0]), ino)

\* mycreat and mymkdir, with the parent pino held by the caller.
mycreat(m, pino, nm) ==
  LET ino == FreeIno(m)
      m1  == iget(SetImap(m, ino), ino)
      m2  == iput(Store(m1, ino, [type |-> "reg", links |-> 1, block |-> 0]),
                  ino)
  IN enter_name(m2, pino, ino, nm)

mymkdir(m, pino, nm) ==
  LET ino == FreeIno(m)
      bno == FreeBlock(m)
      m1  == iget(SetBmap(SetImap(m, ino), bno), ino)
      m2  == iput(Store(m1, ino, [type |-> "dir", links |-> 2, block |-> bno]),
                  ino)
      m3  == put_block(m2, [m2.disk EXCEPT !.dirs[bno] = EmptyDir(pino)])
  IN [enter_name(m3, pino, ino, nm) EXCEPT !.blockless = @ \/ bno = 0]

\* What make_dir and creat_file refuse: no directory, or the name is there.
Refused(m, pino, nm) == ~IsDir(m, pino) \/ search(m, pino, nm) # 0

creat_file(m, p) ==
  LET pino == getino(m, dirname(p))
      m1   == iget(m, pino)
  IN IF Refused(m1, pino, basename(p)) THEN m1
     ELSE iput(AddLinks(mycreat(m1, pino, basename(p)), pino, 0), pino)

\* A faulty variant: the ".." of the new directory is not counted.
make_dir_NoCount(m, p) ==
  LET pino == getino(m, dirname(p))
      m1   == iget(m, pino)
  IN IF Refused(m1, pino, basename(p)) THEN m1
     ELSE iput(mymkdir(m1, pino, basename(p)), pino)

make_dir(m, p) ==
  LET pino == getino(m, dirname(p))
      m1   == iget(m, pino)
  IN IF Refused(m1, pino, basename(p)) THEN m1
     ELSE iput(AddLinks(mymkdir(m1, pino, basename(p)), pino, 1), pino)

mylink(m, old, new) ==
  LET oino == getino(m, old)
      pino == getino(m, dirname(new))
      m1   == iget(m, oino)
  IN IF IsDir(m1, oino) \/ getino(m1, new) # 0 THEN m1
     ELSE LET m2 == enter_name(iget(m1, pino), pino, oino, basename(new))
          IN iput(iput(AddLinks(m2, oino, 1), oino), pino)

\* The block given back has the number of the inode.  The link count 0 of
\* the last unlink does not mark the inode dirty.
myunlink(m, p) ==
  LET ino  == getino(m, p)
      pino == getino(m, dirname(p))
      m1   == iget(m, ino)
      m2   == rm_child(iget(m1, pino), pino, basename(p))
      m3   == iput(AddLinks(m2, pino, 0), pino)
      last == [m3 EXCEPT !.cache[ino].INODE.links = (@ - 1) % LinkMod]
  IN IF IsDir(m1, ino) THEN m1
     ELSE IF last.cache[ino].INODE.links > 0
          THEN iput(AddLinks(m3, ino, -1), ino)
          ELSE iput(idalloc(bdalloc(last, ino), ino), ino)

mysymlink(m, old, new) ==
  LET oino == getino(m, old)
      m1   == iget(m, oino)
      m2   == creat_file(m1, new)
      x    == FreeIno(m1)
      m3   == iget(m2, x)
      m4   == iput(Store(m3, x, [m3.cache[x].INODE EXCEPT !.type = "lnk"]), x)
  IN IF getino(m, new) # 0 THEN iget(m1, getino(m, new))
     ELSE iput(AddLinks(m4, oino, 0), oino)

\* Two references are taken on the directory, one is put back.
myrmdir(m, p) ==
  LET ino  == getino(m, p)
      m1   == iget(iget(m, ino), ino)
      b    == m1.cache[ino].INODE.block
      m2   == IF b = 0 THEN m1 ELSE bdalloc(m1, b)
      m3   == iput(idalloc(m2, ino), ino)
      pino == getino(m3, dirname(p))
      m4   == rm_child(iget(m3, pino), pino, basename(p))
  IN IF ~IsDir(m1, ino) \/ ~is_empty(m1, ino) THEN m1
     ELSE iput(AddLinks(m4, pino, -1), pino)

\* cp of a file that is empty.  One that cannot be opened leaves a reference
\* behind, and descriptor 0, which is then the copy's, in place of its own.
Copies(m, t) == getino(m, t) = 0 /\ View(m, getino(m, dirname(t))).type = "dir"

Copied(m, s, t) ==
  LET ino == getino(m, s)
      m1  == iget(m, ino)
      m2  == creat_file(m1, t)
  IN IF m1.cache[ino].INODE.type = "reg" THEN iput(m2, ino) ELSE m2

mycp(m, s, t) ==
  LET r    == Copied(m, s, t)
      copy == getino(r, t)
  IN IF Copies(m, t) THEN iput(iget(r, copy), copy) ELSE r

\* A faulty variant: the old name is removed before the new one is entered.
mymv_RemoveFirst(m, s, t) ==
  LET ino  == getino(m, s)
      from == getino(m, dirname(s))
      to   == getino(m, dirname(t))
      m1   == iput(AddLinks(iget(m, ino), ino, 1), ino)
      m2   == iput(rm_child(iget(m1, from), from, basename(s)), from)
      m3   == iput(enter_name(iget(m2, to), to, ino, basename(t)), to)
  IN IF getino(m, t) # 0 \/ View(m, ino).type = "dir" THEN m
     ELSE iput(AddLinks(iget(m3, ino), ino, -1), ino)

\* t is the new name: a link is made to it, which makes the copy fail, and
\* the old name removed.  Of a directory, which is not linked, an empty file
\* is made under the new name.
mymv(m, s, t) ==
  IF getino(m, t) # 0 THEN m
  ELSE myunlink(mycp(mylink(m, s, t), s, t), s)

-----------------------------------------------------------------------------
(***************************************************************************)
(* Paths a command can be given with a defined outcome.  Outside them the  *)
(* code reads a symbolic link's text as block numbers, or goes on with     *)
(* inode 0 and reads, or writes, next to a buffer on the stack.            *)
(***************************************************************************)
NoLinkOnTheWay(m, p) ==
  \A k \in 1..(Len(p) - 1) :
    LET i == getino(m, SubSeq(p, 1, k)) IN i # 0 => View(m, i).type # "lnk"

Exists(m, p)    == NoLinkOnTheWay(m, p) /\ getino(m, p) # 0
HasParent(m, p) == NoLinkOnTheWay(m, p) /\ getino(m, dirname(p)) # 0

\* A free inode is left, unless the command fails before it asks for one.
Makeable(m, p) ==
  HasParent(m, p) /\ (getino(m, p) = 0 => FreeIno(m) # 0)

\* A copy that is made is found when it is opened.
Copyable(m, s, t) ==
  /\ Exists(m, s) /\ Makeable(m, t)
  /\ Copies(m, t) => getino(Copied(m, s, t), t) # 0

Blockless(m) == IF m.blockless THEN {"blockless"} ELSE {}

\* A link and a mv write the new entry first, and the inode it names last, or
\* before the old entry.
Halfway(c, k) ==
  (IF c = "rmdir" THEN {"rmdir"} ELSE {})
    \cup (IF c \in {"link", "mv"} /\ k = 1 THEN {"link"} ELSE {})

\* Command c has the effect m, or the process is killed after a put_block.
Run(c, m) ==
  /\ c \in session
  /\ \A i \in Ino : m.cache[i].refCount <= BootRefs(i) + MaxLeak
  /\ \/ /\ disk' = m.disk
        /\ cache' = m.cache
        /\ past' = past \cup Blockless(m)
        /\ UNCHANGED kills
     \/ \E k \in DOMAIN m.log :
          /\ Killed
          /\ Restart(m.log[k].disk, m.log[k].cache,
                     Blockless(m) \cup Halfway(c, k))

Creat(p) ==
  LET m == Start(FALSE) IN Makeable(m, p) /\ Run("creat", creat_file(m, p))

Mkdir(p) ==
  LET m == Start(FALSE) IN Makeable(m, p) /\ Run("mkdir", make_dir(m, p))

Link(old, new) ==
  LET m == Start(FALSE) IN
  Exists(m, old) /\ HasParent(m, new) /\ Run("link", mylink(m, old, new))

\* A command that dirties every inode it puts does not depend on the flag its
\* slots were left with: only the last unlink does not.
Unlink(p) ==
  \E stale \in BOOLEAN :
    LET m == Start(stale) IN Exists(m, p) /\ Run("unlink", myunlink(m, p))

Symlink(old, new) ==
  LET m == Start(FALSE) IN
  /\ Exists(m, old) /\ Makeable(m, new)
  /\ View(m, getino(m, dirname(new))).type = "dir"
  /\ Run("symlink", mysymlink(m, old, new))

Rmdir(p) ==
  LET m == Start(FALSE) IN Exists(m, p) /\ Run("rmdir", myrmdir(m, p))

Cp(s, t) ==
  LET m == Start(FALSE) IN Copyable(m, s, t) /\ Run("cp", mycp(m, s, t))

\* The destination is a directory d; of a relative path, the whole of it is
\* appended.
Mv(s, d) ==
  \E t \in {Append(d, basename(s)), d \o s} :
    LET m == Start(FALSE)
        l == mylink(m, s, t)
    IN /\ Exists(m, s) /\ HasParent(m, t)
       /\ getino(m, t) = 0 => Copyable(l, s, t) /\ Exists(mycp(l, s, t), s)
       /\ Run("mv", mymv(m, s, t))

(***************************************************************************)
(* quit puts each inode once; one with more references is not written.     *)
(* Killed within it, it has written some of the inodes it would write.     *)
(***************************************************************************)
Flush(S) ==
  [disk EXCEPT !.itab =
     [i \in Ino |-> IF i \in S THEN cache[i].INODE ELSE @[i]]]

Flushed == {i \in Ino : cache[i].refCount = 1 /\ cache[i].dirty}

Quit == Restart(Flush(Flushed), cache, {}) /\ UNCHANGED kills

Kill == Killed /\ \E S \in SUBSET Flushed : Restart(Flush(S), cache, {})

Next ==
  /\ UNCHANGED session
  /\ \/ \E p \in Path : Creat(p)
     \/ \E p \in Path : Mkdir(p)
     \/ \E p, q \in Path : Link(p, q)
     \/ \E p \in Path : Unlink(p)
     \/ \E p, q \in Path : Symlink(p, q)
     \/ \E p \in Path : Rmdir(p)
     \/ \E p, q \in Path : Cp(p, q)
     \/ \E p \in Path, d \in Path \cup {<<>>} : Mv(p, d)
     \/ Quit
     \/ Kill

Spec == Init /\ [][Next]_vars

-----------------------------------------------------------------------------
(***************************************************************************)
(* Properties, of the tree that a walk from the root sees.                 *)
(***************************************************************************)
Now     == Start(FALSE)
Look(i) == View(Now, i)

\* The entries of directory d, "." and ".." left out.
Ents(d) == IF Look(d).type = "dir" /\ Look(d).block # 0
           THEN disk.dirs[Look(d).block].ents ELSE <<>>

\* What is in S or in a directory of S.
Below(S) == S \cup UNION {{Ents(d)[nm] : nm \in DOMAIN Ents(d)} : d \in S}

\* The inodes a walk from the root reaches.
Reachable ==
  LET from[k \in 0..Cardinality(Ino)] ==
        IF k = 0 THEN {Root} ELSE Below(from[k - 1])
  IN from[Cardinality(Ino)]

Dirs == {i \in Reachable : Look(i).type = "dir"}

\* All entries, as pairs of a directory and a name.
Entries(i) == UNION {{<<d, nm>> : nm \in {x \in DOMAIN Ents(d) : Ents(d)[x] = i}}
                     : d \in Dirs}
SubDirs(d) == {nm \in DOMAIN Ents(d) : Look(Ents(d)[nm]).type = "dir"}

\* Whatever is killed when, an entry never names an inode that is free or
\* was never written.  This needs each command's order of writes; it is lost
\* once link or rmdir is cut short, or a change kept in memory by a reference
\* that was never put back is dropped.
NoDangling ==
  Sound =>
    \A i \in Reachable : i \in disk.imap /\ Look(i).type # "none"

\* The directories form a tree: each has one entry, in the directory its
\* ".." names, and a block of its own that is marked and is not metadata.
TreeShape ==
  Sound =>
    /\ \A i \in Dirs \ {Root} :
         Cardinality(Entries(i)) = 1
         /\ \A e \in Entries(i) : disk.dirs[Look(i).block].parent = e[1]
    /\ \A i, j \in Dirs :
         /\ Look(i).block \in disk.bmap \ Metadata
         /\ Look(i).block = Look(j).block => i = j

\* The tree that is seen, in a state that is well typed.
TreeOK == TypeOK /\ TreeShape

\* A link count never understates the entries of a file, which unlink would
\* turn into a dangling entry; each kill makes it too large by at most one.
FileLinks ==
  Sound =>
    \A i \in Reachable \ Dirs :
      LET entries == Cardinality(Entries(i))
      IN Look(i).links \in entries..(entries + kills)

\* The link count of a directory is that of its "." and of the ".." of its
\* subdirectories; each kill makes it too small by at most one, below 0, too,
\* where it wraps.  The root's is never written, so that it holds for it until
\* the program is started again.
DirLinks ==
  Sound =>
    \A d \in Dirs :
      LET dots == 2 + Cardinality(SubDirs(d))
      IN d # Root \/ "restart" \notin past =>
           Look(d).links \in {(dots - j) % LinkMod : j \in 0..kills}

\* Without a kill no inode is marked that the tree does not reach.
NoInodeLeak ==
  Sound /\ kills = 0 => disk.imap = Reachable

\* Without a kill the blocks marked are the metadata and the directories';
\* unlink unmarks others.
BlocksExact ==
  Sound /\ kills = 0 /\ "unlink" \notin session =>
    disk.bmap = Metadata \cup {Look(d).block : d \in Dirs}

\* What is there stays there, whatever is killed when: mv never leaves a file
\* without a name, and a copy replaces nothing.  This is for the commands that
\* make and move.
NeverGone ==
  [][Sound' /\ session \cap {"unlink", "rmdir"} = {} =>
       Reachable \subseteq Reachable']_vars

\* Marking in the bitmap what is in use is what keeps balloc off it.
InUseMarked == Metadata \cup {RootBlock} \subseteq disk.bmap

\* The process was not ended by the step.
Returns == cache' # BootCache(disk')

\* A command that changes a directory and returns has put back every
\* reference it took, except that rmdir keeps one to the directory it removed:
\* the other leaks are those of commands that fail, and of cp and mv.
RefsBalanced ==
  [][Returns /\ disk'.dirs # disk.dirs /\ session \cap {"cp", "mv"} = {} =>
       \A i \in Ino :
         \/ cache'[i].refCount = cache[i].refCount
         \/ /\ i \notin disk'.imap /\ Look(i).type = "dir"
            /\ cache'[i].refCount = cache[i].refCount + 1]_vars
=============================================================================
