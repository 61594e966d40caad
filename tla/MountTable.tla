----------------------------- MODULE MountTable -----------------------------
(***************************************************************************)
(* mount and umount (mount_umount.c) with the cd that enters a mounted     *)
(* file system (cd_ls_pwd.c), over the mount table, the global dev and the *)
(* slots of minode[].                                                      *)
(*                                                                         *)
(* A slot is found by descriptor and inode number.  The system gives the   *)
(* descriptor of a closed file to the next one opened, so each slot also   *)
(* records here the file its inode was read from.  All file systems have   *)
(* the layout of the first: iget and iput compute positions with its       *)
(* globals only.  The trees do not change.  cd without an argument and     *)
(* pwd, which put references they do not have, are in Shell.               *)
(***************************************************************************)
EXTENDS Integers, Sequences, FiniteSets, SequencesExt

CONSTANTS
  File,      \* the files that can be opened
  First,     \* the one the program is started with
  Ext2,      \* those that hold an ext2 file system
  Tree,      \* for each of these and each inode: its entries, <<>> if none
  NMINODE,   \* number of slots of minode[]
  NTAB,      \* number of entries of table[]
  NFILE,     \* number of files the system lets a process open
  Path,      \* the paths given to cd
  Sessions,  \* what users ask for: commands, files and mount points
  MaxRef,    \* bound: commands are given while every count is within it
  None       \* no file: the name of an empty entry, a closed descriptor

Root == 2
NULL == 0
Slot  == 1..NMINODE
Entry == 1..NTAB
Fd    == 3..(2 + NFILE)
Ino   == DOMAIN Tree[First]

\* A table past its end is not modelled: there is an entry for every file.
ASSUME MountAssumption ==
  /\ First \in Ext2 /\ Ext2 \subseteq File /\ None \notin File
  /\ NMINODE \in Nat \ {0} /\ NFILE \in Nat \ {0} /\ MaxRef \in Nat
  /\ NTAB \in Nat \ {0} /\ \E f \in [File -> Entry] : IsInjective(f)
  /\ Root \in Ino /\ Ino \subseteq Nat \ {0}
  /\ \A f \in Ext2 : Tree[f] \in [Ino -> Seq([name : STRING, ino : Ino])]

ASSUME UserAssumption ==
  /\ \A s \in Sessions : s.files \subseteq File
  /\ \A p \in Path \cup UNION {s.points : s \in Sessions} :
       p.abs \in BOOLEAN /\ p.names \in Seq(STRING)

VARIABLES
  session,   \* the one of Sessions the user keeps to
  minode,    \* each slot: device, inode number, count, mptr, and file read
  root,      \* the slot the global root points to
  cwd,       \* the slot running->cwd points to
  dev,       \* the global dev
  table,     \* each entry: device, name, path, minodeptr
  fds        \* the file each descriptor is open on

vars == <<session, minode, root, cwd, dev, table, fds>>

TypeOK ==
  /\ session \in Sessions
  /\ minode \in [Slot -> [dev : Fd \cup {0}, ino : Ino \cup {0}, refCount : Nat,
                          mptr : Entry \cup {NULL}, of : File \cup {None}]]
  /\ root \in Slot /\ cwd \in Slot /\ dev \in Fd
  /\ table \in [Entry -> [dev : Fd \cup {0}, devname : File \cup {None},
                         path : Seq(STRING), minodeptr : Slot \cup {NULL}]]
  /\ fds \in [Fd -> File \cup {None}]

Least(S) == IF S = {} THEN NULL ELSE CHOOSE s \in S : \A t \in S : s <= t

-----------------------------------------------------------------------------
(***************************************************************************)
(* iget, iput and getino, as functions of the slots.  What is read of an   *)
(* inode 0, next to a buffer, or of a file that is not an ext2 file        *)
(* system, is taken to have no entries.                                    *)
(***************************************************************************)
iget(m, files, d, i) ==
  LET found == {s \in Slot : m[s].refCount # 0 /\ m[s].dev = d /\ m[s].ino = i}
      s == Least(IF found # {} THEN found ELSE {t \in Slot : m[t].refCount = 0})
  IN [at |-> s, ino |-> i,
      minode |-> IF s = NULL THEN m
                 ELSE IF found # {} THEN [m EXCEPT ![s].refCount = @ + 1]
                 ELSE [m EXCEPT ![s] = [dev |-> d, ino |-> i, refCount |-> 1,
                                        mptr |-> @.mptr, of |-> files[d]]]]

iput(m, s) == IF s = NULL THEN m ELSE [m EXCEPT ![s].refCount = @ - 1]

Entries(f, i) == IF f \in Ext2 /\ i \in Ino THEN Tree[f][i] ELSE <<>>
IsDir(f, i) == Entries(f, i) # <<>>

search(f, i, nm) ==
  LET ents == Entries(f, i)
      x == Least({y \in DOMAIN ents : ents[y].name = nm})
  IN IF x = NULL THEN 0 ELSE ents[x].ino

\* One name of a path: the directory w is put, and what it has under that
\* name is taken from device d, whatever device w was on.
Component(files, d, w, nm) ==
  LET i   == search(w.minode[w.at].of, w.ino, nm)
      put == iput(w.minode, w.at)
  IN IF w.at = NULL THEN w
     ELSE IF i = 0 THEN [at |-> NULL, ino |-> 0, minode |-> put]
     ELSE iget(put, files, d, i)

\* The names of a path, one after the other.
Lookup(files, d, start, names) ==
  LET w[k \in 0..Len(names)] ==
        IF k = 0 THEN start ELSE Component(files, d, w[k - 1], names[k])
  IN w[Len(names)]

\* The first directory is on the device of root or cwd.
getino(m, files, d, p) ==
  LET at == IF p.abs THEN root ELSE cwd
      start == iget(m, files, m[at].dev, IF p.abs THEN Root ELSE m[at].ino)
      w == Lookup(files, d, start, p.names)
  IN IF p.abs /\ p.names = <<>> THEN [at |-> NULL, ino |-> Root, minode |-> m]
     ELSE [w EXCEPT !.minode = iput(@, w.at)]

-----------------------------------------------------------------------------
NoEntry == [dev |-> 0, devname |-> None, path |-> <<>>, minodeptr |-> NULL]

\* mount_root: root, the entry of the first file system and cwd hold its root.
BootTable  == [k \in Entry |-> IF k = 1 THEN [dev |-> 3, devname |-> First,
                                              path |-> <<>>, minodeptr |-> 1]
                               ELSE NoEntry]
BootMinode ==
  [s \in Slot |->
     IF s = 1 THEN [dev |-> 3, ino |-> Root, refCount |-> 3, mptr |-> 1, of |-> First]
     ELSE [dev |-> 0, ino |-> 0, refCount |-> 0, mptr |-> NULL, of |-> None]]

Init ==
  /\ session \in Sessions
  /\ minode = BootMinode /\ root = 1 /\ cwd = 1 /\ dev = 3
  /\ table = BootTable
  /\ fds = [d \in Fd |-> IF d = 3 THEN First ELSE None]

\* The program is started again, after quit or the use of a null pointer.
Restart ==
  /\ minode' = BootMinode /\ root' = 1 /\ cwd' = 1 /\ dev' = 3
  /\ table' = BootTable
  /\ fds' = [d \in Fd |-> IF d = 3 THEN First ELSE None]

\* Bound: what a command does when it comes to an inode on a descriptor that
\* is closed, or open on another file by now, is not modelled; the
\* properties say when it cannot.
Bound(s) == fds[minode[s].dev] = minode[s].of
Ready(c, p) ==
  /\ c \in session.commands
  /\ \A s \in Slot : minode[s].refCount <= MaxRef
  /\ \A s \in Slot :
       minode[s].refCount # 0 => Bound(s) \/ fds[minode[s].dev] = None
  /\ p.abs \/ Bound(cwd)
LooksUp(c, p) == Ready(c, p) /\ fds[dev] # None

-----------------------------------------------------------------------------
(***************************************************************************)
(* mymount.  A name that is mounted already or cannot be opened changes    *)
(* nothing.  The mount point may well not exist.                           *)
(***************************************************************************)
MayMount(f) ==
  /\ \A k \in Entry : table[k].devname # f
  /\ \E d \in Fd : fds[d] = None

newfd == Least({d \in Fd : fds[d] = None})

NotExt2(f, mip) ==
  /\ f \notin Ext2
  /\ minode' = mip.minode
  /\ dev' = newfd /\ fds' = [fds EXCEPT ![newfd] = f]
  /\ UNCHANGED <<root, cwd, table>>

\* A faulty variant: dev stays on the new device.
IsExt2_KeepDev(f, p, mip) ==
  LET r == iget(mip.minode, fds, minode[root].dev, minode[root].ino)
      k == Least({j \in Entry : table[j].dev = 0})
  IN /\ f \in Ext2 /\ mip.at # NULL
     /\ table' = [table EXCEPT ![k] = [dev |-> newfd, devname |-> f,
                                       path |-> p.names, minodeptr |-> r.at]]
     /\ minode' = [iput(r.minode, mip.at) EXCEPT ![mip.at].mptr = k]
     /\ fds' = [fds EXCEPT ![newfd] = f]
     /\ dev' = newfd
     /\ UNCHANGED <<root, cwd>>

IsExt2(f, p, mip) ==
  LET r == iget(mip.minode, fds, minode[root].dev, minode[root].ino)
      k == Least({j \in Entry : table[j].dev = 0})
  IN /\ f \in Ext2 /\ mip.at # NULL
     /\ table' = [table EXCEPT ![k] = [dev |-> newfd, devname |-> f,
                                       path |-> p.names, minodeptr |-> r.at]]
     /\ minode' = [iput(r.minode, mip.at) EXCEPT ![mip.at].mptr = k]
     /\ fds' = [fds EXCEPT ![newfd] = f]
     /\ dev' = minode[root].dev
     /\ UNCHANGED <<root, cwd>>

NoMinode(f, mip) == f \in Ext2 /\ mip.at = NULL /\ Restart

\* The mount point is looked up, and its inode loaded, on the new device.
Mount(f, p) ==
  /\ Ready("mount", p) /\ MayMount(f)
  /\ \E files \in {[fds EXCEPT ![newfd] = f]} :
     \E g \in {getino(minode, files, newfd, p)} :
     \E mip \in {iget(g.minode, files, newfd, g.ino)} :
       NotExt2(f, mip) \/ IsExt2(f, p, mip) \/ NoMinode(f, mip)

-----------------------------------------------------------------------------
(***************************************************************************)
(* myumount.  The mptr it resets is that of the root inode, not that of    *)
(* the mount point.                                                        *)
(***************************************************************************)
\* A faulty variant: the entry's name stays.
Umount_KeepName(f) ==
  \E k \in Entry :
    /\ "umount" \in session.commands /\ table[k].devname = f
    /\ table[k].dev # minode[root].dev /\ table[k].dev # 0
    /\ minode' = [iput(minode, table[k].minodeptr)
                    EXCEPT ![table[k].minodeptr].mptr = NULL]
    /\ fds' = [fds EXCEPT ![table[k].dev] = None]
    /\ table' = [table EXCEPT ![k] = [NoEntry EXCEPT !.devname = f]]
    /\ UNCHANGED <<root, cwd, dev>>

Umount(f) ==
  \E k \in Entry :
    /\ "umount" \in session.commands /\ table[k].devname = f
    /\ table[k].dev # minode[root].dev
    /\ minode' = [iput(minode, table[k].minodeptr)
                    EXCEPT ![table[k].minodeptr].mptr = NULL]
    /\ fds' = [fds EXCEPT ![table[k].dev] = None]
    /\ table' = [table EXCEPT ![k] = NoEntry]
    /\ UNCHANGED <<root, cwd, dev>>

\* Without a name: the name of an empty entry, whose minodeptr is null.
UmountBare ==
  /\ "umount bare" \in session.commands /\ \E k \in Entry : table[k].dev = 0
  /\ Restart

-----------------------------------------------------------------------------
(***************************************************************************)
(* change_dir with a path.  Any directory with the last name of a mount    *)
(* point is taken for that mount point.                                    *)
(***************************************************************************)
Entered(p) ==
  Least({k \in Entry : p.names # <<>> /\ table[k].path = <<Last(p.names)>>})

Nowhere(g) ==
  /\ g.ino = 0
  /\ minode' = g.minode /\ UNCHANGED <<root, cwd, dev, table, fds>>

\* mip, with what iget returned, is a directory; it is the root of root.
ToDir(mip)  == mip.at # NULL /\ IsDir(mip.minode[mip.at].of, mip.ino)
ToRoot(mip) == mip.at = root /\ mip.ino = Root

ToFile(mip) ==
  /\ mip.at # NULL /\ ~ToDir(mip)
  /\ minode' = mip.minode /\ UNCHANGED <<root, cwd, dev, table, fds>>

\* The entry root's mptr designates: none, or one that was cleared since, and
\* it has no minodeptr.
RootEntry == IF minode[root].mptr = NULL THEN NoEntry ELSE table[minode[root].mptr]

\* A null pointer in root or cwd ends the process with its next use.
Enter(r, c) ==
  IF c.at = NULL THEN Restart
  ELSE /\ minode' = c.minode /\ root' = r.at /\ cwd' = c.at
       /\ UNCHANGED <<dev, table, fds>>

\* To the root of the file system root is on: by root's mptr.
Back(mip) ==
  /\ ToDir(mip) /\ ToRoot(mip) /\ RootEntry.minodeptr # NULL
  /\ \E r \in {iget(mip.minode, fds, minode[RootEntry.minodeptr].dev, Root)} :
       Enter(r, r)

\* Into a mounted file system: dev stays, and what was held is not put.
Into(p, mip) ==
  /\ ToDir(mip) /\ ~ToRoot(mip) /\ Entered(p) # NULL
  /\ \E r \in {iget(mip.minode, fds, table[Entered(p)].dev, Root)} :
     \E c \in {iget(r.minode, fds, table[Entered(p)].dev, Root)} :
       Enter(r, c)

\* A faulty variant: the new directory is put instead of the old one.
Within_PutNew(p, mip) ==
  /\ ToDir(mip) /\ ~ToRoot(mip) /\ Entered(p) = NULL
  /\ minode' = iput(mip.minode, mip.at) /\ cwd' = mip.at
  /\ UNCHANGED <<root, dev, table, fds>>

Within(p, mip) ==
  /\ ToDir(mip) /\ ~ToRoot(mip) /\ Entered(p) = NULL
  /\ minode' = iput(mip.minode, cwd) /\ cwd' = mip.at
  /\ UNCHANGED <<root, dev, table, fds>>

\* No slot for the inode, or no minodeptr at the root.
CdPanic(mip) ==
  /\ mip.at = NULL \/ (ToRoot(mip) /\ RootEntry.minodeptr = NULL)
  /\ Restart

Cd(p) ==
  /\ LooksUp("cd", p)
  /\ \E g \in {getino(minode, fds, dev, p)} :
       \/ Nowhere(g)
       \/ /\ g.ino # 0
          /\ \E mip \in {iget(g.minode, fds, dev, g.ino)} :
               \/ ToFile(mip) \/ Back(mip) \/ Into(p, mip)
               \/ Within(p, mip) \/ CdPanic(mip)

-----------------------------------------------------------------------------
(***************************************************************************)
(* open_file, as cat uses it: like creat_file, make_dir and myrmdir it     *)
(* sets dev first.  cat of what is not a regular file reads from a null    *)
(* pointer.                                                                *)
(***************************************************************************)
IsFile(f, i) ==
  /\ ~IsDir(f, i)
  /\ \E j \in Ino : \E x \in DOMAIN Entries(f, j) : Entries(f, j)[x].ino = i

Cat(p) ==
  LET d == minode[IF p.abs THEN root ELSE cwd].dev IN
  /\ Ready("cat", p)
  /\ \E g \in {getino(minode, fds, d, p)} :
     \E mip \in {iget(g.minode, fds, d, g.ino)} :
       /\ g.ino # 0
       /\ IF mip.at = NULL THEN Restart
          ELSE IF ~IsFile(mip.minode[mip.at].of, g.ino) THEN Restart
          ELSE /\ minode' = iput(mip.minode, mip.at) /\ dev' = d
               /\ UNCHANGED <<root, cwd, table, fds>>

Quit == Restart

Next ==
  /\ UNCHANGED session
  /\ \/ \E f \in session.files, p \in session.points : Mount(f, p)
     \/ \E f \in session.files : Umount(f)
     \/ UmountBare
     \/ \E p \in Path : Cd(p) \/ Cat(p)
     \/ Quit

Spec == Init /\ [][Next]_vars

-----------------------------------------------------------------------------
(***************************************************************************)
(* Properties                                                              *)
(***************************************************************************)
Mounted == {k \in Entry : table[k].dev # 0}
FromTable(t, s) == Cardinality({k \in Entry : t[k].minodeptr = s})
One(p) == IF p THEN 1 ELSE 0
PointersTo(s) == FromTable(table, s) + One(root = s) + One(cwd = s)

\* Sessions in which nothing is entered, and no file is refused.
Stays    == "cd" \notin session.commands
Accepted == session.files \subseteq Ext2

\* An entry's device is open on the file it names, an entry without a device
\* has no name, and no file is in two entries.
EntriesOpen ==
  /\ \A k \in Entry : IF k \in Mounted THEN fds[table[k].dev] = table[k].devname
                                        ELSE table[k].devname = None
  /\ \A j, k \in Mounted : table[j].devname = table[k].devname => j = k

\* No descriptor is open but those of the table.
NoFdLost == \A d \in Fd : fds[d] # None => \E k \in Mounted : table[k].dev = d

\* The mount table and the descriptors agree, whatever was mounted, refused,
\* entered and unmounted in between; only a refused mount loses a descriptor.
TableOK == TypeOK /\ EntriesOpen /\ (Accepted => NoFdLost)

\* Every pointer to a slot is counted, those of the mount table too, so that
\* no slot in use is recycled; only cd and a refused mount leave counts
\* without a pointer.
PointersCounted ==
  \A s \in Slot :
    /\ minode[s].refCount >= PointersTo(s)
    /\ Stays /\ Accepted => minode[s].refCount = PointersTo(s)

\* Between commands dev is the device of root, where paths are looked up,
\* and that is mounted: umount refuses it ("CANNOT UNMOUNT, BUSY!") and mount
\* sets dev back.  cd moves root away, and a refused mount leaves dev behind.
DevIsRoots ==
  Stays /\ Accepted =>
    /\ dev = minode[root].dev
    /\ \E k \in Mounted : table[k].dev = dev
=============================================================================
