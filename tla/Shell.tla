------------------------------- MODULE Shell -------------------------------
(***************************************************************************)
(* cd, pwd, ls and stat (cd_ls_pwd.c, misc_functions.c) over the slots of  *)
(* minode[].  InodeCache assumes that every reference taken is put once;   *)
(* these commands do not keep to it: cd to a file and ls put less than     *)
(* they take, cd without an argument and the walk of pwd put more.  A      *)
(* count is therefore an integer here, and a slot with a count below 0     *)
(* still answers iget.                                                     *)
(*                                                                         *)
(* The tree does not change and there is one device: the commands that     *)
(* change the tree are in Namespace, mounted devices in MountTable.  Files *)
(* are empty.  A command is one step, except that the walk of pwd and ls   *)
(* from the working directory up to the root is one step per call.         *)
(***************************************************************************)
EXTENDS Integers, Sequences, SequencesExt

CONSTANTS
  NMINODE,   \* number of slots of minode[]
  Tree,      \* the entries of each inode's block; those of a file are <<>>
  Path,      \* the paths given to commands
  Sessions,  \* sets of commands: a user keeps to one of them
  MaxRef,    \* bound: commands are given while every count is within it
  MaxBare    \* bound on the cd without an argument given to one process

Root == 2
NULL == 0
Slot == 1..NMINODE
Ino  == DOMAIN Tree
Name == {e.name : e \in UNION {ToSet(Tree[i]) : i \in Ino}}

ASSUME ShellAssumption ==
  /\ NMINODE \in Nat \ {0} /\ MaxRef \in Nat /\ MaxBare \in Nat
  /\ Root \in Ino /\ Ino \subseteq Nat \ {0}
  /\ \A p \in Path : p.abs \in BOOLEAN /\ p.names \in Seq(Name)

VARIABLES
  session,   \* the commands the user keeps to
  minode,    \* each slot: reference count and inode number
  root,      \* the slot the global root points to
  cwd,       \* the slot running->cwd points to
  job,       \* the walk under way
  here,      \* history: the directory the last cd led to
  bare       \* history: how often cd was given without an argument

past == <<here, bare>>
vars == <<session, minode, root, cwd, job, past>>

NoJob == [cmd |-> "none", wd |-> NULL, parent |-> 0, self |-> 0,
          path |-> <<>>, dest |-> <<>>]

TypeOK ==
  /\ minode \in [Slot -> [refCount : Int, ino : Ino \cup {0}]]
  /\ root \in Slot /\ cwd \in Slot
  /\ session \in Sessions
  /\ job \in [cmd : {"none", "pwd", "ls"}, wd : Slot \cup {NULL},
              parent : Ino \cup {0}, self : Ino \cup {0},
              path : Seq(Name), dest : Seq(Name)]
  /\ here \in Ino /\ bare \in 0..MaxBare

IsDir(i) == Tree[i] # <<>>
First(S) == IF S = {} THEN NULL ELSE CHOOSE s \in S : \A t \in S : s <= t

\* What is read for inode 0, next to a buffer, is taken to have no entries.
Block(i) == IF i \in Ino THEN Tree[i] ELSE <<>>

\* The inode named nm in the block of inode i, 0 if there is none.
search(i, nm) ==
  LET k == First({x \in DOMAIN Block(i) : Block(i)[x].name = nm})
  IN IF k = NULL THEN 0 ELSE Block(i)[k].ino

\* Every directory is the first entry of its block named ".", and is named in
\* the one that its ".." names, as mke2fs and mkdir leave them.
ASSUME TreeAssumption ==
  \A i \in Ino :
    /\ Tree[i] \in Seq([name : Name, ino : Ino])
    /\ IsDir(i) =>
         LET up == search(i, "..")
         IN search(i, ".") = i /\ \E x \in DOMAIN Block(up) : Block(up)[x].ino = i

-----------------------------------------------------------------------------
(***************************************************************************)
(* The slots.  iget gives the slot, NULL when all are in use.              *)
(***************************************************************************)
Found(m, i)  == {s \in Slot : m[s].refCount # 0 /\ m[s].ino = i}
Unused(m)    == {s \in Slot : m[s].refCount = 0}

iget(m, i) ==
  LET found == Found(m, i)
      s == First(IF found # {} THEN found ELSE Unused(m))
  IN [at |-> s, ino |-> i,
      minode |-> IF s = NULL THEN m
                 ELSE IF found # {} THEN [m EXCEPT ![s].refCount = @ + 1]
                 ELSE [m EXCEPT ![s] = [refCount |-> 1, ino |-> i]]]

iput(m, s) == IF s = NULL THEN m ELSE [m EXCEPT ![s].refCount = @ - 1]

\* One component of a path, from the directory in slot w.at.
Component(w, nm) ==
  LET i   == search(w.minode[w.at].ino, nm)
      put == iput(w.minode, w.at)
  IN IF w.at = NULL THEN w
     ELSE IF i = 0 THEN [at |-> NULL, ino |-> 0, minode |-> put]
     ELSE iget(put, i)

\* The names of a path, one after the other, from inode i.
Lookup(m, i, names) ==
  LET w[k \in 0..Len(names)] ==
        IF k = 0 THEN iget(m, i) ELSE Component(w[k - 1], names[k])
  IN w[Len(names)]

\* A faulty variant: cwd is put, too.
getino_PutCwd(m, p) ==
  LET start == IF p.abs THEN Root ELSE m[cwd].ino
      w     == Lookup(m, start, p.names)
  IN IF p.abs /\ p.names = <<>> THEN [at |-> NULL, ino |-> Root, minode |-> m]
     ELSE [w EXCEPT !.minode = iput(iput(@, w.at), cwd)]

\* A relative path starts at whatever inode cwd's slot holds.
getino(m, p) ==
  LET start == IF p.abs THEN Root ELSE m[cwd].ino
      w     == Lookup(m, start, p.names)
  IN IF p.abs /\ p.names = <<>> THEN [at |-> NULL, ino |-> Root, minode |-> m]
     ELSE [w EXCEPT !.minode = iput(@, w.at)]

\* The path is looked up and its inode loaded.  A null pointer met on the
\* way is met again here, since no slot has become unused since.
Open(p) == LET g == getino(minode, p) IN iget(g.minode, g.ino)

\* The fields mounted and mptr were set in the first slot only, by
\* mount_root, and iget leaves them as they are.
HasMptr(s) == s = 1

-----------------------------------------------------------------------------
(***************************************************************************)
(* mount_root: root, the mount table and cwd hold the root inode.  It is   *)
(* also how the next process begins when this one used a null pointer, or  *)
(* something outside a buffer.                                             *)
(***************************************************************************)
BootTable == [s \in Slot |-> IF s = 1 THEN [refCount |-> 3, ino |-> Root]
                                      ELSE [refCount |-> 0, ino |-> 0]]

Init ==
  /\ session \in Sessions
  /\ minode = BootTable /\ root = 1 /\ cwd = 1
  /\ job = NoJob /\ here = Root
  /\ bare = 0

Restart ==
  /\ minode' = BootTable /\ root' = 1 /\ cwd' = 1
  /\ job' = NoJob /\ here' = Root /\ bare' = 0

Panic == Restart

\* What quit writes back is not of this model.
Quit == job = NoJob /\ Restart

\* Command c can be given; ls of a relative path, which may need the walk,
\* counts as one of its own.
Ready(c) ==
  /\ c \in session /\ job = NoJob
  /\ \A s \in Slot : minode[s].refCount \in -MaxRef..MaxRef

\* The command leaves the slots as m, and everything else as it is.
Returns(m) == minode' = m /\ UNCHANGED <<root, cwd, job, past>>

-----------------------------------------------------------------------------
(***************************************************************************)
(* change_dir                                                              *)
(***************************************************************************)
CdRootwards ==
  /\ Ready("cd") /\ bare < MaxBare
  /\ minode' = iput(minode, cwd) /\ cwd' = root
  /\ here' = Root /\ bare' = bare + 1
  /\ UNCHANGED <<root, job>>

CdNowhere(p) ==
  /\ Ready("cd path") /\ getino(minode, p).ino = 0
  /\ Returns(getino(minode, p).minode)

CdFile(p) ==
  LET o == Open(p) IN
  /\ Ready("cd path") /\ o.ino # 0 /\ o.at # NULL /\ ~IsDir(o.ino)
  /\ Returns(o.minode)

\* root and cwd are set from a new reference; what cwd held is not put.
CdRoot(p) ==
  LET o == Open(p)
      r == iget(o.minode, Root)
  IN /\ Ready("cd path") /\ o.ino = Root /\ o.at = root /\ HasMptr(root)
     /\ minode' = r.minode /\ root' = r.at /\ cwd' = r.at /\ here' = Root
     /\ UNCHANGED <<job, bare>>

\* A faulty variant: the new directory is put instead of the old one.
CdDir_PutNew(p) ==
  LET o == Open(p) IN
  /\ Ready("cd path") /\ o.ino # 0 /\ o.at # NULL /\ IsDir(o.ino)
  /\ ~(o.at = root /\ o.ino = Root)
  /\ minode' = iput(o.minode, o.at) /\ cwd' = o.at /\ here' = o.ino
  /\ UNCHANGED <<root, job, bare>>

CdDir(p) ==
  LET o == Open(p) IN
  /\ Ready("cd path") /\ o.ino # 0 /\ o.at # NULL /\ IsDir(o.ino)
  /\ ~(o.at = root /\ o.ino = Root)
  /\ minode' = iput(o.minode, cwd) /\ cwd' = o.at /\ here' = o.ino
  /\ UNCHANGED <<root, job, bare>>

CdPanic(p) ==
  LET o == Open(p) IN
  /\ Ready("cd path") /\ o.ino # 0
  /\ o.at = NULL \/ (o.ino = Root /\ o.at = root /\ ~HasMptr(root))
  /\ Panic

\* stat, and what the other commands do to look at an inode: as many
\* references put as taken.
Stat(p) ==
  LET o == Open(p) IN
  /\ Ready("stat") /\ o.ino # 0
  /\ IF o.at = NULL THEN Panic ELSE Returns(iput(o.minode, o.at))

-----------------------------------------------------------------------------
(***************************************************************************)
(* The walk from the working directory to the root: rpwd and ls_rpwd.      *)
(***************************************************************************)
\* iget and iput of inode i: one that was not loaded is left in a slot that
\* counts 0, in place of the inode that was there.
Look(m, i) ==
  IF Found(m, i) # {} \/ Unused(m) = {} THEN m
  ELSE [m EXCEPT ![First(Unused(m))] = [refCount |-> 0, ino |-> i]]

\* The directory's own reference, which the caller needs, is put.
get_myino(m, s, nm) ==
  LET i == search(m[s].ino, nm)
  IN [ino |-> i, minode |-> IF i = 0 THEN iput(m, s) ELSE Look(iput(m, s), i)]

get_myname(pino, ino) ==
  Tree[pino][First({x \in DOMAIN Tree[pino] : Tree[pino][x].ino = ino})].name

Climbing == job # NoJob /\ job.wd # root

\* What is read of a file instead of a directory is outside a buffer.
AskParent ==
  LET g == get_myino(minode, job.wd, "..") IN
  /\ Climbing /\ job.parent = 0
  /\ IF g.ino = 0 THEN Panic
     ELSE /\ minode' = g.minode /\ job' = [job EXCEPT !.parent = g.ino]
          /\ UNCHANGED <<root, cwd, past>>

\* If the slot of wd was recycled by the step before, "." is that of another
\* directory.
AskSelf ==
  LET g == get_myino(minode, job.wd, ".") IN
  /\ Climbing /\ job.parent # 0 /\ job.self = 0
  /\ IF g.ino = 0 THEN Panic
     ELSE /\ minode' = g.minode /\ job' = [job EXCEPT !.self = g.ino]
          /\ UNCHANGED <<root, cwd, past>>

\* The call of rpwd for the parent, which is not put after it.
Climb ==
  LET pip == iget(minode, job.parent) IN
  /\ Climbing /\ job.self # 0
  /\ IF pip.at = NULL THEN Panic
     ELSE /\ minode' = pip.minode
          /\ job' = [job EXCEPT !.wd = pip.at, !.parent = 0, !.self = 0,
                       !.path = <<get_myname(job.parent, job.self)>> \o @]
          /\ UNCHANGED <<root, cwd, past>>

Walk(cmd, dest) == job' = [NoJob EXCEPT !.cmd = cmd, !.wd = cwd, !.dest = dest]

\* pwd reads the name of the root device through root's mptr to print.
Prints ==
  IF HasMptr(root)
  THEN job' = NoJob /\ UNCHANGED <<minode, root, cwd, past>>
  ELSE Panic

\* A faulty variant: pwd puts the directory it starts from in root, too.
Pwd_PutsRoot ==
  /\ Ready("pwd")
  /\ IF cwd = root
     THEN /\ minode' = iput(minode, cwd) /\ job' = NoJob
          /\ UNCHANGED <<root, cwd, past>>
     ELSE Walk("pwd", <<>>)
          /\ UNCHANGED <<minode, root, cwd, past>>

Pwd ==
  /\ Ready("pwd")
  /\ IF cwd = root THEN Prints
     ELSE Walk("pwd", <<>>)
          /\ UNCHANGED <<minode, root, cwd, past>>

\* A faulty variant: root is walked up from like any other directory, to
\* itself.
PwdEnd_NoReturn == job.cmd = "pwd" /\ job.wd = root /\ UNCHANGED vars

PwdEnd == job.cmd = "pwd" /\ job.wd = root /\ Prints

-----------------------------------------------------------------------------
(***************************************************************************)
(* list_file.  The references to what is listed, and to what it is listed  *)
(* from, are never put.                                                    *)
(***************************************************************************)
ls_file(o, e) == IF o.at = NULL THEN o ELSE iget(o.minode, e.ino)

EachListed(o, ents) ==
  LET l[k \in 0..Len(ents)] == IF k = 0 THEN o ELSE ls_file(l[k - 1], ents[k])
  IN l[Len(ents)]

ls_dir(m, names) ==
  LET g == getino(m, [abs |-> TRUE, names |-> names])
  IN [EachListed(iget(g.minode, g.ino), Block(g.ino)) EXCEPT !.ino = g.ino]

\* A path that leads nowhere makes ls_dir read an inode 0, next to a buffer:
\* it lists nothing, or ends the process.
ListDir(m, names) ==
  \E l \in {ls_dir(m, names)} :
    \/ /\ l.at # NULL
       /\ minode' = l.minode /\ job' = NoJob /\ UNCHANGED <<root, cwd, past>>
    \/ /\ l.at = NULL \/ l.ino = 0
       /\ Panic

\* list_file goes on from its inode, in slot o.at.
List(o, p) ==
  IF o.at = NULL THEN Panic
  ELSE IF o.ino # 0 /\ ~IsDir(o.ino) THEN Returns(ls_file(o, o).minode)
  ELSE IF p.abs \/ cwd = root THEN ListDir(o.minode, p.names)
  ELSE minode' = o.minode /\ Walk("ls", p.names)
       /\ UNCHANGED <<root, cwd, past>>

Ls(p) ==
  Ready(IF p.abs THEN "ls" ELSE "ls relative") /\ Open(p).ino # 0 /\ List(Open(p), p)

\* getino of the empty path returns an uninitialised number.
LsBare ==
  /\ Ready("ls bare")
  /\ \E i \in Ino \cup {0} :
       List(iget(minode, i), [abs |-> FALSE, names |-> <<>>])

LsEnd == job.cmd = "ls" /\ job.wd = root /\ ListDir(minode, job.path \o job.dest)

-----------------------------------------------------------------------------
Go(p) == CdNowhere(p) \/ CdFile(p) \/ CdRoot(p) \/ CdDir(p) \/ CdPanic(p)

Progress == AskParent \/ AskSelf \/ Climb \/ PwdEnd \/ LsEnd

Next ==
  /\ UNCHANGED session
  /\ \/ CdRootwards
     \/ \E p \in Path : Go(p) \/ Stat(p) \/ Ls(p)
     \/ Pwd \/ LsBare
     \/ Quit
     \/ Progress

Spec == Init /\ [][Next]_vars

\* The program is one thread: a command given runs, whatever it does.  (The
\* end of ls by what it does to job alone, which is all that matters here.)
EndsLs == job.cmd = "ls" /\ job.wd = root /\ job' = NoJob

FairSpec == Spec /\ WF_job(AskParent \/ AskSelf \/ Climb \/ PwdEnd \/ EndsLs)

-----------------------------------------------------------------------------
(***************************************************************************)
(* Properties                                                              *)
(***************************************************************************)
\* Sessions whose commands put no reference they do not have.
Balanced == session \cap {"pwd", "ls relative", "ls bare"} = {}

\* root designates the root inode, loaded: every absolute path, and the end
\* of every walk, depend on it ("load root INODE and set root pointer to
\* it", main.c).  This is so until the second cd without an argument.
RootIsRoot == bare < 2 => minode[root].ino = Root /\ minode[root].refCount > 0

\* cwd designates, loaded, the directory that the last cd led to ("return
\* minode pointer to loaded INODE", of iget), however many paths were looked
\* up and slots recycled since; pwd below the root puts cwd's reference.
CwdStays ==
  Balanced /\ bare < 2 => minode[cwd].ino = here /\ minode[cwd].refCount > 0

\* How many of the mount table, root and cwd point to slot s.
Pointers(s) ==
  LET To(t) == IF t = s THEN 1 ELSE 0 IN To(1) + To(root) + To(cwd)

\* Every pointer the process keeps is counted, those of the mount table, root
\* and cwd, whatever was leaked: a cd without an argument costs one count,
\* and nothing else costs any.
PointersCounted ==
  Balanced => \A s \in Slot : minode[s].refCount + bare >= Pointers(s)

\* The slots are well typed, and keep what is pointed to.
SlotsOK == TypeOK /\ PointersCounted

\* pwd and ls come to an end: their walk reaches the slot of root.
WalkEnds == job # NoJob ~> job = NoJob
=============================================================================
