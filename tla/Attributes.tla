----------------------------- MODULE Attributes -----------------------------
(***************************************************************************)
(* chmod, utime and stat (misc_functions.c): how the mode of an inode is   *)
(* computed from the digits given, and which of the changes get to disk.   *)
(*                                                                         *)
(* An inode that something holds, as cwd, root and the directories cd leads *)
(* to are held, is changed in memory; any other is loaded for the command  *)
(* into a slot whose dirty flag is the one the inode before it left.       *)
(***************************************************************************)
EXTENDS Integers, Sequences

CONSTANTS
  Inode,     \* inode numbers
  Root,      \* the one held from the start, by several references
  Kind,      \* the type of each: 8 regular, 4 directory, 10 symbolic link
  Digits,    \* the modes chmod is given, sequences of characters
  MaxTime,   \* bound on the clock
  MaxKill    \* bound on how often the process is killed

\* The characters 0 to 7 are themselves, NUL ends a string, and NotOctal is
\* any other character.
NUL      == 8
NotOctal == 9
Octal    == 0..7
TYPE     == 4096     \* i_mode holds the type above twelve bits
MODE     == 65536    \* and is a 16-bit number
Perms    == 0..511   \* the nine lowest bits

ASSUME AttributesAssumption ==
  /\ Root \in Inode /\ Kind \in [Inode -> {8, 4, 10}]
  /\ \A s \in Digits : s \in Seq(Octal \cup {NotOctal})
  /\ MaxTime \in Nat /\ MaxKill \in Nat

VARIABLES
  disk,      \* mode and atime of each inode on disk
  core,      \* of each inode held: mode, atime and the dirty flag of its slot
  held,      \* the inodes held
  time,      \* the clock
  wanted,    \* history: the permissions each inode was last given
  odd,       \* history: the inodes given a mode of another form
  kills      \* how often the process was killed

attrVars == <<disk, core, held, time, wanted, odd, kills>>

AttrOK ==
  /\ disk \in [Inode -> [mode : 0..(MODE - 1), atime : 0..MaxTime]]
  /\ core \in [Inode -> [mode : 0..(MODE - 1), atime : 0..MaxTime, dirty : BOOLEAN]]
  /\ held \subseteq Inode /\ Root \in held
  /\ time \in 0..MaxTime /\ kills \in 0..MaxKill
  /\ wanted \in [Inode -> Perms] /\ odd \subseteq Inode

Load(d, stale) == [mode |-> d.mode, atime |-> d.atime, dirty |-> stale]
Out(c)         == [mode |-> c.mode, atime |-> c.atime]

-----------------------------------------------------------------------------
(***************************************************************************)
(* The digits: sprintf of the type alone, three characters put over the    *)
(* last three digits, strtol.                                              *)
(***************************************************************************)
TypeDigits(type) ==
  CASE type = 8 -> <<1, 0, 0>> [] type = 4 -> <<4, 0>> [] type = 10 -> <<1, 2, 0>>

\* The argument in its buffer, which is zero behind it.
Char(s, k) == IF k <= Len(s) THEN s[k] ELSE NUL

\* strtol stops at the first character that is no octal digit.
strtol(s) ==
  LET bad == {k \in DOMAIN s : s[k] \notin Octal}
      n   == IF bad = {} THEN Len(s) ELSE (CHOOSE k \in bad : \A j \in bad : k <= j) - 1
      value[k \in 0..n] == IF k = 0 THEN 0 ELSE 8 * value[k - 1] + s[k]
  IN value[n]

ModeOf(type, s) ==
  strtol(TypeDigits(type) \o <<Char(s, 1), Char(s, 2), Char(s, 3)>>) % MODE

Perm(s) == 64 * s[1] + 8 * s[2] + s[3]

-----------------------------------------------------------------------------
AttrInit ==
  /\ disk = [i \in Inode |-> [mode |-> Kind[i] * TYPE + 420, atime |-> 0]]
  /\ core = [i \in Inode |-> Load(disk[i], FALSE)]
  /\ held = {Root} /\ time = 0 /\ kills = 0
  /\ wanted = [i \in Inode |-> 420] /\ odd = {}

\* The form chmod is made for: three octal digits.
Asked(i, s) ==
  IF Len(s) = 3 /\ s \in Seq(Octal)
  THEN wanted' = [wanted EXCEPT ![i] = Perm(s)] /\ UNCHANGED odd
  ELSE odd' = odd \cup {i} /\ UNCHANGED wanted

\* What a command that loads inode i gets, and what it leaves when it puts it
\* as c.
Got(i, stale) == IF i \in held THEN core[i] ELSE Load(disk[i], stale)

Leaves(i, c) ==
  IF i \in held
  THEN core' = [core EXCEPT ![i] = c] /\ UNCHANGED disk
  ELSE /\ disk' = IF c.dirty THEN [disk EXCEPT ![i] = Out(c)] ELSE disk
       /\ UNCHANGED core

TypeOf(i) == Got(i, FALSE).mode \div TYPE

\* A faulty variant: the inode is not marked dirty.
mychmod_NotDirty(i, s) ==
  /\ TypeOf(i) \in {8, 4, 10}
  /\ \E stale \in BOOLEAN :
       Leaves(i, [Got(i, stale) EXCEPT !.mode = ModeOf(TypeOf(i), s)])
  /\ Asked(i, s)
  /\ UNCHANGED <<held, time, kills>>

\* Of an inode of no known type the buffer is not initialised: not modelled.
mychmod(i, s) ==
  /\ TypeOf(i) \in {8, 4, 10}
  /\ Leaves(i, [Got(i, TRUE) EXCEPT !.mode = ModeOf(TypeOf(i), s), !.dirty = TRUE])
  /\ Asked(i, s)
  /\ UNCHANGED <<held, time, kills>>

\* A faulty variant: the time is written to the disk, past the inode in memory.
myutime_Disk(i) ==
  /\ time < MaxTime /\ time' = time + 1
  /\ disk' = [disk EXCEPT ![i].atime = time + 1]
  /\ UNCHANGED <<core, held, wanted, odd, kills>>

\* The inode is not marked dirty.
myutime(i) ==
  /\ time < MaxTime /\ time' = time + 1
  /\ \E stale \in BOOLEAN : Leaves(i, [Got(i, stale) EXCEPT !.atime = time + 1])
  /\ UNCHANGED <<held, wanted, odd, kills>>

\* stat looks at i, in a slot that may write it.
mystat(i) ==
  /\ \E stale \in BOOLEAN : Leaves(i, Got(i, stale))
  /\ UNCHANGED <<held, time, wanted, odd, kills>>

\* cd leads to i, and leaves it.
Hold(i) ==
  /\ i \notin held /\ held' = held \cup {i}
  /\ \E stale \in BOOLEAN : core' = [core EXCEPT ![i] = Load(disk[i], stale)]
  /\ UNCHANGED <<disk, time, wanted, odd, kills>>

Written(S) == [i \in Inode |-> IF i \in S /\ core[i].dirty THEN Out(core[i])
                             ELSE disk[i]]

Release(i) ==
  /\ i \in held \ {Root} /\ held' = held \ {i}
  /\ disk' = Written({i})
  /\ UNCHANGED <<core, time, wanted, odd, kills>>

\* The process ends: quit puts each inode once, which for the root's
\* references is not enough; killed, it puts none.  What the root was given
\* is forgotten.
Restart(S) ==
  /\ disk' = Written(S) /\ held' = {Root}
  /\ core' = [core EXCEPT ![Root] = Load(disk[Root], FALSE)]

Quit ==
  /\ Restart(held \ {Root})
  /\ wanted' = [wanted EXCEPT ![Root] = disk[Root].mode % 512]
  /\ UNCHANGED <<time, odd, kills>>

Kill ==
  /\ kills < MaxKill /\ kills' = kills + 1
  /\ Restart({})
  /\ wanted' = [i \in Inode |-> IF i \in held THEN disk[i].mode % 512 ELSE wanted[i]]
  /\ UNCHANGED <<time, odd>>

AttrNext ==
  \/ \E i \in Inode, s \in Digits : mychmod(i, s)
  \/ \E i \in Inode : myutime(i) \/ mystat(i) \/ Hold(i) \/ Release(i)
  \/ Quit \/ Kill

AttrSpec == AttrInit /\ [][AttrNext]_attrVars

-----------------------------------------------------------------------------
(***************************************************************************)
(* Properties                                                              *)
(***************************************************************************)
Shown(i) == IF i \in held THEN Out(core[i]) ELSE disk[i]

\* The mode of an inode has the type it was made with ("reg file", "dir",
\* "symlink") and the permissions chmod was given last, through releases, quit
\* and recycled slots, and also after a kill unless the inode was held.  A
\* mode of another form than three octal digits can change the type.
ModeKept ==
  \A i \in Inode \ odd : Shown(i).mode = Kind[i] * TYPE + wanted[i]

ModesOK == AttrOK /\ ModeKept

\* utime marks nothing dirty, and its time gets to disk with another change or
\* with the flag the slot was left with, or not at all; but a put or a quit
\* never takes the time on disk back to an earlier one.
AtimeForward ==
  [][\A i \in Inode : disk'[i].atime >= disk[i].atime]_attrVars
=============================================================================
