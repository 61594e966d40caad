----------------------------- MODULE InodeStore -----------------------------
(***************************************************************************)
(* What iget and iput promise together: one current value per inode,       *)
(* whoever looks at it and through whichever pointer, and a stable value   *)
(* that is what the next start of the program will find.  Only a write     *)
(* through a pointer changes the current value.  It has become stable when *)
(* the last pointer to the inode is given back; stopping the program drops *)
(* whatever has not.                                                       *)
(***************************************************************************)
CONSTANTS
  Key,         \* the inodes, named by device and number
  Content,     \* what an inode can hold
  Holder,      \* pointer variables
  RootHolder,  \* those that point to the root inode from the start
  RootKey,     \* the root inode
  NoKey        \* what a null pointer points to

VARIABLES
  val,         \* the current value of each inode
  stable,      \* the value on the disk
  asked        \* the inode each pointer designates

vars == <<val, stable, asked>>

Boot == [h \in Holder |-> IF h \in RootHolder THEN RootKey ELSE NoKey]

Init ==
  /\ stable \in [Key -> Content]
  /\ val = stable
  /\ asked = Boot

Open(h, k) ==
  /\ asked[h] = NoKey
  /\ asked' = [asked EXCEPT ![h] = k]
  /\ UNCHANGED <<val, stable>>

Shared(h) == \E g \in Holder \ {h} : asked[g] = asked[h]

Close(h) ==
  /\ asked[h] # NoKey
  /\ asked' = [asked EXCEPT ![h] = NoKey]
  /\ stable' = IF Shared(h) THEN stable
               ELSE [stable EXCEPT ![asked[h]] = val[asked[h]]]
  /\ UNCHANGED val

Write(h, c) ==
  /\ asked[h] # NoKey
  /\ val' = [val EXCEPT ![asked[h]] = c]
  /\ UNCHANGED <<stable, asked>>

\* The current value, and no other, reaches the disk.
Sync(k) ==
  /\ stable' = [stable EXCEPT ![k] = val[k]]
  /\ UNCHANGED <<val, asked>>

\* The program stops, by quit or by being killed, and is started again.
Stop ==
  /\ val' = stable
  /\ asked' = Boot
  /\ UNCHANGED stable

Next ==
  \/ \E h \in Holder, k \in Key : Open(h, k)
  \/ \E h \in Holder : Close(h)
  \/ \E h \in Holder, c \in Content : Write(h, c)
  \/ \E k \in Key : Sync(k)
  \/ Stop

Spec == Init /\ [][Next]_vars
=============================================================================
