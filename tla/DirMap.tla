------------------------------- MODULE DirMap -------------------------------
(***************************************************************************)
(* What a directory promises the commands that use it: a map from names to *)
(* inode numbers, to which a new name is added and from which a name is    *)
(* taken, the others staying as they are.                                  *)
(***************************************************************************)
CONSTANTS
  Name,        \* names of entries, "." and ".." left out
  Ino          \* inode numbers

VARIABLE
  map          \* the directory

Init == map = [nm \in {} |-> nm]

Enter(nm, ino) ==
  /\ nm \notin DOMAIN map
  /\ map' = [x \in DOMAIN map \cup {nm} |-> IF x = nm THEN ino ELSE map[x]]

Remove(nm) ==
  /\ nm \in DOMAIN map
  /\ map' = [x \in DOMAIN map \ {nm} |-> map[x]]

Next == \E nm \in Name : Remove(nm) \/ \E ino \in Ino : Enter(nm, ino)

Spec == Init /\ [][Next]_map
=============================================================================
