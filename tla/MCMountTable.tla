---------------------------- MODULE MCMountTable ----------------------------
(* Instances for TLC: three file systems and a file that is none.  The      *)
(* directory m, with a file f in it, is on the first two; x is on the first *)
(* and the third only, under the number that f has on the second.           *)
EXTENDS MountTable

Ent(nm, i) == [name |-> nm, ino |-> i]
Dir(self, up, ents) == <<Ent(".", self), Ent("..", up)>> \o ents

Tree1 == (2 :> Dir(2, 2, <<Ent("m", 3), Ent("x", 4)>>)) @@
         (3 :> Dir(3, 2, <<>>)) @@ (4 :> Dir(4, 2, <<>>))
Tree2 == (2 :> Dir(2, 2, <<Ent("m", 3)>>)) @@
         (3 :> Dir(3, 2, <<Ent("f", 4)>>)) @@ (4 :> <<>>)
Tree3 == (2 :> Dir(2, 2, <<Ent("x", 4)>>)) @@
         (3 :> <<>>) @@ (4 :> Dir(4, 2, <<>>))

MCTree == ("A" :> Tree1) @@ ("B" :> Tree2) @@ ("C" :> Tree3)

Abs(names) == [abs |-> TRUE, names |-> names]
Rel(names) == [abs |-> FALSE, names |-> names]
Points == {Abs(<<"m">>), Abs(<<"x">>), Abs(<<"m", "f">>), Rel(<<"y">>)}
OnM    == {Abs(<<"m">>)}
Paths  == {Abs(<<>>), Abs(<<"m">>), Rel(<<"x">>), Rel(<<"..">>), Abs(<<"m", "f">>)}

Mounting == [commands |-> {"mount", "umount", "umount bare"},
             files |-> {"A", "B", "C"}, points |-> Points]
Entering == [commands |-> {"mount", "umount", "cd", "cat"},
             files |-> {"A", "B", "junk"}, points |-> OnM]
MCSessions == {Mounting, Entering}
=============================================================================
