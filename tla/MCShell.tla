------------------------------ MODULE MCShell ------------------------------
(* Instances for TLC: a directory in a directory, beside it another one, a  *)
(* file in each of the first two.                                           *)
EXTENDS Shell

Entry(nm, i) == [name |-> nm, ino |-> i]
Dir(self, up, ents) == <<Entry(".", self), Entry("..", up)>> \o ents

MCTree ==
  (2 :> Dir(2, 2, <<Entry("a", 3), Entry("f", 5)>>)) @@
  (3 :> Dir(3, 2, <<Entry("b", 4)>>)) @@
  (4 :> Dir(4, 3, <<>>)) @@
  (5 :> <<>>)

Abs(names) == [abs |-> TRUE, names |-> names]
Rel(names) == [abs |-> FALSE, names |-> names]
MCPath == {Abs(<<>>), Abs(<<"a", "b">>), Abs(<<"f">>), Rel(<<"a">>), Rel(<<"b">>),
           Rel(<<"..">>), Abs(<<"f", "b">>)}
Walking == {"cd path", "stat", "ls"}
Listing == {"cd path", "ls relative", "ls bare", "pwd"}
Bare    == {"cd", "cd path", "stat"}
MCSessions == {Walking, Listing, Bare}
=============================================================================
