---------------------------- MODULE MCAttributes ----------------------------
(* Instances for TLC: the root directory, a file and a symbolic link.       *)
EXTENDS Attributes, TLC

MCInode  == {2, 4, 5}
MCKind   == (2 :> 4) @@ (4 :> 8) @@ (5 :> 10)
AsMade   == {<<6, 4, 4>>}
AnyForm  == AsMade \cup {<<0, 0, 7>>, <<7>>}
=============================================================================
