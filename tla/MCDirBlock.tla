----------------------------- MODULE MCDirBlock -----------------------------
(* Instances for TLC: a block with room for four entries of the longest     *)
(* names, so that entries are removed first, last and in the middle.        *)
EXTENDS DirBlock

CONSTANTS a, b, c, d
MCName  == {a, b, c, d}
Five    == [nm \in MCName |-> 5]
Four    == [nm \in MCName |-> 4]
MCIno   == {13, 14}
=============================================================================
