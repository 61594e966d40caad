---------------------------- MODULE MCInodeTable ----------------------------
(* Instances for TLC: a table of ten inodes in two blocks.                  *)
EXTENDS InodeTable, TLC

OneGroup == 0 :> 3
MCUsed   == {1, 2, 8, 9, 10}
=============================================================================
