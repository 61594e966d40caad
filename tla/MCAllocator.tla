---------------------------- MODULE MCAllocator ----------------------------
(* Instance for TLC: three inodes and four blocks, one of each reserved.    *)
EXTENDS Allocator

MCKind     == {"inode", "block"}
MCLimit    == [k \in MCKind |-> IF k = "inode" THEN 3 ELSE 4]
MCReserved == [k \in MCKind |-> {1}]
=============================================================================
