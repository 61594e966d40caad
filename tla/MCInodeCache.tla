---------------------------- MODULE MCInodeCache ---------------------------
(* Instance for TLC: a table of two slots, three inodes, root and cwd, and *)
(* two pointers of commands, so that slots are shared, recycled with their *)
(* dirty flag set, and exhausted.                                          *)
EXTENDS InodeCache

CONSTANTS root, cwd, mip, pip, kroot, ka, kb, zero, one
MCHolder     == {root, cwd, mip, pip}
MCRootHolder == {root, cwd}
MCKey        == {kroot, ka, kb}
MCContent    == {zero, one}
=============================================================================
