---------------------------- MODULE MCNamespace ----------------------------
(* Instances for TLC.  Paths of one and two names; few inodes, so that they *)
(* run out and are reused; blocks numbered so that the inode numbers are    *)
(* those of metadata blocks, as on the real disks.                          *)
EXTENDS Namespace

CONSTANTS na, nb
Files    == {<<na>>, <<nb>>, <<na, nb>>}
Tree     == Files \cup {<<na, na>>}
MCIno    == 2..4
MCMeta   == 1..5
MCBlock  == 1..8      \* root's block is 6, two more for directories

Making   == {"creat", "mkdir", "link", "symlink"}
Linking  == {"creat", "link", "unlink", "symlink"}
Removing == {"creat", "mkdir", "link", "rmdir"}
Moving   == {"creat", "mkdir", "cp", "mv"}
MCSessions == {Making, Linking, Removing, Moving}
InUse      == {{"creat", "unlink"}}
=============================================================================
