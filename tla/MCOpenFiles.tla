---------------------------- MODULE MCOpenFiles ----------------------------
(* Instances for TLC: a regular file and a directory, or two files.         *)
EXTENDS OpenFiles

MCIno   == {3, 4}
MCFile  == {3}
MCFiles == {3, 4}
AllModes == 0..3
=============================================================================
