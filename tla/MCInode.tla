------------------------------- MODULE MCInode ------------------------------
(* Instances of Inode for TLC: an inode of a hard disk and one of a floppy. *)
EXTENDS Inode

MCKeys == {<<769, 1>>, <<520, 1>>}
MCFloppies == {520}
=============================================================================
