--------------------------- MODULE MCBufferCache ----------------------------
(* Instances of BufferCache for TLC: blocks of one hard disk (major 3) and *)
(* of one floppy (major 2).                                                *)
EXTENDS BufferCache, TLC

MCOneBlock == {<<769, 1>>}
MCHardDisk == {<<769, 1>>, <<769, 2>>, <<769, 3>>}
MCTwoDisks == {<<769, 1>>, <<769, 2>>, <<520, 1>>}
MCFloppies == {520}

ProcSymmetry == Permutations(Procs)
=============================================================================
