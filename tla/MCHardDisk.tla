----------------------------- MODULE MCHardDisk -----------------------------
(* Instances of HardDisk for TLC: one drive of eight sectors, the whole of *)
(* it and two partitions, and a minor device of a second drive.            *)
EXTENDS HardDisk, TLC

MCPartition == (0 :> <<0, 8>>) @@ (1 :> <<0, 3>>) @@ (2 :> <<3, 4>>) @@ (3 :> <<7, 0>>) @@ (4 :> <<7, 0>>)
MCAsked == {<<READ, 2, 0>>, <<WRITE, 2, 1>>, <<WRITE, 1, 1>>, <<READ, 5, 0>>, <<WRITE, 2, 0>>}
=============================================================================
