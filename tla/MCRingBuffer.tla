---------------------------- MODULE MCRingBuffer ----------------------------
(* Instances of RingBuffer for TLC. *)
EXTENDS RingBuffer

MCMessages == {<<2>>, <<1, 2, 1>>}
=============================================================================
