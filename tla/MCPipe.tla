------------------------------- MODULE MCPipe -------------------------------
(* Instances of Pipe for TLC. *)
EXTENDS Pipe

MCMessages == {<<1>>, <<2, 1, 2, 1>>}
=============================================================================
