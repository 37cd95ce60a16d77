---------------------------- MODULE BlockRequest ----------------------------
(***************************************************************************)
(* The request structures of the block layer (kernel/blk_drv/blk.h) and    *)
(* the elevator that orders them (add_request in ll_rw_blk.c), as pure     *)
(* operators.  A block is the pair <<device, block number>>; device        *)
(* numbers carry the major number in the high byte, as in the kernel.  A   *)
(* device's linked list of requests is the sequence of its slots in the    *)
(* table `request`, the current request first.                             *)
(***************************************************************************)
EXTENDS Integers, Sequences

READ  == "READ"
WRITE == "WRITE"
READA == "READA"

(* MAJOR(dev): the high byte of the device number. *)
MAJOR(dev) == dev \div 256

(* The buffer heads of a cleared cache name device 0, block 0. *)
NoBlock == <<0, 0>>

(* request.dev = -1: the slot is free. *)
NoRequest == [cmd |-> "FREE", bh |-> 0, blk |-> NoBlock, moved |-> FALSE]

IsFree(r) == r.cmd = "FREE"

(* IN_ORDER(s1,s2): by command, then device, then sector. *)
IN_ORDER(s1, s2) ==
  \/ s1.cmd = READ /\ s2.cmd = WRITE
  \/ /\ s1.cmd = s2.cmd
     /\ \/ s1.blk[1] < s2.blk[1]
        \/ s1.blk[1] = s2.blk[1] /\ s1.blk[2] < s2.blk[2]

(* The positions of the list q, the last one aside, after which the loop   *)
(* of add_request would link req in.                                       *)
Fits(request, q, req) ==
  {k \in 1 .. Len(q) - 1 :
     /\ \/ IN_ORDER(request[q[k]], req)
        \/ ~IN_ORDER(request[q[k]], request[q[k + 1]])
     /\ IN_ORDER(req, request[q[k + 1]])}

(* It takes the first of them, else the end.  The current request q[1] is  *)
(* never displaced.                                                        *)
ElevatorPosition(request, q, req) ==
  LET fits == Fits(request, q, req)
  IN  IF fits = {} THEN Len(q) ELSE CHOOSE k \in fits : \A j \in fits : k <= j

(* q with slot s linked in after position k. *)
LinkAfter(q, k, s) ==
  [i \in 1 .. Len(q) + 1 |-> IF i <= k THEN q[i]
                             ELSE IF i = k + 1 THEN s ELSE q[i - 1]]

(* add_request on the list of one device. *)
Enqueue(request, q, s, req) ==
  IF q = << >> THEN <<s>>
               ELSE LinkAfter(q, ElevatorPosition(request, q, req), s)

(* The slots make_request may use, scanned from the high end: the last     *)
(* third of the table is kept for reads.                                   *)
UsableSlots(rw, NR_REQUEST) ==
  IF rw = READ THEN 1 .. NR_REQUEST ELSE 1 .. (NR_REQUEST * 2) \div 3
=============================================================================
