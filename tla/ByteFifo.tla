------------------------------ MODULE ByteFifo ------------------------------
(***************************************************************************)
(* What the ring buffer driver (ldd/chrdev/ringbuffer.c) promises to the   *)
(* processes that read and write its device, and a pipe (linux-0.11,       *)
(* fs/pipe.c) to those that have its ends: a bounded queue of bytes.       *)
(* Every byte stored is handed out once, in the order of storing; a write  *)
(* larger than the space left is stored in pieces.                         *)
(***************************************************************************)
EXTENDS Naturals, Sequences

CONSTANTS
  Readers, Writers,
  Messages,       \* what writers write
  Sizes,          \* how much readers ask for
  Capacity        \* bytes the queue can hold

VARIABLES
  fifo,           \* the bytes stored and not yet taken
  left,           \* per writer: the bytes of its message still to store
  got             \* per reader: the bytes its read has taken

vars == <<fifo, left, got>>

Init == /\ fifo = << >>
        /\ left = [w \in Writers |-> << >>]
        /\ got = [r \in Readers |-> << >>]

(* A writer comes with a message, also again after a signal. *)
StartWrite(w) == /\ \E m \in Messages : left' = [left EXCEPT ![w] = m]
                 /\ UNCHANGED <<fifo, got>>

Put(w) == /\ left[w] # << >> /\ Len(fifo) < Capacity
          /\ fifo' = Append(fifo, Head(left[w]))
          /\ left' = [left EXCEPT ![w] = Tail(@)]
          /\ UNCHANGED got

(* A signal ends a write early; what is stored stays stored. *)
AbandonWrite(w) == /\ left' = [left EXCEPT ![w] = << >>]
                   /\ UNCHANGED <<fifo, got>>

Get(r) == /\ fifo # << >>
          /\ got' = [got EXCEPT ![r] = Append(@, Head(fifo))]
          /\ fifo' = Tail(fifo)
          /\ UNCHANGED left

(* The read ends, with its bytes or, after a signal, without them. *)
EndRead(r) == /\ got' = [got EXCEPT ![r] = << >>]
              /\ UNCHANGED <<fifo, left>>

Next == \/ \E w \in Writers : StartWrite(w) \/ Put(w) \/ AbandonWrite(w)
        \/ \E r \in Readers : Get(r) \/ EndRead(r)

Spec == Init /\ [][Next]_vars
=============================================================================
