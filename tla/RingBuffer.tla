----------------------------- MODULE RingBuffer -----------------------------
(***************************************************************************)
(* The ring buffer character driver (ldd/chrdev/ringbuffer.c): rb_read and *)
(* rb_write called concurrently by several processes.  A semaphore guards  *)
(* the positions; a writer that finds the buffer filled waits on wq, and   *)
(* evaluates is_filled without the semaphore.  Bytes are moved one by one. *)
(***************************************************************************)
EXTENDS Integers, Sequences

CONSTANTS
  Readers, Writers,
  MEMSIZE,        \* bytes in mem
  Bytes,
  Messages,       \* what writers write
  Sizes,          \* how much readers ask for
  Signals,        \* whether signals interrupt the calls
  MaxWrites       \* bound: writes made in all

ASSUME ProcsAssumption    == Readers \cap Writers = {}
ASSUME SizeAssumption     == MEMSIZE \in Nat /\ MEMSIZE >= 2
ASSUME MessagesAssumption == Messages \subseteq Seq(Bytes) \ {<< >>}
ASSUME SizesAssumption    == Sizes \subseteq Nat \ {0}
ASSUME BoundsAssumption   == Signals \in BOOLEAN /\ MaxWrites \in Nat

VARIABLES
  mem, read_pos, write_pos,
  sem,            \* the semaphore's count
  wq,             \* writers queued on dev->wq and not woken
  pc,
  left,           \* per writer: the bytes of buffer from buffer_pos on
  want, got,      \* per reader: bytes still asked for; bytes in buffer
  n,              \* per process: read_size or write_size of this round
  seen,           \* per writer: the write_pos loaded by is_filled
  writes          \* writes still allowed

devVars == <<mem, read_pos, write_pos>>
vars == <<devVars, sem, wq, pc, left, want, got, n, seen, writes>>

Procs     == Readers \cup Writers
Positions == 0 .. MEMSIZE - 1
Labels    == {"user", "down", "copy", "wake", "wait", "filled", "asleep", "down2", "out"}

-----------------------------------------------------------------------------
(* Positions: read_pos is the last byte read, write_pos the next to write. *)

buffer_used ==
  IF write_pos > read_pos THEN write_pos - read_pos - 1
                          ELSE write_pos - read_pos - 1 + MEMSIZE

idle_buffer == MEMSIZE - buffer_used - 1

Unwrapped == write_pos + 1  \* mutant: the position does not wrap

next_read_pos  == (read_pos + 1) % MEMSIZE
next_write_pos == (write_pos + 1) % MEMSIZE

is_empty  == (read_pos + 1) % MEMSIZE = write_pos
is_filled == write_pos = read_pos

Least(a, b) == IF a < b THEN a ELSE b

Goto(p, l) == pc' = [pc EXCEPT ![p] = l]

(* down_interruptible is interrupted while it waits. *)
Interrupted == Signals /\ sem = 0

-----------------------------------------------------------------------------
(* rb_write                                                                *)

WriteCall(w) ==
  /\ pc[w] = "user" /\ writes > 0
  /\ \E m \in Messages : left' = [left EXCEPT ![w] = m]
  /\ writes' = writes - 1
  /\ Goto(w, "down")
  /\ UNCHANGED <<devVars, sem, wq, want, got, n, seen>>

(* The semaphore is taken and the size of this round computed. *)
WriteRound(w) ==
  /\ sem' = 0
  /\ n' = [n EXCEPT ![w] = Least(Len(left[w]), idle_buffer)]
  /\ Goto(w, "copy")
  /\ UNCHANGED <<devVars, wq, left, want, got, seen, writes>>

KeepSem == sem' = 0  \* mutant: the writer waits with the semaphore

(* down and, as the buffer is filled, up. *)
DownUp == sem' = 1

WriteFilled(w) ==
  /\ pc[w] = "down" /\ sem = 1 /\ is_filled
  /\ DownUp
  /\ Goto(w, "wait")
  /\ UNCHANGED <<devVars, wq, left, want, got, n, seen, writes>>

WriteDown(w) == pc[w] = "down" /\ sem = 1 /\ ~is_filled /\ WriteRound(w)

(* wait_event_interruptible: the writer is on the queue before it loads    *)
(* write_pos ...                                                           *)
WaitLoad(w) ==
  /\ pc[w] = "wait"
  /\ wq' = wq \cup {w}
  /\ seen' = [seen EXCEPT ![w] = write_pos]
  /\ Goto(w, "filled")
  /\ UNCHANGED <<devVars, sem, left, want, got, n, writes>>

(* ... and compares it with read_pos. *)
WaitTest(w) ==
  /\ pc[w] = "filled"
  /\ IF seen[w] # read_pos
     THEN Goto(w, "down2") /\ wq' = wq \ {w}
     ELSE Goto(w, "asleep") /\ UNCHANGED wq
  /\ UNCHANGED <<devVars, sem, left, want, got, n, seen, writes>>

(* schedule() returns at once if there was a wake-up since WaitLoad. *)
WaitWoken(w) ==
  /\ pc[w] = "asleep" /\ w \notin wq
  /\ Goto(w, "wait")
  /\ UNCHANGED <<devVars, sem, wq, left, want, got, n, seen, writes>>

(* After the wait the buffer is not looked at again: no bytes may fit. *)
WriteDown2(w) == pc[w] = "down2" /\ sem = 1 /\ WriteRound(w)

(* A signal during the second down only repeats the loop. *)
WriteRetry(w) ==
  /\ pc[w] = "down2" /\ Interrupted
  /\ Goto(w, "down")
  /\ UNCHANGED <<devVars, sem, wq, left, want, got, n, seen, writes>>

WriteByte(w) ==
  /\ pc[w] = "copy" /\ n[w] > 0
  /\ mem' = [mem EXCEPT ![write_pos] = Head(left[w])]
  /\ left' = [left EXCEPT ![w] = Tail(@)]
  /\ write_pos' = next_write_pos
  /\ n' = [n EXCEPT ![w] = @ - 1]
  /\ UNCHANGED <<read_pos, sem, wq, pc, want, got, seen, writes>>

(* A signal ends the write: -ERESTARTSYS, though bytes may be stored. *)
WriteInterrupted(w) ==
  /\ Signals /\ (pc[w] = "asleep" \/ (pc[w] = "down" /\ sem = 0))
  /\ left' = [left EXCEPT ![w] = << >>]
  /\ wq' = wq \ {w}
  /\ Goto(w, "user")
  /\ UNCHANGED <<devVars, sem, want, got, n, seen, writes>>

-----------------------------------------------------------------------------
(* rb_read                                                                 *)

ReadCall(r) ==
  /\ pc[r] = "user"
  /\ \E size \in Sizes : want' = [want EXCEPT ![r] = size]
  /\ Goto(r, "down")
  /\ UNCHANGED <<devVars, sem, wq, left, got, n, seen, writes>>

ReadEmpty(r) ==
  /\ pc[r] = "down" /\ sem = 1 /\ is_empty
  /\ Goto(r, "out")
  /\ UNCHANGED <<devVars, sem, wq, left, want, got, n, seen, writes>>

ReadDown(r) ==
  /\ pc[r] = "down" /\ sem = 1 /\ ~is_empty
  /\ sem' = 0
  /\ n' = [n EXCEPT ![r] = Least(want[r], buffer_used)]
  /\ Goto(r, "copy")
  /\ UNCHANGED <<devVars, wq, left, want, got, seen, writes>>

ByteBehind(r) == mem[read_pos]  \* mutant: the byte before read_pos moves

(* The byte that is read: read_pos has moved to it. *)
ByteAhead(r) == mem[next_read_pos]

ReadByte(r) ==
  /\ pc[r] = "copy" /\ n[r] > 0
  /\ got' = [got EXCEPT ![r] = Append(@, ByteAhead(r))]
  /\ read_pos' = next_read_pos
  /\ want' = [want EXCEPT ![r] = @ - 1]
  /\ n' = [n EXCEPT ![r] = @ - 1]
  /\ UNCHANGED <<mem, write_pos, sem, wq, pc, left, seen, writes>>

(* copy_to_user and return. *)
ReadReturn(r) ==
  /\ pc[r] = "out"
  /\ got' = [got EXCEPT ![r] = << >>]
  /\ want' = [want EXCEPT ![r] = 0]
  /\ Goto(r, "user")
  /\ UNCHANGED <<devVars, sem, wq, left, n, seen, writes>>

(* A signal ends the read and frees the bytes it has taken. *)
ReadInterrupted(r) ==
  /\ pc[r] = "down" /\ Interrupted
  /\ got' = [got EXCEPT ![r] = << >>]
  /\ want' = [want EXCEPT ![r] = 0]
  /\ Goto(r, "user")
  /\ UNCHANGED <<devVars, sem, wq, left, n, seen, writes>>

-----------------------------------------------------------------------------
(* The end of a round of either: up, then wake_up_interruptible.           *)

Up(p) ==
  /\ pc[p] = "copy" /\ n[p] = 0
  /\ sem' = 1
  /\ Goto(p, "wake")
  /\ UNCHANGED <<devVars, wq, left, want, got, n, seen, writes>>

NoWake == UNCHANGED wq  \* mutant: no wake_up_interruptible

WakeAll == wq' = {}

More(p) == IF p \in Writers THEN left[p] # << >> ELSE want[p] > 0

Wake(p) ==
  /\ pc[p] = "wake"
  /\ WakeAll
  /\ Goto(p, IF More(p) THEN "down" ELSE IF p \in Writers THEN "user" ELSE "out")
  /\ UNCHANGED <<devVars, sem, left, want, got, n, seen, writes>>

-----------------------------------------------------------------------------
(* rb_init: the buffer is empty. *)
Init ==
  /\ mem \in [Positions -> Bytes]
  /\ read_pos = MEMSIZE - 1 /\ write_pos = 0
  /\ sem = 1 /\ wq = {}
  /\ pc = [p \in Procs |-> "user"]
  /\ left = [w \in Writers |-> << >>]
  /\ want = [r \in Readers |-> 0]
  /\ got = [r \in Readers |-> << >>]
  /\ n = [p \in Procs |-> 0]
  /\ seen = [w \in Writers |-> 0]
  /\ writes = MaxWrites

Down(p) == IF p \in Writers THEN WriteDown(p) \/ WriteDown2(p) \/ WriteFilled(p)
                            ELSE ReadDown(p) \/ ReadEmpty(p)

Writer(w) ==
  \/ WaitLoad(w) \/ WaitTest(w) \/ WaitWoken(w) \/ WriteByte(w)

Reader(r) == ReadCall(r) \/ ReadByte(r) \/ ReadReturn(r)

Signal(p) == \/ p \in Writers /\ (WriteRetry(p) \/ WriteInterrupted(p))
             \/ p \in Readers /\ ReadInterrupted(p)

Next == \/ \E w \in Writers : WriteCall(w) \/ Writer(w)
        \/ \E r \in Readers : Reader(r)
        \/ \E p \in Procs : Down(p) \/ Up(p) \/ Wake(p) \/ Signal(p)

Spec == Init /\ [][Next]_vars

(* Processes keep running, the semaphore serves its waiters in turn, and   *)
(* somebody keeps reading.                                                 *)
FairSpec == /\ Spec
            /\ \A w \in Writers : WF_vars(Writer(w))
            /\ \A r \in Readers : WF_vars(Reader(r))
            /\ \A p \in Procs : SF_vars(Down(p)) /\ WF_vars(Up(p)) /\ WF_vars(Wake(p))
-----------------------------------------------------------------------------
(* Properties                                                              *)

(* The types of the device and of the calls. *)
TypeOK == /\ mem \in [Positions -> Bytes]
          /\ read_pos \in Positions /\ write_pos \in Positions
          /\ sem \in {0, 1}
          /\ wq \subseteq Writers
          /\ pc \in [Procs -> Labels]
          /\ left \in [Writers -> Seq(Bytes)]
          /\ want \in [Readers -> Nat]
          /\ got \in [Readers -> Seq(Bytes)]
          /\ n \in [Procs -> Nat]
          /\ seen \in [Writers -> Positions]
          /\ writes \in 0 .. MaxWrites

(* The semaphore is held by exactly the process that moves bytes, however  *)
(* often a writer gives it up to wait and however signals come in: no path *)
(* of rb_write ends a round with an up that its down does not match.       *)
OneInside ==
  /\ sem = 1 <=> \A p \in Procs : pc[p] # "copy"
  /\ \A p, q \in Procs : pc[p] = "copy" /\ pc[q] = "copy" => p = q

(* The bytes between the two positions. *)
Stored == [i \in 1 .. buffer_used |-> mem[(read_pos + i) % MEMSIZE]]

Fifo == INSTANCE ByteFifo WITH fifo <- Stored, Capacity <- MEMSIZE - 1

(* The driver is a bounded byte queue: whatever readers and writers are    *)
(* interleaved, each byte stored is handed out once and in order.          *)
IsFifo == Fifo!Spec

(* With readers reading, a writer that waits for space is woken, by space  *)
(* or by a signal, and every write ends, although is_filled is evaluated   *)
(* without the semaphore while the positions move.                         *)
WritesEnd == \A w \in Writers : pc[w] # "user" ~> pc[w] = "user"
=============================================================================
