-------------------------- MODULE RingBufferProofs --------------------------
(***************************************************************************)
(* Proofs about RingBuffer: its types, the mutual exclusion of rounds and  *)
(* that it implements ByteFifo, for any number of readers and writers and  *)
(* any buffer size.                                                        *)
(***************************************************************************)
EXTENDS RingBuffer, SequenceTheorems, TLAPS

(* The size of a round, computed when the semaphore was taken, still fits: *)
(* nobody else moves the positions meanwhile.                              *)
Rounds ==
  /\ \A w \in Writers : pc[w] = "copy" => n[w] <= Len(left[w]) /\ n[w] <= idle_buffer
  /\ \A r \in Readers : pc[r] = "copy" => n[r] <= want[r] /\ n[r] <= buffer_used

Inv == TypeOK /\ OneInside /\ Rounds

-----------------------------------------------------------------------------
(* Arithmetic of the positions.                                            *)

Wrap(a) == a % MEMSIZE

(* What a position past the end becomes. *)
LEMMA WrapAround ==
  \A a \in Nat : a < 2 * MEMSIZE =>
    Wrap(a) = IF a < MEMSIZE THEN a ELSE a - MEMSIZE
<1>1. MEMSIZE \in Nat /\ MEMSIZE > 0
  BY SizeAssumption
<1>2. ASSUME NEW a \in Nat, a < 2 * MEMSIZE
      PROVE  a % MEMSIZE = IF a < MEMSIZE THEN a ELSE a - MEMSIZE
  BY <1>1, <1>2, SMTT(30)
<1> QED BY <1>2 DEF Wrap

(* The buffer holds between none and MEMSIZE - 1 bytes. *)
LEMMA UsedRange ==
  ASSUME read_pos \in Positions, write_pos \in Positions
  PROVE  buffer_used \in 0 .. MEMSIZE - 1
BY SizeAssumption DEF Positions, buffer_used

(* The next positions, without the modulus. *)
LEMMA NextPositions ==
  ASSUME read_pos \in Positions, write_pos \in Positions
  PROVE  /\ next_read_pos = IF read_pos = MEMSIZE - 1 THEN 0 ELSE read_pos + 1
         /\ next_write_pos = IF write_pos = MEMSIZE - 1 THEN 0 ELSE write_pos + 1
         /\ next_read_pos \in Positions /\ next_write_pos \in Positions
         /\ is_empty <=> buffer_used = 0
         /\ is_filled <=> idle_buffer = 0
<1>1. MEMSIZE \in Nat /\ MEMSIZE >= 2
  BY SizeAssumption
<1>2. /\ read_pos + 1 \in Nat /\ read_pos + 1 < 2 * MEMSIZE
      /\ write_pos + 1 \in Nat /\ write_pos + 1 < 2 * MEMSIZE
  BY <1>1 DEF Positions
<1>3. /\ next_read_pos = IF read_pos = MEMSIZE - 1 THEN 0 ELSE read_pos + 1
      /\ next_write_pos = IF write_pos = MEMSIZE - 1 THEN 0 ELSE write_pos + 1
  BY <1>1, <1>2, WrapAround DEF Positions, next_read_pos, next_write_pos, Wrap
<1>4. is_empty <=> next_read_pos = write_pos
  BY DEF is_empty, next_read_pos
<1> QED BY <1>1, <1>3, <1>4 DEF Positions, is_filled, buffer_used, idle_buffer

-----------------------------------------------------------------------------
(* The bytes stored, before and after a byte is moved.                     *)

(* Stored is a sequence of bytes of length buffer_used. *)
LEMMA StoredSeq ==
  ASSUME TypeOK
  PROVE  /\ Stored \in Seq(Bytes) /\ Len(Stored) = buffer_used
         /\ \A i \in 1 .. buffer_used :
              /\ Stored[i] = mem[(read_pos + i) % MEMSIZE]
              /\ (read_pos + i) % MEMSIZE \in Positions
<1>1. MEMSIZE \in Nat /\ MEMSIZE >= 2 /\ buffer_used \in 0 .. MEMSIZE - 1
  BY SizeAssumption, UsedRange DEF TypeOK
<1>2. ASSUME NEW i \in 1 .. buffer_used
      PROVE  (read_pos + i) % MEMSIZE \in Positions
  <2>1. read_pos + i \in Nat /\ read_pos + i < 2 * MEMSIZE
    BY <1>1 DEF TypeOK, Positions
  <2>2. Wrap(read_pos + i) \in Positions
    BY <1>1, <2>1, WrapAround DEF Positions
  <2> QED BY <2>2 DEF Wrap
<1>3. \A i \in 1 .. buffer_used : mem[(read_pos + i) % MEMSIZE] \in Bytes
  BY <1>2 DEF TypeOK
<1>4. Stored \in [1 .. buffer_used -> Bytes]
  BY <1>3 DEF Stored
<1> QED BY <1>1, <1>2, <1>4 DEF Stored

(* WriteByte appends a byte to what is stored. *)
LEMMA StoredPut ==
  ASSUME TypeOK, NEW x \in Bytes, idle_buffer > 0,
         mem' = [mem EXCEPT ![write_pos] = x],
         write_pos' = next_write_pos, read_pos' = read_pos
  PROVE  Stored' = Append(Stored, x) /\ buffer_used' = buffer_used + 1
<1>1. /\ MEMSIZE \in Nat /\ MEMSIZE >= 2 /\ buffer_used \in 0 .. MEMSIZE - 1
      /\ read_pos \in Positions /\ write_pos \in Positions
      /\ mem \in [Positions -> Bytes]
  BY SizeAssumption, UsedRange DEF TypeOK
<1>2. buffer_used' = buffer_used + 1 /\ buffer_used + 1 < MEMSIZE
  BY <1>1, NextPositions DEF Positions, buffer_used, idle_buffer
<1>3. (read_pos + (buffer_used + 1)) % MEMSIZE = write_pos
  <2> DEFINE k == Wrap(read_pos + (buffer_used + 1))
  <2>1. /\ read_pos + (buffer_used + 1) \in Nat
        /\ read_pos + (buffer_used + 1) < 2 * MEMSIZE
    BY <1>1, <1>2 DEF Positions
  <2>2. k = IF read_pos + (buffer_used + 1) < MEMSIZE
            THEN read_pos + (buffer_used + 1) ELSE read_pos + (buffer_used + 1) - MEMSIZE
    BY <1>1, <2>1, WrapAround, NextPositions DEF Positions
  <2> HIDE DEF k
  <2>3. k = write_pos
    BY <1>1, <2>2 DEF Positions, buffer_used
  <2> QED BY <2>3 DEF k, Wrap
<1>4. ASSUME NEW i \in 1 .. buffer_used
      PROVE  (read_pos + i) % MEMSIZE # write_pos
  <2> DEFINE k == Wrap(read_pos + i)
  <2>1. read_pos + i \in Nat /\ read_pos + i < 2 * MEMSIZE
    BY <1>1 DEF Positions
  <2>2. k = IF read_pos + i < MEMSIZE THEN read_pos + i ELSE read_pos + i - MEMSIZE
    BY <1>1, <2>1, WrapAround, NextPositions DEF Positions
  <2> HIDE DEF k
  <2>3. k # write_pos
    BY <1>1, <1>2, <2>2 DEF Positions, buffer_used
  <2> QED BY <2>3 DEF k, Wrap
<1>5. Stored' = [i \in 1 .. buffer_used + 1 |-> mem'[(read_pos + i) % MEMSIZE]]
  BY <1>2 DEF Stored
<1>6. ASSUME NEW i \in 1 .. buffer_used + 1
      PROVE  Stored'[i] = Append(Stored, x)[i]
  <2>1. CASE i = buffer_used + 1
    <3>1. Stored'[i] = mem'[write_pos]
      BY <1>3, <1>5, <2>1
    <3>2. mem'[write_pos] = x
      BY <1>1
    <3>3. Append(Stored, x)[Len(Stored) + 1] = x /\ Len(Stored) = buffer_used
      BY StoredSeq
    <3> QED BY <2>1, <3>1, <3>2, <3>3
  <2>2. CASE i \in 1 .. buffer_used
    <3>1. Stored'[i] = mem'[(read_pos + i) % MEMSIZE]
      BY <1>5, <2>2, SMTT(30)
    <3>2. mem'[(read_pos + i) % MEMSIZE] = mem[(read_pos + i) % MEMSIZE]
      BY <1>1, <1>4, <2>2, StoredSeq
    <3> QED BY <2>2, <3>1, <3>2, StoredSeq
  <2>3. i = buffer_used + 1 \/ i \in 1 .. buffer_used
    BY <1>1, <1>6
  <2> QED BY <2>1, <2>2, <2>3
<1>7. /\ Append(Stored, x) \in Seq(Bytes) /\ Len(Append(Stored, x)) = buffer_used + 1
      /\ Stored' \in Seq(Bytes) /\ Len(Stored') = buffer_used + 1
  <2>1. /\ Append(Stored, x) \in Seq(Bytes)
        /\ Len(Append(Stored, x)) = buffer_used + 1
        /\ \A i \in 1 .. buffer_used + 1 : Append(Stored, x)[i] \in Bytes
    BY StoredSeq
  <2>2. Stored' \in [1 .. buffer_used + 1 -> Bytes]
    BY <1>5, <1>6, <2>1
  <2> QED BY <1>1, <2>1, <2>2
<1>8. Stored' = Append(Stored, x)
  BY <1>6, <1>7, SeqEqual
<1> QED BY <1>2, <1>8

(* ReadByte takes the first byte of what is stored. *)
LEMMA StoredGet ==
  ASSUME TypeOK, buffer_used > 0,
         mem' = mem, write_pos' = write_pos, read_pos' = next_read_pos
  PROVE  /\ Stored # << >> /\ Head(Stored) = mem[next_read_pos]
         /\ Stored' = Tail(Stored) /\ buffer_used' = buffer_used - 1
<1>1. /\ MEMSIZE \in Nat /\ MEMSIZE >= 2 /\ buffer_used \in 0 .. MEMSIZE - 1
      /\ read_pos \in Positions /\ write_pos \in Positions
      /\ mem \in [Positions -> Bytes]
  BY SizeAssumption, UsedRange DEF TypeOK
<1>2. buffer_used' = buffer_used - 1
  BY <1>1, NextPositions DEF Positions, buffer_used
<1>3. Stored # << >> /\ Head(Stored) = mem[next_read_pos]
  <2>1. Stored[1] = mem[(read_pos + 1) % MEMSIZE]
    BY <1>1, StoredSeq
  <2> QED BY <1>1, <2>1, StoredSeq DEF next_read_pos
<1>4. ASSUME NEW i \in 1 .. buffer_used - 1
      PROVE  (next_read_pos + i) % MEMSIZE = (read_pos + (i + 1)) % MEMSIZE
  <2> DEFINE k == Wrap(read_pos + (i + 1))
             l == Wrap(next_read_pos + i)
  <2>1. /\ read_pos + (i + 1) \in Nat /\ read_pos + (i + 1) < 2 * MEMSIZE
        /\ next_read_pos + i \in Nat /\ next_read_pos + i < 2 * MEMSIZE
    BY <1>1, NextPositions DEF Positions
  <2>2. k = IF read_pos + (i + 1) < MEMSIZE THEN read_pos + (i + 1)
            ELSE read_pos + (i + 1) - MEMSIZE
    BY <1>1, <2>1, WrapAround, NextPositions DEF Positions
  <2>3. l = IF next_read_pos + i < MEMSIZE THEN next_read_pos + i
            ELSE next_read_pos + i - MEMSIZE
    BY <1>1, <2>1, WrapAround, NextPositions DEF Positions
  <2> HIDE DEF k, l
  <2>4. k = l
    BY <1>1, <2>2, <2>3, NextPositions DEF Positions
  <2> QED BY <2>4 DEF k, l, Wrap
<1>5. Stored' = [i \in 1 .. buffer_used - 1 |-> mem[(next_read_pos + i) % MEMSIZE]]
  BY <1>2 DEF Stored
<1>6. /\ Tail(Stored) \in Seq(Bytes) /\ Len(Tail(Stored)) = buffer_used - 1
      /\ \A i \in 1 .. buffer_used - 1 :
           Tail(Stored)[i] = Stored[i + 1] /\ Stored[i + 1] \in Bytes
  BY <1>1, <1>3, StoredSeq
<1>7. ASSUME NEW i \in 1 .. buffer_used - 1
      PROVE  Stored'[i] = Tail(Stored)[i]
  <2>1. Stored'[i] = mem[(read_pos + (i + 1)) % MEMSIZE]
    BY <1>4, <1>5
  <2>2. i + 1 \in 1 .. buffer_used
    BY <1>1
  <2> QED BY <1>6, <2>1, <2>2, StoredSeq
<1>8. Stored' \in Seq(Bytes) /\ Len(Stored') = buffer_used - 1
  <2>1. Stored' \in [1 .. buffer_used - 1 -> Bytes]
    BY <1>5, <1>6, <1>7
  <2> QED BY <1>1, <2>1
<1>9. Stored' = Tail(Stored)
  BY <1>6, <1>7, <1>8, SeqEqual
<1> QED BY <1>2, <1>3, <1>9

-----------------------------------------------------------------------------
(* The invariant.                                                          *)

LEMMA InvInit == Init => Inv
BY SizeAssumption, BoundsAssumption, ProcsAssumption
   DEF Init, Inv, TypeOK, OneInside, Rounds, Positions, Labels, Procs

(* The steps of a writer that move no byte. *)
LEMMA WriterStep ==
  ASSUME Inv, NEW w \in Writers,
         WriteCall(w) \/ WriteDown(w) \/ WriteDown2(w) \/ WriteFilled(w) \/ WaitLoad(w)
         \/ WaitTest(w) \/ WaitWoken(w) \/ WriteRetry(w) \/ WriteInterrupted(w)
  PROVE  Inv'
<1> USE DEF Inv, Procs, Goto, devVars
<1>a. /\ w \in Procs /\ w \notin Readers /\ MEMSIZE \in Nat /\ MEMSIZE >= 2
      /\ buffer_used \in 0 .. MEMSIZE - 1 /\ idle_buffer \in 0 .. MEMSIZE - 1
      /\ Len(left[w]) \in Nat
  BY ProcsAssumption, SizeAssumption, UsedRange DEF TypeOK, idle_buffer
<1>b. UNCHANGED devVars => buffer_used' = buffer_used /\ idle_buffer' = idle_buffer
  BY DEF buffer_used, idle_buffer
<1>1. ASSUME WriteCall(w) PROVE Inv'
  BY <1>1, <1>a, <1>b, MessagesAssumption, BoundsAssumption
     DEF WriteCall, TypeOK, OneInside, Rounds, Labels
<1>2. ASSUME pc[w] \in {"down", "down2"}, sem = 1, WriteRound(w) PROVE Inv'
  BY <1>2, <1>a, <1>b DEF WriteRound, TypeOK, OneInside, Rounds, Labels, Least
<1>3. ASSUME WriteDown(w) \/ WriteDown2(w) PROVE Inv'
  BY <1>2, <1>3 DEF WriteDown, WriteDown2
<1>4. ASSUME WriteFilled(w) PROVE Inv'
  BY <1>4, <1>a, <1>b DEF WriteFilled, DownUp, TypeOK, OneInside, Rounds, Labels
<1>5. ASSUME WaitLoad(w) PROVE Inv'
  BY <1>5, <1>a, <1>b DEF WaitLoad, TypeOK, OneInside, Rounds, Labels
<1>6. ASSUME WaitTest(w) PROVE Inv'
  <2>1. /\ pc[w] = "filled" /\ wq' \subseteq wq
        /\ \E l \in {"down2", "asleep"} : pc' = [pc EXCEPT ![w] = l]
        /\ UNCHANGED <<devVars, sem, left, want, got, n, seen, writes>>
    BY <1>6 DEF WaitTest
  <2>2. TypeOK'
    BY <2>1, <1>a DEF TypeOK, Labels
  <2>3. OneInside'
    BY <2>1, <1>a DEF TypeOK, OneInside
  <2>4. Rounds'
    BY <2>1, <1>a, <1>b DEF TypeOK, Rounds
  <2> QED BY <2>2, <2>3, <2>4
<1>7. ASSUME WaitWoken(w) PROVE Inv'
  BY <1>7, <1>a, <1>b DEF WaitWoken, TypeOK, OneInside, Rounds, Labels
<1>8. ASSUME WriteRetry(w) PROVE Inv'
  BY <1>8, <1>a, <1>b DEF WriteRetry, TypeOK, OneInside, Rounds, Labels
<1>9. ASSUME WriteInterrupted(w) PROVE Inv'
  BY <1>9, <1>a, <1>b DEF WriteInterrupted, TypeOK, OneInside, Rounds, Labels
<1> QED BY <1>1, <1>3, <1>4, <1>5, <1>6, <1>7, <1>8, <1>9

(* The steps of a reader that move no byte, and the end of a round. *)
LEMMA ReaderStep ==
  ASSUME Inv, NEW p \in Procs,
         \/ p \in Readers /\ (ReadCall(p) \/ ReadEmpty(p) \/ ReadDown(p)
                              \/ ReadReturn(p) \/ ReadInterrupted(p))
         \/ Up(p) \/ Wake(p)
  PROVE  Inv'
<1> USE DEF Inv, Procs, Goto, devVars
<1>a. /\ MEMSIZE \in Nat /\ MEMSIZE >= 2
      /\ buffer_used \in 0 .. MEMSIZE - 1 /\ idle_buffer \in 0 .. MEMSIZE - 1
      /\ p \in Readers => p \notin Writers /\ want[p] \in Nat
  BY ProcsAssumption, SizeAssumption, UsedRange DEF TypeOK, idle_buffer
<1>b. UNCHANGED devVars => buffer_used' = buffer_used /\ idle_buffer' = idle_buffer
  BY DEF buffer_used, idle_buffer
<1>1. ASSUME p \in Readers, ReadCall(p) PROVE Inv'
  BY <1>1, <1>a, <1>b, SizesAssumption DEF ReadCall, TypeOK, OneInside, Rounds, Labels
<1>2. ASSUME p \in Readers, ReadEmpty(p) PROVE Inv'
  BY <1>2, <1>a, <1>b DEF ReadEmpty, TypeOK, OneInside, Rounds, Labels
<1>3. ASSUME p \in Readers, ReadDown(p) PROVE Inv'
  BY <1>3, <1>a, <1>b DEF ReadDown, TypeOK, OneInside, Rounds, Labels, Least
<1>4. ASSUME p \in Readers, ReadReturn(p) PROVE Inv'
  BY <1>4, <1>a, <1>b DEF ReadReturn, TypeOK, OneInside, Rounds, Labels
<1>5. ASSUME p \in Readers, ReadInterrupted(p) PROVE Inv'
  BY <1>5, <1>a, <1>b DEF ReadInterrupted, TypeOK, OneInside, Rounds, Labels
<1>6. ASSUME Up(p) PROVE Inv'
  BY <1>6, <1>a, <1>b DEF Up, TypeOK, OneInside, Rounds, Labels
<1>7. ASSUME Wake(p) PROVE Inv'
  BY <1>7, <1>a, <1>b DEF Wake, WakeAll, More, TypeOK, OneInside, Rounds, Labels
<1> QED BY <1>1, <1>2, <1>3, <1>4, <1>5, <1>6, <1>7

(* A writer stores a byte. *)
LEMMA WriteByteStep ==
  ASSUME Inv, NEW w \in Writers, WriteByte(w)
  PROVE  /\ Inv'
         /\ left[w] # << >> /\ Len(Stored) < MEMSIZE - 1
         /\ Stored' = Append(Stored, Head(left[w]))
<1> USE DEF Inv, Procs, devVars
<1>a. /\ w \in Procs /\ w \notin Readers /\ MEMSIZE \in Nat /\ MEMSIZE >= 2
      /\ buffer_used \in 0 .. MEMSIZE - 1 /\ n[w] \in Nat /\ n[w] > 0
      /\ idle_buffer = MEMSIZE - buffer_used - 1 /\ n[w] <= idle_buffer
      /\ n[w] <= Len(left[w]) /\ left[w] \in Seq(Bytes)
  BY ProcsAssumption, SizeAssumption, UsedRange
     DEF WriteByte, TypeOK, Rounds, idle_buffer
<1>1. left[w] # << >>
  BY <1>a
<1>2. /\ Head(left[w]) \in Bytes /\ Tail(left[w]) \in Seq(Bytes)
      /\ Len(Tail(left[w])) = Len(left[w]) - 1
  BY <1>a, <1>1, HeadTailProperties
<1>3. Stored' = Append(Stored, Head(left[w])) /\ buffer_used' = buffer_used + 1
  <2>1. TypeOK /\ idle_buffer > 0
    BY <1>a
  <2>2. /\ mem' = [mem EXCEPT ![write_pos] = Head(left[w])]
        /\ write_pos' = next_write_pos /\ read_pos' = read_pos
    BY DEF WriteByte
  <2> HIDE DEF Inv, devVars
  <2> QED BY <1>2, <2>1, <2>2, StoredPut
<1>4. idle_buffer' = idle_buffer - 1
  BY <1>a, <1>3 DEF idle_buffer
<1>5. next_write_pos \in Positions
  BY NextPositions DEF TypeOK
<1>6. TypeOK'
  <2>1. mem' \in [Positions -> Bytes]
    BY <1>2 DEF WriteByte, TypeOK
  <2>2. left' \in [Writers -> Seq(Bytes)]
    BY <1>2 DEF WriteByte, TypeOK
  <2>3. n[w] - 1 \in Nat
    BY <1>a
  <2>4. n' = [n EXCEPT ![w] = n[w] - 1]
    BY DEF WriteByte
  <2>5. n' \in [Procs -> Nat]
    BY <1>a, <2>3, <2>4 DEF TypeOK
  <2>6. write_pos' \in Positions
    BY <1>5 DEF WriteByte
  <2> QED BY <2>1, <2>2, <2>5, <2>6 DEF WriteByte, TypeOK
<1>7. OneInside'
  BY DEF WriteByte, OneInside
<1>8. Rounds'
  <2>1. ASSUME NEW q \in Procs, pc'[q] = "copy" PROVE q = w
    BY <2>1, <1>a DEF WriteByte, OneInside
  <2>2. n'[w] <= Len(left'[w]) /\ n'[w] <= idle_buffer'
    BY <1>a, <1>2, <1>4 DEF WriteByte, TypeOK
  <2> QED BY <1>a, <2>1, <2>2 DEF Rounds
<1>9. Len(Stored) < MEMSIZE - 1
  BY <1>a, StoredSeq
<1> QED BY <1>1, <1>3, <1>6, <1>7, <1>8, <1>9

(* A reader takes a byte. *)
LEMMA ReadByteStep ==
  ASSUME Inv, NEW r \in Readers, ReadByte(r)
  PROVE  /\ Inv'
         /\ Stored # << >> /\ ByteAhead(r) = Head(Stored) /\ Stored' = Tail(Stored)
<1> USE DEF Inv, Procs, devVars
<1>a. /\ r \in Procs /\ r \notin Writers /\ MEMSIZE \in Nat /\ MEMSIZE >= 2
      /\ buffer_used \in 0 .. MEMSIZE - 1 /\ n[r] \in Nat /\ n[r] > 0
      /\ n[r] <= buffer_used /\ n[r] <= want[r] /\ want[r] \in Nat
  BY ProcsAssumption, SizeAssumption, UsedRange DEF ReadByte, TypeOK, Rounds
<1>1. /\ Stored # << >> /\ Head(Stored) = mem[next_read_pos]
      /\ Stored' = Tail(Stored) /\ buffer_used' = buffer_used - 1
  BY <1>a, StoredGet DEF ReadByte
<1>2. next_read_pos \in Positions
  BY NextPositions DEF TypeOK
<1>3. TypeOK'
  <2>1. mem[next_read_pos] \in Bytes /\ got[r] \in Seq(Bytes)
    BY <1>2 DEF TypeOK
  <2>2. Append(got[r], mem[next_read_pos]) \in Seq(Bytes)
    BY <2>1
  <2> QED BY <1>a, <1>2, <2>2 DEF ReadByte, ByteAhead, TypeOK
<1>4. OneInside'
  BY DEF ReadByte, OneInside
<1>5. Rounds'
  <2>1. ASSUME NEW q \in Procs, pc'[q] = "copy" PROVE q = r
    BY <2>1, <1>a DEF ReadByte, OneInside
  <2>2. n'[r] <= want'[r] /\ n'[r] <= buffer_used'
    BY <1>a, <1>1 DEF ReadByte, TypeOK
  <2> QED BY <1>a, <2>1, <2>2 DEF Rounds
<1> QED BY <1>1, <1>3, <1>4, <1>5 DEF ByteAhead

LEMMA InvNext == Inv /\ [Next]_vars => Inv'
<1> SUFFICES ASSUME Inv, [Next]_vars PROVE Inv'
  OBVIOUS
<1>1. CASE UNCHANGED vars
  BY <1>1 DEF vars, devVars, Inv, TypeOK, OneInside, Rounds, buffer_used, idle_buffer
<1>2. ASSUME NEW w \in Writers, WriteCall(w) \/ Writer(w) PROVE Inv'
  BY <1>2, WriterStep, WriteByteStep DEF Writer
<1>3. ASSUME NEW r \in Readers, Reader(r) PROVE Inv'
  BY <1>3, ReaderStep, ReadByteStep DEF Reader, Procs
<1>4. ASSUME NEW p \in Procs, Down(p) \/ Up(p) \/ Wake(p) \/ Signal(p) PROVE Inv'
  BY <1>4, WriterStep, ReaderStep DEF Down, Signal, Procs
<1> QED BY <1>1, <1>2, <1>3, <1>4 DEF Next

(* The types hold for every size and any number of processes. *)
THEOREM TypeCorrect == Spec => []TypeOK
<1>1. Inv => TypeOK
  BY DEF Inv
<1> QED BY <1>1, InvInit, InvNext, PTL DEF Spec

(* At most one process moves bytes, and exactly while the semaphore is     *)
(* taken: every down of rb_read and rb_write has its up.                   *)
THEOREM OneInsideHolds == Spec => []OneInside
<1>1. Inv => OneInside
  BY DEF Inv
<1> QED BY <1>1, InvInit, InvNext, PTL DEF Spec

-----------------------------------------------------------------------------
(* Refinement.                                                             *)

LEMMA FifoInit == Init => Fifo!Init
<1> SUFFICES ASSUME Init PROVE Stored = << >>
  BY DEF Init, Fifo!Init
<1>1. buffer_used = 0
  BY SizeAssumption DEF Init, buffer_used
<1> QED BY <1>1, InvInit, StoredSeq DEF Inv

(* A step that leaves the positions and the memory alone. *)
LEMMA StoredFrame == UNCHANGED devVars => Stored' = Stored
BY DEF devVars, Stored, buffer_used

LEMMA FifoNext == Inv /\ [Next]_vars => [Fifo!Next]_Fifo!vars
<1> SUFFICES ASSUME Inv, [Next]_vars PROVE Fifo!Next \/ UNCHANGED <<Stored, left, got>>
  BY DEF Fifo!vars
<1>1. CASE UNCHANGED vars
  BY <1>1, StoredFrame DEF vars
<1>2. ASSUME NEW w \in Writers, WriteCall(w) PROVE Fifo!Next
  BY <1>2, StoredFrame DEF WriteCall, Fifo!Next, Fifo!StartWrite
<1>3. ASSUME NEW w \in Writers, WriteByte(w) PROVE Fifo!Next
  <2>1. Fifo!Put(w)
    BY <1>3, WriteByteStep DEF WriteByte, Fifo!Put
  <2> QED BY <2>1 DEF Fifo!Next
<1>4. ASSUME NEW w \in Writers, WaitLoad(w) \/ WaitTest(w) \/ WaitWoken(w)
      PROVE  UNCHANGED <<Stored, left, got>>
  BY <1>4, StoredFrame DEF WaitLoad, WaitTest, WaitWoken
<1>5. ASSUME NEW r \in Readers, ReadCall(r) PROVE UNCHANGED <<Stored, left, got>>
  BY <1>5, StoredFrame DEF ReadCall
<1>6. ASSUME NEW r \in Readers, ReadByte(r) PROVE Fifo!Next
  <2>1. Fifo!Get(r)
    BY <1>6, ReadByteStep DEF ReadByte, Fifo!Get
  <2> QED BY <2>1 DEF Fifo!Next
<1>7. ASSUME NEW r \in Readers, ReadReturn(r) \/ ReadInterrupted(r) PROVE Fifo!Next
  <2>1. Fifo!EndRead(r)
    BY <1>7, StoredFrame DEF ReadReturn, ReadInterrupted, Fifo!EndRead
  <2> QED BY <2>1 DEF Fifo!Next
<1>8. ASSUME NEW p \in Procs, Down(p) \/ Up(p) \/ Wake(p)
      PROVE  UNCHANGED <<Stored, left, got>>
  BY <1>8, StoredFrame DEF Down, WriteDown, WriteDown2, WriteRound, WriteFilled,
     ReadDown, ReadEmpty, Up, Wake
<1>9. ASSUME NEW w \in Writers, WriteRetry(w) PROVE UNCHANGED <<Stored, left, got>>
  BY <1>9, StoredFrame DEF WriteRetry
<1>10. ASSUME NEW w \in Writers, WriteInterrupted(w) PROVE Fifo!Next
  <2>1. Fifo!AbandonWrite(w)
    BY <1>10, StoredFrame DEF WriteInterrupted, Fifo!AbandonWrite
  <2> QED BY <2>1 DEF Fifo!Next
<1> QED BY <1>1, <1>2, <1>3, <1>4, <1>5, <1>6, <1>7, <1>8, <1>9, <1>10
        DEF Next, Writer, Reader, Signal

(* rb_read and rb_write implement a bounded byte queue, for every buffer   *)
(* size, any readers and writers, and with signals: each byte stored is    *)
(* taken once and in order.                                                *)
THEOREM ImplementsFifo == Spec => IsFifo
BY InvInit, InvNext, FifoInit, FifoNext, PTL DEF Spec, IsFifo, Fifo!Spec
=============================================================================
