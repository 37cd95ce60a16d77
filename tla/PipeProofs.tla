----------------------------- MODULE PipeProofs -----------------------------
(***************************************************************************)
(* Proofs about Pipe: its types, the count of the open ends, the end of    *)
(* the file and that it implements ByteFifo, for any number of processes   *)
(* at each end, any page size and any sizes of reads and writes.           *)
(***************************************************************************)
EXTENDS Pipe, FiniteSetTheorems, SequenceTheorems, TLAPS

(* A round has something to copy, and a write no more than it was given. *)
Rounds ==
  /\ \A p \in Procs : pc[p] \in {"get", "put"} => chars[p] >= 1
  /\ \A p \in Procs : pc[p] = "put" => chars[p] <= Len(left[p])

(* i_count as a sum over the two ends. *)
Opened(e) == IF open[e] = {} THEN 0 ELSE 1
Count == i_count = Opened("read") + Opened("write")

ReadLabels  == {"read", "get", "read_sleep"}
WriteLabels == {"write", "put", "write_sleep"}

(* A process that is in a call has the end it uses. *)
Holding ==
  \A p \in Procs : /\ pc[p] \in ReadLabels => p \in open["read"]
                   /\ pc[p] \in WriteLabels => p \in open["write"]

(* Unless a copy has been interrupted: only current copies, what a reader  *)
(* copies ends where the tail is and is not part of the pipe any more,     *)
(* what a writer copies ends where the head is and is part of it already.  *)
Copies ==
  ~torn => \A p \in Procs :
    /\ pc[p] \in {"get", "put"} => current = p
    /\ pc[p] = "get" => tail = Wrap(pos[p] + chars[p]) /\ PIPE_SIZE + chars[p] < PAGE_SIZE
    /\ pc[p] = "put" => head = Wrap(pos[p] + chars[p]) /\ chars[p] <= PIPE_SIZE

Inv == TypeOK /\ Rounds /\ Count /\ Holding /\ Copies

-----------------------------------------------------------------------------
LEMMA PageSize == PAGE_SIZE \in Nat /\ PAGE_SIZE >= 2
BY PageAssumption

(* The pipe holds between none and PAGE_SIZE - 1 bytes. *)
Size(h, t) == IF h >= t THEN h - t ELSE h - t + PAGE_SIZE

LEMMA SizeRange ==
  /\ PIPE_SIZE = Size(head, tail)
  /\ PIPE_SIZE' = Size(head', tail')
  /\ \A h, t \in Positions : Size(h, t) \in 0 .. PAGE_SIZE - 1
BY PageSize DEF Positions, PIPE_SIZE, Size

LEMMA WrapRange ==
  ASSUME NEW a \in Nat, a < 2 * PAGE_SIZE
  PROVE  Wrap(a) \in Positions
BY PageSize DEF Positions, Wrap

(* The positions move round the page, and the size with them. *)
LEMMA Moves ==
  ASSUME NEW h \in Positions, NEW t \in Positions, NEW n \in Nat
  PROVE  /\ n <= Size(h, t) => Wrap(t + n) \in Positions /\ Size(h, Wrap(t + n)) = Size(h, t) - n
         /\ n + Size(h, t) < PAGE_SIZE
              => Wrap(h + n) \in Positions /\ Size(Wrap(h + n), t) = Size(h, t) + n
         /\ Wrap(t + Size(h, t)) = h
BY PageSize DEF Positions, Size, Wrap

-----------------------------------------------------------------------------
(* The n bytes of a page from position f on, as a sequence.                *)

Run(pg, f, n) == [i \in 1 .. n |-> pg[Wrap(f + i - 1)]]

LEMMA RunSeq ==
  ASSUME NEW pg \in [Positions -> Bytes], NEW f \in Positions, NEW n \in 0 .. PAGE_SIZE
  PROVE  /\ Run(pg, f, n) \in Seq(Bytes) /\ Len(Run(pg, f, n)) = n
         /\ \A i \in 1 .. n : /\ Wrap(f + i - 1) \in Positions
                              /\ Run(pg, f, n)[i] = pg[Wrap(f + i - 1)]
                              /\ Run(pg, f, n)[i] \in Bytes
<1>1. \A i \in 1 .. n : Wrap(f + i - 1) \in Positions
  BY PageSize DEF Positions, Wrap
<1>2. Run(pg, f, n) \in [1 .. n -> Bytes]
  BY <1>1 DEF Run
<1>3. n \in Nat
  BY PageSize
<1>4. \A i \in 1 .. n : Run(pg, f, n)[i] = pg[Wrap(f + i - 1)]
  BY DEF Run
<1> QED BY <1>1, <1>2, <1>3, <1>4

(* A byte is taken at the front. *)
LEMMA RunTail ==
  ASSUME NEW pg \in [Positions -> Bytes], NEW f \in Positions, NEW n \in 1 .. PAGE_SIZE
  PROVE  /\ Run(pg, f, n) # << >> /\ Head(Run(pg, f, n)) = pg[f]
         /\ Tail(Run(pg, f, n)) = Run(pg, Wrap(f + 1), n - 1)
<1> DEFINE s == Run(pg, f, n)
           t == Run(pg, Wrap(f + 1), n - 1)
<1>1. /\ n \in Nat /\ n \in 0 .. PAGE_SIZE /\ n - 1 \in 0 .. PAGE_SIZE /\ n >= 1
      /\ Wrap(f + 1) \in Positions /\ Wrap(f + 1 - 1) = f
  BY PageSize DEF Positions, Wrap
<1>2. /\ s \in Seq(Bytes) /\ Len(s) = n /\ s[1] = pg[f]
      /\ \A i \in 1 .. n : s[i] = pg[Wrap(f + i - 1)]
  BY <1>1, RunSeq
<1>3. /\ t \in Seq(Bytes) /\ Len(t) = n - 1
      /\ \A i \in 1 .. n - 1 : t[i] = pg[Wrap(Wrap(f + 1) + i - 1)]
  BY <1>1, RunSeq
<1>4. \A i \in 1 .. n - 1 : Wrap(Wrap(f + 1) + i - 1) = Wrap(f + (i + 1) - 1)
  BY PageSize DEF Positions, Wrap
<1> HIDE DEF s, t
<1>5. s # << >> /\ Head(s) = pg[f]
  BY <1>1, <1>2
<1>6. /\ Tail(s) \in Seq(Bytes) /\ Len(Tail(s)) = n - 1
      /\ \A i \in 1 .. n - 1 : Tail(s)[i] = s[i + 1]
  BY <1>1, <1>2, <1>5
<1>7. ASSUME NEW i \in 1 .. n - 1 PROVE Tail(s)[i] = t[i]
  <2>1. i + 1 \in 1 .. n
    BY <1>1
  <2>2. s[i + 1] = pg[Wrap(f + (i + 1) - 1)]
    BY <1>2, <2>1
  <2> QED BY <1>3, <1>4, <1>6, <2>2
<1>8. Tail(s) = t
  BY <1>3, <1>6, <1>7, SeqEqual
<1> QED BY <1>5, <1>8 DEF s, t

(* A byte is put at the end. *)
LEMMA RunAppend ==
  ASSUME NEW pg \in [Positions -> Bytes], NEW f \in Positions, NEW n \in 0 .. PAGE_SIZE - 1,
         NEW x \in Bytes
  PROVE  Run([pg EXCEPT ![Wrap(f + n)] = x], f, n + 1) = Append(Run(pg, f, n), x)
<1> DEFINE k == Wrap(f + n)
           qg == [pg EXCEPT ![k] = x]
           s == Run(pg, f, n)
           t == Run(qg, f, n + 1)
<1>1. /\ n \in Nat /\ n \in 0 .. PAGE_SIZE /\ n + 1 \in 0 .. PAGE_SIZE
      /\ k \in Positions /\ k = Wrap(f + (n + 1) - 1)
      /\ \A i \in 1 .. n : Wrap(f + i - 1) # k
  BY PageSize DEF Positions, Wrap
<1>2. qg \in [Positions -> Bytes]
  BY <1>1
<1>3. /\ s \in Seq(Bytes) /\ Len(s) = n
      /\ \A i \in 1 .. n : Wrap(f + i - 1) \in Positions /\ s[i] = pg[Wrap(f + i - 1)]
  BY <1>1, RunSeq
<1> HIDE DEF k, qg
<1>4. /\ t \in Seq(Bytes) /\ Len(t) = n + 1
      /\ \A i \in 1 .. n + 1 : t[i] = qg[Wrap(f + i - 1)]
  BY <1>1, <1>2, RunSeq
<1> HIDE DEF s, t
<1>5. /\ Append(s, x) \in Seq(Bytes) /\ Len(Append(s, x)) = n + 1
      /\ Append(s, x)[n + 1] = x /\ \A i \in 1 .. n : Append(s, x)[i] = s[i]
  BY <1>1, <1>3
<1>6. ASSUME NEW i \in 1 .. n + 1 PROVE t[i] = Append(s, x)[i]
  <2>1. CASE i = n + 1
    <3>1. t[i] = qg[k]
      BY <1>1, <1>4, <2>1
    <3> QED BY <1>1, <1>5, <2>1, <3>1 DEF qg
  <2>2. CASE i \in 1 .. n
    <3>1. t[i] = qg[Wrap(f + i - 1)] /\ Append(s, x)[i] = pg[Wrap(f + i - 1)]
      BY <1>3, <1>4, <1>5, <2>2
    <3>2. qg[Wrap(f + i - 1)] = pg[Wrap(f + i - 1)]
      BY <1>1, <1>3, <2>2 DEF qg
    <3> QED BY <3>1, <3>2
  <2>3. i = n + 1 \/ i \in 1 .. n
    BY <1>1
  <2> QED BY <2>1, <2>2, <2>3
<1>7. t = Append(s, x)
  BY <1>4, <1>5, <1>6, SeqEqual
<1> QED BY <1>7 DEF s, t, qg, k

-----------------------------------------------------------------------------
(* What the mapping is when nobody copies, before and after a step. *)
Quiet == current = Nobody \/ pc[current] \notin {"get", "put"}

LEMMA QuietBefore ==
  ASSUME TypeOK, Quiet
  PROVE  FirstByte = tail /\ Stored = PIPE_SIZE
<1>1. current # Nobody => ~Taking(current) /\ ~Storing(current)
  BY DEF Quiet, Taking, Storing
<1>2. FirstByte = tail
  BY <1>1 DEF FirstByte
<1>3. Stored = PIPE_SIZE - 0 + 0
  BY <1>1 DEF Stored
<1> QED BY <1>2, <1>3, PageSize, SizeRange DEF TypeOK

LEMMA QuietAfter ==
  ASSUME TypeOK', Quiet'
  PROVE  FirstByte' = tail' /\ Stored' = PIPE_SIZE'
<1> DEFINE s == Size(head', tail')
<1>1. current' # Nobody => ~(Taking(current))' /\ ~(Storing(current))'
  BY DEF Quiet, Taking, Storing
<1>2. FirstByte' = tail'
  BY <1>1 DEF FirstByte
<1>3. Stored' = s - 0 + 0
  BY <1>1, SizeRange DEF Stored
<1>4. s \in Nat
  BY SizeRange, PageSize DEF TypeOK
<1> HIDE DEF s
<1>5. Stored' = s
  BY <1>3, <1>4
<1> QED BY <1>2, <1>5, SizeRange DEF s

-----------------------------------------------------------------------------
(* The invariant.                                                          *)

LEMMA InvInit == Init => Inv
<1> SUFFICES ASSUME Init PROVE Inv
  OBVIOUS
<1>1. TypeOK
  <2>1. open \in [Ends -> SUBSET Procs] /\ page \in [Positions -> Bytes]
    BY BytesAssumption DEF Init, Procs
  <2>2. left \in [Procs -> Seq(Bytes)] /\ got \in [Procs -> Seq(Bytes)]
    BY DEF Init
  <2>3. 0 \in Positions /\ writes \in 0 .. MaxWrites
    BY PageSize, BoundsAssumption DEF Init, Positions
  <2>4. /\ chars \in [Procs -> 0 .. PAGE_SIZE - 1] /\ pos \in [Procs -> Positions]
        /\ want \in [Procs -> Nat]
    BY <2>3, PageSize DEF Init
  <2>5. /\ pc \in [Procs -> Labels]
        /\ state \in [Procs -> {TASK_RUNNING, TASK_UNINTERRUPTIBLE}]
    BY DEF Init, Labels
  <2> QED BY <2>1, <2>2, <2>3, <2>4, <2>5 DEF Init, TypeOK
<1>2. Count
  BY ProcsAssumption DEF Init, Count, Opened, Ends
<1> QED BY <1>1, <1>2 DEF Init, Inv, Rounds, Holding, Copies, ReadLabels, WriteLabels

(* What wake_up leaves of the processes. *)
LEMMA WakeTypes ==
  ASSUME TypeOK
  PROVE  /\ Woken \in [Procs -> {TASK_RUNNING, TASK_UNINTERRUPTIBLE}]
         /\ \A p \in Procs : [Woken EXCEPT ![p] = TASK_UNINTERRUPTIBLE]
                               \in [Procs -> {TASK_RUNNING, TASK_UNINTERRUPTIBLE}]
<1>1. state \in [Procs -> {TASK_RUNNING, TASK_UNINTERRUPTIBLE}] /\ i_wait \in Procs \cup {Nobody}
  BY DEF TypeOK
<1>2. Woken \in [Procs -> {TASK_RUNNING, TASK_UNINTERRUPTIBLE}]
  BY <1>1 DEF Woken
<1> QED BY <1>2

(* A process enters or leaves a call, or sleeps in one: no byte is moved.  *)
LEMMA CallStep ==
  ASSUME Inv, NEW p \in Procs,
         ReadCall(p) \/ ReadDone(p) \/ ReadEof(p) \/ ReadSleep(p)
         \/ WriteCall(p) \/ WriteDone(p) \/ WriteBroken(p) \/ WriteSleep(p)
  PROVE  Inv' /\ Quiet /\ Quiet'
<1> USE DEF Goto, ringVars, waitVars, callVars
<1>a. PIPE_SIZE' = PIPE_SIZE
  BY DEF ReadCall, ReadDone, ReadEof, ReadSleep, ReadReturns, WriteCall, WriteDone,
         WriteBroken, WriteSleep, WriteReturns, PIPE_SIZE
<1>b. p # Nobody
  BY ProcsAssumption
<1>1. ASSUME ReadCall(p) PROVE Inv' /\ Quiet /\ Quiet'
  <2>1. TypeOK'
    BY <1>1, SizesAssumption DEF ReadCall, Inv, TypeOK, Labels
  <2>2. Copies' /\ Quiet /\ Quiet'
    <3>1. ~torn => \A q \in Procs : pc'[q] \notin {"get", "put"}
      BY <1>1, ProcsAssumption DEF ReadCall, Inv, TypeOK, Copies
    <3>2. Quiet /\ Quiet' /\ torn' = torn
      BY <1>1 DEF ReadCall, Inv, TypeOK, Quiet
    <3> QED BY <3>1, <3>2 DEF Copies
  <2> QED BY <2>1, <2>2, <1>1
     DEF ReadCall, Inv, TypeOK, Rounds, Count, Opened, Holding, ReadLabels, WriteLabels
<1>2. ASSUME ReadReturns(p), pc[p] = "read", current = p PROVE Inv' /\ Quiet /\ Quiet'
  <2>1. TypeOK'
    BY <1>2, WakeTypes DEF ReadReturns, WakeOthers, wake_up, Inv, TypeOK, Labels
  <2> QED BY <2>1, <1>2, <1>a, <1>b
     DEF ReadReturns, Inv, TypeOK, Rounds, Count, Opened, Holding, Copies, Quiet,
         ReadLabels, WriteLabels
<1>3. ASSUME ReadSleep(p) PROVE Inv' /\ Quiet /\ Quiet'
  <2>1. TypeOK'
    BY <1>3, WakeTypes DEF ReadSleep, wake_up_sleep_on, Inv, TypeOK, Labels
  <2> QED BY <2>1, <1>3, <1>a, <1>b
     DEF ReadSleep, wake_up_sleep_on, Inv, TypeOK, Rounds, Count, Opened, Holding, Copies,
         Quiet, ReadLabels, WriteLabels
<1>4. ASSUME WriteCall(p) PROVE Inv' /\ Quiet /\ Quiet'
  <2>1. PICK m \in Messages : left' = [left EXCEPT ![p] = m]
    BY <1>4 DEF WriteCall
  <2>2. m \in Seq(Bytes)
    BY MessagesAssumption
  <2>3. writes' \in 0 .. MaxWrites
    BY <1>4, BoundsAssumption DEF WriteCall, Inv, TypeOK
  <2>4. TypeOK'
    BY <1>4, <2>1, <2>2, <2>3 DEF WriteCall, Inv, TypeOK, Labels
  <2>5. Copies' /\ Quiet /\ Quiet'
    <3>1. ~torn => \A q \in Procs : pc'[q] \notin {"get", "put"}
      BY <1>4, ProcsAssumption DEF WriteCall, Inv, TypeOK, Copies
    <3>2. Quiet /\ Quiet' /\ torn' = torn
      BY <1>4 DEF WriteCall, Inv, TypeOK, Quiet
    <3> QED BY <3>1, <3>2 DEF Copies
  <2> QED BY <2>4, <2>5, <1>4
     DEF WriteCall, Inv, TypeOK, Rounds, Count, Opened, Holding, ReadLabels, WriteLabels
<1>5. ASSUME WriteReturns(p), pc[p] = "write", current = p PROVE Inv' /\ Quiet /\ Quiet'
  <2>1. TypeOK'
    BY <1>5, WakeTypes DEF WriteReturns, WakeOthers, wake_up, Inv, TypeOK, Labels
  <2> QED BY <2>1, <1>5, <1>a, <1>b
     DEF WriteReturns, Inv, TypeOK, Rounds, Count, Opened, Holding, Copies, Quiet,
         ReadLabels, WriteLabels
<1>6. ASSUME WriteSleep(p) PROVE Inv' /\ Quiet /\ Quiet'
  <2>1. TypeOK'
    BY <1>6, WakeTypes DEF WriteSleep, wake_up_sleep_on, Inv, TypeOK, Labels
  <2> QED BY <2>1, <1>6, <1>a, <1>b
     DEF WriteSleep, wake_up_sleep_on, Inv, TypeOK, Rounds, Count, Opened, Holding, Copies,
         Quiet, ReadLabels, WriteLabels
<1> QED BY <1>1, <1>2, <1>3, <1>4, <1>5, <1>6
        DEF ReadDone, ReadEof, WriteDone, WriteBroken

(* The steps that give up or get the processor. *)
LEMMA SwitchStep ==
  ASSUME Inv, NEW p \in Procs, PageFault(p) \/ Resume(p)
  PROVE  Inv' /\ (~torn' => Quiet /\ Quiet')
<1> USE DEF Goto, ringVars, waitVars, callVars
<1>a. PIPE_SIZE' = PIPE_SIZE
  BY DEF PageFault, Resume, PIPE_SIZE
<1>b. p # Nobody
  BY ProcsAssumption
<1>1. ASSUME PageFault(p) PROVE Inv' /\ (~torn' => Quiet /\ Quiet')
  BY <1>1 DEF PageFault, Inv, TypeOK, Rounds, Count, Opened, Holding, Copies
<1>2. ASSUME Resume(p) PROVE Inv' /\ (~torn' => Quiet /\ Quiet')
  <2>1. \E l \in {"read", "write", pc[p]} :
          /\ pc' = [pc EXCEPT ![p] = l]
          /\ l = "read" => pc[p] \in ReadLabels
          /\ l = "write" => pc[p] \in WriteLabels
    BY <1>2 DEF Resume, ReadLabels, WriteLabels
  <2>2. TypeOK'
    BY <1>2, <2>1 DEF Resume, Inv, TypeOK, Labels
  <2>3. \A q \in Procs : /\ pc'[q] \in {"get", "put", "user"} => pc'[q] = pc[q]
                         /\ pc'[q] \in ReadLabels <=> pc[q] \in ReadLabels
                         /\ pc'[q] \in WriteLabels <=> pc[q] \in WriteLabels
    BY <2>1 DEF Inv, TypeOK, ReadLabels, WriteLabels
  <2>4. ~torn => \A q \in Procs : pc'[q] \notin {"get", "put"}
    BY <1>2, <2>3, ProcsAssumption DEF Resume, Inv, Copies
  <2>5. Rounds' /\ Count' /\ Holding'
    BY <1>2, <2>3 DEF Resume, Inv, Rounds, Count, Opened, Holding
  <2>6. Copies' /\ (~torn' => Quiet /\ Quiet')
    BY <1>2, <1>b, <2>4 DEF Resume, Copies, Quiet
  <2> QED BY <2>2, <2>5, <2>6 DEF Inv
<1> QED BY <1>1, <1>2

(* iput gives the inode back with the last descriptor of an end. *)
LEMMA CloseStep ==
  ASSUME Inv, NEW p \in Procs, NEW e \in Ends, Close(p, e)
  PROVE  Inv' /\ Quiet /\ Quiet'
<1> USE DEF ringVars, waitVars, callVars
<1>1. /\ open[e] # {} /\ open' = [open EXCEPT ![e] = open[e] \ {p}]
      /\ LastDescriptor(p, e) <=> open'[e] = {}
  BY DEF Close, LastDescriptor, Inv, TypeOK
<1>2. e = "read" \/ e = "write"
  BY DEF Ends
<1>3. i_count' = IF open'[e] = {} THEN i_count - 1 ELSE i_count
  BY <1>1 DEF Close
<1>4. Count' /\ i_count' \in 0 .. 2
  <2>1. "read" \in Ends /\ "write" \in Ends /\ open \in [Ends -> SUBSET Procs]
    BY DEF Ends, Inv, TypeOK
  <2>2. \A f \in Ends : f # e => open'[f] = open[f]
    BY <1>1, <2>1
  <2> QED BY <1>1, <1>2, <1>3, <2>1, <2>2 DEF Inv, Count, Opened
<1>5. TypeOK'
  <2>1. state' \in [Procs -> {TASK_RUNNING, TASK_UNINTERRUPTIBLE}]
        /\ i_wait' \in Procs \cup {Nobody}
    BY WakeTypes DEF Close, wake_up, Inv, TypeOK
  <2> QED BY <1>1, <1>4, <2>1 DEF Close, Inv, TypeOK
<1>6. Holding'
  BY <1>1 DEF Close, Inv, TypeOK, Holding, ReadLabels, WriteLabels
<1>7. PIPE_SIZE' = PIPE_SIZE
  BY DEF Close, PIPE_SIZE
<1>8. Rounds' /\ Copies' /\ Quiet /\ Quiet'
  BY <1>7 DEF Close, Inv, Rounds, Copies, Quiet
<1> QED BY <1>4, <1>5, <1>6, <1>8 DEF Inv

(* Others do not copy while current is in a call, as long as no copy has   *)
(* been interrupted.                                                       *)
LEMMA OnlyCurrent ==
  ASSUME Inv, ~torn, NEW q \in Procs, q # current
  PROVE  pc[q] \notin {"get", "put"}
BY DEF Inv, Copies

(* A reader takes its bytes out of the pipe, and a writer puts its bytes   *)
(* in, before it copies them: what the queue holds stays the same.         *)
LEMMA RoundStep ==
  ASSUME Inv, NEW p \in Procs, ReadRound(p) \/ WriteRound(p)
  PROVE  Inv' /\ Contents' = Contents
<1> USE DEF Goto, waitVars
<1>a. /\ p # Nobody /\ PAGE_SIZE \in Nat /\ PAGE_SIZE >= 2 /\ current = p /\ current' = p
      /\ head \in Positions /\ tail \in Positions /\ page' = page /\ torn' = torn
      /\ pc \in [Procs -> Labels] /\ pos \in [Procs -> Positions]
      /\ chars \in [Procs -> 0 .. PAGE_SIZE - 1] /\ want \in [Procs -> Nat]
  BY ProcsAssumption, PageSize DEF ReadRound, WriteRound, Inv, TypeOK
<1>b. PIPE_SIZE = Size(head, tail) /\ Size(head, tail) \in 0 .. PAGE_SIZE - 1
  BY <1>a, SizeRange
<1>c. FirstByte = tail /\ Stored = Size(head, tail)
  BY <1>a, <1>b, QuietBefore DEF Inv, Quiet, ReadRound, WriteRound
<1>1. ASSUME ReadRound(p) PROVE Inv' /\ Contents' = Contents
  <2> DEFINE n == Least(Least(PAGE_SIZE - tail, want[p]), PIPE_SIZE)
  <2>1. /\ n \in 1 .. PAGE_SIZE - 1 /\ n <= Size(head, tail) /\ n <= want[p] /\ n \in Nat
        /\ want[p] - n \in Nat
    BY <1>1, <1>a, <1>b DEF ReadRound, Least, Positions
  <2>2. /\ chars' = [chars EXCEPT ![p] = n] /\ want' = [want EXCEPT ![p] = want[p] - n]
        /\ tail' = Wrap(tail + n) /\ head' = head
        /\ pos' = [pos EXCEPT ![p] = tail] /\ pc' = [pc EXCEPT ![p] = "get"]
    BY <1>1 DEF ReadRound
  <2> HIDE DEF n
  <2>3. tail' \in Positions /\ Size(head', tail') = Size(head, tail) - n
    BY <1>a, <2>1, <2>2, Moves
  <2>4. TypeOK'
    <3>1. chars' \in [Procs -> 0 .. PAGE_SIZE - 1] /\ want' \in [Procs -> Nat]
      BY <1>a, <2>1, <2>2
    <3> QED BY <1>1, <1>a, <2>2, <2>3, <3>1 DEF ReadRound, Inv, TypeOK, Labels
  <2>5. Rounds' /\ Count' /\ Holding'
    BY <1>1, <1>a, <2>1, <2>2
       DEF ReadRound, Inv, Rounds, Count, Opened, Holding, ReadLabels, WriteLabels
  <2>6. Copies'
    <3> SUFFICES ASSUME ~torn, NEW q \in Procs, pc'[q] \in {"get", "put"}
                 PROVE  /\ q = p /\ pc'[q] = "get"
                        /\ tail' = Wrap(pos'[p] + chars'[p]) /\ PIPE_SIZE' + chars'[p] < PAGE_SIZE
      BY <1>a DEF Copies
    <3>1. q = p
      BY <1>a, <2>2, OnlyCurrent
    <3>2. PIPE_SIZE' = Size(head', tail') /\ chars'[p] = n /\ pos'[p] = tail
      BY <1>a, <2>2, SizeRange
    <3> QED BY <1>a, <1>b, <2>1, <2>2, <2>3, <3>1, <3>2
  <2>7. FirstByte' = FirstByte /\ Stored' = Stored
    <3>1. (Taking(current))' /\ ~(Storing(current))' /\ current' # Nobody
      BY <1>a, <2>2 DEF Taking, Storing
    <3>2. FirstByte' = tail
      BY <1>a, <2>2, <3>1 DEF FirstByte
    <3>3. Stored' = (Size(head, tail) - n) - 0 + n
      BY <1>a, <2>2, <2>3, <3>1, SizeRange DEF Stored
    <3> QED BY <1>b, <1>c, <2>1, <3>2, <3>3
  <2> QED BY <1>a, <2>4, <2>5, <2>6, <2>7 DEF Inv, Contents
<1>2. ASSUME WriteRound(p) PROVE Inv' /\ Contents' = Contents
  <2> DEFINE n == WriteChars(p)
  <2>1. /\ n \in 1 .. PAGE_SIZE - 1 /\ n + Size(head, tail) < PAGE_SIZE
        /\ n <= Len(left[p]) /\ n \in Nat
    <3>1. left[p] \in Seq(Bytes) /\ left[p] # << >> /\ Size(head, tail) # PAGE_SIZE - 1
      BY <1>2, <1>b DEF WriteRound, Full, Inv, TypeOK
    <3>2. Len(left[p]) \in Nat /\ Len(left[p]) >= 1
      BY <3>1
    <3> QED BY <1>a, <1>b, <3>1, <3>2 DEF WriteChars, Least, Positions
  <2>2. /\ chars' = [chars EXCEPT ![p] = n] /\ head' = Wrap(head + n) /\ tail' = tail
        /\ pos' = [pos EXCEPT ![p] = head] /\ pc' = [pc EXCEPT ![p] = "put"]
    BY <1>2 DEF WriteRound
  <2> HIDE DEF n
  <2>3. head' \in Positions /\ Size(head', tail') = Size(head, tail) + n
    BY <1>a, <2>1, <2>2, Moves
  <2>4. TypeOK'
    <3>1. chars' \in [Procs -> 0 .. PAGE_SIZE - 1]
      BY <1>a, <2>1, <2>2
    <3> QED BY <1>2, <1>a, <2>2, <2>3, <3>1 DEF WriteRound, Inv, TypeOK, Labels
  <2>5. Rounds' /\ Count' /\ Holding'
    BY <1>2, <1>a, <2>1, <2>2
       DEF WriteRound, Inv, Rounds, Count, Opened, Holding, ReadLabels, WriteLabels
  <2>6. Copies'
    <3> SUFFICES ASSUME ~torn, NEW q \in Procs, pc'[q] \in {"get", "put"}
                 PROVE  /\ q = p /\ pc'[q] = "put"
                        /\ head' = Wrap(pos'[p] + chars'[p]) /\ chars'[p] <= PIPE_SIZE'
      BY <1>a DEF Copies
    <3>1. q = p
      BY <1>a, <2>2, OnlyCurrent
    <3>2. PIPE_SIZE' = Size(head', tail') /\ chars'[p] = n /\ pos'[p] = head
      BY <1>a, <2>2, SizeRange
    <3> QED BY <1>a, <1>b, <2>1, <2>2, <2>3, <3>1, <3>2
  <2>7. FirstByte' = FirstByte /\ Stored' = Stored
    <3>1. ~(Taking(current))' /\ (Storing(current))' /\ current' # Nobody
      BY <1>a, <2>2 DEF Taking, Storing
    <3>2. FirstByte' = tail
      BY <1>a, <2>2, <3>1 DEF FirstByte
    <3>3. Stored' = (Size(head, tail) + n) - n + 0
      BY <1>a, <2>2, <2>3, <3>1, SizeRange DEF Stored
    <3> QED BY <1>b, <1>c, <2>1, <3>2, <3>3
  <2> QED BY <1>a, <2>4, <2>5, <2>6, <2>7 DEF Inv, Contents
<1> QED BY <1>1, <1>2

(* The position of a copy moves on. *)
LEMMA NextByte ==
  ASSUME NEW f \in Positions, NEW n \in 1 .. PAGE_SIZE - 1
  PROVE  Wrap(f + 1) \in Positions /\ Wrap(Wrap(f + 1) + (n - 1)) = Wrap(f + n)
BY PageSize DEF Positions, Wrap

(* The head is n bytes after f: so f is n bytes less than the size after t. *)
LEMMA BackFrom ==
  ASSUME NEW f \in Positions, NEW t \in Positions, NEW n \in 1 .. PAGE_SIZE - 1,
         n <= Size(Wrap(f + n), t)
  PROVE  f = Wrap(t + (Size(Wrap(f + n), t) - n))
BY PageSize DEF Positions, Wrap, Size

(* A reader copies a byte: the first of the queue. *)
LEMMA ReadByteStep ==
  ASSUME Inv, NEW p \in Procs, ReadByte(p)
  PROVE  /\ Inv'
         /\ ~torn => /\ Contents # << >> /\ page[pos[p]] = Head(Contents)
                     /\ Contents' = Tail(Contents)
<1> USE DEF Goto, ringVars, waitVars
<1> DEFINE s == Size(head, tail)
           c == chars[p]
<1>a. /\ p # Nobody /\ PAGE_SIZE \in Nat /\ PAGE_SIZE >= 2 /\ current = p /\ current' = p
      /\ head \in Positions /\ tail \in Positions /\ torn' = torn
      /\ pc \in [Procs -> Labels] /\ pos \in [Procs -> Positions] /\ pc[p] = "get"
      /\ chars \in [Procs -> 0 .. PAGE_SIZE - 1] /\ page \in [Positions -> Bytes]
      /\ c \in 1 .. PAGE_SIZE - 1
  BY ProcsAssumption, PageSize DEF ReadByte, Inv, TypeOK, Rounds
<1>b. PIPE_SIZE = s /\ PIPE_SIZE' = s /\ s \in 0 .. PAGE_SIZE - 1
  BY <1>a, SizeRange DEF ReadByte
<1>c. /\ chars' = [chars EXCEPT ![p] = c - 1] /\ pos' = [pos EXCEPT ![p] = Wrap(pos[p] + 1)]
      /\ page' = page /\ head' = head /\ tail' = tail
      /\ pc' = IF c = 1 THEN [pc EXCEPT ![p] = "read"] ELSE pc
  BY DEF ReadByte
<1>d. /\ Wrap(pos[p] + 1) \in Positions
      /\ Wrap(Wrap(pos[p] + 1) + (c - 1)) = Wrap(pos[p] + c)
  BY <1>a, NextByte
<1> HIDE DEF c, s
<1>1. TypeOK'
  <2>1. Append(got[p], page[pos[p]]) \in Seq(Bytes)
    BY <1>a DEF Inv, TypeOK
  <2>2. got' \in [Procs -> Seq(Bytes)]
    BY <2>1 DEF ReadByte, Inv, TypeOK
  <2>3. chars' \in [Procs -> 0 .. PAGE_SIZE - 1] /\ pos' \in [Procs -> Positions]
    BY <1>a, <1>c, <1>d
  <2>4. pc' \in [Procs -> Labels]
    BY <1>a, <1>c DEF Labels
  <2> QED BY <2>2, <2>3, <2>4 DEF ReadByte, Inv, TypeOK
<1>2. Rounds' /\ Count' /\ Holding'
  <2>1. Rounds'
    BY <1>a, <1>c DEF ReadByte, Inv, Rounds, c
  <2> QED BY <1>a, <1>c, <2>1
       DEF ReadByte, Inv, Count, Opened, Holding, ReadLabels, WriteLabels
<1>3. ~torn => tail = Wrap(pos[p] + c) /\ s + c < PAGE_SIZE
  BY <1>a, <1>b DEF Inv, Copies, c
<1>4. Copies'
  <2> SUFFICES ASSUME ~torn, NEW q \in Procs, pc'[q] \in {"get", "put"}
               PROVE  /\ q = p /\ pc'[q] = "get"
                      /\ tail' = Wrap(pos'[p] + chars'[p]) /\ PIPE_SIZE' + chars'[p] < PAGE_SIZE
    BY <1>a DEF Copies
  <2>1. q = p /\ pc'[p] = "get"
    BY <1>a, <1>c, OnlyCurrent
  <2>2. chars'[p] = c - 1 /\ pos'[p] = Wrap(pos[p] + 1)
    BY <1>a, <1>c
  <2> QED BY <1>a, <1>b, <1>c, <1>d, <1>3, <2>1, <2>2
<1>5. ASSUME ~torn
      PROVE  /\ Contents # << >> /\ page[pos[p]] = Head(Contents)
             /\ Contents' = Tail(Contents)
  <2>1. FirstByte = pos[p] /\ Stored = s + c
    <3>1. Taking(current) /\ ~Storing(current) /\ current # Nobody
      BY <1>a DEF Taking, Storing
    <3>2. Stored = s - 0 + c
      BY <1>a, <1>b, <3>1 DEF Stored, c
    <3> QED BY <1>a, <1>b, <3>1, <3>2 DEF FirstByte
  <2>2. FirstByte' = Wrap(pos[p] + 1) /\ Stored' = (s + c) - 1
    <3>1. CASE c = 1
      <4>1. Quiet'
        BY <1>a, <1>c, <3>1 DEF Quiet
      <4>2. FirstByte' = tail /\ Stored' = s
        BY <1>1, <1>b, <1>c, <4>1, QuietAfter
      <4> QED BY <1>3, <1>5, <1>b, <3>1, <4>2
    <3>2. CASE c # 1
      <4>1. (Taking(current))' /\ ~(Storing(current))' /\ current' # Nobody
        BY <1>a, <1>c, <3>2 DEF Taking, Storing
      <4>2. FirstByte' = Wrap(pos[p] + 1)
        BY <1>a, <1>c, <4>1 DEF FirstByte
      <4>3. Stored' = s - 0 + (c - 1)
        BY <1>a, <1>b, <1>c, <4>1 DEF Stored
      <4> QED BY <1>a, <1>b, <4>2, <4>3
    <3> QED BY <3>1, <3>2
  <2>3. s + c \in 1 .. PAGE_SIZE
    BY <1>a, <1>b, <1>3, <1>5
  <2>4. Contents = Run(page, pos[p], s + c)
    BY <2>1 DEF Contents, Run
  <2>5. Contents' = Run(page, Wrap(pos[p] + 1), (s + c) - 1)
    BY <1>c, <2>2 DEF Contents, Run
  <2> DEFINE n == s + c
             f == pos[p]
  <2>6. /\ f \in Positions /\ n \in 1 .. PAGE_SIZE
        /\ Contents = Run(page, f, n) /\ Contents' = Run(page, Wrap(f + 1), n - 1)
    <3>1. f \in Positions
      BY <1>a
    <3>2. n \in 1 .. PAGE_SIZE
      BY <2>3
    <3>3. Contents = Run(page, f, n)
      BY <2>4
    <3>4. Contents' = Run(page, Wrap(f + 1), n - 1)
      BY <2>5
    <3> QED BY <3>1, <3>2, <3>3, <3>4
  <2> HIDE DEF n, f
  <2>7. Contents # << >> /\ Head(Contents) = page[f] /\ Contents' = Tail(Contents)
    BY <1>a, <2>6, RunTail
  <2> QED BY <2>7 DEF f
<1> QED BY <1>1, <1>2, <1>4, <1>5 DEF Inv

(* A writer copies a byte: it is appended to the queue. *)
LEMMA WriteByteStep ==
  ASSUME Inv, NEW p \in Procs, WriteByte(p)
  PROVE  /\ Inv'
         /\ ~torn => /\ left[p] # << >> /\ Len(Contents) < PAGE_SIZE - 1
                     /\ Contents' = Append(Contents, Head(left[p]))
<1> USE DEF Goto, ringVars, waitVars
<1> DEFINE s == Size(head, tail)
           c == chars[p]
           x == Head(left[p])
<1>a. /\ p # Nobody /\ PAGE_SIZE \in Nat /\ PAGE_SIZE >= 2 /\ current = p /\ current' = p
      /\ head \in Positions /\ tail \in Positions /\ torn' = torn
      /\ pc \in [Procs -> Labels] /\ pos \in [Procs -> Positions] /\ pc[p] = "put"
      /\ chars \in [Procs -> 0 .. PAGE_SIZE - 1] /\ page \in [Positions -> Bytes]
      /\ c \in 1 .. PAGE_SIZE - 1 /\ c <= Len(left[p])
      /\ left \in [Procs -> Seq(Bytes)] /\ left[p] \in Seq(Bytes)
  BY ProcsAssumption, PageSize DEF WriteByte, Inv, TypeOK, Rounds
<1>b. PIPE_SIZE = s /\ PIPE_SIZE' = s /\ s \in 0 .. PAGE_SIZE - 1
  BY <1>a, SizeRange DEF WriteByte
<1>c. /\ chars' = [chars EXCEPT ![p] = c - 1] /\ pos' = [pos EXCEPT ![p] = Wrap(pos[p] + 1)]
      /\ page' = [page EXCEPT ![pos[p]] = x] /\ head' = head /\ tail' = tail
      /\ pc' = IF c = 1 THEN [pc EXCEPT ![p] = "write"] ELSE pc
      /\ left' = [left EXCEPT ![p] = Tail(left[p])]
  BY DEF WriteByte
<1>d. /\ Wrap(pos[p] + 1) \in Positions
      /\ Wrap(Wrap(pos[p] + 1) + (c - 1)) = Wrap(pos[p] + c)
  BY <1>a, NextByte
<1>e. /\ left[p] # << >> /\ x \in Bytes /\ Tail(left[p]) \in Seq(Bytes)
      /\ Len(Tail(left[p])) = Len(left[p]) - 1 /\ Len(left[p]) \in Nat
  <2>1. left[p] # << >>
    BY <1>a
  <2> QED BY <1>a, <2>1, HeadTailProperties
<1> HIDE DEF c, s, x
<1>1. TypeOK'
  <2>1. left' \in [Procs -> Seq(Bytes)] /\ page' \in [Positions -> Bytes]
    BY <1>a, <1>c, <1>e
  <2>2. chars' \in [Procs -> 0 .. PAGE_SIZE - 1] /\ pos' \in [Procs -> Positions]
    BY <1>a, <1>c, <1>d
  <2>3. pc' \in [Procs -> Labels]
    BY <1>a, <1>c DEF Labels
  <2> QED BY <2>1, <2>2, <2>3 DEF WriteByte, Inv, TypeOK
<1>2. Rounds' /\ Count' /\ Holding'
  <2>1. \A q \in Procs : q # p => chars'[q] = chars[q] /\ left'[q] = left[q] /\ pc'[q] = pc[q]
    BY <1>a, <1>c
  <2>2. /\ chars'[p] = c - 1 /\ Len(left'[p]) = Len(left[p]) - 1
        /\ pc'[p] \in {"get", "put"} => c - 1 >= 1
    BY <1>a, <1>c, <1>e
  <2>3. ASSUME NEW q \in Procs, pc'[q] \in {"get", "put"}
        PROVE  chars'[q] >= 1 /\ (pc'[q] = "put" => chars'[q] <= Len(left'[q]))
    <3>1. CASE q = p
      <4>1. c - 1 >= 1
        BY <2>2, <2>3, <3>1
      <4>2. c - 1 <= Len(left[p]) - 1
        BY <1>a, <1>e
      <4> QED BY <2>2, <3>1, <4>1, <4>2
    <3>2. CASE q # p
      BY <2>1, <2>3, <3>2 DEF Inv, Rounds
    <3> QED BY <3>1, <3>2
  <2>4. Rounds'
    BY <2>3 DEF Rounds
  <2> QED BY <1>a, <1>c, <2>4
       DEF WriteByte, Inv, Count, Opened, Holding, ReadLabels, WriteLabels
<1>3. ~torn => head = Wrap(pos[p] + c) /\ c <= s
  BY <1>a, <1>b DEF Inv, Copies, c
<1>4. Copies'
  <2> SUFFICES ASSUME ~torn, NEW q \in Procs, pc'[q] \in {"get", "put"}
               PROVE  /\ q = p /\ pc'[q] = "put"
                      /\ head' = Wrap(pos'[p] + chars'[p]) /\ chars'[p] <= PIPE_SIZE'
    BY <1>a DEF Copies
  <2>1. q = p /\ pc'[p] = "put"
    BY <1>a, <1>c, OnlyCurrent
  <2>2. chars'[p] = c - 1 /\ pos'[p] = Wrap(pos[p] + 1)
    BY <1>a, <1>c
  <2> QED BY <1>a, <1>b, <1>c, <1>d, <1>3, <2>1, <2>2
<1>5. ASSUME ~torn
      PROVE  /\ left[p] # << >> /\ Len(Contents) < PAGE_SIZE - 1
             /\ Contents' = Append(Contents, x)
  <2>1. FirstByte = tail /\ Stored = s - c
    <3>1. ~Taking(current) /\ Storing(current) /\ current # Nobody
      BY <1>a DEF Taking, Storing
    <3>2. Stored = s - c + 0
      BY <1>a, <1>b, <3>1 DEF Stored, c
    <3> QED BY <1>a, <1>b, <3>1, <3>2 DEF FirstByte
  <2>2. FirstByte' = tail /\ Stored' = s - c + 1
    <3>1. CASE c = 1
      <4>1. Quiet'
        BY <1>a, <1>c, <3>1 DEF Quiet
      <4>2. FirstByte' = tail /\ Stored' = s
        BY <1>1, <1>b, <1>c, <4>1, QuietAfter
      <4> QED BY <1>b, <3>1, <4>2
    <3>2. CASE c # 1
      <4>1. ~(Taking(current))' /\ (Storing(current))' /\ current' # Nobody
        BY <1>a, <1>c, <3>2 DEF Taking, Storing
      <4>2. FirstByte' = tail
        BY <1>a, <1>c, <4>1 DEF FirstByte
      <4>3. Stored' = s - (c - 1) + 0
        BY <1>a, <1>b, <1>c, <4>1 DEF Stored
      <4> QED BY <1>a, <1>b, <4>2, <4>3
    <3> QED BY <3>1, <3>2
  <2>3. s - c \in 0 .. PAGE_SIZE - 2 /\ s - c \in 0 .. PAGE_SIZE - 1 /\ s - c \in 0 .. PAGE_SIZE
    BY <1>a, <1>b, <1>3, <1>5
  <2>4. pos[p] = Wrap(tail + (s - c))
    <3>1. pos[p] \in Positions /\ s = Size(Wrap(pos[p] + c), tail) /\ c <= s
      BY <1>a, <1>3, <1>5 DEF s
    <3> QED BY <1>a, <3>1, BackFrom
  <2>5. Contents = Run(page, tail, s - c)
    BY <2>1 DEF Contents, Run
  <2>6. Contents' = Run([page EXCEPT ![Wrap(tail + (s - c))] = x], tail, (s - c) + 1)
    BY <1>c, <2>2, <2>4 DEF Contents, Run
  <2>7. Len(Contents) = s - c
    BY <1>a, <2>3, <2>5, RunSeq
  <2> DEFINE n == s - c
  <2>8. /\ n \in 0 .. PAGE_SIZE - 1 /\ Contents = Run(page, tail, n)
        /\ Contents' = Run([page EXCEPT ![Wrap(tail + n)] = x], tail, n + 1)
    BY <2>3, <2>5, <2>6
  <2> HIDE DEF n
  <2>9. Contents' = Append(Contents, x)
    BY <1>a, <1>e, <2>8, RunAppend
  <2> QED BY <1>a, <1>e, <2>3, <2>7, <2>9
<1> QED BY <1>1, <1>2, <1>4, <1>5 DEF Inv, x

-----------------------------------------------------------------------------
LEMMA InvNext == Inv /\ [Next]_vars => Inv'
<1> SUFFICES ASSUME Inv, [Next]_vars PROVE Inv'
  OBVIOUS
<1>1. CASE UNCHANGED vars
  BY <1>1 DEF vars, ringVars, waitVars, callVars, Inv, TypeOK, Rounds, Count, Opened,
              Holding, Copies, PIPE_SIZE
<1>2. ASSUME NEW p \in Procs, read_pipe(p) \/ write_pipe(p) PROVE Inv'
  BY <1>2, CallStep, RoundStep, ReadByteStep, WriteByteStep DEF read_pipe, write_pipe
<1>3. ASSUME NEW p \in Procs, ReadCall(p) \/ WriteCall(p) PROVE Inv'
  BY <1>3, CallStep
<1>4. ASSUME NEW p \in Procs, NEW e \in Ends, Close(p, e) PROVE Inv'
  BY <1>4, CloseStep
<1>5. ASSUME NEW p \in Procs, PageFault(p) \/ Resume(p) PROVE Inv'
  BY <1>5, SwitchStep
<1> QED BY <1>1, <1>2, <1>3, <1>4, <1>5 DEF Next

(* The types hold for any number of processes and any page size: the       *)
(* positions never leave the page, and a round copies less than a page.    *)
THEOREM TypeCorrect == Spec => []TypeOK
<1>1. Inv => TypeOK
  BY DEF Inv
<1> QED BY <1>1, InvInit, InvNext, PTL DEF Spec

(* i_count is the number of open ends, for any number of descriptors, and  *)
(* is not 0 while a process is in read_pipe or write_pipe: iput does not   *)
(* free the page under it.                                                 *)
THEOREM InodeInUseHolds == Spec => []InodeInUse
<1>1. ASSUME Inv PROVE InodeInUse
  <2> DEFINE E == {e \in Ends : open[e] # {}}
  <2>1. Cardinality(E) = Opened("read") + Opened("write")
    <3>1. CASE open["read"] = {} /\ open["write"] = {}
      <4>1. E = {}
        BY <3>1 DEF Ends
      <4> QED BY <3>1, <4>1, FS_EmptySet DEF Opened
    <3>2. CASE open["read"] # {} /\ open["write"] = {}
      <4>1. E = {"read"}
        BY <3>2 DEF Ends
      <4> QED BY <3>2, <4>1, FS_Singleton DEF Opened
    <3>3. CASE open["read"] = {} /\ open["write"] # {}
      <4>1. E = {"write"}
        BY <3>3 DEF Ends
      <4> QED BY <3>3, <4>1, FS_Singleton DEF Opened
    <3>4. CASE open["read"] # {} /\ open["write"] # {}
      <4>1. E = {"read"} \cup {"write"} /\ "write" \notin {"read"}
        BY <3>4 DEF Ends
      <4>2. IsFiniteSet({"read"}) /\ Cardinality({"read"}) = 1
        BY FS_Singleton
      <4>3. Cardinality({"read"} \cup {"write"}) = 1 + 1
        BY <4>1, <4>2, FS_AddElement, Zenon
      <4> QED BY <3>4, <4>1, <4>3 DEF Opened
    <3> QED BY <3>1, <3>2, <3>3, <3>4
  <2>2. ASSUME NEW p \in Procs, pc[p] # "user" PROVE i_count > 0
    <3>1. p \in open["read"] \/ p \in open["write"]
      BY <1>1, <2>2 DEF Inv, TypeOK, Labels, Holding, ReadLabels, WriteLabels
    <3> QED BY <1>1, <3>1 DEF Inv, Count, Opened
  <2> QED BY <1>1, <2>1, <2>2 DEF InodeInUse, Inv, Count
<1> QED BY <1>1, InvInit, InvNext, PTL DEF Spec

-----------------------------------------------------------------------------
(* The end of the file.                                                    *)

LEMMA EndOfFileNext ==
  Inv /\ [Next]_vars =>
    \A p \in Procs :
      /\ pc[p] = "read" /\ pc'[p] = "user" /\ want[p] > 0
           => open["write"] = {} /\ PIPE_SIZE = 0
      /\ pc[p] = "write" /\ pc'[p] = "user" /\ left[p] # << >>
           => open["read"] = {}
<1> SUFFICES ASSUME Inv, [Next]_vars, NEW p \in Procs, pc[p] \in {"read", "write"}, pc'[p] = "user"
             PROVE  /\ pc[p] = "read" /\ want[p] > 0 => open["write"] = {} /\ PIPE_SIZE = 0
                    /\ pc[p] = "write" /\ left[p] # << >> => open["read"] = {}
  BY Zenon
<1>a. pc \in [Procs -> Labels] /\ "user" \notin {"read", "write"}
  BY DEF Inv, TypeOK
<1>1. ReadDone(p) \/ ReadEof(p) \/ WriteDone(p) \/ WriteBroken(p)
  <2>1. CASE UNCHANGED vars
    BY <2>1, <1>a DEF vars
  <2>2. ASSUME NEW q \in Procs, read_pipe(q) PROVE ReadDone(p) \/ ReadEof(p)
    BY <2>2, <1>a DEF read_pipe, ReadDone, ReadEof, ReadReturns, ReadSleep, ReadRound,
                      ReadByte, Goto
  <2>3. ASSUME NEW q \in Procs, write_pipe(q) PROVE WriteDone(p) \/ WriteBroken(p)
    BY <2>3, <1>a DEF write_pipe, WriteDone, WriteBroken, WriteReturns, WriteSleep, WriteRound,
                      WriteByte, Goto
  <2>4. ASSUME NEW q \in Procs, ReadCall(q) \/ WriteCall(q) PROVE FALSE
    BY <2>4, <1>a DEF ReadCall, WriteCall, Goto
  <2>5. ASSUME NEW q \in Procs, NEW e \in Ends, Close(q, e) PROVE FALSE
    BY <2>5, <1>a DEF Close
  <2>6. ASSUME NEW q \in Procs, PageFault(q) \/ Resume(q) PROVE FALSE
    BY <2>6, <1>a DEF PageFault, Resume, Goto
  <2> QED BY <2>1, <2>2, <2>3, <2>4, <2>5, <2>6 DEF Next
<1>2. /\ pc[p] = "read" /\ i_count # 2 => open["write"] = {}
      /\ pc[p] = "write" /\ i_count # 2 => open["read"] = {}
  BY DEF Inv, Count, Opened, Holding, ReadLabels, WriteLabels
<1> QED BY <1>1, <1>2 DEF ReadDone, ReadEof, WriteDone, WriteBroken, NoWriters, NoReaders,
                          Inv, TypeOK

(* A short read has met the end of the file and a broken write has no      *)
(* readers: i_count # 2 means what read_pipe and write_pipe take it for,   *)
(* for every order of closes.                                              *)
THEOREM EndOfFileHolds == Spec => EndOfFile
BY InvInit, InvNext, EndOfFileNext, PTL DEF Spec, EndOfFile

-----------------------------------------------------------------------------
(* Refinement.                                                             *)

LEMMA FifoInit == Init => Fifo!Init
<1> SUFFICES ASSUME Init PROVE Contents = << >>
  BY DEF Init, Fifo!Init
<1>1. TypeOK /\ Quiet /\ PIPE_SIZE = 0
  BY InvInit DEF Init, Inv, Quiet, PIPE_SIZE
<1>2. Stored = 0
  BY <1>1, QuietBefore
<1>3. Contents = Run(page, FirstByte, 0) /\ FirstByte \in Positions
  BY <1>1, <1>2, QuietBefore DEF Contents, Run, TypeOK
<1>4. 0 \in 0 .. PAGE_SIZE
  BY PageSize
<1>5. Contents \in Seq(Bytes) /\ Len(Contents) = 0
  BY <1>1, <1>3, <1>4, RunSeq DEF TypeOK
<1> QED BY <1>5

(* A step of a process that copies nothing leaves the queue alone. *)
LEMMA ContentsFrame ==
  ASSUME TypeOK, TypeOK', Quiet, Quiet', UNCHANGED ringVars
  PROVE  Contents' = Contents
<1>1. FirstByte' = FirstByte /\ Stored' = Stored
  BY QuietBefore, QuietAfter DEF ringVars, PIPE_SIZE
<1> QED BY <1>1 DEF Contents, ringVars

LEMMA FifoNext == Inv /\ [Next]_vars => torn' \/ [Fifo!Next]_Fifo!vars
<1> SUFFICES ASSUME Inv, [Next]_vars, ~torn'
             PROVE  Fifo!Next \/ UNCHANGED <<Contents, left, got>>
  BY DEF Fifo!vars
<1>a. TypeOK /\ TypeOK'
  BY InvNext DEF Inv
<1>1. CASE UNCHANGED vars
  BY <1>1 DEF vars, ringVars, waitVars, callVars, Contents, Stored, FirstByte, Taking, Storing,
              PIPE_SIZE
<1>2. ASSUME NEW p \in Procs, ReadDone(p) \/ ReadEof(p) PROVE Fifo!Next
  <2>1. Contents' = Contents
    BY <1>2, <1>a, CallStep, ContentsFrame DEF ReadDone, ReadEof, ReadReturns
  <2>2. Fifo!EndRead(p)
    BY <1>2, <2>1 DEF ReadDone, ReadEof, ReadReturns, Fifo!EndRead
  <2> QED BY <2>2 DEF Fifo!Next
<1>3. ASSUME NEW p \in Procs, WriteDone(p) \/ WriteBroken(p) PROVE Fifo!Next
  <2>1. Contents' = Contents
    BY <1>3, <1>a, CallStep, ContentsFrame DEF WriteDone, WriteBroken, WriteReturns
  <2>2. Fifo!AbandonWrite(p)
    BY <1>3, <2>1 DEF WriteDone, WriteBroken, WriteReturns, Fifo!AbandonWrite
  <2> QED BY <2>2 DEF Fifo!Next
<1>4. ASSUME NEW p \in Procs, ReadCall(p) \/ ReadSleep(p) \/ WriteSleep(p)
      PROVE  UNCHANGED <<Contents, left, got>>
  <2>1. Contents' = Contents
    BY <1>4, <1>a, CallStep, ContentsFrame DEF ReadCall, ReadSleep, WriteSleep
  <2> QED BY <1>4, <2>1 DEF ReadCall, ReadSleep, WriteSleep, callVars
<1>5. ASSUME NEW p \in Procs, WriteCall(p) PROVE Fifo!Next
  <2>1. Contents' = Contents
    BY <1>5, <1>a, CallStep, ContentsFrame DEF WriteCall
  <2>2. Fifo!StartWrite(p)
    BY <1>5, <2>1 DEF WriteCall, Fifo!StartWrite
  <2> QED BY <2>2 DEF Fifo!Next
<1>6. ASSUME NEW p \in Procs, ReadRound(p) \/ WriteRound(p)
      PROVE  UNCHANGED <<Contents, left, got>>
  BY <1>6, RoundStep DEF ReadRound, WriteRound
<1>7. ASSUME NEW p \in Procs, ReadByte(p) PROVE Fifo!Next
  <2>1. ~torn
    BY <1>7 DEF ReadByte
  <2>2. Fifo!Get(p)
    BY <1>7, <2>1, ReadByteStep DEF ReadByte, Fifo!Get
  <2> QED BY <2>2 DEF Fifo!Next
<1>8. ASSUME NEW p \in Procs, WriteByte(p) PROVE Fifo!Next
  <2>1. ~torn
    BY <1>8 DEF WriteByte
  <2>2. Fifo!Put(p)
    BY <1>8, <2>1, WriteByteStep DEF WriteByte, Fifo!Put
  <2> QED BY <2>2 DEF Fifo!Next
<1>9. ASSUME NEW p \in Procs, NEW e \in Ends, Close(p, e)
      PROVE  UNCHANGED <<Contents, left, got>>
  <2>1. Contents' = Contents
    BY <1>9, <1>a, CloseStep, ContentsFrame DEF Close
  <2> QED BY <1>9, <2>1 DEF Close, callVars
<1>10. ASSUME NEW p \in Procs, PageFault(p) \/ Resume(p)
       PROVE  UNCHANGED <<Contents, left, got>>
  <2>1. Contents' = Contents
    BY <1>10, <1>a, SwitchStep, ContentsFrame DEF PageFault, Resume
  <2> QED BY <1>10, <2>1 DEF PageFault, Resume, callVars
<1> QED BY <1>1, <1>2, <1>3, <1>4, <1>5, <1>6, <1>7, <1>8, <1>9, <1>10
        DEF Next, read_pipe, write_pipe

(* A pipe is a bounded byte queue for any number of readers and writers,   *)
(* any page size and all sizes of calls, as long as no page fault          *)
(* interrupts a copy of read_pipe or write_pipe.                           *)
THEOREM ImplementsFifo == Spec => IsFifo
BY InvInit, InvNext, FifoInit, FifoNext, PTL DEF Spec, IsFifo
=============================================================================
