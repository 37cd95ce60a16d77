-------------------------------- MODULE Pipe --------------------------------
(***************************************************************************)
(* A pipe of linux-0.11 (fs/pipe.c, the pipe half of iput in fs/inode.c):  *)
(* one page used as a ring, read and written by processes that hold one or *)
(* both of its ends.                                                       *)
(*                                                                         *)
(* The kernel is not preemptive: `current` runs until it sleeps in         *)
(* sleep_on, returns, or takes a page fault on the user's buffer while it  *)
(* copies, which may wait for the disk.  The code moves PIPE_HEAD and      *)
(* PIPE_TAIL before it copies, so such a fault lets the others see bytes   *)
(* that are not there yet; `torn` remembers that it has happened.          *)
(***************************************************************************)
EXTENDS Integers, Sequences, FiniteSets

CONSTANTS
  Readers, Writers, \* the processes that have each end, after the forks
  Nobody,         \* not a process: the processor is idle or in user mode
  PAGE_SIZE,
  Bytes,
  Messages,       \* what is written
  Sizes,          \* how much is asked for
  Faulting,       \* the processes whose buffers may not be in memory
  MaxWrites       \* bound: writes made in all

Procs == Readers \cup Writers

ASSUME ProcsAssumption    == Nobody \notin Procs /\ Faulting \subseteq Procs
                             /\ Readers # {} /\ Writers # {}
ASSUME PageAssumption     == PAGE_SIZE \in Nat /\ PAGE_SIZE >= 2
ASSUME BytesAssumption    == 0 \in Bytes
ASSUME MessagesAssumption == Messages \subseteq Seq(Bytes) \ {<< >>}
ASSUME SizesAssumption    == Sizes \subseteq Nat \ {0}
ASSUME BoundsAssumption   == MaxWrites \in Nat

VARIABLES
  page, head, tail,   \* i_size, PIPE_HEAD and PIPE_TAIL
  i_count,            \* ends of the pipe that are open
  i_wait,             \* the head of the wait queue
  state,              \* per process: running or asleep
  open,               \* per end: the processes with a descriptor of it
  current, pc,
  left,               \* per writer: the bytes of buf still to store
  want, got,          \* per reader: count; the bytes copied to buf
  chars, pos,         \* per process: bytes of this round to copy, and where
  torn,               \* a copy has been interrupted by a page fault
  writes              \* writes still allowed

ringVars == <<page, head, tail>>
waitVars == <<i_wait, state>>
callVars == <<left, want, got, chars, pos>>
vars == <<ringVars, waitVars, callVars, i_count, open, current, pc, torn, writes>>

Positions == 0 .. PAGE_SIZE - 1
Ends      == {"read", "write"}
Labels    == {"user", "read", "get", "read_sleep", "write", "put", "write_sleep"}

TASK_RUNNING         == 0
TASK_UNINTERRUPTIBLE == 2

Wrap(x)   == IF x >= PAGE_SIZE THEN x - PAGE_SIZE ELSE x
PIPE_SIZE == IF head >= tail THEN head - tail ELSE head - tail + PAGE_SIZE

Least(a, b) == IF a < b THEN a ELSE b

Goto(p, l) == pc' = [pc EXCEPT ![p] = l]

-----------------------------------------------------------------------------
(* The wait queue.  Sleepers of a pipe always call wake_up first, so the   *)
(* queue they join is empty and sleep_on has nobody to wake afterwards.    *)

Woken == IF i_wait = Nobody THEN state
                            ELSE [state EXCEPT ![i_wait] = TASK_RUNNING]

wake_up == state' = Woken /\ i_wait' = Nobody

wake_up_sleep_on(p) ==
  /\ state' = [Woken EXCEPT ![p] = TASK_UNINTERRUPTIBLE]
  /\ i_wait' = p
  /\ current' = Nobody

NoWake == UNCHANGED waitVars  \* mutant: a call ends without waking the others

(* A call ends. *)
WakeOthers == wake_up

-----------------------------------------------------------------------------
(* read_pipe                                                               *)

ReadCall(p) ==
  /\ current = Nobody /\ pc[p] = "user" /\ p \in open["read"]
  /\ \E n \in Sizes : want' = [want EXCEPT ![p] = n]
  /\ current' = p
  /\ Goto(p, "read")
  /\ UNCHANGED <<ringVars, waitVars, i_count, open, left, got, chars, pos, torn, writes>>

(* The read returns, with what it asked for or at the end of the file. *)
ReadReturns(p) ==
  /\ WakeOthers
  /\ current' = Nobody
  /\ Goto(p, "user")
  /\ want' = [want EXCEPT ![p] = 0]
  /\ got' = [got EXCEPT ![p] = << >>]
  /\ UNCHANGED <<ringVars, i_count, open, left, chars, pos, torn, writes>>

AnyCount == TRUE  \* mutant: an empty pipe is the end of the file

NoWriters == i_count # 2

ReadDone(p) == current = p /\ pc[p] = "read" /\ want[p] = 0 /\ ReadReturns(p)

ReadEof(p) ==
  /\ current = p /\ pc[p] = "read" /\ want[p] > 0 /\ PIPE_SIZE = 0
  /\ NoWriters
  /\ ReadReturns(p)

ReadSleep(p) ==
  /\ current = p /\ pc[p] = "read" /\ want[p] > 0 /\ PIPE_SIZE = 0
  /\ ~NoWriters
  /\ wake_up_sleep_on(p)
  /\ Goto(p, "read_sleep")
  /\ UNCHANGED <<ringVars, callVars, i_count, open, torn, writes>>

(* A round of the loop: the tail moves past the bytes to be copied. *)
ReadRound(p) ==
  /\ current = p /\ pc[p] = "read" /\ want[p] > 0 /\ PIPE_SIZE # 0
  /\ LET n == Least(Least(PAGE_SIZE - tail, want[p]), PIPE_SIZE)
     IN /\ chars' = [chars EXCEPT ![p] = n]
        /\ want' = [want EXCEPT ![p] = @ - n]
        /\ tail' = Wrap(tail + n)
  /\ pos' = [pos EXCEPT ![p] = tail]
  /\ Goto(p, "get")
  /\ UNCHANGED <<page, head, waitVars, i_count, open, current, left, got, torn, writes>>

(* put_fs_byte, and the end of the round after the last byte. *)
ReadByte(p) ==
  /\ current = p /\ pc[p] = "get"
  /\ got' = [got EXCEPT ![p] = Append(@, page[pos[p]])]
  /\ pos' = [pos EXCEPT ![p] = Wrap(@ + 1)]
  /\ chars' = [chars EXCEPT ![p] = @ - 1]
  /\ IF chars[p] = 1 THEN Goto(p, "read") ELSE UNCHANGED pc
  /\ UNCHANGED <<ringVars, waitVars, i_count, open, current, left, want, torn, writes>>

-----------------------------------------------------------------------------
(* write_pipe                                                              *)

WriteCall(p) ==
  /\ current = Nobody /\ pc[p] = "user" /\ p \in open["write"] /\ writes > 0
  /\ \E m \in Messages : left' = [left EXCEPT ![p] = m]
  /\ current' = p
  /\ writes' = writes - 1
  /\ Goto(p, "write")
  /\ UNCHANGED <<ringVars, waitVars, i_count, open, want, got, chars, pos, torn>>

WriteReturns(p) ==
  /\ WakeOthers
  /\ current' = Nobody
  /\ Goto(p, "user")
  /\ left' = [left EXCEPT ![p] = << >>]
  /\ UNCHANGED <<ringVars, i_count, open, want, got, chars, pos, torn, writes>>

NoReaders == i_count # 2

WriteDone(p) == current = p /\ pc[p] = "write" /\ left[p] = << >> /\ WriteReturns(p)

Full == PIPE_SIZE = PAGE_SIZE - 1

(* SIGPIPE, and what is written so far or an error. *)
WriteBroken(p) ==
  /\ current = p /\ pc[p] = "write" /\ left[p] # << >> /\ Full
  /\ NoReaders
  /\ WriteReturns(p)

WriteSleep(p) ==
  /\ current = p /\ pc[p] = "write" /\ left[p] # << >> /\ Full
  /\ ~NoReaders
  /\ wake_up_sleep_on(p)
  /\ Goto(p, "write_sleep")
  /\ UNCHANGED <<ringVars, callVars, i_count, open, torn, writes>>

AllOfIt(p) ==  \* mutant: the space left is not looked at
  Least(PAGE_SIZE - head, Len(left[p]))

WriteChars(p) ==
  Least(Least(PAGE_SIZE - head, Len(left[p])), PAGE_SIZE - 1 - PIPE_SIZE)

WriteRound(p) ==
  /\ current = p /\ pc[p] = "write" /\ left[p] # << >> /\ ~Full
  /\ chars' = [chars EXCEPT ![p] = WriteChars(p)]
  /\ head' = Wrap(head + WriteChars(p))
  /\ pos' = [pos EXCEPT ![p] = head]
  /\ Goto(p, "put")
  /\ UNCHANGED <<page, tail, waitVars, i_count, open, current, left, want, got, torn, writes>>

(* get_fs_byte, and the end of the round after the last byte. *)
WriteByte(p) ==
  /\ current = p /\ pc[p] = "put"
  /\ page' = [page EXCEPT ![pos[p]] = Head(left[p])]
  /\ left' = [left EXCEPT ![p] = Tail(@)]
  /\ pos' = [pos EXCEPT ![p] = Wrap(@ + 1)]
  /\ chars' = [chars EXCEPT ![p] = @ - 1]
  /\ IF chars[p] = 1 THEN Goto(p, "write") ELSE UNCHANGED pc
  /\ UNCHANGED <<head, tail, waitVars, i_count, open, current, want, got, torn, writes>>

-----------------------------------------------------------------------------
(* sys_close, and iput for the last descriptor of an end.  A process that  *)
(* sleeps or copies is in a system call and closes nothing.                *)

EveryClose(p, e) == TRUE  \* mutant: each descriptor gives the inode back

LastDescriptor(p, e) == open[e] = {p}

Close(p, e) ==
  /\ current = Nobody /\ pc[p] = "user" /\ p \in open[e]
  /\ open' = [open EXCEPT ![e] = @ \ {p}]
  /\ IF LastDescriptor(p, e)
     THEN wake_up /\ i_count' = i_count - 1
     ELSE UNCHANGED <<waitVars, i_count>>
  /\ UNCHANGED <<ringVars, callVars, current, pc, torn, writes>>

(* A copy meets a page that is not in memory: others run meanwhile. *)
PageFault(p) ==
  /\ current = p /\ pc[p] \in {"get", "put"} /\ p \in Faulting
  /\ current' = Nobody
  /\ torn' = TRUE
  /\ UNCHANGED <<ringVars, waitVars, callVars, i_count, open, pc, writes>>

(* schedule gives the processor to a runnable process in the kernel. *)
Resume(p) ==
  /\ current = Nobody /\ pc[p] # "user" /\ state[p] = TASK_RUNNING
  /\ current' = p
  /\ Goto(p, IF pc[p] = "read_sleep" THEN "read"
             ELSE IF pc[p] = "write_sleep" THEN "write" ELSE pc[p])
  /\ UNCHANGED <<ringVars, waitVars, callVars, i_count, open, torn, writes>>

-----------------------------------------------------------------------------
(* After sys_pipe, and the forks and closes that hand its ends out;        *)
(* get_free_page has cleared the page.                                     *)
Init ==
  /\ page = [i \in Positions |-> 0]
  /\ head = 0 /\ tail = 0
  /\ i_count = 2
  /\ i_wait = Nobody
  /\ state = [p \in Procs |-> TASK_RUNNING]
  /\ open = [e \in Ends |-> IF e = "read" THEN Readers ELSE Writers]
  /\ current = Nobody
  /\ pc = [p \in Procs |-> "user"]
  /\ left = [p \in Procs |-> << >>]
  /\ want = [p \in Procs |-> 0]
  /\ got = [p \in Procs |-> << >>]
  /\ chars = [p \in Procs |-> 0]
  /\ pos = [p \in Procs |-> 0]
  /\ torn = FALSE
  /\ writes = MaxWrites

read_pipe(p)  == ReadDone(p) \/ ReadEof(p) \/ ReadSleep(p) \/ ReadRound(p) \/ ReadByte(p)
write_pipe(p) == WriteDone(p) \/ WriteBroken(p) \/ WriteSleep(p) \/ WriteRound(p) \/ WriteByte(p)

Next == \E p \in Procs :
  \/ ReadCall(p) \/ read_pipe(p)
  \/ WriteCall(p) \/ write_pipe(p)
  \/ \E e \in Ends : Close(p, e)
  \/ PageFault(p) \/ Resume(p)

Spec == Init /\ [][Next]_vars

(* The process that has the processor goes on, a page once read in stays   *)
(* there for the copy, and the scheduler leaves no runnable process out    *)
(* for ever: a process that runs uses up the counter it is chosen by.      *)
FairSpec == /\ Spec
            /\ \A p \in Procs : /\ WF_vars(read_pipe(p) \/ write_pipe(p))
                                /\ SF_vars(ReadByte(p) \/ WriteByte(p))
                                /\ SF_vars(Resume(p))

-----------------------------------------------------------------------------
(* Properties                                                              *)

(* The types of the ring, of the queue and of the calls. *)
TypeOK ==
  /\ page \in [Positions -> Bytes] /\ head \in Positions /\ tail \in Positions
  /\ i_count \in 0 .. 2
  /\ i_wait \in Procs \cup {Nobody}
  /\ state \in [Procs -> {TASK_RUNNING, TASK_UNINTERRUPTIBLE}]
  /\ open \in [Ends -> SUBSET Procs]
  /\ current \in Procs \cup {Nobody}
  /\ pc \in [Procs -> Labels]
  /\ left \in [Procs -> Seq(Bytes)] /\ got \in [Procs -> Seq(Bytes)]
  /\ want \in [Procs -> Nat]
  /\ chars \in [Procs -> 0 .. PAGE_SIZE - 1] /\ pos \in [Procs -> Positions]
  /\ torn \in BOOLEAN /\ writes \in 0 .. MaxWrites

(* The copy in progress, if any: without page faults only current copies,  *)
(* and the pipe still, or already, has the bytes the copy has not reached. *)
Storing(p) == current = p /\ pc[p] = "put"
Taking(p)  == current = p /\ pc[p] = "get"

FirstByte == IF current # Nobody /\ Taking(current) THEN pos[current] ELSE tail

Stored == PIPE_SIZE - (IF current # Nobody /\ Storing(current) THEN chars[current] ELSE 0)
                    + (IF current # Nobody /\ Taking(current) THEN chars[current] ELSE 0)

Contents == [i \in 1 .. Stored |-> page[Wrap(FirstByte + i - 1)]]

Fifo == INSTANCE ByteFifo WITH
  Readers <- Procs, Writers <- Procs, Capacity <- PAGE_SIZE - 1, fifo <- Contents

(* As long as no copy is interrupted by a page fault, the pipe is a        *)
(* bounded queue of bytes: however many readers and writers share it, each *)
(* byte is handed out once and in order (read_pipe, write_pipe).           *)
IsFifo == Fifo!Init /\ [][torn' \/ [Fifo!Next]_Fifo!vars]_vars

(* The page is not given back while a process reads, writes or sleeps in   *)
(* the pipe, and i_count is the number of ends that somebody has open      *)
(* (iput, sys_close).                                                      *)
InodeInUse ==
  /\ i_count = Cardinality({e \in Ends : open[e] # {}})
  /\ \A p \in Procs : pc[p] # "user" => i_count > 0

(* A read that returns less than it was asked for has met the end of the   *)
(* file: nobody can write any more and nothing is left; a write is broken  *)
(* off only when nobody can read.  The code tests i_count != 2 instead.    *)
EndOfFile == [][\A p \in Procs :
   /\ pc[p] = "read" /\ pc'[p] = "user" /\ want[p] > 0
        => open["write"] = {} /\ PIPE_SIZE = 0
   /\ pc[p] = "write" /\ pc'[p] = "user" /\ left[p] # << >>
        => open["read"] = {}]_vars

(* Nobody sleeps on while there is something to do for it: a reader of a   *)
(* pipe with bytes or without writers, and a writer of a pipe with space   *)
(* or without readers, is woken (the wake_up calls of read_pipe,           *)
(* write_pipe and iput).                                                   *)
NotServed(p) == \/ pc[p] = "read_sleep" /\ (PIPE_SIZE # 0 \/ i_count # 2)
                \/ pc[p] = "write_sleep" /\ (~Full \/ i_count # 2)
SleepersWake == \A p \in Procs : NotServed(p) ~> (pc[p] \notin {"read_sleep", "write_sleep"})
=============================================================================
