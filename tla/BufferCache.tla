---------------------------- MODULE BufferCache -----------------------------
(***************************************************************************)
(* The buffer cache of linux-0.11 (fs/buffer.c) on top of the block request*)
(* layer (kernel/blk_drv/ll_rw_blk.c, blk.h), used concurrently by several *)
(* processes and by the disk interrupt.                                    *)
(*                                                                         *)
(* The kernel is not preemptive: the process `current` keeps the processor *)
(* between two labels until it sleeps or its system call is done, and only *)
(* the disk interrupt can come in between.  A label is a point where the   *)
(* code may sleep or where an interrupt can make a difference.             *)
(***************************************************************************)
EXTENDS BlockRequest, FiniteSets

CONSTANTS
  Procs,          \* the processes
  Nobody,         \* not a process: the processor is idle or in user mode
  NR_BUFFERS,     \* number of buffer heads
  NR_REQUEST,     \* size of the request table
  Blocks,         \* the blocks asked for, pairs <<device, number>>
  Removable,      \* the devices whose medium can be changed (floppies)
  Ops,            \* the operations the processes use
  Fallible,       \* the commands that can end in an I/O error
  MaxOps,         \* bound: operations started in all
  MaxHold         \* bound: buffers a caller holds when it starts a bread

Buffers == 1 .. NR_BUFFERS
Slots   == 1 .. NR_REQUEST
Devices == {blk[1] : blk \in Blocks}
Majors  == {MAJOR(dev) : dev \in Devices}

AllOps == {"bread", "breada", "bread_page", "new_block", "block_write",
           "sys_sync", "sync_dev", "check_disk_change", "modify"}

ASSUME ProcsAssumption    == IsFiniteSet(Procs) /\ Nobody \notin Procs
ASSUME BuffersAssumption  == NR_BUFFERS \in Nat \ {0}
ASSUME RequestAssumption  == NR_REQUEST \in Nat /\ NR_REQUEST >= 2
ASSUME BlocksAssumption   == Blocks \subseteq (Nat \ {0}) \X Nat
ASSUME OpsAssumption      == Ops \subseteq AllOps /\ Removable \subseteq Devices
ASSUME FallibleAssumption == Fallible \subseteq {READ, WRITE}
ASSUME BoundsAssumption   == MaxOps \in Nat /\ MaxHold \in Nat

VARIABLES
  b_blk,        \* <<b_dev, b_blocknr>> of each buffer head
  b_count,      \* users of the buffer
  b_dirt,       \* changed since it was last queued for writing
  b_uptodate,   \* holds valid data
  b_lock,       \* owned by a request being made or in flight
  free_list,    \* all buffer heads, next victim first
  request,      \* the request table
  queue,        \* per major: the linked list from current_request
  pc, chan,     \* per process: next label; what it sleeps on
  op, args,     \* per process: running operation, blocks still to get
  bh, first,    \* per process: getblk's buffer; the buffer breada returns
  rw, rbh,      \* per process: the arguments of make_request
  scan,         \* per process: position of a walk over all buffer heads
  held,         \* per process and buffer: the block the reference is for
  current,      \* the process in kernel mode that has the processor
  budget,       \* operations the processes may still start
  b_cur,        \* data: the buffer holds the latest contents of its block
  disk_cur      \* data: the disk holds the latest contents of the block

bufVars  == <<b_blk, b_count, b_dirt, b_uptodate, b_lock, free_list>>
reqVars  == <<request, queue>>
dataVars == <<b_cur, disk_cur>>
callVars == <<op, args, bh, first, rw, rbh, scan>>
vars == <<bufVars, reqVars, dataVars, current, callVars, pc, chan, held, budget>>

-----------------------------------------------------------------------------
(* Sleeping and waking.  Every sleeper of a channel is made runnable: the  *)
(* chain through sleep_on's stack frames wakes them one after the other.   *)

NoBuffer == 0
Awake            == 0
buffer_wait      == -1
wait_for_request == -2
Channels == Buffers \cup {Awake, buffer_wait, wait_for_request}

Woken(c) == [p \in Procs |-> IF chan[p] = c THEN Awake ELSE chan[p]]

NoScan == [dev |-> 0, i |-> 0, pass |-> 0]
AllDevs == 0       \* sys_sync walks the buffers of every device

Labels == {"user", "getblk", "hash_wait", "victim_wait", "got", "drop", "fill",
           "sync", "sync_wait", "lock", "find_req", "req_sleep", "read_wait",
           "page_wait", "brelse", "invalidate", "invalidate_wait"}

(* p can take its next step in the kernel. *)
Runs(p, l) == current \in {p, Nobody} /\ chan[p] = Awake /\ pc[p] = l

(* p goes on to label l and keeps the processor. *)
Goto(p, l) == pc' = [pc EXCEPT ![p] = l] /\ current' = p

(* p sleeps on channel c and goes on at label l when woken. *)
SleepOn(p, c, l) == /\ pc' = [pc EXCEPT ![p] = l]
                    /\ chan' = [chan EXCEPT ![p] = c]
                    /\ current' = Nobody

NeverWaits(b) == FALSE  \* mutant: wait_on_buffer does not wait

(* The test of wait_on_buffer, made with interrupts off. *)
MustWait(b) == b_lock[b]

(* p's operation is over: a preemption point. *)
Return(p) == /\ pc' = [pc EXCEPT ![p] = "user"]
             /\ current' = Nobody
             /\ op' = [op EXCEPT ![p] = "none"]
             /\ args' = [args EXCEPT ![p] = << >>]
             /\ bh' = [bh EXCEPT ![p] = NoBuffer]
             /\ first' = [first EXCEPT ![p] = NoBuffer]

Holds(p) == {b \in Buffers : held[p][b] # NoBlock}

-----------------------------------------------------------------------------
(* Init: buffer_init and blk_dev_init.  All contents are on the disk.      *)

Init ==
  /\ b_blk = [b \in Buffers |-> NoBlock]
  /\ b_count = [b \in Buffers |-> 0]
  /\ b_dirt = [b \in Buffers |-> FALSE]
  /\ b_uptodate = [b \in Buffers |-> FALSE]
  /\ b_lock = [b \in Buffers |-> FALSE]
  /\ free_list = [i \in Buffers |-> i]
  /\ request = [s \in Slots |-> NoRequest]
  /\ queue = [m \in Majors |-> << >>]
  /\ pc = [p \in Procs |-> "user"]
  /\ chan = [p \in Procs |-> Awake]
  /\ op = [p \in Procs |-> "none"]
  /\ args = [p \in Procs |-> << >>]
  /\ bh = [p \in Procs |-> NoBuffer]
  /\ first = [p \in Procs |-> NoBuffer]
  /\ rw = [p \in Procs |-> "none"]
  /\ rbh = [p \in Procs |-> NoBuffer]
  /\ scan = [p \in Procs |-> NoScan]
  /\ held = [p \in Procs |-> [b \in Buffers |-> NoBlock]]
  /\ current = Nobody
  /\ budget = MaxOps
  /\ b_cur = [b \in Buffers |-> FALSE]
  /\ disk_cur = [blk \in Blocks |-> TRUE]

-----------------------------------------------------------------------------
(* What callers do.  No caller asks for a block it already holds, and a    *)
(* block that new_block just marked in the bitmap is nobody else's.        *)

Wants(p, blk) == \/ \E k \in DOMAIN args[p] : args[p][k] = blk
                 \/ \E b \in Buffers : held[p][b] = blk

Call(p, o, blocks) ==
  /\ Runs(p, "user") /\ current = Nobody
  /\ o \in Ops /\ budget > 0
  /\ \A k \in DOMAIN blocks : \A q \in Procs :
       Wants(q, blocks[k]) => q # p /\ o # "new_block" /\ op[q] # "new_block"
  /\ op' = [op EXCEPT ![p] = o]
  /\ args' = [args EXCEPT ![p] = blocks]
  /\ budget' = budget - 1
  /\ UNCHANGED <<bufVars, reqVars, dataVars, chan, bh, first, rw, rbh, held>>

(* bread, new_block and block_write of one block; block_write is a system  *)
(* call, whose caller holds nothing yet.                                   *)
CallOne(p, o, blk) ==
  /\ o \in {"bread", "new_block", "block_write"}
  /\ Cardinality(Holds(p)) < MaxHold
  /\ o = "block_write" => Holds(p) = {}
  /\ Call(p, o, <<blk>>) /\ Goto(p, "getblk") /\ UNCHANGED scan

(* breada(dev,first,ahead,-1) and bread_page of the blocks b[] that exist. *)
CallMany(p, o, blk1, blk2) ==
  /\ o \in {"breada", "bread_page"}
  /\ Holds(p) = {} /\ blk1 # blk2 /\ blk1[1] = blk2[1]
  /\ Call(p, o, <<blk1, blk2>>) /\ Goto(p, "getblk") /\ UNCHANGED scan

(* sys_sync walks every buffer head once, sync_dev its device's twice. *)
CallSync(p, o, dev) ==
  /\ o \in {"sys_sync", "sync_dev"}
  /\ Call(p, o, << >>) /\ Goto(p, "sync")
  /\ scan' = [scan EXCEPT ![p] = [dev |-> IF o = "sys_sync" THEN AllDevs ELSE dev,
                                  i |-> 1,
                                  pass |-> IF o = "sys_sync" THEN 2 ELSE 1]]

(* A metadata caller changes a buffer that bread returned to it and marks  *)
(* it dirty, with no sleep between the two.                                *)
Modify(p, b) ==
  /\ Runs(p, "user") /\ current = Nobody
  /\ "modify" \in Ops /\ b \in Holds(p)
  /\ b_dirt' = [b_dirt EXCEPT ![b] = TRUE]
  /\ b_cur' = [b_cur EXCEPT ![b] = TRUE]
  /\ disk_cur' = [disk_cur EXCEPT ![held[p][b]] = FALSE]
  /\ UNCHANGED <<b_blk, b_count, b_uptodate, b_lock, free_list, reqVars, current,
                 callVars, pc, chan, held, budget>>

(* A caller releases a buffer it holds. *)
CallBrelse(p, b) ==
  /\ Runs(p, "user") /\ current = Nobody
  /\ b \in Holds(p)
  /\ bh' = [bh EXCEPT ![p] = b]
  /\ Goto(p, "brelse")
  /\ UNCHANGED <<bufVars, reqVars, dataVars, op, args, first, rw, rbh, scan, chan,
                 held, budget>>

-----------------------------------------------------------------------------
(* getblk                                                                  *)

CachedByNumber(blk) ==  \* mutant: the device is not compared
  {b \in Buffers : b_blk[b][2] = blk[2]}

(* find_buffer: the buffers of this device and block number. *)
Cached(blk) == {b \in Buffers : b_blk[b] = blk}

(* BADNESS(bh): dirty is worse than locked. *)
BADNESS(b) == (IF b_dirt[b] THEN 2 ELSE 0) + (IF b_lock[b] THEN 1 ELSE 0)

(* The walk over the free list keeps the first unused buffer of least     *)
(* badness.                                                               *)
IsVictim(b) ==
  \E i \in Buffers :
    /\ free_list[i] = b /\ b_count[b] = 0
    /\ \A j \in Buffers :
         b_count[free_list[j]] = 0 =>
           \/ BADNESS(b) < BADNESS(free_list[j])
           \/ BADNESS(b) = BADNESS(free_list[j]) /\ i <= j

(* remove_from_queues and insert_into_queues: b moves to the end. *)
MoveToEnd(b) ==
  LET k == CHOOSE i \in Buffers : free_list[i] = b
  IN  [i \in Buffers |-> IF i < k THEN free_list[i]
                         ELSE IF i < NR_BUFFERS THEN free_list[i + 1] ELSE b]

(* repeat: get_hash_table finds the block and takes a reference ... *)
GetblkHit(p) ==
  /\ Runs(p, "getblk")
  /\ \E b \in Cached(Head(args[p])) :
       /\ b_count' = [b_count EXCEPT ![b] = @ + 1]
       /\ held' = [held EXCEPT ![p][b] = Head(args[p])]
       /\ bh' = [bh EXCEPT ![p] = b]
  /\ Goto(p, "hash_wait")
  /\ UNCHANGED <<b_blk, b_dirt, b_uptodate, b_lock, free_list, reqVars, dataVars,
                 op, args, first, rw, rbh, scan, chan, budget>>

(* ... or the free list offers a victim ... *)
GetblkVictim(p) ==
  /\ Runs(p, "getblk") /\ Cached(Head(args[p])) = {}
  /\ \E b \in Buffers : IsVictim(b) /\ bh' = [bh EXCEPT ![p] = b]
  /\ Goto(p, "victim_wait")
  /\ UNCHANGED <<bufVars, reqVars, dataVars, op, args, first, rw, rbh, scan, chan,
                 held, budget>>

(* ... or every buffer is in use and p waits for a brelse. *)
GetblkSleep(p) ==
  /\ Runs(p, "getblk") /\ Cached(Head(args[p])) = {}
  /\ \A b \in Buffers : b_count[b] > 0
  /\ SleepOn(p, buffer_wait, "getblk")
  /\ UNCHANGED <<bufVars, reqVars, dataVars, callVars, held, budget>>

(* get_hash_table after its wait: the buffer may have become another      *)
(* block's, then the reference is dropped and the search repeated.        *)
HashWait(p) ==
  /\ Runs(p, "hash_wait") /\ ~MustWait(bh[p])
  /\ IF b_blk[bh[p]] = Head(args[p])
     THEN Goto(p, "got") /\ UNCHANGED <<b_count, held>>
     ELSE /\ b_count' = [b_count EXCEPT ![bh[p]] = @ - 1]
          /\ held' = [held EXCEPT ![p][bh[p]] = NoBlock]
          /\ Goto(p, "getblk")
  /\ UNCHANGED <<b_blk, b_dirt, b_uptodate, b_lock, free_list, reqVars, dataVars,
                 callVars, chan, budget>>

TakeOver(p, b, blk, uptodate) ==
  /\ b_count' = [b_count EXCEPT ![b] = 1]
  /\ b_dirt' = [b_dirt EXCEPT ![b] = FALSE]
  /\ b_uptodate' = [b_uptodate EXCEPT ![b] = uptodate]
  /\ free_list' = MoveToEnd(b)
  /\ b_blk' = [b_blk EXCEPT ![b] = blk]
  /\ b_cur' = [b_cur EXCEPT ![b] = FALSE]
  /\ held' = [held EXCEPT ![p][b] = Head(args[p])]
  /\ Goto(p, "got")
  /\ UNCHANGED <<b_lock, reqVars, disk_cur, callVars, chan, budget>>

ClaimKeepsNumber(p, b) ==    \* mutant: b_blocknr is not assigned
  TakeOver(p, b, <<Head(args[p])[1], b_blk[b][2]>>, FALSE)

ClaimKeepsUptodate(p, b) ==  \* mutant: b_uptodate is not reset
  TakeOver(p, b, Head(args[p]), b_uptodate[b])

(* The last lines of getblk: the buffer is taken over for the block. *)
Claim(p, b) == TakeOver(p, b, Head(args[p]), FALSE)

NeverTaken(b) == FALSE   \* mutant: no look at b_count after the wait
NeverDirty(b) == FALSE   \* mutant: a dirty victim is not written out
NeverCached(p) == FALSE  \* mutant: no second search for the block

(* While p slept, somebody took the victim, ... *)
Taken(b) == b_count[b] # 0

(* ... changed it ... *)
NeedsSync(b) == b_dirt[b]

(* ... or brought "this" block into the cache. *)
Superfluous(p) == Cached(Head(args[p])) # {}

(* The victim after wait_on_buffer: lost to somebody or not needed, ... *)
VictimLost(p) ==
  /\ Runs(p, "victim_wait") /\ ~MustWait(bh[p])
  /\ Taken(bh[p]) \/ (~NeedsSync(bh[p]) /\ Superfluous(p))
  /\ Goto(p, "getblk")
  /\ UNCHANGED <<bufVars, reqVars, dataVars, callVars, chan, held, budget>>

(* ... dirty: its device is written out, then it is looked at again, ... *)
VictimSync(p) ==
  /\ Runs(p, "victim_wait") /\ ~MustWait(bh[p])
  /\ ~Taken(bh[p]) /\ NeedsSync(bh[p])
  /\ scan' = [scan EXCEPT ![p] = [dev |-> b_blk[bh[p]][1], i |-> 1, pass |-> 1]]
  /\ Goto(p, "sync")
  /\ UNCHANGED <<bufVars, reqVars, dataVars, op, args, bh, first, rw, rbh, chan,
                 held, budget>>

(* ... or unused, unlocked, clean and wanted. *)
VictimClaim(p) ==
  /\ Runs(p, "victim_wait") /\ ~MustWait(bh[p])
  /\ ~Taken(bh[p]) /\ ~NeedsSync(bh[p]) /\ ~Superfluous(p)
  /\ Claim(p, bh[p])

-----------------------------------------------------------------------------
(* sync_dev and sys_sync: the walks over all buffer heads.                 *)

(* ll_rw_block(cmd, b) is called. *)
CallRW(p, cmd, b) == /\ rw' = [rw EXCEPT ![p] = cmd]
                     /\ rbh' = [rbh EXCEPT ![p] = b]
                     /\ Goto(p, "lock")

InScan(p, b) == scan[p].dev = AllDevs \/ b_blk[b][1] = scan[p].dev

(* The walk of p moved to position i. *)
At(p, i, pass) == [dev |-> scan[p].dev, i |-> i, pass |-> pass]

(* Buffers of the walk that make it stop: locked (wait) or dirty (write). *)
Pending(p) == {b \in Buffers : /\ b >= scan[p].i
                               /\ InScan(p, b)
                               /\ b_lock[b] \/ b_dirt[b]}

(* The walk meets a locked buffer, which it must wait for ... *)
SyncWait(p) ==
  /\ Runs(p, "sync")
  /\ \E b \in Pending(p) :
       /\ \A c \in Pending(p) : b <= c
       /\ b_lock[b]
       /\ scan' = [scan EXCEPT ![p] = At(p, b, scan[p].pass)]
  /\ Goto(p, "sync_wait")
  /\ UNCHANGED <<bufVars, reqVars, dataVars, op, args, bh, first, rw, rbh, chan,
                 held, budget>>

(* ... and looks at again once it is unlocked, as it may have become       *)
(* another device's or clean; invalidate_buffers does the same.            *)
ScanWaited(p) ==
  /\ pc[p] \in {"sync_wait", "invalidate_wait"}
  /\ Runs(p, pc[p]) /\ ~MustWait(scan[p].i)
  /\ Goto(p, IF pc[p] = "sync_wait" THEN "sync" ELSE "invalidate")
  /\ UNCHANGED <<bufVars, reqVars, dataVars, callVars, chan, held, budget>>

(* ... or an unlocked dirty one, which it writes. *)
SyncWrite(p) ==
  /\ Runs(p, "sync")
  /\ \E b \in Pending(p) :
       /\ \A c \in Pending(p) : b <= c
       /\ ~b_lock[b]
       /\ scan' = [scan EXCEPT ![p] = At(p, b + 1, scan[p].pass)]
       /\ CallRW(p, WRITE, b)
  /\ UNCHANGED <<bufVars, reqVars, dataVars, op, args, bh, first, chan, held, budget>>

(* End of a walk: sync_dev makes a second one after sync_inodes ... *)
SyncAgain(p) ==
  /\ Runs(p, "sync") /\ Pending(p) = {} /\ scan[p].pass = 1
  /\ scan' = [scan EXCEPT ![p] = At(p, 1, 2)]
  /\ Goto(p, "sync")
  /\ UNCHANGED <<bufVars, reqVars, dataVars, op, args, bh, first, rw, rbh, chan,
                 held, budget>>

(* ... then the system call is done, or getblk looks at its victim again. *)
SyncEnd(p) ==
  /\ Runs(p, "sync") /\ Pending(p) = {} /\ scan[p].pass # 1
  /\ scan' = [scan EXCEPT ![p] = NoScan]
  /\ IF op[p] \in {"sys_sync", "sync_dev"}
     THEN Return(p)
     ELSE Goto(p, "victim_wait") /\ UNCHANGED <<op, args, bh, first>>
  /\ UNCHANGED <<bufVars, reqVars, dataVars, rw, rbh, chan, held, budget>>

-----------------------------------------------------------------------------
(* ll_rw_block and make_request with the arguments rw[p], rbh[p].          *)

(* Where p goes on after the read or write of one buffer: `lead` is the     *)
(* first buffer of the operation, `rest` the blocks still to be got.        *)
AfterRW(p, lead, rest) ==
  IF scan[p] # NoScan THEN "sync"
  ELSE IF op[p] = "breada" /\ bh[p] # lead THEN "drop"
  ELSE IF rest # << >> THEN "getblk"
  ELSE IF op[p] = "bread_page" THEN "page_wait" ELSE "read_wait"

ReturnRW(p) == /\ rw' = [rw EXCEPT ![p] = "none"]
               /\ rbh' = [rbh EXCEPT ![p] = NoBuffer]
               /\ Goto(p, AfterRW(p, first[p], args[p]))

(* A read-ahead of a locked buffer, a write of a clean one and a read of a *)
(* valid one need no request.                                              *)
NotNeeded(p) ==
  \/ rw[p] = READA /\ b_lock[rbh[p]]
  \/ rw[p] = WRITE /\ ~b_dirt[rbh[p]]
  \/ rw[p] # WRITE /\ b_uptodate[rbh[p]]

(* lock_buffer without a wait, then unlock_buffer at once when the request *)
(* is not needed: nobody sleeps on an unlocked buffer.                     *)
SkipRequest(p) ==
  /\ Runs(p, "lock") /\ (rw[p] = READA \/ ~b_lock[rbh[p]]) /\ NotNeeded(p)
  /\ ReturnRW(p)
  /\ UNCHANGED <<bufVars, reqVars, dataVars, op, args, bh, first, scan, chan, held,
                 budget>>

LockBuffer(p) ==
  /\ Runs(p, "lock") /\ ~b_lock[rbh[p]] /\ ~NotNeeded(p)
  /\ b_lock' = [b_lock EXCEPT ![rbh[p]] = TRUE]
  /\ Goto(p, "find_req")
  /\ UNCHANGED <<b_blk, b_count, b_dirt, b_uptodate, free_list, reqVars, dataVars,
                 callVars, chan, held, budget>>

Command(p) == IF rw[p] = WRITE THEN WRITE ELSE READ

AnySlot(p) ==   \* mutant: the slot's dev is not looked at
  UsableSlots(Command(p), NR_REQUEST)

FreeSlots(p) == {s \in UsableSlots(Command(p), NR_REQUEST) : IsFree(request[s])}

(* A free slot is filled and queued: add_request clears b_dirt. *)
AddRequest(p) ==
  LET b == rbh[p]
      req == [cmd |-> Command(p), bh |-> b, blk |-> b_blk[b], moved |-> FALSE]
      m == MAJOR(b_blk[b][1])
  IN
  /\ Runs(p, "find_req")
  /\ \E s \in FreeSlots(p) :
       /\ \A t \in FreeSlots(p) : t <= s
       /\ request' = [request EXCEPT ![s] = req]
       /\ queue' = [queue EXCEPT ![m] = Enqueue(request, queue[m], s, req)]
  /\ b_dirt' = [b_dirt EXCEPT ![b] = FALSE]
  /\ ReturnRW(p)
  /\ UNCHANGED <<b_blk, b_count, b_uptodate, b_lock, free_list, dataVars,
                 op, args, bh, first, scan, chan, held, budget>>

(* No free slot: a read-ahead is forgotten, any other request must wait ... *)
NoSlot(p) ==
  /\ Runs(p, "find_req") /\ FreeSlots(p) = {}
  /\ IF rw[p] = READA
     THEN /\ b_lock' = [b_lock EXCEPT ![rbh[p]] = FALSE]
          /\ chan' = Woken(rbh[p])
          /\ ReturnRW(p)
     ELSE Goto(p, "req_sleep") /\ UNCHANGED <<b_lock, chan, rw, rbh>>
  /\ UNCHANGED <<b_blk, b_count, b_dirt, b_uptodate, free_list, reqVars, dataVars,
                 op, args, bh, first, scan, held, budget>>

(* ... but interrupts are on between the scan and sleep_on. *)
RequestSleep(p) ==
  /\ Runs(p, "req_sleep")
  /\ SleepOn(p, wait_for_request, "find_req")
  /\ UNCHANGED <<bufVars, reqVars, dataVars, callVars, held, budget>>

-----------------------------------------------------------------------------
(* bread, breada, bread_page, new_block and block_write with the buffer    *)
(* that getblk returned.                                                   *)

(* The processor may be given away, for a page fault in get_fs_byte. *)
MayBlock(p, l) == pc' = [pc EXCEPT ![p] = l] /\ current' = Nobody

(* bread finds the buffer valid and returns it. *)
GotValid(p) ==
  /\ Runs(p, "got") /\ op[p] = "bread" /\ b_uptodate[bh[p]]
  /\ Return(p)
  /\ UNCHANGED <<bufVars, reqVars, dataVars, rw, rbh, scan, chan, held, budget>>

(* Otherwise an invalid buffer is read, by breada's read-ahead loop the    *)
(* first one again instead of the one just got, and the next one got.      *)
GotRead(p) ==
  LET b == bh[p]
      rest == Tail(args[p])
      lead == IF first[p] = NoBuffer THEN b ELSE first[p]
  IN
  /\ Runs(p, "got")
  /\ op[p] \in {"breada", "bread_page"} \/ (op[p] = "bread" /\ ~b_uptodate[b])
  /\ first' = [first EXCEPT ![p] = lead]
  /\ args' = [args EXCEPT ![p] = rest]
  /\ IF b_uptodate[b]
     THEN Goto(p, AfterRW(p, lead, rest)) /\ UNCHANGED <<rw, rbh>>
     ELSE IF op[p] = "breada" /\ b # lead
     THEN CallRW(p, READA, lead)
     ELSE CallRW(p, READ, b)
  /\ UNCHANGED <<bufVars, reqVars, dataVars, op, bh, scan, chan, held, budget>>

(* breada gives its read-ahead buffer back by hand, without a wake-up. *)
DropAhead(p) ==
  /\ Runs(p, "drop")
  /\ b_count' = [b_count EXCEPT ![bh[p]] = @ - 1]
  /\ held' = [held EXCEPT ![p][bh[p]] = NoBlock]
  /\ bh' = [bh EXCEPT ![p] = first[p]]
  /\ Goto(p, IF args[p] # << >> THEN "getblk" ELSE "read_wait")
  /\ UNCHANGED <<b_blk, b_dirt, b_uptodate, b_lock, free_list, reqVars, dataVars,
                 op, args, first, rw, rbh, scan, chan, budget>>

(* new_block clears the block in the buffer and releases it. *)
GotNew(p) ==
  LET b == bh[p] IN
  /\ Runs(p, "got") /\ op[p] = "new_block"
  /\ b_uptodate' = [b_uptodate EXCEPT ![b] = TRUE]
  /\ b_dirt' = [b_dirt EXCEPT ![b] = TRUE]
  /\ b_cur' = [b_cur EXCEPT ![b] = TRUE]
  /\ disk_cur' = [disk_cur EXCEPT ![Head(args[p])] = FALSE]
  /\ Goto(p, "brelse")
  /\ UNCHANGED <<b_blk, b_count, b_lock, free_list, reqVars, callVars, chan, held,
                 budget>>

(* block_write of a full block: no read, the caller's bytes may be paged in *)
GotWrite(p) ==
  /\ Runs(p, "got") /\ op[p] = "block_write"
  /\ MayBlock(p, "fill")
  /\ UNCHANGED <<bufVars, reqVars, dataVars, callVars, chan, held, budget>>

(* ... and once they are copied the buffer is dirty; b_uptodate is not set. *)
Fill(p) ==
  LET b == bh[p] IN
  /\ Runs(p, "fill")
  /\ b_dirt' = [b_dirt EXCEPT ![b] = TRUE]
  /\ b_cur' = [b_cur EXCEPT ![b] = TRUE]
  /\ disk_cur' = [disk_cur EXCEPT ![Head(args[p])] = FALSE]
  /\ Goto(p, "brelse")
  /\ UNCHANGED <<b_blk, b_count, b_uptodate, b_lock, free_list, reqVars, callVars,
                 chan, held, budget>>

(* The end of bread and breada: the buffer is returned if it is valid, *)
ReadDone(p) ==
  /\ Runs(p, "read_wait") /\ ~MustWait(first[p]) /\ b_uptodate[first[p]]
  /\ Return(p)
  /\ UNCHANGED <<bufVars, reqVars, dataVars, rw, rbh, scan, chan, held, budget>>

(* else released. *)
ReadFailed(p) ==
  /\ Runs(p, "read_wait") /\ ~MustWait(first[p]) /\ ~b_uptodate[first[p]]
  /\ bh' = [bh EXCEPT ![p] = first[p]]
  /\ Goto(p, "brelse")
  /\ UNCHANGED <<bufVars, reqVars, dataVars, op, args, first, rw, rbh, scan, chan,
                 held, budget>>

ReleaseSilently(p, b) ==  \* mutant: brelse does not wake buffer_wait
  /\ b_count' = [b_count EXCEPT ![b] = @ - 1]
  /\ held' = [held EXCEPT ![p][b] = NoBlock]
  /\ UNCHANGED chan

Release(p, b) == /\ b_count' = [b_count EXCEPT ![b] = @ - 1]
                 /\ held' = [held EXCEPT ![p][b] = NoBlock]
                 /\ chan' = Woken(buffer_wait)

Brelse(p) ==
  /\ Runs(p, "brelse") /\ ~MustWait(bh[p])
  /\ Release(p, bh[p]) /\ Return(p)
  /\ UNCHANGED <<b_blk, b_dirt, b_uptodate, b_lock, free_list, reqVars, dataVars,
                 rw, rbh, scan, budget>>

(* The second loop of bread_page: wait for each buffer, copy, release. *)
PageBuffer(p) == IF first[p] # NoBuffer THEN first[p] ELSE bh[p]

PageWait(p) ==
  /\ Runs(p, "page_wait") /\ ~MustWait(PageBuffer(p))
  /\ Release(p, PageBuffer(p))
  /\ IF PageBuffer(p) # bh[p]
     THEN /\ first' = [first EXCEPT ![p] = NoBuffer]
          /\ Goto(p, "page_wait")
          /\ UNCHANGED <<op, args, bh>>
     ELSE Return(p)
  /\ UNCHANGED <<b_blk, b_dirt, b_uptodate, b_lock, free_list, reqVars, dataVars,
                 rw, rbh, scan, budget>>

(* The buffer that the wait_on_buffer (or lock_buffer) at p's label is for. *)
WaitTarget(p) ==
  IF pc[p] \in {"hash_wait", "victim_wait", "brelse"} THEN bh[p]
  ELSE IF pc[p] \in {"sync_wait", "invalidate_wait"} THEN scan[p].i
  ELSE IF pc[p] = "lock" /\ rw[p] # READA THEN rbh[p]
  ELSE IF pc[p] = "read_wait" THEN first[p]
  ELSE IF pc[p] = "page_wait" THEN PageBuffer(p) ELSE NoBuffer

(* It is locked: p sleeps, and tests again when woken. *)
Wait(p) ==
  /\ Runs(p, pc[p])
  /\ WaitTarget(p) # NoBuffer /\ MustWait(WaitTarget(p))
  /\ SleepOn(p, WaitTarget(p), pc[p])
  /\ UNCHANGED <<bufVars, reqVars, dataVars, callVars, held, budget>>

-----------------------------------------------------------------------------
(* check_disk_change on a changed medium.  The new medium's contents are   *)
(* the latest ones by definition; invalidate_buffers forgets the old ones. *)

CallDiskChange(p, dev) ==
  /\ dev \in Removable
  /\ Runs(p, "user") /\ current = Nobody
  /\ "check_disk_change" \in Ops /\ budget > 0
  /\ op' = [op EXCEPT ![p] = "check_disk_change"]
  /\ budget' = budget - 1
  /\ scan' = [scan EXCEPT ![p] = [dev |-> dev, i |-> 1, pass |-> 2]]
  /\ Goto(p, "invalidate")
  /\ disk_cur' = [blk \in Blocks |-> disk_cur[blk] \/ blk[1] = dev]
  /\ b_cur' = [b \in Buffers |-> b_cur[b] /\ b_blk[b][1] # dev]
  /\ UNCHANGED <<bufVars, reqVars, args, bh, first, rw, rbh, chan, held>>

(* The buffers invalidate_buffers reaches before it meets a locked one. *)
Reached(p) ==
  {b \in Buffers : /\ b >= scan[p].i /\ InScan(p, b)
                   /\ \A c \in Buffers :
                        c >= scan[p].i /\ c <= b /\ InScan(p, c) => ~b_lock[c]}

Invalidated(p) ==
  /\ Runs(p, "invalidate")
  /\ b_uptodate' = [b \in Buffers |-> b_uptodate[b] /\ b \notin Reached(p)]
  /\ b_dirt' = [b \in Buffers |-> b_dirt[b] /\ b \notin Reached(p)]
  /\ UNCHANGED <<b_blk, b_count, b_lock, free_list, reqVars, dataVars, rw, rbh,
                 chan, held, budget>>

Blocking(p) == {b \in Buffers : b >= scan[p].i /\ InScan(p, b) /\ b_lock[b]}

InvalidateWait(p) ==
  /\ Invalidated(p)
  /\ \E b \in Blocking(p) : /\ \A c \in Blocking(p) : b <= c
                            /\ scan' = [scan EXCEPT ![p] = At(p, b, scan[p].pass)]
  /\ Goto(p, "invalidate_wait")
  /\ UNCHANGED <<op, args, bh, first>>

InvalidateEnd(p) ==
  /\ Invalidated(p) /\ Blocking(p) = {}
  /\ Return(p) /\ scan' = [scan EXCEPT ![p] = NoScan]

-----------------------------------------------------------------------------
(* The device: it moves the data of the current request, then its interrupt *)
(* ends it.  It may come between any two steps of the process in the kernel *)

Transfer(m) ==
  /\ queue[m] # << >>
  /\ LET s == Head(queue[m])
         r == request[s]
     IN  /\ ~r.moved
         /\ request' = [request EXCEPT ![s].moved = TRUE]
         /\ IF r.cmd = READ
            THEN /\ b_cur' = [b_cur EXCEPT ![r.bh] = disk_cur[r.blk]]
                 /\ UNCHANGED disk_cur
            ELSE /\ disk_cur' = [disk_cur EXCEPT ![r.blk] = b_cur[r.bh]]
                 /\ UNCHANGED b_cur
  /\ UNCHANGED <<bufVars, queue, current, callVars, pc, chan, held, budget>>

(* end_request(uptodate): an error can come before any data has moved. *)
EndRequest(m, uptodate) ==
  /\ queue[m] # << >>
  /\ LET s == Head(queue[m])
         r == request[s]
     IN  /\ IF uptodate THEN r.moved ELSE r.cmd \in Fallible /\ ~r.moved
         /\ b_uptodate' = [b_uptodate EXCEPT ![r.bh] = uptodate]
         /\ b_lock' = [b_lock EXCEPT ![r.bh] = FALSE]
         /\ chan' = [p \in Procs |-> IF chan[p] \in {r.bh, wait_for_request}
                                     THEN Awake ELSE chan[p]]
         /\ request' = [request EXCEPT ![s] = NoRequest]
  /\ queue' = [queue EXCEPT ![m] = Tail(@)]
  /\ UNCHANGED <<b_blk, b_count, b_dirt, free_list, dataVars, current, callVars, pc,
                 held, budget>>

-----------------------------------------------------------------------------
Caller(p) ==
  \/ \E o \in Ops, blk \in Blocks : CallOne(p, o, blk)
  \/ \E o \in Ops, blk1, blk2 \in Blocks : CallMany(p, o, blk1, blk2)
  \/ \E o \in Ops, dev \in Devices : CallSync(p, o, dev)
  \/ \E dev \in Devices : CallDiskChange(p, dev)
  \/ \E b \in Buffers : Modify(p, b)

Kernel(p) ==
  \/ \E b \in Buffers : CallBrelse(p, b)
  \/ GetblkHit(p) \/ GetblkVictim(p) \/ GetblkSleep(p) \/ HashWait(p)
  \/ VictimLost(p) \/ VictimSync(p) \/ VictimClaim(p)
  \/ SyncWait(p) \/ ScanWaited(p) \/ SyncWrite(p) \/ SyncAgain(p) \/ SyncEnd(p)
  \/ SkipRequest(p) \/ LockBuffer(p) \/ AddRequest(p) \/ NoSlot(p) \/ RequestSleep(p)
  \/ GotValid(p) \/ GotRead(p) \/ DropAhead(p) \/ GotNew(p) \/ GotWrite(p) \/ Fill(p)
  \/ ReadDone(p) \/ ReadFailed(p) \/ Brelse(p) \/ PageWait(p) \/ Wait(p)
  \/ InvalidateWait(p) \/ InvalidateEnd(p)

Device(m) == Transfer(m) \/ \E ok \in BOOLEAN : EndRequest(m, ok)

Next == \/ \E p \in Procs : Caller(p) \/ Kernel(p)
        \/ \E m \in Majors : Device(m)

(* A process in the kernel goes on when it has the processor, the scheduler *)
(* gives every runnable process its turn, callers release what they hold   *)
(* and the disk serves its queue.                                           *)
Fairness == /\ \A p \in Procs : WF_vars(Kernel(p))
            /\ \A m \in Majors : WF_vars(Device(m))

Spec == Init /\ [][Next]_vars
FairSpec == Spec /\ Fairness
-----------------------------------------------------------------------------
(* Properties                                                              *)

Requests == [cmd : {"FREE", READ, WRITE}, bh : Buffers \cup {NoBuffer},
             blk : Blocks \cup {NoBlock}, moved : BOOLEAN]

Scans == [dev : Devices \cup {0}, i : 0 .. NR_BUFFERS + 1, pass : 0 .. 2]

BufTypeOK == /\ b_blk \in [Buffers -> Blocks \cup {NoBlock}]
             /\ b_count \in [Buffers -> Int]
             /\ b_dirt \in [Buffers -> BOOLEAN]
             /\ b_uptodate \in [Buffers -> BOOLEAN]
             /\ b_lock \in [Buffers -> BOOLEAN]
             /\ free_list \in [Buffers -> Buffers]

ReqTypeOK == /\ request \in [Slots -> Requests]
             /\ queue \in [Majors -> Seq(Slots)]

CallTypeOK == /\ op \in [Procs -> AllOps \cup {"none"}]
              /\ args \in [Procs -> Seq(Blocks)]
              /\ bh \in [Procs -> Buffers \cup {NoBuffer}]
              /\ first \in [Procs -> Buffers \cup {NoBuffer}]
              /\ rw \in [Procs -> {"none", READ, WRITE, READA}]
              /\ rbh \in [Procs -> Buffers \cup {NoBuffer}]
              /\ scan \in [Procs -> Scans]

RunTypeOK == /\ pc \in [Procs -> Labels]
             /\ chan \in [Procs -> Channels]
             /\ current \in Procs \cup {Nobody}

UseTypeOK == /\ held \in [Procs -> [Buffers -> Blocks \cup {NoBlock}]]
             /\ budget \in 0 .. MaxOps

DataTypeOK == b_cur \in [Buffers -> BOOLEAN] /\ disk_cur \in [Blocks -> BOOLEAN]

(* The types of the cache, the request table and the processes. *)
TypeOK == BufTypeOK /\ ReqTypeOK /\ CallTypeOK /\ RunTypeOK /\ UseTypeOK /\ DataTypeOK

(* getblk never gives one block two buffers, however its callers sleep     *)
(* between the search and the claim ("the only one of it's kind").         *)
UniqueBuffer ==
  \A b, c \in Buffers : b # c /\ b_blk[b] = b_blk[c] => b_blk[b] = NoBlock

Holders(b) == {p \in Procs : held[p][b] # NoBlock}

(* b_count is the number of processes with a reference to the buffer, and  *)
(* a buffer in use keeps its block until the last of them lets go.         *)
References ==
  \A b \in Buffers :
    /\ b_count[b] = Cardinality(Holders(b))
    /\ \A p \in Holders(b) : held[p][b] = b_blk[b]

(* p is in make_request between lock_buffer and add_request. *)
Making(p) == pc[p] \in {"find_req", "req_sleep"}

InFlight(s) == ~IsFree(request[s])

(* A locked buffer has exactly one owner, a request in the table or a      *)
(* process that is making one: no lock is leaked, and no buffer is queued  *)
(* twice.  The owner's transfer is for the block the buffer still has.     *)
LockOwned ==
  /\ \A b \in Buffers :
       b_lock[b] <=> \/ \E s \in Slots : InFlight(s) /\ request[s].bh = b
                     \/ \E p \in Procs : Making(p) /\ rbh[p] = b
  /\ \A s, t \in Slots :
       InFlight(s) /\ InFlight(t) /\ request[s].bh = request[t].bh => s = t
  /\ \A p, q \in Procs : Making(p) /\ Making(q) /\ rbh[p] = rbh[q] => p = q
  /\ \A p \in Procs, s \in Slots : Making(p) /\ InFlight(s) => rbh[p] # request[s].bh
  /\ \A s \in Slots : InFlight(s) => request[s].blk = b_blk[request[s].bh]

(* Fixed media keep every change: the latest contents of a block are on    *)
(* the disk, or in its buffer and still to be written.                     *)
NoLostWrite ==
  \A blk \in {x \in Blocks : x[1] \notin Removable} :
    \/ disk_cur[blk]
    \/ \E b \in Cached(blk) :
         /\ b_cur[b]
         /\ \/ b_dirt[b]
            \/ \E s \in Slots : /\ request[s].cmd = WRITE /\ request[s].bh = b
                                /\ ~request[s].moved

(* bread() "returns the buffer that contains" the block: a caller never    *)
(* looks at stale data in a buffer it holds.                               *)
HeldIsLatest ==
  \A p \in Procs, b \in Buffers :
    pc[p] = "user" /\ held[p][b] # NoBlock /\ held[p][b][1] \notin Removable
      => b_cur[b]

(* None of the panics of this code: new_block finds itself the only user,  *)
(* brelse frees a used buffer, the driver finds its buffer locked.         *)
NoPanic ==
  /\ \A p \in Procs :
       /\ pc[p] = "got" /\ op[p] = "new_block" => b_count[bh[p]] = 1
       /\ pc[p] \in {"brelse", "drop", "page_wait"} => b_count[bh[p]] > 0
  /\ \A m \in Majors : queue[m] # << >> =>
       /\ InFlight(Head(queue[m]))
       /\ b_lock[request[Head(queue[m])].bh]
       /\ MAJOR(request[Head(queue[m])].blk[1]) = m

(* A buffer changes hands only when it is unused, unlocked and clean, as   *)
(* the comment before the claim in getblk says.                            *)
ClaimClean ==
  [][\A b \in Buffers : b_blk'[b] # b_blk[b] =>
       /\ b_count[b] = 0 /\ ~b_lock[b] /\ ~b_dirt[b]
       /\ \A s \in Slots : InFlight(s) => request[s].bh # b]_vars

Idle(p) == pc[p] = "user" /\ Holds(p) = {}

(* Every operation ends: no process sleeps for ever in the kernel, for a   *)
(* buffer, a lock or a request slot, while interrupts race with its checks *)
(* ("Race-conditions have been avoided": "some cli-sti sequences are needed *)
(* to check for sleep-on-calls").                                          *)
EverythingReturns == \A p \in Procs : []<>Idle(p)

(* A process waits for a free slot while there is no request left that     *)
(* could wake it when it ends: in make_request interrupts are on between   *)
(* the search and sleep_on.                                                *)
SleepsForNothing ==
  (\E p \in Procs : chan[p] = wait_for_request) /\ \A m \in Majors : queue[m] = << >>

(* Every buffer is held by a process that waits for one more. *)
HoldAndWait ==
  \A b \in Buffers : \E p \in Procs : held[p][b] # NoBlock /\ chan[p] = buffer_wait

(* These are the only two ways for an operation not to end: every wait for *)
(* a lock is over some time, one for a buffer as long as some holder is    *)
(* not itself waiting for one (brelse wakes buffer_wait), and one for a    *)
(* slot as long as a request is still to end (end_request).                *)
ReturnsUnlessStuck == <>[]SleepsForNothing \/ <>[]HoldAndWait \/ EverythingReturns
=============================================================================
