------------------------------- MODULE Inode --------------------------------
(***************************************************************************)
(* The inode table of linux-0.11 (fs/inode.c): iget, iput, get_empty_inode,*)
(* read_inode, write_inode, sync_inodes and invalidate_inodes, used        *)
(* concurrently by several processes.                                      *)
(*                                                                         *)
(* The kernel is not preemptive: `current` runs until it sleeps, on a      *)
(* locked inode or in a bread.  The queue of sleepers is the one sleep_on  *)
(* builds: i_wait names the last one, whose stack frame (tmp) names the    *)
(* one before it, and each wakes the next only when it runs itself.        *)
(* bread is external: it gives up the processor and always has the block   *)
(* in the end.                                                             *)
(***************************************************************************)
EXTENDS Integers, FiniteSets

CONSTANTS
  Procs,
  Nobody,         \* not a process: the processor is idle or in user mode
  NR_INODE,
  Keys,           \* the inodes on the disks, pairs <<device, number>>
  Removable,      \* the devices whose medium can be changed
  MaxOps          \* bound: calls made in all

Entries == 1 .. NR_INODE
NoEntry == 0
NoKey   == <<0, 0>>

ASSUME ProcsAssumption   == IsFiniteSet(Procs) /\ Nobody \notin Procs
ASSUME TableAssumption   == NR_INODE \in Nat \ {0}
ASSUME KeysAssumption    == Keys \subseteq (Nat \ {0}) \X (Nat \ {0})
ASSUME DevicesAssumption == Removable \subseteq {k[1] : k \in Keys}
ASSUME BoundsAssumption  == MaxOps \in Nat

VARIABLES
  i_key,          \* <<i_dev, i_num>> of each entry
  i_count, i_lock, i_dirt, i_nlinks,
  i_wait,         \* per entry: the head of its wait queue
  state, tmp,     \* per process: running or asleep; sleep_on's local variable
  current, pc,
  op,             \* per process: the call it is in
  key,            \* per process: the inode asked for, then held
  inode, empty,   \* per process: the entry worked on; iget's spare entry
  i_cur,          \* data: the entry has the latest size, zones and links
  disk_cur,       \* data: the disk (or its buffer) has them
  d_nlinks,       \* data: the link count on the disk
  i_mtime,        \* data: the entry has the latest modification time
  d_time,         \* data: the disk (or its buffer) has it
  unmarked,       \* the inodes whose i_mtime was set with i_dirt clear,
                  \* and neither saved nor marked dirty since
  linked,         \* the inodes that a directory entry names
  stopped,        \* why the system has come to a halt, or "none"
  budget          \* calls still allowed

tabVars  == <<i_key, i_count, i_dirt, i_nlinks>>
lockVars == <<i_lock, i_wait>>
cpuVars  == <<state, tmp, current>>
callVars == <<op, key, inode, empty>>
dataVars == <<i_cur, disk_cur, d_nlinks, linked, i_mtime, d_time, unmarked>>
vars == <<tabVars, lockVars, cpuVars, callVars, dataVars, pc, stopped, budget>>

TASK_RUNNING         == 0
TASK_UNINTERRUPTIBLE == 2

Goto(p, l) == pc' = [pc EXCEPT ![p] = l]

Runs(p, l) == stopped = "none" /\ current = p /\ pc[p] = l

-----------------------------------------------------------------------------
(* Sleeping.                                                               *)

sleep_on(p, e) ==
  /\ tmp' = [tmp EXCEPT ![p] = i_wait[e]]
  /\ i_wait' = [i_wait EXCEPT ![e] = p]
  /\ state' = [state EXCEPT ![p] = TASK_UNINTERRUPTIBLE]
  /\ current' = Nobody

(* wake_up(&inode->i_wait), with what it makes of state. *)
wake_up(e) ==
  /\ state' = IF i_wait[e] = Nobody THEN state ELSE [state EXCEPT ![i_wait[e]] = TASK_RUNNING]
  /\ i_wait' = [i_wait EXCEPT ![e] = Nobody]

WakeNobody(p) == state  \* mutant: sleep_on forgets the next sleeper

(* The end of sleep_on: the sleeper before this one is woken. *)
WakeNext(p) == IF tmp[p] = Nobody THEN state ELSE [state EXCEPT ![tmp[p]] = TASK_RUNNING]

(* A runnable process in the kernel gets the processor again. *)
Resume(p) ==
  /\ stopped = "none" /\ current = Nobody /\ pc[p] # "user" /\ state[p] = TASK_RUNNING
  /\ current' = p
  /\ state' = WakeNext(p)
  /\ tmp' = [tmp EXCEPT ![p] = Nobody]
  /\ UNCHANGED <<tabVars, lockVars, callVars, dataVars, pc, stopped, budget>>

(* wait_on_inode: the labels at which a process sleeps as long as its      *)
(* entry is locked.                                                        *)
Waiting == {"found_wait", "put_wait", "put_again", "sync", "invalidate"}

wait_on_inode(p) ==
  /\ stopped = "none" /\ current = p /\ pc[p] \in Waiting /\ i_lock[inode[p]]
  /\ sleep_on(p, inode[p])
  /\ UNCHANGED <<tabVars, i_lock, callVars, dataVars, pc, stopped, budget>>

Unlocked(p, l) == Runs(p, l) /\ ~i_lock[inode[p]]

(* The call is over. *)
Return(p) == current' = Nobody /\ Goto(p, "user")

-----------------------------------------------------------------------------
(* get_empty_inode.                                                        *)

Unused == {e \in Entries : i_count[e] = 0}
Clean  == {e \in Unused : ~i_dirt[e] /\ ~i_lock[e]}

(* memset, which also clears the wait queue. *)
Clear(e, count) ==
  /\ i_key' = [i_key EXCEPT ![e] = NoKey]
  /\ i_count' = [i_count EXCEPT ![e] = count]
  /\ i_dirt' = [i_dirt EXCEPT ![e] = FALSE]
  /\ i_nlinks' = [i_nlinks EXCEPT ![e] = 0]
  /\ i_lock' = [i_lock EXCEPT ![e] = FALSE]
  /\ i_wait' = [i_wait EXCEPT ![e] = Nobody]
  /\ i_cur' = [i_cur EXCEPT ![e] = FALSE]
  /\ i_mtime' = [i_mtime EXCEPT ![e] = FALSE]

(* A clean unused entry.  The search starts where the last one ended, so   *)
(* that any of them may come first; the code has no reason to sleep then.  *)
EmptyFound(p) ==
  /\ Runs(p, "empty")
  /\ \E e \in Clean : Clear(e, 1) /\ empty' = [empty EXCEPT ![p] = e]
  /\ Goto(p, "scan")
  /\ UNCHANGED <<cpuVars, op, key, inode, disk_cur, d_nlinks, linked, d_time, unmarked, stopped, budget>>

(* Otherwise an unused one is written out first.  As UnusedIsClean says,   *)
(* it can only be an inode changed after its medium was removed: then      *)
(* write_inode does nothing and the loop on i_dirt does not end.           *)
EmptyLoops(p) ==
  /\ Runs(p, "empty") /\ Clean = {} /\ Unused # {}
  /\ stopped' = "get_empty_inode loops"
  /\ UNCHANGED <<tabVars, lockVars, cpuVars, callVars, dataVars, pc, budget>>

-----------------------------------------------------------------------------
(* iget                                                                    *)

(* The processes that have an inode or are about to. *)
Users == {p \in Procs : op[p] \in {"iget", "iput"}}

(* A path lookup has found the number in a directory.  Bound: the callers  *)
(* leave room in the table (NR_INODE is 32), or get_empty_inode panics.    *)
Iget(p) ==
  /\ stopped = "none" /\ current = Nobody /\ pc[p] = "user" /\ inode[p] = NoEntry /\ budget > 0
  /\ Cardinality(Users) < NR_INODE
  /\ \E k \in linked : key' = [key EXCEPT ![p] = k]
  /\ op' = [op EXCEPT ![p] = "iget"]
  /\ budget' = budget - 1
  /\ current' = p
  /\ Goto(p, "empty")
  /\ UNCHANGED <<tabVars, lockVars, state, tmp, inode, empty, dataVars, stopped>>

UnlockedEntry(k) ==  \* mutant: locked entries are passed over
  {e \in Entries : i_key[e] = k /\ ~i_lock[e]}

Entry(k) == {e \in Entries : i_key[e] = k}

ScanFound(p) ==
  /\ Runs(p, "scan")
  /\ \E e \in Entry(key[p]) : /\ \A f \in Entry(key[p]) : e <= f
                              /\ inode' = [inode EXCEPT ![p] = e]
  /\ Goto(p, "found_wait")
  /\ UNCHANGED <<tabVars, lockVars, cpuVars, op, key, empty, dataVars, stopped, budget>>

StillThere(p) == TRUE  \* mutant: i_dev and i_num are not compared again

Same(p) == i_key[inode[p]] = key[p]

FoundChanged(p) ==
  /\ Unlocked(p, "found_wait") /\ ~Same(p)
  /\ Goto(p, "scan")
  /\ UNCHANGED <<tabVars, lockVars, cpuVars, callVars, dataVars, stopped, budget>>

(* One more user; iput gives the spare entry back. *)
OneMoreUser(p) ==
  LET more == [i_count EXCEPT ![inode[p]] = @ + 1]
  IN  [more EXCEPT ![empty[p]] = @ - 1]

Found(p) ==
  /\ Unlocked(p, "found_wait") /\ Same(p)
  /\ i_count' = OneMoreUser(p)
  /\ empty' = [empty EXCEPT ![p] = NoEntry]
  /\ Return(p)
  /\ UNCHANGED <<i_key, i_dirt, i_nlinks, lockVars, state, tmp, op, key, inode, dataVars, stopped, budget>>

(* The spare entry becomes the inode's, and read_inode locks it. *)
ScanMissed(p) ==
  /\ Runs(p, "scan") /\ Entry(key[p]) = {}
  /\ i_key' = [i_key EXCEPT ![empty[p]] = key[p]]
  /\ i_lock' = [i_lock EXCEPT ![empty[p]] = TRUE]
  /\ inode' = [inode EXCEPT ![p] = empty[p]]
  /\ empty' = [empty EXCEPT ![p] = NoEntry]
  /\ current' = Nobody
  /\ Goto(p, "read_bread")
  /\ UNCHANGED <<i_count, i_dirt, i_nlinks, i_wait, state, tmp, op, key, dataVars, stopped, budget>>

UnlockSilently(p) ==  \* mutant: unlock_inode wakes nobody
  i_lock' = [i_lock EXCEPT ![inode[p]] = FALSE] /\ UNCHANGED <<state, i_wait>>

Unlock(p) == /\ i_lock' = [i_lock EXCEPT ![inode[p]] = FALSE]
             /\ wake_up(inode[p])

read_inode(p) ==
  /\ Runs(p, "read_bread")
  /\ i_nlinks' = [i_nlinks EXCEPT ![inode[p]] = d_nlinks[key[p]]]
  /\ i_cur' = [i_cur EXCEPT ![inode[p]] = disk_cur[key[p]]]
  /\ i_mtime' = [i_mtime EXCEPT ![inode[p]] = d_time[key[p]]]
  /\ Unlock(p)
  /\ Return(p)
  /\ UNCHANGED <<i_key, i_count, i_dirt, tmp, callVars, disk_cur, d_nlinks, linked, d_time, unmarked, stopped, budget>>

-----------------------------------------------------------------------------
(* write_inode, called by iput and sync_inodes right after wait_on_inode,  *)
(* for a dirty inode: its lock_inode does not sleep.                       *)

Caller(p) == IF op[p] = "iput" THEN "put_again" ELSE "sync_next"

WriteLock(p) ==
  /\ i_lock' = [i_lock EXCEPT ![inode[p]] = TRUE]
  /\ current' = Nobody
  /\ Goto(p, "write_bread")
  /\ UNCHANGED <<tabVars, i_wait, state, tmp, callVars, dataVars, stopped, budget>>

WriteNothing(e) == UNCHANGED <<disk_cur, d_nlinks, d_time, unmarked>>  \* mutant: the copy is left out

Copy(e) == /\ disk_cur' = [disk_cur EXCEPT ![i_key[e]] = i_cur[e]]
           /\ d_nlinks' = [d_nlinks EXCEPT ![i_key[e]] = i_nlinks[e]]
           /\ d_time' = [d_time EXCEPT ![i_key[e]] = i_mtime[e]]
           /\ unmarked' = IF i_mtime[e] THEN unmarked \ {i_key[e]} ELSE unmarked

write_inode(p) ==
  /\ Runs(p, "write_bread")
  /\ Copy(inode[p])
  /\ i_dirt' = [i_dirt EXCEPT ![inode[p]] = FALSE]
  /\ Unlock(p)
  /\ Goto(p, Caller(p))
  /\ UNCHANGED <<i_key, i_count, i_nlinks, tmp, current, callVars, i_cur, linked, i_mtime, stopped, budget>>

-----------------------------------------------------------------------------
(* iput, for an inode that is no pipe and no block device.                 *)

Iput(p) ==
  /\ stopped = "none" /\ current = Nobody /\ pc[p] = "user" /\ inode[p] # NoEntry
  /\ op' = [op EXCEPT ![p] = "iput"]
  /\ current' = p
  /\ Goto(p, "put_wait")
  /\ UNCHANGED <<tabVars, lockVars, state, tmp, key, inode, empty, dataVars, stopped, budget>>

Given(p) == /\ i_count' = [i_count EXCEPT ![inode[p]] = @ - 1]
            /\ inode' = [inode EXCEPT ![p] = NoEntry]
            /\ key' = [key EXCEPT ![p] = NoKey]
            /\ op' = [op EXCEPT ![p] = "none"]
            /\ Return(p)
            /\ UNCHANGED <<i_key, i_dirt, i_nlinks, lockVars, state, tmp, empty, dataVars, stopped, budget>>

(* The medium is gone: i_dev is 0. *)
PutRemoved(p) ==
  /\ Unlocked(p, "put_wait") /\ i_count[inode[p]] > 0 /\ i_key[inode[p]] = NoKey
  /\ Given(p)

(* The label repeat, at first and after write_inode has slept. *)
Repeat(p) == \/ Unlocked(p, "put_wait") /\ i_count[inode[p]] > 0 /\ i_key[inode[p]] # NoKey
             \/ Unlocked(p, "put_again")

PutShared(p) == Repeat(p) /\ i_count[inode[p]] > 1 /\ Given(p)

PutAnyway(p) ==  \* mutant: a dirty inode is not written
  Repeat(p) /\ i_count[inode[p]] <= 1 /\ i_nlinks[inode[p]] > 0 /\ Given(p)

PutClean(p) ==
  /\ Repeat(p) /\ i_count[inode[p]] <= 1 /\ i_nlinks[inode[p]] > 0 /\ ~i_dirt[inode[p]]
  /\ Given(p)

PutDirty(p) ==
  /\ Repeat(p) /\ i_count[inode[p]] <= 1 /\ i_nlinks[inode[p]] > 0 /\ i_dirt[inode[p]]
  /\ WriteLock(p)

(* The last user of a file without links: truncate reads blocks ... *)
PutUnlinked(p) ==
  /\ Repeat(p) /\ i_count[inode[p]] <= 1 /\ i_nlinks[inode[p]] = 0
  /\ current' = Nobody
  /\ Goto(p, "truncate")
  /\ UNCHANGED <<tabVars, lockVars, state, tmp, callVars, dataVars, stopped, budget>>

(* ... and free_inode forgets the inode. *)
FreeInode(p) ==
  /\ Runs(p, "truncate") /\ ~i_lock[inode[p]] /\ i_count[inode[p]] <= 1
  /\ Clear(inode[p], 0)
  /\ disk_cur' = [k \in Keys |-> disk_cur[k] \/ k = i_key[inode[p]]]
  /\ d_time' = [k \in Keys |-> d_time[k] \/ k = i_key[inode[p]]]
  /\ unmarked' = unmarked \ {i_key[inode[p]]}
  /\ inode' = [inode EXCEPT ![p] = NoEntry]
  /\ key' = [key EXCEPT ![p] = NoKey]
  /\ op' = [op EXCEPT ![p] = "none"]
  /\ Return(p)
  /\ UNCHANGED <<state, tmp, empty, d_nlinks, linked, stopped, budget>>

(* But the inode may have got another user meanwhile, which is a panic or, *)
(* if the medium is gone too, clears an entry in use.  Or a sync may have  *)
(* locked it, at which free_inode does not look: write_inode goes on with  *)
(* a cleared entry and writes outside the block.  Then all bets are off.   *)
FreeInUse(p) ==
  /\ Runs(p, "truncate") /\ (i_lock[inode[p]] \/ i_count[inode[p]] > 1)
  /\ stopped' = IF i_key[inode[p]] # NoKey /\ i_count[inode[p]] > 1
                THEN "free_inode" ELSE "freed in use"
  /\ UNCHANGED <<tabVars, lockVars, cpuVars, callVars, dataVars, pc, budget>>

-----------------------------------------------------------------------------
(* sync_inodes and invalidate_inodes walk over the table.                  *)

Walks(p) == pc[p] = "user" /\ inode[p] = NoEntry /\ budget > 0

StartWalk(p, o, l) ==
  /\ stopped = "none" /\ current = Nobody /\ Walks(p)
  /\ op' = [op EXCEPT ![p] = o]
  /\ inode' = [inode EXCEPT ![p] = 1]
  /\ budget' = budget - 1
  /\ current' = p
  /\ Goto(p, l)
  /\ UNCHANGED <<tabVars, lockVars, state, tmp, empty, dataVars, stopped>>

Sync(p) == StartWalk(p, "sync", "sync") /\ UNCHANGED key

(* check_disk_change: the floppy of device d is another one. *)
Invalidate(p) ==
  /\ \E d \in Removable : key' = [key EXCEPT ![p] = <<d, 0>>]
  /\ StartWalk(p, "invalidate", "invalidate")

OneTooMany(p) == inode[p] <= NR_INODE  \* mutant: off by one

MoreEntries(p) == inode[p] < NR_INODE

(* On to the next entry, at label l, or back to the caller. *)
Step(p, l) ==
  IF MoreEntries(p)
  THEN /\ inode' = [inode EXCEPT ![p] = @ + 1]
       /\ Goto(p, l)
       /\ UNCHANGED <<current, key, op>>
  ELSE /\ inode' = [inode EXCEPT ![p] = NoEntry]
       /\ key' = [key EXCEPT ![p] = NoKey]
       /\ op' = [op EXCEPT ![p] = "none"]
       /\ Return(p)

SyncDirty(p) ==
  /\ Unlocked(p, "sync") /\ i_dirt[inode[p]] /\ i_key[inode[p]] # NoKey
  /\ WriteLock(p)

SyncNext(p) ==
  /\ \/ Unlocked(p, "sync") /\ (~i_dirt[inode[p]] \/ i_key[inode[p]] = NoKey)
     \/ Runs(p, "sync_next")
  /\ Step(p, "sync")
  /\ UNCHANGED <<tabVars, lockVars, state, tmp, empty, dataVars, stopped, budget>>

InvalidateNext(p) ==
  /\ Unlocked(p, "invalidate")
  /\ LET e == inode[p]
         gone == i_key[e][1] = key[p][1]
     IN /\ i_key' = IF gone THEN [i_key EXCEPT ![e] = NoKey] ELSE i_key
        /\ i_dirt' = IF gone THEN [i_dirt EXCEPT ![e] = FALSE] ELSE i_dirt
        /\ disk_cur' = [k \in Keys |-> disk_cur[k] \/ (gone /\ k = i_key[e])]
        /\ d_time' = [k \in Keys |-> d_time[k] \/ (gone /\ k = i_key[e])]
        /\ unmarked' = IF gone THEN unmarked \ {i_key[e]} ELSE unmarked
  /\ Step(p, "invalidate")
  /\ UNCHANGED <<i_count, i_nlinks, lockVars, state, tmp, empty, i_cur, d_nlinks, linked, i_mtime, stopped, budget>>

-----------------------------------------------------------------------------
(* What the holder of an inode does with it, without locking it.           *)

Holds(p) == pc[p] = "user" /\ inode[p] # NoEntry

(* A change of size, zones or links, which is marked dirty: only this      *)
(* entry has the contents.  What began before the medium was removed may   *)
(* still set i_dirt then.  The time of an earlier write is saved with it.  *)
Latest(e) ==
  /\ i_cur' = [f \in Entries |-> IF f = e THEN TRUE ELSE i_cur[f] /\ i_key[f] # i_key[e]]
  /\ disk_cur' = [k \in Keys |-> disk_cur[k] /\ k # i_key[e]]
  /\ i_dirt' = [i_dirt EXCEPT ![e] = TRUE]
  /\ unmarked' = IF i_mtime[e] THEN unmarked \ {i_key[e]} ELSE unmarked
  /\ UNCHANGED <<i_mtime, d_time>>

(* file_write makes the file longer. *)
Change(p) ==
  /\ stopped = "none" /\ current = Nobody /\ Holds(p)
  /\ Latest(inode[p])
  /\ UNCHANGED <<i_key, i_count, i_nlinks, lockVars, cpuVars, callVars, d_nlinks, linked, pc, stopped, budget>>

(* The end of every file_write, longer file or not: i_mtime is set, and    *)
(* i_dirt is not.  It may have been set by Change and cleared again by a   *)
(* sync while the data was copied.  (i_ctime and i_atime are never on the  *)
(* disk.)                                                                  *)
Stamp(p) ==
  /\ stopped = "none" /\ current = Nobody /\ Holds(p) /\ budget > 0
  /\ LET e == inode[p] IN
       /\ i_mtime' = [f \in Entries |-> IF f = e THEN TRUE ELSE i_mtime[f] /\ i_key[f] # i_key[e]]
       /\ d_time' = [k \in Keys |-> d_time[k] /\ k # i_key[e]]
       /\ unmarked' = IF i_dirt[e] THEN unmarked \ {i_key[e]}
                      ELSE unmarked \cup ({i_key[e]} \cap Keys)
  /\ budget' = budget - 1
  /\ UNCHANGED <<tabVars, lockVars, cpuVars, callVars, i_cur, disk_cur, d_nlinks, linked, pc, stopped>>

(* sys_unlink: the directory entry goes and with it the last link. *)
Unlink(p) ==
  /\ stopped = "none" /\ current = Nobody /\ Holds(p) /\ i_key[inode[p]] \in linked
  /\ Latest(inode[p])
  /\ i_nlinks' = [i_nlinks EXCEPT ![inode[p]] = 0]
  /\ linked' = linked \ {i_key[inode[p]]}
  /\ UNCHANGED <<i_key, i_count, lockVars, cpuVars, callVars, d_nlinks, pc, stopped, budget>>

-----------------------------------------------------------------------------
Init ==
  /\ i_key = [e \in Entries |-> NoKey]
  /\ i_count = [e \in Entries |-> 0]
  /\ i_lock = [e \in Entries |-> FALSE] /\ i_dirt = [e \in Entries |-> FALSE]
  /\ i_nlinks = [e \in Entries |-> 0]
  /\ i_wait = [e \in Entries |-> Nobody]
  /\ state = [p \in Procs |-> TASK_RUNNING] /\ tmp = [p \in Procs |-> Nobody]
  /\ current = Nobody
  /\ pc = [p \in Procs |-> "user"] /\ op = [p \in Procs |-> "none"]
  /\ key = [p \in Procs |-> NoKey]
  /\ inode = [p \in Procs |-> NoEntry] /\ empty = [p \in Procs |-> NoEntry]
  /\ i_cur = [e \in Entries |-> FALSE]
  /\ disk_cur = [k \in Keys |-> TRUE] /\ d_nlinks = [k \in Keys |-> 1]
  /\ linked = Keys
  /\ i_mtime = [e \in Entries |-> FALSE] /\ d_time = [k \in Keys |-> TRUE]
  /\ unmarked = {}
  /\ stopped = "none"
  /\ budget = MaxOps

get_empty_inode(p) == EmptyFound(p) \/ EmptyLoops(p)
iget(p)  == ScanFound(p) \/ FoundChanged(p) \/ Found(p) \/ ScanMissed(p) \/ read_inode(p)
iput(p)  == PutRemoved(p) \/ PutShared(p) \/ PutClean(p) \/ PutDirty(p)
            \/ PutUnlinked(p) \/ FreeInode(p) \/ FreeInUse(p)
sync_inodes(p) == SyncDirty(p) \/ SyncNext(p) \/ write_inode(p)

Kernel(p) == \/ wait_on_inode(p) \/ get_empty_inode(p) \/ iget(p) \/ iput(p)
             \/ sync_inodes(p) \/ InvalidateNext(p)

Call(p) == Iget(p) \/ Iput(p) \/ Sync(p) \/ Invalidate(p) \/ Change(p) \/ Stamp(p) \/ Unlink(p)

Next == \E p \in Procs : Call(p) \/ Kernel(p) \/ Resume(p)

Spec == Init /\ [][Next]_vars

(* The process that has the processor goes on, bread ends, and the         *)
(* scheduler leaves no runnable process out for ever.                      *)
FairSpec == Spec /\ \A p \in Procs : WF_vars(Kernel(p)) /\ SF_vars(Resume(p))
-----------------------------------------------------------------------------
(* Properties                                                              *)

Labels == Waiting \cup {"user", "empty", "scan", "read_bread", "write_bread", "truncate", "sync_next"}

(* The types of the table and of the calls. *)
TypeOK ==
  /\ i_key \in [Entries -> Keys \cup {NoKey}]
  /\ i_count \in [Entries -> Nat] /\ i_nlinks \in [Entries -> {0, 1}]
  /\ i_lock \in [Entries -> BOOLEAN] /\ i_dirt \in [Entries -> BOOLEAN]
  /\ i_wait \in [Entries -> Procs \cup {Nobody}]
  /\ state \in [Procs -> {TASK_RUNNING, TASK_UNINTERRUPTIBLE}]
  /\ tmp \in [Procs -> Procs \cup {Nobody}] /\ current \in Procs \cup {Nobody}
  /\ pc \in [Procs -> Labels]
  /\ op \in [Procs -> {"none", "iget", "iput", "sync", "invalidate"}]
  /\ key \in [Procs -> Keys \cup {NoKey} \cup (Removable \X {0})]
  /\ inode \in [Procs -> Entries \cup {NoEntry}] /\ empty \in [Procs -> Entries \cup {NoEntry}]
  /\ i_cur \in [Entries -> BOOLEAN] /\ disk_cur \in [Keys -> BOOLEAN]
  /\ d_nlinks \in [Keys -> {0, 1}] /\ linked \subseteq Keys
  /\ i_mtime \in [Entries -> BOOLEAN] /\ d_time \in [Keys -> BOOLEAN] /\ unmarked \subseteq Keys
  /\ stopped \in {"none", "free_inode", "freed in use", "get_empty_inode loops"}
  /\ budget \in 0 .. MaxOps

(* No inode of a disk is in two entries of the table, although iget may    *)
(* sleep in wait_on_inode on an entry that is then used for another inode. *)
UniqueInode == \A e, f \in Entries : i_key[e] = i_key[f] /\ i_key[e] # NoKey => e = f

(* The references a process has: the inode it holds or is about to give    *)
(* back or to get, and the spare entry of iget.                            *)
Refers(p, e) ==
  \/ empty[p] = e
  \/ /\ inode[p] = e
     /\ \/ pc[p] \in {"user", "read_bread", "put_wait", "put_again", "truncate"}
        \/ op[p] = "iput" /\ pc[p] = "write_bread"

(* i_count counts the references and an entry in use stays with its inode, *)
(* unless the medium has been removed: get_empty_inode never takes an      *)
(* entry from its users.                                                   *)
Counted ==
  /\ \A e \in Entries : i_count[e] = Cardinality({p \in Procs : Refers(p, e)})
  /\ \A p \in Procs : \A e \in Entries :
       inode[p] = e /\ Refers(p, e) => i_key[e] \in {key[p], NoKey}

(* The latest size, zones and links of an inode with links are on the disk *)
(* or in a dirty entry, and a process that has got an inode sees them (the *)
(* order of copy and i_dirt = 0 in write_inode).  So is the time of the    *)
(* last write, unless the write found i_dirt clear: the code does lose the *)
(* time of an overwrite that is followed by the last iput.                 *)
NoLostUpdate ==
  /\ \A k \in linked : disk_cur[k] \/ \E e \in Entries : i_key[e] = k /\ i_dirt[e] /\ i_cur[e]
  /\ \A k \in linked \ unmarked :
       d_time[k] \/ \E e \in Entries : i_key[e] = k /\ i_dirt[e] /\ i_mtime[e]
  /\ \A p \in Procs : Holds(p) /\ i_key[inode[p]] # NoKey =>
       /\ i_cur[inode[p]]
       /\ i_key[inode[p]] \notin unmarked => i_mtime[inode[p]]

(* An entry nobody uses is not locked, and dirty only if its medium is     *)
(* gone: get_empty_inode neither sleeps nor writes, so that iget's look at *)
(* the table and its entry in it are one step (iput writes before it gives *)
(* up the last reference).                                                 *)
UnusedIsClean == \A e \in Unused : ~i_lock[e] /\ (i_dirt[e] => i_key[e] = NoKey)

(* Every sleeper is the head of a queue or the next one of a process that  *)
(* is still in sleep_on, and an entry that is not locked has no queue: the *)
(* memset of get_empty_inode forgets nobody.                               *)
QueuesKept ==
  /\ \A p \in Procs : state[p] = TASK_UNINTERRUPTIBLE =>
       (\E e \in Entries : i_wait[e] = p) \/ (\E q \in Procs \ {p} : tmp[q] = p)
  /\ \A e \in Entries : ~i_lock[e] => i_wait[e] = Nobody

(* Every call returns: once no more calls are made, all processes are back *)
(* in user mode, or the system has stopped (unlock_inode and the wake-ups  *)
(* that sleep_on hands on).                                                *)
CallsReturn == <>[](stopped # "none" \/ \A p \in Procs : pc[p] = "user")
=============================================================================
