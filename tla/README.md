# Verification of the linux-0.11 kernel in cirline/ct

The repository is a collection of programs. Its largest body of own logic, and
the one with real concurrency, is the kernel under `src/linux-0.11`; around it
are driver exercises (`src/ldd`), a USB download driver (`src/dnw4linux`), a
client/daemon pair over shared memory (`src/deamon-thread`), a GTK program
(`src/app/geye`), small stock tools (`src/lab`) and many one-file language
exercises. SQLite, OpenSSL and `code_trash` are third-party or dead code. This
project models the kernel: the buffer cache with the block request layer, the
hard disk driver, the inode table, pipes, the memory manager, and processes with
their signals; and from the driver exercises the one with real concurrency, the
ring buffer.

## Inventory

| component | state | operations | what is hard | what makes it correct |
|---|---|---|---|---|
| buffer cache (`fs/buffer.c`) | buffer heads: block, count, dirty, valid, lock; hash chains; free ring; `buffer_wait` | getblk, brelse, bread, breada, bread_page, sync_dev, sys_sync, invalidate_buffers | every wait can sleep, and what was checked before may be false after | one buffer per block; a reference pins the block; nothing dirty is thrown away; readers see the latest contents |
| block requests (`ll_rw_blk.c`, `blk.h`) | request table, one list per device, `wait_for_request` | make_request, add_request (elevator), end_request | bounded table, interrupts between check and sleep | a lock has one owner; every request ends; none is lost |
| drivers (`hd.c`, `floppy.c`, `ramdisk.c`) | command state, timers | request functions and interrupt handlers | timeouts, resets, retries | the current request is ended once |
| scheduler (`sched.c`) | task states, counters, timers | schedule, sleep_on, wake_up, do_timer, add_timer | wait queues live in the stacks of the sleepers | no sleeper is lost; timers fire in order |
| memory (`mm/memory.c`) | `mem_map` reference counts, page tables | get_free_page, copy_page_tables, un_wp_page, share_page | copy on write, sharing of clean pages | counts equal mappings; a shared page is read-only |
| inodes, super blocks (`inode.c`, `super.c`) | inode table, counts, locks | iget, iput, sync_inodes, mount, umount | sleeps between look-up and use; locks held over I/O | one in-core inode per (dev, nr); no self-deadlock |
| pipes (`pipe.c`) | a page as ring, head, tail, users | read_pipe, write_pipe | sleep and wake of readers and writers | FIFO; a reader of a closed pipe ends |
| processes (`fork.c`, `exit.c`, `signal.c`) | task table, states, signals | fork, exit, waitpid, kill | orphans, zombies, signals during sleep | each zombie is reaped once |
| terminals (`chr_drv`) | read, write and secondary queues | interrupt input, canonical read, write | interrupt against process | lines are read in order, queues never overflow |
| allocator (`lib/malloc.c`) | bucket descriptors, free lists | malloc, free_s | sharing of one page among sizes | blocks do not overlap |
| ring buffer driver (`ldd/chrdev/ringbuffer.c`) | read and write positions | rb_read, rb_write | two readers, two writers, signals | FIFO |
| USB driver, shared-memory daemon | open flags, buffers, segment | open, write, disconnect; handshake | unplug during use; polling of shared words | no use after free; each request is answered once |

Processes interact through calls into the cache, through shared buffer heads and
through the channels they sleep on; devices interact through interrupts. The
kernel is not preemptive: a process in kernel mode gives the processor up only
in `schedule`, which the cache reaches through `sleep_on`. Interrupts come at any
point where they are not disabled.

## Modules

- `BlockRequest`: the request record, the elevator order `IN_ORDER`, the
  insertion of `add_request` and the slots `make_request` may use, as pure
  operators.
- `BufferCache`: the cache, the request layer and a device as one state machine,
  over `BlockRequest`.
- `HardDisk`: the driver of the hard disk, over the queue of `BlockRequest`.
- `Inode`: the inode table, with the queues that `sleep_on` builds.
- `Pipe`: a pipe; `RingBuffer`: the ring buffer driver; `ByteFifo`: the bounded
  byte queue that both implement.
- `Memory`: the memory manager with fork, execve and exit as one state machine.
- `Process`: the task table: fork, exit, waitpid, signals, and processes that wait
  for a terminal.
- `MCBufferCache`, `MCHardDisk`, `MCInode`, `MCMemory`, `MCPipe`, `MCRingBuffer`: the
  instances for TLC (`Process` needs none).
- `BufferCacheProofs`, `HardDiskProofs`, `InodeProofs`, `MemoryProofs`, `PipeProofs`,
  `ProcessProofs`, `RingBufferProofs`: the theorems and their proofs;
  `BlockRequestProofs`: the lemmas about the elevator that the proofs of the cache
  and of the hard disk share.

### State of BufferCache and how it corresponds to the code

A block is the pair of its device and its number. The buffer head fields are the
functions `b_blk`, `b_count`, `b_dirt`, `b_uptodate`, `b_lock`; `free_list` is the
ring from its head on. The hash chains are abstracted to what `find_buffer`
returns. `request` is the request table, `queue[m]` the linked list from
`blk_dev[m].current_request`. Each process has a label `pc` (a point where the
code may sleep, or where an interrupt can make a difference), the channel it
sleeps on, and the local variables of the call it is in: the blocks still to get
(`args`), `getblk`'s buffer (`bh`), the first buffer of a multi-block read
(`first`), the arguments of `make_request` (`rw`, `rbh`) and the position of a
walk over all buffers (`scan`). `current` is the process that has the processor
in the kernel: no other process moves until it sleeps or returns.

Contents are abstracted to two bits: `b_cur[b]`, the buffer holds the latest
contents of its block, and `disk_cur[blk]`, the disk does. A modification makes
the first true and the second false; a transfer copies one to the other.

`held[p][b]` is a history variable: the block for which `p` has a reference to
buffer `b`. The code has no such variable; `b_count` is only its count.

Every wait is two steps: the test (with interrupts off in the code) and, when it
fails, the sleep, after which the test is made again. `make_request` is the
exception, as in the code: the scan of the table and `sleep_on` are separate
steps with interrupts on between them (label `req_sleep`).

Callers are the environment: `CallOne`, `CallMany`, `CallSync` and
`CallDiskChange` start an operation, `Modify` is a caller that changes a buffer
`bread` gave it and sets `b_dirt` in the same step (inode, directory and bitmap
code), `CallBrelse` gives a buffer back. A process does not ask for a block it
already holds, and `new_block`'s block, fresh from the bitmap, is not in use by
another process.

### Memory

A page of memory is a number; `mem_map` counts its users and `data` is what it
holds: zeros, arguments, a page of an executable or something written. A task has
a few user addresses: pages of its executable (below `end_data`), pages of bss or
heap in the same 4 MB, and the stack page for the arguments at the top of its 64
MB. `pg_dir` has the page tables of these two regions, `pte`, `rw` and `dirty`
are the entries in them, and `task_page` is the page of the task structure. The
kernel is not preemptive, so a page fault or a fork is one action; a task sleeps,
and others go on, only while a page is read from its file (label `load`), between
the verification of a system call's buffer and the copy (`read`), and in execve
before it changes `executable` (`args`) and while it closes files afterwards
(`execve`). `page[t]` is the page that such a sleeping path has in a local
variable. Every action also has the case that no page is free: `oom` and with it
`do_exit`, a failed fork, a failed execve.

The processor is part of the model: a write in user mode needs a writable entry
and sets the dirty bit; a write in kernel mode does not look at the protection,
which is why the code has `verify_area` at all.

Left out: the low memory that task 0 shares with the kernel, the case of an
executable whose last page is partly data (execve clears the rest of it through
the page tables), faults while execve reads its arguments, and the sleep in
`do_exit` between freeing the memory and clearing `executable`, during which the
task has no page that could be shared.

### HardDisk

A request has the fields of `struct request` that the driver uses and changes:
`sector`, `nr_sectors`, `buffer` (which half comes next) and `errors`. `queue` is the
list from `CURRENT`, built by the `Enqueue` of `BlockRequest`. `reset`, `recalibrate`
and `do_hd` are the driver's variables of these names. `do_hd_request` has one
action per way through it; `goto repeat` is `pc` staying at "request". An interrupt
handler is one action and ends with the call of `do_hd_request`, where the code has
it. The controller is external: it has a command, a position and a number of
sectors left, interrupts once per sector, and may report an error instead. What is
on the disk is known per sector, so that a wrong half, a wrong sector or a wrong
partition is a visible difference; the division by sectors and heads and its
inverse in the controller are modelled as they are.

`bad_rw_intr` looks at `CURRENT->errors` after `end_request` may have moved
`CURRENT` to NULL. `errors` is the third word of the structure, so it then reads the
third entry of the page directory, which lies at address 0; an address, and larger
than any error count: the model has `reset` set in this case.

### Inode

An entry has the fields of `struct m_inode` that control it, with device and number
as the pair `i_key`. `i_wait[e]` is the head of the queue and `tmp[p]` the local
variable of `sleep_on` that is the link to the next sleeper; who is woken when is
exactly what the code does. `bread` is external and gives the processor up.
Contents are abstracted to `i_cur[e]` and `disk_cur[k]`, as in the cache, and to the
number of links, on which `iput` decides. Holders of an inode change it, or unlink
it, without taking its lock, as the callers in the kernel do.

The time of the last write is kept apart, as `file_write` treats it differently:
`Change` is a write that makes the file longer and sets `i_dirt`; `Stamp` is the end of
every `file_write`, longer file or not, which sets `i_mtime` and leaves `i_dirt` as it
is. `i_mtime[e]` and `d_time[k]` say whether an entry and the disk have the time of
the latest write, and `unmarked` is a history variable: the inodes whose time was set
while `i_dirt` was clear and that have neither been marked nor written since. Of the
other times, `i_atime` and `i_ctime`, nothing is said: `struct d_inode` has no room for
them and they are never on the disk.

The system can come to a halt, which the model records in `stopped`:
"free_inode" is the panic of `free_inode` for an inode with users, "freed in use" is
an entry that is cleared under its users, and "get_empty_inode loops" is the loop on
`i_dirt` of an entry whose medium is gone, which `write_inode` never clears. The
properties hold up to there. `get_empty_inode` panics when all entries are in use;
the model has callers that leave room, as 32 entries do in practice.

Left out: mount points in `iget`, the sync of a block device in `iput`, pipes (they
have their own module) and `bmap`.

### Pipe

`page`, `head` and `tail` are those of the inode, `left[p]`, `want[p]` and `got[p]` the
bytes a call still has to store, to take and has taken; `chars` and `pos` are the
local variables of a round. Bytes are moved one per step. `open` has the processes
that hold each end and `i_count` is the count of the code, 2, 1 or 0. The code moves
`PIPE_HEAD` and `PIPE_TAIL` before it copies and may take a page fault on the user's
buffer while it does: then other processes run and see bytes that are not there
yet. `torn` remembers that this has happened and `IsFifo` is stated up to there; a
process outside `Faulting` has its buffers in memory.

The refinement of `ByteFifo` replaces the queue by `Contents`: the bytes between
tail and head, without the ones that a copy in progress has announced and not yet
stored, and with the ones it has claimed and not yet taken.

### Process

A slot of the task table has the state, pid, father and signals of its task. `pc` is
"user", "ret" (`ret_from_sys_call`), the two places of `sys_waitpid` (before the scan
and asleep), the sleep and the loop of a terminal reader, "closing" (`do_exit` closes files, which
sleeps, after it has given its children away) or "dead". `schedule` is one action:
due alarms, tasks woken by a signal, the choice. The terminal has one queue, with
`tmp` as the link that `interruptible_sleep_on` keeps in the stack of a sleeper.

`input` is what a reader in canonical mode tells apart in the secondary queue: nothing,
a part of a line, or a line. With nothing `tty_read` sleeps. With a part of a line
`sleep_if_empty` returns at once, as the queue is not empty, and the loop of `tty_read`
goes round without `schedule()`: the label "tty_spin", at which the process keeps the
processor until the interrupt (`TtyInput`) completes or erases the line. At its end
`tty_read` sets the alarm to what it was at the start (`oldalarm`), so an alarm that has
gone off meanwhile goes off again; the return at an end-of-file character does not,
which makes no difference as no signal is pending there and the alarm unchanged. The
lines for VTIME and VMIN (`tty_io.c:242-252`, `273-277`) do nothing with the settings that
all terminals start with (0 and 1) and are left out, and so is the signal of the
interrupt key: no process is a session leader. init does not read (`init/main.c`).

`interruptible_sleep_on` sets the state of the sleeper before it to running, without
a look at what has become of it. If that one has left by a signal and is a zombie
or released, a dead task runs again: `stopped`, and the properties hold up to there.

Left out: signal masks, process groups and sessions, stopped tasks (the code has
none) and the memory side, which is in `Memory`. init is neither killed nor does it
exit: the code assumes that it exists.

### RingBuffer

The variables are those of the driver and the locals of the calls: `left[w]` is
what `rb_write` still has to store, `got[r]` and `want[r]` what `rb_read` has taken
and still wants, `n` the size of the round. Bytes are moved one per step. The
semaphore is its count. `wait_event_interruptible` is three steps, as `is_filled`
runs without the semaphore: the writer is queued and loads `write_pos`
(`WaitLoad`), compares it with `read_pos` (`WaitTest`) and, if they are equal,
sleeps until a `wake_up_interruptible` since then has taken it from the queue
(`WaitWoken`). A signal can end every interruptible wait. `rb_ioctl` changes no
state; kmalloc and the copies from and to user space are taken to succeed, as a
failure ends a call before it has touched the device, or after.

`ByteFifo` is the promise: `Put` appends one byte of a writer's message if there
is room, `Get` takes one, a call can be abandoned at any time. The mapping
replaces the queue by `Stored`, the bytes between the two positions.

### Abstractions of BufferCache

- `wake_up` makes every sleeper of the channel runnable. In the code the first
  sleeper wakes the next one when it runs; the order in which they run is left
  open here, so the chain is one of the behaviours.
- The RAM disk ends its request inside `add_request`; here that is a device step
  right after it. Hard disk and floppy end theirs in the interrupt.
- `sync_inodes` before and between the walks is left to the inode module.
- `ll_rw_block` on a device without a driver does nothing; the blocks here have one.
- `check_disk_change` starts at the point where the floppy reports a change; its
  super block and inode parts belong to the inode module.

## Runs

| run | instance | what it shows |
|---|---|---|
| `buffer_cache` | 2 processes, 2 buffers, 2 slots, 2 blocks on a hard disk and 1 on a floppy, 3 operations in all, reads can fail | safety |
| `buffer_cache_live` | 2 processes, 2 buffers, 2 slots (1 for writes), 3 blocks of a hard disk, 4 breads and full-block writes | `UniqueBuffer` when a dirty or busy victim gives the other process time; an operation that does not end is one of two cases |
| `request_sleep` | the same with syncs and 3 operations | the lost wake-up described under Findings |
| `block_write` | 2 processes, one block, `bread` and full-block `block_write` | the defect described under Findings |
| `memory` | 3 tasks, 9 pages, one executable, 3 system calls | safety of counts, copy on write and isolation |
| `memory_exec` | 2 tasks, 2 executables | the window in execve (Findings) |
| `memory_read` | 2 tasks, a system call that writes to a page of the executable | the write past `verify_area` (Findings) |
| `ring_buffer` | 1 reader, 2 writers, 3 bytes of memory, signals | mutual exclusion, refinement of `ByteFifo`, every write ends |
| `pipe` | 2 readers, 2 writers, one process being both, a page of 4 bytes, 2 writes | refinement of `ByteFifo`, end of file, nobody sleeps for nothing |
| `hard_disk` | 3 requests of 5 kinds, one drive of 8 sectors with 2 partitions, `MAX_ERRORS` 3 | every transfer is right, stays in its partition and ends |
| `inode` | 3 processes, 2 entries, an inode of a hard disk and one of a floppy, 4 calls | safety of the table and its contents, the queues, every call returns |
| `process` | init and 2 more slots, 4 pids, 2 forks, 1 kill or alarm | fathers, zombies, SIGCHLD, the end of waits and of killed processes |

The properties of the cache: `UniqueBuffer` (no block has two buffers),
`References` (`b_count` is the number of holders, and a held buffer keeps its
block), `LockOwned` (a lock has exactly one owner, whose transfer is for the
block the buffer has), `NoLostWrite` (the latest contents are on the disk or in
a buffer still to be written), `HeldIsLatest` (a caller never looks at stale
data), `NoPanic` (the panics of `new_block`, `brelse` and the drivers) and the
action property `ClaimClean` (a buffer changes hands only unused, unlocked and
clean, as the comment in `getblk` promises). `EverythingReturns` (every operation ends)
does not hold, and there are two reasons: the lost wake-up of `ll_rw_blk.c:129`
(`SleepsForNothing`: a process waits for a slot and no request is left to end; the run
`request_sleep`) and callers that hold buffers while they wait for more until all are
held (`HoldAndWait`). `ReturnsUnlessStuck` says that there is no third one: either one of
these two states is reached and kept, or everything returns. Both are reached in
`buffer_cache_live`.

The properties of `memory`: `ReferenceCounts` (`mem_map` is exactly the number of
references to each page, so nothing leaks, nothing is freed in use and the panic
of `free_page` is never reached), `WritableIsPrivate` (a page with a writable
entry has no second user), `PagesStable` (what a task sees at an address changes
only by its own permitted writes) and `ForkCopies` (the child starts with exactly
the father's memory). `FirstTouch` (a page of the executable holds what the
file has when it is first touched) fails and is the subject of `memory_exec`.

The properties of the hard disk: `TransferDone` (a request that ends well has moved
both halves of its buffer from or to their own sectors, whatever was retried in
between), `OwnSectors` (the disk changes only where the current request, a write,
asks for it, inside its partition), `NeverStalled` (while requests wait, a command
is in progress and `do_hd` points to the handler that expects its interrupt) and
`RequestsEnd`.

The properties of the inode table: `UniqueInode` (no inode is in two entries),
`Counted` (`i_count` is the number of references, and an entry in use keeps its
inode), `NoLostUpdate` (the latest size, zones and links are on the disk or in a dirty
entry, and a holder sees them; so is `i_mtime`, unless it was set while `i_dirt` was clear
and nothing has marked the inode since), `UnusedIsClean` (`get_empty_inode` neither sleeps nor writes:
this is what makes the search and the assignment in `iget` one step),
`QueuesKept` (every sleeper can be reached from the head of a queue or from a process
that still has to leave `sleep_on`; the `memset` of an entry forgets nobody) and
`CallsReturn`.

The properties of pipes: `IsFifo` (the refinement), `InodeInUse` (`i_count` is the
number of open ends, and the page is not freed under a process in the pipe),
`EndOfFile` (a short read or write has met the real end, although the code only
looks at `i_count != 2`) and `SleepersWake`.

The properties of processes: `FatherKnown` (every process has a father that has not
begun to exit, and pids are unique although they go round), `NoMissedChild` (a
process asleep in waitpid with a zombie to collect has SIGCHLD pending), `WaitEnds`
(nobody waits for ever for a child that has ended) and `KillWorks` (a process that is
sent SIGKILL ends, unless it reads a terminal together with another one). Both have
a second way out, `<>[]Spinning`: a reader that has a part of a line which is never
completed keeps the processor, and nobody else runs. TLC finds both violated without
it; input is not fair, as nobody has to type.

The properties of the ring buffer: `OneInside` (exactly the process that moves
bytes has the semaphore, on every path with its early `up`, second `down` and
signals), `IsFifo` (the refinement) and `WritesEnd`.

Bounds of `memory`. Nine pages are three task structures, their tables and two or
three data pages, so that memory runs out in every operation: all failure
branches fire. Three calls are enough for a fork of a fork, or a fork, an execve
and an exit. `MaxCalls` bounds them; faults and writes are not bounded. The view
`UsedMemory` identifies states that differ only in the numbers of pages: no code
looks at the number of a page except to index `mem_map`, a free page is cleared
before it is used, and no property mentions a number. System calls in this run
write to bss only; `memory_read` is the other case.

Bounds of the hard disk. Three requests are one in progress and two that the
elevator can put in either order; the five kinds are reads and writes in one
partition that share a sector with another, the last block of a partition with an
odd number of sectors, which goes beyond its end, and a drive that does not exist.
`MAX_ERRORS` is 3 so that a reset comes at the second error and the end at the third.

Bounds of the inode table. Two entries are one more than an inode needs while it is
held, so that an entry is found locked, is taken over and runs out; four calls are
two that race for an inode, a walk, and one that finds what is left. `Stamp` uses up
one of them; without a bound the time would be set again and again.

Bounds of the pipe. A page of 4 bytes holds three; a message of four bytes fills it,
wraps and needs two rounds; the process with both ends is the one for which
`i_count` and the ends it stands for could differ. One reader may fault.

Bounds of processes. Three slots are a father, a child and init, or a grandchild
that becomes an orphan; with `last_pid` at the end of the four pids the first fork
takes the last pid and the next one goes round past init's.

Bounds of the ring buffer. `MEMSIZE` is 3, so that two bytes fit and the
positions wrap after one message; a message of three bytes needs two rounds and
fills the buffer; `MaxWrites` is two, one per writer. Deadlock is checked: a
reader can always read.

Bounds of the cache. Two processes and two buffers are the smallest cache in which a victim
can be stolen while its finder sleeps, a block can be brought in twice, and all
buffers can be in use; two slots are one for writes and one kept for reads, so
both kinds of callers meet a full table. `MaxOps` bounds the operations started
(three: two that race and one that disturbs them; four in `buffer_cache_live`, so that
each process can hold a buffer and ask for another), `MaxHold` the buffers a caller
keeps while it asks for another. Interrupts come at any point, also in the window
between a failed slot scan and its sleep. Processes are symmetric in `buffer_cache`. The
runs of the cache and of memory set `CHECK_DEADLOCK FALSE`: when the operations
are used up the processes stop, which is not a deadlock of the kernel.

Fairness. `Kernel(p)` is weakly fair: `schedule` gives every runnable process a
turn, and callers release what they hold. `Device(m)` is weakly fair: a disk ends
the request it was given. Nothing is assumed of callers that start operations.
No bound keeps the interrupts out of the window in `make_request`.

For the ring buffer `Writer(w)`, `Up(p)` and `Wake(p)` are weakly fair: a process
that can run does. `Down(p)` is strongly fair because the kernel's semaphore keeps
its waiters in a queue and hands itself to the first. `Reader(r)` includes the
start of a read: `WritesEnd` is a promise only as long as somebody reads, and
signals, which end a write with an error, are not assumed to come.

In `Pipe` and `Inode`, `Resume(p)` is strongly fair: `schedule` chooses a runnable
process by its counter, which grows while it waits, but another process may have
the processor in between. Steps in kernel mode are weakly fair, as nothing
preempts them; a copy that faults goes on when the page is there (strong, since
others run meanwhile). In `Process`, `schedule(i)` is strongly fair for the same
reason, `do_timer` because a process in user mode loses the processor at the end of
its time slice, and `IoDone` weakly because a disk answers. In `HardDisk` the
interrupt handler is weakly fair: the driver has no timeout, so a controller that
does not interrupt stops it, and the code gives no more than this.

## Findings

`make_request` looks for a free slot and calls `sleep_on(&wait_for_request)` with
interrupts enabled. If every request in flight ends between the two, the wake-ups
of `end_request` find nobody in the queue, and unless another process makes a request
the caller sleeps for ever, the buffer it has locked with it (`ll_rw_blk.c:129`). The
header of `buffer.c` says that "some cli-sti sequences are needed to check for
sleep-on-calls"; this place has none. The run `request_sleep` shows it.

`block_write` of a whole block takes its buffer with `getblk` and sets `b_dirt`
but not `b_uptodate`. The next `bread` of the block finds an invalid buffer and
reads the disk over it, and `add_request` clears `b_dirt`: the write is lost. The
run `block_write` shows it; `buffer_cache` therefore leaves that operation out.

`do_execve` sets `current->executable` to the new program, then closes files,
which may sleep, and only then frees the old pages. A task that runs the new
program and faults meanwhile finds the sleeper in `share_page`, takes it for one
that "shares the same executable" and maps a clean page of the old program. The
run `memory_exec` shows it.

`write_verify` un-protects only pages that are present. A system call that is to
write to an absent page of the executable faults when it copies; `do_no_page`
shares the page read-only with a task that has it, and the copy, in kernel mode,
writes to the shared page. The other task sees the change. The run `memory_read`
shows it.

With the same cause as `FirstTouch`, but not the subject of a run: `un_wp_page`
makes the copy with a clear dirty bit, so until the write is retried a page
modified before a fork counts as clean and can be shared with another task.
Other observations, not the subject of a run:

- a reader of a terminal with a part of a line does not sleep but loops in kernel
  mode without giving the processor up, until the line is complete or erased
  (`tty_io.c:256-260`);
- an alarm that goes off while a process reads a terminal is set again to its old
  time when the read ends, and goes off a second time (`tty_io.c:284`);
- `file_write` sets `i_mtime` without `i_dirt` (`file_dev.c:84`): the time of an overwrite
  inside the file, or of a longer write during which a sync has written the inode, is
  lost when the entry is given up (`iput`, then another inode takes the entry);
- two readers of a terminal: a reader that is sent a signal and is not the head of
  the queue wakes the head and sleeps again, the head finds no input and sleeps
  again, and so on (`sched.c:182`); the signal is taken when there is input;
- `interruptible_sleep_on` can make a zombie run again (`sched.c:187`);
- `iput` of an unlinked inode sleeps in `truncate` after it has seen that it is the
  last user; an `iget` meanwhile leads to the panic in `free_inode`
  (`inode.c:182`, `bitmap.c:118`);
- an inode that is changed after its medium was removed stays dirty for ever, and
  `get_empty_inode` loops on it once it has no other entry (`inode.c:218`);
- the second sector of the last block of a partition is not retried: the check of
  the range asks for two sectors (`hd.c:304`);
- `drive_busy` tests `i == READY_STAT | SEEK_STAT`, which is always true (`hd.c:211`);
- `write_intr` does not clear `errors` after a sector as `read_intr` does.

`breada` passes its first buffer
instead of the one just got to the read-ahead (`buffer.c:336`), so nothing is
read ahead; a failed write loses its data silently (`blk.h:116`).

## Proofs

`BufferCacheProofs` proves, for every number of processes, buffers, slots and
blocks and every choice of operations and failures:

- `TypeCorrect`: `Spec => []TypeOK`;
- `UniqueBufferHolds`: `Spec => []UniqueBuffer`;
- `LockOwnedHolds`: `Spec => []LockOwned`;
- `ClaimCleanHolds`: `Spec => ClaimClean`;
- `ReferencesHolds`: `Spec => []References`;
- `NoPanicHolds`: `Spec => []NoPanic`;
- `NoLostWriteHolds` and `HeldIsLatestHolds`: if `"block_write" \notin Ops` and
  `WRITE \notin Fallible`, then `Spec => []NoLostWrite` and `Spec => []HeldIsLatest`.

For the first four the inductive invariant is `Inv == TypeInv /\ NamedOK /\ OwnInv`. `TypeOK` alone
is not inductive: a step that uses `bh[p]` needs to know that it is a buffer, so
`ControlOK` relates each label to the local variables its code uses, and a
transfer needs its request to be for a real block, so `NamedOK` says that a
buffer that is dirty, held or the target of a request stands for a block.
`LockOwned` needs `QueueOK`: the entries of a device's list are in flight, of
that device and pairwise different; otherwise `end_request` might free a slot
that another list still uses. That `add_request` keeps the list so is the lemma
`EnqueueProperties` of `BlockRequestProofs`, which rests on the existence of a least
element of a set of positions. `UniqueBuffer` follows because the claim of a victim is the only step
that changes `b_blk`, and its guard is the second search. The proof of each
conjunct has one step per action; `Quiet` collects the actions that touch
neither locks, requests nor block numbers.

`References` adds `UseInv`. `UseProc(p)` says that the blocks `p` still has to get
are different and that it holds none of them but the one just got, and that what it
is about to release or to wait for it does hold; without it a `brelse` could lower a
count that `p` has no part in. `NewIsPrivate` says that the block of a `new_block` is
wanted by nobody else; the panic of `new_block` for a count other than 1 needs it.

`NoLostWrite` and `HeldIsLatest` add `DataInv`. `CallProc(p)` says how far an operation
has come, so that a buffer a caller is given has been waited for; `HeldValid(p)` that
everything a process holds besides the buffers its operation works on is valid;
`ValidData(b)` that a valid buffer of a fixed medium has the latest contents, a dirty one
is valid, writes are made of dirty buffers only and reads into invalid ones only. The
last is what a full-block `block_write` breaks, and a failed write clears `b_dirt`
without having written: the two hypotheses are exactly these two defects (Findings),
and TLC finds a violation as soon as either is dropped. Reads may fail, and media may
be changed: the two properties speak of fixed media.

`RingBufferProofs` proves, for every size of the buffer of at least 2 and any
readers, writers, messages and signals:

- `TypeCorrect`: `Spec => []TypeOK`;
- `OneInsideHolds`: `Spec => []OneInside`;
- `ImplementsFifo`: `Spec => IsFifo`, the refinement of `ByteFifo`.

The inductive invariant adds `Rounds` to the two: a process that copies has no
more bytes to move than fit, or are stored, and than it was asked for. It is what
makes the size computed at the start of a round good for all its steps, and it
is preserved because `OneInside` leaves nobody else to move a position. The core
of the refinement are `StoredPut` and `StoredGet`: a byte written at `write_pos`
appends to `Stored`, and `read_pos` moving takes its head, also across the wrap
(`WrapAround` turns the remainder into a comparison, the only place where `%` is
reasoned about).

`PipeProofs` proves, for every page size of at least 2, any readers, writers and
messages, and every order of reads, writes, faults and closes:

- `TypeCorrect`: `Spec => []TypeOK`;
- `InodeInUseHolds`: `Spec => []InodeInUse`;
- `EndOfFileHolds`: `Spec => EndOfFile`;
- `ImplementsFifo`: `Spec => IsFifo`.

The inductive invariant adds to the types: `Holding` (a process in a read or write
has that end open; with `Count` it gives the first two results), `Rounds` (a round
has a byte to move and no more than its message) and `Copies`: without a page fault
only `current` is in a copy, and the position that was moved ahead is exactly as far
from `pos` as there are bytes to copy. `Copies` is what lets `Contents` be computed
from the positions in the middle of a copy. `Run(pg, f, n)` is the sequence of `n`
bytes from position `f`; `RunAppend` and `RunTail` say what a byte stored behind it
or taken from its front makes of it, also across the end of the page.

`InodeProofs` proves, for any finite set of processes, every size of the table and
any inodes and removable devices:

- `TypeCorrect`: `Spec => []TypeOK`;
- `UniqueInodeHolds`: `Spec => []UniqueInode`;
- `CountedHolds`: `Spec => []Counted`;
- `UnusedIsCleanHolds`: `Spec => []UnusedIsClean`;
- `NoLostUpdateHolds`: `Spec => []NoLostUpdate`;
- `QueuesKeptHolds`: `Spec => []QueuesKept`.

The inductive invariant is `Inv == TypeOK /\ Local /\ TableInv /\ DataInv`. The
properties depend on each other: an entry is filled in once only because `iget`'s
spare entry belongs to nobody else (`Spare`), which is a statement about counts; a
count of 1 means a single user only because counts are exact (`Count`); a reader in
`bread` brings in the latest contents only because its entry is locked, it is the
only user and no other entry has the inode (`Locked`, `UniqueInode`). `CountStep`
reduces the cardinality of the set of users to what one process does: a step of `p`
changes only its own references. `Alone` is the fact used most: an entry that is
some process's spare, or is being read, has no other user.

`NoLostUpdate` speaks of two things. For size, zones and links `DataInv` is enough. For the
time `TimeInv` is proved on top of `Inv`: an entry of an inode that is not in `unmarked` and
is not being read has the latest time, and is dirty if the disk has not. What the
theorem leaves out is exactly the time of a `file_write` that finds `i_dirt` clear, from
then until the inode is marked or written: that one the code loses.

`QueuesKept` has an invariant of its own on top of that, `QueueInv`. `Upright`: a
process in user mode or with the processor is in no queue. `Linked`: a process is the
head of one queue or the next of one sleeper, never both, and only while it sleeps.
It makes the chain a list although its links are local variables on many stacks: a
`wake_up` takes the head from the queue, and the successor it leaves behind is in the
`tmp` of the process just woken, and nowhere else.

`MemoryProofs` proves, for any number of tasks and executables, any finite set of
addresses and at least three pages:

- `TypeCorrect`: `Spec => []TypeOK`;
- `ReferenceCountsHolds`: `Spec => []ReferenceCounts`;
- `WritableIsPrivateHolds`: `Spec => []WritableIsPrivate`;
- `PagesStableHolds`: if `ReadAddrs \cap ImageAddrs = {}`, then `Spec => PagesStable`;
- `ForkCopiesHolds`: `Spec => ForkCopies`.

The inductive invariant is `Inv == TypeOK /\ Control /\ WritableIsPrivate /\ CountInv`.
The set of references that `ReferenceCounts` counts is split in `CountInv` into four
cardinalities: entries of page tables, of directories, task structures, local
variables. The lemmas about them say what one changed entry, one copied and one
cleared table do to a count; `fork` and `exit` are sums of those. Counts and protection
need each other: a page is private because its count is 1, and a count of 1 says so
only because the counts are exact. `Exclusive`, which follows from `Inv`, collects this:
no page has two kinds of users. `Control` has what the labels mean, among them that a
living task has the table of its stack, without which execve could not place its
arguments. `PagesStable` adds `ReadWritable`: between `verify_area` and the copy the entry
stays writable. It fails for addresses of the executable, which is the run
`memory_read`, so the hypothesis leaves those out. Three pages are what the first task
needs to exist: its structure, the table of its stack and its arguments.

`HardDiskProofs` proves, for every geometry, partition table, number of drives and
requests and every `MAX_ERRORS` of at least 1:

- `TypeCorrect`: `Spec => []TypeOK`;
- `NeverStalledHolds`: `Spec => []NeverStalled`;
- `TransferDoneHolds`: `Spec => TransferDone`;
- `OwnSectorsHolds`: `Spec => OwnSectors`.

The inductive invariant says that the requests in the queue are different and that
only the first has been worked on (`QueueInv`); that `sector`, `nr_sectors` and `buffer` of
the first agree with each other and the halves before `buffer` are where they belong
(`HeadInv`, `Done`); and that the controller works on what is left of it, at the place
the driver computed (`ControllerInv`). `AddressOf` proves that splitting a sector number
into cylinder, head and sector and putting it together again gives the number.
`QueueInv` needs the elevator: a request made while another is in progress never
goes before it (`EnqueueProperties`).

`ProcessProofs` proves, for any number of tasks of at least 2, any number of pids
larger than that, and every order of forks, exits, waits and signals:

- `TypeCorrect`: `Spec => []TypeOK`;
- `FatherKnownHolds`: `Spec => []FatherKnown`;
- `NoMissedChildHolds`: `Spec => []NoMissedChild`.

The inductive invariant adds `Labelled` (a zombie is where its code has ended, a free
slot in user mode), `CurrentRuns`, and `InitStays`: init lives, has pid 1 and nothing is
pending, nor kept in `oldalarm`, that would end it, which is what makes it a father for
orphans.
`find_empty_process` searches round the pids for an unused one; that the search ends
with an unused one is the pigeonhole principle, by cardinality: with more pids than
tasks one is unused, and going round from `last_pid` reaches every pid.

The assumptions are the ones named in the modules: finitely many processes, at
least one buffer, two slots and one entry, device and inode numbers different from
0, addresses of the executable, bss and arguments that do not overlap, partitions
that lie on their drive, more pids than tasks, natural bounds.

So every safety invariant, action property and refinement that a passing run checks
is also a theorem. Only model-checked are the liveness properties `ReturnsUnlessStuck`,
`WritesEnd`, `SleepersWake`, `RequestsEnd`, `CallsReturn`, `WaitEnds` and `KillWorks`: they
rest on fairness, and fairness on `ENABLED`, which the prover does not reason about.
What the proofs give for them are the states they must not get stuck in:
`NeverStalled`, `QueuesKept` and `NoMissedChild` hold without bounds.

## Not modelled

By far most lines of the repository are not its own: two copies of SQLite, OpenSSL
sources, m4 and `code_trash`. They are libraries with their own specifications and
are left aside, so the map covers a small part of all lines and a large part of the
kernel's core.

Of the kernel: the floppy driver with its motor timers, super blocks and mounting,
path lookup and the file table, the bit maps, `bmap`, line editing and output of
terminals, `malloc`, the kernel timers and the pointers of the hash chains and the
free ring are planned. Boot code, traps, the floating point emulator and string and
formatting functions have no state that a property would relate. Of `file_write` the
inode table has what it does to the inode; that it sets `b_dirt` before a copy that can fault
(`file_dev.c:71`) is listed as a hazard. The composition of the inode table with the
buffer cache, where `write_inode` holds a lock over a `bread` that may sync
(`inode.c:320`), is not modelled: each of the two fills its run's bounds by itself, and
a composition needs a coarser cache first.

Of the rest: the USB driver and the shared-memory daemon are planned; the GTK
program, the stock tools and the exercises are input, output and library calls.

## Plan

Done: the cache, the request layer, the hard disk, the inode table, pipes, memory,
processes and the ring buffer, each checked, and its safety proved. Next, in this
order:

1. `Floppy`: command, interrupt and timer state machine over the queue; `Timers`.
2. `Super`: mount and unmount over the inode table; path lookup.
3. `BufferLists`: the pointer level of the hash chains and the free ring,
   refining the search and the order that `BufferCache` uses.
4. `Malloc`, `Tty`, the shared-memory daemon, the USB driver.
