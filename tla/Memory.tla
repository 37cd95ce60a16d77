------------------------------- MODULE Memory -------------------------------
(***************************************************************************)
(* The memory manager of linux-0.11 (mm/memory.c) with the two callers that*)
(* build address spaces, copy_process (kernel/fork.c) and do_execve        *)
(* (fs/exec.c): page reference counts, copy on write, demand loading and   *)
(* sharing of clean executable pages.                                      *)
(*                                                                         *)
(* The kernel is not preemptive, so a page fault, a fork or a step of an   *)
(* execve is one action unless it sleeps; labels are the points where a    *)
(* task sleeps in the kernel or runs in user mode, where any other task    *)
(* may go on.                                                              *)
(***************************************************************************)
EXTENDS Integers, FiniteSets

CONSTANTS
  NR_TASKS,       \* task slots (task[0] has no paged memory)
  NR_FRAMES,      \* pages of paged memory, PAGING_PAGES
  ImageAddrs,     \* user pages below end_data: loaded from the executable
  BssAddrs,       \* user pages above it, in the same 4 MB: bss, heap
  ArgAddr,        \* the stack page that do_execve puts the arguments in
  NoAddr,         \* not an address
  Exes, NoExe,    \* the executables; none
  Values,         \* what tasks write into a page
  Ops,            \* the system calls used
  ReadAddrs,      \* the addresses that system calls copy data to
  MaxCalls        \* bound: system calls made in all

Tasks  == 1 .. NR_TASKS
Frames == 1 .. NR_FRAMES
Addrs  == ImageAddrs \cup BssAddrs \cup {ArgAddr}
Dirs   == {0, 1}
Pages  == Tasks \X Addrs
Tables == Tasks \X Dirs

(* The page directory entry of a page: the stack is at the top of the 64   *)
(* MB that a task has, the rest at the bottom.                             *)
Dir(a) == IF a = ArgAddr THEN 1 ELSE 0

AllOps == {"fork", "execve", "exit", "read"}

ASSUME SizesAssumption == NR_TASKS \in Nat \ {0} /\ NR_FRAMES \in Nat /\ NR_FRAMES >= 3
ASSUME AddrsAssumption == /\ ImageAddrs \cap BssAddrs = {}
                          /\ ArgAddr \notin ImageAddrs \cup BssAddrs
                          /\ NoAddr \notin Addrs
                          /\ IsFiniteSet(Addrs)
ASSUME ExesAssumption  == NoExe \notin Exes
ASSUME CallsAssumption == ReadAddrs \subseteq Addrs /\ Ops \subseteq AllOps /\ MaxCalls \in Nat

VARIABLES
  mem_map,      \* reference count of each page of memory
  data,         \* contents of each page of memory
  pg_dir,       \* per task and directory entry: its page table or NoPage
  pte,          \* per task and address: the page mapped there or NoPage
  rw, dirty,    \* the writable and the dirty bit of that page table entry
  task_page,    \* the page that holds the task's task_struct
  executable,   \* current->executable
  pc,           \* what the task is doing
  page, addr,   \* do_no_page's page and address; do_execve's argument page
  ret,          \* where the task goes on after a page fault
  calls         \* system calls still allowed

vars == <<mem_map, data, pg_dir, pte, rw, dirty, task_page, executable, pc, page,
          addr, ret, calls>>
tableVars == <<pg_dir, pte, rw, dirty>>
taskVars  == <<task_page, executable, pc, page, addr, ret>>

NoPage == 0

Labels == {"none", "user", "load", "read", "args", "execve", "zombie"}

(* Contents: a page of an executable, cleared, arguments, or written. *)
ImageOf(e, a) == <<"image", e, a>>
Zero          == <<"zero">>
Arguments     == <<"arguments">>
Written(v)    == <<"value", v>>

-----------------------------------------------------------------------------
(* Page allocation.                                                        *)

PageAfter(map) ==  \* mutant: scasb has moved on and is not corrected for
  LET free == {f \in Frames : map[f] = 0}
  IN  IF free = {} THEN NoPage ELSE 1 + CHOOSE f \in free : \A g \in free : g <= f

(* get_free_page scans the map downwards; NoPage if nothing is free. *)
get_free_page(map) ==
  LET free == {f \in Frames : map[f] = 0}
  IN  IF free = {} THEN NoPage ELSE CHOOSE f \in free : \A g \in free : g <= f

Used(map, f) == [map EXCEPT ![f] = 1]

(* The references of task t's tables to page f. *)
TableRefs(t, f) == {a \in Addrs : pte[<<t, a>>] = f}
DirRefs(t, f)   == {d \in Dirs : pg_dir[<<t, d>>] = f}

(* free_page_tables: every page and every table of t is released. *)
Freed(map, t) ==
  [f \in Frames |-> map[f] - Cardinality(TableRefs(t, f)) - Cardinality(DirRefs(t, f))]

ClearTables(t) ==
  /\ pg_dir' = [x \in Tables |-> IF x[1] = t THEN NoPage ELSE pg_dir[x]]
  /\ pte' = [x \in Pages |-> IF x[1] = t THEN NoPage ELSE pte[x]]
  /\ rw' = [x \in Pages |-> x[1] # t /\ rw[x]]
  /\ dirty' = [x \in Pages |-> x[1] # t /\ dirty[x]]

(* do_exit, also reached through oom(): the memory goes at once, the task   *)
(* structure when the father waits.                                         *)
do_exit(t, map) ==
  /\ mem_map' = Freed(map, t)
  /\ ClearTables(t)
  /\ executable' = [executable EXCEPT ![t] = NoExe]
  /\ pc' = [pc EXCEPT ![t] = "zombie"]
  /\ page' = [page EXCEPT ![t] = NoPage]
  /\ addr' = [addr EXCEPT ![t] = NoAddr]
  /\ ret' = [ret EXCEPT ![t] = "none"]
  /\ UNCHANGED <<data, task_page>>

(* The table that put_page and try_to_share use for address a: the one     *)
(* there is, or a new page.                                                *)
TableFor(t, a, map) ==
  IF pg_dir[<<t, Dir(a)>>] # NoPage THEN pg_dir[<<t, Dir(a)>>] ELSE get_free_page(map)

WithTable(t, a, map) ==
  IF pg_dir[<<t, Dir(a)>>] # NoPage THEN map ELSE Used(map, get_free_page(map))

(* put_page(f, a): f is mapped writable and clean. *)
put_page(t, a, f, map) ==
  /\ TableFor(t, a, map) # NoPage
  /\ pg_dir' = [pg_dir EXCEPT ![<<t, Dir(a)>>] = TableFor(t, a, map)]
  /\ mem_map' = WithTable(t, a, map)
  /\ pte' = [pte EXCEPT ![<<t, a>>] = f]
  /\ rw' = [rw EXCEPT ![<<t, a>>] = TRUE]
  /\ dirty' = [dirty EXCEPT ![<<t, a>>] = FALSE]

-----------------------------------------------------------------------------
(* do_no_page: t touches an address that is not mapped, in user mode or in *)
(* a system call that copies to user memory.                               *)

Touches(t, a) == /\ pc[t] \in {"user", "read"} /\ pte[<<t, a>>] = NoPage
                 /\ pc[t] = "read" => addr[t] = a

(* No executable, or beyond its data: get_empty_page. *)
Anonymous(t, a) == executable[t] = NoExe \/ a \notin ImageAddrs

NoPageEmpty(t, a) ==
  LET f == get_free_page(mem_map) IN
  /\ Touches(t, a) /\ Anonymous(t, a) /\ f # NoPage
  /\ \/ /\ put_page(t, a, f, Used(mem_map, f))
        /\ data' = [data EXCEPT ![f] = Zero]
        /\ UNCHANGED taskVars
     \/ /\ TableFor(t, a, Used(mem_map, f)) = NoPage
        /\ do_exit(t, mem_map)
  /\ UNCHANGED calls

(* The tasks try_to_share succeeds with: same executable, present, clean.   *)
(* (executable->i_count > 1 is implied by there being one.)                 *)
Donors(t, a) == {q \in Tasks \ {t} : /\ executable[q] = executable[t]
                                     /\ pte[<<q, a>>] # NoPage /\ ~dirty[<<q, a>>]}

(* share_page looks from the last task down. *)
Donor(t, a) == CHOOSE q \in Donors(t, a) : \A r \in Donors(t, a) : r <= q

(* Both entries become read-only. *)
Protect(t, q, a) == rw' = [rw EXCEPT ![<<t, a>>] = FALSE, ![<<q, a>>] = FALSE]

Counted(map, f) == [map EXCEPT ![f] = @ + 1]

NoPageShare(t, a) ==
  LET q == Donor(t, a)
      f == pte[<<q, a>>]
      map == WithTable(t, a, mem_map)
  IN
  /\ Touches(t, a) /\ ~Anonymous(t, a) /\ Donors(t, a) # {}
  /\ \/ /\ TableFor(t, a, mem_map) # NoPage
        /\ pg_dir' = [pg_dir EXCEPT ![<<t, Dir(a)>>] = TableFor(t, a, mem_map)]
        /\ pte' = [pte EXCEPT ![<<t, a>>] = f]
        /\ Protect(t, q, a)
        /\ dirty' = [dirty EXCEPT ![<<t, a>>] = FALSE]
        /\ mem_map' = Counted(map, f)
        /\ UNCHANGED <<taskVars, data>>
     \/ /\ TableFor(t, a, mem_map) = NoPage
        /\ do_exit(t, mem_map)
  /\ UNCHANGED calls

(* Nobody has it: a page is taken and read from the file, which sleeps ... *)
NoPageLoad(t, a) ==
  LET f == get_free_page(mem_map) IN
  /\ Touches(t, a) /\ ~Anonymous(t, a) /\ Donors(t, a) = {} /\ f # NoPage
  /\ mem_map' = Used(mem_map, f)
  /\ data' = [data EXCEPT ![f] = Zero]
  /\ page' = [page EXCEPT ![t] = f]
  /\ addr' = [addr EXCEPT ![t] = a]
  /\ ret' = [ret EXCEPT ![t] = pc[t]]
  /\ pc' = [pc EXCEPT ![t] = "load"]
  /\ UNCHANGED <<tableVars, task_page, executable, calls>>

(* ... and mapped, or given back and the task killed. *)
Loaded(t) ==
  LET f == page[t] IN
  /\ pc[t] = "load"
  /\ \/ /\ put_page(t, addr[t], f, mem_map)
        /\ data' = [data EXCEPT ![f] = ImageOf(executable[t], addr[t])]
        /\ pc' = [pc EXCEPT ![t] = ret[t]]
        /\ page' = [page EXCEPT ![t] = NoPage]
        /\ addr' = [addr EXCEPT ![t] = IF ret[t] = "read" THEN @ ELSE NoAddr]
        /\ ret' = [ret EXCEPT ![t] = "none"]
        /\ UNCHANGED <<task_page, executable>>
     \/ /\ TableFor(t, addr[t], mem_map) = NoPage
        /\ do_exit(t, [mem_map EXCEPT ![f] = @ - 1])
  /\ UNCHANGED calls

(* No page for what the fault needs: oom(). *)
NoPageOom(t, a) ==
  /\ Touches(t, a) /\ (Anonymous(t, a) \/ Donors(t, a) = {})
  /\ get_free_page(mem_map) = NoPage
  /\ do_exit(t, mem_map) /\ UNCHANGED calls

-----------------------------------------------------------------------------
(* Writing.                                                                *)

(* A write of t reaches the page mapped at a; the processor sets the dirty *)
(* bit.                                                                    *)
Store(t, a, v) == /\ data' = [data EXCEPT ![pte[<<t, a>>]] = Written(v)]
                  /\ dirty' = [dirty EXCEPT ![<<t, a>>] = TRUE]
                  /\ UNCHANGED <<mem_map, pg_dir, pte, rw, task_page, executable>>

Write(t, a, v) ==
  /\ pc[t] = "user" /\ pte[<<t, a>>] # NoPage /\ rw[<<t, a>>]
  /\ Store(t, a, v)
  /\ UNCHANGED <<pc, page, addr, ret, calls>>

(* un_wp_page finds no other user of the page. *)
Alone(f) == mem_map[f] = 1

MovedUncounted(map, old, new) ==  \* mutant: the old page keeps its count
  Used(map, new)

(* The count of the old page drops, the copy has one user. *)
Moved(map, old, new) == [map EXCEPT ![new] = 1, ![old] = @ - 1]

NotCopied(old, new) == [data EXCEPT ![new] = Zero]  \* mutant: no copy_page

Copied(old, new) == [data EXCEPT ![new] = data[old]]

(* un_wp_page on the entry of (t, a). *)
un_wp_page(t, a) ==
  LET old == pte[<<t, a>>]
      new == get_free_page(mem_map)
  IN
  \/ /\ Alone(old)
     /\ rw' = [rw EXCEPT ![<<t, a>>] = TRUE]
     /\ UNCHANGED <<mem_map, data, pg_dir, pte, dirty>>
  \/ /\ ~Alone(old) /\ new # NoPage
     /\ mem_map' = Moved(mem_map, old, new)
     /\ data' = Copied(old, new)
     /\ pte' = [pte EXCEPT ![<<t, a>>] = new]
     /\ rw' = [rw EXCEPT ![<<t, a>>] = TRUE]
     /\ dirty' = [dirty EXCEPT ![<<t, a>>] = FALSE]
     /\ UNCHANGED pg_dir

CannotCopy(t, a) == ~Alone(pte[<<t, a>>]) /\ get_free_page(mem_map) = NoPage

Protected(t, a) == pte[<<t, a>>] # NoPage /\ ~rw[<<t, a>>]

(* do_wp_page: t writes to a present page that is not writable. *)
WriteProtected(t, a) ==
  /\ pc[t] = "user" /\ Protected(t, a)
  /\ \/ un_wp_page(t, a) /\ UNCHANGED taskVars
     \/ CannotCopy(t, a) /\ do_exit(t, mem_map)
  /\ UNCHANGED calls

Calls(t, o) == pc[t] = "user" /\ o \in Ops /\ calls > 0 /\ calls' = calls - 1

(* A system call that will copy to address a verifies it (verify_area) and *)
(* may sleep before it does.                                               *)
CallRead(t, a) ==
  /\ Calls(t, "read")
  /\ \/ /\ \/ ~Protected(t, a) /\ UNCHANGED <<mem_map, data, tableVars>>
           \/ Protected(t, a) /\ un_wp_page(t, a)
        /\ pc' = [pc EXCEPT ![t] = "read"]
        /\ addr' = [addr EXCEPT ![t] = a]
        /\ UNCHANGED <<task_page, executable, page, ret>>
     \/ Protected(t, a) /\ CannotCopy(t, a) /\ do_exit(t, mem_map)

(* The copy: a 386 ignores the write protection in kernel mode. *)
ReadCopies(t, v) ==
  /\ pc[t] = "read" /\ pte[<<t, addr[t]>>] # NoPage
  /\ Store(t, addr[t], v)
  /\ pc' = [pc EXCEPT ![t] = "user"]
  /\ addr' = [addr EXCEPT ![t] = NoAddr]
  /\ UNCHANGED <<page, ret, calls>>

-----------------------------------------------------------------------------
(* fork                                                                    *)

(* The pages copy_process takes, in order: task_struct, then a table for   *)
(* each directory entry of the father.                                     *)
ForkMaps(t) ==
  LET m0 == mem_map
      f0 == get_free_page(m0)
      m1 == Used(m0, f0)
      f1 == get_free_page(m1)
      m2 == IF pg_dir[<<t, 0>>] # NoPage THEN Used(m1, f1) ELSE m1
      f2 == get_free_page(m2)
  IN  [task  |-> f0,
       table |-> [d \in Dirs |-> IF pg_dir[<<t, d>>] = NoPage THEN NoPage
                                 ELSE IF d = 0 THEN f1 ELSE f2],
       map   |-> IF pg_dir[<<t, 1>>] # NoPage THEN Used(m2, f2) ELSE m2]

FirstFreeSlot(u) == pc[u] = "none" /\ \A w \in Tasks : pc[w] = "none" => u <= w

(* copy_page_tables: the child's references are counted ... *)
ShareAll(map, t) ==
  [f \in Frames |-> map[f] + Cardinality(TableRefs(t, f))]

ForkKeepsWritable(t, u) ==  \* mutant: only the child's entries are protected
  [x \in Pages |-> IF x[1] = u THEN FALSE ELSE rw[x]]

(* ... and neither may write. *)
ForkProtect(t, u) == [x \in Pages |-> IF x[1] \in {t, u} THEN FALSE ELSE rw[x]]

InheritFirst(t, u) ==  \* mutant: copy_page_tables copies one directory entry
  [x \in Pages |-> IF x[1] # u THEN pte[x]
                   ELSE IF Dir(x[2]) = 0 THEN pte[<<t, x[2]>>] ELSE NoPage]

(* The child's page table entries. *)
Inherit(t, u) == [x \in Pages |-> IF x[1] = u THEN pte[<<t, x[2]>>] ELSE pte[x]]

Fork(t, u) ==
  LET m == ForkMaps(t) IN
  /\ Calls(t, "fork") /\ FirstFreeSlot(u)
  /\ m.task # NoPage /\ \A d \in Dirs : pg_dir[<<t, d>>] # NoPage => m.table[d] # NoPage
  /\ mem_map' = ShareAll(m.map, t)
  /\ pg_dir' = [x \in Tables |-> IF x[1] = u THEN m.table[x[2]] ELSE pg_dir[x]]
  /\ pte' = Inherit(t, u)
  /\ rw' = ForkProtect(t, u)
  /\ dirty' = [x \in Pages |-> IF x[1] = u THEN dirty[<<t, x[2]>>] ELSE dirty[x]]
  /\ task_page' = [task_page EXCEPT ![u] = m.task]
  /\ executable' = [executable EXCEPT ![u] = executable[t]]
  /\ pc' = [pc EXCEPT ![u] = "user"]
  /\ UNCHANGED <<data, page, addr, ret>>

(* No page for the second table: what was copied is freed again, but the   *)
(* father's pages of the first one stay protected.                         *)
ForkFails(t) ==
  LET m == ForkMaps(t) IN
  /\ Calls(t, "fork")
  /\ \E u \in Tasks : FirstFreeSlot(u)
  /\ m.task # NoPage /\ m.table[0] # NoPage
  /\ pg_dir[<<t, 1>>] # NoPage /\ m.table[1] = NoPage
  /\ rw' = [x \in Pages |-> rw[x] /\ ~(x[1] = t /\ Dir(x[2]) = 0)]
  /\ UNCHANGED <<mem_map, data, pg_dir, pte, dirty, taskVars>>

-----------------------------------------------------------------------------
(* execve, exit, wait                                                      *)

(* copy_strings has put the arguments in a page; namei of an interpreter   *)
(* or iput of the old executable may sleep.                                *)
ExecveArgs(t) ==
  LET f == get_free_page(mem_map) IN
  /\ Calls(t, "execve") /\ f # NoPage
  /\ mem_map' = Used(mem_map, f)
  /\ data' = [data EXCEPT ![f] = Arguments]
  /\ page' = [page EXCEPT ![t] = f]
  /\ pc' = [pc EXCEPT ![t] = "args"]
  /\ UNCHANGED <<tableVars, task_page, executable, addr, ret>>

(* exec_error: the argument page is given back. *)
ExecveFails(t) ==
  /\ pc[t] = "args"
  /\ mem_map' = [mem_map EXCEPT ![page[t]] = @ - 1]
  /\ page' = [page EXCEPT ![t] = NoPage]
  /\ pc' = [pc EXCEPT ![t] = "user"]
  /\ UNCHANGED <<data, tableVars, task_page, executable, addr, ret, calls>>

(* Past the point of no return: executable is the new one; closing files   *)
(* may sleep.                                                              *)
ExecveSet(t, e) ==
  /\ pc[t] = "args"
  /\ executable' = [executable EXCEPT ![t] = e]
  /\ pc' = [pc EXCEPT ![t] = "execve"]
  /\ UNCHANGED <<mem_map, data, tableVars, task_page, page, addr, ret, calls>>

(* The old memory goes, change_ldt puts the argument page (it does not     *)
(* look whether put_page found a page for the table) and create_tables     *)
(* writes to it.                                                           *)
ExecveEnds(t) ==
  LET f == page[t]
      map == Freed(mem_map, t)
      table == get_free_page(map)
  IN
  /\ pc[t] = "execve"
  /\ mem_map' = IF table = NoPage THEN map ELSE Used(map, table)
  /\ pg_dir' = [x \in Tables |-> IF x[1] # t THEN pg_dir[x]
                                 ELSE IF x[2] = Dir(ArgAddr) THEN table ELSE NoPage]
  /\ pte' = [x \in Pages |-> IF x[1] # t THEN pte[x]
                             ELSE IF x[2] = ArgAddr /\ table # NoPage THEN f
                             ELSE NoPage]
  /\ rw' = [x \in Pages |-> IF x[1] # t THEN rw[x]
                            ELSE x[2] = ArgAddr /\ table # NoPage]
  /\ dirty' = [x \in Pages |-> IF x[1] # t THEN dirty[x]
                               ELSE x[2] = ArgAddr /\ table # NoPage]
  /\ page' = [page EXCEPT ![t] = NoPage]
  /\ pc' = [pc EXCEPT ![t] = "user"]
  /\ UNCHANGED <<data, task_page, executable, addr, ret, calls>>

Exit(t) == Calls(t, "exit") /\ do_exit(t, mem_map)

(* release(): the father has waited. *)
Release(t) ==
  /\ pc[t] = "zombie"
  /\ mem_map' = [mem_map EXCEPT ![task_page[t]] = @ - 1]
  /\ task_page' = [task_page EXCEPT ![t] = NoPage]
  /\ pc' = [pc EXCEPT ![t] = "none"]
  /\ UNCHANGED <<data, tableVars, executable, page, addr, ret, calls>>

-----------------------------------------------------------------------------
(* One task has just executed a program: its task_struct, one page table   *)
(* and its argument page are in use.                                       *)
Init ==
  \E e \in Exes :
    /\ mem_map = [f \in Frames |-> IF f > NR_FRAMES - 3 THEN 1 ELSE 0]
    /\ data = [f \in Frames |-> IF f = NR_FRAMES - 2 THEN Arguments ELSE Zero]
    /\ pg_dir = [x \in Tables |-> IF x = <<1, Dir(ArgAddr)>> THEN NR_FRAMES - 1
                                  ELSE NoPage]
    /\ pte = [x \in Pages |-> IF x = <<1, ArgAddr>> THEN NR_FRAMES - 2 ELSE NoPage]
    /\ rw = [x \in Pages |-> x = <<1, ArgAddr>>]
    /\ dirty = [x \in Pages |-> x = <<1, ArgAddr>>]
    /\ task_page = [t \in Tasks |-> IF t = 1 THEN NR_FRAMES ELSE NoPage]
    /\ executable = [t \in Tasks |-> IF t = 1 THEN e ELSE NoExe]
    /\ pc = [t \in Tasks |-> IF t = 1 THEN "user" ELSE "none"]
    /\ page = [t \in Tasks |-> NoPage]
    /\ addr = [t \in Tasks |-> NoAddr]
    /\ ret = [t \in Tasks |-> "none"]
    /\ calls = MaxCalls

Fault(t, a) == \/ NoPageEmpty(t, a) \/ NoPageShare(t, a) \/ NoPageLoad(t, a)
               \/ NoPageOom(t, a) \/ WriteProtected(t, a)

SystemCall(t) == \/ \E u \in Tasks : Fork(t, u)
                 \/ ForkFails(t)
                 \/ ExecveArgs(t)
                 \/ ExecveFails(t)
                 \/ \E e \in Exes : ExecveSet(t, e)
                 \/ ExecveEnds(t)
                 \/ \E a \in ReadAddrs : CallRead(t, a)
                 \/ \E v \in Values : ReadCopies(t, v)
                 \/ Exit(t)

Next == \E t \in Tasks :
          \/ \E a \in Addrs : Fault(t, a) \/ \E v \in Values : Write(t, a, v)
          \/ Loaded(t)
          \/ SystemCall(t)
          \/ Release(t)

Spec == Init /\ [][Next]_vars
-----------------------------------------------------------------------------
(* Properties                                                              *)

Contents == {ImageOf(e, a) : e \in Exes, a \in ImageAddrs}
            \cup {Zero, Arguments} \cup {Written(v) : v \in Values}

(* The types of the page map, the page tables and the tasks. *)
TypeOK == /\ mem_map \in [Frames -> Int]
          /\ data \in [Frames -> Contents]
          /\ pg_dir \in [Tables -> Frames \cup {NoPage}]
          /\ pte \in [Pages -> Frames \cup {NoPage}]
          /\ rw \in [Pages -> BOOLEAN]
          /\ dirty \in [Pages -> BOOLEAN]
          /\ task_page \in [Tasks -> Frames \cup {NoPage}]
          /\ executable \in [Tasks -> Exes \cup {NoExe}]
          /\ pc \in [Tasks -> Labels]
          /\ page \in [Tasks -> Frames \cup {NoPage}]
          /\ addr \in [Tasks -> Addrs \cup {NoAddr}]
          /\ ret \in [Tasks -> {"none", "user", "read"}]
          /\ calls \in 0 .. MaxCalls

(* All references to page f: page table and directory entries, task        *)
(* structures, and pages that a sleeping kernel path keeps in a variable.  *)
References(f) ==
  {<<"pte", x>> : x \in {y \in Pages : pte[y] = f}}
    \cup {<<"dir", x>> : x \in {y \in Tables : pg_dir[y] = f}}
    \cup {<<"task", t>> : t \in {u \in Tasks : task_page[u] = f}}
    \cup {<<"page", t>> : t \in {u \in Tasks : page[u] = f}}

(* mem_map counts exactly the references to each page, through every fork, *)
(* fault, execve and exit and all their failures for lack of memory: no    *)
(* page leaks, none is freed while in use, free_page never panics.         *)
ReferenceCounts == \A f \in Frames : mem_map[f] = Cardinality(References(f))

(* A page that can be written through a page table has no second user;     *)
(* page tables, task structures and pages being loaded have none either.   *)
WritableIsPrivate ==
  /\ \A x \in Pages : rw[x] => mem_map[pte[x]] = 1
  /\ \A x \in Tables : pg_dir[x] # NoPage => mem_map[pg_dir[x]] = 1
  /\ \A t \in Tasks : /\ task_page[t] # NoPage => mem_map[task_page[t]] = 1
                      /\ page[t] # NoPage => mem_map[page[t]] = 1

Lives(t) == pc[t] \in {"user", "load", "read", "args"}

(* What t sees at a mapped address changes only if t itself writes there   *)
(* through a writable entry: no other task's write shows through a shared  *)
(* page, and copying a page on write is invisible (do_wp_page: "It is done *)
(* by copying the page to a new address").                                 *)
PagesStable ==
  [][\A t \in Tasks, a \in Addrs :
       /\ Lives(t) /\ Lives(t)' /\ pte[<<t, a>>] # NoPage
       /\ data'[pte'[<<t, a>>]] # data[pte[<<t, a>>]]
       => pte'[<<t, a>>] = pte[<<t, a>>] /\ rw[<<t, a>>] /\ dirty'[<<t, a>>]]_vars

(* fork "copies the data segment in it's entirety": the child starts with  *)
(* exactly what the father has mapped, and later writes of either (see     *)
(* PagesStable) stay its own.                                              *)
ForkCopies ==
  [][\A u \in Tasks : pc[u] = "none" /\ pc'[u] = "user" =>
       \E t \in Tasks \ {u} :
         /\ executable'[u] = executable[t]
         /\ \A a \in Addrs :
              IF pte[<<t, a>>] = NoPage THEN pte'[<<u, a>>] = NoPage
              ELSE pte'[<<u, a>>] # NoPage /\ data'[pte'[<<u, a>>]] = data[pte[<<t, a>>]]]_vars

(* A page of the executable that is touched for the first time holds the   *)
(* executable's contents, whether it is read or shared ("checks the page   *)
(* [...] to see if it exists, and if it is clean. If so, share it").       *)
FirstTouch ==
  [][\A t \in Tasks, a \in ImageAddrs :
       Lives(t) /\ Lives(t)' /\ pte[<<t, a>>] = NoPage /\ pte'[<<t, a>>] # NoPage
         => data'[pte'[<<t, a>>]] = ImageOf(executable[t], a)]_vars
=============================================================================
