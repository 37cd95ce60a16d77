----------------------------- MODULE InodeProofs ----------------------------
(***************************************************************************)
(* Proofs about Inode: its types, that no inode is in the table twice,     *)
(* that i_count counts the users, that unused entries are clean, that no   *)
(* change is lost and no sleeper forgotten, for any number of processes,   *)
(* entries and inodes.                                                     *)
(***************************************************************************)
EXTENDS Inode, FiniteSetTheorems, TLAPS

Breads == {"read_bread", "write_bread"}

(* What the label of a process says of its local variables. *)
Local ==
  \A p \in Procs :
    /\ empty[p] # NoEntry <=> pc[p] \in {"scan", "found_wait"}
    /\ pc[p] \notin {"user", "empty", "scan"} => inode[p] # NoEntry
    /\ pc[p] \in {"empty", "scan", "found_wait", "read_bread"} => key[p] \in Keys
    /\ pc[p] \in {"put_wait", "put_again", "truncate"} => op[p] = "iput"
    /\ pc[p] \in {"sync", "sync_next"} => op[p] = "sync"
    /\ pc[p] = "write_bread" => op[p] \in {"iput", "sync"}

(* i_count counts the references. *)
Count == \A e \in Entries : i_count[e] = Cardinality({p \in Procs : Refers(p, e)})

(* An entry in use stays with its inode. *)
Keyed == \A p \in Procs : \A e \in Entries :
           inode[p] = e /\ Refers(p, e) => i_key[e] \in {key[p], NoKey}

(* A process that reads or writes an inode has it locked, alone, and one   *)
(* that reads it is its only user and will find the latest contents.       *)
Locked ==
  /\ \A p \in Procs : pc[p] \in Breads => i_lock[inode[p]]
  /\ \A p, q \in Procs : pc[p] \in Breads /\ pc[q] \in Breads /\ inode[p] = inode[q] => p = q
  /\ \A p \in Procs : pc[p] = "read_bread" =>
       i_key[inode[p]] = key[p] /\ i_count[inode[p]] = 1 /\ disk_cur[key[p]]

(* The spare entry of iget belongs to no inode and to nobody else. *)
Spare ==
  \A p \in Procs : empty[p] # NoEntry =>
    i_key[empty[p]] = NoKey /\ i_count[empty[p]] = 1 /\ ~i_lock[empty[p]]

(* An entry has the latest contents of its inode, unless it is being read. *)
Current ==
  \A e \in Entries : i_key[e] # NoKey =>
    i_cur[e] \/ \E p \in Procs : pc[p] = "read_bread" /\ inode[p] = e

(* The latest contents are on the disk or in a dirty entry. *)
Kept ==
  \A k \in Keys : disk_cur[k] \/ \E e \in Entries : i_key[e] = k /\ i_dirt[e] /\ i_cur[e]

TableInv == Count /\ Keyed /\ Spare /\ UniqueInode
DataInv  == Locked /\ Current /\ Kept /\ UnusedIsClean

Inv == TypeOK /\ Local /\ TableInv /\ DataInv

-----------------------------------------------------------------------------
(* Counting.                                                               *)

One(b) == IF b THEN 1 ELSE 0

(* A finite set of which one element may come or go. *)
LEMMA CountChange ==
  ASSUME NEW S \in SUBSET Procs, NEW T \in SUBSET Procs, NEW p \in Procs,
         \A q \in Procs : q # p => (q \in S <=> q \in T)
  PROVE  Cardinality(T) = Cardinality(S) + One(p \in T) - One(p \in S)
<1>1. IsFiniteSet(S) /\ IsFiniteSet(T)
  BY ProcsAssumption, FS_Subset
<1>2. Cardinality(S) \in Nat /\ Cardinality(T) \in Nat
  BY <1>1, FS_CardinalityType
<1>3. CASE p \in S <=> p \in T
  <2>1. S = T
    BY <1>3
  <2> QED BY <1>2, <2>1 DEF One
<1>4. CASE p \in T /\ p \notin S
  <2>1. T = S \cup {p}
    BY <1>4
  <2>2. Cardinality(T) = Cardinality(S) + 1
    BY <1>1, <1>4, <2>1, FS_AddElement
  <2> QED BY <1>2, <1>4, <2>2 DEF One
<1>5. CASE p \notin T /\ p \in S
  <2>1. S = T \cup {p}
    BY <1>5
  <2>2. Cardinality(S) = Cardinality(T) + 1
    BY <1>1, <1>5, <2>1, FS_AddElement
  <2> QED BY <1>2, <1>5, <2>2 DEF One
<1> QED BY <1>3, <1>4, <1>5

(* A step of p changes only its own references. *)
LEMMA CountStep ==
  ASSUME Count, NEW p \in Procs,
         \A q \in Procs, e \in Entries : q # p => (Refers(q, e)' <=> Refers(q, e)),
         \A e \in Entries : i_count'[e] = i_count[e] + One(Refers(p, e)') - One(Refers(p, e))
  PROVE  Count'
<1> SUFFICES ASSUME NEW e \in Entries
             PROVE  i_count'[e] = Cardinality({q \in Procs : Refers(q, e)'})
  BY DEF Count
<1> DEFINE S == {q \in Procs : Refers(q, e)}
           T == {q \in Procs : Refers(q, e)'}
<1>1. /\ \A q \in Procs : q # p => (q \in S <=> q \in T)
      /\ p \in S <=> Refers(p, e)
      /\ p \in T <=> Refers(p, e)'
  OBVIOUS
<1>2. One(p \in T) = One(Refers(p, e)') /\ One(p \in S) = One(Refers(p, e))
  BY <1>1 DEF One
<1>3. i_count[e] = Cardinality(S)
  BY DEF Count
<1> HIDE DEF S, T
<1>4. S \in SUBSET Procs /\ T \in SUBSET Procs
  BY DEF S, T
<1>5. Cardinality(T) = Cardinality(S) + One(p \in T) - One(p \in S)
  BY <1>1, <1>4, CountChange
<1> QED BY <1>2, <1>3, <1>5 DEF T

(* A reference makes the count positive, two of them more than one. *)
LEMMA Referred ==
  ASSUME Count, NEW p \in Procs, NEW e \in Entries, Refers(p, e)
  PROVE  /\ i_count[e] \in Nat /\ i_count[e] >= 1
         /\ i_count[e] = 1 => \A q \in Procs : Refers(q, e) => q = p
<1> DEFINE S == {q \in Procs : Refers(q, e)}
<1>1. i_count[e] = Cardinality(S) /\ p \in S
  BY DEF Count
<1>2. IsFiniteSet(S)
  BY ProcsAssumption, FS_Subset
<1>3. Cardinality(S) \in Nat /\ Cardinality(S) # 0
  BY <1>1, <1>2, FS_CardinalityType, FS_EmptySet
<1>4. ASSUME Cardinality(S) = 1, NEW q \in Procs, Refers(q, e) PROVE q = p
  <2>1. PICK x : S = {x}
    BY <1>2, <1>4, FS_Singleton
  <2> QED BY <1>1, <1>4, <2>1
<1> QED BY <1>1, <1>3, <1>4

(* An entry with count 0 is nobody's. *)
LEMMA NotReferred ==
  ASSUME Count, NEW e \in Entries, i_count[e] = 0
  PROVE  \A p \in Procs : ~Refers(p, e)
BY Referred

-----------------------------------------------------------------------------
(* Types and local variables.                                              *)

LEMMA InvInit == Init => Inv
<1> SUFFICES ASSUME Init PROVE Inv
  OBVIOUS
<1>1. TypeOK
  BY TableAssumption, BoundsAssumption DEF Init, TypeOK, Labels, NoEntry
<1>2. Local
  BY DEF Init, Local
<1>3. \A p \in Procs, e \in Entries : ~Refers(p, e)
  BY DEF Init, Refers, Entries, NoEntry
<1>4. Count
  <2> SUFFICES ASSUME NEW e \in Entries PROVE i_count[e] = Cardinality({p \in Procs : Refers(p, e)})
    BY DEF Count
  <2>1. {p \in Procs : Refers(p, e)} = {}
    BY <1>3
  <2> QED BY <2>1, FS_EmptySet DEF Init
<1>5. TableInv
  BY <1>3, <1>4 DEF Init, TableInv, Keyed, Spare, UniqueInode
<1>6. DataInv
  BY DEF Init, DataInv, Locked, Current, Kept, UnusedIsClean, Unused, Breads
<1> QED BY <1>1, <1>2, <1>5, <1>6 DEF Inv

(* The part of TypeOK that concerns the wait queues. *)
CpuOK == /\ i_wait \in [Entries -> Procs \cup {Nobody}]
         /\ state \in [Procs -> {TASK_RUNNING, TASK_UNINTERRUPTIBLE}]
         /\ tmp \in [Procs -> Procs \cup {Nobody}] /\ current \in Procs \cup {Nobody}

LEMMA CpuTypes ==
  ASSUME TypeOK, NEW p \in Procs, NEW e \in Entries
  PROVE  /\ wake_up(e) => /\ i_wait' \in [Entries -> Procs \cup {Nobody}]
                          /\ state' \in [Procs -> {TASK_RUNNING, TASK_UNINTERRUPTIBLE}]
         /\ sleep_on(p, e) => CpuOK'
         /\ WakeNext(p) \in [Procs -> {TASK_RUNNING, TASK_UNINTERRUPTIBLE}]
<1>1. CpuOK
  BY DEF TypeOK, CpuOK
<1>2. wake_up(e) => /\ i_wait' \in [Entries -> Procs \cup {Nobody}]
                    /\ state' \in [Procs -> {TASK_RUNNING, TASK_UNINTERRUPTIBLE}]
  BY <1>1 DEF CpuOK, wake_up
<1>3. sleep_on(p, e) => CpuOK'
  BY <1>1 DEF CpuOK, sleep_on
<1>4. WakeNext(p) \in [Procs -> {TASK_RUNNING, TASK_UNINTERRUPTIBLE}]
  BY <1>1 DEF CpuOK, WakeNext
<1> QED BY <1>2, <1>3, <1>4

LEMMA NoSuchEntry == NoEntry \notin Entries /\ NoKey \notin Keys
BY KeysAssumption DEF Entries, NoEntry, NoKey

(* A process that is somewhere in a call with an entry. *)
LEMMA HasEntry ==
  ASSUME TypeOK, Local, NEW p \in Procs, pc[p] \notin {"user", "empty", "scan"} \/ inode[p] # NoEntry
  PROVE  inode[p] \in Entries
BY DEF TypeOK, Local

(* A walk over the table goes on, or ends. *)
LEMMA StepTypes ==
  ASSUME TypeOK, NEW p \in Procs, NEW l \in Labels, inode[p] \in Entries, Step(p, l)
  PROVE  /\ inode' \in [Procs -> Entries \cup {NoEntry}] /\ current' \in Procs \cup {Nobody}
         /\ key' \in [Procs -> Keys \cup {NoKey} \cup (Removable \X {0})]
         /\ op' \in [Procs -> {"none", "iget", "iput", "sync", "invalidate"}]
         /\ pc' \in [Procs -> Labels]
<1>1. "user" \in Labels
  BY DEF Labels
<1>2. CASE MoreEntries(p)
  <2>1. inode[p] + 1 \in Entries
    BY <1>2, TableAssumption DEF MoreEntries, Entries
  <2> QED BY <1>2, <2>1 DEF Step, TypeOK, Goto
<1>3. CASE ~MoreEntries(p)
  <2>1. /\ inode' = [inode EXCEPT ![p] = NoEntry] /\ key' = [key EXCEPT ![p] = NoKey]
        /\ op' = [op EXCEPT ![p] = "none"] /\ current' = Nobody
        /\ pc' = [pc EXCEPT ![p] = "user"]
    BY <1>3 DEF Step, Return, Goto
  <2> QED BY <1>1, <2>1 DEF TypeOK
<1> QED BY <1>2, <1>3

(* iget takes one reference and gives one back. *)
LEMMA MoreUser ==
  ASSUME TypeOK, NEW p \in Procs, inode[p] \in Entries, empty[p] \in Entries, i_count[empty[p]] = 1
  PROVE  /\ OneMoreUser(p) \in [Entries -> Nat]
         /\ \A e \in Entries : OneMoreUser(p)[e]
                                = i_count[e] + One(e = inode[p]) - One(e = empty[p])
<1> DEFINE a == inode[p]
           b == empty[p]
           g == [i_count EXCEPT ![a] = @ + 1]
<1>0. i_count \in [Entries -> Nat]
  BY DEF TypeOK
<1>1. OneMoreUser(p) = [g EXCEPT ![b] = g[b] - 1]
  BY DEF OneMoreUser
<1>2. g \in [Entries -> Nat] /\ \A e \in Entries : g[e] = i_count[e] + One(e = a)
  BY <1>0 DEF One
<1>3. g[b] - 1 \in Nat
  BY <1>2 DEF One
<1> HIDE DEF g
<1>4. [g EXCEPT ![b] = g[b] - 1] \in [Entries -> Nat]
  BY <1>2, <1>3
<1>5. \A e \in Entries : [g EXCEPT ![b] = g[b] - 1][e] = g[e] - One(e = b)
  BY <1>2 DEF One
<1>6. \A e \in Entries : i_count[e] \in Nat /\ One(e = a) \in Nat /\ One(e = b) \in Nat
  BY DEF One, TypeOK
<1> QED BY <1>1, <1>2, <1>4, <1>5, <1>6

(* The entry of a process that gives its inode back is counted. *)
LEMMA GivenCount ==
  ASSUME Inv, NEW p \in Procs, pc[p] \in {"user", "put_wait", "put_again", "truncate"},
         inode[p] # NoEntry
  PROVE  inode[p] \in Entries /\ Refers(p, inode[p]) /\ i_count[inode[p]] \in Nat /\ i_count[inode[p]] >= 1
<1>1. inode[p] \in Entries /\ Refers(p, inode[p])
  BY DEF Inv, TypeOK, Refers
<1> QED BY <1>1, Referred DEF Inv, TableInv

LEMMA TypeNext ==
  ASSUME Inv, NEW p \in Procs, Call(p) \/ Kernel(p) \/ Resume(p)
  PROVE  TypeOK'
<1> USE DEF Goto, tabVars, lockVars, cpuVars, callVars, dataVars
<1>a. pc[p] \notin {"user", "empty", "scan"} \/ inode[p] # NoEntry => inode[p] \in Entries
  BY HasEntry DEF Inv
<1>b. empty[p] # NoEntry => empty[p] \in Entries
  BY DEF Inv, TypeOK
<1>c. /\ \A e \in Entries : wake_up(e) =>
           /\ i_wait' \in [Entries -> Procs \cup {Nobody}]
           /\ state' \in [Procs -> {TASK_RUNNING, TASK_UNINTERRUPTIBLE}]
      /\ \A e \in Entries : sleep_on(p, e) => CpuOK'
      /\ WakeNext(p) \in [Procs -> {TASK_RUNNING, TASK_UNINTERRUPTIBLE}]
  <2>1. TypeOK /\ 1 \in Entries
    BY TableAssumption DEF Inv, Entries
  <2> QED BY <2>1, CpuTypes
<1>1. ASSUME wait_on_inode(p) PROVE TypeOK'
  BY <1>1, <1>a, <1>b, <1>c
     DEF wait_on_inode, CpuOK, Inv, TypeOK, Labels, Waiting, Local, NoEntry, Entries
<1>2. ASSUME Resume(p) PROVE TypeOK'
  BY <1>2, <1>a, <1>b, <1>c
     DEF Resume, Inv, TypeOK, Labels, Waiting, Local, NoEntry, Entries
<1>3. ASSUME EmptyLoops(p) PROVE TypeOK'
  BY <1>3, <1>a, <1>b, <1>c
     DEF EmptyLoops, Inv, TypeOK, Labels, Waiting, Local, NoEntry, Entries
<1>4. ASSUME FreeInUse(p) PROVE TypeOK'
  BY <1>4, <1>a, <1>b, <1>c
     DEF FreeInUse, Inv, TypeOK, Labels, Waiting, Local, NoEntry, Entries
<1>5. ASSUME Iget(p) PROVE TypeOK'
  BY <1>5, <1>a, <1>b, <1>c, BoundsAssumption
     DEF Iget, Inv, TypeOK, Labels, Waiting, Local, NoEntry, Entries
<1>6. ASSUME ScanFound(p) PROVE TypeOK'
  BY <1>6, <1>a, <1>b, <1>c
     DEF ScanFound, Runs, Entry, Inv, TypeOK, Labels, Waiting, Local, NoEntry, Entries
<1>7. ASSUME FoundChanged(p) PROVE TypeOK'
  BY <1>7, <1>a, <1>b, <1>c
     DEF FoundChanged, Unlocked, Runs, Inv, TypeOK, Labels, Waiting, Local, NoEntry, Entries
<1>8. ASSUME Iput(p) PROVE TypeOK'
  BY <1>8, <1>a, <1>b, <1>c
     DEF Iput, Inv, TypeOK, Labels, Waiting, Local, NoEntry, Entries
<1>9. ASSUME PutUnlinked(p) PROVE TypeOK'
  BY <1>9, <1>a, <1>b, <1>c
     DEF PutUnlinked, Repeat, Unlocked, Runs, Inv, TypeOK, Labels, Waiting, Local, NoEntry, Entries
<1>10. ASSUME Sync(p) PROVE TypeOK'
  BY <1>10, <1>a, <1>b, <1>c, BoundsAssumption, TableAssumption
     DEF Sync, StartWalk, Walks, Inv, TypeOK, Labels, Waiting, Local, NoEntry, Entries
<1>11. ASSUME Invalidate(p) PROVE TypeOK'
  BY <1>11, <1>a, <1>b, <1>c, BoundsAssumption, TableAssumption
     DEF Invalidate, StartWalk, Walks, Inv, TypeOK, Labels, Waiting, Local, NoEntry, Entries
<1>12. ASSUME SyncNext(p) PROVE TypeOK'
  <2>1. Step(p, "sync") /\ inode[p] \in Entries /\ TypeOK /\ "sync" \in Labels
    BY <1>12, <1>a DEF SyncNext, Unlocked, Runs, Inv, Labels, Waiting
  <2> QED BY <1>12, <2>1, StepTypes DEF SyncNext, TypeOK
<1>13. ASSUME PutDirty(p) PROVE TypeOK'
  BY <1>13, <1>a, <1>b, <1>c
     DEF PutDirty, WriteLock, Repeat, Unlocked, Runs, Inv, TypeOK, Labels, Waiting, Local, NoEntry, Entries
<1>14. ASSUME SyncDirty(p) PROVE TypeOK'
  BY <1>14, <1>a, <1>b, <1>c
     DEF SyncDirty, WriteLock, Unlocked, Runs, Inv, TypeOK, Labels, Waiting, Local, NoEntry, Entries
<1>15. ASSUME EmptyFound(p) PROVE TypeOK'
  BY <1>15, <1>a, <1>b, <1>c
     DEF EmptyFound, Clear, Clean, Unused, Runs, Inv, TypeOK, Labels, Waiting, Local, NoEntry, Entries
<1>16. ASSUME Found(p) PROVE TypeOK'
  <2>1. inode[p] \in Entries /\ empty[p] \in Entries /\ i_count[empty[p]] = 1
    BY <1>16, <1>a, <1>b DEF Found, Unlocked, Runs, Inv, Local, TableInv, Spare
  <2>2. i_count' \in [Entries -> Nat]
    BY <1>16, <2>1, MoreUser DEF Found, Inv
  <2> QED BY <1>16, <2>1, <2>2 DEF Found, Return, Inv, TypeOK, Labels
<1>17. ASSUME ScanMissed(p) PROVE TypeOK'
  BY <1>17, <1>a, <1>b, <1>c
     DEF ScanMissed, Runs, Inv, TypeOK, Labels, Waiting, Local, NoEntry, Entries
<1>18. ASSUME read_inode(p) PROVE TypeOK'
  BY <1>18, <1>a, <1>b, <1>c
     DEF read_inode, Unlock, Return, Runs, Inv, TypeOK, Labels, Waiting, Local, NoEntry, Entries
<1>19. ASSUME write_inode(p) PROVE TypeOK'
  BY <1>19, <1>a, <1>b, <1>c
     DEF write_inode, Unlock, Copy, Caller, Runs, Inv, TypeOK, Labels, Waiting, Local, NoEntry, Entries
<1>20. ASSUME PutRemoved(p) PROVE TypeOK'
  BY <1>20, <1>a, <1>b, <1>c
     DEF PutRemoved, Given, Return, Unlocked, Runs, Inv, TypeOK, Labels, Waiting, Local, NoEntry, Entries
<1>21. ASSUME PutShared(p) PROVE TypeOK'
  <2>1. Given(p) /\ pc[p] \in {"put_wait", "put_again"} /\ inode[p] # NoEntry
    BY <1>21 DEF PutShared, Repeat, Unlocked, Runs, Inv, Local
  <2>2. i_count[inode[p]] - 1 \in Nat /\ inode[p] \in Entries
    BY <2>1, GivenCount
  <2> QED BY <2>1, <2>2 DEF Given, Return, Inv, TypeOK, Labels
<1>22. ASSUME PutClean(p) PROVE TypeOK'
  <2>1. Given(p) /\ pc[p] \in {"put_wait", "put_again"} /\ inode[p] # NoEntry
    BY <1>22 DEF PutClean, Repeat, Unlocked, Runs, Inv, Local
  <2>2. i_count[inode[p]] - 1 \in Nat /\ inode[p] \in Entries
    BY <2>1, GivenCount
  <2> QED BY <2>1, <2>2 DEF Given, Return, Inv, TypeOK, Labels
<1>23. ASSUME FreeInode(p) PROVE TypeOK'
  BY <1>23, <1>a, <1>b, <1>c
     DEF FreeInode, Clear, Return, Runs, Inv, TypeOK, Labels, Waiting, Local, NoEntry, Entries
<1>24. ASSUME InvalidateNext(p) PROVE TypeOK'
  <2>1. Step(p, "invalidate") /\ inode[p] \in Entries /\ TypeOK /\ "invalidate" \in Labels
    BY <1>24, <1>a DEF InvalidateNext, Unlocked, Runs, Inv, Labels, Waiting
  <2>2. /\ i_key' \in [Entries -> Keys \cup {NoKey}] /\ i_dirt' \in [Entries -> BOOLEAN]
        /\ disk_cur' \in [Keys -> BOOLEAN] /\ d_time' \in [Keys -> BOOLEAN]
        /\ unmarked' \subseteq Keys
    BY <1>24, <2>1 DEF InvalidateNext, TypeOK
  <2> QED BY <1>24, <2>1, <2>2, StepTypes DEF InvalidateNext, TypeOK
<1>25. ASSUME Change(p) PROVE TypeOK'
  BY <1>25, <1>a, <1>b, <1>c
     DEF Change, Latest, Holds, Inv, TypeOK, Labels, Waiting, Local, NoEntry, Entries
<1>26. ASSUME Unlink(p) PROVE TypeOK'
  BY <1>26, <1>a, <1>b, <1>c
     DEF Unlink, Latest, Holds, Inv, TypeOK, Labels, Waiting, Local, NoEntry, Entries
<1>27. ASSUME Stamp(p) PROVE TypeOK'
  <2>1. /\ i_mtime' \in [Entries -> BOOLEAN] /\ d_time' \in [Keys -> BOOLEAN]
        /\ unmarked' \subseteq Keys
    BY <1>27 DEF Stamp, Inv, TypeOK
  <2>2. budget' \in 0 .. MaxOps
    BY <1>27, BoundsAssumption DEF Stamp, Inv, TypeOK
  <2> QED BY <1>27, <2>1, <2>2 DEF Stamp, Inv, TypeOK
<1> QED BY <1>1, <1>2, <1>3, <1>4, <1>5, <1>6, <1>7, <1>8, <1>9, <1>10, <1>11, <1>12, <1>13, <1>14, <1>15, <1>16, <1>17, <1>18, <1>19, <1>20, <1>21, <1>22, <1>23, <1>24, <1>25, <1>26, <1>27
        DEF Call, Kernel, get_empty_inode, iget, iput, sync_inodes

LEMMA LocalNext ==
  ASSUME Inv, NEW p \in Procs, Call(p) \/ Kernel(p) \/ Resume(p)
  PROVE  Local'
<1> USE DEF Goto, tabVars, lockVars, cpuVars, callVars, dataVars
<1>a. pc[p] \notin {"user", "empty", "scan"} \/ inode[p] # NoEntry => inode[p] \in Entries
  BY HasEntry DEF Inv
<1>1. ASSUME wait_on_inode(p) PROVE Local'
  BY <1>1, <1>a
     DEF wait_on_inode, CpuOK, Inv, TypeOK, Labels, Waiting, Local, NoEntry, Entries
<1>2. ASSUME Resume(p) PROVE Local'
  BY <1>2, <1>a
     DEF Resume, Inv, TypeOK, Labels, Waiting, Local, NoEntry, Entries
<1>3. ASSUME EmptyLoops(p) PROVE Local'
  BY <1>3, <1>a
     DEF EmptyLoops, Inv, TypeOK, Labels, Waiting, Local, NoEntry, Entries
<1>4. ASSUME FreeInUse(p) PROVE Local'
  BY <1>4, <1>a
     DEF FreeInUse, Inv, TypeOK, Labels, Waiting, Local, NoEntry, Entries
<1>5. ASSUME Iget(p) PROVE Local'
  BY <1>5, <1>a, BoundsAssumption
     DEF Iget, Inv, TypeOK, Labels, Waiting, Local, NoEntry, Entries
<1>6. ASSUME ScanFound(p) PROVE Local'
  BY <1>6, <1>a
     DEF ScanFound, Runs, Entry, Inv, TypeOK, Labels, Waiting, Local, NoEntry, Entries
<1>7. ASSUME FoundChanged(p) PROVE Local'
  BY <1>7, <1>a
     DEF FoundChanged, Unlocked, Runs, Inv, TypeOK, Labels, Waiting, Local, NoEntry, Entries
<1>8. ASSUME Iput(p) PROVE Local'
  BY <1>8, <1>a
     DEF Iput, Inv, TypeOK, Labels, Waiting, Local, NoEntry, Entries
<1>9. ASSUME PutUnlinked(p) PROVE Local'
  BY <1>9, <1>a
     DEF PutUnlinked, Repeat, Unlocked, Runs, Inv, TypeOK, Labels, Waiting, Local, NoEntry, Entries
<1>10. ASSUME Sync(p) PROVE Local'
  BY <1>10, <1>a, BoundsAssumption, TableAssumption
     DEF Sync, StartWalk, Walks, Inv, TypeOK, Labels, Waiting, Local, NoEntry, Entries
<1>11. ASSUME Invalidate(p) PROVE Local'
  BY <1>11, <1>a, BoundsAssumption, TableAssumption
     DEF Invalidate, StartWalk, Walks, Inv, TypeOK, Labels, Waiting, Local, NoEntry, Entries
<1>12. ASSUME SyncNext(p) PROVE Local'
  <2>1. /\ Step(p, "sync") /\ inode[p] \in Entries /\ pc[p] \in {"sync", "sync_next"}
        /\ UNCHANGED empty /\ NoEntry \notin Entries /\ inode[p] + 1 # NoEntry
    BY <1>12, <1>a DEF SyncNext, Unlocked, Runs, Entries, NoEntry
  <2>2. \A q \in Procs : q # p => pc'[q] = pc[q] /\ inode'[q] = inode[q] /\ key'[q] = key[q] /\ op'[q] = op[q]
    BY <2>1 DEF Step, Return, Inv, TypeOK
  <2>3. \/ pc'[p] = "sync" /\ inode'[p] # NoEntry /\ op'[p] = "sync"
        \/ pc'[p] = "user"
    <3>1. CASE MoreEntries(p)
      BY <2>1, <3>1 DEF Step, Inv, TypeOK, Local
    <3>2. CASE ~MoreEntries(p)
      BY <2>1, <3>2 DEF Step, Return, Inv, TypeOK
    <3> QED BY <3>1, <3>2
  <2> QED BY <2>1, <2>2, <2>3 DEF Inv, Local
<1>13. ASSUME PutDirty(p) PROVE Local'
  BY <1>13, <1>a
     DEF PutDirty, WriteLock, Repeat, Unlocked, Runs, Inv, TypeOK, Labels, Waiting, Local, NoEntry, Entries
<1>14. ASSUME SyncDirty(p) PROVE Local'
  BY <1>14, <1>a
     DEF SyncDirty, WriteLock, Unlocked, Runs, Inv, TypeOK, Labels, Waiting, Local, NoEntry, Entries
<1>15. ASSUME EmptyFound(p) PROVE Local'
  BY <1>15, <1>a
     DEF EmptyFound, Clear, Clean, Unused, Runs, Inv, TypeOK, Labels, Waiting, Local, NoEntry, Entries
<1>16. ASSUME Found(p) PROVE Local'
  BY <1>16, <1>a
     DEF Found, OneMoreUser, Return, Unlocked, Runs, Inv, TypeOK, Labels, Waiting, Local, NoEntry, Entries
<1>17. ASSUME ScanMissed(p) PROVE Local'
  BY <1>17, <1>a
     DEF ScanMissed, Runs, Inv, TypeOK, Labels, Waiting, Local, NoEntry, Entries
<1>18. ASSUME read_inode(p) PROVE Local'
  BY <1>18, <1>a
     DEF read_inode, Unlock, Return, Runs, Inv, TypeOK, Labels, Waiting, Local, NoEntry, Entries
<1>19. ASSUME write_inode(p) PROVE Local'
  BY <1>19, <1>a
     DEF write_inode, Unlock, Copy, Caller, Runs, Inv, TypeOK, Labels, Waiting, Local, NoEntry, Entries
<1>20. ASSUME PutRemoved(p) PROVE Local'
  BY <1>20, <1>a
     DEF PutRemoved, Given, Return, Unlocked, Runs, Inv, TypeOK, Labels, Waiting, Local, NoEntry, Entries
<1>21. ASSUME PutShared(p) PROVE Local'
  BY <1>21, <1>a
     DEF PutShared, Given, Return, Repeat, Unlocked, Runs, Inv, TypeOK, Labels, Waiting, Local, NoEntry, Entries
<1>22. ASSUME PutClean(p) PROVE Local'
  BY <1>22, <1>a
     DEF PutClean, Given, Return, Repeat, Unlocked, Runs, Inv, TypeOK, Labels, Waiting, Local, NoEntry, Entries
<1>23. ASSUME FreeInode(p) PROVE Local'
  BY <1>23, <1>a
     DEF FreeInode, Clear, Return, Runs, Inv, TypeOK, Labels, Waiting, Local, NoEntry, Entries
<1>24. ASSUME InvalidateNext(p) PROVE Local'
  BY <1>24, <1>a, TableAssumption
     DEF InvalidateNext, Step, Return, MoreEntries, Unlocked, Runs, Inv, TypeOK, Labels, Waiting, Local, NoEntry, Entries
<1>25. ASSUME Change(p) PROVE Local'
  BY <1>25, <1>a
     DEF Change, Latest, Holds, Inv, TypeOK, Labels, Waiting, Local, NoEntry, Entries
<1>26. ASSUME Unlink(p) PROVE Local'
  BY <1>26, <1>a
     DEF Unlink, Latest, Holds, Inv, TypeOK, Labels, Waiting, Local, NoEntry, Entries
<1>27. ASSUME Stamp(p) PROVE Local'
  BY <1>27, <1>a
     DEF Stamp, Holds, Inv, TypeOK, Labels, Waiting, Local, NoEntry, Entries
<1> QED BY <1>1, <1>2, <1>3, <1>4, <1>5, <1>6, <1>7, <1>8, <1>9, <1>10, <1>11, <1>12, <1>13, <1>14, <1>15, <1>16, <1>17, <1>18, <1>19, <1>20, <1>21, <1>22, <1>23, <1>24, <1>25, <1>26, <1>27
        DEF Call, Kernel, get_empty_inode, iget, iput, sync_inodes

-----------------------------------------------------------------------------
(* Steps.                                                                  *)

(* All but p keep their local variables. *)
Others(p) ==
  \A q \in Procs : q # p =>
    /\ pc'[q] = pc[q] /\ inode'[q] = inode[q] /\ key'[q] = key[q]
    /\ op'[q] = op[q] /\ empty'[q] = empty[q]

LEMMA OthersRefer ==
  ASSUME NEW p \in Procs, Others(p)
  PROVE  \A q \in Procs, e \in Entries : q # p => (Refers(q, e)' <=> Refers(q, e))
BY DEF Others, Refers

(* A process goes on without touching the table. *)
LEMMA QuietStep ==
  ASSUME Inv, NEW p \in Procs, Others(p),
         UNCHANGED <<i_key, i_count, i_lock, i_dirt, i_cur, disk_cur, empty>>,
         pc[p] \notin Breads, pc'[p] \notin Breads,
         \A e \in Entries : Refers(p, e)' <=> Refers(p, e),
         \A e \in Entries : inode'[p] = e /\ Refers(p, e) => i_key[e] \in {key'[p], NoKey}
  PROVE  TableInv' /\ DataInv'
<1>1. Count'
  <2>1. \A e \in Entries : i_count'[e] = i_count[e] + One(Refers(p, e)') - One(Refers(p, e))
    <3>1. i_count \in [Entries -> Nat]
      BY DEF Inv, TypeOK
    <3> QED BY <3>1 DEF One
  <2> QED BY <2>1, CountStep, OthersRefer DEF Inv, TableInv
<1>2. Keyed'
  <2> SUFFICES ASSUME NEW q \in Procs, NEW e \in Entries, inode'[q] = e, Refers(q, e)'
               PROVE  i_key'[e] \in {key'[q], NoKey}
    BY DEF Keyed
  <2>1. CASE q = p
    BY <2>1
  <2>2. CASE q # p
    BY <2>2, OthersRefer DEF Others, Inv, TableInv, Keyed
  <2> QED BY <2>1, <2>2
<1>3. Spare' /\ UniqueInode'
  BY DEF Inv, TableInv, Spare, UniqueInode
<1>4. Locked'
  <2>1. \A q \in Procs : pc'[q] \in Breads =>
          q # p /\ pc'[q] = pc[q] /\ inode'[q] = inode[q] /\ key'[q] = key[q]
    BY DEF Others
  <2> QED BY <2>1 DEF Inv, DataInv, Locked, Breads
<1>5. Current'
  <2> SUFFICES ASSUME NEW e \in Entries, i_key[e] # NoKey, ~i_cur[e]
               PROVE  \E q \in Procs : pc'[q] = "read_bread" /\ inode'[q] = e
    BY DEF Current
  <2>1. PICK q \in Procs : pc[q] = "read_bread" /\ inode[q] = e
    BY DEF Inv, DataInv, Current
  <2> QED BY <2>1 DEF Others, Breads
<1>6. Kept' /\ UnusedIsClean'
  BY DEF Inv, DataInv, Kept, UnusedIsClean, Unused
<1> QED BY <1>1, <1>2, <1>3, <1>4, <1>5, <1>6 DEF TableInv, DataInv

(* A step that changes neither the table nor local variables. *)
LEMMA StillStep ==
  ASSUME Inv, UNCHANGED <<i_key, i_count, i_lock, i_dirt, i_cur, disk_cur>>,
         UNCHANGED <<empty, pc, inode, key, op>>
  PROVE  TableInv' /\ DataInv'
<1>1. \A q \in Procs, e \in Entries : Refers(q, e)' <=> Refers(q, e)
  BY DEF Refers
<1>2. Count'
  BY <1>1 DEF Inv, TableInv, Count
<1>3. Keyed' /\ Spare' /\ UniqueInode'
  BY <1>1 DEF Inv, TableInv, Keyed, Spare, UniqueInode
<1>4. Locked' /\ Current' /\ Kept' /\ UnusedIsClean'
  BY DEF Inv, DataInv, Locked, Current, Kept, UnusedIsClean, Unused
<1> QED BY <1>2, <1>3, <1>4 DEF TableInv, DataInv

LEMMA QuietActions ==
  ASSUME Inv, NEW p \in Procs,
         \/ wait_on_inode(p) \/ Resume(p) \/ EmptyLoops(p) \/ FreeInUse(p)
         \/ Iget(p) \/ ScanFound(p) \/ FoundChanged(p) \/ Iput(p) \/ PutUnlinked(p)
         \/ Sync(p) \/ Invalidate(p) \/ SyncNext(p) \/ Stamp(p)
  PROVE  TableInv' /\ DataInv'
<1> USE DEF Goto, tabVars, lockVars, cpuVars, callVars, dataVars
<1>a. /\ pc \in [Procs -> Labels] /\ inode \in [Procs -> Entries \cup {NoEntry}]
      /\ DOMAIN key = Procs /\ DOMAIN op = Procs /\ NoEntry \notin Entries
  BY NoSuchEntry DEF Inv, TypeOK
<1>1. CASE wait_on_inode(p) \/ Resume(p) \/ EmptyLoops(p) \/ FreeInUse(p) \/ Stamp(p)
  BY <1>1, StillStep DEF wait_on_inode, Resume, EmptyLoops, FreeInUse, Stamp
<1> DEFINE Table == UNCHANGED <<i_key, i_count, i_lock, i_dirt, i_cur, disk_cur, empty>>
           Away == pc[p] \notin Breads /\ pc'[p] \notin Breads
           Refs == \A e \in Entries : Refers(p, e)' <=> Refers(p, e)
           Keys1 == \A e \in Entries : inode'[p] = e /\ Refers(p, e) => i_key[e] \in {key'[p], NoKey}
<1>2. ASSUME Iget(p) PROVE Table /\ Away /\ Refs /\ Keys1 /\ Others(p)
  BY <1>2, <1>a DEF Iget, Inv, Local, Refers, Others, Breads
<1>3. ASSUME ScanFound(p) PROVE Table /\ Away /\ Refs /\ Keys1 /\ Others(p)
  <2>1. pc[p] = "scan" /\ pc' = [pc EXCEPT ![p] = "found_wait"] /\ UNCHANGED <<op, key, empty>>
    BY <1>3 DEF ScanFound, Runs
  <2>2. Table /\ Away /\ Others(p)
    BY <1>3, <1>a DEF ScanFound, Runs, Breads, Others
  <2>3. \A e \in Entries : Refers(p, e) <=> empty[p] = e
    BY <2>1 DEF Refers
  <2>4. Refs
    BY <1>a, <2>1, <2>3 DEF Refers
  <2>5. Keys1
    BY <1>a, <2>3 DEF Inv, TableInv, Spare
  <2> QED BY <2>2, <2>4, <2>5
<1>4. ASSUME FoundChanged(p) PROVE Table /\ Away /\ Refs /\ Keys1 /\ Others(p)
  BY <1>4, <1>a DEF FoundChanged, Unlocked, Runs, Inv, TableInv, Keyed, Refers, Others, Breads
<1>5. ASSUME Iput(p) PROVE Table /\ Away /\ Refs /\ Keys1 /\ Others(p)
  BY <1>5, <1>a DEF Iput, Inv, TableInv, Keyed, Refers, Others, Breads
<1>6. ASSUME PutUnlinked(p) PROVE Table /\ Away /\ Refs /\ Keys1 /\ Others(p)
  BY <1>6, <1>a DEF PutUnlinked, Repeat, Unlocked, Runs, Inv, TableInv, Keyed, Refers, Others,
                    Breads
<1>7. ASSUME Sync(p) PROVE Table /\ Away /\ Refs /\ Keys1 /\ Others(p)
  BY <1>7, <1>a DEF Sync, StartWalk, Walks, Inv, Local, Refers, Others, Breads
<1>8. ASSUME Invalidate(p) PROVE Table /\ Away /\ Refs /\ Keys1 /\ Others(p)
  BY <1>8, <1>a DEF Invalidate, StartWalk, Walks, Inv, Local, Refers, Others, Breads
<1>9. ASSUME SyncNext(p) PROVE Table /\ Away /\ Refs /\ Keys1 /\ Others(p)
  <2>1. /\ pc[p] \in {"sync", "sync_next"} /\ empty[p] = NoEntry /\ Table /\ Step(p, "sync")
        /\ op[p] = "sync"
    BY <1>9 DEF SyncNext, Unlocked, Runs, Inv, Local
  <2>2. Others(p)
    BY <1>a, <2>1 DEF Step, Return, Others
  <2>3. pc'[p] = "sync" \/ (pc'[p] = "user" /\ inode'[p] = NoEntry)
    BY <1>a, <2>1 DEF Step, Return
  <2> QED BY <1>a, <2>1, <2>2, <2>3 DEF Refers, Breads
<1> HIDE DEF Table, Away, Refs, Keys1
<1>10. Table /\ Away /\ Refs /\ Keys1 /\ Others(p) => TableInv' /\ DataInv'
  BY QuietStep DEF Table, Away, Refs, Keys1
<1> QED BY <1>1, <1>2, <1>3, <1>4, <1>5, <1>6, <1>7, <1>8, <1>9, <1>10

(* A spare entry is used only by its owner, and so is an inode that is     *)
(* being read.                                                             *)
LEMMA Alone ==
  ASSUME Inv, NEW p \in Procs, NEW q \in Procs, p # q, NEW e \in Entries, Refers(p, e)
  PROVE  /\ empty[q] # e
         /\ ~(pc[q] = "read_bread" /\ inode[q] = e)
<1>1. ASSUME i_count[e] = 1, Refers(q, e) PROVE FALSE
  BY <1>1, Referred DEF Inv, TableInv
<1>2. empty[q] # e
  BY <1>1, NoSuchEntry DEF Inv, TableInv, Spare, Refers
<1>3. ~(pc[q] = "read_bread" /\ inode[q] = e)
  BY <1>1 DEF Inv, DataInv, Locked, Refers
<1> QED BY <1>2, <1>3

(* write_inode takes the lock, for iput or for sync_inodes. *)
LEMMA WriteLockStep ==
  ASSUME Inv, NEW p \in Procs, PutDirty(p) \/ SyncDirty(p)
  PROVE  TableInv' /\ DataInv'
<1> USE DEF Goto, tabVars, lockVars, cpuVars, callVars, dataVars
<1> DEFINE e == inode[p]
<1>1. /\ UNCHANGED <<i_key, i_count, i_dirt, i_cur, disk_cur, op, key, inode, empty>>
      /\ i_lock' = [i_lock EXCEPT ![e] = TRUE] /\ pc' = [pc EXCEPT ![p] = "write_bread"]
      /\ ~i_lock[e] /\ i_dirt[e] /\ pc[p] \in {"put_wait", "put_again", "sync"}
  BY DEF PutDirty, SyncDirty, WriteLock, Repeat, Unlocked, Runs
<1>2. /\ e \in Entries /\ i_lock \in [Entries -> BOOLEAN] /\ pc \in [Procs -> Labels]
      /\ i_count \in [Entries -> Nat] /\ empty[p] = NoEntry
      /\ pc[p] = "sync" => op[p] = "sync"
      /\ pc[p] # "sync" => op[p] = "iput"
  BY <1>1, HasEntry DEF Inv, TypeOK, Local
<1>3. Others(p)
  BY <1>1, <1>2 DEF Others
<1>4. \A f \in Entries : Refers(p, f)' <=> Refers(p, f)
  BY <1>1, <1>2 DEF Refers
<1>5. Count'
  <2>1. \A f \in Entries : i_count'[f] = i_count[f] + One(Refers(p, f)') - One(Refers(p, f))
    BY <1>1, <1>2, <1>4 DEF One
  <2> QED BY <1>3, <2>1, CountStep, OthersRefer DEF Inv, TableInv
<1>6. Keyed'
  BY <1>1, <1>3, <1>4, OthersRefer DEF Inv, TableInv, Keyed
<1>7. i_count[e] # 0 /\ \A q \in Procs : empty[q] # e
  <2>1. CASE pc[p] # "sync"
    <3>1. Refers(p, e)
      BY <1>1, <2>1 DEF Refers
    <3>2. \A q \in Procs : empty[q] # e
      BY <1>2, <3>1, Alone, NoSuchEntry
    <3> QED BY <1>2, <3>1, <3>2, Referred DEF Inv, TableInv
  <2>2. CASE pc[p] = "sync"
    <3>1. i_key[e] # NoKey
      BY <2>2 DEF PutDirty, SyncDirty, Repeat, Unlocked, Runs
    <3>2. \A q \in Procs : empty[q] # e
      BY <1>2, <3>1, NoSuchEntry DEF Inv, TableInv, Spare
    <3> QED BY <1>1, <1>2, <3>1, <3>2 DEF Inv, DataInv, UnusedIsClean, Unused
  <2> QED BY <2>1, <2>2
<1> HIDE DEF e
<1>8. Spare' /\ UniqueInode'
  <2>1. \A q \in Procs : empty[q] # NoEntry => i_lock'[empty[q]] = i_lock[empty[q]]
    BY <1>1, <1>2, <1>7 DEF Inv, TypeOK
  <2> QED BY <1>1, <2>1 DEF Inv, TableInv, Spare, UniqueInode
<1>9. Locked'
  <2>1. \A q \in Procs : q # p /\ pc'[q] \in Breads =>
          pc[q] \in Breads /\ inode[q] # e /\ i_lock'[inode[q]]
    BY <1>1, <1>2, <1>3, HasEntry DEF Inv, DataInv, Locked, Others, Breads
  <2>2. pc'[p] = "write_bread" /\ inode'[p] = e /\ i_lock'[e]
    BY <1>1, <1>2 DEF e
  <2> QED BY <1>1, <1>3, <2>1, <2>2 DEF Inv, DataInv, Locked, Others, Breads
<1>10. Current'
  BY <1>1, <1>2 DEF Inv, DataInv, Current
<1>11. Kept' /\ UnusedIsClean'
  BY <1>1, <1>2, <1>7 DEF Inv, DataInv, Kept, UnusedIsClean, Unused
<1> QED BY <1>5, <1>6, <1>8, <1>9, <1>10, <1>11 DEF TableInv, DataInv

(* get_empty_inode takes an unused entry. *)
LEMMA EmptyFoundStep ==
  ASSUME Inv, NEW p \in Procs, EmptyFound(p)
  PROVE  TableInv' /\ DataInv'
<1> USE DEF Goto, tabVars, lockVars, cpuVars, callVars, dataVars
<1>0. PICK e \in Clean : Clear(e, 1) /\ empty' = [empty EXCEPT ![p] = e]
  BY DEF EmptyFound
<1>1. /\ UNCHANGED <<disk_cur, op, key, inode>>
      /\ pc[p] = "empty" /\ pc' = [pc EXCEPT ![p] = "scan"]
      /\ e \in Entries /\ i_count[e] = 0 /\ ~i_dirt[e] /\ ~i_lock[e]
  BY <1>0 DEF EmptyFound, Runs, Clean, Unused
<1>2. /\ i_key' = [i_key EXCEPT ![e] = NoKey] /\ i_count' = [i_count EXCEPT ![e] = 1]
      /\ i_dirt' = [i_dirt EXCEPT ![e] = FALSE] /\ i_lock' = [i_lock EXCEPT ![e] = FALSE]
      /\ i_cur' = [i_cur EXCEPT ![e] = FALSE]
  BY <1>0 DEF Clear
<1>3. /\ i_key \in [Entries -> Keys \cup {NoKey}] /\ i_count \in [Entries -> Nat]
      /\ i_dirt \in [Entries -> BOOLEAN] /\ i_lock \in [Entries -> BOOLEAN]
      /\ i_cur \in [Entries -> BOOLEAN] /\ pc \in [Procs -> Labels]
      /\ empty \in [Procs -> Entries \cup {NoEntry}] /\ empty[p] = NoEntry
      /\ inode \in [Procs -> Entries \cup {NoEntry}]
  BY <1>1 DEF Inv, TypeOK, Local
<1>4. Others(p)
  BY <1>0, <1>1, <1>3 DEF Others
<1>5. \A q \in Procs : ~Refers(q, e)
  BY <1>1, NotReferred DEF Inv, TableInv
<1>6. \A f \in Entries : ~Refers(p, f) /\ (Refers(p, f)' <=> f = e)
  BY <1>0, <1>1, <1>3, NoSuchEntry DEF Refers
<1>7. Count'
  <2>1. \A f \in Entries : i_count'[f] = i_count[f] + One(Refers(p, f)') - One(Refers(p, f))
    BY <1>1, <1>2, <1>3, <1>6 DEF One
  <2> QED BY <1>4, <2>1, CountStep, OthersRefer DEF Inv, TableInv
<1>8. Keyed'
  <2> SUFFICES ASSUME NEW q \in Procs, NEW f \in Entries, inode'[q] = f, Refers(q, f)'
               PROVE  i_key'[f] \in {key'[q], NoKey}
    BY DEF Keyed
  <2>1. CASE f = e
    BY <1>2, <1>3, <2>1
  <2>2. CASE f # e
    BY <1>1, <1>2, <1>3, <1>4, <1>6, <2>2, OthersRefer DEF Inv, TableInv, Keyed
  <2> QED BY <2>1, <2>2
<1>9. Spare'
  <2> SUFFICES ASSUME NEW q \in Procs, empty'[q] # NoEntry
               PROVE  /\ i_key'[empty'[q]] = NoKey /\ i_count'[empty'[q]] = 1
                      /\ ~i_lock'[empty'[q]]
    BY DEF Spare
  <2>1. CASE q = p
    BY <1>0, <1>1, <1>2, <1>3, <2>1
  <2>2. CASE q # p
    <3>1. empty'[q] = empty[q] /\ empty[q] \in Entries /\ empty[q] # e
      BY <1>0, <1>3, <1>5, <2>2 DEF Refers
    <3> QED BY <1>2, <1>3, <2>2, <3>1 DEF Inv, TableInv, Spare
  <2> QED BY <2>1, <2>2
<1>10. UniqueInode'
  BY <1>2, <1>3 DEF Inv, TableInv, UniqueInode
<1>11. Locked'
  <2>1. \A q \in Procs : pc'[q] \in Breads =>
          /\ q # p /\ pc[q] = pc'[q] /\ inode'[q] = inode[q] /\ key'[q] = key[q]
          /\ inode[q] \in Entries /\ inode[q] # e
    BY <1>1, <1>3, <1>4, HasEntry DEF Inv, DataInv, Locked, Others, Breads
  <2> QED BY <1>1, <1>2, <1>3, <2>1 DEF Inv, DataInv, Locked, Breads
<1>12. Current'
  BY <1>1, <1>2, <1>3 DEF Inv, DataInv, Current
<1>13. Kept'
  BY <1>1, <1>2, <1>3 DEF Inv, DataInv, Kept
<1>14. UnusedIsClean'
  BY <1>1, <1>2, <1>3 DEF Inv, DataInv, UnusedIsClean, Unused
<1> QED BY <1>7, <1>8, <1>9, <1>10, <1>11, <1>12, <1>13, <1>14 DEF TableInv, DataInv

(* The types of the variables the invariants speak of. *)
LEMMA TableTypes ==
  ASSUME Inv
  PROVE  /\ i_key \in [Entries -> Keys \cup {NoKey}] /\ i_count \in [Entries -> Nat]
         /\ i_dirt \in [Entries -> BOOLEAN] /\ i_lock \in [Entries -> BOOLEAN]
         /\ i_cur \in [Entries -> BOOLEAN] /\ disk_cur \in [Keys -> BOOLEAN]
         /\ pc \in [Procs -> Labels] /\ DOMAIN key = Procs /\ DOMAIN op = Procs
         /\ empty \in [Procs -> Entries \cup {NoEntry}]
         /\ inode \in [Procs -> Entries \cup {NoEntry}]
BY DEF Inv, TypeOK

(* iget finds the inode: one more user, and the spare entry goes back. *)
LEMMA FoundStep ==
  ASSUME Inv, NEW p \in Procs, Found(p)
  PROVE  TableInv' /\ DataInv'
<1> USE DEF Goto, tabVars, lockVars, cpuVars, callVars, dataVars
<1> DEFINE e == inode[p]
           s == empty[p]
<1>1. /\ UNCHANGED <<i_key, i_dirt, i_lock, i_cur, disk_cur, op, key, inode>>
      /\ pc[p] = "found_wait" /\ pc' = [pc EXCEPT ![p] = "user"]
      /\ empty' = [empty EXCEPT ![p] = NoEntry]
      /\ i_key[e] = key[p] /\ ~i_lock[e] /\ i_count' = OneMoreUser(p)
  BY DEF Found, Unlocked, Runs, Same, Return
<1>2. /\ e \in Entries /\ s \in Entries /\ key[p] \in Keys
      /\ i_key[s] = NoKey /\ i_count[s] = 1 /\ ~i_lock[s]
  BY <1>1, TableTypes, HasEntry DEF Inv, Local, TableInv, Spare
<1>3. e # s /\ i_key[e] # NoKey
  BY <1>1, <1>2, NoSuchEntry
<1>4. /\ \A f \in Entries : i_count'[f] = i_count[f] + One(f = e) - One(f = s)
      /\ i_count' \in [Entries -> Nat]
  BY <1>1, <1>2, MoreUser DEF Inv
<1>5. Others(p)
  BY <1>1, TableTypes DEF Others
<1>6. \A f \in Entries : (Refers(p, f) <=> f = s) /\ (Refers(p, f)' <=> f = e)
  BY <1>1, <1>2, TableTypes, NoSuchEntry DEF Refers
<1>7. /\ \A f \in Entries : f # e /\ f # s => i_count'[f] = i_count[f]
      /\ i_count'[e] = i_count[e] + 1 /\ i_count'[s] = 0
  BY <1>2, <1>3, <1>4, TableTypes DEF One
<1>8. Count'
  <2>1. \A f \in Entries : i_count'[f] = i_count[f] + One(Refers(p, f)') - One(Refers(p, f))
    BY <1>2, <1>3, <1>6, <1>7, TableTypes DEF One
  <2> QED BY <1>5, <2>1, CountStep, OthersRefer DEF Inv, TableInv
<1>9. Keyed'
  <2> SUFFICES ASSUME NEW q \in Procs, NEW f \in Entries, inode'[q] = f, Refers(q, f)'
               PROVE  i_key'[f] \in {key'[q], NoKey}
    BY DEF Keyed
  <2>1. CASE q = p
    BY <1>1, <2>1
  <2>2. CASE q # p
    BY <1>1, <1>5, <2>2, OthersRefer DEF Inv, TableInv, Keyed
  <2> QED BY <2>1, <2>2
<1> HIDE DEF e, s
<1>10. Spare'
  <2> SUFFICES ASSUME NEW q \in Procs, empty'[q] # NoEntry
               PROVE  /\ i_key'[empty'[q]] = NoKey /\ i_count'[empty'[q]] = 1
                      /\ ~i_lock'[empty'[q]]
    BY DEF Spare
  <2>1. q # p /\ empty'[q] = empty[q] /\ empty[q] \in Entries
    BY <1>1, TableTypes
  <2>2. empty[q] # e
    BY <1>3, <2>1 DEF Inv, TableInv, Spare
  <2>3. empty[q] # s
    BY <1>2, <1>6, <2>1, Alone
  <2> QED BY <1>1, <1>7, <2>1, <2>2, <2>3 DEF Inv, TableInv, Spare
<1>11. UniqueInode'
  BY <1>1 DEF Inv, TableInv, UniqueInode
<1>12. Locked'
  <2>1. \A q \in Procs : pc'[q] \in Breads =>
          /\ q # p /\ pc[q] = pc'[q] /\ inode'[q] = inode[q] /\ key'[q] = key[q]
          /\ inode[q] \in Entries /\ inode[q] # e /\ inode[q] # s
    BY <1>1, <1>2, <1>5, TableTypes, HasEntry DEF Inv, DataInv, Locked, Others, Breads, e, s
  <2> QED BY <1>1, <1>7, <2>1 DEF Inv, DataInv, Locked, Breads
<1>13. Current'
  BY <1>1, TableTypes DEF Inv, DataInv, Current
<1>14. Kept'
  BY <1>1 DEF Inv, DataInv, Kept
<1>15. UnusedIsClean'
  BY <1>1, <1>2, <1>7, TableTypes DEF Inv, DataInv, UnusedIsClean, Unused
<1> QED BY <1>8, <1>9, <1>10, <1>11, <1>12, <1>13, <1>14, <1>15 DEF TableInv, DataInv

(* iget does not find the inode: the spare entry is locked for it. *)
LEMMA ScanMissedStep ==
  ASSUME Inv, NEW p \in Procs, ScanMissed(p)
  PROVE  TableInv' /\ DataInv'
<1> USE DEF Goto, tabVars, lockVars, cpuVars, callVars, dataVars
<1> DEFINE s == empty[p]
<1>1. /\ UNCHANGED <<i_count, i_dirt, i_cur, disk_cur, op, key>>
      /\ pc[p] = "scan" /\ pc' = [pc EXCEPT ![p] = "read_bread"]
      /\ i_key' = [i_key EXCEPT ![s] = key[p]] /\ i_lock' = [i_lock EXCEPT ![s] = TRUE]
      /\ inode' = [inode EXCEPT ![p] = s] /\ empty' = [empty EXCEPT ![p] = NoEntry]
      /\ \A f \in Entries : i_key[f] # key[p]
  BY DEF ScanMissed, Runs, Entry
<1>2. /\ s \in Entries /\ key[p] \in Keys /\ i_key[s] = NoKey /\ i_count[s] = 1 /\ ~i_lock[s]
  BY <1>1, TableTypes DEF Inv, Local, TableInv, Spare
<1>3. disk_cur[key[p]]
  BY <1>1, <1>2 DEF Inv, DataInv, Kept
<1>4. Others(p)
  BY <1>1, TableTypes DEF Others
<1>5. \A f \in Entries : (Refers(p, f) <=> f = s) /\ (Refers(p, f)' <=> f = s)
  BY <1>1, <1>2, TableTypes, NoSuchEntry DEF Refers
<1>6. \A q \in Procs : q # p => ~Refers(q, s)
  BY <1>2, <1>5, Referred DEF Inv, TableInv
<1>7. Count'
  <2>1. \A f \in Entries : i_count'[f] = i_count[f] + One(Refers(p, f)') - One(Refers(p, f))
    BY <1>1, <1>5, TableTypes DEF One
  <2> QED BY <1>4, <2>1, CountStep, OthersRefer DEF Inv, TableInv
<1>8. Keyed'
  <2> SUFFICES ASSUME NEW q \in Procs, NEW f \in Entries, inode'[q] = f, Refers(q, f)'
               PROVE  i_key'[f] \in {key'[q], NoKey}
    BY DEF Keyed
  <2>1. CASE q = p
    BY <1>1, <1>2, <1>5, <2>1, TableTypes
  <2>2. CASE q # p
    <3>1. Refers(q, f) /\ f # s
      BY <1>4, <1>6, <2>2, OthersRefer
    <3> QED BY <1>1, <1>4, <2>2, <3>1, TableTypes DEF Inv, TableInv, Keyed, Others
  <2> QED BY <2>1, <2>2
<1> HIDE DEF s
<1>9. Spare'
  <2> SUFFICES ASSUME NEW q \in Procs, empty'[q] # NoEntry
               PROVE  /\ i_key'[empty'[q]] = NoKey /\ i_count'[empty'[q]] = 1
                      /\ ~i_lock'[empty'[q]]
    BY DEF Spare
  <2>1. q # p /\ empty'[q] = empty[q] /\ empty[q] \in Entries
    BY <1>1, TableTypes
  <2>2. empty[q] # s
    BY <1>6, <2>1 DEF Refers
  <2> QED BY <1>1, <1>2, <2>1, <2>2, TableTypes DEF Inv, TableInv, Spare
<1>10. UniqueInode'
  BY <1>1, <1>2, TableTypes DEF Inv, TableInv, UniqueInode
<1>11. Locked'
  <2>1. \A q \in Procs : q # p /\ pc'[q] \in Breads =>
          /\ pc[q] = pc'[q] /\ inode'[q] = inode[q] /\ key'[q] = key[q]
          /\ inode[q] \in Entries /\ inode[q] # s
    BY <1>1, <1>2, <1>4, TableTypes, HasEntry DEF Inv, DataInv, Locked, Others, Breads, s
  <2>2. /\ pc'[p] = "read_bread" /\ inode'[p] = s /\ i_lock'[s]
        /\ i_key'[s] = key[p] /\ i_count'[s] = 1
    BY <1>1, <1>2, TableTypes
  <2> QED BY <1>1, <1>2, <1>3, <2>1, <2>2, TableTypes DEF Inv, DataInv, Locked, Breads
<1>12. Current'
  <2> SUFFICES ASSUME NEW f \in Entries, i_key'[f] # NoKey, ~i_cur'[f]
               PROVE  \E q \in Procs : pc'[q] = "read_bread" /\ inode'[q] = f
    BY DEF Current
  <2>1. CASE f = s
    BY <1>1, <1>2, <2>1, TableTypes
  <2>2. CASE f # s
    <3>1. PICK q \in Procs : pc[q] = "read_bread" /\ inode[q] = f
      BY <1>1, <1>2, <2>2, TableTypes DEF Inv, DataInv, Current
    <3>2. q # p
      BY <1>1, <3>1
    <3> QED BY <1>4, <3>1, <3>2 DEF Others
  <2> QED BY <2>1, <2>2
<1>13. Kept'
  BY <1>1, <1>2, TableTypes, NoSuchEntry DEF Inv, DataInv, Kept
<1>14. UnusedIsClean'
  BY <1>1, <1>2, TableTypes DEF Inv, DataInv, UnusedIsClean, Unused
<1> QED BY <1>7, <1>8, <1>9, <1>10, <1>11, <1>12, <1>13, <1>14 DEF TableInv, DataInv

(* read_inode unlocks an inode that has the latest contents. *)
LEMMA ReadStep ==
  ASSUME Inv, NEW p \in Procs, read_inode(p)
  PROVE  TableInv' /\ DataInv'
<1> USE DEF Goto, tabVars, lockVars, cpuVars, callVars, dataVars
<1> DEFINE e == inode[p]
<1>1. /\ UNCHANGED <<i_key, i_count, i_dirt, disk_cur, op, key, inode, empty>>
      /\ pc[p] = "read_bread" /\ pc' = [pc EXCEPT ![p] = "user"]
      /\ i_lock' = [i_lock EXCEPT ![e] = FALSE] /\ i_cur' = [i_cur EXCEPT ![e] = disk_cur[key[p]]]
  BY DEF read_inode, Runs, Unlock, Return
<1>2. e \in Entries /\ disk_cur[key[p]] /\ Refers(p, e)
  BY <1>1, HasEntry DEF Inv, DataInv, Locked, Refers
<1>3. Others(p) /\ \A f \in Entries : Refers(p, f)' <=> Refers(p, f)
  BY <1>1, TableTypes DEF Others, Refers
<1>4. Count'
  <2>1. \A f \in Entries : i_count'[f] = i_count[f] + One(Refers(p, f)') - One(Refers(p, f))
    BY <1>1, <1>3, TableTypes DEF One
  <2> QED BY <1>3, <2>1, CountStep, OthersRefer DEF Inv, TableInv
<1>5. Keyed'
  BY <1>1, <1>3, OthersRefer DEF Inv, TableInv, Keyed
<1> HIDE DEF e
<1>6. Spare' /\ UniqueInode'
  <2>1. \A f \in Entries : i_lock'[f] => i_lock[f]
    BY <1>1, <1>2, TableTypes
  <2> QED BY <1>1, <2>1, TableTypes DEF Inv, TableInv, Spare, UniqueInode
<1>7. Locked'
  <2>1. \A q \in Procs : pc'[q] \in Breads =>
          /\ q # p /\ pc[q] = pc'[q] /\ inode[q] \in Entries /\ inode[q] # e
    BY <1>1, <1>3, TableTypes, HasEntry DEF Inv, DataInv, Locked, Others, Breads, e
  <2> QED BY <1>1, <1>2, <2>1, TableTypes DEF Inv, DataInv, Locked, Breads
<1>8. Current'
  <2> SUFFICES ASSUME NEW f \in Entries, i_key'[f] # NoKey, ~i_cur'[f]
               PROVE  \E q \in Procs : pc'[q] = "read_bread" /\ inode'[q] = f
    BY DEF Current
  <2>1. f # e
    BY <1>1, <1>2, TableTypes
  <2>2. PICK q \in Procs : pc[q] = "read_bread" /\ inode[q] = f
    BY <1>1, <1>2, <2>1, TableTypes DEF Inv, DataInv, Current
  <2> QED BY <1>3, <2>1, <2>2 DEF Others, e
<1>9. Kept' /\ UnusedIsClean'
  BY <1>1, <1>2, TableTypes DEF Inv, DataInv, Kept, UnusedIsClean, Unused
<1> QED BY <1>4, <1>5, <1>6, <1>7, <1>8, <1>9 DEF TableInv, DataInv

(* write_inode copies the latest contents, or nothing once the medium is   *)
(* gone, and unlocks the inode.                                            *)
LEMMA WriteStep ==
  ASSUME Inv, NEW p \in Procs, write_inode(p)
  PROVE  TableInv' /\ DataInv'
<1> USE DEF Goto, tabVars, lockVars, cpuVars, callVars, dataVars
<1> DEFINE e == inode[p]
<1>1. /\ UNCHANGED <<i_key, i_count, i_cur, op, key, inode, empty>>
      /\ pc[p] = "write_bread" /\ pc' = [pc EXCEPT ![p] = Caller(p)]
      /\ i_lock' = [i_lock EXCEPT ![e] = FALSE] /\ i_dirt' = [i_dirt EXCEPT ![e] = FALSE]
      /\ disk_cur' = [disk_cur EXCEPT ![i_key[e]] = i_cur[e]]
  BY DEF write_inode, Copy, Runs, Unlock
<1>2. e \in Entries /\ op[p] \in {"iput", "sync"}
  BY <1>1, HasEntry DEF Inv, Local
<1>3. i_key[e] # NoKey => i_cur[e]
  <2>1. \A q \in Procs : ~(pc[q] = "read_bread" /\ inode[q] = e)
    BY <1>1 DEF Inv, DataInv, Locked, Breads
  <2> QED BY <1>2, <2>1 DEF Inv, DataInv, Current
<1>4. /\ \A k \in Keys : disk_cur[k] \/ k = i_key[e] => disk_cur'[k]
      /\ \A k \in Keys : disk_cur'[k] => disk_cur[k] \/ k = i_key[e]
  BY <1>1, <1>2, <1>3, TableTypes, NoSuchEntry
<1>5. Others(p) /\ \A f \in Entries : Refers(p, f)' <=> Refers(p, f)
  BY <1>1, <1>2, TableTypes DEF Others, Refers, Caller
<1>6. Count'
  <2>1. \A f \in Entries : i_count'[f] = i_count[f] + One(Refers(p, f)') - One(Refers(p, f))
    BY <1>1, <1>5, TableTypes DEF One
  <2> QED BY <1>5, <2>1, CountStep, OthersRefer DEF Inv, TableInv
<1>7. Keyed'
  BY <1>1, <1>5, OthersRefer DEF Inv, TableInv, Keyed
<1> HIDE DEF e
<1>8. Spare' /\ UniqueInode'
  <2>1. \A f \in Entries : i_lock'[f] => i_lock[f]
    BY <1>1, <1>2, TableTypes
  <2> QED BY <1>1, <2>1, TableTypes DEF Inv, TableInv, Spare, UniqueInode
<1>9. Locked'
  <2>1. pc'[p] \notin Breads
    BY <1>1, TableTypes DEF Caller, Breads
  <2>2. \A q \in Procs : pc'[q] \in Breads =>
          /\ q # p /\ pc[q] = pc'[q] /\ inode[q] \in Entries /\ inode[q] # e
    BY <1>1, <1>5, <2>1, TableTypes, HasEntry DEF Inv, DataInv, Locked, Others, Breads, e
  <2>3. \A q \in Procs : pc'[q] = "read_bread" => disk_cur'[key[q]]
    BY <1>4, <2>2 DEF Inv, Local, DataInv, Locked, Breads
  <2> QED BY <1>1, <1>2, <2>2, <2>3, TableTypes DEF Inv, DataInv, Locked, Breads
<1>10. Current'
  <2> SUFFICES ASSUME NEW f \in Entries, i_key[f] # NoKey, ~i_cur[f]
               PROVE  \E q \in Procs : pc'[q] = "read_bread" /\ inode[q] = f
    BY <1>1 DEF Current
  <2>1. PICK q \in Procs : pc[q] = "read_bread" /\ inode[q] = f
    BY DEF Inv, DataInv, Current
  <2>2. q # p
    BY <1>1, <2>1
  <2> QED BY <1>5, <2>1, <2>2 DEF Others
<1>11. Kept'
  <2> SUFFICES ASSUME NEW k \in Keys, ~disk_cur'[k]
               PROVE  \E f \in Entries : i_key'[f] = k /\ i_dirt'[f] /\ i_cur'[f]
    BY DEF Kept
  <2>1. ~disk_cur[k] /\ k # i_key[e]
    BY <1>4
  <2>2. PICK f \in Entries : i_key[f] = k /\ i_dirt[f] /\ i_cur[f]
    BY <2>1 DEF Inv, DataInv, Kept
  <2> QED BY <1>1, <1>2, <2>1, <2>2, TableTypes
<1>12. UnusedIsClean'
  BY <1>1, <1>2, TableTypes DEF Inv, DataInv, UnusedIsClean, Unused
<1> QED BY <1>6, <1>7, <1>8, <1>9, <1>10, <1>11, <1>12 DEF TableInv, DataInv

(* The end of iput: a reference less. *)
LEMMA GivenStep ==
  ASSUME Inv, NEW p \in Procs, PutRemoved(p) \/ PutShared(p) \/ PutClean(p)
  PROVE  TableInv' /\ DataInv'
<1> USE DEF Goto, tabVars, lockVars, cpuVars, callVars, dataVars
<1> DEFINE e == inode[p]
<1>1. /\ Given(p) /\ ~i_lock[e] /\ pc[p] \in {"put_wait", "put_again"}
      /\ i_key[e] = NoKey \/ i_count[e] > 1 \/ ~i_dirt[e]
  BY DEF PutRemoved, PutShared, PutClean, Repeat, Unlocked, Runs
<1>2. /\ UNCHANGED <<i_key, i_lock, i_dirt, i_cur, disk_cur, empty>>
      /\ pc' = [pc EXCEPT ![p] = "user"] /\ inode' = [inode EXCEPT ![p] = NoEntry]
      /\ key' = [key EXCEPT ![p] = NoKey] /\ op' = [op EXCEPT ![p] = "none"]
      /\ i_count' = [i_count EXCEPT ![e] = @ - 1]
  BY <1>1 DEF Given, Return
<1>3. /\ e \in Entries /\ Refers(p, e) /\ i_count[e] \in Nat /\ i_count[e] >= 1
      /\ empty[p] = NoEntry
  <2>1. e # NoEntry /\ empty[p] = NoEntry
    BY <1>1 DEF Inv, Local
  <2> QED BY <1>1, <2>1, GivenCount
<1>4. Others(p)
  BY <1>2, TableTypes DEF Others
<1>5. \A f \in Entries : ~Refers(p, f)' /\ (Refers(p, f) <=> f = e)
  BY <1>1, <1>2, <1>3, TableTypes, NoSuchEntry DEF Refers
<1>6. Count'
  <2>1. \A f \in Entries : i_count'[f] = i_count[f] + One(Refers(p, f)') - One(Refers(p, f))
    BY <1>2, <1>3, <1>5, TableTypes DEF One
  <2> QED BY <1>4, <2>1, CountStep, OthersRefer DEF Inv, TableInv
<1>7. Keyed'
  BY <1>2, <1>4, <1>5, OthersRefer DEF Inv, TableInv, Keyed, Others
<1>8. \A q \in Procs : q # p => empty[q] # e /\ ~(pc[q] = "read_bread" /\ inode[q] = e)
  BY <1>3, Alone
<1> HIDE DEF e
<1>9. Spare' /\ UniqueInode'
  <2>1. \A q \in Procs : empty[q] # NoEntry => i_count'[empty[q]] = i_count[empty[q]]
    BY <1>2, <1>3, <1>8, TableTypes
  <2> QED BY <1>2, <2>1 DEF Inv, TableInv, Spare, UniqueInode
<1>10. Locked'
  <2>1. \A q \in Procs : pc'[q] \in Breads =>
          /\ q # p /\ pc[q] = pc'[q] /\ inode'[q] = inode[q] /\ key'[q] = key[q]
          /\ inode[q] \in Entries /\ inode[q] # e
    BY <1>1, <1>2, <1>4, TableTypes, HasEntry DEF Inv, DataInv, Locked, Others, Breads
  <2> QED BY <1>2, <1>3, <2>1, TableTypes DEF Inv, DataInv, Locked, Breads
<1>11. Current'
  <2> SUFFICES ASSUME NEW f \in Entries, i_key[f] # NoKey, ~i_cur[f]
               PROVE  \E q \in Procs : pc'[q] = "read_bread" /\ inode'[q] = f
    BY <1>2 DEF Current
  <2>1. PICK q \in Procs : pc[q] = "read_bread" /\ inode[q] = f
    BY DEF Inv, DataInv, Current
  <2>2. q # p
    BY <1>1, <2>1
  <2> QED BY <1>4, <2>1, <2>2 DEF Others
<1>12. Kept'
  BY <1>2 DEF Inv, DataInv, Kept
<1>13. UnusedIsClean'
  BY <1>1, <1>2, <1>3, TableTypes DEF Inv, DataInv, UnusedIsClean, Unused
<1> QED BY <1>6, <1>7, <1>9, <1>10, <1>11, <1>12, <1>13 DEF TableInv, DataInv

(* free_inode clears an entry that has no other user. *)
LEMMA FreeStep ==
  ASSUME Inv, NEW p \in Procs, FreeInode(p)
  PROVE  TableInv' /\ DataInv'
<1> USE DEF Goto, tabVars, lockVars, cpuVars, callVars, dataVars
<1> DEFINE e == inode[p]
<1>1. /\ empty' = empty /\ pc[p] = "truncate" /\ ~i_lock[e] /\ i_count[e] <= 1
      /\ pc' = [pc EXCEPT ![p] = "user"] /\ inode' = [inode EXCEPT ![p] = NoEntry]
      /\ key' = [key EXCEPT ![p] = NoKey] /\ op' = [op EXCEPT ![p] = "none"]
      /\ disk_cur' = [k \in Keys |-> disk_cur[k] \/ k = i_key[e]]
  BY DEF FreeInode, Runs, Return
<1>2. /\ i_key' = [i_key EXCEPT ![e] = NoKey] /\ i_count' = [i_count EXCEPT ![e] = 0]
      /\ i_dirt' = [i_dirt EXCEPT ![e] = FALSE] /\ i_lock' = [i_lock EXCEPT ![e] = FALSE]
      /\ i_cur' = [i_cur EXCEPT ![e] = FALSE]
  BY DEF FreeInode, Clear
<1>3. /\ e \in Entries /\ Refers(p, e) /\ i_count[e] = 1 /\ empty[p] = NoEntry
  <2>1. e # NoEntry /\ empty[p] = NoEntry
    BY <1>1 DEF Inv, Local
  <2> QED BY <1>1, <2>1, GivenCount
<1>4. Others(p)
  BY <1>1, TableTypes DEF Others
<1>5. \A f \in Entries : ~Refers(p, f)' /\ (Refers(p, f) <=> f = e)
  BY <1>1, <1>3, TableTypes, NoSuchEntry DEF Refers
<1>6. Count'
  <2>1. \A f \in Entries : i_count'[f] = i_count[f] + One(Refers(p, f)') - One(Refers(p, f))
    BY <1>2, <1>3, <1>5, TableTypes DEF One
  <2> QED BY <1>4, <2>1, CountStep, OthersRefer DEF Inv, TableInv
<1>7. Keyed'
  <2> SUFFICES ASSUME NEW q \in Procs, NEW f \in Entries, inode'[q] = f, Refers(q, f)'
               PROVE  i_key'[f] \in {key'[q], NoKey}
    BY DEF Keyed
  <2>1. q # p /\ Refers(q, f) /\ inode[q] = f /\ key'[q] = key[q]
    BY <1>4, <1>5, OthersRefer DEF Others
  <2> QED BY <1>2, <1>3, <2>1, TableTypes DEF Inv, TableInv, Keyed
<1>8. \A q \in Procs : q # p => empty[q] # e /\ ~(pc[q] = "read_bread" /\ inode[q] = e)
  BY <1>3, Alone
<1> HIDE DEF e
<1>9. Spare'
  <2>1. \A q \in Procs : empty[q] # NoEntry =>
          /\ empty[q] \in Entries /\ i_key'[empty[q]] = i_key[empty[q]]
          /\ i_count'[empty[q]] = i_count[empty[q]] /\ i_lock'[empty[q]] = i_lock[empty[q]]
    BY <1>2, <1>3, <1>8, TableTypes
  <2> QED BY <1>1, <2>1 DEF Inv, TableInv, Spare
<1>10. UniqueInode'
  BY <1>2, <1>3, TableTypes DEF Inv, TableInv, UniqueInode
<1>11. Locked'
  <2>1. \A q \in Procs : pc'[q] \in Breads =>
          /\ q # p /\ pc[q] = pc'[q] /\ inode'[q] = inode[q] /\ key'[q] = key[q]
          /\ inode[q] \in Entries /\ inode[q] # e
    BY <1>1, <1>4, TableTypes, HasEntry DEF Inv, DataInv, Locked, Others, Breads
  <2>2. \A q \in Procs : pc'[q] = "read_bread" => disk_cur'[key[q]]
    BY <1>1, <2>1 DEF Inv, Local, DataInv, Locked, Breads
  <2> QED BY <1>2, <1>3, <2>1, <2>2, TableTypes DEF Inv, DataInv, Locked, Breads
<1>12. Current'
  <2> SUFFICES ASSUME NEW f \in Entries, i_key'[f] # NoKey, ~i_cur'[f]
               PROVE  \E q \in Procs : pc'[q] = "read_bread" /\ inode'[q] = f
    BY DEF Current
  <2>1. f # e
    BY <1>2, <1>3, TableTypes
  <2>2. PICK q \in Procs : pc[q] = "read_bread" /\ inode[q] = f
    BY <1>2, <1>3, <2>1, TableTypes DEF Inv, DataInv, Current
  <2>3. q # p
    BY <1>1, <2>2
  <2> QED BY <1>4, <2>2, <2>3 DEF Others
<1>13. Kept'
  <2> SUFFICES ASSUME NEW k \in Keys, ~disk_cur'[k]
               PROVE  \E f \in Entries : i_key'[f] = k /\ i_dirt'[f] /\ i_cur'[f]
    BY DEF Kept
  <2>1. ~disk_cur[k] /\ k # i_key[e]
    BY <1>1
  <2>2. PICK f \in Entries : i_key[f] = k /\ i_dirt[f] /\ i_cur[f]
    BY <2>1 DEF Inv, DataInv, Kept
  <2> QED BY <1>2, <1>3, <2>1, <2>2, TableTypes
<1>14. UnusedIsClean'
  BY <1>2, <1>3, TableTypes DEF Inv, DataInv, UnusedIsClean, Unused
<1> QED BY <1>6, <1>7, <1>9, <1>10, <1>11, <1>12, <1>13, <1>14 DEF TableInv, DataInv

(* invalidate_inodes takes an entry from its inode, not from its users. *)
LEMMA InvalidateStep ==
  ASSUME Inv, NEW p \in Procs, InvalidateNext(p)
  PROVE  TableInv' /\ DataInv'
<1> USE DEF Goto, tabVars, lockVars, cpuVars, callVars, dataVars
<1> DEFINE e == inode[p]
           gone == i_key[e][1] = key[p][1]
<1>1. /\ UNCHANGED <<i_count, i_lock, i_cur, empty>>
      /\ pc[p] = "invalidate" /\ ~i_lock[e] /\ Step(p, "invalidate")
      /\ i_key' = IF gone THEN [i_key EXCEPT ![e] = NoKey] ELSE i_key
      /\ i_dirt' = IF gone THEN [i_dirt EXCEPT ![e] = FALSE] ELSE i_dirt
      /\ disk_cur' = [k \in Keys |-> disk_cur[k] \/ (gone /\ k = i_key[e])]
  BY DEF InvalidateNext, Unlocked, Runs
<1>2. e \in Entries /\ empty[p] = NoEntry
  BY <1>1, HasEntry DEF Inv, Local
<1> HIDE DEF gone
<1>3. /\ \A f \in Entries : i_key'[f] \in {i_key[f], NoKey}
      /\ \A f \in Entries : f # e => i_key'[f] = i_key[f] /\ i_dirt'[f] = i_dirt[f]
      /\ (i_key'[e] = i_key[e] /\ i_dirt'[e] = i_dirt[e]) \/ (gone /\ ~i_dirt'[e])
      /\ \A k \in Keys : disk_cur[k] \/ (gone /\ k = i_key[e]) => disk_cur'[k]
  <2>1. \A k \in Keys : disk_cur[k] \/ (gone /\ k = i_key[e]) => disk_cur'[k]
    BY <1>1
  <2>2. CASE gone
    <3>1. i_key' = [i_key EXCEPT ![e] = NoKey] /\ i_dirt' = [i_dirt EXCEPT ![e] = FALSE]
      BY <1>1, <2>2
    <3> QED BY <1>2, <2>1, <2>2, <3>1, TableTypes
  <2>3. CASE ~gone
    <3>1. i_key' = i_key /\ i_dirt' = i_dirt
      BY <1>1, <2>3
    <3>2. /\ \A f \in Entries : i_key'[f] \in {i_key[f], NoKey}
          /\ \A f \in Entries : f # e => i_key'[f] = i_key[f] /\ i_dirt'[f] = i_dirt[f]
          /\ i_key'[e] = i_key[e] /\ i_dirt'[e] = i_dirt[e]
      BY <3>1
    <3> QED BY <2>1, <3>2
  <2> QED BY <2>2, <2>3
<1>4. /\ Others(p) /\ pc'[p] \notin Breads
      /\ \A f \in Entries : ~Refers(p, f) /\ ~Refers(p, f)'
  <2>1. Others(p)
    BY <1>1, TableTypes DEF Step, Return, Others
  <2>2. pc'[p] = "invalidate" \/ (pc'[p] = "user" /\ inode'[p] = NoEntry)
    BY <1>1, TableTypes DEF Step, Return
  <2> QED BY <1>1, <1>2, <2>1, <2>2, NoSuchEntry DEF Refers, Breads
<1>5. Count'
  <2>1. \A f \in Entries : i_count'[f] = i_count[f] + One(Refers(p, f)') - One(Refers(p, f))
    BY <1>1, <1>4, TableTypes DEF One
  <2> QED BY <1>4, <2>1, CountStep, OthersRefer DEF Inv, TableInv
<1>6. Keyed'
  <2> SUFFICES ASSUME NEW q \in Procs, NEW f \in Entries, inode'[q] = f, Refers(q, f)'
               PROVE  i_key'[f] \in {key'[q], NoKey}
    BY DEF Keyed
  <2>1. q # p /\ Refers(q, f) /\ inode[q] = f /\ key'[q] = key[q]
    BY <1>4, OthersRefer DEF Others
  <2> QED BY <1>3, <2>1 DEF Inv, TableInv, Keyed
<1> HIDE DEF e
<1>7. Spare' /\ UniqueInode'
  BY <1>1, <1>3, TableTypes DEF Inv, TableInv, Spare, UniqueInode
<1>8. Locked'
  <2>1. \A q \in Procs : pc'[q] \in Breads =>
          /\ q # p /\ pc[q] = pc'[q] /\ inode'[q] = inode[q] /\ key'[q] = key[q]
          /\ inode[q] \in Entries /\ inode[q] # e
    BY <1>1, <1>4, TableTypes, HasEntry DEF Inv, DataInv, Locked, Others, Breads
  <2>2. \A q \in Procs : pc'[q] = "read_bread" => disk_cur'[key[q]]
    BY <1>3, <2>1 DEF Inv, Local, DataInv, Locked, Breads
  <2> QED BY <1>1, <1>3, <2>1, <2>2 DEF Inv, DataInv, Locked, Breads
<1>9. Current'
  <2> SUFFICES ASSUME NEW f \in Entries, i_key'[f] # NoKey, ~i_cur[f]
               PROVE  \E q \in Procs : pc'[q] = "read_bread" /\ inode'[q] = f
    BY <1>1 DEF Current
  <2>1. PICK q \in Procs : pc[q] = "read_bread" /\ inode[q] = f
    BY <1>3 DEF Inv, DataInv, Current
  <2>2. q # p
    BY <1>1, <2>1
  <2> QED BY <1>4, <2>1, <2>2 DEF Others
<1>10. Kept'
  <2> SUFFICES ASSUME NEW k \in Keys, ~disk_cur'[k]
               PROVE  \E f \in Entries : i_key'[f] = k /\ i_dirt'[f] /\ i_cur[f]
    BY <1>1 DEF Kept
  <2>1. ~disk_cur[k] /\ ~(gone /\ k = i_key[e])
    BY <1>3
  <2>2. PICK f \in Entries : i_key[f] = k /\ i_dirt[f] /\ i_cur[f]
    BY <2>1 DEF Inv, DataInv, Kept
  <2> QED BY <1>3, <2>1, <2>2
<1>11. UnusedIsClean'
  BY <1>1, <1>3 DEF Inv, DataInv, UnusedIsClean, Unused
<1> QED BY <1>5, <1>6, <1>7, <1>8, <1>9, <1>10, <1>11 DEF TableInv, DataInv

(* A change by a holder: nobody else has or reads the inode's contents. *)
LEMMA ChangeStep ==
  ASSUME Inv, NEW p \in Procs, Change(p) \/ Unlink(p)
  PROVE  TableInv' /\ DataInv'
<1> USE DEF Goto, tabVars, lockVars, cpuVars, callVars, dataVars
<1> DEFINE e == inode[p]
<1>1. /\ UNCHANGED <<i_key, i_count, i_lock, pc, op, key, inode, empty>>
      /\ pc[p] = "user" /\ e # NoEntry
      /\ i_cur' = [f \in Entries |-> IF f = e THEN TRUE ELSE i_cur[f] /\ i_key[f] # i_key[e]]
      /\ disk_cur' = [k \in Keys |-> disk_cur[k] /\ k # i_key[e]]
      /\ i_dirt' = [i_dirt EXCEPT ![e] = TRUE]
  BY DEF Change, Unlink, Latest, Holds
<1>2. e \in Entries /\ Refers(p, e) /\ i_count[e] \in Nat /\ i_count[e] >= 1
  BY <1>1, GivenCount
<1>3. Count' /\ Keyed' /\ Spare' /\ UniqueInode'
  <2>1. \A q \in Procs, f \in Entries : Refers(q, f)' <=> Refers(q, f)
    BY <1>1 DEF Refers
  <2> QED BY <1>1, <2>1 DEF Inv, TableInv, Count, Keyed, Spare, UniqueInode
<1>4. \A q \in Procs : pc[q] = "read_bread" => inode[q] # e /\ i_key[inode[q]] # i_key[e]
  <2> SUFFICES ASSUME NEW q \in Procs, pc[q] = "read_bread"
               PROVE  inode[q] # e /\ i_key[inode[q]] # i_key[e]
    OBVIOUS
  <2>1. inode[q] # e
    BY <1>1, <1>2, Alone
  <2>2. inode[q] \in Entries /\ i_key[inode[q]] # NoKey
    BY HasEntry, NoSuchEntry DEF Inv, Local, DataInv, Locked
  <2> QED BY <1>2, <2>1, <2>2 DEF Inv, TableInv, UniqueInode
<1> HIDE DEF e
<1>5. Locked'
  <2>1. \A q \in Procs : pc[q] = "read_bread" => disk_cur'[key[q]]
    <3>1. \A q \in Procs : pc[q] = "read_bread" =>
            key[q] \in Keys /\ key[q] # i_key[e] /\ disk_cur[key[q]]
      BY <1>4 DEF Inv, Local, DataInv, Locked
    <3> QED BY <1>1, <3>1
  <2> QED BY <1>1, <2>1 DEF Inv, DataInv, Locked
<1>6. \A f \in Entries : f # e /\ i_key[f] # NoKey /\ i_cur[f] => i_cur'[f]
  BY <1>1, <1>2 DEF Inv, TableInv, UniqueInode
<1>7. Current'
  BY <1>1, <1>6 DEF Inv, DataInv, Current
<1>8. Kept'
  <2> SUFFICES ASSUME NEW k \in Keys, ~disk_cur'[k]
               PROVE  \E f \in Entries : i_key'[f] = k /\ i_dirt'[f] /\ i_cur'[f]
    BY DEF Kept
  <2>1. CASE k = i_key[e]
    <3>1. i_key'[e] = k /\ i_dirt'[e] /\ i_cur'[e]
      BY <1>1, <1>2, <2>1, TableTypes
    <3> QED BY <1>2, <3>1
  <2>2. CASE k # i_key[e]
    <3>1. PICK f \in Entries : i_key[f] = k /\ i_dirt[f] /\ i_cur[f]
      BY <1>1, <2>2 DEF Inv, DataInv, Kept
    <3> QED BY <1>1, <1>6, <2>2, <3>1, TableTypes, NoSuchEntry
  <2> QED BY <2>1, <2>2
<1>9. UnusedIsClean'
  BY <1>1, <1>2, TableTypes DEF Inv, DataInv, UnusedIsClean, Unused
<1> QED BY <1>3, <1>5, <1>7, <1>8, <1>9 DEF TableInv, DataInv

-----------------------------------------------------------------------------
(* The invariant and what follows from it.                                 *)

LEMMA InvNext == Inv /\ [Next]_vars => Inv'
<1> SUFFICES ASSUME Inv, [Next]_vars PROVE Inv'
  OBVIOUS
<1>1. CASE UNCHANGED vars
  <2>1. TypeOK' /\ Local'
    BY <1>1 DEF vars, tabVars, lockVars, cpuVars, callVars, dataVars, Inv, TypeOK, Local
  <2>2. TableInv' /\ DataInv'
    BY <1>1, StillStep DEF vars, tabVars, lockVars, cpuVars, callVars, dataVars
  <2> QED BY <2>1, <2>2 DEF Inv
<1>2. ASSUME NEW p \in Procs, Call(p) \/ Kernel(p) \/ Resume(p) PROVE Inv'
  <2>1. TypeOK' /\ Local'
    BY <1>2, TypeNext, LocalNext
  <2>2. TableInv' /\ DataInv'
    BY <1>2, QuietActions, WriteLockStep, EmptyFoundStep, FoundStep, ScanMissedStep, ReadStep,
       WriteStep, GivenStep, FreeStep, InvalidateStep, ChangeStep
       DEF Call, Kernel, get_empty_inode, iget, iput, sync_inodes
  <2> QED BY <2>1, <2>2 DEF Inv
<1> QED BY <1>1, <1>2 DEF Next

LEMMA Invariant == Spec => []Inv
BY InvInit, InvNext, PTL DEF Spec

(* The variables keep their types: no walk of sync_inodes or               *)
(* invalidate_inodes leaves the table, and no i_count becomes negative.    *)
THEOREM TypeCorrect == Spec => []TypeOK
<1>1. Inv => TypeOK
  BY DEF Inv
<1> QED BY <1>1, Invariant, PTL

(* No inode of a disk is ever in two entries of the table, however many    *)
(* processes look for it in iget and sleep in between.                     *)
THEOREM UniqueInodeHolds == Spec => []UniqueInode
<1>1. Inv => UniqueInode
  BY DEF Inv, TableInv
<1> QED BY <1>1, Invariant, PTL

(* i_count is the number of references from the processes in iget, in iput *)
(* and between the two, and an entry in use is never given another inode.  *)
THEOREM CountedHolds == Spec => []Counted
<1>1. Inv => Counted
  BY DEF Inv, TableInv, Count, Keyed, Counted
<1> QED BY <1>1, Invariant, PTL

(* get_empty_inode meets no locked entry with i_count 0, and none with     *)
(* changes that are still to be written.                                   *)
THEOREM UnusedIsCleanHolds == Spec => []UnusedIsClean
<1>1. Inv => UnusedIsClean
  BY DEF Inv, DataInv
<1> QED BY <1>1, Invariant, PTL

-----------------------------------------------------------------------------
(* The time of the last write.                                             *)

(* A spare entry and one that is being read are clean. *)
Fresh ==
  \A p \in Procs : /\ empty[p] # NoEntry => ~i_dirt[empty[p]]
                   /\ pc[p] = "read_bread" => ~i_dirt[inode[p]]

(* An entry has the time of the last write to its inode, unless it is      *)
(* being read or the write left it unmarked.                               *)
Timed ==
  \A e \in Entries : i_key[e] \in Keys \ unmarked =>
    i_mtime[e] \/ \E p \in Procs : pc[p] = "read_bread" /\ inode[p] = e

(* This time is on the disk or in a dirty entry. *)
TimeKept ==
  \A k \in Keys \ unmarked :
    d_time[k] \/ \E e \in Entries : i_key[e] = k /\ i_dirt[e] /\ i_mtime[e]

TimeInv == Fresh /\ Timed /\ TimeKept

(* A step of p that leaves the data alone, and whether p reads an inode.   *)
LEMMA TimeSame ==
  ASSUME Inv, TimeInv, NEW p \in Procs, Others(p),
         UNCHANGED <<i_key, i_dirt, i_mtime, d_time, unmarked>>,
         empty'[p] \in {empty[p], NoEntry},
         pc[p] # "read_bread" /\ pc'[p] # "read_bread"
  PROVE  TimeInv'
<1>1. Fresh'
  BY DEF TimeInv, Fresh, Others
<1>2. Timed'
  <2> SUFFICES ASSUME NEW e \in Entries, i_key[e] \in Keys \ unmarked, ~i_mtime[e]
               PROVE  \E q \in Procs : pc'[q] = "read_bread" /\ inode'[q] = e
    BY DEF Timed
  <2>1. PICK q \in Procs : pc[q] = "read_bread" /\ inode[q] = e
    BY DEF TimeInv, Timed
  <2> QED BY <2>1 DEF Others
<1>3. TimeKept'
  BY DEF TimeInv, TimeKept
<1> QED BY <1>1, <1>2, <1>3 DEF TimeInv

LEMMA TimeStill ==
  ASSUME TimeInv,
         UNCHANGED <<i_key, i_dirt, i_mtime, d_time, unmarked, pc, inode, empty>>
  PROVE  TimeInv'
BY DEF TimeInv, Fresh, Timed, TimeKept

LEMMA TimeTypes ==
  ASSUME Inv
  PROVE  /\ i_mtime \in [Entries -> BOOLEAN] /\ d_time \in [Keys -> BOOLEAN]
         /\ unmarked \subseteq Keys
BY DEF Inv, TypeOK

(* The actions that leave the data alone. *)
LEMMA TimeQuiet ==
  ASSUME Inv, TimeInv, NEW p \in Procs,
         \/ wait_on_inode(p) \/ Resume(p) \/ EmptyLoops(p) \/ FreeInUse(p)
         \/ Iget(p) \/ ScanFound(p) \/ FoundChanged(p) \/ Found(p) \/ Iput(p)
         \/ PutRemoved(p) \/ PutShared(p) \/ PutClean(p) \/ PutDirty(p) \/ PutUnlinked(p)
         \/ Sync(p) \/ Invalidate(p) \/ SyncDirty(p) \/ SyncNext(p)
  PROVE  TimeInv'
<1> USE DEF Goto, tabVars, lockVars, cpuVars, callVars, dataVars
<1>a. /\ pc \in [Procs -> Labels] /\ inode \in [Procs -> Entries \cup {NoEntry}]
      /\ empty \in [Procs -> Entries \cup {NoEntry}]
      /\ DOMAIN key = Procs /\ DOMAIN op = Procs
  BY DEF Inv, TypeOK
<1> DEFINE Same1 == /\ UNCHANGED <<i_key, i_dirt, i_mtime, d_time, unmarked>>
                    /\ empty'[p] \in {empty[p], NoEntry}
                    /\ pc[p] # "read_bread" /\ pc'[p] # "read_bread"
                    /\ Others(p)
<1>1. CASE wait_on_inode(p) \/ Resume(p) \/ EmptyLoops(p) \/ FreeInUse(p)
  BY <1>1, TimeStill DEF wait_on_inode, Resume, EmptyLoops, FreeInUse
<1>2. ASSUME Iget(p) PROVE Same1
  BY <1>2, <1>a DEF Iget, Others
<1>3. ASSUME ScanFound(p) PROVE Same1
  BY <1>3, <1>a DEF ScanFound, Runs, Others
<1>4. ASSUME FoundChanged(p) PROVE Same1
  BY <1>4, <1>a DEF FoundChanged, Unlocked, Runs, Others
<1>5. ASSUME Found(p) PROVE Same1
  BY <1>5, <1>a DEF Found, Unlocked, Runs, Return, Others
<1>6. ASSUME Iput(p) PROVE Same1
  BY <1>6, <1>a DEF Iput, Others
<1>7. ASSUME PutRemoved(p) \/ PutShared(p) \/ PutClean(p) PROVE Same1
  BY <1>7, <1>a DEF PutRemoved, PutShared, PutClean, Repeat, Unlocked, Runs, Given, Return, Others
<1>8. ASSUME PutDirty(p) \/ SyncDirty(p) PROVE Same1
  BY <1>8, <1>a DEF PutDirty, SyncDirty, Repeat, Unlocked, Runs, WriteLock, Others
<1>9. ASSUME PutUnlinked(p) PROVE Same1
  BY <1>9, <1>a DEF PutUnlinked, Repeat, Unlocked, Runs, Others
<1>10. ASSUME Sync(p) \/ Invalidate(p) PROVE Same1
  BY <1>10, <1>a DEF Sync, Invalidate, StartWalk, Walks, Others
<1>11. ASSUME SyncNext(p) PROVE Same1
  BY <1>11, <1>a DEF SyncNext, Unlocked, Runs, Step, Return, Others
<1> HIDE DEF Same1
<1>12. Same1 => TimeInv'
  BY TimeSame DEF Same1
<1> QED BY <1>1, <1>2, <1>3, <1>4, <1>5, <1>6, <1>7, <1>8, <1>9, <1>10, <1>11, <1>12

(* get_empty_inode clears an entry that is clean: no time is lost with it. *)
LEMMA TimeEmptyFound ==
  ASSUME Inv, TimeInv, NEW p \in Procs, EmptyFound(p)
  PROVE  TimeInv'
<1> USE DEF Goto
<1>1. PICK e \in Clean : Clear(e, 1) /\ empty' = [empty EXCEPT ![p] = e]
  BY DEF EmptyFound
<1>2. /\ e \in Entries /\ ~i_dirt[e] /\ i_count[e] = 0
      /\ pc[p] = "empty" /\ pc' = [pc EXCEPT ![p] = "scan"]
      /\ UNCHANGED <<inode, d_time, unmarked>>
      /\ i_key' = [i_key EXCEPT ![e] = NoKey] /\ i_dirt' = [i_dirt EXCEPT ![e] = FALSE]
      /\ i_mtime' = [i_mtime EXCEPT ![e] = FALSE]
  BY <1>1 DEF EmptyFound, Runs, Clean, Unused, Clear
<1>3. /\ \A f \in Entries : i_dirt'[f] => i_dirt[f] /\ f # e
      /\ \A f \in Entries : f # e => i_key'[f] = i_key[f] /\ i_mtime'[f] = i_mtime[f]
                                     /\ i_dirt'[f] = i_dirt[f]
      /\ i_key'[e] \notin Keys /\ ~i_dirt'[e]
  BY <1>2, TableTypes, TimeTypes, NoSuchEntry
<1>4. /\ \A q \in Procs : (pc'[q] = "read_bread" <=> pc[q] = "read_bread")
      /\ \A q \in Procs : q # p => empty'[q] = empty[q]
      /\ empty'[p] = e
  BY <1>1, <1>2, TableTypes
<1>5. \A q \in Procs : pc[q] = "read_bread" => inode[q] \in Entries
  BY HasEntry DEF Inv
<1>6. Fresh'
  BY <1>2, <1>3, <1>4, <1>5, TableTypes DEF TimeInv, Fresh
<1>7. Timed'
  BY <1>2, <1>3, <1>4 DEF TimeInv, Timed
<1>8. TimeKept'
  <2> SUFFICES ASSUME NEW k \in Keys \ unmarked, ~d_time[k]
               PROVE  \E f \in Entries : i_key'[f] = k /\ i_dirt'[f] /\ i_mtime'[f]
    BY <1>2 DEF TimeKept
  <2>1. PICK f \in Entries : i_key[f] = k /\ i_dirt[f] /\ i_mtime[f]
    BY DEF TimeInv, TimeKept
  <2> QED BY <1>2, <1>3, <2>1
<1> QED BY <1>6, <1>7, <1>8 DEF TimeInv

(* The spare entry becomes the inode's: it is being read. *)
LEMMA TimeScanMissed ==
  ASSUME Inv, TimeInv, NEW p \in Procs, ScanMissed(p)
  PROVE  TimeInv'
<1> USE DEF Goto, dataVars
<1> DEFINE s == empty[p]
<1>1. /\ UNCHANGED <<i_dirt, i_mtime, d_time, unmarked>>
      /\ pc[p] = "scan" /\ pc' = [pc EXCEPT ![p] = "read_bread"]
      /\ i_key' = [i_key EXCEPT ![s] = key[p]]
      /\ inode' = [inode EXCEPT ![p] = s] /\ empty' = [empty EXCEPT ![p] = NoEntry]
  BY DEF ScanMissed, Runs
<1>2. s \in Entries /\ ~i_dirt[s] /\ s # NoEntry
  BY <1>1, TableTypes, NoSuchEntry DEF Inv, Local, TimeInv, Fresh
<1>3. /\ pc'[p] = "read_bread" /\ inode'[p] = s /\ empty'[p] = NoEntry
      /\ \A q \in Procs : q # p => pc'[q] = pc[q] /\ inode'[q] = inode[q] /\ empty'[q] = empty[q]
      /\ \A f \in Entries : f # s => i_key'[f] = i_key[f]
  BY <1>1, <1>2, TableTypes
<1> HIDE DEF s
<1>4. Fresh'
  BY <1>1, <1>2, <1>3 DEF TimeInv, Fresh
<1>5. Timed'
  <2> SUFFICES ASSUME NEW f \in Entries, i_key'[f] \in Keys \ unmarked, ~i_mtime[f]
               PROVE  \E q \in Procs : pc'[q] = "read_bread" /\ inode'[q] = f
    BY <1>1 DEF Timed
  <2>1. CASE f = s
    BY <1>3, <2>1
  <2>2. CASE f # s
    <3>1. PICK q \in Procs : pc[q] = "read_bread" /\ inode[q] = f
      BY <1>3, <2>2 DEF TimeInv, Timed
    <3>2. q # p
      BY <1>1, <3>1
    <3> QED BY <1>3, <3>1, <3>2
  <2> QED BY <2>1, <2>2
<1>6. TimeKept'
  <2> SUFFICES ASSUME NEW k \in Keys \ unmarked, ~d_time[k]
               PROVE  \E f \in Entries : i_key'[f] = k /\ i_dirt[f] /\ i_mtime[f]
    BY <1>1 DEF TimeKept
  <2>1. PICK f \in Entries : i_key[f] = k /\ i_dirt[f] /\ i_mtime[f]
    BY DEF TimeInv, TimeKept
  <2> QED BY <1>2, <1>3, <2>1
<1> QED BY <1>4, <1>5, <1>6 DEF TimeInv

(* The disk has the time that read_inode looks for, as no dirty entry can  *)
(* be the inode's.                                                         *)
LEMMA TimeRead ==
  ASSUME Inv, TimeInv, NEW p \in Procs, read_inode(p)
  PROVE  TimeInv'
<1> USE DEF Goto
<1> DEFINE e == inode[p]
<1>1. /\ UNCHANGED <<i_key, i_dirt, d_time, unmarked, inode, empty, key>>
      /\ pc[p] = "read_bread" /\ pc' = [pc EXCEPT ![p] = "user"]
      /\ i_mtime' = [i_mtime EXCEPT ![e] = d_time[key[p]]]
  BY DEF read_inode, Runs, Return, callVars
<1>2. e \in Entries /\ i_key[e] = key[p] /\ key[p] \in Keys /\ ~i_dirt[e]
  BY <1>1, HasEntry DEF Inv, Local, DataInv, Locked, TimeInv, Fresh
<1>3. key[p] \notin unmarked => d_time[key[p]]
  <2> SUFFICES ASSUME key[p] \notin unmarked, ~d_time[key[p]] PROVE FALSE
    OBVIOUS
  <2>1. PICK f \in Entries : i_key[f] = key[p] /\ i_dirt[f]
    BY <1>2 DEF TimeInv, TimeKept
  <2>2. f = e
    BY <1>2, <2>1, NoSuchEntry DEF Inv, TableInv, UniqueInode
  <2> QED BY <1>2, <2>1, <2>2
<1>4. /\ i_mtime'[e] = d_time[key[p]]
      /\ \A f \in Entries : f # e => i_mtime'[f] = i_mtime[f]
      /\ \A q \in Procs : pc'[q] = "read_bread" <=> pc[q] = "read_bread" /\ q # p
  BY <1>1, <1>2, TimeTypes, TableTypes
<1> HIDE DEF e
<1>5. Fresh'
  BY <1>1, <1>4 DEF TimeInv, Fresh
<1>6. Timed'
  <2> SUFFICES ASSUME NEW f \in Entries, i_key[f] \in Keys \ unmarked, ~i_mtime'[f]
               PROVE  \E q \in Procs : pc'[q] = "read_bread" /\ inode[q] = f
    BY <1>1 DEF Timed
  <2>1. f # e
    BY <1>2, <1>3, <1>4
  <2>2. PICK q \in Procs : pc[q] = "read_bread" /\ inode[q] = f
    BY <1>4, <2>1 DEF TimeInv, Timed
  <2> QED BY <1>4, <2>1, <2>2 DEF e
<1>7. TimeKept'
  BY <1>1, <1>2, <1>4 DEF TimeInv, TimeKept
<1> QED BY <1>5, <1>6, <1>7 DEF TimeInv

(* write_inode saves the time with the rest, before it clears i_dirt. *)
LEMMA TimeWrite ==
  ASSUME Inv, TimeInv, NEW p \in Procs, write_inode(p)
  PROVE  TimeInv'
<1> USE DEF Goto
<1> DEFINE e == inode[p]
<1>1. /\ UNCHANGED <<i_key, i_mtime, inode, empty>>
      /\ pc[p] = "write_bread" /\ pc' = [pc EXCEPT ![p] = Caller(p)]
      /\ i_dirt' = [i_dirt EXCEPT ![e] = FALSE]
      /\ d_time' = [d_time EXCEPT ![i_key[e]] = i_mtime[e]]
      /\ unmarked' = IF i_mtime[e] THEN unmarked \ {i_key[e]} ELSE unmarked
  BY DEF write_inode, Copy, Runs, callVars
<1>2. e \in Entries /\ \A q \in Procs : ~(pc[q] = "read_bread" /\ inode[q] = e)
  BY <1>1, HasEntry DEF Inv, DataInv, Locked, Breads
<1>3. /\ \A q \in Procs : pc'[q] = "read_bread" <=> pc[q] = "read_bread"
      /\ \A f \in Entries : i_dirt'[f] <=> i_dirt[f] /\ f # e
      /\ \A k \in Keys : k # i_key[e] => d_time'[k] = d_time[k] /\ (k \in unmarked' <=> k \in unmarked)
      /\ i_key[e] \in Keys => d_time'[i_key[e]] = i_mtime[e]
      /\ i_mtime[e] => i_key[e] \notin unmarked'
      /\ ~i_mtime[e] => unmarked' = unmarked
  BY <1>1, <1>2, TimeTypes, TableTypes DEF Caller
<1>4. \A q \in Procs : (empty[q] # NoEntry => empty[q] \in Entries)
                    /\ (pc[q] = "read_bread" => inode[q] \in Entries)
  BY HasEntry DEF Inv, TypeOK
<1> HIDE DEF e
<1>5. Fresh'
  BY <1>1, <1>3, <1>4 DEF TimeInv, Fresh
<1>6. Timed'
  <2> SUFFICES ASSUME NEW f \in Entries, i_key[f] \in Keys, i_key[f] \notin unmarked', ~i_mtime[f]
               PROVE  \E q \in Procs : pc[q] = "read_bread" /\ inode[q] = f
    BY <1>1, <1>3 DEF Timed
  <2>1. i_key[f] \notin unmarked
    <3>1. i_key[f] = i_key[e] => f = e
      BY <1>2, NoSuchEntry DEF Inv, TableInv, UniqueInode
    <3> QED BY <1>3, <3>1
  <2> QED BY <2>1 DEF TimeInv, Timed
<1>7. TimeKept'
  <2> SUFFICES ASSUME NEW k \in Keys, k \notin unmarked', ~d_time'[k]
               PROVE  \E f \in Entries : i_key[f] = k /\ i_dirt'[f] /\ i_mtime[f]
    BY <1>1 DEF TimeKept
  <2>1. k # i_key[e]
    <3> SUFFICES ASSUME k = i_key[e] PROVE FALSE
      OBVIOUS
    <3>1. ~i_mtime[e] /\ k \notin unmarked
      BY <1>3
    <3> QED BY <1>2, <3>1 DEF TimeInv, Timed
  <2>2. PICK f \in Entries : i_key[f] = k /\ i_dirt[f] /\ i_mtime[f]
    BY <1>3, <2>1 DEF TimeInv, TimeKept
  <2> QED BY <1>3, <2>1, <2>2
<1> QED BY <1>5, <1>6, <1>7 DEF TimeInv

(* free_inode and invalidate_inodes forget an inode with its time, and     *)
(* what is on the disk is the latest then.                                 *)
LEMMA TimeForgotten ==
  ASSUME Inv, TimeInv, NEW p \in Procs, NEW e \in Entries, Others(p),
         pc[p] # "read_bread" /\ pc'[p] # "read_bread" /\ empty' = empty,
         \A f \in Entries : f # e => i_key'[f] = i_key[f] /\ i_dirt'[f] = i_dirt[f]
                                     /\ i_mtime'[f] = i_mtime[f],
         i_key'[e] = NoKey /\ ~i_dirt'[e],
         \A k \in Keys : k # i_key[e] => d_time'[k] = d_time[k],
         i_key[e] \in Keys => d_time'[i_key[e]],
         unmarked' = unmarked \ {i_key[e]}
  PROVE  TimeInv'
<1>1. \A q \in Procs : pc'[q] = "read_bread" =>
        q # p /\ pc[q] = "read_bread" /\ inode'[q] = inode[q] /\ inode[q] \in Entries
  BY HasEntry DEF Others, Inv
<1>2. Fresh'
  BY <1>1, TableTypes DEF TimeInv, Fresh
<1>3. Timed'
  <2> SUFFICES ASSUME NEW f \in Entries, i_key'[f] \in Keys, i_key'[f] \notin unmarked', ~i_mtime'[f]
               PROVE  \E q \in Procs : pc'[q] = "read_bread" /\ inode'[q] = f
    BY DEF Timed
  <2>1. f # e /\ i_key'[f] = i_key[f]
    BY NoSuchEntry
  <2>2. i_key[f] # i_key[e]
    BY <2>1, NoSuchEntry DEF Inv, TableInv, UniqueInode
  <2>3. PICK q \in Procs : pc[q] = "read_bread" /\ inode[q] = f
    BY <2>1, <2>2 DEF TimeInv, Timed
  <2> QED BY <2>3 DEF Others
<1>4. TimeKept'
  <2> SUFFICES ASSUME NEW k \in Keys, k \notin unmarked', ~d_time'[k]
               PROVE  \E f \in Entries : i_key'[f] = k /\ i_dirt'[f] /\ i_mtime'[f]
    BY DEF TimeKept
  <2>1. k # i_key[e] /\ k \notin unmarked /\ ~d_time[k]
    OBVIOUS
  <2>2. PICK f \in Entries : i_key[f] = k /\ i_dirt[f] /\ i_mtime[f]
    BY <2>1 DEF TimeInv, TimeKept
  <2> QED BY <2>1, <2>2
<1> QED BY <1>2, <1>3, <1>4 DEF TimeInv

LEMMA TimeFree ==
  ASSUME Inv, TimeInv, NEW p \in Procs, FreeInode(p)
  PROVE  TimeInv'
<1> USE DEF Goto
<1> DEFINE e == inode[p]
<1>1. /\ empty' = empty /\ pc[p] = "truncate"
      /\ pc' = [pc EXCEPT ![p] = "user"] /\ inode' = [inode EXCEPT ![p] = NoEntry]
      /\ key' = [key EXCEPT ![p] = NoKey] /\ op' = [op EXCEPT ![p] = "none"]
      /\ d_time' = [k \in Keys |-> d_time[k] \/ k = i_key[e]]
      /\ unmarked' = unmarked \ {i_key[e]}
      /\ i_key' = [i_key EXCEPT ![e] = NoKey] /\ i_dirt' = [i_dirt EXCEPT ![e] = FALSE]
      /\ i_mtime' = [i_mtime EXCEPT ![e] = FALSE]
  BY DEF FreeInode, Runs, Return, Clear
<1>2. e \in Entries
  BY <1>1, HasEntry DEF Inv
<1>3. Others(p) /\ pc'[p] # "read_bread"
  BY <1>1, TableTypes DEF Others
<1>4. /\ \A f \in Entries : f # e => i_key'[f] = i_key[f] /\ i_dirt'[f] = i_dirt[f]
                                     /\ i_mtime'[f] = i_mtime[f]
      /\ i_key'[e] = NoKey /\ ~i_dirt'[e]
  BY <1>1, <1>2, TableTypes, TimeTypes
<1>5. /\ \A k \in Keys : k # i_key[e] => d_time'[k] = d_time[k]
      /\ i_key[e] \in Keys => d_time'[i_key[e]]
  BY <1>1, TimeTypes
<1> HIDE DEF e
<1> QED BY <1>1, <1>2, <1>3, <1>4, <1>5, TimeForgotten

LEMMA TimeInvalidate ==
  ASSUME Inv, TimeInv, NEW p \in Procs, InvalidateNext(p)
  PROVE  TimeInv'
<1> USE DEF Goto
<1> DEFINE e == inode[p]
           gone == i_key[e][1] = key[p][1]
<1>1. /\ UNCHANGED <<i_mtime, empty>>
      /\ pc[p] = "invalidate" /\ Step(p, "invalidate")
      /\ i_key' = IF gone THEN [i_key EXCEPT ![e] = NoKey] ELSE i_key
      /\ i_dirt' = IF gone THEN [i_dirt EXCEPT ![e] = FALSE] ELSE i_dirt
      /\ d_time' = [k \in Keys |-> d_time[k] \/ (gone /\ k = i_key[e])]
      /\ unmarked' = IF gone THEN unmarked \ {i_key[e]} ELSE unmarked
  BY DEF InvalidateNext, Unlocked, Runs
<1>2. e \in Entries
  BY <1>1, HasEntry DEF Inv
<1>3. Others(p) /\ pc'[p] # "read_bread"
  BY <1>1, TableTypes DEF Others, Step, Return
<1> HIDE DEF gone
<1>4. CASE gone
  <2>1. /\ \A f \in Entries : f # e => i_key'[f] = i_key[f] /\ i_dirt'[f] = i_dirt[f]
                                       /\ i_mtime'[f] = i_mtime[f]
        /\ i_key'[e] = NoKey /\ ~i_dirt'[e]
    <3>1. i_key' = [i_key EXCEPT ![e] = NoKey] /\ i_dirt' = [i_dirt EXCEPT ![e] = FALSE]
      BY <1>1, <1>4
    <3> QED BY <1>1, <1>2, <3>1, TableTypes
  <2>2. /\ \A k \in Keys : k # i_key[e] => d_time'[k] = d_time[k]
        /\ i_key[e] \in Keys => d_time'[i_key[e]]
    BY <1>1, <1>4, TimeTypes
  <2>3. unmarked' = unmarked \ {i_key[e]} /\ empty' = empty /\ pc[p] # "read_bread"
    BY <1>1, <1>4
  <2> HIDE DEF e
  <2> QED BY <1>2, <1>3, <2>1, <2>2, <2>3, TimeForgotten
<1>5. CASE ~gone
  <2>1. i_key' = i_key /\ i_dirt' = i_dirt /\ unmarked' = unmarked
    BY <1>1, <1>5
  <2>2. d_time' = d_time
    BY <1>1, <1>5, TimeTypes
  <2> QED BY <1>1, <1>3, <2>1, <2>2, TimeSame
<1> QED BY <1>4, <1>5

(* A change marks the inode, and with it the time that the entry has. *)
LEMMA TimeChange ==
  ASSUME Inv, TimeInv, NEW p \in Procs, Change(p) \/ Unlink(p)
  PROVE  TimeInv'
<1> DEFINE e == inode[p]
<1>1. /\ UNCHANGED <<i_key, i_mtime, d_time, pc, inode, empty>>
      /\ pc[p] = "user" /\ e # NoEntry
      /\ i_dirt' = [i_dirt EXCEPT ![e] = TRUE]
      /\ unmarked' = IF i_mtime[e] THEN unmarked \ {i_key[e]} ELSE unmarked
  BY DEF Change, Unlink, Latest, Holds, callVars
<1>2. e \in Entries /\ Refers(p, e)
  BY <1>1, GivenCount
<1>3. \A q \in Procs : empty[q] # e /\ ~(pc[q] = "read_bread" /\ inode[q] = e)
  <2>1. empty[p] # e
    BY <1>1, <1>2, NoSuchEntry DEF Inv, Local
  <2> QED BY <1>1, <1>2, <2>1, Alone
<1>4. /\ i_dirt'[e]
      /\ \A f \in Entries : f # e => i_dirt'[f] = i_dirt[f]
      /\ \A k \in Keys : k \notin unmarked' => k \notin unmarked \/ (k = i_key[e] /\ i_mtime[e])
  BY <1>1, <1>2, TableTypes
<1>5. \A q \in Procs : (empty[q] # NoEntry => empty[q] \in Entries)
                    /\ (pc[q] = "read_bread" => inode[q] \in Entries)
  BY HasEntry DEF Inv, TypeOK
<1> HIDE DEF e
<1>6. Fresh'
  BY <1>1, <1>3, <1>4, <1>5 DEF TimeInv, Fresh
<1>7. Timed'
  <2> SUFFICES ASSUME NEW f \in Entries, i_key[f] \in Keys, i_key[f] \notin unmarked', ~i_mtime[f]
               PROVE  \E q \in Procs : pc[q] = "read_bread" /\ inode[q] = f
    BY <1>1 DEF Timed
  <2>1. i_key[f] \notin unmarked
    <3>1. i_key[f] = i_key[e] => f = e
      BY <1>2, NoSuchEntry DEF Inv, TableInv, UniqueInode
    <3> QED BY <1>4, <3>1
  <2> QED BY <2>1 DEF TimeInv, Timed
<1>8. TimeKept'
  <2> SUFFICES ASSUME NEW k \in Keys, k \notin unmarked', ~d_time[k]
               PROVE  \E f \in Entries : i_key[f] = k /\ i_dirt'[f] /\ i_mtime[f]
    BY <1>1 DEF TimeKept
  <2>1. CASE k \notin unmarked
    <3>1. PICK f \in Entries : i_key[f] = k /\ i_dirt[f] /\ i_mtime[f]
      BY <2>1 DEF TimeInv, TimeKept
    <3> QED BY <1>4, <3>1
  <2>2. CASE k = i_key[e] /\ i_mtime[e]
    BY <1>2, <1>4, <2>2
  <2> QED BY <1>4, <2>1, <2>2
<1> QED BY <1>6, <1>7, <1>8 DEF TimeInv

(* A write to a clean inode leaves it unmarked, one to a dirty inode has   *)
(* its time saved with the rest.                                           *)
LEMMA TimeStamp ==
  ASSUME Inv, TimeInv, NEW p \in Procs, Stamp(p)
  PROVE  TimeInv'
<1> DEFINE e == inode[p]
<1>1. /\ UNCHANGED <<i_key, i_dirt, pc, inode, empty>>
      /\ pc[p] = "user" /\ e # NoEntry
      /\ i_mtime' = [f \in Entries |-> IF f = e THEN TRUE ELSE i_mtime[f] /\ i_key[f] # i_key[e]]
      /\ d_time' = [k \in Keys |-> d_time[k] /\ k # i_key[e]]
      /\ unmarked' = IF i_dirt[e] THEN unmarked \ {i_key[e]}
                     ELSE unmarked \cup ({i_key[e]} \cap Keys)
  BY DEF Stamp, Holds, callVars, tabVars
<1>2. e \in Entries
  BY <1>1, GivenCount
<1>3. \A f \in Entries : f # e => i_key[f] # i_key[e] \/ i_key[f] = NoKey
  BY <1>2 DEF Inv, TableInv, UniqueInode
<1>4. /\ i_mtime'[e]
      /\ \A f \in Entries : f # e /\ i_key[f] # NoKey => i_mtime'[f] = i_mtime[f]
      /\ \A k \in Keys : k # i_key[e] => d_time'[k] = d_time[k] /\ (k \in unmarked' <=> k \in unmarked)
      /\ i_key[e] \in Keys /\ i_key[e] \notin unmarked' => i_dirt[e]
  BY <1>1, <1>2, <1>3, TimeTypes
<1> HIDE DEF e
<1>5. Fresh'
  BY <1>1 DEF TimeInv, Fresh
<1>6. Timed'
  <2> SUFFICES ASSUME NEW f \in Entries, i_key[f] \in Keys, i_key[f] \notin unmarked', ~i_mtime'[f]
               PROVE  \E q \in Procs : pc[q] = "read_bread" /\ inode[q] = f
    BY <1>1 DEF Timed
  <2>1. f # e /\ i_key[f] # NoKey
    BY <1>4, NoSuchEntry
  <2> QED BY <1>3, <1>4, <2>1 DEF TimeInv, Timed
<1>7. TimeKept'
  <2> SUFFICES ASSUME NEW k \in Keys, k \notin unmarked', ~d_time'[k]
               PROVE  \E f \in Entries : i_key[f] = k /\ i_dirt[f] /\ i_mtime'[f]
    BY <1>1 DEF TimeKept
  <2>1. CASE k = i_key[e]
    BY <1>2, <1>4, <2>1
  <2>2. CASE k # i_key[e]
    <3>1. PICK f \in Entries : i_key[f] = k /\ i_dirt[f] /\ i_mtime[f]
      BY <1>4, <2>2 DEF TimeInv, TimeKept
    <3> QED BY <1>4, <2>2, <3>1, NoSuchEntry
  <2> QED BY <2>1, <2>2
<1> QED BY <1>5, <1>6, <1>7 DEF TimeInv

LEMMA TimeInit == Init => TimeInv
<1> SUFFICES ASSUME Init PROVE TimeInv
  OBVIOUS
<1>1. Fresh
  BY DEF Init, Fresh
<1>2. Timed /\ TimeKept
  BY NoSuchEntry DEF Init, Timed, TimeKept
<1> QED BY <1>1, <1>2 DEF TimeInv

LEMMA TimeNext == Inv /\ TimeInv /\ [Next]_vars => TimeInv'
<1> SUFFICES ASSUME Inv, TimeInv, [Next]_vars PROVE TimeInv'
  OBVIOUS
<1>1. CASE UNCHANGED vars
  BY <1>1, TimeStill DEF vars, tabVars, callVars, dataVars
<1>2. ASSUME NEW p \in Procs, Call(p) \/ Kernel(p) \/ Resume(p) PROVE TimeInv'
  BY <1>2, TimeQuiet, TimeEmptyFound, TimeScanMissed, TimeRead, TimeWrite, TimeFree,
     TimeInvalidate, TimeChange, TimeStamp
     DEF Call, Kernel, get_empty_inode, iget, iput, sync_inodes
<1> QED BY <1>1, <1>2 DEF Next

(* No change of an inode is lost, by iput, sync_inodes or get_empty_inode, *)
(* and every holder sees the latest one: iget waits for read_inode.  The   *)
(* time of a write is among them if the write finds or leaves i_dirt set;  *)
(* that of an overwrite of a clean inode is not.                           *)
THEOREM NoLostUpdateHolds == Spec => []NoLostUpdate
<1>1. ASSUME Inv, TimeInv PROVE NoLostUpdate
  <2>1. linked \subseteq Keys
    BY <1>1 DEF Inv, TypeOK
  <2>2. \A k \in linked : disk_cur[k] \/ \E e \in Entries : i_key[e] = k /\ i_dirt[e] /\ i_cur[e]
    BY <1>1, <2>1 DEF Inv, DataInv, Kept
  <2>3. \A k \in linked \ unmarked :
          d_time[k] \/ \E e \in Entries : i_key[e] = k /\ i_dirt[e] /\ i_mtime[e]
    BY <1>1, <2>1 DEF TimeInv, TimeKept
  <2>4. ASSUME NEW p \in Procs, Holds(p), i_key[inode[p]] # NoKey
        PROVE  /\ i_cur[inode[p]]
               /\ i_key[inode[p]] \notin unmarked => i_mtime[inode[p]]
    <3>1. inode[p] \in Entries /\ Refers(p, inode[p]) /\ pc[p] = "user"
      BY <1>1, <2>4, GivenCount DEF Holds
    <3>2. \A q \in Procs : ~(pc[q] = "read_bread" /\ inode[q] = inode[p])
      BY <1>1, <3>1, Alone
    <3>3. i_key[inode[p]] \in Keys
      BY <1>1, <2>4, <3>1 DEF Inv, TypeOK
    <3> QED BY <1>1, <2>4, <3>1, <3>2, <3>3 DEF Inv, DataInv, Current, TimeInv, Timed
  <2> QED BY <2>2, <2>3, <2>4 DEF NoLostUpdate
<1>2. Spec => []TimeInv
  BY Invariant, TimeInit, TimeNext, PTL DEF Spec
<1> QED BY <1>1, <1>2, Invariant, PTL

-----------------------------------------------------------------------------
(* The wait queues.                                                        *)

(* A process in user mode or with the processor is in no queue and in no   *)
(* sleep_on.                                                               *)
Upright ==
  \A p \in Procs : current = p \/ pc[p] = "user" =>
    state[p] = TASK_RUNNING /\ tmp[p] = Nobody

(* A process is linked at most once, as the head of a queue or as the next *)
(* of another, and only while it sleeps.                                   *)
Linked ==
  /\ \A e, f \in Entries : i_wait[e] = i_wait[f] /\ i_wait[e] # Nobody => e = f
  /\ \A p, q \in Procs : tmp[p] = tmp[q] /\ tmp[p] # Nobody => p = q
  /\ \A e \in Entries, p \in Procs : i_wait[e] = tmp[p] => i_wait[e] = Nobody
  /\ \A e \in Entries, p \in Procs : i_wait[e] = p => state[p] = TASK_UNINTERRUPTIBLE
  /\ \A p, q \in Procs : tmp[q] = p => state[p] = TASK_UNINTERRUPTIBLE

QueueInv == Upright /\ Linked /\ QueuesKept

(* A step of p that touches no queue and unlocks no entry. *)
QueuesSame(p) ==
  /\ UNCHANGED <<state, tmp, i_wait>>
  /\ \A e \in Entries : i_lock[e] => i_lock'[e]
  /\ current' = current \/ current' = Nobody \/ (current' = p /\ pc[p] = "user")
  /\ \A q \in Procs : pc'[q] = "user" => pc[q] = "user" \/ current = q

(* Such a step keeps the queues. *)
LEMMA QueuesSameKeeps ==
  ASSUME NEW p \in Procs, QueueInv, QueuesSame(p)
  PROVE  QueueInv'
<1>1. Upright'
  <2> SUFFICES ASSUME NEW q \in Procs, current' = q \/ pc'[q] = "user"
               PROVE  state'[q] = TASK_RUNNING /\ tmp'[q] = Nobody
    BY DEF Upright
  <2>1. current = q \/ pc[q] = "user"
    BY ProcsAssumption DEF QueuesSame
  <2> QED BY <2>1 DEF QueuesSame, QueueInv, Upright
<1>2. Linked'
  BY DEF QueuesSame, QueueInv, Linked
<1>3. QueuesKept'
  BY DEF QueuesSame, QueueInv, QueuesKept
<1> QED BY <1>1, <1>2, <1>3 DEF QueueInv

(* The calls start with the processor free. *)
LEMMA QueuesCall ==
  ASSUME TypeOK, NEW p \in Procs, Call(p)
  PROVE  QueuesSame(p)
<1> USE DEF QueuesSame, TypeOK, Goto, lockVars, cpuVars
<1>1. CASE Iget(p)
  BY <1>1 DEF Iget
<1>2. CASE Iput(p)
  BY <1>2 DEF Iput
<1>3. CASE Sync(p)
  BY <1>3 DEF Sync, StartWalk, Walks
<1>4. CASE Invalidate(p)
  BY <1>4 DEF Invalidate, StartWalk, Walks
<1>5. CASE Change(p)
  BY <1>5 DEF Change
<1>6. CASE Unlink(p)
  BY <1>6 DEF Unlink
<1>7. CASE Stamp(p)
  BY <1>7 DEF Stamp
<1> QED BY <1>1, <1>2, <1>3, <1>4, <1>5, <1>6, <1>7 DEF Call

(* The memset of an entry that is not locked forgets nobody. *)
LEMMA ClearForgetsNobody ==
  ASSUME TypeOK, QueuesKept, NEW e \in Entries, ~i_lock[e], NEW n, Clear(e, n)
  PROVE  i_wait' = i_wait /\ \A f \in Entries : i_lock[f] => i_lock'[f]
<1>1. i_wait[e] = Nobody /\ i_wait' = [i_wait EXCEPT ![e] = Nobody]
  BY DEF QueuesKept, Clear
<1>2. i_wait' = i_wait
  BY <1>1 DEF TypeOK
<1>3. i_lock' = [i_lock EXCEPT ![e] = FALSE]
  BY DEF Clear
<1> QED BY <1>2, <1>3 DEF TypeOK

(* What a process does in the kernel, its waits and its unlocks aside. *)
LEMMA QueuesKernel ==
  ASSUME TypeOK, Local, QueueInv, NEW p \in Procs, Kernel(p)
  PROVE  wait_on_inode(p) \/ read_inode(p) \/ write_inode(p) \/ QueuesSame(p)
<1> USE DEF QueuesSame, Goto, Runs, Unlocked, lockVars, cpuVars
<1>a. /\ pc \in [Procs -> Labels] /\ i_lock \in [Entries -> BOOLEAN]
  BY DEF TypeOK
<1>1. ASSUME EmptyFound(p) PROVE QueuesSame(p)
  <2>1. PICK e \in Clean : Clear(e, 1)
    BY <1>1 DEF EmptyFound
  <2>2. e \in Entries /\ ~i_lock[e]
    BY DEF Clean, Unused
  <2>3. i_wait' = i_wait /\ \A f \in Entries : i_lock[f] => i_lock'[f]
    BY <2>1, <2>2, ClearForgetsNobody DEF QueueInv
  <2> QED BY <1>1, <1>a, <2>3 DEF EmptyFound
<1>2. ASSUME FreeInode(p) PROVE QueuesSame(p)
  <2>1. inode[p] \in Entries /\ ~i_lock[inode[p]] /\ Clear(inode[p], 0)
    BY <1>2, HasEntry DEF FreeInode
  <2>2. i_wait' = i_wait /\ \A f \in Entries : i_lock[f] => i_lock'[f]
    BY <2>1, ClearForgetsNobody DEF QueueInv
  <2> QED BY <1>2, <1>a, <2>2 DEF FreeInode, Return
<1>3. ASSUME EmptyLoops(p) PROVE QueuesSame(p)
  BY <1>3 DEF EmptyLoops
<1>4. ASSUME ScanFound(p) \/ FoundChanged(p) PROVE QueuesSame(p)
  BY <1>4, <1>a DEF ScanFound, FoundChanged
<1>5. ASSUME Found(p) PROVE QueuesSame(p)
  BY <1>5, <1>a DEF Found, Return
<1>6. ASSUME ScanMissed(p) PROVE QueuesSame(p)
  BY <1>6, <1>a DEF ScanMissed
<1>7. ASSUME Given(p), current = p PROVE QueuesSame(p)
  BY <1>7, <1>a DEF Given, Return
<1>8. ASSUME PutRemoved(p) \/ PutShared(p) \/ PutClean(p) PROVE QueuesSame(p)
  <2>1. Given(p) /\ current = p
    BY <1>8 DEF PutRemoved, PutShared, PutClean, Repeat
  <2> QED BY <1>7, <2>1
<1>9. ASSUME PutDirty(p) \/ SyncDirty(p) PROVE QueuesSame(p)
  <2>1. WriteLock(p) /\ current = p
    BY <1>9 DEF PutDirty, SyncDirty, Repeat
  <2> QED BY <1>a, <2>1 DEF WriteLock
<1>10. ASSUME PutUnlinked(p) \/ FreeInUse(p) PROVE QueuesSame(p)
  BY <1>10, <1>a DEF PutUnlinked, FreeInUse, Repeat
<1>11. ASSUME Step(p, "sync") \/ Step(p, "invalidate"), current = p,
              UNCHANGED <<state, tmp, i_wait, i_lock>>
       PROVE  QueuesSame(p)
  BY <1>11, <1>a DEF Step, Return
<1>12. ASSUME SyncNext(p) PROVE QueuesSame(p)
  <2>1. Step(p, "sync") /\ current = p /\ UNCHANGED <<state, tmp, i_wait, i_lock>>
    BY <1>12 DEF SyncNext
  <2> QED BY <1>11, <2>1
<1>13. ASSUME InvalidateNext(p) PROVE QueuesSame(p)
  <2>1. Step(p, "invalidate") /\ current = p /\ UNCHANGED <<state, tmp, i_wait, i_lock>>
    BY <1>13 DEF InvalidateNext
  <2> QED BY <1>11, <2>1
<1> HIDE DEF QueuesSame
<1> QED
  BY <1>1, <1>2, <1>3, <1>4, <1>5, <1>6, <1>8, <1>9, <1>10, <1>12, <1>13
  DEF Kernel, get_empty_inode, iget, iput, sync_inodes

(* sleep_on: the head of the queue becomes the next of the new one. *)
LEMMA QueuesWait ==
  ASSUME TypeOK, Local, QueueInv, NEW p \in Procs, wait_on_inode(p)
  PROVE  QueueInv'
<1> DEFINE e == inode[p]
           h == i_wait[e]
<1>1. /\ current = p /\ pc[p] # "user" /\ pc' = pc /\ current' = Nobody /\ i_lock' = i_lock
      /\ i_lock[e] /\ tmp' = [tmp EXCEPT ![p] = h] /\ i_wait' = [i_wait EXCEPT ![e] = p]
      /\ state' = [state EXCEPT ![p] = TASK_UNINTERRUPTIBLE]
  BY DEF wait_on_inode, sleep_on, Waiting
<1>2. e \in Entries
  BY <1>1, HasEntry DEF wait_on_inode, Waiting
<1>3. state[p] = TASK_RUNNING /\ tmp[p] = Nobody /\ p # Nobody
  BY <1>1, ProcsAssumption DEF QueueInv, Upright
<1>4. (\A f \in Entries : i_wait[f] # p) /\ (\A q \in Procs : tmp[q] # p)
  BY <1>3 DEF QueueInv, Linked, TASK_RUNNING, TASK_UNINTERRUPTIBLE
<1>5. /\ tmp'[p] = h /\ \A q \in Procs \ {p} : tmp'[q] = tmp[q]
      /\ i_wait'[e] = p /\ \A f \in Entries \ {e} : i_wait'[f] = i_wait[f]
      /\ state'[p] = TASK_UNINTERRUPTIBLE /\ \A q \in Procs \ {p} : state'[q] = state[q]
  BY <1>1, <1>2 DEF TypeOK
<1>6. h # p /\ (\A q \in Procs : tmp[q] = h => h = Nobody)
      /\ (\A f \in Entries \ {e} : i_wait[f] = h => h = Nobody)
      /\ (h \in Procs => state[h] = TASK_UNINTERRUPTIBLE)
  BY <1>2, <1>4 DEF QueueInv, Linked
<1> HIDE DEF e, h
<1>7. Upright'
  BY <1>1, <1>3, <1>5, ProcsAssumption DEF QueueInv, Upright
<1>8. Linked'
  <2>1. ASSUME NEW f \in Entries, NEW g \in Entries, i_wait'[f] = i_wait'[g], i_wait'[f] # Nobody
        PROVE  f = g
    BY <1>4, <1>5, <2>1 DEF QueueInv, Linked
  <2>2. ASSUME NEW q \in Procs, NEW r \in Procs, tmp'[q] = tmp'[r], tmp'[q] # Nobody
        PROVE  q = r
    BY <1>5, <1>6, <2>2 DEF QueueInv, Linked
  <2>3. ASSUME NEW f \in Entries, NEW q \in Procs, i_wait'[f] = tmp'[q]
        PROVE  i_wait'[f] = Nobody
    BY <1>4, <1>5, <1>6, <2>3 DEF QueueInv, Linked
  <2>4. ASSUME NEW f \in Entries, NEW q \in Procs, i_wait'[f] = q
        PROVE  state'[q] = TASK_UNINTERRUPTIBLE
    BY <1>5, <2>4 DEF QueueInv, Linked
  <2>5. ASSUME NEW q \in Procs, NEW r \in Procs, tmp'[r] = q
        PROVE  state'[q] = TASK_UNINTERRUPTIBLE
    BY <1>5, <1>6, <2>5 DEF QueueInv, Linked
  <2> QED BY <2>1, <2>2, <2>3, <2>4, <2>5 DEF Linked
<1>9. QueuesKept'
  <2>1. ASSUME NEW q \in Procs, state'[q] = TASK_UNINTERRUPTIBLE
        PROVE  (\E f \in Entries : i_wait'[f] = q) \/ (\E r \in Procs \ {q} : tmp'[r] = q)
    <3>1. CASE q = p
      BY <1>2, <1>5, <3>1
    <3>2. CASE q = h /\ q # p
      BY <1>5, <3>2
    <3>3. CASE q # p /\ q # h
      <4>1. (\E f \in Entries : i_wait[f] = q) \/ (\E r \in Procs \ {q} : tmp[r] = q)
        BY <1>5, <2>1, <3>3 DEF QueueInv, QueuesKept
      <4>2. ASSUME NEW f \in Entries, i_wait[f] = q PROVE i_wait'[f] = q
        BY <1>5, <3>3, <4>2 DEF h
      <4>3. ASSUME NEW r \in Procs \ {q}, tmp[r] = q PROVE tmp'[r] = q
        BY <1>3, <1>5, <4>3, ProcsAssumption
      <4> QED BY <4>1, <4>2, <4>3
    <3> QED BY <3>1, <3>2, <3>3
  <2>2. \A f \in Entries : ~i_lock'[f] => i_wait'[f] = Nobody
    BY <1>1, <1>5 DEF QueueInv, QueuesKept
  <2> QED BY <2>1, <2>2 DEF QueuesKept
<1> QED BY <1>7, <1>8, <1>9 DEF QueueInv

(* unlock_inode: the head of the queue is woken, and leads the others. *)
LEMMA QueuesUnlock ==
  ASSUME TypeOK, Local, QueueInv, NEW p \in Procs, read_inode(p) \/ write_inode(p)
  PROVE  QueueInv'
<1> DEFINE e == inode[p]
           h == i_wait[e]
<1>1. /\ current = p /\ Unlock(p) /\ tmp' = tmp
      /\ current' \in {p, Nobody} /\ \A q \in Procs \ {p} : pc'[q] = pc[q]
  BY DEF read_inode, write_inode, Runs, Return, Goto, TypeOK
<1>2. e \in Entries
  BY HasEntry DEF read_inode, write_inode, Runs
<1>3. /\ ~i_lock'[e] /\ \A f \in Entries \ {e} : i_lock'[f] = i_lock[f]
      /\ i_wait'[e] = Nobody /\ \A f \in Entries \ {e} : i_wait'[f] = i_wait[f]
  BY <1>1, <1>2 DEF Unlock, wake_up, TypeOK
<1>4. /\ h # Nobody => state'[h] = TASK_RUNNING
      /\ \A q \in Procs : q # h => state'[q] = state[q]
  BY <1>1, <1>2 DEF Unlock, wake_up, TypeOK
<1>5. (\A q \in Procs : tmp[q] = h => h = Nobody) /\ (\A f \in Entries \ {e} : i_wait[f] = h => h = Nobody)
      /\ h \in Procs \cup {Nobody}
  BY <1>2 DEF QueueInv, Linked, TypeOK
<1> HIDE DEF e, h
<1>6. Upright'
  <2> SUFFICES ASSUME NEW q \in Procs, current' = q \/ pc'[q] = "user"
               PROVE  state'[q] = TASK_RUNNING /\ tmp'[q] = Nobody
    BY DEF Upright
  <2>1. current = q \/ pc[q] = "user"
    BY <1>1, ProcsAssumption
  <2> QED BY <1>1, <1>4, <2>1, ProcsAssumption DEF QueueInv, Upright
<1>7. Linked'
  <2>1. ASSUME NEW f \in Entries, NEW g \in Entries, i_wait'[f] = i_wait'[g], i_wait'[f] # Nobody
        PROVE  f = g
    BY <1>3, <2>1 DEF QueueInv, Linked
  <2>2. ASSUME NEW f \in Entries, NEW q \in Procs, i_wait'[f] = tmp'[q]
        PROVE  i_wait'[f] = Nobody
    BY <1>1, <1>3, <2>2 DEF QueueInv, Linked
  <2>3. ASSUME NEW f \in Entries, NEW q \in Procs, i_wait'[f] = q
        PROVE  state'[q] = TASK_UNINTERRUPTIBLE
    BY <1>3, <1>4, <1>5, <2>3, ProcsAssumption DEF QueueInv, Linked
  <2>4. ASSUME NEW q \in Procs, NEW r \in Procs, tmp'[r] = q
        PROVE  state'[q] = TASK_UNINTERRUPTIBLE
    BY <1>1, <1>4, <1>5, <2>4, ProcsAssumption DEF QueueInv, Linked
  <2>5. \A q, r \in Procs : tmp'[q] = tmp'[r] /\ tmp'[q] # Nobody => q = r
    BY <1>1 DEF QueueInv, Linked
  <2> QED BY <2>1, <2>2, <2>3, <2>4, <2>5 DEF Linked
<1>8. QueuesKept'
  <2>1. ASSUME NEW q \in Procs, state'[q] = TASK_UNINTERRUPTIBLE
        PROVE  (\E f \in Entries : i_wait'[f] = q) \/ (\E r \in Procs \ {q} : tmp'[r] = q)
    <3>1. q # h
      BY <1>4, <2>1, ProcsAssumption DEF TASK_RUNNING, TASK_UNINTERRUPTIBLE
    <3>2. (\E f \in Entries : i_wait[f] = q) \/ (\E r \in Procs \ {q} : tmp[r] = q)
      BY <1>4, <2>1, <3>1 DEF QueueInv, QueuesKept
    <3>3. ASSUME NEW f \in Entries, i_wait[f] = q PROVE i_wait'[f] = q
      BY <1>3, <3>1, <3>3 DEF h
    <3> QED BY <1>1, <3>2, <3>3
  <2>2. \A f \in Entries : ~i_lock'[f] => i_wait'[f] = Nobody
    BY <1>3 DEF QueueInv, QueuesKept
  <2> QED BY <2>1, <2>2 DEF QueuesKept
<1> QED BY <1>6, <1>7, <1>8 DEF QueueInv

(* The end of sleep_on: the next sleeper is woken in its turn. *)
LEMMA QueuesResume ==
  ASSUME TypeOK, QueueInv, NEW p \in Procs, Resume(p)
  PROVE  QueueInv'
<1> DEFINE n == tmp[p]
<1>1. /\ current = Nobody /\ pc[p] # "user" /\ state[p] = TASK_RUNNING /\ current' = p
      /\ state' = WakeNext(p) /\ tmp' = [tmp EXCEPT ![p] = Nobody]
      /\ UNCHANGED <<i_wait, i_lock, pc>>
  BY DEF Resume, lockVars
<1>2. /\ n # Nobody => state'[n] = TASK_RUNNING
      /\ \A q \in Procs : q # n => state'[q] = state[q]
      /\ n \in Procs \cup {Nobody}
  BY <1>1 DEF WakeNext, TypeOK
<1>3. tmp'[p] = Nobody /\ \A q \in Procs \ {p} : tmp'[q] = tmp[q]
  BY <1>1 DEF TypeOK
<1>4. (\A q \in Procs \ {p} : tmp[q] = n => n = Nobody) /\ (\A f \in Entries : i_wait[f] = n => n = Nobody)
  BY DEF QueueInv, Linked
<1> HIDE DEF n
<1>5. Upright'
  BY <1>1, <1>2, <1>3, ProcsAssumption DEF QueueInv, Upright
<1>6. Linked'
  <2>1. ASSUME NEW q \in Procs, NEW r \in Procs, tmp'[q] = tmp'[r], tmp'[q] # Nobody
        PROVE  q = r
    BY <1>3, <2>1 DEF QueueInv, Linked
  <2>2. ASSUME NEW f \in Entries, NEW q \in Procs, i_wait'[f] = tmp'[q]
        PROVE  i_wait'[f] = Nobody
    BY <1>1, <1>3, <2>2 DEF QueueInv, Linked
  <2>3. ASSUME NEW f \in Entries, NEW q \in Procs, i_wait'[f] = q
        PROVE  state'[q] = TASK_UNINTERRUPTIBLE
    BY <1>1, <1>2, <1>4, <2>3, ProcsAssumption DEF QueueInv, Linked
  <2>4. ASSUME NEW q \in Procs, NEW r \in Procs, tmp'[r] = q
        PROVE  state'[q] = TASK_UNINTERRUPTIBLE
    BY <1>2, <1>3, <1>4, <2>4, ProcsAssumption DEF QueueInv, Linked
  <2>5. \A f, g \in Entries : i_wait'[f] = i_wait'[g] /\ i_wait'[f] # Nobody => f = g
    BY <1>1 DEF QueueInv, Linked
  <2> QED BY <2>1, <2>2, <2>3, <2>4, <2>5 DEF Linked
<1>7. QueuesKept'
  <2>1. ASSUME NEW q \in Procs, state'[q] = TASK_UNINTERRUPTIBLE
        PROVE  (\E f \in Entries : i_wait'[f] = q) \/ (\E r \in Procs \ {q} : tmp'[r] = q)
    <3>1. q # n
      BY <1>2, <2>1, ProcsAssumption DEF TASK_RUNNING, TASK_UNINTERRUPTIBLE
    <3>2. (\E f \in Entries : i_wait[f] = q) \/ (\E r \in Procs \ {q} : tmp[r] = q)
      BY <1>2, <2>1, <3>1 DEF QueueInv, QueuesKept
    <3>3. ASSUME NEW r \in Procs \ {q}, tmp[r] = q PROVE tmp'[r] = q
      BY <1>3, <3>1, <3>3 DEF n
    <3> QED BY <1>1, <3>2, <3>3
  <2>2. \A f \in Entries : ~i_lock'[f] => i_wait'[f] = Nobody
    BY <1>1 DEF QueueInv, QueuesKept
  <2> QED BY <2>1, <2>2 DEF QueuesKept
<1> QED BY <1>5, <1>6, <1>7 DEF QueueInv

(* QueueInv holds at the start, *)
LEMMA QueueInit == Init => QueueInv
<1> SUFFICES ASSUME Init PROVE QueueInv
  OBVIOUS
<1>1. Upright
  BY DEF Init, Upright
<1>2. Linked
  BY ProcsAssumption DEF Init, Linked
<1>3. QueuesKept
  BY DEF Init, QueuesKept, TASK_RUNNING, TASK_UNINTERRUPTIBLE
<1> QED BY <1>1, <1>2, <1>3 DEF QueueInv

(* and every step keeps it. *)
LEMMA QueueNext == Inv /\ QueueInv /\ [Next]_vars => QueueInv'
<1> SUFFICES ASSUME Inv, QueueInv, [Next]_vars PROVE QueueInv'
  OBVIOUS
<1>1. TypeOK /\ Local
  BY DEF Inv
<1>2. ASSUME NEW p \in Procs, Call(p) \/ Kernel(p) \/ Resume(p)
      PROVE  QueueInv'
  BY <1>1, <1>2, QueuesCall, QueuesKernel, QueuesSameKeeps, QueuesWait, QueuesUnlock, QueuesResume
<1>3. CASE UNCHANGED vars
  <2>1. UNCHANGED <<state, tmp, i_wait, i_lock, current, pc>>
    BY <1>3 DEF vars, lockVars, cpuVars
  <2>2. Upright' /\ Linked' /\ QueuesKept'
    BY <2>1 DEF QueueInv, Upright, Linked, QueuesKept
  <2> QED BY <2>2 DEF QueueInv
<1> QED BY <1>2, <1>3 DEF Next

(* No sleeper is forgotten: each is the head of a queue or the next one of *)
(* a process that is still in sleep_on, and an entry that is not locked    *)
(* has no queue, so that the memset of get_empty_inode and of free_inode   *)
(* loses nobody, however many processes wait for however many entries.     *)
THEOREM QueuesKeptHolds == Spec => []QueuesKept
<1>1. QueueInv => QueuesKept
  BY DEF QueueInv
<1> QED BY <1>1, InvInit, InvNext, QueueInit, QueueNext, PTL DEF Spec
=============================================================================
