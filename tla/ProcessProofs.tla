--------------------------- MODULE ProcessProofs ----------------------------
(***************************************************************************)
(* Proofs about Process, for every number of tasks and pids: the types,    *)
(* that every process has one father which has not begun to exit, and that *)
(* no end of a child is missed by a process asleep in waitpid.             *)
(***************************************************************************)
EXTENDS Process, FiniteSetTheorems, WellFoundedInduction, TLAPS

-----------------------------------------------------------------------------
(* The inductive invariant                                                 *)

(* What the label of a process says of its state. *)
Labelled ==
  \A i \in Tasks : /\ state[i] = "ZOMBIE" <=> pc[i] = "dead"
                   /\ state[i] = "FREE" => pc[i] = "user"
                   /\ state[i] = "UNINTERRUPTIBLE" => pc[i] = "closing"

CurrentRuns == current # Nobody => state[current] = "RUNNING"

(* "assumption task[1] is always init": it has begun neither to exit, nor  *)
(* is anything pending, or kept by tty_read, that would end it.            *)
InitUnharmed == signal[init] \subseteq {SIGCHLD} /\ ~alarm[init] /\ ~oldalarm[init]

InitStays == Alive(init) /\ pid[init] = 1 /\ InitUnharmed

Inv == TypeOK /\ Labelled /\ CurrentRuns /\ InitStays /\ FatherKnown /\ NoMissedChild

(* Pids are unique among the tasks that exist. *)
UniquePids ==
  \A i, j \in Tasks : Exists(i) /\ Exists(j) /\ i # j => pid[i] # pid[j]

LEMMA PidsUnique ==
  ASSUME FatherKnown
  PROVE  UniquePids
<1> SUFFICES ASSUME NEW i \in Tasks, NEW j \in Tasks, Exists(i), Exists(j), i # j
             PROVE  pid[i] # pid[j]
  BY DEF UniquePids
<1>1. CASE i # init
  BY <1>1 DEF FatherKnown
<1>2. CASE j # init
  BY <1>2 DEF FatherKnown
<1> QED BY <1>1, <1>2

LEMMA TaskFacts ==
  /\ Tasks \subseteq Nat /\ init \in Tasks /\ Nobody \notin Tasks
  /\ IsFiniteSet(Tasks) /\ Cardinality(Tasks) = NR_TASKS
<1>1. NR_TASKS \in Nat /\ 1 <= NR_TASKS
  BY TasksAssumption
<1>2. IsFiniteSet(Tasks) /\ Cardinality(Tasks) = NR_TASKS
  BY <1>1, FS_Interval DEF Tasks
<1> QED BY <1>1, <1>2 DEF Tasks, init, Nobody

-----------------------------------------------------------------------------
(* find_empty_process finds a pid that no task has: there are more pids    *)
(* than tasks.                                                             *)

(* A non-empty set of natural numbers has a least element. *)
LEMMA LeastElement ==
  ASSUME NEW T, T \subseteq Nat, T # {}
  PROVE  \E x \in T : \A y \in T : x <= y
<1>1. PICK x \in T : \A y \in T : ~(<<y, x>> \in OpToRel(<, Nat))
  BY NatLessThanWellFounded, WFMin
<1>2. \A y \in T : <<y, x>> \in OpToRel(<, Nat) <=> y < x
  BY DEF OpToRel
<1>3. \A y \in T : x <= y
  <2> TAKE y \in T
  <2>1. ~(y < x)
    BY <1>1, <1>2
  <2>2. x \in Nat /\ y \in Nat
    OBVIOUS
  <2> QED BY <2>1, <2>2
<1> QED BY <1>3

Unused(p) == \A i \in Tasks : Exists(i) => pid[i] # p

LEMMA SomePidUnused ==
  \E p \in 1 .. MaxPid : Unused(p)
<1> SUFFICES ASSUME \A p \in 1 .. MaxPid : ~Unused(p)
             PROVE  FALSE
  OBVIOUS
<1> DEFINE owner == [p \in 1 .. MaxPid |-> CHOOSE i \in Tasks : Exists(i) /\ pid[i] = p]
<1>1. \A p \in 1 .. MaxPid : owner[p] \in Tasks /\ pid[owner[p]] = p
  <2> TAKE p \in 1 .. MaxPid
  <2>1. \E i \in Tasks : Exists(i) /\ pid[i] = p
    BY DEF Unused
  <2> QED BY <2>1
<1>2. owner \in [1 .. MaxPid -> Tasks]
  BY <1>1
<1> HIDE DEF owner
<1>3. MaxPid \in Nat /\ NR_TASKS \in Nat /\ NR_TASKS < MaxPid
  BY PidsAssumption, TasksAssumption
<1>4. IsFiniteSet(1 .. MaxPid) /\ Cardinality(1 .. MaxPid) = MaxPid
  BY <1>3, FS_Interval
<1>5. Cardinality(Tasks) < Cardinality(1 .. MaxPid)
  BY <1>3, <1>4, TaskFacts
<1>6. \E x, y \in 1 .. MaxPid : x # y /\ owner[x] = owner[y]
  BY <1>2, <1>4, <1>5, TaskFacts, FS_PigeonHole
<1> QED BY <1>1, <1>6

LEMMA PidsGoRound ==
  \A a \in Nat : a < 2 * MaxPid =>
    a % MaxPid = IF a < MaxPid THEN a ELSE a - MaxPid
<1>1. MaxPid \in Nat /\ MaxPid > 0
  BY PidsAssumption, TasksAssumption
<1>2. ASSUME NEW a \in Nat, a < 2 * MaxPid
      PROVE  a % MaxPid = IF a < MaxPid THEN a ELSE a - MaxPid
  BY <1>1, <1>2, SMTT(30)
<1> QED BY <1>2

NthPid(last, d) == ((last + d - 1) % MaxPid) + 1

LEMMA NthPidRange ==
  ASSUME NEW last \in 1 .. MaxPid, NEW d \in 1 .. MaxPid
  PROVE  NthPid(last, d) = IF last + d <= MaxPid THEN last + d ELSE last + d - MaxPid
<1>1. MaxPid \in Nat /\ MaxPid > 0
  BY PidsAssumption, TasksAssumption
<1>2. last + d - 1 \in Nat /\ last + d - 1 < 2 * MaxPid
  BY <1>1
<1>3. (last + d - 1) % MaxPid = IF last + d - 1 < MaxPid THEN last + d - 1 ELSE (last + d - 1) - MaxPid
  BY <1>2, PidsGoRound
<1> QED BY <1>1, <1>3 DEF NthPid

(* The pid is in range and nobody has it. *)
LEMMA NextPidUnused ==
  ASSUME last_pid \in 1 .. MaxPid
  PROVE  NextPid(last_pid) \in 1 .. MaxPid /\ Unused(NextPid(last_pid))
<1> DEFINE Found(d) == Unused(NthPid(last_pid, d))
           T == {d \in 1 .. MaxPid : Found(d)}
           first == CHOOSE d \in 1 .. MaxPid : Found(d) /\ \A c \in 1 .. MaxPid : Found(c) => d <= c
<1>1. MaxPid \in Nat /\ MaxPid > 0
  BY PidsAssumption, TasksAssumption
<1>2. T # {}
  <2>1. PICK p \in 1 .. MaxPid : Unused(p)
    BY SomePidUnused
  <2>2. PICK d \in 1 .. MaxPid : p = IF last_pid + d <= MaxPid THEN last_pid + d ELSE last_pid + d - MaxPid
    <3>1. CASE p > last_pid
      <4>1. PICK d \in 1 .. MaxPid : d = p - last_pid
        BY <1>1, <3>1
      <4>2. last_pid + d = p /\ last_pid + d <= MaxPid
        BY <1>1, <4>1
      <4> QED BY <4>2
    <3>2. CASE p <= last_pid
      <4>1. /\ p - last_pid + MaxPid \in 1 .. MaxPid
            /\ last_pid + (p - last_pid + MaxPid) = p + MaxPid
            /\ last_pid + (p - last_pid + MaxPid) - MaxPid = p
        BY <1>1, <3>2
      <4> QED BY <1>1, <4>1
    <3> QED BY <1>1, <3>1, <3>2
  <2>3. NthPid(last_pid, d) = p
    BY <2>2, NthPidRange
  <2> QED BY <2>1, <2>3
<1>3. first \in 1 .. MaxPid /\ Found(first)
  <2>1. T \subseteq Nat
    BY <1>1
  <2>2. \E d \in T : \A c \in T : d <= c
    BY <1>2, <2>1, LeastElement
  <2>3. \E d \in 1 .. MaxPid : Found(d) /\ \A c \in 1 .. MaxPid : Found(c) => d <= c
    BY <2>2
  <2> QED BY <2>3
<1>4. NextPid(last_pid) = NthPid(last_pid, first)
  BY DEF NextPid, NthPid, Unused
<1> HIDE DEF first
<1>5. NthPid(last_pid, first) \in 1 .. MaxPid
  BY <1>1, <1>3, NthPidRange
<1> QED BY <1>3, <1>4, <1>5

-----------------------------------------------------------------------------
(* Steps that leave the family as it is                                    *)

(* The same tasks exist, the same ones are zombies, with their fathers. *)
SameFamily ==
  /\ pid' = pid /\ father' = father
  /\ \A j \in Tasks : /\ state'[j] = "FREE" <=> state[j] = "FREE"
                      /\ state'[j] = "ZOMBIE" <=> state[j] = "ZOMBIE"
                      /\ state'[j] = "UNINTERRUPTIBLE" => state[j] = "UNINTERRUPTIBLE"

(* j goes on as it did, and no SIGCHLD of its is lost. *)
Undisturbed(j) ==
  /\ pc'[j] = pc[j] /\ want'[j] = want[j]
  /\ SIGCHLD \in signal[j] => SIGCHLD \in signal'[j]

(* A step of process i that neither begins nor ends its exit; it goes to   *)
(* sleep in waitpid only when it has found no zombie.                      *)
OwnStep(i) ==
  /\ SameFamily
  /\ \A j \in Tasks \ {i} : Undisturbed(j)
  /\ current = i /\ current' \in {i, Nobody}
  /\ pc[i] \notin {"closing", "dead"} /\ pc'[i] \notin {"closing", "dead"}
  /\ pc'[i] = "waitpid" => want'[i] = want[i] /\ Zombies(i) = {}

(* A step of schedule() or of a device. *)
OthersStep ==
  /\ SameFamily
  /\ \A j \in Tasks : Undisturbed(j)
  /\ current = Nobody \/ current' = current

LEMMA SameZombies ==
  ASSUME SameFamily, NEW i \in Tasks, want'[i] = want[i]
  PROVE  Zombies(i)' = Zombies(i)
BY DEF SameFamily, Zombies, Matching, Children, Exists

LEMMA SameFathers ==
  ASSUME SameFamily, FatherKnown,
         \A j \in Tasks : Alive(j) => pc'[j] \notin {"closing", "dead"}
  PROVE  FatherKnown'
<1> SUFFICES ASSUME NEW i \in Tasks \ {init}, Exists(i)'
             PROVE  /\ \E j \in Tasks : Alive(j)' /\ pid'[j] = father'[i]
                    /\ \A j \in Tasks \ {i} : Exists(j)' => pid'[i] # pid'[j]
  BY DEF FatherKnown, Exists, Alive
<1>1. \A j \in Tasks : Exists(j)' <=> Exists(j)
  BY DEF SameFamily, Exists
<1>2. PICK j \in Tasks : Alive(j) /\ pid[j] = father[i]
  BY <1>1 DEF FatherKnown
<1>3. Alive(j)'
  BY <1>1, <1>2 DEF Alive
<1>4. pid' = pid /\ father' = father
  BY DEF SameFamily
<1>5. \A k \in Tasks \ {i} : Exists(k)' => pid'[i] # pid'[k]
  BY <1>1, <1>4 DEF FatherKnown
<1> QED BY <1>2, <1>3, <1>4, <1>5

LEMMA OwnStepKeeps ==
  ASSUME Inv, NEW i \in Tasks, OwnStep(i), InitUnharmed'
  PROVE  Labelled' /\ InitStays' /\ FatherKnown' /\ NoMissedChild'
<1>1. /\ SameFamily /\ Labelled /\ FatherKnown /\ NoMissedChild /\ InitStays
      /\ current = i /\ current' \in {i, Nobody} /\ state[i] = "RUNNING"
  BY TaskFacts DEF Inv, OwnStep, CurrentRuns
<1>2. \A j \in Tasks : Alive(j) => pc'[j] \notin {"closing", "dead"}
  BY DEF OwnStep, Undisturbed, Alive
<1>3. Labelled'
  <2> SUFFICES ASSUME NEW j \in Tasks
               PROVE  /\ state'[j] = "ZOMBIE" <=> pc'[j] = "dead"
                      /\ state'[j] = "FREE" => pc'[j] = "user"
                      /\ state'[j] = "UNINTERRUPTIBLE" => pc'[j] = "closing"
    BY DEF Labelled
  <2>1. CASE j = i
    BY <1>1, <2>1 DEF OwnStep, SameFamily
  <2>2. CASE j # i
    BY <1>1, <2>2 DEF OwnStep, SameFamily, Undisturbed, Labelled
  <2> QED BY <2>1, <2>2
<1>4. FatherKnown'
  BY <1>1, <1>2, SameFathers
<1>5. InitStays'
  BY <1>1, <1>2, TaskFacts DEF InitStays, Alive, Exists, SameFamily
<1>6. NoMissedChild'
  <2> SUFFICES ASSUME NEW j \in Tasks, pc'[j] = "waitpid", Zombies(j)' # {}
               PROVE  SIGCHLD \in signal'[j]
    BY DEF NoMissedChild
  <2>1. CASE j = i
    BY <1>1, <2>1, SameZombies DEF OwnStep
  <2>2. CASE j # i
    <3>1. Undisturbed(j)
      BY <2>2 DEF OwnStep
    <3>2. Zombies(j)' = Zombies(j)
      BY <1>1, <3>1, SameZombies DEF Undisturbed
    <3> QED BY <1>1, <2>2, <3>1, <3>2 DEF NoMissedChild, Undisturbed
  <2> QED BY <2>1, <2>2
<1> QED BY <1>3, <1>4, <1>5, <1>6

LEMMA OthersStepKeeps ==
  ASSUME Inv, OthersStep, InitUnharmed'
  PROVE  Labelled' /\ InitStays' /\ FatherKnown' /\ NoMissedChild'
<1>1. SameFamily /\ Labelled /\ FatherKnown /\ NoMissedChild /\ InitStays
  BY DEF Inv, OthersStep
<1>2. \A j \in Tasks : pc'[j] = pc[j]
  BY DEF OthersStep, Undisturbed
<1>3. Labelled'
  BY <1>1, <1>2 DEF SameFamily, Labelled
<1>4. FatherKnown'
  BY <1>1, <1>2, SameFathers DEF Alive
<1>5. InitStays'
  BY <1>1, <1>2, TaskFacts DEF InitStays, Alive, Exists, SameFamily
<1>6. NoMissedChild'
  <2> SUFFICES ASSUME NEW j \in Tasks, pc'[j] = "waitpid", current' # j, Zombies(j)' # {}
               PROVE  SIGCHLD \in signal'[j]
    BY DEF NoMissedChild
  <2>1. Undisturbed(j)
    BY DEF OthersStep
  <2>2. Zombies(j)' = Zombies(j)
    BY <1>1, <2>1, SameZombies DEF Undisturbed
  <2>3. current # j
    BY TaskFacts DEF OthersStep
  <2> QED BY <1>1, <2>1, <2>2, <2>3 DEF NoMissedChild, Undisturbed
<1> QED BY <1>3, <1>4, <1>5, <1>6

-----------------------------------------------------------------------------
(* The steps of a process                                                  *)

LEMMA Running ==
  ASSUME Inv, NEW i \in Tasks, NEW l, Runs(i, l)
  PROVE  state[i] = "RUNNING" /\ current = i /\ pc[i] = l
BY TaskFacts DEF Inv, Runs, CurrentRuns

(* What each of these steps shows. *)
KeptBy(i) == TypeOK' /\ CurrentRuns' /\ OwnStep(i) /\ InitUnharmed'

LEMMA do_timerStep ==
  ASSUME Inv, NEW i \in Tasks, do_timer(i)
  PROVE  KeptBy(i)
<1>1. state[i] = "RUNNING" /\ current = i /\ pc[i] = "user" /\ TypeOK /\ InitUnharmed
  BY Running DEF do_timer, Inv, InitStays
<1>2. TypeOK'
  BY <1>1 DEF TypeOK, do_timer, Labels, States, taskVars, ttyVars, sigVars, bounds, Goto, Leave
<1>3. CurrentRuns'
  BY <1>1 DEF TypeOK, CurrentRuns, do_timer, Goto, Leave
<1>4. OwnStep(i)
  BY <1>1, TaskFacts DEF TypeOK, OwnStep, SameFamily, Undisturbed, do_timer, taskVars,
     ttyVars, sigVars, bounds, Goto, Leave
<1>5. InitUnharmed'
  BY <1>1, TaskFacts DEF TypeOK, InitUnharmed, do_timer, taskVars, ttyVars, sigVars, bounds,
     Goto, Leave
<1> QED BY <1>2, <1>3, <1>4, <1>5 DEF KeptBy

LEMMA ForkFailsStep ==
  ASSUME Inv, NEW i \in Tasks, ForkFails(i)
  PROVE  KeptBy(i)
<1>1. state[i] = "RUNNING" /\ current = i /\ pc[i] = "user" /\ TypeOK /\ InitUnharmed
  BY Running DEF ForkFails, Inv, InitStays
<1>2. TypeOK'
  BY <1>1, NextPidUnused, BoundsAssumption DEF TypeOK, ForkFails, Labels, States, taskVars,
     ttyVars, sigVars, bounds, Goto, Return
<1>3. CurrentRuns'
  BY <1>1 DEF TypeOK, CurrentRuns, ForkFails, Goto, Return
<1>4. OwnStep(i)
  BY <1>1, TaskFacts DEF TypeOK, OwnStep, SameFamily, Undisturbed, ForkFails, taskVars,
     ttyVars, sigVars, bounds, Goto, Return
<1>5. InitUnharmed'
  BY <1>1, TaskFacts DEF TypeOK, InitUnharmed, ForkFails, taskVars, ttyVars, sigVars,
     bounds, Goto, Return
<1> QED BY <1>2, <1>3, <1>4, <1>5 DEF KeptBy

LEMMA sys_waitpidStep ==
  ASSUME Inv, NEW i \in Tasks, sys_waitpid(i)
  PROVE  KeptBy(i)
<1>1. state[i] = "RUNNING" /\ current = i /\ pc[i] = "user" /\ TypeOK /\ InitUnharmed
  BY Running DEF sys_waitpid, Inv, InitStays
<1>2. TypeOK'
  <2>1. \A w \in {Nobody} \cup {pid[j] : j \in Children(i)} : w \in 0 .. MaxPid
    BY <1>1, PidsAssumption DEF TypeOK, Children, Nobody
  <2>2. want' \in [Tasks -> 0 .. MaxPid]
    BY <1>1, <2>1 DEF TypeOK, sys_waitpid
  <2> QED BY <1>1, <2>2 DEF TypeOK, sys_waitpid, Labels, States, taskVars, ttyVars, sigVars, bounds, Goto
<1>3. CurrentRuns'
  BY <1>1 DEF CurrentRuns, sys_waitpid
<1>4. OwnStep(i)
  BY <1>1, TaskFacts DEF TypeOK, OwnStep, SameFamily, Undisturbed, sys_waitpid, taskVars,
     ttyVars, sigVars, bounds, Goto, Children
<1>5. InitUnharmed'
  BY <1>1, TaskFacts DEF TypeOK, InitUnharmed, sys_waitpid, taskVars, ttyVars, sigVars,
     bounds, Goto, Children
<1> QED BY <1>2, <1>3, <1>4, <1>5 DEF KeptBy

LEMMA WaitFailsStep ==
  ASSUME Inv, NEW i \in Tasks, WaitFails(i)
  PROVE  KeptBy(i)
<1>1. state[i] = "RUNNING" /\ current = i /\ pc[i] = "wait_scan" /\ TypeOK /\ InitUnharmed
  BY Running DEF WaitFails, Inv, InitStays
<1>2. TypeOK'
  BY <1>1, PidsAssumption DEF TypeOK, WaitFails, Labels, States, taskVars, ttyVars, sigVars,
     bounds, Goto, Return, Nobody
<1>3. CurrentRuns'
  BY <1>1 DEF TypeOK, CurrentRuns, WaitFails, Goto, Return, Nobody
<1>4. OwnStep(i)
  BY <1>1, TaskFacts DEF TypeOK, OwnStep, SameFamily, Undisturbed, WaitFails, taskVars,
     ttyVars, sigVars, bounds, Goto, Return, Nobody
<1>5. InitUnharmed'
  BY <1>1, TaskFacts DEF TypeOK, InitUnharmed, WaitFails, taskVars, ttyVars, sigVars,
     bounds, Goto, Return, Nobody
<1> QED BY <1>2, <1>3, <1>4, <1>5 DEF KeptBy

LEMMA WaitSleepsStep ==
  ASSUME Inv, NEW i \in Tasks, WaitSleeps(i)
  PROVE  KeptBy(i)
<1>1. state[i] = "RUNNING" /\ current = i /\ pc[i] = "wait_scan" /\ TypeOK /\ InitUnharmed
  BY Running DEF WaitSleeps, Inv, InitStays
<1>2. TypeOK'
  BY <1>1 DEF TypeOK, WaitSleeps, Labels, States, taskVars, ttyVars, sigVars, bounds, Goto,
     Leave, Sleep
<1>3. CurrentRuns'
  BY <1>1 DEF TypeOK, CurrentRuns, WaitSleeps, Goto, Leave, Sleep
<1>4. OwnStep(i)
  BY <1>1, TaskFacts DEF TypeOK, OwnStep, SameFamily, Undisturbed, WaitSleeps, taskVars,
     ttyVars, sigVars, bounds, Goto, Leave, Sleep
<1>5. InitUnharmed'
  BY <1>1, TaskFacts DEF TypeOK, InitUnharmed, WaitSleeps, taskVars, ttyVars, sigVars,
     bounds, Goto, Leave, Sleep
<1> QED BY <1>2, <1>3, <1>4, <1>5 DEF KeptBy

LEMMA WaitWakesStep ==
  ASSUME Inv, NEW i \in Tasks, WaitWakes(i)
  PROVE  KeptBy(i)
<1>1. state[i] = "RUNNING" /\ current = i /\ pc[i] = "waitpid" /\ TypeOK /\ InitUnharmed
  BY Running DEF WaitWakes, Inv, InitStays
<1>2. TypeOK'
  BY <1>1, PidsAssumption DEF TypeOK, WaitWakes, Labels, States, taskVars, ttyVars, sigVars,
     bounds, Goto, Return, Nobody
<1>3. CurrentRuns'
  BY <1>1 DEF TypeOK, CurrentRuns, WaitWakes, Goto, Return, Nobody
<1>4. OwnStep(i)
  BY <1>1, TaskFacts DEF TypeOK, OwnStep, SameFamily, Undisturbed, WaitWakes, taskVars,
     ttyVars, sigVars, bounds, Goto, Return, Nobody
<1>5. InitUnharmed'
  BY <1>1, TaskFacts DEF TypeOK, InitUnharmed, WaitWakes, taskVars, ttyVars, sigVars,
     bounds, Goto, Return, Nobody
<1> QED BY <1>2, <1>3, <1>4, <1>5 DEF KeptBy

LEMMA sys_killStep ==
  ASSUME Inv, NEW i \in Tasks, sys_kill(i)
  PROVE  KeptBy(i)
<1>1. state[i] = "RUNNING" /\ current = i /\ pc[i] = "user" /\ TypeOK /\ InitUnharmed
  BY Running DEF sys_kill, Inv, InitStays, Calls
<1>2. TypeOK'
  BY <1>1, BoundsAssumption DEF TypeOK, sys_kill, Labels, States, taskVars, ttyVars,
     sigVars, bounds, Goto, Return, Calls, Signals, SIGKILL, SIGALRM, SIGCHLD
<1>3. CurrentRuns'
  BY <1>1 DEF TypeOK, CurrentRuns, sys_kill, Goto, Return, Calls, Signals, SIGKILL, SIGALRM,
     SIGCHLD
<1>4. OwnStep(i)
  BY <1>1, TaskFacts DEF TypeOK, OwnStep, SameFamily, Undisturbed, sys_kill, taskVars,
     ttyVars, sigVars, bounds, Goto, Return, Calls, Signals, SIGKILL, SIGALRM, SIGCHLD
<1>5. InitUnharmed'
  BY <1>1, TaskFacts DEF TypeOK, InitUnharmed, sys_kill, taskVars, ttyVars, sigVars, bounds,
     Goto, Return, Calls, Signals, SIGKILL, SIGALRM, SIGCHLD
<1> QED BY <1>2, <1>3, <1>4, <1>5 DEF KeptBy

LEMMA sys_alarmStep ==
  ASSUME Inv, NEW i \in Tasks, sys_alarm(i)
  PROVE  KeptBy(i)
<1>1. state[i] = "RUNNING" /\ current = i /\ pc[i] = "user" /\ TypeOK /\ InitUnharmed
  BY Running DEF sys_alarm, Inv, InitStays, Calls
<1>2. TypeOK'
  BY <1>1, BoundsAssumption DEF TypeOK, sys_alarm, Labels, States, taskVars, ttyVars,
     sigVars, bounds, Goto, Return, Calls
<1>3. CurrentRuns'
  BY <1>1 DEF TypeOK, CurrentRuns, sys_alarm, Goto, Return, Calls
<1>4. OwnStep(i)
  BY <1>1, TaskFacts DEF TypeOK, OwnStep, SameFamily, Undisturbed, sys_alarm, taskVars,
     ttyVars, sigVars, bounds, Goto, Return, Calls
<1>5. InitUnharmed'
  BY <1>1, TaskFacts DEF TypeOK, InitUnharmed, sys_alarm, taskVars, ttyVars, sigVars,
     bounds, Goto, Return, Calls
<1> QED BY <1>2, <1>3, <1>4, <1>5 DEF KeptBy

LEMMA sys_signalStep ==
  ASSUME Inv, NEW i \in Tasks, sys_signal(i)
  PROVE  KeptBy(i)
<1>1. state[i] = "RUNNING" /\ current = i /\ pc[i] = "user" /\ TypeOK /\ InitUnharmed
  BY Running DEF sys_signal, Inv, InitStays
<1>2. TypeOK'
  BY <1>1 DEF TypeOK, sys_signal, Labels, States, taskVars, ttyVars, sigVars, bounds, Goto,
     Return, Signals, SIGKILL, SIGALRM, SIGCHLD
<1>3. CurrentRuns'
  BY <1>1 DEF TypeOK, CurrentRuns, sys_signal, Goto, Return, Signals, SIGKILL, SIGALRM, SIGCHLD
<1>4. OwnStep(i)
  BY <1>1, TaskFacts DEF TypeOK, OwnStep, SameFamily, Undisturbed, sys_signal, taskVars,
     ttyVars, sigVars, bounds, Goto, Return, Signals, SIGKILL, SIGALRM, SIGCHLD
<1>5. InitUnharmed'
  BY <1>1, TaskFacts DEF TypeOK, InitUnharmed, sys_signal, taskVars, ttyVars, sigVars,
     bounds, Goto, Return, Signals, SIGKILL, SIGALRM, SIGCHLD
<1> QED BY <1>2, <1>3, <1>4, <1>5 DEF KeptBy

LEMMA sys_pauseStep ==
  ASSUME Inv, NEW i \in Tasks, sys_pause(i)
  PROVE  KeptBy(i)
<1>1. state[i] = "RUNNING" /\ current = i /\ pc[i] = "user" /\ TypeOK /\ InitUnharmed
  BY Running DEF sys_pause, Inv, InitStays
<1>2. TypeOK'
  BY <1>1 DEF TypeOK, sys_pause, Labels, States, taskVars, ttyVars, sigVars, bounds, Goto,
     Leave, Sleep
<1>3. CurrentRuns'
  BY <1>1 DEF TypeOK, CurrentRuns, sys_pause, Goto, Leave, Sleep
<1>4. OwnStep(i)
  BY <1>1, TaskFacts DEF TypeOK, OwnStep, SameFamily, Undisturbed, sys_pause, taskVars,
     ttyVars, sigVars, bounds, Goto, Leave, Sleep
<1>5. InitUnharmed'
  BY <1>1, TaskFacts DEF TypeOK, InitUnharmed, sys_pause, taskVars, ttyVars, sigVars,
     bounds, Goto, Leave, Sleep
<1> QED BY <1>2, <1>3, <1>4, <1>5 DEF KeptBy

LEMMA ReturnToUserStep ==
  ASSUME Inv, NEW i \in Tasks, ReturnToUser(i)
  PROVE  KeptBy(i)
<1>1. state[i] = "RUNNING" /\ current = i /\ pc[i] = "ret" /\ TypeOK /\ InitUnharmed
  BY Running DEF ReturnToUser, Inv, InitStays
<1>2. TypeOK'
  BY <1>1 DEF TypeOK, ReturnToUser, Labels, States, taskVars, ttyVars, sigVars, bounds, Goto
<1>3. CurrentRuns'
  BY <1>1 DEF TypeOK, CurrentRuns, ReturnToUser, Goto
<1>4. OwnStep(i)
  BY <1>1, TaskFacts DEF TypeOK, OwnStep, SameFamily, Undisturbed, ReturnToUser, taskVars,
     ttyVars, sigVars, bounds, Goto
<1>5. InitUnharmed'
  BY <1>1, TaskFacts DEF TypeOK, InitUnharmed, ReturnToUser, taskVars, ttyVars, sigVars,
     bounds, Goto
<1> QED BY <1>2, <1>3, <1>4, <1>5 DEF KeptBy

LEMMA do_signalStep ==
  ASSUME Inv, NEW i \in Tasks, do_signal(i)
  PROVE  KeptBy(i)
<1>1. state[i] = "RUNNING" /\ current = i /\ pc[i] = "ret" /\ TypeOK /\ InitUnharmed
  BY Running DEF do_signal, Inv, InitStays
<1>2. TypeOK'
  BY <1>1 DEF TypeOK, do_signal, Labels, States, taskVars, ttyVars, sigVars, bounds, Goto
<1>3. CurrentRuns'
  BY <1>1 DEF TypeOK, CurrentRuns, do_signal, Goto
<1>4. OwnStep(i)
  BY <1>1, TaskFacts DEF TypeOK, OwnStep, SameFamily, Undisturbed, do_signal, taskVars,
     ttyVars, sigVars, bounds, Goto
<1>5. InitUnharmed'
  BY <1>1, TaskFacts DEF TypeOK, InitUnharmed, do_signal, taskVars, ttyVars, sigVars,
     bounds, Goto
<1> QED BY <1>2, <1>3, <1>4, <1>5 DEF KeptBy

-----------------------------------------------------------------------------
(* The terminal's queue                                                    *)

(* st is what becomes of the states when sleepers are woken. *)
OnlyWakes(st) ==
  /\ st \in [Tasks -> States]
  /\ \A j \in Tasks : \/ st[j] = state[j]
                      \/ state[j] = "INTERRUPTIBLE" /\ st[j] = "RUNNING"

LEMMA AwakeOnlyWakes ==
  ASSUME TypeOK, NEW k \in Tasks
  PROVE  OnlyWakes(Awake(k)) /\ OnlyWakes(state)
BY DEF TypeOK, Awake, States, OnlyWakes

(* The alarm of i is as it was, or as tty_read found it. *)
AlarmKept(i, old) ==
  /\ alarm' \in [Tasks -> BOOLEAN] /\ oldalarm' \in [Tasks -> BOOLEAN]
  /\ \A j \in Tasks \ {i} : alarm'[j] = alarm[j] /\ oldalarm'[j] = oldalarm[j]
  /\ alarm'[i] = alarm[i] \/ alarm'[i] = old
  /\ oldalarm'[i] = FALSE \/ oldalarm'[i] = old

LEMMA ReadOrSleepKeepsAlarm ==
  ASSUME TypeOK, NEW i \in Tasks, NEW st, NEW list, NEW old \in BOOLEAN,
         ReadOrSleep(i, st, list, old)
  PROVE  AlarmKept(i, old)
<1>1. alarm \in [Tasks -> BOOLEAN] /\ oldalarm \in [Tasks -> BOOLEAN]
  BY DEF TypeOK
<1>2. \/ /\ alarm' = [alarm EXCEPT ![i] = old]
         /\ oldalarm' = [oldalarm EXCEPT ![i] = FALSE]
      \/ alarm' = alarm /\ oldalarm' = [oldalarm EXCEPT ![i] = old]
  BY DEF ReadOrSleep, ReadEnds
<1> QED BY <1>1, <1>2 DEF AlarmKept

(* Back from the terminal, asleep in its queue, or spinning. *)
LEMMA ReadOrSleepProperties ==
  ASSUME TypeOK, NEW i \in Tasks, state[i] = "RUNNING", current = i,
         NEW st, OnlyWakes(st), NEW list \in Tasks \cup {Nobody}, NEW old,
         ReadOrSleep(i, st, list, old)
  PROVE  /\ state' \in [Tasks -> States] /\ pc' \in [Tasks -> Labels] /\ input' \in Input
         /\ tmp' \in [Tasks -> Tasks \cup {Nobody}] /\ proc_list' \in Tasks \cup {Nobody}
         /\ current' \in {i, Nobody} /\ CurrentRuns'
         /\ \A j \in Tasks \ {i} : pc'[j] = pc[j] /\ state'[j] = st[j]
         /\ pc'[i] \in {"ret", "tty_read", "tty_spin"}
         /\ state'[i] \in {"RUNNING", "INTERRUPTIBLE"}
<1>1. /\ st \in [Tasks -> States] /\ st[i] = "RUNNING" /\ pc \in [Tasks -> Labels]
      /\ tmp \in [Tasks -> Tasks \cup {Nobody}] /\ input \in Input
  BY DEF OnlyWakes, TypeOK
<1>2. input' \in Input
  BY <1>1 DEF ReadOrSleep
<1>3. CASE ReadEnds(i, st, list, old)
  <2>1. /\ tmp' = [tmp EXCEPT ![i] = Nobody] /\ proc_list' = list /\ state' = st
        /\ pc' = [pc EXCEPT ![i] = "ret"] /\ current' = current
    BY <1>3 DEF ReadEnds, Return, Goto
  <2> QED BY <1>1, <1>2, <2>1 DEF Labels, CurrentRuns
<1>4. CASE Enqueue(i, st, list)
  <2>1. /\ tmp' = [tmp EXCEPT ![i] = list] /\ proc_list' = i
        /\ state' = [st EXCEPT ![i] = "INTERRUPTIBLE"]
        /\ pc' = [pc EXCEPT ![i] = "tty_read"] /\ current' = Nobody
    BY <1>4 DEF Enqueue, Leave, Goto
  <2> QED BY <1>1, <1>2, <2>1 DEF Labels, States, CurrentRuns
<1>5. CASE /\ tmp' = [tmp EXCEPT ![i] = Nobody] /\ proc_list' = list /\ state' = st
           /\ Goto(i, "tty_spin") /\ UNCHANGED current
  BY <1>1, <1>2, <1>5 DEF Goto, Labels, CurrentRuns
<1> QED BY <1>3, <1>4, <1>5 DEF ReadOrSleep

(* A step at the terminal, which wakes sleepers at most. *)
TtyStep(i, st) ==
  /\ st \in [Tasks -> States] /\ OnlyWakes(st)
  /\ state' \in [Tasks -> States] /\ pc' \in [Tasks -> Labels]
  /\ current' \in {i, Nobody} /\ CurrentRuns'
  /\ \A j \in Tasks \ {i} : pc'[j] = pc[j] /\ state'[j] = st[j]
  /\ pc'[i] \in {"ret", "tty_read", "tty_spin"} /\ state'[i] \in {"RUNNING", "INTERRUPTIBLE"}
  /\ UNCHANGED <<taskVars, signal, catches, want, bounds>>

LEMMA TtyStepKeeps ==
  ASSUME Inv, NEW i \in Tasks, NEW st, TtyStep(i, st),
         Runs(i, "user") \/ Runs(i, "tty_read") \/ Runs(i, "tty_spin"),
         tmp' \in [Tasks -> Tasks \cup {Nobody}], proc_list' \in Tasks \cup {Nobody},
         input' \in Input, stopped' \in BOOLEAN,
         NEW old \in BOOLEAN, i = init => ~old, AlarmKept(i, old)
  PROVE  KeptBy(i)
<1>1. /\ state[i] = "RUNNING" /\ current = i /\ pc[i] \in {"user", "tty_read", "tty_spin"}
      /\ TypeOK /\ InitUnharmed
  BY Running DEF Inv, InitStays
<1>2. TypeOK'
  <2>1. alarm' \in [Tasks -> BOOLEAN] /\ oldalarm' \in [Tasks -> BOOLEAN]
    BY DEF AlarmKept
  <2> QED BY <1>1, <2>1, TaskFacts DEF TypeOK, TtyStep, taskVars, bounds
<1>3. \A j \in Tasks \ {i} : \/ state'[j] = state[j]
                             \/ state[j] = "INTERRUPTIBLE" /\ state'[j] = "RUNNING"
  BY DEF TtyStep, OnlyWakes
<1>4. SameFamily
  BY <1>1, <1>3 DEF TtyStep, SameFamily, taskVars
<1>5. OwnStep(i)
  BY <1>1, <1>4 DEF OwnStep, TtyStep, Undisturbed, taskVars
<1>6. InitUnharmed'
  <2>1. ~alarm[init] /\ ~oldalarm[init] /\ signal[init] \subseteq {SIGCHLD} /\ signal' = signal
    BY <1>1 DEF InitUnharmed, TtyStep
  <2>2. CASE i = init
    BY <2>1, <2>2 DEF InitUnharmed, AlarmKept
  <2>3. CASE i # init
    BY <2>1, <2>3, TaskFacts DEF InitUnharmed, AlarmKept
  <2> QED BY <2>2, <2>3
<1> QED BY <1>2, <1>5, <1>6 DEF KeptBy, TtyStep

(* A step that goes through the loop of tty_read. *)
LEMMA ReadOrSleepKeeps ==
  ASSUME Inv, NEW i \in Tasks, Runs(i, "user") \/ Runs(i, "tty_read") \/ Runs(i, "tty_spin"),
         NEW st, OnlyWakes(st), NEW list \in Tasks \cup {Nobody}, NEW old \in BOOLEAN,
         i = init => ~old, ReadOrSleep(i, st, list, old), stopped' \in BOOLEAN,
         UNCHANGED <<taskVars, signal, catches, want, bounds>>
  PROVE  KeptBy(i)
<1>1. state[i] = "RUNNING" /\ current = i /\ TypeOK
  BY Running DEF Inv
<1>2. /\ state' \in [Tasks -> States] /\ pc' \in [Tasks -> Labels] /\ input' \in Input
      /\ tmp' \in [Tasks -> Tasks \cup {Nobody}] /\ proc_list' \in Tasks \cup {Nobody}
      /\ current' \in {i, Nobody} /\ CurrentRuns'
      /\ \A j \in Tasks \ {i} : pc'[j] = pc[j] /\ state'[j] = st[j]
      /\ pc'[i] \in {"ret", "tty_read", "tty_spin"}
      /\ state'[i] \in {"RUNNING", "INTERRUPTIBLE"}
  BY <1>1, ReadOrSleepProperties
<1>3. AlarmKept(i, old)
  BY <1>1, ReadOrSleepKeepsAlarm
<1>4. TtyStep(i, st)
  BY <1>2 DEF TtyStep, OnlyWakes
<1> QED BY <1>2, <1>3, <1>4, TtyStepKeeps

LEMMA tty_readStep ==
  ASSUME Inv, NEW i \in Tasks, tty_read(i)
  PROVE  KeptBy(i)
<1>1. TypeOK /\ OnlyWakes(state) /\ proc_list \in Tasks \cup {Nobody}
  BY AwakeOnlyWakes DEF TypeOK, Inv
<1>2. alarm[i] \in BOOLEAN /\ stopped' \in BOOLEAN
  BY <1>1 DEF TypeOK, tty_read
<1>3. /\ Runs(i, "user") /\ i # init /\ ReadOrSleep(i, state, proc_list, alarm[i])
      /\ UNCHANGED <<taskVars, signal, catches, want, bounds>>
  BY DEF tty_read
<1> QED BY <1>1, <1>2, <1>3, ReadOrSleepKeeps

LEMMA SpinStep ==
  ASSUME Inv, NEW i \in Tasks, Spin(i)
  PROVE  KeptBy(i)
<1>1. TypeOK /\ OnlyWakes(state) /\ proc_list \in Tasks \cup {Nobody}
  BY AwakeOnlyWakes DEF TypeOK, Inv
<1>2. oldalarm[i] \in BOOLEAN /\ stopped' \in BOOLEAN
  BY <1>1 DEF TypeOK, Spin
<1>3. /\ Runs(i, "tty_spin") /\ ReadOrSleep(i, state, proc_list, oldalarm[i])
      /\ UNCHANGED <<taskVars, signal, catches, want, bounds>>
  BY DEF Spin
<1>4. i = init => ~oldalarm[i]
  BY DEF Inv, InitStays, InitUnharmed
<1> QED BY <1>1, <1>2, <1>3, <1>4, ReadOrSleepKeeps

LEMMA NotTheHeadStep ==
  ASSUME Inv, NEW i \in Tasks, NotTheHead(i)
  PROVE  KeptBy(i)
<1>1. state[i] = "RUNNING" /\ current = i /\ pc[i] = "tty_read" /\ TypeOK
  BY Running DEF NotTheHead, Inv
<1>2. proc_list \in Tasks
  BY <1>1 DEF NotTheHead, TypeOK
<1> DEFINE st == Awake(proc_list)
<1>3. OnlyWakes(st) /\ st \in [Tasks -> States]
  BY <1>1, <1>2, AwakeOnlyWakes DEF OnlyWakes
<1>4. /\ state' = [st EXCEPT ![i] = "INTERRUPTIBLE"]
      /\ pc' = [pc EXCEPT ![i] = "tty_read"] /\ current' = Nobody
      /\ UNCHANGED <<taskVars, ttyVars, sigVars, catches, want, bounds>>
      /\ Runs(i, "tty_read") /\ stopped' = Gone(proc_list)
  BY DEF NotTheHead, Leave, Goto
<1> HIDE DEF st
<1>5. TtyStep(i, st)
  BY <1>1, <1>3, <1>4 DEF TtyStep, TypeOK, CurrentRuns, Labels, States, sigVars
<1>6. /\ tmp' \in [Tasks -> Tasks \cup {Nobody}] /\ proc_list' \in Tasks \cup {Nobody}
      /\ input' \in Input
  BY <1>1, <1>4 DEF TypeOK, ttyVars
<1>7. stopped' \in BOOLEAN
  BY <1>4 DEF Gone
<1>8. oldalarm[i] \in BOOLEAN /\ AlarmKept(i, oldalarm[i])
  <2>1. alarm' = alarm /\ oldalarm' = oldalarm
    BY <1>4 DEF sigVars, ttyVars
  <2> QED BY <1>1, <2>1 DEF TypeOK, AlarmKept
<1>9. i = init => ~oldalarm[i]
  BY DEF Inv, InitStays, InitUnharmed
<1> QED BY <1>4, <1>5, <1>6, <1>7, <1>8, <1>9, TtyStepKeeps

LEMMA WakesNextStep ==
  ASSUME Inv, NEW i \in Tasks, WakesNext(i)
  PROVE  KeptBy(i)
<1>1. TypeOK
  BY DEF Inv
<1> DEFINE st == IF tmp[i] = Nobody THEN state ELSE Awake(tmp[i])
<1>2. tmp[i] \in Tasks \cup {Nobody} /\ oldalarm[i] \in BOOLEAN
  BY <1>1 DEF TypeOK
<1>3. OnlyWakes(st)
  <2>1. OnlyWakes(state)
    BY <1>1, AwakeOnlyWakes
  <2> QED BY <1>1, <1>2, <2>1, AwakeOnlyWakes
<1>4. /\ Runs(i, "tty_read") /\ ReadOrSleep(i, st, Nobody, oldalarm[i])
      /\ stopped' = (tmp[i] # Nobody /\ Gone(tmp[i]))
      /\ UNCHANGED <<taskVars, signal, catches, want, bounds>>
  BY DEF WakesNext
<1> HIDE DEF st
<1>5. stopped' \in BOOLEAN
  BY <1>4 DEF Gone
<1>6. i = init => ~oldalarm[i]
  BY DEF Inv, InitStays, InitUnharmed
<1> QED BY <1>2, <1>3, <1>4, <1>5, <1>6, ReadOrSleepKeeps

-----------------------------------------------------------------------------
(* The scheduler and the devices                                           *)

KeptByOthers == TypeOK' /\ CurrentRuns' /\ OthersStep /\ InitUnharmed'

LEMMA ScheduleStep ==
  ASSUME Inv, NEW i \in Tasks, schedule(i)
  PROVE  KeptByOthers
<1>1. TypeOK /\ InitUnharmed /\ current = Nobody
  BY DEF schedule, Inv, InitStays
<1>2. PICK due \in SUBSET {j \in Tasks : Exists(j) /\ alarm[j]} :
        /\ signal' = WithAlarms(due)
        /\ alarm' = [j \in Tasks |-> alarm[j] /\ j \notin due]
        /\ state' = WokenBySignal(WithAlarms(due))
        /\ WokenBySignal(WithAlarms(due))[i] = "RUNNING"
  BY DEF schedule
<1>3. /\ signal' \in [Tasks -> SUBSET Signals]
      /\ \A j \in Tasks : signal[j] \subseteq signal'[j]
      /\ \A j \in Tasks : signal'[j] = signal[j] \/ j \in due
  BY <1>1, <1>2 DEF TypeOK, WithAlarms, Signals
<1>4. alarm' \in [Tasks -> BOOLEAN] /\ \A j \in Tasks : alarm'[j] => alarm[j]
  BY <1>1, <1>2 DEF TypeOK
<1>5. OnlyWakes(state')
  BY <1>1, <1>2 DEF TypeOK, OnlyWakes, WokenBySignal, States
<1>6. /\ current' = i /\ state'[i] = "RUNNING"
      /\ UNCHANGED <<taskVars, ttyVars, catches, pc, want, stopped, bounds>>
  BY <1>2 DEF schedule
<1>7. TypeOK'
  BY <1>1, <1>3, <1>4, <1>5, <1>6 DEF TypeOK, OnlyWakes, taskVars, ttyVars, bounds
<1>8. CurrentRuns'
  BY <1>6 DEF CurrentRuns
<1>9. SameFamily
  BY <1>5, <1>6 DEF SameFamily, OnlyWakes, taskVars
<1>10. OthersStep
  BY <1>1, <1>3, <1>6, <1>9 DEF OthersStep, Undisturbed
<1>11. InitUnharmed'
  BY <1>1, <1>2, <1>3, <1>4, <1>6, TaskFacts DEF InitUnharmed, ttyVars
<1> QED BY <1>7, <1>8, <1>10, <1>11 DEF KeptByOthers

LEMMA IoDoneStep ==
  ASSUME Inv, NEW i \in Tasks, IoDone(i)
  PROVE  KeptByOthers
<1>1. TypeOK /\ InitUnharmed /\ CurrentRuns /\ current \in Tasks \cup {Nobody}
  BY DEF Inv, InitStays, TypeOK
<1>2. /\ state[i] = "UNINTERRUPTIBLE" /\ state' = [state EXCEPT ![i] = "RUNNING"]
      /\ UNCHANGED <<taskVars, ttyVars, sigVars, catches, current, pc, want, stopped, bounds>>
  BY DEF IoDone
<1>3. TypeOK'
  BY <1>1, <1>2 DEF TypeOK, States, taskVars, ttyVars, sigVars, bounds
<1>4. CurrentRuns'
  BY <1>1, <1>2 DEF TypeOK, CurrentRuns
<1>5. SameFamily
  BY <1>1, <1>2 DEF TypeOK, SameFamily, taskVars
<1>6. OthersStep
  BY <1>2, <1>5 DEF OthersStep, Undisturbed, sigVars
<1>7. InitUnharmed'
  BY <1>1, <1>2 DEF InitUnharmed, sigVars, ttyVars
<1> QED BY <1>3, <1>4, <1>6, <1>7 DEF KeptByOthers

LEMMA TtyInputStep ==
  ASSUME Inv, TtyInput
  PROVE  KeptByOthers
<1>1. TypeOK /\ InitUnharmed /\ CurrentRuns /\ current \in Tasks \cup {Nobody}
  BY DEF Inv, InitStays, TypeOK
<1> DEFINE st == IF proc_list = Nobody THEN state ELSE Awake(proc_list)
<1>2. /\ input' \in Input /\ state' = st /\ proc_list' = Nobody
      /\ UNCHANGED <<taskVars, tmp, oldalarm, sigVars, catches, current, pc, want, stopped, bounds>>
  BY DEF TtyInput
<1>3. OnlyWakes(st)
  <2>1. proc_list \in Tasks \cup {Nobody}
    BY <1>1 DEF TypeOK
  <2>2. OnlyWakes(state)
    BY <1>1, TaskFacts, AwakeOnlyWakes
  <2> QED BY <1>1, <2>1, <2>2, AwakeOnlyWakes
<1> HIDE DEF st
<1>4. TypeOK'
  BY <1>1, <1>2, <1>3 DEF TypeOK, OnlyWakes, taskVars, sigVars, bounds
<1>5. CurrentRuns'
  BY <1>1, <1>2, <1>3 DEF CurrentRuns, OnlyWakes
<1>6. SameFamily
  BY <1>2, <1>3 DEF SameFamily, OnlyWakes, taskVars
<1>7. OthersStep
  BY <1>2, <1>6 DEF OthersStep, Undisturbed, sigVars
<1>8. InitUnharmed'
  BY <1>1, <1>2 DEF InitUnharmed, sigVars
<1> QED BY <1>4, <1>5, <1>7, <1>8 DEF KeptByOthers

-----------------------------------------------------------------------------
(* fork: the child's pid is new, and its father is alive                   *)

LEMMA ForkStep ==
  ASSUME Inv, NEW i \in Tasks, Fork(i)
  PROVE  Inv'
<1>1. /\ state[i] = "RUNNING" /\ current = i /\ pc[i] = "user"
      /\ TypeOK /\ Labelled /\ InitStays /\ FatherKnown /\ NoMissedChild
  BY Running DEF Fork, Inv
<1>2. PICK p \in 1 .. MaxPid : p = NextPid(last_pid) /\ Unused(p)
  BY <1>1, NextPidUnused DEF TypeOK
<1>3. PICK n \in Tasks :
        /\ ~Exists(n)
        /\ pid' = [pid EXCEPT ![n] = p]
        /\ father' = [father EXCEPT ![n] = pid[i]]
        /\ signal' = [signal EXCEPT ![n] = {}]
        /\ alarm' = [alarm EXCEPT ![n] = FALSE]
        /\ catches' = [catches EXCEPT ![n] = catches[i]]
        /\ state' = [state EXCEPT ![n] = "RUNNING"]
        /\ pc' = [pc EXCEPT ![n] = "user", ![i] = "ret"]
  BY <1>2 DEF Fork, FreeSlots
<1>4. /\ current' = current /\ last_pid' = p /\ forks > 0 /\ forks' = forks - 1
      /\ UNCHANGED <<ttyVars, want, stopped, signals>>
  BY <1>2 DEF Fork
<1>5. n # i /\ n # init /\ state[n] = "FREE" /\ pc[n] = "user"
  BY <1>1, <1>3, TaskFacts DEF Exists, InitStays, Alive, Labelled
<1>6. TypeOK'
  BY <1>1, <1>3, <1>4, BoundsAssumption DEF TypeOK, States, Labels, ttyVars
<1>7. /\ \A j \in Tasks \ {n} : state'[j] = state[j] /\ pid'[j] = pid[j] /\ father'[j] = father[j]
                                /\ signal'[j] = signal[j] /\ alarm'[j] = alarm[j]
      /\ \A j \in Tasks \ {n, i} : pc'[j] = pc[j]
      /\ state'[n] = "RUNNING" /\ pid'[n] = p /\ father'[n] = pid[i]
      /\ pc'[n] = "user" /\ pc'[i] = "ret"
  BY <1>1, <1>3, <1>5 DEF TypeOK
<1>8. Labelled'
  <2> SUFFICES ASSUME NEW j \in Tasks
               PROVE  /\ state'[j] = "ZOMBIE" <=> pc'[j] = "dead"
                      /\ state'[j] = "FREE" => pc'[j] = "user"
                      /\ state'[j] = "UNINTERRUPTIBLE" => pc'[j] = "closing"
    BY DEF Labelled
  <2> QED BY <1>1, <1>5, <1>7 DEF Labelled
<1>9. CurrentRuns'
  BY <1>1, <1>4, <1>5, <1>7 DEF CurrentRuns
<1>10. \A j \in Tasks \ {n} : (Exists(j)' <=> Exists(j)) /\ (Alive(j) => Alive(j)')
  BY <1>1, <1>7 DEF Exists, Alive
<1>11. InitStays'
  BY <1>1, <1>4, <1>5, <1>7, <1>10, TaskFacts DEF InitStays, InitUnharmed, ttyVars
<1>12. FatherKnown'
  <2> SUFFICES ASSUME NEW k \in Tasks \ {init}, Exists(k)'
               PROVE  /\ \E j \in Tasks : Alive(j)' /\ pid'[j] = father'[k]
                      /\ \A j \in Tasks \ {k} : Exists(j)' => pid'[k] # pid'[j]
    BY DEF FatherKnown, Exists, Alive
  <2>1. CASE k = n
    <3>1. Alive(i)' /\ pid'[i] = father'[k]
      BY <1>1, <1>5, <1>7, <2>1 DEF Alive, Exists
    <3>2. \A j \in Tasks \ {k} : Exists(j)' => pid'[k] # pid'[j]
      BY <1>2, <1>7, <1>10, <2>1 DEF Unused
    <3> QED BY <3>1, <3>2
  <2>2. CASE k # n
    <3>1. Exists(k)
      BY <1>10, <2>2
    <3>2. PICK j \in Tasks : Alive(j) /\ pid[j] = father[k]
      BY <1>1, <3>1 DEF FatherKnown
    <3>3. j # n
      BY <1>3, <3>2 DEF Alive
    <3>4. Alive(j)' /\ pid'[j] = father'[k]
      BY <1>7, <1>10, <2>2, <3>2, <3>3
    <3>5. \A m \in Tasks \ {k} : Exists(m)' => pid'[k] # pid'[m]
      <4> SUFFICES ASSUME NEW m \in Tasks \ {k}, Exists(m)'
                   PROVE  pid'[k] # pid'[m]
        OBVIOUS
      <4>1. CASE m = n
        BY <1>2, <1>7, <2>2, <3>1, <4>1 DEF Unused
      <4>2. CASE m # n
        BY <1>1, <1>7, <1>10, <2>2, <3>1, <4>2 DEF FatherKnown
      <4> QED BY <4>1, <4>2
    <3> QED BY <3>4, <3>5
  <2> QED BY <2>1, <2>2
<1>13. NoMissedChild'
  <2> SUFFICES ASSUME NEW j \in Tasks, pc'[j] = "waitpid", NEW z \in Zombies(j)'
               PROVE  SIGCHLD \in signal'[j]
    BY DEF NoMissedChild
  <2>1. j # n /\ j # i /\ pc[j] = "waitpid"
    BY <1>7
  <2>2. z # n /\ z \in Tasks
    BY <1>7 DEF Zombies, Matching, Children
  <2>3. z \in Zombies(j)
    BY <1>4, <1>7, <2>1, <2>2 DEF Zombies, Matching, Children, Exists
  <2> QED BY <1>1, <1>7, <2>1, <2>3 DEF NoMissedChild
<1> QED BY <1>6, <1>8, <1>9, <1>11, <1>12, <1>13 DEF Inv

-----------------------------------------------------------------------------
(* exit: the children go to init, which is told of the zombies             *)

LEMMA ExitStep ==
  ASSUME Inv, NEW i \in Tasks \ {init}, Runs(i, "user") \/ Runs(i, "ret"),
         NEW gone \in SUBSET Signals, SIGCHLD \notin gone,
         NEW sig, sig = [signal EXCEPT ![i] = @ \ gone], do_exit(i, sig),
         UNCHANGED <<pid, last_pid, alarm, ttyVars, catches, want, stopped, bounds>>
  PROVE  Inv'
<1>1. /\ state[i] = "RUNNING" /\ current = i /\ pc[i] \in {"user", "ret"}
      /\ TypeOK /\ Labelled /\ InitStays /\ FatherKnown /\ NoMissedChild
  BY Running DEF Inv
<1>2. /\ father' = Adopted(i) /\ signal' = TellInit(i, sig)
      /\ state' = [state EXCEPT ![i] = "UNINTERRUPTIBLE"]
      /\ pc' = [pc EXCEPT ![i] = "closing"] /\ current' = Nobody
  BY DEF do_exit, Leave, Goto
<1>3. /\ sig \in [Tasks -> SUBSET Signals]
      /\ \A j \in Tasks : SIGCHLD \in signal[j] => SIGCHLD \in sig[j]
      /\ \A j \in Tasks \ {i} : sig[j] = signal[j]
  BY <1>1 DEF TypeOK
<1>4. /\ signal' \in [Tasks -> SUBSET Signals]
      /\ \A j \in Tasks : sig[j] \subseteq signal'[j]
      /\ signal'[init] \subseteq sig[init] \cup {SIGCHLD}
      /\ (\E j \in Children(i) : state[j] = "ZOMBIE") => SIGCHLD \in signal'[init]
  BY <1>2, <1>3, TaskFacts DEF TellInit, Signals
<1>5. father' \in [Tasks -> 0 .. MaxPid]
  BY <1>1, <1>2, PidsAssumption, TasksAssumption DEF TypeOK, Adopted
<1>6. TypeOK'
  BY <1>1, <1>2, <1>4, <1>5 DEF TypeOK, States, Labels, ttyVars, bounds
<1>7. /\ \A j \in Tasks \ {i} : state'[j] = state[j] /\ pc'[j] = pc[j]
      /\ state'[i] = "UNINTERRUPTIBLE" /\ pc'[i] = "closing"
      /\ \A j \in Tasks : father'[j] = IF j \in Children(i) THEN 1 ELSE father[j]
      /\ pid' = pid /\ want' = want
  BY <1>1, <1>2 DEF TypeOK, Adopted
<1>8. Labelled'
  <2> SUFFICES ASSUME NEW j \in Tasks
               PROVE  /\ state'[j] = "ZOMBIE" <=> pc'[j] = "dead"
                      /\ state'[j] = "FREE" => pc'[j] = "user"
                      /\ state'[j] = "UNINTERRUPTIBLE" => pc'[j] = "closing"
    BY DEF Labelled
  <2> QED BY <1>1, <1>7 DEF Labelled
<1>9. CurrentRuns'
  BY <1>2 DEF CurrentRuns
<1>10. /\ \A j \in Tasks : Exists(j)' <=> Exists(j)
       /\ \A j \in Tasks \ {i} : Alive(j) => Alive(j)'
  BY <1>1, <1>7 DEF Exists, Alive
<1>11. InitStays'
  <2>1. signal'[init] \subseteq {SIGCHLD} /\ ~alarm'[init] /\ ~oldalarm'[init]
    BY <1>1, <1>3, <1>4, TaskFacts DEF InitStays, InitUnharmed, ttyVars
  <2> QED BY <1>1, <1>7, <1>10, <2>1, TaskFacts DEF InitStays, InitUnharmed
<1>12. FatherKnown'
  <2> SUFFICES ASSUME NEW k \in Tasks \ {init}, Exists(k)'
               PROVE  /\ \E j \in Tasks : Alive(j)' /\ pid'[j] = father'[k]
                      /\ \A j \in Tasks \ {k} : Exists(j)' => pid'[k] # pid'[j]
    BY DEF FatherKnown, Exists, Alive
  <2>1. Exists(k)
    BY <1>10
  <2>2. \A j \in Tasks \ {k} : Exists(j)' => pid'[k] # pid'[j]
    BY <1>1, <1>7, <1>10, <2>1 DEF FatherKnown
  <2>3. \E j \in Tasks : Alive(j)' /\ pid'[j] = father'[k]
    <3>1. CASE k \in Children(i)
      BY <1>7, <1>11, <3>1, TaskFacts DEF InitStays
    <3>2. CASE k \notin Children(i)
      <4>1. PICK j \in Tasks : Alive(j) /\ pid[j] = father[k]
        BY <1>1, <2>1 DEF FatherKnown
      <4>2. j # i
        BY <2>1, <3>2, <4>1 DEF Children
      <4> QED BY <1>7, <1>10, <3>2, <4>1, <4>2
    <3> QED BY <3>1, <3>2
  <2> QED BY <2>2, <2>3
<1>13. NoMissedChild'
  <2> SUFFICES ASSUME NEW j \in Tasks, pc'[j] = "waitpid", NEW z \in Zombies(j)'
               PROVE  SIGCHLD \in signal'[j]
    BY DEF NoMissedChild
  <2>1. j # i /\ pc[j] = "waitpid" /\ Exists(j)
    BY <1>1, <1>7 DEF Labelled, Exists
  <2>2. /\ z \in Tasks /\ z # i /\ state[z] = "ZOMBIE" /\ Exists(z) /\ father'[z] = pid[j]
        /\ z # j /\ want[j] \in {Nobody, pid[z]}
    BY <1>7 DEF Zombies, Matching, Children, Exists
  <2>3. CASE z \in Children(i)
    <3>1. pid[j] = 1 /\ pid[init] = 1 /\ Exists(init)
      BY <1>1, <1>7, <2>2, <2>3 DEF InitStays, Alive
    <3>2. j = init
      BY <1>1, <2>1, <3>1, TaskFacts, PidsUnique DEF UniquePids
    <3> QED BY <1>4, <2>2, <2>3, <3>2
  <2>4. CASE z \notin Children(i)
    <3>1. z \in Zombies(j)
      BY <1>7, <2>2, <2>4 DEF Zombies, Matching, Children
    <3> QED BY <1>1, <1>3, <1>4, <2>1, <3>1 DEF NoMissedChild
  <2> QED BY <2>3, <2>4
<1> QED BY <1>6, <1>8, <1>9, <1>11, <1>12, <1>13 DEF Inv

LEMMA sys_exitStep ==
  ASSUME Inv, NEW i \in Tasks, sys_exit(i)
  PROVE  Inv'
<1>1. i \in Tasks \ {init} /\ Runs(i, "user") /\ do_exit(i, signal)
      /\ UNCHANGED <<pid, last_pid, alarm, ttyVars, catches, want, stopped, bounds>>
  BY DEF sys_exit
<1>2. signal = [signal EXCEPT ![i] = @ \ {}]
  BY DEF Inv, TypeOK
<1>3. {} \in SUBSET Signals /\ SIGCHLD \notin {}
  OBVIOUS
<1> QED BY <1>1, <1>2, <1>3, ExitStep

(* Only a signal other than SIGCHLD is fatal, and init has none. *)
LEMMA FatalSignalStep ==
  ASSUME Inv, NEW i \in Tasks, FatalSignal(i)
  PROVE  Inv'
<1>1. PICK s \in Signals \ {SIGCHLD} :
        s \in signal[i] /\ do_exit(i, [signal EXCEPT ![i] = @ \ {s}])
  BY DEF FatalSignal, Lowest
<1>2. Runs(i, "ret") /\ UNCHANGED <<pid, last_pid, alarm, ttyVars, catches, want, stopped, bounds>>
  BY DEF FatalSignal
<1>3. i # init
  BY <1>1 DEF Inv, InitStays, InitUnharmed
<1>4. {s} \in SUBSET Signals /\ SIGCHLD \notin {s}
  BY <1>1
<1> QED BY <1>1, <1>2, <1>3, <1>4, ExitStep

(* The father that is told is the one that waits. *)
LEMMA DieStep ==
  ASSUME Inv, NEW i \in Tasks, Die(i)
  PROVE  Inv'
<1>1. /\ state[i] = "RUNNING" /\ current = i /\ pc[i] = "closing"
      /\ TypeOK /\ Labelled /\ InitStays /\ FatherKnown /\ NoMissedChild
  BY Running DEF Die, Inv
<1>2. /\ state' = [state EXCEPT ![i] = "ZOMBIE"]
      /\ signal' = [tell_father(i) EXCEPT ![i] = {}]
      /\ alarm' = [alarm EXCEPT ![i] = FALSE]
      /\ catches' = [catches EXCEPT ![i] = {}]
      /\ pc' = [pc EXCEPT ![i] = "dead"] /\ current' = Nobody
      /\ UNCHANGED <<taskVars, ttyVars, want, stopped, bounds>>
  BY DEF Die, Leave, Goto
<1>3. i # init
  BY <1>1 DEF InitStays, Alive
<1>4. /\ signal' \in [Tasks -> SUBSET Signals]
      /\ \A j \in Tasks \ {i} : /\ signal[j] \subseteq signal'[j]
                                /\ signal'[j] \subseteq signal[j] \cup {SIGCHLD}
                                /\ Exists(j) /\ pid[j] = father[i] => SIGCHLD \in signal'[j]
  BY <1>1, <1>2 DEF TypeOK, tell_father, Signals
<1>5. TypeOK'
  BY <1>1, <1>2, <1>4 DEF TypeOK, States, Labels, taskVars, ttyVars, bounds
<1>6. /\ \A j \in Tasks \ {i} : state'[j] = state[j] /\ pc'[j] = pc[j] /\ alarm'[j] = alarm[j]
      /\ state'[i] = "ZOMBIE" /\ pc'[i] = "dead"
      /\ pid' = pid /\ father' = father /\ want' = want
  BY <1>1, <1>2 DEF TypeOK, taskVars
<1>7. Labelled'
  <2> SUFFICES ASSUME NEW j \in Tasks
               PROVE  /\ state'[j] = "ZOMBIE" <=> pc'[j] = "dead"
                      /\ state'[j] = "FREE" => pc'[j] = "user"
                      /\ state'[j] = "UNINTERRUPTIBLE" => pc'[j] = "closing"
    BY DEF Labelled
  <2> QED BY <1>1, <1>6 DEF Labelled
<1>8. CurrentRuns'
  BY <1>2 DEF CurrentRuns
<1>9. /\ \A j \in Tasks : Exists(j)' <=> Exists(j)
      /\ \A j \in Tasks : Alive(j)' <=> Alive(j)
  BY <1>1, <1>6 DEF Exists, Alive
<1>10. InitStays'
  <2>1. signal'[init] \subseteq {SIGCHLD} /\ ~alarm'[init] /\ ~oldalarm'[init]
    BY <1>1, <1>2, <1>3, <1>4, <1>6, TaskFacts DEF InitStays, InitUnharmed, ttyVars
  <2> QED BY <1>1, <1>6, <1>9, <2>1, TaskFacts DEF InitStays, InitUnharmed
<1>11. FatherKnown'
  <2> SUFFICES ASSUME NEW k \in Tasks \ {init}, Exists(k)'
               PROVE  /\ \E j \in Tasks : Alive(j)' /\ pid'[j] = father'[k]
                      /\ \A j \in Tasks \ {k} : Exists(j)' => pid'[k] # pid'[j]
    BY DEF FatherKnown, Exists, Alive
  <2> QED BY <1>1, <1>6, <1>9 DEF FatherKnown
<1>12. NoMissedChild'
  <2> SUFFICES ASSUME NEW j \in Tasks, pc'[j] = "waitpid", NEW z \in Zombies(j)'
               PROVE  SIGCHLD \in signal'[j]
    BY DEF NoMissedChild
  <2>1. j # i /\ pc[j] = "waitpid" /\ Exists(j)
    BY <1>1, <1>6 DEF Labelled, Exists
  <2>2. /\ z \in Tasks /\ state'[z] = "ZOMBIE" /\ Exists(z) /\ father[z] = pid[j]
        /\ z # j /\ want[j] \in {Nobody, pid[z]}
    BY <1>6, <1>9 DEF Zombies, Matching, Children
  <2>3. CASE z = i
    BY <1>4, <2>1, <2>2, <2>3
  <2>4. CASE z # i
    <3>1. z \in Zombies(j)
      BY <1>6, <2>2, <2>4 DEF Zombies, Matching, Children
    <3> QED BY <1>1, <1>4, <2>1, <3>1 DEF NoMissedChild
  <2> QED BY <2>3, <2>4
<1> QED BY <1>5, <1>7, <1>8, <1>10, <1>11, <1>12 DEF Inv

(* A zombie that is released is nobody's father any more. *)
LEMMA ReapStep ==
  ASSUME Inv, NEW i \in Tasks, Reap(i)
  PROVE  Inv'
<1>1. /\ state[i] = "RUNNING" /\ current = i /\ pc[i] = "wait_scan"
      /\ TypeOK /\ Labelled /\ InitStays /\ FatherKnown /\ NoMissedChild
  BY Running DEF Reap, Inv
<1>2. PICK z \in Tasks :
        /\ state[z] = "ZOMBIE"
        /\ state' = [state EXCEPT ![z] = "FREE"]
        /\ father' = [father EXCEPT ![z] = Nobody]
        /\ pid' = [pid EXCEPT ![z] = Nobody]
        /\ pc' = [pc EXCEPT ![z] = "user", ![i] = "ret"]
  BY DEF Reap, Zombies, Matching, Children
<1>3. /\ want' = [want EXCEPT ![i] = Nobody] /\ current' = Nobody
      /\ UNCHANGED <<last_pid, ttyVars, sigVars, catches, stopped, bounds>>
  BY DEF Reap
<1>4. pc[z] = "dead" /\ z # i /\ z # init /\ ~Alive(z)
  BY <1>1, <1>2 DEF Labelled, InitStays, Alive
<1>5. TypeOK'
  BY <1>1, <1>2, <1>3, PidsAssumption DEF TypeOK, Nobody, States, Labels, ttyVars, sigVars,
     bounds
<1>6. /\ \A j \in Tasks \ {z} : state'[j] = state[j] /\ pid'[j] = pid[j] /\ father'[j] = father[j]
      /\ \A j \in Tasks \ {z, i} : pc'[j] = pc[j]
      /\ \A j \in Tasks \ {i} : want'[j] = want[j]
      /\ state'[z] = "FREE" /\ pc'[z] = "user" /\ pc'[i] = "ret" /\ signal' = signal /\ alarm' = alarm
  BY <1>1, <1>2, <1>3, <1>4 DEF TypeOK, sigVars
<1>7. Labelled'
  <2> SUFFICES ASSUME NEW j \in Tasks
               PROVE  /\ state'[j] = "ZOMBIE" <=> pc'[j] = "dead"
                      /\ state'[j] = "FREE" => pc'[j] = "user"
                      /\ state'[j] = "UNINTERRUPTIBLE" => pc'[j] = "closing"
    BY DEF Labelled
  <2> QED BY <1>1, <1>4, <1>6 DEF Labelled
<1>8. CurrentRuns'
  BY <1>3 DEF CurrentRuns
<1>9. /\ \A j \in Tasks : Exists(j)' => Exists(j) /\ j # z
      /\ \A j \in Tasks : Alive(j) => Alive(j)' /\ j # z
  BY <1>1, <1>4, <1>6 DEF Exists, Alive
<1>10. InitStays'
  BY <1>1, <1>3, <1>4, <1>6, <1>9, TaskFacts DEF InitStays, InitUnharmed, ttyVars
<1>11. FatherKnown'
  <2> SUFFICES ASSUME NEW k \in Tasks \ {init}, Exists(k)'
               PROVE  /\ \E j \in Tasks : Alive(j)' /\ pid'[j] = father'[k]
                      /\ \A j \in Tasks \ {k} : Exists(j)' => pid'[k] # pid'[j]
    BY DEF FatherKnown, Exists, Alive
  <2>1. PICK j \in Tasks : Alive(j) /\ pid[j] = father[k]
    BY <1>1, <1>9 DEF FatherKnown
  <2>2. Alive(j)' /\ pid'[j] = father'[k]
    BY <1>6, <1>9, <2>1
  <2>3. \A m \in Tasks \ {k} : Exists(m)' => pid'[k] # pid'[m]
    BY <1>1, <1>6, <1>9 DEF FatherKnown
  <2> QED BY <2>2, <2>3
<1>12. NoMissedChild'
  <2> SUFFICES ASSUME NEW j \in Tasks, pc'[j] = "waitpid", NEW y \in Zombies(j)'
               PROVE  SIGCHLD \in signal'[j]
    BY DEF NoMissedChild
  <2>1. j # i /\ j # z /\ pc[j] = "waitpid"
    BY <1>6
  <2>2. y \in Tasks /\ y # z
    BY <1>6 DEF Zombies, Matching, Children
  <2>3. y \in Zombies(j)
    BY <1>6, <2>1, <2>2 DEF Zombies, Matching, Children, Exists
  <2> QED BY <1>1, <1>6, <2>1, <2>3 DEF NoMissedChild
<1> QED BY <1>5, <1>7, <1>8, <1>10, <1>11, <1>12 DEF Inv

-----------------------------------------------------------------------------
(* The theorems                                                            *)

LEMMA InvInit == Init => Inv
<1> SUFFICES ASSUME Init
             PROVE  Inv
  OBVIOUS
<1>1. MaxPid \in Nat /\ MaxPid > 2 /\ MaxForks \in Nat /\ MaxSignals \in Nat
  BY PidsAssumption, TasksAssumption, BoundsAssumption
<1>2. TypeOK
  <2>1. /\ state \in [Tasks -> States] /\ pc \in [Tasks -> Labels]
        /\ signal \in [Tasks -> SUBSET Signals] /\ alarm \in [Tasks -> BOOLEAN]
        /\ catches \in [Tasks -> SUBSET (Signals \ {SIGKILL})]
    BY DEF Init, States, Labels
  <2>2. /\ pid \in [Tasks -> 0 .. MaxPid] /\ father \in [Tasks -> 0 .. MaxPid]
        /\ want \in [Tasks -> 0 .. MaxPid]
    BY <1>1 DEF Init, Nobody
  <2>3. /\ last_pid \in 1 .. MaxPid /\ forks \in 0 .. MaxForks /\ signals \in 0 .. MaxSignals
    BY <1>1 DEF Init
  <2>4. /\ proc_list \in Tasks \cup {Nobody} /\ tmp \in [Tasks -> Tasks \cup {Nobody}]
        /\ input \in Input /\ stopped \in BOOLEAN /\ current \in Tasks \cup {Nobody}
        /\ oldalarm \in [Tasks -> BOOLEAN]
    BY TaskFacts DEF Init, Input
  <2> QED BY <2>1, <2>2, <2>3, <2>4 DEF TypeOK
<1>3. Labelled /\ CurrentRuns
  BY TaskFacts DEF Init, Labelled, CurrentRuns
<1>4. InitStays
  BY TaskFacts DEF Init, InitStays, InitUnharmed, Alive, Exists
<1>5. FatherKnown
  BY TaskFacts DEF Init, FatherKnown, Exists
<1>6. NoMissedChild
  BY DEF Init, NoMissedChild
<1> QED BY <1>2, <1>3, <1>4, <1>5, <1>6 DEF Inv

LEMMA InvStutter ==
  ASSUME Inv, UNCHANGED vars
  PROVE  Inv'
<1>1. /\ state' = state /\ pid' = pid /\ father' = father /\ signal' = signal
      /\ catches' = catches /\ alarm' = alarm /\ pc' = pc /\ want' = want
      /\ proc_list' = proc_list /\ tmp' = tmp /\ input' = input /\ last_pid' = last_pid
      /\ current' = current /\ stopped' = stopped /\ forks' = forks /\ signals' = signals
      /\ oldalarm' = oldalarm
  BY DEF vars, taskVars, ttyVars, sigVars, cpuVars, bounds
<1>2. \A i \in Tasks : Zombies(i)' = Zombies(i)
  BY <1>1 DEF Zombies, Matching, Children, Exists
<1>3. TypeOK' /\ Labelled' /\ CurrentRuns' /\ InitStays' /\ FatherKnown'
  BY <1>1 DEF Inv, TypeOK, Labelled, CurrentRuns, InitStays, InitUnharmed, FatherKnown,
     Alive, Exists
<1>4. NoMissedChild'
  BY <1>1, <1>2 DEF Inv, NoMissedChild
<1> QED BY <1>3, <1>4 DEF Inv

LEMMA InvNext == Inv /\ [Next]_vars => Inv'
<1> SUFFICES ASSUME Inv, [Next]_vars
             PROVE  Inv'
  OBVIOUS
<1>1. ASSUME NEW i \in Tasks, KeptBy(i)
      PROVE  Inv'
  BY <1>1, OwnStepKeeps DEF KeptBy, Inv
<1>2. ASSUME KeptByOthers
      PROVE  Inv'
  BY <1>2, OthersStepKeeps DEF KeptByOthers, Inv
<1>3. CASE TtyInput
  BY <1>2, <1>3, TtyInputStep
<1>4. ASSUME NEW i \in Tasks, Kernel(i)
      PROVE  Inv'
  <2>1. CASE ReturnToUser(i) \/ do_signal(i) \/ WaitFails(i) \/ WaitSleeps(i) \/ WaitWakes(i)
    BY <1>1, <2>1, ReturnToUserStep, do_signalStep, WaitFailsStep, WaitSleepsStep, WaitWakesStep
  <2>2. CASE NotTheHead(i) \/ WakesNext(i) \/ Spin(i)
    BY <1>1, <2>2, NotTheHeadStep, WakesNextStep, SpinStep
  <2>3. CASE FatalSignal(i) \/ Die(i) \/ Reap(i)
    BY <2>3, FatalSignalStep, DieStep, ReapStep
  <2> QED BY <1>4, <2>1, <2>2, <2>3 DEF Kernel
<1>5. ASSUME NEW i \in Tasks, Call(i)
      PROVE  Inv'
  <2>1. CASE ForkFails(i) \/ sys_waitpid(i) \/ tty_read(i)
    BY <1>1, <2>1, ForkFailsStep, sys_waitpidStep, tty_readStep
  <2>2. CASE sys_kill(i) \/ sys_alarm(i) \/ sys_signal(i) \/ sys_pause(i)
    BY <1>1, <2>2, sys_killStep, sys_alarmStep, sys_signalStep, sys_pauseStep
  <2>3. CASE Fork(i) \/ sys_exit(i)
    BY <2>3, ForkStep, sys_exitStep
  <2> QED BY <1>5, <2>1, <2>2, <2>3 DEF Call
<1>6. ASSUME NEW i \in Tasks, schedule(i) \/ do_timer(i) \/ IoDone(i)
      PROVE  Inv'
  <2>1. CASE do_timer(i)
    BY <1>1, <2>1, do_timerStep
  <2>2. CASE schedule(i) \/ IoDone(i)
    BY <1>2, <2>2, ScheduleStep, IoDoneStep
  <2> QED BY <1>6, <2>1, <2>2
<1>7. CASE UNCHANGED vars
  BY <1>7, InvStutter
<1> QED BY <1>3, <1>4, <1>5, <1>6, <1>7 DEF Next

(* The inductive invariant holds in every reachable state. *)
THEOREM Invariant == Spec => []Inv
<1>1. Init => Inv
  BY InvInit
<1>2. Inv /\ [Next]_vars => Inv'
  BY InvNext
<1> QED BY <1>1, <1>2, PTL DEF Spec

(* The task table, the signals and the terminal's queue keep their types,  *)
(* for any number of tasks and pids: find_empty_process always finds a pid *)
(* in range.                                                               *)
THEOREM TypeCorrect == Spec => []TypeOK
<1>1. Inv => TypeOK
  BY DEF Inv
<1> QED BY <1>1, Invariant, PTL

(* Every process but init has a father that has not begun to exit, and no  *)
(* other process has its pid: tell_father finds the right one, although    *)
(* pids go round and exit sleeps half way (fork.c, exit.c).                *)
THEOREM FatherKnownHolds == Spec => []FatherKnown
<1>1. Inv => FatherKnown
  BY DEF Inv
<1> QED BY <1>1, Invariant, PTL

(* A process asleep in waitpid while a child it waits for is a zombie has  *)
(* SIGCHLD pending, in every order of exits, adoptions and wake-ups        *)
(* (exit.c: do_exit, tell_father, sys_waitpid).                            *)
THEOREM NoMissedChildHolds == Spec => []NoMissedChild
<1>1. Inv => NoMissedChild
  BY DEF Inv
<1> QED BY <1>1, Invariant, PTL

=============================================================================
