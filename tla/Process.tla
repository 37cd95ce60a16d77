------------------------------ MODULE Process -------------------------------
(***************************************************************************)
(* The life of processes in linux-0.11: fork, exit, waitpid, kill, alarm   *)
(* and pause (kernel/fork.c, exit.c, signal.c, sched.c), the signals that  *)
(* are taken on the way back to user mode (system_call.s), and processes   *)
(* that read a terminal and wait in interruptible_sleep_on.                *)
(*                                                                         *)
(* `current` is the process that has the processor, or Nobody: then        *)
(* schedule() looks at alarms and signals and chooses a runnable process,  *)
(* any of them, as the counters decide.  The kernel is not preemptive: a   *)
(* process in a system call keeps the processor until it calls schedule(). *)
(* No process is a session leader, and init is neither killed nor does it  *)
(* end: the code counts on that ("assumption task[1] is always init").     *)
(***************************************************************************)
EXTENDS Integers, FiniteSets

CONSTANTS
  NR_TASKS,       \* slots of the task table, task[0] aside
  MaxPid,         \* pids go round from here to 1
  MaxForks,       \* bound: forks in all
  MaxSignals      \* bound: calls of kill and alarm in all

Tasks  == 1 .. NR_TASKS
Nobody == 0
init   == 1

ASSUME TasksAssumption  == NR_TASKS \in Nat /\ NR_TASKS >= 2
ASSUME PidsAssumption   == MaxPid \in Nat /\ MaxPid > NR_TASKS
ASSUME BoundsAssumption == MaxForks \in Nat /\ MaxSignals \in Nat

VARIABLES
  state,          \* of each slot; FREE: task[i] is NULL
  pid, father,    \* father is a pid
  signal,         \* the signals pending; none is blocked
  catches,        \* the signals that have a handler
  alarm, oldalarm, \* an alarm is set; tty_read's local variable
  pc,
  want,           \* waitpid: the pid asked for, or Nobody for any child
  proc_list, tmp, \* the terminal's wait queue; interruptible_sleep_on's local
  input,          \* the terminal's secondary queue
  last_pid, current,
  stopped,        \* a process that is no more has been made runnable
  forks, signals  \* calls still allowed

taskVars == <<pid, father, last_pid>>
ttyVars  == <<proc_list, tmp, input, oldalarm>>
sigVars  == <<signal, alarm>>
cpuVars  == <<state, current, pc>>
bounds   == <<forks, signals>>
vars == <<taskVars, ttyVars, sigVars, catches, cpuVars, want, stopped, bounds>>

States == {"FREE", "RUNNING", "INTERRUPTIBLE", "UNINTERRUPTIBLE", "ZOMBIE"}

SIGKILL == 9
SIGALRM == 14
SIGCHLD == 17
Signals == {SIGKILL, SIGALRM, SIGCHLD}

Exists(i) == state[i] # "FREE"

Gone(i) == state[i] \in {"ZOMBIE", "FREE"}

Goto(i, l) == pc' = [pc EXCEPT ![i] = l]

Runs(i, l) == ~stopped /\ current = i /\ pc[i] = l

(* The system call is done; signals are looked at next.  If the counter    *)
(* has run down, schedule() is called before: as with a timer tick (below) *)
(* right after the return.                                                 *)
Return(i) == Goto(i, "ret") /\ UNCHANGED current

(* schedule() is called, and i goes on at l when it is chosen again. *)
Leave(i, l) == Goto(i, l) /\ current' = Nobody

Sleep(i) == state' = [state EXCEPT ![i] = "INTERRUPTIBLE"]

-----------------------------------------------------------------------------
(* schedule(): alarms that have come due, then interruptible tasks with a  *)
(* signal, then the choice.                                                *)

WithAlarms(due) == [i \in Tasks |-> signal[i] \cup (IF i \in due THEN {SIGALRM} ELSE {})]

NobodyWoken(sig) == state  \* mutant: signals do not end a sleep

WokenBySignal(sig) ==
  [i \in Tasks |-> IF state[i] = "INTERRUPTIBLE" /\ sig[i] # {}
                   THEN "RUNNING" ELSE state[i]]

schedule(next) ==
  /\ ~stopped /\ current = Nobody
  /\ \E due \in SUBSET {i \in Tasks : Exists(i) /\ alarm[i]} :
       /\ signal' = WithAlarms(due)
       /\ alarm' = [i \in Tasks |-> alarm[i] /\ i \notin due]
       /\ state' = WokenBySignal(WithAlarms(due))
       /\ WokenBySignal(WithAlarms(due))[next] = "RUNNING"
  /\ current' = next
  /\ UNCHANGED <<taskVars, ttyVars, catches, pc, want, stopped, bounds>>

(* do_timer in user mode, when the counter has come down to 0. *)
do_timer(i) ==
  /\ Runs(i, "user")
  /\ Leave(i, "ret")
  /\ UNCHANGED <<taskVars, ttyVars, sigVars, catches, state, want, stopped, bounds>>

-----------------------------------------------------------------------------
(* fork                                                                    *)

JustTheNext(last) == last + 1  \* mutant: pids do not go round

(* find_empty_process: the next pid that no task has. *)
NextPid(last) ==
  LET Nth(d)  == ((last + d - 1) % MaxPid) + 1
      Free(d) == \A i \in Tasks : Exists(i) => pid[i] # Nth(d)
  IN Nth(CHOOSE d \in 1 .. MaxPid : Free(d) /\ \A c \in 1 .. MaxPid : Free(c) => d <= c)

FreeSlots == {i \in Tasks : ~Exists(i)}

(* copy_process.  Bound: a page that a stale tmp still points to is not    *)
(* taken for a task.                                                       *)
Fork(i) ==
  /\ Runs(i, "user") /\ forks > 0
  /\ \E n \in FreeSlots :
       /\ \A m \in FreeSlots : n <= m
       /\ \A j \in Tasks : tmp[j] # n
       /\ pid' = [pid EXCEPT ![n] = NextPid(last_pid)]
       /\ father' = [father EXCEPT ![n] = pid[i]]
       /\ signal' = [signal EXCEPT ![n] = {}]
       /\ alarm' = [alarm EXCEPT ![n] = FALSE]
       /\ catches' = [catches EXCEPT ![n] = catches[i]]
       /\ state' = [state EXCEPT ![n] = "RUNNING"]
       /\ pc' = [pc EXCEPT ![n] = "user", ![i] = "ret"]
  /\ UNCHANGED current
  /\ last_pid' = NextPid(last_pid)
  /\ forks' = forks - 1
  /\ UNCHANGED <<ttyVars, want, stopped, signals>>

(* No slot or no memory: the pid is used up. *)
ForkFails(i) ==
  /\ Runs(i, "user") /\ forks > 0
  /\ last_pid' = NextPid(last_pid)
  /\ forks' = forks - 1
  /\ Return(i)
  /\ UNCHANGED <<pid, father, ttyVars, sigVars, catches, state, want, stopped, signals>>

-----------------------------------------------------------------------------
(* exit                                                                    *)

Children(i) == {j \in Tasks : Exists(j) /\ father[j] = pid[i]}

KeepFather(i) == father  \* mutant: the children keep their father

Adopted(i) == [j \in Tasks |-> IF j \in Children(i) THEN 1 ELSE father[j]]

NotTold(i, sig) == sig  \* mutant: init is not told of the zombies it gets

TellInit(i, sig) ==
  IF \E j \in Children(i) : state[j] = "ZOMBIE"
  THEN [sig EXCEPT ![init] = @ \cup {SIGCHLD}] ELSE sig

(* do_exit up to its sys_close and iput calls, which sleep; *)
(* sig is what is pending.                                                 *)
do_exit(i, sig) ==
  /\ father' = Adopted(i)
  /\ signal' = TellInit(i, sig)
  /\ state' = [state EXCEPT ![i] = "UNINTERRUPTIBLE"]
  /\ Leave(i, "closing")

sys_exit(i) ==
  /\ Runs(i, "user") /\ i # init
  /\ do_exit(i, signal)
  /\ UNCHANGED <<pid, last_pid, alarm, ttyVars, catches, want, stopped, bounds>>

(* External: the disk has done what sys_close or iput waits for. *)
IoDone(i) ==
  /\ ~stopped /\ state[i] = "UNINTERRUPTIBLE"
  /\ state' = [state EXCEPT ![i] = "RUNNING"]
  /\ UNCHANGED <<taskVars, ttyVars, sigVars, catches, current, pc, want, stopped, bounds>>

TellNobody(i) == signal  \* mutant: no SIGCHLD

tell_father(i) ==
  [j \in Tasks |-> IF Exists(j) /\ pid[j] = father[i] THEN signal[j] \cup {SIGCHLD} ELSE signal[j]]

(* The rest of do_exit.  The signals, alarm and handlers of a zombie are   *)
(* never looked at: they are cleared here, and kill leaves it out.         *)
Die(i) ==
  /\ Runs(i, "closing")
  /\ state' = [state EXCEPT ![i] = "ZOMBIE"]
  /\ signal' = [tell_father(i) EXCEPT ![i] = {}]
  /\ alarm' = [alarm EXCEPT ![i] = FALSE]
  /\ catches' = [catches EXCEPT ![i] = {}]
  /\ Leave(i, "dead")
  /\ UNCHANGED <<taskVars, ttyVars, want, stopped, bounds>>

-----------------------------------------------------------------------------
(* waitpid                                                                 *)

Matching(i) == {j \in Children(i) : j # i /\ want[i] \in {Nobody, pid[j]}}
Zombies(i)  == {j \in Matching(i) : state[j] = "ZOMBIE"}

sys_waitpid(i) ==
  /\ Runs(i, "user")
  /\ \E w \in {Nobody} \cup {pid[j] : j \in Children(i)} : want' = [want EXCEPT ![i] = w]
  /\ Goto(i, "wait_scan")
  /\ UNCHANGED <<taskVars, ttyVars, sigVars, catches, state, current, stopped, bounds>>

(* The zombie found first is released, and schedule() called. *)
Reap(i) ==
  /\ Runs(i, "wait_scan")
  /\ \E z \in Zombies(i) :
       /\ \A y \in Zombies(i) : y <= z
       /\ state' = [state EXCEPT ![z] = "FREE"]
       /\ father' = [father EXCEPT ![z] = Nobody]
       /\ pid' = [pid EXCEPT ![z] = Nobody]
       /\ pc' = [pc EXCEPT ![z] = "user", ![i] = "ret"]
  /\ want' = [want EXCEPT ![i] = Nobody]
  /\ current' = Nobody
  /\ UNCHANGED <<last_pid, ttyVars, sigVars, catches, stopped, bounds>>

(* -ECHILD, or 0 with WNOHANG. *)
WaitFails(i) ==
  /\ Runs(i, "wait_scan") /\ Zombies(i) = {}
  /\ want' = [want EXCEPT ![i] = Nobody]
  /\ Return(i)
  /\ UNCHANGED <<taskVars, ttyVars, sigVars, catches, state, stopped, bounds>>

WaitSleeps(i) ==
  /\ Runs(i, "wait_scan") /\ Zombies(i) = {} /\ Matching(i) # {}
  /\ Sleep(i)
  /\ Leave(i, "waitpid")
  /\ UNCHANGED <<taskVars, ttyVars, sigVars, catches, want, stopped, bounds>>

(* Awake again: look once more, or return if another signal has come. *)
WaitWakes(i) ==
  /\ Runs(i, "waitpid")
  /\ signal' = [signal EXCEPT ![i] = @ \ {SIGCHLD}]
  /\ IF signal[i] \ {SIGCHLD} = {}
     THEN Goto(i, "wait_scan") /\ UNCHANGED <<current, want>>
     ELSE Return(i) /\ want' = [want EXCEPT ![i] = Nobody]
  /\ UNCHANGED <<taskVars, alarm, ttyVars, catches, state, stopped, bounds>>

-----------------------------------------------------------------------------
(* Signals.  Bound: kill and alarm use up `signals`; the handler is        *)
(* installed before the first fork, and inherited.                         *)

Calls(i) == Runs(i, "user") /\ signals > 0 /\ signals' = signals - 1

sys_kill(i) ==
  /\ Calls(i)
  /\ \E j \in Tasks \ {init} : /\ ~Gone(j)
                               /\ signal' = [signal EXCEPT ![j] = @ \cup {SIGKILL}]
  /\ Return(i)
  /\ UNCHANGED <<taskVars, ttyVars, alarm, catches, state, want, stopped, forks>>

sys_alarm(i) ==
  /\ Calls(i) /\ i # init
  /\ \E on \in BOOLEAN : alarm' = [alarm EXCEPT ![i] = on]
  /\ Return(i)
  /\ UNCHANGED <<taskVars, ttyVars, signal, catches, state, want, stopped, forks>>

sys_signal(i) ==
  /\ Runs(i, "user") /\ forks = MaxForks
  /\ catches' = [catches EXCEPT ![i] = @ \cup {SIGALRM}]
  /\ Return(i)
  /\ UNCHANGED <<taskVars, ttyVars, sigVars, state, want, stopped, bounds>>

sys_pause(i) ==
  /\ Runs(i, "user")
  /\ Sleep(i)
  /\ Leave(i, "ret")
  /\ UNCHANGED <<taskVars, ttyVars, sigVars, catches, want, stopped, bounds>>

(* ret_from_sys_call without a signal. *)
ReturnToUser(i) ==
  /\ Runs(i, "ret") /\ signal[i] = {}
  /\ Goto(i, "user")
  /\ UNCHANGED <<taskVars, ttyVars, sigVars, catches, state, current, want, stopped, bounds>>

(* With signals the lowest one is taken, and only that: ignored, or given  *)
(* to its handler once ...                                                 *)
Lowest(i, s) == s \in signal[i] /\ \A t \in signal[i] : s <= t

do_signal(i) ==
  /\ Runs(i, "ret")
  /\ \E s \in Signals : /\ Lowest(i, s) /\ (s = SIGCHLD \/ s \in catches[i])
                        /\ signal' = [signal EXCEPT ![i] = @ \ {s}]
                        /\ catches' = [catches EXCEPT ![i] = @ \ {s}]
  /\ Goto(i, "user")
  /\ UNCHANGED <<taskVars, ttyVars, alarm, state, current, want, stopped, bounds>>

(* ... or the end of the process. *)
FatalSignal(i) ==
  /\ Runs(i, "ret")
  /\ \E s \in Signals \ {SIGCHLD} : /\ Lowest(i, s) /\ s \notin catches[i]
                                    /\ do_exit(i, [signal EXCEPT ![i] = @ \ {s}])
  /\ UNCHANGED <<pid, last_pid, alarm, ttyVars, catches, want, stopped, bounds>>

-----------------------------------------------------------------------------
(* A terminal with one wait queue: sleep_if_empty and                      *)
(* interruptible_sleep_on, which starts a process that sleeps before it.   *)

(* `->state = 0`, whatever k does.  One that waits for the disk sleeps     *)
(* again at once (wait_on_buffer and wait_on_inode look at their lock).    *)
Awake(k) == IF state[k] = "INTERRUPTIBLE" THEN [state EXCEPT ![k] = "RUNNING"] ELSE state

(* The secondary queue in canonical mode: empty, characters that a line    *)
(* end is still missing for, or a line (or so many characters that there   *)
(* is no room for more), which is what tty_read waits for.                 *)
Input == {"none", "partial", "line"}

Enqueue(i, st, list) ==
  /\ tmp' = [tmp EXCEPT ![i] = list]
  /\ proc_list' = i
  /\ state' = [st EXCEPT ![i] = "INTERRUPTIBLE"]
  /\ Leave(i, "tty_read")

(* tty_read is over, and the alarm as it was before: one that has gone off *)
(* during the read will go off again.                                      *)
ReadEnds(i, st, list, old) ==
  /\ tmp' = [tmp EXCEPT ![i] = Nobody] /\ proc_list' = list /\ state' = st
  /\ alarm' = [alarm EXCEPT ![i] = old]
  /\ oldalarm' = [oldalarm EXCEPT ![i] = FALSE]
  /\ Return(i)

(* The loop of tty_read with that of sleep_if_empty; st and list are the   *)
(* states and the queue found, old the alarm at the start.  A signal ends  *)
(* it, and a line does, of which something may be left; when there is      *)
(* nothing it sleeps.  But with a part of a line sleep_if_empty returns at *)
(* once: the process goes round the loop and keeps the processor.          *)
ReadOrSleep(i, st, list, old) ==
  \/ signal[i] # {} /\ ReadEnds(i, st, list, old) /\ UNCHANGED input
  \/ signal[i] = {} /\ input = "line" /\ ReadEnds(i, st, list, old) /\ input' \in Input
  \/ /\ signal[i] = {} /\ input # "line"
     /\ oldalarm' = [oldalarm EXCEPT ![i] = old]
     /\ UNCHANGED <<input, alarm>>
     /\ \/ input = "none" /\ Enqueue(i, st, list)
        \/ /\ input = "partial"
           /\ tmp' = [tmp EXCEPT ![i] = Nobody] /\ proc_list' = list /\ state' = st
           /\ Goto(i, "tty_spin") /\ UNCHANGED current

(* init only waits for its children (init/main.c). *)
tty_read(i) ==
  /\ Runs(i, "user") /\ i # init
  /\ ReadOrSleep(i, state, proc_list, alarm[i])
  /\ UNCHANGED <<taskVars, signal, catches, want, stopped, bounds>>

(* Once more round the loop. *)
Spin(i) ==
  /\ Runs(i, "tty_spin")
  /\ ReadOrSleep(i, state, proc_list, oldalarm[i])
  /\ UNCHANGED <<taskVars, signal, catches, want, stopped, bounds>>

(* Another process is at the head of the queue: it is woken, and this one  *)
(* sleeps on.                                                              *)
NotTheHead(i) ==
  /\ Runs(i, "tty_read") /\ proc_list \notin {Nobody, i}
  /\ stopped' = Gone(proc_list)
  /\ state' = [Awake(proc_list) EXCEPT ![i] = "INTERRUPTIBLE"]
  /\ Leave(i, "tty_read")
  /\ UNCHANGED <<taskVars, ttyVars, sigVars, catches, want, bounds>>

(* The head, or the queue is empty: out of interruptible_sleep_on, and the *)
(* next one is woken.                                                      *)
WakesNext(i) ==
  /\ Runs(i, "tty_read") /\ proc_list \in {Nobody, i}
  /\ stopped' = (tmp[i] # Nobody /\ Gone(tmp[i]))
  /\ ReadOrSleep(i, IF tmp[i] = Nobody THEN state ELSE Awake(tmp[i]), Nobody, oldalarm[i])
  /\ UNCHANGED <<taskVars, signal, catches, want, bounds>>

(* External: the keyboard interrupt; copy_to_cooked puts characters into   *)
(* the queue or erases some, then wake_up(&secondary.proc_list).  It comes *)
(* between two processes, as one that runs does not notice it earlier, or  *)
(* while one spins, which notices at once.                                 *)
TtyInput ==
  /\ ~stopped
  /\ \/ current = Nobody
     \/ input = "partial" /\ \E i \in Tasks : Runs(i, "tty_spin")
  /\ input' \in Input
  /\ state' = IF proc_list = Nobody THEN state ELSE Awake(proc_list)
  /\ proc_list' = Nobody
  /\ UNCHANGED <<taskVars, tmp, oldalarm, sigVars, catches, current, pc, want, stopped, bounds>>

-----------------------------------------------------------------------------
(* The system has run for a while: pids are about to go round. *)
Init ==
  /\ state = [i \in Tasks |-> IF i = init THEN "RUNNING" ELSE "FREE"]
  /\ pid = [i \in Tasks |-> IF i = init THEN 1 ELSE Nobody]
  /\ father = [i \in Tasks |-> Nobody]
  /\ signal = [i \in Tasks |-> {}]
  /\ catches = [i \in Tasks |-> {}] /\ alarm = [i \in Tasks |-> FALSE]
  /\ oldalarm = [i \in Tasks |-> FALSE]
  /\ pc = [i \in Tasks |-> "user"] /\ want = [i \in Tasks |-> Nobody]
  /\ proc_list = Nobody /\ tmp = [i \in Tasks |-> Nobody] /\ input = "none"
  /\ last_pid = MaxPid - 1 /\ current = init /\ stopped = FALSE
  /\ forks = MaxForks /\ signals = MaxSignals

(* What a process does in the kernel once it has the processor. *)
Kernel(i) ==
  \/ ReturnToUser(i) \/ do_signal(i) \/ FatalSignal(i) \/ Die(i)
  \/ Reap(i) \/ WaitFails(i) \/ WaitSleeps(i) \/ WaitWakes(i)
  \/ NotTheHead(i) \/ WakesNext(i) \/ Spin(i)

Call(i) ==
  \/ Fork(i) \/ ForkFails(i) \/ sys_exit(i) \/ sys_waitpid(i) \/ sys_kill(i) \/ sys_alarm(i)
  \/ sys_signal(i) \/ sys_pause(i) \/ tty_read(i)

Next ==
  \/ TtyInput
  \/ \E i \in Tasks : Kernel(i) \/ Call(i) \/ schedule(i) \/ do_timer(i) \/ IoDone(i)

Spec == Init /\ [][Next]_vars

(* The process that has the processor goes on in the kernel, the counter   *)
(* of one in user mode runs down, counters are given out to every runnable *)
(* process, and the disk answers.                                          *)
FairSpec ==
  /\ Spec
  /\ WF_vars(\E i \in Tasks : Kernel(i)) /\ SF_vars(\E i \in Tasks : do_timer(i))
  /\ WF_vars(\E i \in Tasks : IoDone(i))
  /\ \A i \in Tasks : SF_vars(schedule(i))
-----------------------------------------------------------------------------
(* Properties                                                              *)

Labels == {"user", "ret", "wait_scan", "waitpid", "tty_read", "tty_spin", "closing", "dead"}

(* The types of the task table and of the signals. *)
TypeOK ==
  /\ state \in [Tasks -> States] /\ pid \in [Tasks -> 0 .. MaxPid]
  /\ father \in [Tasks -> 0 .. MaxPid]
  /\ signal \in [Tasks -> SUBSET Signals]
  /\ catches \in [Tasks -> SUBSET (Signals \ {SIGKILL})] /\ alarm \in [Tasks -> BOOLEAN]
  /\ pc \in [Tasks -> Labels] /\ want \in [Tasks -> 0 .. MaxPid]
  /\ proc_list \in Tasks \cup {Nobody} /\ tmp \in [Tasks -> Tasks \cup {Nobody}]
  /\ input \in Input /\ oldalarm \in [Tasks -> BOOLEAN] /\ last_pid \in 1 .. MaxPid
  /\ current \in Tasks \cup {Nobody} /\ stopped \in BOOLEAN
  /\ forks \in 0 .. MaxForks /\ signals \in 0 .. MaxSignals

(* Every process has a father that has not begun to exit, and one only:    *)
(* tell_father finds the right one, although pids go round and a process   *)
(* sleeps in the middle of do_exit, between the adoption of its children   *)
(* and its end.                                                            *)
Alive(j) == Exists(j) /\ pc[j] \notin {"closing", "dead"}

FatherKnown ==
  \A i \in Tasks \ {init} : Exists(i) =>
    /\ \E j \in Tasks : Alive(j) /\ pid[j] = father[i]
    /\ \A j \in Tasks \ {i} : Exists(j) => pid[i] # pid[j]

(* A process asleep in waitpid while a child it waits for is a zombie has  *)
(* SIGCHLD pending: no end of a child is missed between the scan and the   *)
(* sleep, nor the end of one that is adopted by init (do_exit, tell_father *)
(* and the clearing of SIGCHLD in sys_waitpid).                            *)
NoMissedChild ==
  \A i \in Tasks : pc[i] = "waitpid" /\ current # i /\ Zombies(i) # {} => SIGCHLD \in signal[i]

(* A process spins in tty_read: the kernel is not preemptive, so that no   *)
(* other one runs until the line is complete or erased.                    *)
Spinning == \E i \in Tasks : current = i /\ pc[i] = "tty_spin"

(* No process waits for ever for a child that has ended: as forks and      *)
(* signals are bounded, from some point on no one sleeps in waitpid with a *)
(* zombie it waits for (tell_father, and schedule() that looks at signals),*)
(* unless a reader of a line that is never completed keeps the processor.  *)
WaitEnds ==
  \/ <>[]Spinning
  \/ <>[](stopped \/ \A i \in Tasks : pc[i] = "waitpid" => Zombies(i) = {})

(* A process that is sent SIGKILL ends, whatever it does, as the signal    *)
(* ends every interruptible sleep, unless it reads the terminal together   *)
(* with another one: interruptible_sleep_on lets only the head of the      *)
(* queue go, which sleeps again at once.  Always again a time comes when   *)
(* no SIGKILL is pending but for that, and nobody is in do_exit; or a      *)
(* reader spins for ever.                                                  *)
ReadsTogether(i) == \E j \in Tasks \ {i} : pc[i] = "tty_read" /\ pc[j] = "tty_read"

KillWorks ==
  \/ <>[]Spinning
  \/ []<>(stopped \/ \A i \in Tasks : SIGKILL \in signal[i] \/ pc[i] = "closing" => ReadsTogether(i))
=============================================================================
