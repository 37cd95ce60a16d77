------------------------- MODULE BufferCacheProofs --------------------------
(***************************************************************************)
(* Theorems about BufferCache, for every number of processes, buffers,     *)
(* request slots and blocks.                                               *)
(***************************************************************************)
EXTENDS BufferCache, BlockRequestProofs, FiniteSetTheorems

SyncOps   == {"sys_sync", "sync_dev"}
ReqLabels == {"lock", "find_req", "req_sleep"}

(* What the control state of a process implies about its local variables:  *)
(* no label is reached with a variable that its code uses unset.           *)
Control(p) ==
  /\ pc[p] \in {"getblk", "hash_wait", "victim_wait", "got", "fill"} => args[p] # << >>
  /\ pc[p] \in {"hash_wait", "victim_wait", "got", "drop", "fill", "brelse", "page_wait"}
       => bh[p] \in Buffers
  /\ pc[p] \in {"read_wait", "drop"} => first[p] \in Buffers
  /\ pc[p] \in ReqLabels => rbh[p] \in Buffers
  /\ pc[p] \in ReqLabels /\ scan[p] = NoScan => bh[p] \in Buffers /\ first[p] \in Buffers
  /\ pc[p] \in ReqLabels \cup {"sync", "sync_wait"} /\ scan[p] # NoScan /\ op[p] \notin SyncOps
       => args[p] # << >> /\ bh[p] \in Buffers
  /\ pc[p] \in {"sync", "sync_wait"} => scan[p] # NoScan
  /\ pc[p] \in {"sync_wait", "invalidate_wait"} => scan[p].i \in Buffers
  /\ pc[p] \notin ReqLabels \cup {"sync", "sync_wait", "invalidate", "invalidate_wait"}
       => scan[p] = NoScan

ControlOK == \A p \in Procs : Control(p)

TypeInv == TypeOK /\ ControlOK

-----------------------------------------------------------------------------
(* Types and control, action by action.  A part of the state that an       *)
(* action leaves alone keeps its type.                                     *)
LEMMA TypeFrame ==
  ASSUME TypeOK
  PROVE  /\ UNCHANGED bufVars => BufTypeOK'
         /\ UNCHANGED reqVars => ReqTypeOK'
         /\ UNCHANGED callVars => CallTypeOK'
         /\ UNCHANGED dataVars => DataTypeOK'
         /\ UNCHANGED <<held, budget>> => UseTypeOK'
         /\ UNCHANGED <<pc, chan, current>> => RunTypeOK'
<1>1. UNCHANGED bufVars => BufTypeOK'
  BY DEF TypeOK, BufTypeOK, bufVars
<1>2. UNCHANGED reqVars => ReqTypeOK'
  BY DEF TypeOK, ReqTypeOK, reqVars
<1>3. UNCHANGED callVars => CallTypeOK'
  BY DEF TypeOK, CallTypeOK, callVars
<1>4. UNCHANGED dataVars => DataTypeOK'
  BY DEF TypeOK, DataTypeOK, dataVars
<1>5. UNCHANGED <<held, budget>> => UseTypeOK'
  BY DEF TypeOK, UseTypeOK
<1>6. UNCHANGED <<pc, chan, current>> => RunTypeOK'
  BY DEF TypeOK, RunTypeOK
<1> QED BY <1>1, <1>2, <1>3, <1>4, <1>5, <1>6

(* Every step of a process keeps the types and the control invariant.      *)
LEMMA TypeStep ==
  ASSUME TypeInv, NEW p \in Procs, Caller(p) \/ Kernel(p)
  PROVE  TypeInv'
<1> USE BuffersAssumption, BoundsAssumption DEF TypeInv, TypeOK
<1>1. ASSUME NEW o \in Ops, NEW blk \in Blocks, CallOne(p, o, blk) PROVE TypeInv'
  <2> USE <1>1
  <2>1. CallTypeOK'
    BY OpsAssumption DEF CallTypeOK, CallOne, Call
  <2>2. UseTypeOK'
    BY OpsAssumption DEF UseTypeOK, CallOne, Call
  <2>3. RunTypeOK'
    BY OpsAssumption DEF RunTypeOK, CallOne, Call, Goto, Labels
  <2>4. BufTypeOK' /\ ReqTypeOK' /\ DataTypeOK'
    BY TypeFrame DEF CallOne, Call
  <2>5. ControlOK'
    BY OpsAssumption DEF ControlOK, Control, CallTypeOK, RunTypeOK, Runs, Buffers,
           ReqLabels, callVars, CallOne, Call, Goto
  <2> QED BY <2>1, <2>2, <2>3, <2>4, <2>5
<1>2. ASSUME NEW o \in Ops, NEW blk1 \in Blocks, NEW blk2 \in Blocks, CallMany(p, o, blk1, blk2) PROVE TypeInv'
  <2> USE <1>2
  <2>1. CallTypeOK'
    BY OpsAssumption DEF CallTypeOK, CallMany, Call
  <2>2. UseTypeOK'
    BY OpsAssumption DEF UseTypeOK, CallMany, Call
  <2>3. RunTypeOK'
    BY OpsAssumption DEF RunTypeOK, CallMany, Call, Goto, Labels
  <2>4. BufTypeOK' /\ ReqTypeOK' /\ DataTypeOK'
    BY TypeFrame DEF CallMany, Call
  <2>5. ControlOK'
    BY OpsAssumption DEF ControlOK, Control, CallTypeOK, RunTypeOK, Runs, Buffers,
           ReqLabels, callVars, CallMany, Call, Goto
  <2> QED BY <2>1, <2>2, <2>3, <2>4, <2>5
<1>3. ASSUME NEW o \in Ops, NEW dev \in Devices, CallSync(p, o, dev) PROVE TypeInv'
  <2> USE <1>3
  <2>1. CallTypeOK'
    BY OpsAssumption DEF CallTypeOK, CallSync, Call, Scans, AllDevs
  <2>2. UseTypeOK'
    BY OpsAssumption DEF UseTypeOK, CallSync, Call
  <2>3. RunTypeOK'
    BY OpsAssumption DEF RunTypeOK, CallSync, Call, Goto, Labels
  <2>4. BufTypeOK' /\ ReqTypeOK' /\ DataTypeOK'
    BY TypeFrame DEF CallSync, Call
  <2>5. ControlOK'
    BY OpsAssumption DEF ControlOK, Control, CallTypeOK, RunTypeOK, Runs, Buffers,
           ReqLabels, callVars, CallSync, Call, Goto, NoScan, SyncOps
  <2> QED BY <2>1, <2>2, <2>3, <2>4, <2>5
<1>4. ASSUME NEW dev \in Devices, CallDiskChange(p, dev) PROVE TypeInv'
  <2> USE <1>4
  <2>1. CallTypeOK'
    BY DEF CallTypeOK, CallDiskChange, Scans, AllOps
  <2>2. UseTypeOK'
    BY DEF UseTypeOK, CallDiskChange
  <2>3. DataTypeOK'
    BY DEF DataTypeOK, CallDiskChange, DataTypeOK, BufTypeOK
  <2>4. RunTypeOK'
    BY DEF RunTypeOK, CallDiskChange, Goto, Labels
  <2>5. BufTypeOK' /\ ReqTypeOK'
    BY TypeFrame DEF CallDiskChange
  <2>6. ControlOK'
    BY DEF ControlOK, Control, CallTypeOK, RunTypeOK, Runs, Buffers, ReqLabels,
           callVars, CallDiskChange, Goto, NoScan
  <2> QED BY <2>1, <2>2, <2>3, <2>4, <2>5, <2>6
<1>5. ASSUME NEW b \in Buffers, Modify(p, b) PROVE TypeInv'
  <2> USE <1>5
  <2>1. BufTypeOK'
    BY DEF BufTypeOK, Modify
  <2>2. DataTypeOK'
    BY DEF DataTypeOK, Modify
  <2>3. ReqTypeOK' /\ CallTypeOK' /\ UseTypeOK' /\ RunTypeOK'
    BY TypeFrame DEF Modify
  <2>4. ControlOK'
    BY DEF ControlOK, Control, CallTypeOK, RunTypeOK, Runs, Buffers, ReqLabels,
           callVars, Modify
  <2> QED BY <2>1, <2>2, <2>3, <2>4
<1>6. ASSUME NEW b \in Buffers, CallBrelse(p, b) PROVE TypeInv'
  <2> USE <1>6
  <2>1. CallTypeOK'
    BY DEF CallTypeOK, CallBrelse
  <2>2. RunTypeOK'
    BY DEF RunTypeOK, CallBrelse, Goto, Labels
  <2>3. BufTypeOK' /\ ReqTypeOK' /\ UseTypeOK' /\ DataTypeOK'
    BY TypeFrame DEF CallBrelse
  <2>4. ControlOK'
    BY DEF ControlOK, Control, CallTypeOK, RunTypeOK, Runs, Buffers, ReqLabels,
           callVars, CallBrelse, Goto, Holds
  <2> QED BY <2>1, <2>2, <2>3, <2>4
<1>7. ASSUME GetblkHit(p) PROVE TypeInv'
  <2> USE <1>7
  <2>1. Head(args[p]) \in Blocks
    BY HeadTailProperties DEF GetblkHit, Runs, ControlOK, Control, CallTypeOK
  <2>2. BufTypeOK'
    BY <2>1 DEF BufTypeOK, GetblkHit, Cached, Runs, ControlOK, Control, CallTypeOK,
           RunTypeOK, ReqLabels
  <2>3. CallTypeOK'
    BY <2>1 DEF CallTypeOK, GetblkHit, Cached, Runs, ControlOK, Control, RunTypeOK,
           ReqLabels
  <2>4. UseTypeOK'
    BY <2>1 DEF UseTypeOK, GetblkHit, Cached, Runs, ControlOK, Control, CallTypeOK,
           RunTypeOK, ReqLabels
  <2>5. RunTypeOK'
    BY <2>1 DEF RunTypeOK, GetblkHit, Goto, Labels, Runs, ControlOK, Control,
           CallTypeOK, ReqLabels
  <2>6. ReqTypeOK' /\ DataTypeOK'
    BY TypeFrame DEF GetblkHit
  <2>7. ControlOK'
    BY <2>1 DEF ControlOK, Control, CallTypeOK, RunTypeOK, Runs, Buffers, ReqLabels,
           callVars, GetblkHit, Goto, Cached
  <2> QED BY <2>1, <2>2, <2>3, <2>4, <2>5, <2>6, <2>7
<1>8. ASSUME GetblkVictim(p) PROVE TypeInv'
  <2> USE <1>8
  <2>1. CallTypeOK'
    BY DEF CallTypeOK, GetblkVictim
  <2>2. RunTypeOK'
    BY DEF RunTypeOK, GetblkVictim, Goto, Labels
  <2>3. BufTypeOK' /\ ReqTypeOK' /\ UseTypeOK' /\ DataTypeOK'
    BY TypeFrame DEF GetblkVictim
  <2>4. ControlOK'
    BY DEF ControlOK, Control, CallTypeOK, RunTypeOK, Runs, Buffers, ReqLabels,
           callVars, GetblkVictim, Goto
  <2> QED BY <2>1, <2>2, <2>3, <2>4
<1>9. ASSUME GetblkSleep(p) PROVE TypeInv'
  <2> USE <1>9
  <2>1. RunTypeOK'
    BY DEF RunTypeOK, GetblkSleep, SleepOn, Labels, Channels, Buffers
  <2>2. BufTypeOK' /\ ReqTypeOK' /\ CallTypeOK' /\ UseTypeOK' /\ DataTypeOK'
    BY TypeFrame DEF GetblkSleep
  <2>3. ControlOK'
    BY DEF ControlOK, Control, CallTypeOK, RunTypeOK, Runs, Buffers, ReqLabels,
           callVars, GetblkSleep, SleepOn
  <2> QED BY <2>1, <2>2, <2>3
<1>10. ASSUME HashWait(p) PROVE TypeInv'
  <2> USE <1>10
  <2>1. bh[p] \in Buffers
    BY DEF HashWait, Runs, ControlOK, Control
  <2>2. (UNCHANGED <<b_count, held>>) \/ (/\ b_count' = [b_count EXCEPT ![bh[p]] = @ - 1]
          /\ held' = [held EXCEPT ![p][bh[p]] = NoBlock])
    BY DEF HashWait
  <2>3. current' = p /\ chan' = chan
        /\ \E l \in {"got", "getblk"} : pc' = [pc EXCEPT ![p] = l]
    BY DEF HashWait, Goto
  <2>4. BufTypeOK'
    BY <2>1, <2>2 DEF BufTypeOK, HashWait
  <2>5. UseTypeOK'
    BY <2>1, <2>2 DEF UseTypeOK, HashWait
  <2>6. RunTypeOK'
    BY <2>3 DEF RunTypeOK, Labels
  <2>7. ReqTypeOK' /\ CallTypeOK' /\ DataTypeOK'
    BY TypeFrame DEF HashWait
  <2>8. /\ pc[p] = "hash_wait" /\ args[p] # << >>
        /\ UNCHANGED callVars
    BY DEF HashWait, Runs, ControlOK, Control
  <2>9. ControlOK'
    BY <2>1, <2>3, <2>8 DEF ControlOK, Control, RunTypeOK, ReqLabels, callVars
  <2> QED BY <2>1, <2>2, <2>3, <2>4, <2>5, <2>6, <2>7, <2>8, <2>9
<1>11. ASSUME VictimLost(p) PROVE TypeInv'
  <2> USE <1>11
  <2>1. RunTypeOK'
    BY DEF RunTypeOK, VictimLost, Goto, Labels
  <2>2. BufTypeOK' /\ ReqTypeOK' /\ CallTypeOK' /\ UseTypeOK' /\ DataTypeOK'
    BY TypeFrame DEF VictimLost
  <2>3. ControlOK'
    BY DEF ControlOK, Control, CallTypeOK, RunTypeOK, Runs, Buffers, ReqLabels,
           callVars, VictimLost, Goto
  <2> QED BY <2>1, <2>2, <2>3
<1>12. ASSUME VictimSync(p) PROVE TypeInv'
  <2> USE <1>12
  <2>1. bh[p] \in Buffers /\ b_blk[bh[p]][1] \in Devices \cup {0}
    BY DEF VictimSync, Runs, ControlOK, Control, BufTypeOK, Devices, NoBlock
  <2>2. CallTypeOK'
    BY <2>1 DEF CallTypeOK, VictimSync, Scans
  <2>3. RunTypeOK'
    BY <2>1 DEF RunTypeOK, VictimSync, Goto, Labels
  <2>4. BufTypeOK' /\ ReqTypeOK' /\ UseTypeOK' /\ DataTypeOK'
    BY TypeFrame DEF VictimSync
  <2>5. ControlOK'
    BY <2>1 DEF ControlOK, Control, CallTypeOK, RunTypeOK, Runs, Buffers, ReqLabels,
           callVars, VictimSync, Goto, NoScan
  <2> QED BY <2>1, <2>2, <2>3, <2>4, <2>5
<1>13. ASSUME VictimClaim(p) PROVE TypeInv'
  <2> USE <1>13
  <2>1. Head(args[p]) \in Blocks /\ bh[p] \in Buffers
    BY HeadTailProperties DEF VictimClaim, Runs, ControlOK, Control, CallTypeOK
  <2>2. MoveToEnd(bh[p]) \in [Buffers -> Buffers]
    <3> DEFINE k == CHOOSE i \in Buffers : free_list[i] = bh[p]
    <3>1. MoveToEnd(bh[p]) = [i \in Buffers |-> IF i < k THEN free_list[i]
                               ELSE IF i < NR_BUFFERS THEN free_list[i + 1] ELSE bh[p]]
      BY DEF MoveToEnd
    <3> HIDE DEF k
    <3>2. ASSUME NEW i \in Buffers, i < NR_BUFFERS
          PROVE  i + 1 \in Buffers
      BY <3>2 DEF Buffers
    <3> QED BY <2>1, <3>1, <3>2 DEF BufTypeOK
  <2>3. BufTypeOK'
    BY <2>1, <2>2 DEF BufTypeOK, VictimClaim, Claim, TakeOver
  <2>4. ReqTypeOK'
    BY <2>1, <2>2 DEF ReqTypeOK, VictimClaim, Claim, TakeOver, reqVars
  <2>5. CallTypeOK'
    BY <2>1, <2>2 DEF CallTypeOK, VictimClaim, Claim, TakeOver, callVars
  <2>6. UseTypeOK'
    BY <2>1, <2>2 DEF UseTypeOK, VictimClaim, Claim, TakeOver
  <2>7. DataTypeOK'
    BY <2>1, <2>2 DEF DataTypeOK, VictimClaim, Claim, TakeOver
  <2>8. RunTypeOK'
    BY <2>1, <2>2 DEF RunTypeOK, VictimClaim, Claim, TakeOver, Goto, Labels
  <2>9. ControlOK'
    BY <2>1, <2>2 DEF ControlOK, Control, CallTypeOK, RunTypeOK, Runs, Buffers,
           ReqLabels, callVars, VictimClaim, Claim, TakeOver, Goto
  <2> QED BY <2>1, <2>2, <2>3, <2>4, <2>5, <2>6, <2>7, <2>8, <2>9
<1>14. ASSUME SyncWait(p) PROVE TypeInv'
  <2> USE <1>14
  <2>1. CallTypeOK'
    BY DEF CallTypeOK, SyncWait, At, Scans, Pending, Buffers, Runs, ControlOK, Control,
           RunTypeOK, ReqLabels
  <2>2. RunTypeOK'
    BY DEF RunTypeOK, SyncWait, Pending, Goto, Labels, Buffers, Runs,
           ControlOK, Control, CallTypeOK, ReqLabels
  <2>3. BufTypeOK' /\ ReqTypeOK' /\ UseTypeOK' /\ DataTypeOK'
    BY TypeFrame DEF SyncWait
  <2>4. ControlOK'
    BY DEF ControlOK, Control, CallTypeOK, RunTypeOK, Runs, Buffers, ReqLabels,
           callVars, SyncWait, Goto, At, Scans, NoScan, Pending
  <2> QED BY <2>1, <2>2, <2>3, <2>4
<1>15. ASSUME SyncWrite(p) PROVE TypeInv'
  <2> USE <1>15
  <2>1. CallTypeOK'
    BY DEF CallTypeOK, SyncWrite, CallRW, At, Scans, Pending, Buffers, Runs, ControlOK,
           Control, RunTypeOK, ReqLabels
  <2>2. RunTypeOK'
    BY DEF RunTypeOK, SyncWrite, CallRW, Goto, Labels, Runs, ControlOK, Control,
           CallTypeOK, ReqLabels
  <2>3. BufTypeOK' /\ ReqTypeOK' /\ UseTypeOK' /\ DataTypeOK'
    BY TypeFrame DEF SyncWrite, Call
  <2>4. ControlOK'
    BY DEF ControlOK, Control, CallTypeOK, RunTypeOK, Runs, Buffers, ReqLabels,
           callVars, SyncWrite, CallRW, Goto, At, Scans, NoScan, Pending
  <2> QED BY <2>1, <2>2, <2>3, <2>4
<1>16. ASSUME SyncAgain(p) PROVE TypeInv'
  <2> USE <1>16
  <2>1. CallTypeOK'
    BY DEF CallTypeOK, SyncAgain, At, Scans, Buffers
  <2>2. RunTypeOK'
    BY DEF RunTypeOK, SyncAgain, Goto, Labels
  <2>3. BufTypeOK' /\ ReqTypeOK' /\ UseTypeOK' /\ DataTypeOK'
    BY TypeFrame DEF SyncAgain
  <2>4. ControlOK'
    BY DEF ControlOK, Control, CallTypeOK, RunTypeOK, Runs, Buffers, ReqLabels,
           callVars, SyncAgain, Goto, At, Scans, NoScan
  <2> QED BY <2>1, <2>2, <2>3, <2>4
<1>17. ASSUME SyncEnd(p) PROVE TypeInv'
  <2> USE <1>17
  <2>1. scan' = [scan EXCEPT ![p] = NoScan] /\ rw' = rw /\ rbh' = rbh
    BY DEF SyncEnd
  <2>2. (UNCHANGED <<op, args, bh, first>>) \/ Return(p)
    BY DEF SyncEnd
  <2>3. CallTypeOK'
    <3>1. NoScan \in Scans
      BY DEF Scans, NoScan
    <3>2. << >> \in Seq(Blocks)
      OBVIOUS
    <3>3. CASE UNCHANGED <<op, args, bh, first>>
      BY <2>1, <3>1, <3>3 DEF CallTypeOK
    <3>4. CASE Return(p)
      BY <2>1, <3>1, <3>2, <3>4 DEF CallTypeOK, Return
    <3> QED BY <2>2, <3>3, <3>4
  <2>4. RunTypeOK'
    BY DEF RunTypeOK, SyncEnd, Goto, Return, Labels
  <2>5. BufTypeOK' /\ ReqTypeOK' /\ UseTypeOK' /\ DataTypeOK'
    BY TypeFrame DEF SyncEnd
  <2>6. ControlOK'
    BY DEF ControlOK, Control, CallTypeOK, RunTypeOK, Runs, Buffers, ReqLabels,
           callVars, SyncEnd, Goto, Return, NoScan, SyncOps
  <2> QED BY <2>1, <2>2, <2>3, <2>4, <2>5, <2>6
<1>18. ASSUME SkipRequest(p) PROVE TypeInv'
  <2> USE <1>18
  <2>1. CallTypeOK'
    BY DEF CallTypeOK, SkipRequest, ReturnRW, Runs, ControlOK, Control, RunTypeOK,
           ReqLabels
  <2>2. RunTypeOK'
    BY DEF RunTypeOK, SkipRequest, ReturnRW, AfterRW, Goto, Labels, Runs, ControlOK,
           Control, CallTypeOK, ReqLabels
  <2>3. BufTypeOK' /\ ReqTypeOK' /\ UseTypeOK' /\ DataTypeOK'
    BY TypeFrame DEF SkipRequest
  <2>4. ControlOK'
    BY DEF ControlOK, Control, CallTypeOK, RunTypeOK, Runs, Buffers, ReqLabels,
           callVars, SkipRequest, ReturnRW, AfterRW, Goto
  <2> QED BY <2>1, <2>2, <2>3, <2>4
<1>19. ASSUME LockBuffer(p) PROVE TypeInv'
  <2> USE <1>19
  <2>1. BufTypeOK'
    BY DEF BufTypeOK, LockBuffer
  <2>2. RunTypeOK'
    BY DEF RunTypeOK, LockBuffer, Goto, Labels
  <2>3. ReqTypeOK' /\ CallTypeOK' /\ UseTypeOK' /\ DataTypeOK'
    BY TypeFrame DEF LockBuffer
  <2>4. ControlOK'
    BY DEF ControlOK, Control, CallTypeOK, RunTypeOK, Runs, Buffers, ReqLabels,
           callVars, LockBuffer, Goto
  <2> QED BY <2>1, <2>2, <2>3, <2>4
<1>20. ASSUME AddRequest(p) PROVE TypeInv'
  <2> USE <1>20
  <2> DEFINE b == rbh[p]
             req == [cmd |-> Command(p), bh |-> b, blk |-> b_blk[b], moved |-> FALSE]
             m == MAJOR(b_blk[b][1])
  <2>1. b \in Buffers /\ pc[p] = "find_req"
    BY DEF AddRequest, Runs, ControlOK, Control, ReqLabels
  <2>2. req \in Requests
    BY <2>1 DEF Requests, Command, BufTypeOK
  <2>3. PICK s \in FreeSlots(p) :
           /\ request' = [request EXCEPT ![s] = req]
           /\ queue' = [queue EXCEPT ![m] = Enqueue(request, queue[m], s, req)]
    BY DEF AddRequest
  <2>4. s \in Slots
    BY RequestAssumption DEF FreeSlots, UsableSlots, Slots
  <2> HIDE DEF req, m
  <2>5. ReqTypeOK'
    <3>1. request' \in [Slots -> Requests]
      BY <2>2, <2>3, <2>4 DEF ReqTypeOK
    <3>2. queue' \in [Majors -> Seq(Slots)]
      <4>1. CASE m \in Majors
        <5>1. Enqueue(request, queue[m], s, req) \in Seq(Slots)
          BY <2>4, <4>1, EnqueueProperties DEF ReqTypeOK
        <5> QED BY <2>3, <5>1 DEF ReqTypeOK
      <4>2. CASE m \notin Majors
        BY <2>3, <4>2 DEF ReqTypeOK
      <4> QED BY <4>1, <4>2
    <3> QED BY <3>1, <3>2 DEF ReqTypeOK
  <2>6. BufTypeOK'
    BY <2>1 DEF BufTypeOK, AddRequest
  <2>7. /\ ReturnRW(p)
        /\ UNCHANGED <<op, args, bh, first, scan, chan, held, budget, b_cur, disk_cur>>
    BY DEF AddRequest, dataVars
  <2>8. CallTypeOK'
    BY <2>7 DEF CallTypeOK, ReturnRW
  <2>9. RunTypeOK'
    BY <2>7 DEF RunTypeOK, ReturnRW, AfterRW, Goto, Labels
  <2>10. UseTypeOK' /\ DataTypeOK'
    BY <2>7, TypeFrame DEF dataVars
  <2>11. ControlOK'
    <3>1. Control(p)'
      BY <2>1, <2>7 DEF ControlOK, Control, ReturnRW, AfterRW, Goto, ReqLabels, CallTypeOK,
           RunTypeOK
    <3>2. ASSUME NEW q \in Procs, q # p PROVE Control(q)'
      BY <2>7, <3>2 DEF ControlOK, Control, ReturnRW, Goto, ReqLabels, CallTypeOK, RunTypeOK
    <3> QED BY <3>1, <3>2 DEF ControlOK
  <2> QED BY <2>5, <2>6, <2>8, <2>9, <2>10, <2>11
<1>21. ASSUME NoSlot(p) PROVE TypeInv'
  <2> USE <1>21
  <2>1. current' = p /\ (chan' = chan \/ chan' = Woken(rbh[p]))
    BY DEF NoSlot, ReturnRW, Goto
  <2>2. \E l \in Labels : pc' = [pc EXCEPT ![p] = l]
    BY DEF NoSlot, ReturnRW, AfterRW, Goto, Labels
  <2>3. BufTypeOK'
    BY DEF BufTypeOK, NoSlot, ReturnRW, Goto, Runs, ControlOK, Control, CallTypeOK,
           RunTypeOK, ReqLabels
  <2>4. CallTypeOK'
    BY DEF CallTypeOK, NoSlot, ReturnRW, Goto, Runs, ControlOK, Control, RunTypeOK,
           ReqLabels
  <2>5. RunTypeOK'
    BY <2>1, <2>2 DEF RunTypeOK, Woken, Channels
  <2>6. ReqTypeOK' /\ UseTypeOK' /\ DataTypeOK'
    BY TypeFrame DEF NoSlot
  <2>7. ControlOK'
    <3>1. CASE rw[p] = READA
      <4>1. ReturnRW(p) /\ UNCHANGED <<op, args, bh, first, scan>>
        BY <3>1 DEF NoSlot
      <4>2. Control(p) /\ pc[p] = "find_req"
        BY DEF NoSlot, Runs, ControlOK
      <4>3. Control(p)'
        BY <4>1, <4>2 DEF Control, ReturnRW, AfterRW, Goto, ReqLabels, CallTypeOK, RunTypeOK
      <4>4. ASSUME NEW q \in Procs, q # p PROVE Control(q)'
        BY <4>1, <4>4 DEF ControlOK, Control, ReturnRW, Goto, ReqLabels, CallTypeOK, RunTypeOK
      <4> QED BY <4>3, <4>4 DEF ControlOK
    <3>2. CASE rw[p] # READA
      <4>1. /\ Goto(p, "req_sleep") /\ UNCHANGED <<op, args, bh, first, rbh, scan>>
            /\ pc[p] = "find_req"
        BY <3>2 DEF NoSlot, Runs
      <4> QED BY <4>1 DEF ControlOK, Control, ReqLabels, Goto, RunTypeOK
    <3> QED BY <3>1, <3>2
  <2> QED BY <2>1, <2>2, <2>3, <2>4, <2>5, <2>6, <2>7
<1>22. ASSUME RequestSleep(p) PROVE TypeInv'
  <2> USE <1>22
  <2>1. RunTypeOK'
    BY DEF RunTypeOK, RequestSleep, SleepOn, Labels, Channels, Buffers
  <2>2. BufTypeOK' /\ ReqTypeOK' /\ CallTypeOK' /\ UseTypeOK' /\ DataTypeOK'
    BY TypeFrame DEF RequestSleep
  <2>3. ControlOK'
    BY DEF ControlOK, Control, CallTypeOK, RunTypeOK, Runs, Buffers, ReqLabels,
           callVars, RequestSleep, SleepOn
  <2> QED BY <2>1, <2>2, <2>3
<1>23. ASSUME GotValid(p) PROVE TypeInv'
  <2> USE <1>23
  <2>1. CallTypeOK'
    BY DEF CallTypeOK, GotValid, Return
  <2>2. RunTypeOK'
    BY DEF RunTypeOK, GotValid, Return, Labels
  <2>3. BufTypeOK' /\ ReqTypeOK' /\ UseTypeOK' /\ DataTypeOK'
    BY TypeFrame DEF GotValid
  <2>4. ControlOK'
    BY DEF ControlOK, Control, CallTypeOK, RunTypeOK, Runs, Buffers, ReqLabels,
           callVars, GotValid, Return
  <2> QED BY <2>1, <2>2, <2>3, <2>4
<1>24. ASSUME GotRead(p) PROVE TypeInv'
  <2> USE <1>24
  <2>1. Tail(args[p]) \in Seq(Blocks) /\ bh[p] \in Buffers
    BY HeadTailProperties DEF GotRead, Runs, ControlOK, Control, CallTypeOK
  <2>2. current' = p /\ chan' = chan
        /\ \E l \in Labels : pc' = [pc EXCEPT ![p] = l]
    BY DEF GotRead, CallRW, AfterRW, Goto, Labels
  <2>3. CallTypeOK'
    <3>1. /\ op' = op /\ bh' = bh /\ scan' = scan
          /\ args' = [args EXCEPT ![p] = Tail(args[p])]
      BY DEF GotRead
    <3>2. \E lead \in Buffers : first' = [first EXCEPT ![p] = lead]
      BY <2>1 DEF GotRead, CallTypeOK
    <3>3. \/ rw' = rw /\ rbh' = rbh
          \/ \E cmd \in {READ, READA}, b \in Buffers :
                rw' = [rw EXCEPT ![p] = cmd] /\ rbh' = [rbh EXCEPT ![p] = b]
      BY <2>1 DEF GotRead, CallRW, CallTypeOK
    <3>4. first' \in [Procs -> Buffers \cup {NoBuffer}]
      BY <3>2 DEF CallTypeOK
    <3>5. /\ rw' \in [Procs -> {"none", READ, WRITE, READA}]
          /\ rbh' \in [Procs -> Buffers \cup {NoBuffer}]
      BY <3>3 DEF CallTypeOK
    <3>6. args' \in [Procs -> Seq(Blocks)]
      BY <2>1, <3>1 DEF CallTypeOK
    <3> QED BY <3>1, <3>4, <3>5, <3>6 DEF CallTypeOK
  <2>4. RunTypeOK'
    BY <2>2 DEF RunTypeOK
  <2>5. BufTypeOK' /\ ReqTypeOK' /\ UseTypeOK' /\ DataTypeOK'
    BY TypeFrame DEF GotRead, Call
  <2>6. ControlOK'
    BY <2>1 DEF ControlOK, Control, CallTypeOK, RunTypeOK, Runs, Buffers, ReqLabels,
           callVars, GotRead, CallRW, AfterRW, Goto, NoBuffer
  <2> QED BY <2>1, <2>2, <2>3, <2>4, <2>5, <2>6
<1>25. ASSUME DropAhead(p) PROVE TypeInv'
  <2> USE <1>25
  <2>1. BufTypeOK'
    BY DEF BufTypeOK, DropAhead, Runs, ControlOK, Control, CallTypeOK, RunTypeOK,
           ReqLabels
  <2>2. CallTypeOK'
    BY DEF CallTypeOK, DropAhead, Runs, ControlOK, Control, RunTypeOK, ReqLabels
  <2>3. UseTypeOK'
    BY DEF UseTypeOK, DropAhead, Runs, ControlOK, Control, CallTypeOK, RunTypeOK,
           ReqLabels
  <2>4. RunTypeOK'
    BY DEF RunTypeOK, DropAhead, Goto, Labels, Runs, ControlOK, Control, CallTypeOK,
           ReqLabels
  <2>5. ReqTypeOK' /\ DataTypeOK'
    BY TypeFrame DEF DropAhead
  <2>6. ControlOK'
    BY DEF ControlOK, Control, CallTypeOK, RunTypeOK, Runs, Buffers, ReqLabels,
           callVars, DropAhead, Goto
  <2> QED BY <2>1, <2>2, <2>3, <2>4, <2>5, <2>6
<1>26. ASSUME GotNew(p) PROVE TypeInv'
  <2> USE <1>26
  <2>1. BufTypeOK'
    BY DEF BufTypeOK, GotNew
  <2>2. DataTypeOK'
    BY DEF DataTypeOK, GotNew
  <2>3. RunTypeOK'
    BY DEF RunTypeOK, GotNew, Goto, Labels
  <2>4. ReqTypeOK' /\ CallTypeOK' /\ UseTypeOK'
    BY TypeFrame DEF GotNew
  <2>5. ControlOK'
    BY DEF ControlOK, Control, CallTypeOK, RunTypeOK, Runs, Buffers, ReqLabels,
           callVars, GotNew, Goto
  <2> QED BY <2>1, <2>2, <2>3, <2>4, <2>5
<1>27. ASSUME GotWrite(p) PROVE TypeInv'
  <2> USE <1>27
  <2>1. RunTypeOK'
    BY DEF RunTypeOK, GotWrite, MayBlock, Labels
  <2>2. BufTypeOK' /\ ReqTypeOK' /\ CallTypeOK' /\ UseTypeOK' /\ DataTypeOK'
    BY TypeFrame DEF GotWrite
  <2>3. ControlOK'
    BY DEF ControlOK, Control, CallTypeOK, RunTypeOK, Runs, Buffers, ReqLabels,
           callVars, GotWrite, MayBlock
  <2> QED BY <2>1, <2>2, <2>3
<1>28. ASSUME Fill(p) PROVE TypeInv'
  <2> USE <1>28
  <2>1. BufTypeOK'
    BY DEF BufTypeOK, Fill
  <2>2. DataTypeOK'
    BY DEF DataTypeOK, Fill
  <2>3. RunTypeOK'
    BY DEF RunTypeOK, Fill, Goto, Labels
  <2>4. ReqTypeOK' /\ CallTypeOK' /\ UseTypeOK'
    BY TypeFrame DEF Fill
  <2>5. ControlOK'
    BY DEF ControlOK, Control, CallTypeOK, RunTypeOK, Runs, Buffers, ReqLabels,
           callVars, Fill, Goto
  <2> QED BY <2>1, <2>2, <2>3, <2>4, <2>5
<1>29. ASSUME ReadDone(p) PROVE TypeInv'
  <2> USE <1>29
  <2>1. CallTypeOK'
    BY DEF CallTypeOK, ReadDone, Return
  <2>2. RunTypeOK'
    BY DEF RunTypeOK, ReadDone, Return, Labels
  <2>3. BufTypeOK' /\ ReqTypeOK' /\ UseTypeOK' /\ DataTypeOK'
    BY TypeFrame DEF ReadDone
  <2>4. ControlOK'
    BY DEF ControlOK, Control, CallTypeOK, RunTypeOK, Runs, Buffers, ReqLabels,
           callVars, ReadDone, Return
  <2> QED BY <2>1, <2>2, <2>3, <2>4
<1>30. ASSUME ReadFailed(p) PROVE TypeInv'
  <2> USE <1>30
  <2>1. CallTypeOK'
    BY DEF CallTypeOK, ReadFailed, Runs, ControlOK, Control, RunTypeOK, ReqLabels
  <2>2. RunTypeOK'
    BY DEF RunTypeOK, ReadFailed, Goto, Labels, Runs, ControlOK, Control, CallTypeOK,
           ReqLabels
  <2>3. BufTypeOK' /\ ReqTypeOK' /\ UseTypeOK' /\ DataTypeOK'
    BY TypeFrame DEF ReadFailed
  <2>4. ControlOK'
    BY DEF ControlOK, Control, CallTypeOK, RunTypeOK, Runs, Buffers, ReqLabels,
           callVars, ReadFailed, Goto
  <2> QED BY <2>1, <2>2, <2>3, <2>4
<1>31. ASSUME Brelse(p) PROVE TypeInv'
  <2> USE <1>31
  <2>1. BufTypeOK'
    BY DEF BufTypeOK, Brelse, Release, Runs, ControlOK, Control, CallTypeOK, RunTypeOK,
           ReqLabels
  <2>2. CallTypeOK'
    BY DEF CallTypeOK, Brelse, Return, Runs, ControlOK, Control, RunTypeOK, ReqLabels
  <2>3. UseTypeOK'
    BY DEF UseTypeOK, Brelse, Release, Runs, ControlOK, Control, CallTypeOK, RunTypeOK,
           ReqLabels
  <2>4. RunTypeOK'
    BY DEF RunTypeOK, Brelse, Release, Woken, Channels, Return, Labels, Runs, ControlOK,
           Control, CallTypeOK, ReqLabels
  <2>5. ReqTypeOK' /\ DataTypeOK'
    BY TypeFrame DEF Brelse
  <2>6. ControlOK'
    BY DEF ControlOK, Control, CallTypeOK, RunTypeOK, Runs, Buffers, ReqLabels,
           callVars, Brelse, Return, Release
  <2> QED BY <2>1, <2>2, <2>3, <2>4, <2>5, <2>6
<1>32. ASSUME PageWait(p) PROVE TypeInv'
  <2> USE <1>32
  <2>1. PageBuffer(p) \in Buffers
    BY DEF PageWait, Runs, ControlOK, Control, CallTypeOK, PageBuffer
  <2>2. current' \in {p, Nobody} /\ chan' = Woken(buffer_wait)
        /\ \E l \in {"user", "page_wait"} : pc' = [pc EXCEPT ![p] = l]
    BY DEF PageWait, Release, Return, Goto
  <2>3. BufTypeOK'
    BY <2>1 DEF BufTypeOK, PageWait, Release
  <2>4. CallTypeOK'
    <3>1. CASE PageBuffer(p) # bh[p]
      BY <3>1 DEF CallTypeOK, PageWait
    <3>2. CASE PageBuffer(p) = bh[p]
      <4>1. << >> \in Seq(Blocks)
        OBVIOUS
      <4>2. Return(p) /\ UNCHANGED <<rw, rbh, scan>>
        BY <3>2 DEF PageWait
      <4> QED BY <4>1, <4>2 DEF CallTypeOK, Return
    <3> QED BY <3>1, <3>2
  <2>5. UseTypeOK'
    BY <2>1 DEF UseTypeOK, PageWait, Release
  <2>6. RunTypeOK'
    BY <2>2 DEF RunTypeOK, Woken, Channels, Labels
  <2>7. ReqTypeOK' /\ DataTypeOK'
    BY TypeFrame DEF PageWait
  <2>8. ControlOK'
    <3>1. CASE PageBuffer(p) # bh[p]
      BY <3>1 DEF ControlOK, Control, CallTypeOK, RunTypeOK, Runs, ReqLabels, PageWait,
           Goto
    <3>2. CASE PageBuffer(p) = bh[p]
      <4>1. Return(p) /\ UNCHANGED <<rbh, scan>> /\ pc[p] = "page_wait"
        BY <3>2 DEF PageWait, Runs
      <4>2. Control(p)'
        BY <4>1 DEF ControlOK, Control, ReqLabels, Return, CallTypeOK, RunTypeOK
      <4>3. ASSUME NEW q \in Procs, q # p PROVE Control(q)'
        BY <4>1, <4>3 DEF ControlOK, Control, ReqLabels, Return, CallTypeOK, RunTypeOK
      <4> QED BY <4>2, <4>3 DEF ControlOK
    <3> QED BY <3>1, <3>2
  <2> QED BY <2>1, <2>2, <2>3, <2>4, <2>5, <2>6, <2>7, <2>8
<1>33. ASSUME Wait(p) PROVE TypeInv'
  <2> USE <1>33
  <2>1. WaitTarget(p) \in Buffers
    BY DEF Wait, Runs, ControlOK, Control, CallTypeOK, RunTypeOK, WaitTarget,
           PageBuffer, NoBuffer, ReqLabels
  <2>2. RunTypeOK'
    BY <2>1 DEF RunTypeOK, Wait, SleepOn, Labels, Channels, Buffers, WaitTarget,
           PageBuffer, NoBuffer
  <2>3. BufTypeOK' /\ ReqTypeOK' /\ CallTypeOK' /\ UseTypeOK' /\ DataTypeOK'
    BY TypeFrame DEF Wait
  <2>4. ControlOK'
    BY <2>1 DEF ControlOK, Control, CallTypeOK, RunTypeOK, Runs, Buffers, ReqLabels,
           callVars, Wait, SleepOn
  <2> QED BY <2>1, <2>2, <2>3, <2>4
<1>34. ASSUME InvalidateWait(p) PROVE TypeInv'
  <2> USE <1>34
  <2>1. BufTypeOK'
    BY DEF BufTypeOK, InvalidateWait, Invalidated
  <2>2. CallTypeOK'
    BY DEF CallTypeOK, InvalidateWait, Invalidated, At, Scans, Blocking, Buffers
  <2>3. RunTypeOK'
    BY DEF RunTypeOK, InvalidateWait, Invalidated, Blocking, Goto, Labels, Channels,
           Buffers
  <2>4. ReqTypeOK' /\ UseTypeOK' /\ DataTypeOK'
    BY TypeFrame DEF InvalidateWait, Invalidated
  <2>5. ControlOK'
    BY DEF ControlOK, Control, CallTypeOK, RunTypeOK, Runs, Buffers, ReqLabels,
           callVars, InvalidateWait, Goto, Invalidated, Blocking, At, NoScan
  <2> QED BY <2>1, <2>2, <2>3, <2>4, <2>5
<1>35. ASSUME InvalidateEnd(p) PROVE TypeInv'
  <2> USE <1>35
  <2>1. BufTypeOK'
    BY DEF BufTypeOK, InvalidateEnd, Invalidated
  <2>2. CallTypeOK'
    BY DEF CallTypeOK, InvalidateEnd, Return, Scans, NoScan, Invalidated
  <2>3. RunTypeOK'
    BY DEF RunTypeOK, InvalidateEnd, Invalidated, Return, Labels
  <2>4. ReqTypeOK' /\ UseTypeOK' /\ DataTypeOK'
    BY TypeFrame DEF InvalidateEnd, Invalidated
  <2>5. ControlOK'
    BY DEF ControlOK, Control, CallTypeOK, RunTypeOK, Runs, Buffers, ReqLabels,
           callVars, InvalidateEnd, Return, Invalidated
  <2> QED BY <2>1, <2>2, <2>3, <2>4, <2>5
<1>36. ASSUME ScanWaited(p) PROVE TypeInv'
  <2> USE <1>36
  <2>1. RunTypeOK'
    BY DEF RunTypeOK, ScanWaited, Goto, Labels
  <2>2. BufTypeOK' /\ ReqTypeOK' /\ CallTypeOK' /\ UseTypeOK' /\ DataTypeOK'
    BY TypeFrame DEF ScanWaited
  <2>3. ControlOK'
    BY DEF ControlOK, Control, CallTypeOK, RunTypeOK, Runs, Buffers, ReqLabels,
           callVars, ScanWaited, Goto
  <2> QED BY <2>1, <2>2, <2>3
<1> QED
  BY <1>1, <1>2, <1>3, <1>4, <1>5, <1>6, <1>7, <1>8, <1>9, <1>10, <1>11, <1>12, <1>13,
     <1>14, <1>15, <1>16, <1>17, <1>18, <1>19, <1>20, <1>21, <1>22, <1>23, <1>24,
     <1>25, <1>26, <1>27, <1>28, <1>29, <1>30, <1>31, <1>32, <1>33, <1>34, <1>35, <1>36
     DEF Caller, Kernel

(* A buffer that is dirty, held, or the target of a read or a write stands *)
(* for a block of the disk: the cleared buffer heads of buffer_init are    *)
(* never transferred.                                                      *)
Named(b) == b_blk[b] \in Blocks

NamedProc(p) ==
  /\ \A b \in Buffers : held[p][b] # NoBlock => Named(b)
  /\ first[p] # NoBuffer => Named(first[p])
  /\ pc[p] \in ReqLabels => Named(rbh[p])
  /\ bh[p] # NoBuffer /\ scan[p] = NoScan /\ pc[p] \notin {"getblk", "victim_wait", "sync", "sync_wait"}
       => Named(bh[p])

RequestsOK ==
  \A s \in Slots : IF IsFree(request[s]) THEN request[s].blk = NoBlock
                   ELSE request[s].bh \in Buffers /\ request[s].blk \in Blocks

NamedOK ==
  /\ \A b \in Buffers : b_dirt[b] => Named(b)
  /\ \A p \in Procs : NamedProc(p)
  /\ RequestsOK

(* Every step of a process keeps NamedOK. *)
LEMMA NamedStep ==
  ASSUME TypeInv, NamedOK, NEW p \in Procs, Caller(p) \/ Kernel(p)
  PROVE  NamedOK'
<1> USE DEF TypeInv, TypeOK, BufTypeOK, ReqTypeOK, CallTypeOK, RunTypeOK, UseTypeOK, Named,
        NamedProc, Runs, ReqLabels, NoBuffer, Buffers, bufVars, callVars, reqVars
<1>a. Control(p) /\ NamedProc(p)
  BY DEF ControlOK, NamedOK
<1>1. ASSUME NEW o \in Ops, NEW blk \in Blocks, CallOne(p, o, blk) PROVE NamedOK'
  BY <1>1 DEF NamedOK, RequestsOK, ControlOK, Control, CallOne, Call, Goto
<1>2. ASSUME NEW o \in Ops, NEW blk1 \in Blocks, NEW blk2 \in Blocks, CallMany(p, o, blk1, blk2) PROVE NamedOK'
  BY <1>2 DEF NamedOK, RequestsOK, ControlOK, Control, CallMany, Call, Goto
<1>3. ASSUME NEW o \in Ops, NEW dev \in Devices, CallSync(p, o, dev) PROVE NamedOK'
  BY <1>3 DEF NamedOK, RequestsOK, ControlOK, Control, CallSync, Call, Goto
<1>4. ASSUME NEW dev \in Devices, CallDiskChange(p, dev) PROVE NamedOK'
  BY <1>4 DEF NamedOK, RequestsOK, ControlOK, Control, CallDiskChange, Goto
<1>5. ASSUME NEW b \in Buffers, Modify(p, b) PROVE NamedOK'
  BY <1>5 DEF NamedOK, RequestsOK, ControlOK, Control, Modify, Holds
<1>6. ASSUME NEW b \in Buffers, CallBrelse(p, b) PROVE NamedOK'
  BY <1>6 DEF NamedOK, RequestsOK, ControlOK, Control, CallBrelse, Goto, Holds
<1>7. ASSUME GetblkHit(p) PROVE NamedOK'
  BY <1>7 DEF NamedOK, RequestsOK, ControlOK, Control, GetblkHit, Goto, Cached
<1>8. ASSUME GetblkVictim(p) PROVE NamedOK'
  BY <1>8 DEF NamedOK, RequestsOK, ControlOK, Control, GetblkVictim, Goto
<1>9. ASSUME GetblkSleep(p) PROVE NamedOK'
  BY <1>9 DEF NamedOK, RequestsOK, ControlOK, Control, GetblkSleep, SleepOn
<1>10. ASSUME HashWait(p) PROVE NamedOK'
  <2>1. \A b \in Buffers : b_dirt'[b] => Named(b)'
    BY <1>10 DEF NamedOK, HashWait, Goto, ControlOK, Control
  <2>2. NamedProc(p)'
    <3>1. bh[p] \in Buffers /\ scan[p] = NoScan /\ pc[p] = "hash_wait"
      BY <1>a, <1>10 DEF HashWait, Control
    <3>2. UNCHANGED <<b_blk, bh, first, rbh, scan>>
      BY <1>10 DEF HashWait
    <3>3. pc'[p] = "got" \/ pc'[p] = "getblk"
      BY <1>10 DEF HashWait, Goto
    <3>4. \A b \in Buffers : held'[p][b] \in {held[p][b], NoBlock}
      <4>1. held' = held \/ held' = [held EXCEPT ![p][bh[p]] = NoBlock]
        BY <1>10 DEF HashWait
      <4>2. held'[p] = held[p] \/ held'[p] = [held[p] EXCEPT ![bh[p]] = NoBlock]
        BY <4>1
      <4>3. \A b \in Buffers : [held[p] EXCEPT ![bh[p]] = NoBlock][b] \in {held[p][b], NoBlock}
        OBVIOUS
      <4> QED BY <4>2, <4>3
    <3> QED BY <1>a, <3>1, <3>2, <3>3, <3>4
  <2>3. ASSUME NEW q \in Procs, q # p PROVE NamedProc(q)'
    BY <1>10, <2>3 DEF NamedOK, HashWait, Goto
  <2>4. RequestsOK'
    BY <1>10 DEF NamedOK, RequestsOK, HashWait, Goto
  <2> QED BY <2>1, <2>2, <2>3, <2>4 DEF NamedOK
<1>11. ASSUME VictimLost(p) PROVE NamedOK'
  BY <1>11 DEF NamedOK, RequestsOK, ControlOK, Control, VictimLost, Goto
<1>12. ASSUME VictimSync(p) PROVE NamedOK'
  BY <1>12 DEF NamedOK, RequestsOK, ControlOK, Control, VictimSync, Goto, NoScan
<1>13. ASSUME VictimClaim(p) PROVE NamedOK'
  BY <1>13 DEF NamedOK, RequestsOK, ControlOK, Control, VictimClaim, Claim, TakeOver, Goto
<1>14. ASSUME SyncWait(p) PROVE NamedOK'
  BY <1>14 DEF NamedOK, RequestsOK, ControlOK, Control, SyncWait, Goto, At, Pending
<1>15. ASSUME SyncWrite(p) PROVE NamedOK'
  <2>1. \A b \in Buffers : b_dirt'[b] => Named(b)'
    BY <1>15 DEF NamedOK, SyncWrite, CallRW, Goto, At, Pending, ControlOK, Control
  <2>2. NamedProc(p)'
    <3>1. PICK b \in Buffers :
            /\ b_dirt[b] /\ rbh'[p] = b
            /\ scan' = [scan EXCEPT ![p] = At(p, b + 1, scan[p].pass)]
      BY <1>15 DEF SyncWrite, CallRW, Pending
    <3>2. scan'[p] # NoScan
      BY <3>1 DEF At, NoScan
    <3>3. UNCHANGED <<b_blk, b_dirt, request, bh, first, held>>
      BY <1>15 DEF SyncWrite
    <3>4. Named(b)
      BY <3>1 DEF NamedOK
    <3> QED BY <1>a, <3>1, <3>2, <3>3, <3>4
  <2>3. ASSUME NEW q \in Procs, q # p PROVE NamedProc(q)'
    BY <1>15, <2>3 DEF NamedOK, SyncWrite, CallRW, Goto, At, Pending
  <2>4. RequestsOK'
    BY <1>15 DEF NamedOK, RequestsOK, SyncWrite, CallRW, Goto, At, Pending
  <2> QED BY <2>1, <2>2, <2>3, <2>4 DEF NamedOK
<1>16. ASSUME SyncAgain(p) PROVE NamedOK'
  BY <1>16 DEF NamedOK, RequestsOK, ControlOK, Control, SyncAgain, Goto, At
<1>17. ASSUME SyncEnd(p) PROVE NamedOK'
  BY <1>17 DEF NamedOK, RequestsOK, ControlOK, Control, SyncEnd, Goto, Return
<1>18. ASSUME SkipRequest(p) PROVE NamedOK'
  BY <1>18 DEF NamedOK, RequestsOK, ControlOK, Control, SkipRequest, ReturnRW, AfterRW, Goto
<1>19. ASSUME LockBuffer(p) PROVE NamedOK'
  BY <1>19 DEF NamedOK, RequestsOK, ControlOK, Control, LockBuffer, Goto
<1>20. ASSUME AddRequest(p) PROVE NamedOK'
  <2>1. \A b \in Buffers : b_dirt'[b] => Named(b)'
    BY <1>20 DEF NamedOK, AddRequest, ReturnRW, AfterRW, Goto, ControlOK, Control
  <2>2. NamedProc(p)'
    BY <1>a, <1>20 DEF Control, AddRequest, ReturnRW, AfterRW, Goto
  <2>3. ASSUME NEW q \in Procs, q # p PROVE NamedProc(q)'
    BY <1>20, <2>3 DEF NamedOK, AddRequest, ReturnRW, AfterRW, Goto
  <2>4. RequestsOK'
    <3>1. PICK s : request' = [request EXCEPT ![s] = [cmd |-> Command(p), bh |-> rbh[p],
                                              blk |-> b_blk[rbh[p]], moved |-> FALSE]]
      BY <1>20 DEF AddRequest
    <3>2. rbh[p] \in Buffers /\ b_blk[rbh[p]] \in Blocks /\ Command(p) # "FREE"
      BY <1>a, <1>20 DEF AddRequest, Command, Control, READ, WRITE
    <3> QED BY <3>1, <3>2 DEF NamedOK, RequestsOK, IsFree
  <2> QED BY <2>1, <2>2, <2>3, <2>4 DEF NamedOK
<1>21. ASSUME NoSlot(p) PROVE NamedOK'
  <2>1. \A b \in Buffers : b_dirt'[b] => Named(b)'
    BY <1>21 DEF NamedOK, NoSlot, ReturnRW, AfterRW, Goto, ControlOK, Control
  <2>2. NamedProc(p)'
    BY <1>a, <1>21 DEF Control, NoSlot, ReturnRW, AfterRW, Goto
  <2>3. ASSUME NEW q \in Procs, q # p PROVE NamedProc(q)'
    BY <1>21, <2>3 DEF NamedOK, NoSlot, ReturnRW, AfterRW, Goto
  <2>4. RequestsOK'
    BY <1>21 DEF NamedOK, RequestsOK, NoSlot, ReturnRW, AfterRW, Goto
  <2> QED BY <2>1, <2>2, <2>3, <2>4 DEF NamedOK
<1>22. ASSUME RequestSleep(p) PROVE NamedOK'
  BY <1>22 DEF NamedOK, RequestsOK, ControlOK, Control, RequestSleep, SleepOn
<1>23. ASSUME GotValid(p) PROVE NamedOK'
  BY <1>23 DEF NamedOK, RequestsOK, ControlOK, Control, GotValid, Return
<1>24. ASSUME GotRead(p) PROVE NamedOK'
  <2>1. \A b \in Buffers : b_dirt'[b] => Named(b)'
    BY <1>24 DEF NamedOK, GotRead
  <2>2. NamedProc(p)'
    BY <1>a, <1>24 DEF Control, GotRead, CallRW, AfterRW, Goto
  <2>3. ASSUME NEW q \in Procs, q # p PROVE NamedProc(q)'
    BY <1>24, <2>3 DEF NamedOK, GotRead, CallRW, AfterRW, Goto
  <2>4. RequestsOK'
    BY <1>24 DEF NamedOK, RequestsOK, GotRead
  <2> QED BY <2>1, <2>2, <2>3, <2>4 DEF NamedOK
<1>25. ASSUME DropAhead(p) PROVE NamedOK'
  BY <1>25 DEF NamedOK, RequestsOK, ControlOK, Control, DropAhead, Goto
<1>26. ASSUME GotNew(p) PROVE NamedOK'
  <2>1. \A b \in Buffers : b_dirt'[b] => Named(b)'
    <3>1. bh[p] \in Buffers /\ Named(bh[p])
      BY <1>a, <1>26 DEF GotNew, Control
    <3> QED BY <1>26, <3>1 DEF NamedOK, GotNew
  <2>2. NamedProc(p)'
    BY <1>a, <1>26 DEF Control, GotNew, Goto
  <2>3. ASSUME NEW q \in Procs, q # p PROVE NamedProc(q)'
    BY <1>26, <2>3 DEF NamedOK, GotNew, Goto
  <2>4. RequestsOK'
    BY <1>26 DEF NamedOK, RequestsOK, GotNew, Goto
  <2> QED BY <2>1, <2>2, <2>3, <2>4 DEF NamedOK
<1>27. ASSUME GotWrite(p) PROVE NamedOK'
  BY <1>27 DEF NamedOK, RequestsOK, ControlOK, Control, GotWrite, MayBlock
<1>28. ASSUME Fill(p) PROVE NamedOK'
  <2>1. \A b \in Buffers : b_dirt'[b] => Named(b)'
    <3>1. bh[p] \in Buffers /\ Named(bh[p])
      BY <1>a, <1>28 DEF Fill, Control
    <3> QED BY <1>28, <3>1 DEF NamedOK, Fill
  <2>2. NamedProc(p)'
    BY <1>a, <1>28 DEF Control, Fill, Goto
  <2>3. ASSUME NEW q \in Procs, q # p PROVE NamedProc(q)'
    BY <1>28, <2>3 DEF NamedOK, Fill, Goto
  <2>4. RequestsOK'
    BY <1>28 DEF NamedOK, RequestsOK, Fill, Goto
  <2> QED BY <2>1, <2>2, <2>3, <2>4 DEF NamedOK
<1>29. ASSUME ReadDone(p) PROVE NamedOK'
  BY <1>29 DEF NamedOK, RequestsOK, ControlOK, Control, ReadDone, Return
<1>30. ASSUME ReadFailed(p) PROVE NamedOK'
  BY <1>30 DEF NamedOK, RequestsOK, ControlOK, Control, ReadFailed, Goto
<1>31. ASSUME Brelse(p) PROVE NamedOK'
  BY <1>31, SMTT(30) DEF NamedOK, RequestsOK, ControlOK, Control, Brelse, Return, Release
<1>32. ASSUME PageWait(p) PROVE NamedOK'
  BY <1>32 DEF NamedOK, RequestsOK, ControlOK, Control, PageWait, Goto, Return, Release, PageBuffer
<1>33. ASSUME Wait(p) PROVE NamedOK'
  BY <1>33 DEF NamedOK, RequestsOK, ControlOK, Control, Wait, SleepOn
<1>34. ASSUME InvalidateWait(p) PROVE NamedOK'
  <2>1. \A b \in Buffers : b_dirt'[b] => Named(b)'
    BY <1>34 DEF NamedOK, InvalidateWait, Goto, Invalidated, Blocking, At, ControlOK, Control
  <2>2. NamedProc(p)'
    <3>1. PICK i \in Buffers : scan' = [scan EXCEPT ![p] = At(p, i, scan[p].pass)]
      BY <1>34 DEF InvalidateWait, Blocking
    <3>2. /\ pc'[p] = "invalidate_wait" /\ pc[p] = "invalidate"
          /\ UNCHANGED <<b_blk, bh, first, rbh, request, held>>
      BY <1>34 DEF InvalidateWait, Invalidated, Goto
    <3>3. scan'[p] # NoScan
      BY <3>1 DEF At, NoScan
    <3> QED BY <1>a, <3>1, <3>2, <3>3
  <2>3. ASSUME NEW q \in Procs, q # p PROVE NamedProc(q)'
    BY <1>34, <2>3 DEF NamedOK, InvalidateWait, Goto, Invalidated, Blocking, At
  <2>4. RequestsOK'
    BY <1>34 DEF NamedOK, RequestsOK, InvalidateWait, Goto, Invalidated, Blocking, At
  <2> QED BY <2>1, <2>2, <2>3, <2>4 DEF NamedOK
<1>35. ASSUME InvalidateEnd(p) PROVE NamedOK'
  BY <1>35, ZenonT(30) DEF NamedOK, RequestsOK, ControlOK, Control, InvalidateEnd, Return,
     Invalidated
<1>36. ASSUME ScanWaited(p) PROVE NamedOK'
  BY <1>36 DEF NamedOK, RequestsOK, ControlOK, Control, ScanWaited, Goto
<1> QED
  BY <1>1, <1>2, <1>3, <1>4, <1>5, <1>6, <1>7, <1>8, <1>9, <1>10, <1>11, <1>12, <1>13,
     <1>14, <1>15, <1>16, <1>17, <1>18, <1>19, <1>20, <1>21, <1>22, <1>23, <1>24,
     <1>25, <1>26, <1>27, <1>28, <1>29, <1>30, <1>31, <1>32, <1>33, <1>34, <1>35, <1>36
     DEF Caller, Kernel

(* Every step of the device keeps TypeInv and NamedOK. *)
LEMMA DeviceTypeStep ==
  ASSUME TypeInv, NamedOK, NEW m \in Majors, Device(m)
  PROVE  TypeInv' /\ NamedOK'
<1> DEFINE s == Head(queue[m])
           r == request[s]
<1> USE DEF TypeInv, TypeOK
<1>1. queue[m] # << >> /\ s \in Slots /\ Tail(queue[m]) \in Seq(Slots)
  <2>1. queue[m] # << >>
    BY DEF Device, Transfer, EndRequest
  <2> QED BY <2>1, HeadTailProperties, SMTT(30) DEF ReqTypeOK
<1>2. /\ r \in Requests
      /\ ~IsFree(r) => r.bh \in Buffers /\ r.blk \in Blocks
      /\ IsFree(r) => r.blk \notin Blocks /\ r.cmd # READ
  BY <1>1, BlocksAssumption DEF ReqTypeOK, NamedOK, RequestsOK, NoRequest, NoBlock, IsFree, READ
<1>3. CASE Transfer(m)
  <2> DEFINE moved == [r EXCEPT !.moved = TRUE]
  <2>1. request' = [request EXCEPT ![s] = moved]
    BY <1>3, <1>1 DEF Transfer, ReqTypeOK
  <2>2. moved \in Requests /\ moved.cmd = r.cmd /\ moved.bh = r.bh /\ moved.blk = r.blk
    BY <1>2 DEF Requests
  <2>3. /\ UNCHANGED <<bufVars, queue, current, callVars, pc, chan, held, budget>>
        /\ \/ /\ r.cmd = READ /\ disk_cur' = disk_cur
              /\ b_cur' = [b_cur EXCEPT ![r.bh] = disk_cur[r.blk]]
           \/ b_cur' = b_cur /\ disk_cur' = [disk_cur EXCEPT ![r.blk] = b_cur[r.bh]]
    BY <1>3 DEF Transfer
  <2> HIDE DEF moved, s
  <2>4. ReqTypeOK'
    BY <1>1, <2>1, <2>2, <2>3 DEF ReqTypeOK
  <2>5. DataTypeOK'
    BY <1>2, <2>3 DEF DataTypeOK
  <2>6. BufTypeOK' /\ CallTypeOK' /\ UseTypeOK' /\ RunTypeOK'
    BY <2>3, TypeFrame
  <2>7. ControlOK'
    BY <2>3 DEF ControlOK, Control, callVars
  <2>8. RequestsOK'
    BY <1>1, <2>1, <2>2, <2>3 DEF NamedOK, RequestsOK, IsFree, ReqTypeOK, NoRequest
  <2>9. NamedOK'
    BY <2>3, <2>8 DEF NamedOK, NamedProc, Named, bufVars, callVars
  <2> QED BY <2>4, <2>5, <2>6, <2>7, <2>9
<1>4. ASSUME NEW ok \in BOOLEAN, EndRequest(m, ok) PROVE TypeInv' /\ NamedOK'
  <2>1. /\ b_uptodate' = [b_uptodate EXCEPT ![r.bh] = ok]
        /\ b_lock' = [b_lock EXCEPT ![r.bh] = FALSE]
        /\ chan' = [p \in Procs |-> IF chan[p] \in {r.bh, wait_for_request}
                                    THEN Awake ELSE chan[p]]
        /\ request' = [request EXCEPT ![s] = NoRequest]
        /\ queue' = [queue EXCEPT ![m] = Tail(queue[m])]
        /\ UNCHANGED <<b_blk, b_count, b_dirt, free_list, dataVars, current, callVars, pc,
                       held, budget>>
    BY <1>4 DEF EndRequest
  <2> HIDE DEF s
  <2>2. NoRequest \in Requests
    BY DEF NoRequest, Requests, NoBuffer
  <2>3. ReqTypeOK'
    BY <1>1, <2>1, <2>2 DEF ReqTypeOK
  <2>4. BufTypeOK'
    BY <2>1 DEF BufTypeOK
  <2>5. RunTypeOK'
    BY <2>1, BoundsAssumption DEF RunTypeOK, Channels
  <2>6. CallTypeOK' /\ UseTypeOK' /\ DataTypeOK'
    BY <2>1, TypeFrame
  <2>7. ControlOK'
    BY <2>1 DEF ControlOK, Control, callVars
  <2>8. NamedOK'
    BY <1>1, <2>1 DEF NamedOK, NamedProc, Named, RequestsOK, ReqTypeOK, IsFree, NoRequest,
         callVars
  <2> QED BY <2>3, <2>4, <2>5, <2>6, <2>7, <2>8
<1> QED BY <1>3, <1>4 DEF Device

(* The kernel starts with the types, the control invariant and NamedOK.    *)
LEMMA TypeInit ==
  ASSUME Init
  PROVE  TypeInv /\ NamedOK
<1> USE DEF Init, NoBuffer, NoScan
<1>1. TypeOK
  <2>1. << >> \in Seq(Slots) /\ << >> \in Seq(Blocks)
    OBVIOUS
  <2>2. NoRequest \in Requests
    BY DEF NoRequest, Requests, NoBuffer
  <2>3. BufTypeOK
    BY DEF BufTypeOK
  <2>4. ReqTypeOK
    BY <2>1, <2>2 DEF ReqTypeOK
  <2>5. CallTypeOK
    BY <2>1, BuffersAssumption DEF CallTypeOK, Scans
  <2>6. RunTypeOK /\ UseTypeOK /\ DataTypeOK
    BY BoundsAssumption DEF RunTypeOK, UseTypeOK, DataTypeOK, Labels, Channels
  <2> QED BY <2>3, <2>4, <2>5, <2>6 DEF TypeOK
<1>2. ControlOK
  BY DEF ControlOK, Control, ReqLabels
<1>3. NamedOK
  BY DEF NamedOK, NamedProc, Named, RequestsOK, ReqLabels, IsFree, NoRequest
<1> QED BY <1>1, <1>2, <1>3 DEF TypeInv

(* Stuttering keeps both. *)
LEMMA TypeStutter ==
  ASSUME TypeInv, NamedOK, UNCHANGED vars
  PROVE  TypeInv' /\ NamedOK'
<1> USE DEF vars
<1>1. TypeOK'
  BY TypeFrame DEF TypeInv, TypeOK
<1>2. ControlOK'
  BY DEF TypeInv, ControlOK, Control, callVars
<1>3. NamedOK'
  BY DEF NamedOK, NamedProc, Named, RequestsOK, bufVars, callVars, reqVars
<1> QED BY <1>1, <1>2, <1>3 DEF TypeInv

(* In every behaviour of the cache each variable keeps its type: no label  *)
(* of getblk, bread, sync_dev or make_request is reached with a buffer or  *)
(* an argument it uses unset, and the queues hold only slots of the table. *)
THEOREM TypeCorrect == Spec => []TypeOK
<1>1. Init => TypeInv /\ NamedOK
  BY TypeInit
<1>2. TypeInv /\ NamedOK /\ [Next]_vars => (TypeInv /\ NamedOK)'
  <2> SUFFICES ASSUME TypeInv, NamedOK, [Next]_vars
               PROVE  TypeInv' /\ NamedOK'
    OBVIOUS
  <2>1. ASSUME NEW p \in Procs, Caller(p) \/ Kernel(p)
        PROVE  TypeInv' /\ NamedOK'
    BY <2>1, TypeStep, NamedStep
  <2>2. ASSUME NEW m \in Majors, Device(m)
        PROVE  TypeInv' /\ NamedOK'
    BY <2>2, DeviceTypeStep
  <2>3. CASE UNCHANGED vars
    BY <2>3, TypeStutter
  <2> QED BY <2>1, <2>2, <2>3 DEF Next
<1>3. TypeInv => TypeOK
  BY DEF TypeInv
<1> QED BY <1>1, <1>2, <1>3, PTL DEF Spec

-----------------------------------------------------------------------------
(* One buffer per block, one owner per lock.  A request in a queue is in   *)
(* flight, for its device, and in no other place of a queue.               *)
QueueOK ==
  /\ \A m \in Majors : \A i \in DOMAIN queue[m] :
       InFlight(queue[m][i]) /\ MAJOR(request[queue[m][i]].blk[1]) = m
  /\ \A m \in Majors : \A i, j \in DOMAIN queue[m] : queue[m][i] = queue[m][j] => i = j

OwnInv == QueueOK /\ LockOwned /\ UniqueBuffer

(* A step that neither takes nor gives up a lock, moves no request and     *)
(* gives no buffer to another block.                                       *)
Quiet == /\ UNCHANGED <<b_blk, b_lock, reqVars>>
         /\ \A q \in Procs : /\ (Making(q)' <=> Making(q))
                              /\ (Making(q) => rbh'[q] = rbh[q] /\ rw'[q] = rw[q])

(* Four actions aside, the steps of a process are quiet. *)
LEMMA QuietStep ==
  ASSUME TypeInv, NEW p \in Procs, Caller(p) \/ Kernel(p)
  PROVE  \/ VictimClaim(p) \/ LockBuffer(p) \/ AddRequest(p) \/ NoSlot(p)
         \/ Quiet
<1> USE DEF TypeInv, TypeOK, CallTypeOK, RunTypeOK, Quiet, Making, Runs, bufVars, callVars
<1>1. ASSUME NEW o \in Ops, NEW blk \in Blocks, CallOne(p, o, blk) PROVE Quiet
  BY <1>1 DEF CallOne, Call, Goto
<1>2. ASSUME NEW o \in Ops, NEW blk1 \in Blocks, NEW blk2 \in Blocks, CallMany(p, o, blk1, blk2) PROVE Quiet
  BY <1>2 DEF CallMany, Call, Goto
<1>3. ASSUME NEW o \in Ops, NEW dev \in Devices, CallSync(p, o, dev) PROVE Quiet
  BY <1>3 DEF CallSync, Call, Goto
<1>4. ASSUME NEW dev \in Devices, CallDiskChange(p, dev) PROVE Quiet
  BY <1>4 DEF CallDiskChange, Goto
<1>5. ASSUME NEW b \in Buffers, Modify(p, b) PROVE Quiet
  BY <1>5 DEF Modify, Holds
<1>6. ASSUME NEW b \in Buffers, CallBrelse(p, b) PROVE Quiet
  BY <1>6 DEF CallBrelse, Goto, Holds
<1>7. ASSUME GetblkHit(p) PROVE Quiet
  BY <1>7 DEF GetblkHit, Goto, Cached
<1>8. ASSUME GetblkVictim(p) PROVE Quiet
  BY <1>8 DEF GetblkVictim, Goto
<1>9. ASSUME GetblkSleep(p) PROVE Quiet
  BY <1>9 DEF GetblkSleep, SleepOn
<1>10. ASSUME HashWait(p) PROVE Quiet
  BY <1>10 DEF HashWait, Goto
<1>11. ASSUME VictimLost(p) PROVE Quiet
  BY <1>11 DEF VictimLost, Goto
<1>12. ASSUME VictimSync(p) PROVE Quiet
  BY <1>12 DEF VictimSync, Goto, NoScan
<1>13. ASSUME SyncWait(p) PROVE Quiet
  BY <1>13 DEF SyncWait, Goto, At, Pending
<1>14. ASSUME SyncWrite(p) PROVE Quiet
  <2>1. UNCHANGED <<b_blk, b_lock, reqVars>> /\ pc[p] = "sync"
    BY <1>14 DEF SyncWrite
  <2>2. /\ pc'[p] \notin {"find_req", "req_sleep"}
        /\ \A q \in Procs : q # p => pc'[q] = pc[q]
    BY <1>14 DEF SyncWrite, CallRW, Goto, At, Pending
  <2>3. \A q \in Procs : q # p => rbh'[q] = rbh[q] /\ rw'[q] = rw[q]
    BY <1>14 DEF SyncWrite, CallRW, Goto, At, Pending
  <2> QED BY <2>1, <2>2, <2>3
<1>15. ASSUME SyncAgain(p) PROVE Quiet
  BY <1>15 DEF SyncAgain, Goto, At
<1>16. ASSUME SyncEnd(p) PROVE Quiet
  BY <1>16 DEF SyncEnd, Goto, Return
<1>17. ASSUME SkipRequest(p) PROVE Quiet
  <2>1. UNCHANGED <<b_blk, b_lock, reqVars>> /\ pc[p] = "lock"
    BY <1>17 DEF SkipRequest
  <2>2. /\ pc'[p] \notin {"find_req", "req_sleep"}
        /\ \A q \in Procs : q # p => pc'[q] = pc[q]
    BY <1>17 DEF SkipRequest, ReturnRW, AfterRW, Goto
  <2>3. \A q \in Procs : q # p => rbh'[q] = rbh[q] /\ rw'[q] = rw[q]
    BY <1>17 DEF SkipRequest, ReturnRW, AfterRW, Goto
  <2> QED BY <2>1, <2>2, <2>3
<1>18. ASSUME RequestSleep(p) PROVE Quiet
  BY <1>18 DEF RequestSleep, SleepOn
<1>19. ASSUME GotValid(p) PROVE Quiet
  BY <1>19 DEF GotValid, Return
<1>20. ASSUME GotRead(p) PROVE Quiet
  <2>1. UNCHANGED <<b_blk, b_lock, reqVars>> /\ pc[p] = "got"
    BY <1>20 DEF GotRead
  <2>2. /\ pc'[p] \notin {"find_req", "req_sleep"}
        /\ \A q \in Procs : q # p => pc'[q] = pc[q]
    BY <1>20 DEF GotRead, CallRW, AfterRW, Goto
  <2>3. \A q \in Procs : q # p => rbh'[q] = rbh[q] /\ rw'[q] = rw[q]
    BY <1>20 DEF GotRead, CallRW, AfterRW, Goto
  <2> QED BY <2>1, <2>2, <2>3
<1>21. ASSUME DropAhead(p) PROVE Quiet
  BY <1>21 DEF DropAhead, Goto
<1>22. ASSUME GotNew(p) PROVE Quiet
  BY <1>22 DEF GotNew, Goto
<1>23. ASSUME GotWrite(p) PROVE Quiet
  BY <1>23 DEF GotWrite, MayBlock
<1>24. ASSUME Fill(p) PROVE Quiet
  BY <1>24 DEF Fill, Goto
<1>25. ASSUME ReadDone(p) PROVE Quiet
  BY <1>25 DEF ReadDone, Return
<1>26. ASSUME ReadFailed(p) PROVE Quiet
  BY <1>26 DEF ReadFailed, Goto
<1>27. ASSUME Brelse(p) PROVE Quiet
  BY <1>27 DEF Brelse, Return, Release
<1>28. ASSUME PageWait(p) PROVE Quiet
  BY <1>28 DEF PageWait, Goto, Return, Release, PageBuffer
<1>29. ASSUME Wait(p) PROVE Quiet
  BY <1>29 DEF Wait, SleepOn
<1>30. ASSUME InvalidateWait(p) PROVE Quiet
  BY <1>30 DEF InvalidateWait, Goto, Invalidated, Blocking, At
<1>31. ASSUME InvalidateEnd(p) PROVE Quiet
  BY <1>31 DEF InvalidateEnd, Return, Invalidated
<1>32. ASSUME ScanWaited(p) PROVE Quiet
  BY <1>32 DEF ScanWaited, Goto
<1> HIDE DEF Quiet
<1> QED
  BY <1>1, <1>2, <1>3, <1>4, <1>5, <1>6, <1>7, <1>8, <1>9, <1>10, <1>11, <1>12, <1>13,
     <1>14, <1>15, <1>16, <1>17, <1>18, <1>19, <1>20, <1>21, <1>22, <1>23, <1>24,
     <1>25, <1>26, <1>27, <1>28, <1>29, <1>30, <1>31, <1>32 DEF Caller, Kernel

(* A quiet step keeps OwnInv. *)
LEMMA OwnQuiet ==
  ASSUME OwnInv, Quiet
  PROVE  OwnInv'
<1>1. QueueOK'
  BY DEF OwnInv, QueueOK, Quiet, reqVars, InFlight
<1>2. LockOwned'
  <2>1. /\ b_lock' = b_lock /\ b_blk' = b_blk
        /\ \A s \in Slots : request'[s] = request[s] /\ (InFlight(s)' <=> InFlight(s))
        /\ \A q \in Procs : (Making(q)' <=> Making(q)) /\ (Making(q) => rbh'[q] = rbh[q])
    BY DEF Quiet, reqVars, InFlight
  <2> QED BY <2>1 DEF OwnInv, LockOwned
<1>3. UniqueBuffer'
  BY DEF OwnInv, UniqueBuffer, Quiet
<1> QED BY <1>1, <1>2, <1>3 DEF OwnInv

(* The claim of a victim: the second search has just found no buffer for   *)
(* the block, and an unlocked buffer has no request in flight.             *)
LEMMA OwnClaim ==
  ASSUME TypeInv, OwnInv, NEW p \in Procs, VictimClaim(p)
  PROVE  OwnInv'
<1> DEFINE b == bh[p]
<1>1. b \in Buffers /\ Head(args[p]) \in Blocks
  BY HeadTailProperties DEF VictimClaim, Runs, TypeInv, TypeOK, ControlOK, Control, CallTypeOK
<1>2. /\ ~b_lock[b] /\ Cached(Head(args[p])) = {}
      /\ b_blk' = [b_blk EXCEPT ![b] = Head(args[p])]
      /\ UNCHANGED <<b_lock, request, queue, rbh>>
  BY DEF VictimClaim, MustWait, Superfluous, Claim, TakeOver, reqVars, callVars
<1>3. \A q \in Procs : Making(q)' <=> Making(q)
  BY DEF VictimClaim, Claim, TakeOver, Goto, Runs, Making, TypeInv, TypeOK, RunTypeOK
<1>4. QueueOK'
  BY <1>2 DEF OwnInv, QueueOK, InFlight
<1>5. LockOwned'
  <2>1. \A s \in Slots : InFlight(s) => request[s].bh # b
    BY <1>1, <1>2 DEF OwnInv, LockOwned
  <2> QED BY <1>1, <1>2, <1>3, <2>1 DEF OwnInv, LockOwned, InFlight, TypeInv, TypeOK, BufTypeOK,
               ReqTypeOK, Requests
<1>6. UniqueBuffer'
  BY <1>1, <1>2 DEF OwnInv, UniqueBuffer, Cached, TypeInv, TypeOK, BufTypeOK
<1> QED BY <1>4, <1>5, <1>6 DEF OwnInv

(* lock_buffer takes a lock that nobody owns. *)
LEMMA OwnLock ==
  ASSUME TypeInv, OwnInv, NEW p \in Procs, LockBuffer(p)
  PROVE  OwnInv'
<1> DEFINE b == rbh[p]
<1>1. b \in Buffers /\ ~b_lock[b]
  BY DEF LockBuffer, Runs, TypeInv, ControlOK, Control, ReqLabels
<1>2. b_lock' = [b_lock EXCEPT ![b] = TRUE] /\ UNCHANGED <<b_blk, request, queue, rbh>>
  BY DEF LockBuffer, reqVars, callVars
<1>3. /\ Making(p)' /\ ~Making(p)
      /\ \A q \in Procs : q # p => (Making(q)' <=> Making(q))
  BY DEF LockBuffer, Goto, Runs, Making, TypeInv, TypeOK, RunTypeOK
<1>4. /\ \A s \in Slots : InFlight(s) => request[s].bh # b
      /\ \A q \in Procs : Making(q) => rbh[q] # b
  BY <1>1 DEF OwnInv, LockOwned
<1> HIDE DEF Making
<1>5. QueueOK' /\ UniqueBuffer'
  BY <1>2 DEF OwnInv, QueueOK, InFlight, UniqueBuffer
<1>6. LockOwned'
  <2>1. \A c \in Buffers : b_lock'[c] <=> b_lock[c] \/ c = b
    BY <1>1, <1>2 DEF TypeInv, TypeOK, BufTypeOK
  <2> QED BY <1>1, <1>2, <1>3, <1>4, <2>1 DEF OwnInv, LockOwned, InFlight
<1> QED BY <1>5, <1>6 DEF OwnInv

(* A read-ahead that finds no slot gives its lock up. *)
LEMMA OwnNoSlot ==
  ASSUME TypeInv, OwnInv, NEW p \in Procs, NoSlot(p)
  PROVE  OwnInv'
<1> DEFINE b == rbh[p]
<1>1. b \in Buffers /\ Making(p) /\ UNCHANGED <<b_blk, request, queue>>
  BY DEF NoSlot, Runs, TypeInv, ControlOK, Control, ReqLabels, Making, reqVars
<1>2. QueueOK' /\ UniqueBuffer'
  BY <1>1 DEF OwnInv, QueueOK, InFlight, UniqueBuffer
<1>3. CASE rw[p] = READA
  <2>1. /\ b_lock' = [b_lock EXCEPT ![b] = FALSE]
        /\ \A q \in Procs : q # p => rbh'[q] = rbh[q]
    BY <1>3 DEF NoSlot, ReturnRW, TypeInv, TypeOK, CallTypeOK
  <2>2. pc'[p] \notin {"find_req", "req_sleep"} /\ \A q \in Procs : q # p => pc'[q] = pc[q]
    BY <1>3 DEF NoSlot, ReturnRW, AfterRW, Goto, TypeInv, TypeOK, RunTypeOK
  <2>3. ~Making(p)' /\ \A q \in Procs : q # p => (Making(q)' <=> Making(q))
    BY <2>2 DEF Making
  <2>4. \A c \in Buffers : b_lock'[c] <=> b_lock[c] /\ c # b
    BY <1>1, <2>1 DEF TypeInv, TypeOK, BufTypeOK
  <2>5. LockOwned'
    BY <1>1, <2>1, <2>3, <2>4 DEF OwnInv, LockOwned, InFlight
  <2> QED BY <1>2, <2>5 DEF OwnInv
<1>4. CASE rw[p] # READA
  <2>1. Quiet
    BY <1>1, <1>4 DEF NoSlot, Quiet, Goto, Making, Runs, reqVars, TypeInv, TypeOK, RunTypeOK
  <2> QED BY <2>1, OwnQuiet
<1> QED BY <1>3, <1>4

(* add_request hands the lock over from the process to the request. *)
LEMMA OwnAdd ==
  ASSUME TypeInv, NamedOK, OwnInv, NEW p \in Procs, AddRequest(p)
  PROVE  OwnInv'
<1> DEFINE b == rbh[p]
           req == [cmd |-> Command(p), bh |-> b, blk |-> b_blk[b], moved |-> FALSE]
           m == MAJOR(b_blk[b][1])
<1>1. b \in Buffers /\ pc[p] = "find_req" /\ b_blk[b] \in Blocks
  BY DEF AddRequest, Runs, TypeInv, ControlOK, Control, ReqLabels, NamedOK, NamedProc, Named
<1>2. m \in Majors
  BY <1>1 DEF Majors, Devices
<1>3. PICK s \in FreeSlots(p) :
         /\ request' = [request EXCEPT ![s] = req]
         /\ queue' = [queue EXCEPT ![m] = Enqueue(request, queue[m], s, req)]
  BY DEF AddRequest
<1>4. s \in Slots /\ ~InFlight(s)
  BY RequestAssumption DEF FreeSlots, UsableSlots, Slots, InFlight
<1>5. /\ UNCHANGED <<b_blk, b_lock>>
      /\ \A q \in Procs : q # p => rbh'[q] = rbh[q] /\ pc'[q] = pc[q]
      /\ pc'[p] \notin {"find_req", "req_sleep"}
  BY DEF AddRequest, ReturnRW, AfterRW, Goto, TypeInv, TypeOK, CallTypeOK, RunTypeOK
<1>6. Making(p) /\ ~Making(p)' /\ \A q \in Procs : q # p => (Making(q)' <=> Making(q))
  BY <1>1, <1>5 DEF Making
<1>7. /\ request'[s].bh = b /\ request'[s].blk = b_blk[b] /\ InFlight(s)'
      /\ \A t \in Slots : t # s => request'[t] = request[t] /\ (InFlight(t)' <=> InFlight(t))
  BY <1>3, <1>4 DEF TypeInv, TypeOK, ReqTypeOK, InFlight, IsFree, Command, READ, WRITE
<1> HIDE DEF req
<1>8. LockOwned'
  BY <1>1, <1>4, <1>5, <1>6, <1>7 DEF OwnInv, LockOwned
<1>9. QueueOK'
  <2>1. queue[m] \in Seq(Slots)
    BY <1>2 DEF TypeInv, TypeOK, ReqTypeOK
  <2>2. PICK k \in 0 .. Len(queue[m]) : queue'[m] = LinkAfter(queue[m], k, s)
    BY <1>2, <1>3, <1>4, <2>1, EnqueueProperties DEF TypeInv, TypeOK, ReqTypeOK
  <2>3. \A n \in Majors : n # m => queue'[n] = queue[n]
    BY <1>3 DEF TypeInv, TypeOK, ReqTypeOK
  <2>4. \A n \in Majors : \A i \in DOMAIN queue[n] :
          queue[n][i] \in Slots /\ queue[n][i] # s /\ request'[queue[n][i]] = request[queue[n][i]]
    <3>1. ASSUME NEW n \in Majors, NEW i \in DOMAIN queue[n]
          PROVE  queue[n][i] \in Slots /\ queue[n][i] # s
      <4>1. queue[n] \in Seq(Slots)
        BY DEF TypeInv, TypeOK, ReqTypeOK
      <4> QED BY <1>4, <4>1, ElementOfSeq, LenProperties DEF OwnInv, QueueOK
    <3> QED BY <1>7, <3>1
  <2> DEFINE q == queue[m]
             N == Len(q)
  <2>5. N \in Nat /\ DOMAIN q = 1 .. N
    BY <2>1, LenProperties
  <2> HIDE DEF m
  <2>6. \A i \in 1 .. N + 1 :
          queue'[m][i] = IF i <= k THEN q[i] ELSE IF i = k + 1 THEN s ELSE q[i - 1]
    BY <2>2, <2>5 DEF LinkAfter
  <2>7. DOMAIN queue'[m] = 1 .. N + 1
    BY <2>2 DEF LinkAfter
  <2> HIDE DEF q, N
  <2>8. MAJOR(request'[s].blk[1]) = m
    BY <1>7 DEF m
  <2>9. ASSUME NEW n \in Majors, NEW i \in DOMAIN queue'[n]
        PROVE  ~IsFree(request'[queue'[n][i]]) /\ MAJOR(request'[queue'[n][i]].blk[1]) = n
    <3>1. CASE n # m
      BY <2>3, <2>4, <2>9, <3>1 DEF OwnInv, QueueOK, InFlight
    <3>2. CASE n = m
      <4>1. queue'[m][i] = s \/ \E j \in DOMAIN q : queue'[m][i] = q[j]
        <5>1. i \in 1 .. N + 1 /\ k \in Nat /\ N \in Nat
          BY <2>2, <2>5, <2>7, <2>9, <3>2 DEF N, q
        <5>2. CASE i <= k
          <6>1. i \in DOMAIN q /\ queue'[m][i] = q[i]
            BY <2>2, <2>5, <2>6, <5>1, <5>2 DEF N, q
          <6> QED BY <6>1
        <5>3. CASE i = k + 1
          BY <2>6, <5>1, <5>3
        <5>4. CASE i > k + 1
          <6>1. i - 1 \in DOMAIN q /\ queue'[m][i] = q[i - 1]
            BY <2>5, <2>6, <5>1, <5>4
          <6> QED BY <6>1
        <5> QED BY <5>1, <5>2, <5>3, <5>4
      <4>2. CASE queue'[m][i] = s
        BY <1>7, <2>8, <3>2, <4>2 DEF InFlight
      <4>3. ASSUME NEW j \in DOMAIN q, queue'[m][i] = q[j]
            PROVE  ~IsFree(request'[queue'[n][i]]) /\ MAJOR(request'[queue'[n][i]].blk[1]) = n
        BY <1>2, <2>4, <3>2, <4>3 DEF OwnInv, QueueOK, InFlight, q
      <4> QED BY <4>1, <4>2, <4>3
    <3> QED BY <3>1, <3>2
  <2>10. ASSUME NEW n \in Majors, NEW i \in DOMAIN queue'[n], NEW j \in DOMAIN queue'[n],
                queue'[n][i] = queue'[n][j]
         PROVE  i = j
    <3>1. CASE n # m
      BY <2>3, <2>10, <3>1 DEF OwnInv, QueueOK
    <3>2. CASE n = m
      <4>1. \A x, y \in 1 .. N : q[x] # s /\ (q[x] = q[y] => x = y)
        BY <1>2, <2>4, <2>5 DEF OwnInv, QueueOK, q
      <4>2. i \in 1 .. N + 1 /\ j \in 1 .. N + 1 /\ k \in 0 .. N /\ N \in Nat
        BY <2>2, <2>5, <2>7, <2>10, <3>2 DEF N, q
      <4> DEFINE pos(x) == IF x <= k THEN x ELSE x - 1
      <4>3. \A x \in 1 .. N + 1 : x # k + 1 => pos(x) \in 1 .. N /\ queue'[m][x] = q[pos(x)]
        BY <2>6, <4>2
      <4>4. queue'[m][k + 1] = s
        BY <2>6, <4>2
      <4>5. queue'[m][i] = queue'[m][j]
        BY <2>10, <3>2
      <4>6. CASE i = k + 1 \/ j = k + 1
        BY <4>1, <4>2, <4>3, <4>4, <4>5, <4>6
      <4>7. CASE i # k + 1 /\ j # k + 1
        <5>1. pos(i) = pos(j)
          BY <4>1, <4>2, <4>3, <4>5, <4>7
        <5> QED BY <4>2, <4>7, <5>1
      <4> QED BY <4>6, <4>7
    <3> QED BY <3>1, <3>2
  <2> QED BY <2>9, <2>10 DEF QueueOK, InFlight
<1>10. UniqueBuffer'
  BY <1>5 DEF OwnInv, UniqueBuffer
<1> QED BY <1>8, <1>9, <1>10 DEF OwnInv

(* The device moves the data of its current request, or ends it and gives  *)
(* the lock up.                                                            *)
LEMMA OwnDevice ==
  ASSUME TypeInv, NamedOK, OwnInv, NEW m \in Majors, Device(m)
  PROVE  OwnInv'
<1> DEFINE s == Head(queue[m])
           r == request[s]
<1>1. queue[m] # << >>
  BY DEF Device, Transfer, EndRequest
<1>2. /\ s \in Slots /\ Tail(queue[m]) \in Seq(Slots)
      /\ queue[m] \in Seq(Slots) /\ s = queue[m][1] /\ 1 \in DOMAIN queue[m]
  BY <1>1, HeadTailProperties, LenProperties, EmptySeq DEF TypeInv, TypeOK, ReqTypeOK
<1>3. InFlight(s) /\ r.bh \in Buffers
  BY <1>2 DEF OwnInv, QueueOK, NamedOK, RequestsOK, InFlight
<1>4. CASE Transfer(m)
  <2>1. /\ request' = [request EXCEPT ![s] = [r EXCEPT !.moved = TRUE]]
        /\ UNCHANGED <<b_blk, b_lock, queue, rbh, pc>>
    BY <1>2, <1>4 DEF Transfer, TypeInv, TypeOK, ReqTypeOK, bufVars, callVars
  <2>2. \A t \in Slots : /\ request'[t].cmd = request[t].cmd
                         /\ request'[t].bh = request[t].bh
                         /\ request'[t].blk = request[t].blk
    BY <1>2, <2>1 DEF TypeInv, TypeOK, ReqTypeOK, Requests
  <2>3. \A t \in Slots : InFlight(t)' <=> InFlight(t)
    BY <2>2 DEF InFlight, IsFree
  <2>4. \A q \in Procs : Making(q)' <=> Making(q)
    BY <2>1 DEF Making
  <2>5. LockOwned'
    BY <2>1, <2>2, <2>3, <2>4 DEF OwnInv, LockOwned
  <2>6. QueueOK'
    <3>1. \A n \in Majors : \A i \in DOMAIN queue[n] : queue[n][i] \in Slots
      BY ElementOfSeq, LenProperties DEF TypeInv, TypeOK, ReqTypeOK
    <3> QED BY <2>1, <2>2, <3>1 DEF OwnInv, QueueOK, InFlight, IsFree
  <2>7. UniqueBuffer'
    BY <2>1 DEF OwnInv, UniqueBuffer
  <2> QED BY <2>5, <2>6, <2>7 DEF OwnInv
<1>5. ASSUME NEW ok \in BOOLEAN, EndRequest(m, ok) PROVE OwnInv'
  <2>1. /\ b_lock' = [b_lock EXCEPT ![r.bh] = FALSE]
        /\ request' = [request EXCEPT ![s] = NoRequest]
        /\ queue' = [queue EXCEPT ![m] = Tail(queue[m])]
        /\ UNCHANGED <<b_blk, rbh, pc>>
    BY <1>5 DEF EndRequest, callVars
  <2>2. \A t \in Slots : /\ InFlight(t)' <=> (InFlight(t) /\ t # s)
                         /\ t # s => request'[t] = request[t]
    BY <1>2, <2>1 DEF TypeInv, TypeOK, ReqTypeOK, InFlight, IsFree, NoRequest
  <2>3. \A q \in Procs : Making(q)' <=> Making(q)
    BY <2>1 DEF Making
  <2>4. \A c \in Buffers : b_lock'[c] <=> b_lock[c] /\ c # r.bh
    BY <1>3, <2>1 DEF TypeInv, TypeOK, BufTypeOK
  <2>5. /\ \A t \in Slots : t # s /\ InFlight(t) => request[t].bh # r.bh
        /\ \A q \in Procs : Making(q) => rbh[q] # r.bh
    BY <1>2, <1>3 DEF OwnInv, LockOwned
  <2> HIDE DEF s
  <2>6. LockOwned'
    BY <1>2, <1>3, <2>1, <2>2, <2>3, <2>4, <2>5 DEF OwnInv, LockOwned
  <2>7. UniqueBuffer'
    BY <2>1 DEF OwnInv, UniqueBuffer
  <2>8. \A n \in Majors : \A i \in DOMAIN queue[n] :
          queue[n][i] \in Slots /\ (queue[n][i] = s => n = m /\ i = 1)
    <3>1. \A n \in Majors : \A i \in DOMAIN queue[n] : queue[n][i] \in Slots
      BY ElementOfSeq, LenProperties DEF TypeInv, TypeOK, ReqTypeOK
    <3> QED BY <1>2, <3>1 DEF OwnInv, QueueOK
  <2>9. ASSUME NEW n \in Majors, NEW i \in DOMAIN queue'[n]
        PROVE  \E k \in DOMAIN queue[n] : /\ queue'[n][i] = queue[n][k] /\ queue[n][k] # s
                                          /\ k = IF n = m THEN i + 1 ELSE i
    <3>1. CASE n # m
      BY <2>1, <2>8, <2>9, <3>1 DEF TypeInv, TypeOK, ReqTypeOK
    <3>2. CASE n = m
      <4>1. queue'[n] = Tail(queue[n])
        BY <2>1, <3>2 DEF TypeInv, TypeOK, ReqTypeOK
      <4>2. /\ Len(queue[n]) \in Nat /\ DOMAIN queue[n] = 1 .. Len(queue[n])
            /\ DOMAIN queue'[n] = 1 .. Len(queue[n]) - 1
            /\ \A k \in 1 .. Len(queue[n]) - 1 : queue'[n][k] = queue[n][k + 1]
        BY <1>1, <1>2, <3>2, <4>1, HeadTailProperties, LenProperties
      <4>3. i + 1 \in DOMAIN queue[n] /\ queue'[n][i] = queue[n][i + 1] /\ i + 1 # 1
        BY <2>9, <4>2
      <4> QED BY <2>8, <3>2, <4>3
    <3> QED BY <3>1, <3>2
  <2>10. QueueOK'
    <3>1. ASSUME NEW n \in Majors, NEW i \in DOMAIN queue'[n]
          PROVE  ~IsFree(request'[queue'[n][i]]) /\ MAJOR(request'[queue'[n][i]].blk[1]) = n
      BY <2>2, <2>8, <2>9, <3>1 DEF OwnInv, QueueOK, InFlight
    <3>2. ASSUME NEW n \in Majors, NEW i \in DOMAIN queue'[n], NEW j \in DOMAIN queue'[n],
                 queue'[n][i] = queue'[n][j]
          PROVE  i = j
      <4>1. PICK x \in DOMAIN queue[n] : /\ queue'[n][i] = queue[n][x]
                                         /\ x = IF n = m THEN i + 1 ELSE i
        BY <2>9, <3>2
      <4>2. PICK y \in DOMAIN queue[n] : /\ queue'[n][j] = queue[n][y]
                                         /\ y = IF n = m THEN j + 1 ELSE j
        BY <2>9, <3>2
      <4>3. x = y
        BY <3>2, <4>1, <4>2 DEF OwnInv, QueueOK
      <4>4. n = m => i \in Int /\ j \in Int
        <5>1. n = m => queue'[n] \in Seq(Slots)
          BY <1>2, <2>1 DEF TypeInv, TypeOK, ReqTypeOK
        <5> QED BY <3>2, <5>1, LenProperties
      <4> QED BY <4>1, <4>2, <4>3, <4>4
    <3> QED BY <3>1, <3>2 DEF QueueOK, InFlight
  <2> QED BY <2>6, <2>7, <2>10 DEF OwnInv
<1> QED BY <1>4, <1>5, SMTT(30) DEF Device

Inv == TypeInv /\ NamedOK /\ OwnInv

(* Inv holds at the start. *)
LEMMA InvInit == Init => Inv
<1> SUFFICES ASSUME Init PROVE OwnInv
  BY TypeInit DEF Inv
<1>1. \A s \in Slots : ~InFlight(s)
  BY DEF Init, InFlight, IsFree, NoRequest
<1>2. \A p \in Procs : ~Making(p)
  BY DEF Init, Making
<1>3. LockOwned
  BY <1>1, <1>2 DEF Init, LockOwned
<1>4. QueueOK
  BY DEF Init, QueueOK
<1>5. UniqueBuffer
  BY DEF Init, UniqueBuffer
<1> QED BY <1>3, <1>4, <1>5 DEF OwnInv

(* Every step keeps Inv. *)
LEMMA InvNext == Inv /\ [Next]_vars => Inv'
<1> SUFFICES ASSUME TypeInv, NamedOK, OwnInv, [Next]_vars
             PROVE  TypeInv' /\ NamedOK' /\ OwnInv'
  BY DEF Inv
<1>1. ASSUME NEW p \in Procs, Caller(p) \/ Kernel(p)
      PROVE  TypeInv' /\ NamedOK' /\ OwnInv'
  BY <1>1, TypeStep, NamedStep, QuietStep, OwnQuiet, OwnClaim, OwnLock, OwnAdd, OwnNoSlot
<1>2. ASSUME NEW m \in Majors, Device(m)
      PROVE  TypeInv' /\ NamedOK' /\ OwnInv'
  BY <1>2, DeviceTypeStep, OwnDevice
<1>3. CASE UNCHANGED vars
  <2>1. Quiet
    BY <1>3 DEF Quiet, vars, bufVars, callVars, Making
  <2> QED BY <1>3, <2>1, TypeStutter, OwnQuiet
<1> QED BY <1>1, <1>2, <1>3 DEF Next

(* getblk gives no block two buffers, for any number of processes sleeping *)
(* between their search and their claim.                                   *)
THEOREM UniqueBufferHolds == Spec => []UniqueBuffer
<1>1. Inv => UniqueBuffer
  BY DEF Inv, OwnInv
<1> QED BY <1>1, InvInit, InvNext, PTL DEF Spec

(* Every buffer lock has exactly one owner: the process between lock_buffer *)
(* and add_request, or one request of the table, which is for the block    *)
(* the buffer has; make_request and end_request leak no lock.              *)
THEOREM LockOwnedHolds == Spec => []LockOwned
<1>1. Inv => LockOwned
  BY DEF Inv, OwnInv
<1> QED BY <1>1, InvInit, InvNext, PTL DEF Spec

(* A buffer gets another block only while it is unused, unlocked and clean *)
(* and no request for it is in flight.                                     *)
THEOREM ClaimCleanHolds == Spec => ClaimClean
<1> DEFINE Clean == \A b \in Buffers : b_blk'[b] # b_blk[b] =>
                      /\ b_count[b] = 0 /\ ~b_lock[b] /\ ~b_dirt[b]
                      /\ \A s \in Slots : InFlight(s) => request[s].bh # b
<1>1. Inv /\ [Next]_vars => [Clean]_vars
  <2> SUFFICES ASSUME Inv, [Next]_vars PROVE Clean
    OBVIOUS
  <2>1. b_blk' = b_blk \/ \E p \in Procs : VictimClaim(p)
    <3>1. ASSUME NEW p \in Procs, Caller(p) \/ Kernel(p)
          PROVE  b_blk' = b_blk \/ VictimClaim(p)
      BY <3>1, QuietStep DEF Inv, Quiet, LockBuffer, AddRequest, NoSlot
    <3>2. ASSUME NEW m \in Majors, Device(m) PROVE b_blk' = b_blk
      BY <3>2 DEF Device, Transfer, EndRequest, bufVars
    <3>3. CASE UNCHANGED vars
      BY <3>3 DEF vars, bufVars
    <3> QED BY <3>1, <3>2, <3>3 DEF Next
  <2>2. ASSUME NEW p \in Procs, VictimClaim(p) PROVE Clean
    <3>1. bh[p] \in Buffers
      BY <2>2 DEF VictimClaim, Runs, Inv, TypeInv, ControlOK, Control
    <3>2. /\ \A b \in Buffers : b # bh[p] => b_blk'[b] = b_blk[b]
          /\ ~b_lock[bh[p]] /\ b_count[bh[p]] = 0 /\ ~b_dirt[bh[p]]
      BY <2>2 DEF VictimClaim, MustWait, Taken, NeedsSync, Claim, TakeOver, Inv, TypeInv, TypeOK,
           BufTypeOK
    <3>3. \A s \in Slots : InFlight(s) => request[s].bh # bh[p]
      BY <3>1, <3>2 DEF Inv, OwnInv, LockOwned
    <3> QED BY <3>2, <3>3
  <2> QED BY <2>1, <2>2
<1> QED BY <1>1, InvInit, InvNext, PTL DEF Spec, ClaimClean

-----------------------------------------------------------------------------
(* References                                                              *)

GotLabels == {"hash_wait", "got", "fill"}

(* The blocks p still has to get are distinct, and p holds none of them    *)
(* but the one it has just got, in bh[p]; what it is about to release, and *)
(* the first buffer of breada and bread_page, it does hold.                *)
UseProc(p) ==
  /\ \A j, k \in DOMAIN args[p] : args[p][j] = args[p][k] => j = k
  /\ \A k \in DOMAIN args[p], b \in Buffers :
       held[p][b] = args[p][k] => pc[p] \in GotLabels \cup {"brelse"} /\ k = 1 /\ b = bh[p]
  /\ pc[p] \in GotLabels => held[p][bh[p]] = Head(args[p])
  /\ pc[p] \in {"drop", "brelse", "page_wait"} => held[p][bh[p]] # NoBlock
  /\ pc[p] \in ReqLabels /\ scan[p] = NoScan => held[p][bh[p]] # NoBlock
  /\ first[p] # NoBuffer /\ pc[p] # "brelse" => held[p][first[p]] # NoBlock
  /\ pc[p] = "drop" => bh[p] # first[p]
  /\ pc[p] = "user" => args[p] = << >> /\ first[p] = NoBuffer /\ op[p] = "none"

(* A block that new_block works on is nobody else's. *)
NewIsPrivate ==
  \A p, q \in Procs : op[p] = "new_block" /\ p # q =>
    \A k \in DOMAIN args[p] : ~Wants(q, args[p][k])

UseInv == (\A p \in Procs : UseProc(p)) /\ References /\ NewIsPrivate

(* A step of p changes no other process. *)
LocalTo(p) ==
  \A q \in Procs \ {p} : /\ pc'[q] = pc[q] /\ op'[q] = op[q] /\ args'[q] = args[q]
                         /\ bh'[q] = bh[q] /\ first'[q] = first[q] /\ scan'[q] = scan[q]
                         /\ held'[q] = held[q]

(* p asks for nothing new. *)
AsksNoMore(p) ==
  /\ op'[p] = "new_block" => op[p] = "new_block"
  /\ \A k \in DOMAIN args'[p] : \E j \in DOMAIN args[p] : args'[p][k] = args[p][j]
  /\ \A b \in Buffers : held'[p][b] # NoBlock => Wants(p, held'[p][b])

(* p takes and gives no reference. *)
SameRefs == UNCHANGED <<b_blk, b_count, held>>

LEMMA BlockFacts ==
  /\ \A blk \in Blocks : blk # NoBlock
  /\ NoBuffer \notin Buffers /\ Buffers \subseteq Nat
<1>1. \A blk \in Blocks : blk[1] # 0
  BY BlocksAssumption
<1> QED BY <1>1, BuffersAssumption DEF NoBlock, NoBuffer, Buffers

(* The steps of p that take and give no reference. *)
LEMMA StillStep ==
  ASSUME TypeInv, NEW p \in Procs, UseProc(p),
         GetblkVictim(p) \/ GetblkSleep(p) \/ VictimLost(p) \/ VictimSync(p) \/ SyncWait(p)
         \/ ScanWaited(p) \/ SyncWrite(p) \/ SyncAgain(p) \/ SkipRequest(p) \/ LockBuffer(p)
         \/ AddRequest(p) \/ NoSlot(p) \/ RequestSleep(p) \/ GotNew(p) \/ GotWrite(p) \/ Fill(p)
         \/ ReadFailed(p) \/ Wait(p) \/ InvalidateWait(p)
  PROVE  LocalTo(p) /\ UNCHANGED args /\ UNCHANGED op /\ SameRefs /\ UseProc(p)'
<1> DEFINE Kept == LocalTo(p) /\ UNCHANGED args /\ UNCHANGED op /\ SameRefs /\ UseProc(p)'
<1> USE DEF TypeInv, TypeOK, CallTypeOK, RunTypeOK, UseTypeOK, LocalTo, SameRefs, UseProc, GotLabels,
        ReqLabels, Runs, NoBuffer, bufVars, callVars
<1>a. Control(p)
  BY DEF ControlOK
<1>b. pc[p] \in GotLabels => Head(args[p]) # NoBlock /\ bh[p] \in Buffers
  <2>1. pc[p] \in GotLabels => Head(args[p]) \in Blocks
    BY <1>a, HeadTailProperties DEF Control
  <2> QED BY <1>a, <2>1, BlockFacts DEF Control
<1>1. CASE GetblkVictim(p)
  BY <1>a, <1>1 DEF Control, GetblkVictim, Goto
<1>2. CASE GetblkSleep(p)
  BY <1>a, <1>2 DEF Control, GetblkSleep, SleepOn
<1>3. CASE VictimLost(p)
  BY <1>a, <1>3 DEF Control, VictimLost, Goto
<1>4. CASE VictimSync(p)
  BY <1>a, <1>4 DEF Control, VictimSync, Goto, NoScan
<1>5. CASE SyncWait(p)
  BY <1>a, <1>5 DEF Control, SyncWait, Goto, At, Pending, NoScan
<1>6. CASE ScanWaited(p)
  BY <1>a, <1>6 DEF Control, ScanWaited, Goto
<1>7. CASE SyncWrite(p)
  <2>1. PICK b \in Pending(p) : /\ scan' = [scan EXCEPT ![p] = At(p, b + 1, scan[p].pass)]
                                 /\ CallRW(p, WRITE, b)
    BY <1>7 DEF SyncWrite
  <2>2. b + 1 # 0
    BY BlockFacts DEF Pending
  <2>3. scan'[p] # NoScan /\ \A q \in Procs \ {p} : scan'[q] = scan[q]
    BY <2>1, <2>2 DEF At, NoScan
  <2>4. /\ pc[p] = "sync" /\ pc' = [pc EXCEPT ![p] = "lock"]
        /\ UNCHANGED <<op, args, bh, first, held, b_blk, b_count>>
    BY <1>7, <2>1 DEF SyncWrite, CallRW, Goto
  <2> QED BY <2>3, <2>4
<1>8. CASE SyncAgain(p)
  BY <1>a, <1>8 DEF Control, SyncAgain, Goto, At, NoScan
<1>9. CASE SkipRequest(p)
  BY <1>a, <1>9 DEF Control, SkipRequest, ReturnRW, AfterRW, Goto
<1>10. CASE LockBuffer(p)
  BY <1>a, <1>10 DEF Control, LockBuffer, Goto
<1>11. CASE AddRequest(p)
  BY <1>a, <1>11 DEF Control, AddRequest, ReturnRW, AfterRW, Goto
<1>12. CASE NoSlot(p)
  BY <1>a, <1>12 DEF Control, NoSlot, ReturnRW, AfterRW, Goto
<1>13. CASE RequestSleep(p)
  BY <1>a, <1>13 DEF Control, RequestSleep, SleepOn
<1>14. CASE GotNew(p)
  BY <1>a, <1>b, <1>14, BlockFacts DEF Control, GotNew, Goto
<1>15. CASE GotWrite(p)
  BY <1>a, <1>15 DEF Control, GotWrite, MayBlock
<1>16. CASE Fill(p)
  BY <1>a, <1>b, <1>16, BlockFacts DEF Control, Fill, Goto
<1>17. CASE ReadFailed(p)
  BY <1>a, <1>b, <1>17, BlockFacts DEF Control, ReadFailed, Goto
<1>18. CASE Wait(p)
  BY <1>a, <1>18 DEF Control, Wait, SleepOn
<1>19. CASE InvalidateWait(p)
  BY <1>a, <1>19 DEF Control, InvalidateWait, Invalidated, Goto, Blocking, At, NoScan
<1> QED BY <1>1, <1>2, <1>3, <1>4, <1>5, <1>6, <1>7, <1>8, <1>9, <1>10, <1>11, <1>12, <1>13, <1>14, <1>15, <1>16, <1>17, <1>18, <1>19

(* The operations that end with what they hold, and the callers' own steps. *)
LEMMA EndStep ==
  ASSUME TypeInv, NEW p \in Procs, UseProc(p),
         SyncEnd(p) \/ GotValid(p) \/ ReadDone(p) \/ InvalidateEnd(p)
         \/ (\E b \in Buffers : Modify(p, b) \/ CallBrelse(p, b))
         \/ (\E dev \in Devices : CallDiskChange(p, dev))
  PROVE  LocalTo(p) /\ SameRefs /\ UseProc(p)' /\ AsksNoMore(p)
<1> DEFINE Kept == /\ LocalTo(p) /\ SameRefs /\ UseProc(p)'
                   /\ args'[p] \in {args[p], << >>}
                   /\ op'[p] \in {op[p], "none", "check_disk_change"}
<1> USE DEF TypeInv, TypeOK, CallTypeOK, RunTypeOK, UseTypeOK, LocalTo, SameRefs, UseProc, GotLabels,
        ReqLabels, Runs, NoBuffer, bufVars, callVars
<1>a. Control(p)
  BY DEF ControlOK
<1>1. ASSUME SyncEnd(p)
      PROVE  Kept
  BY <1>a, <1>1 DEF Control, SyncEnd, Goto, Return
<1>2. ASSUME GotValid(p)
      PROVE  Kept
  BY <1>2 DEF GotValid, Return
<1>3. ASSUME ReadDone(p)
      PROVE  Kept
  BY <1>3 DEF ReadDone, Return
<1>4. ASSUME InvalidateEnd(p)
      PROVE  Kept
  BY <1>4 DEF InvalidateEnd, Invalidated, Return
<1>5. ASSUME NEW b \in Buffers, Modify(p, b)
      PROVE  Kept
  BY <1>5 DEF Modify
<1>6. ASSUME NEW b \in Buffers, CallBrelse(p, b)
      PROVE  Kept
  BY <1>6 DEF CallBrelse, Goto, Holds
<1>7. ASSUME NEW dev \in Devices, CallDiskChange(p, dev)
      PROVE  Kept
  BY <1>7 DEF CallDiskChange, Goto
<1>8. Kept
  BY <1>1, <1>2, <1>3, <1>4, <1>5, <1>6, <1>7
<1>9. AsksNoMore(p)
  <2>1. DOMAIN << >> = {}
    OBVIOUS
  <2>2. \A k \in DOMAIN args'[p] : \E j \in DOMAIN args[p] : args'[p][k] = args[p][j]
    BY <1>8, <2>1
  <2>3. \A b \in Buffers : held'[p][b] # NoBlock => Wants(p, held'[p][b])
    BY <1>8 DEF Wants
  <2> QED BY <1>8, <2>2, <2>3 DEF AsksNoMore
<1> QED BY <1>8, <1>9

(* The block just got is held and no longer to be got. *)
LEMMA GotReadStep ==
  ASSUME TypeInv, NEW p \in Procs, UseProc(p), GotRead(p)
  PROVE  LocalTo(p) /\ SameRefs /\ UseProc(p)' /\ AsksNoMore(p)
<1> DEFINE b == bh[p]
           lead == IF first[p] = NoBuffer THEN b ELSE first[p]
<1>1. Control(p) /\ pc[p] = "got" /\ args[p] \in Seq(Blocks) /\ args[p] # << >>
  BY DEF TypeInv, TypeOK, CallTypeOK, ControlOK, Control, GotRead, Runs
<1>2. /\ b \in Buffers /\ scan[p] = NoScan /\ first[p] \in Buffers \cup {NoBuffer}
      /\ held[p][b] = Head(args[p])
  BY <1>1 DEF Control, UseProc, GotLabels, TypeInv, TypeOK, CallTypeOK, ReqLabels
<1>3. /\ Len(args[p]) \in Nat /\ Head(args[p]) = args[p][1] /\ Head(args[p]) \in Blocks
      /\ DOMAIN args[p] = 1 .. Len(args[p]) /\ Len(args[p]) >= 1
      /\ DOMAIN Tail(args[p]) = 1 .. Len(args[p]) - 1
      /\ \A k \in 1 .. Len(args[p]) - 1 : Tail(args[p])[k] = args[p][k + 1]
  BY <1>1, LenProperties, HeadTailProperties, EmptySeq
<1>4. /\ first' = [first EXCEPT ![p] = lead] /\ args' = [args EXCEPT ![p] = Tail(args[p])]
      /\ UNCHANGED <<b_blk, b_count, held, op, bh, scan>>
  BY DEF GotRead, bufVars
<1>5. \/ pc' = [pc EXCEPT ![p] = "lock"]
      \/ pc' = [pc EXCEPT ![p] = AfterRW(p, lead, Tail(args[p]))]
  BY DEF GotRead, CallRW, Goto
<1>6. LocalTo(p) /\ SameRefs
  BY <1>4, <1>5 DEF LocalTo, SameRefs, TypeInv, TypeOK, CallTypeOK, RunTypeOK
<1>7. first'[p] = lead /\ args'[p] = Tail(args[p]) /\ held'[p] = held[p] /\ bh'[p] = b
  BY <1>4 DEF TypeInv, TypeOK, CallTypeOK
<1>8. /\ pc'[p] \in {"lock", "drop", "getblk", "page_wait", "read_wait"}
      /\ pc'[p] = "drop" => b # lead
  BY <1>2, <1>5 DEF AfterRW, TypeInv, TypeOK, RunTypeOK
<1>9. held[p][b] # NoBlock /\ held[p][lead] # NoBlock
  BY <1>1, <1>2, <1>3, BlockFacts DEF UseProc
<1>10. /\ \A j, k \in DOMAIN Tail(args[p]) : Tail(args[p])[j] = Tail(args[p])[k] => j = k
       /\ \A k \in DOMAIN Tail(args[p]), c \in Buffers : held[p][c] # Tail(args[p])[k]
  <2>1. \A k \in 1 .. Len(args[p]) - 1 : k + 1 \in DOMAIN args[p] /\ k + 1 # 1
    BY <1>3
  <2>2. \A j, k \in 1 .. Len(args[p]) - 1 : args[p][j + 1] = args[p][k + 1] => j = k
    BY <1>3, <2>1 DEF UseProc
  <2>3. \A k \in 1 .. Len(args[p]) - 1, c \in Buffers : held[p][c] # args[p][k + 1]
    BY <2>1 DEF UseProc
  <2> QED BY <1>3, <2>2, <2>3
<1> HIDE DEF lead, b
<1>11. UseProc(p)'
  BY <1>7, <1>8, <1>9, <1>10 DEF UseProc, GotLabels, ReqLabels
<1>12. AsksNoMore(p)
  <2>1. \A k \in DOMAIN Tail(args[p]) : k + 1 \in DOMAIN args[p] /\ Tail(args[p])[k] = args[p][k + 1]
    BY <1>3
  <2> QED BY <1>4, <1>7, <2>1 DEF AsksNoMore, Wants
<1> QED BY <1>6, <1>11, <1>12

-----------------------------------------------------------------------------
(* References are taken ...                                                *)

(* p takes a reference to b for the first block it asked for. *)
Takes(p, b) ==
  /\ held' = [held EXCEPT ![p][b] = Head(args[p])]
  /\ b_count'[b] = b_count[b] + 1 /\ b_blk'[b] = Head(args[p])
  /\ \A c \in Buffers \ {b} : b_count'[c] = b_count[c] /\ b_blk'[c] = b_blk[c]
  /\ b_blk'[b] # b_blk[b] => Holders(b) = {}

LEMMA HitStep ==
  ASSUME TypeInv, NEW p \in Procs, UseProc(p), References, GetblkHit(p)
  PROVE  \E b \in Buffers : /\ Takes(p, b) /\ held[p][b] = NoBlock /\ bh' = [bh EXCEPT ![p] = b]
                            /\ pc[p] = "getblk" /\ pc' = [pc EXCEPT ![p] = "hash_wait"]
                            /\ UNCHANGED <<op, args, first, scan>>
<1>1. PICK b \in Cached(Head(args[p])) :
        /\ b_count' = [b_count EXCEPT ![b] = @ + 1]
        /\ held' = [held EXCEPT ![p][b] = Head(args[p])]
        /\ bh' = [bh EXCEPT ![p] = b]
  BY DEF GetblkHit
<1>2. /\ pc[p] = "getblk" /\ pc' = [pc EXCEPT ![p] = "hash_wait"]
      /\ UNCHANGED <<op, args, first, scan, b_blk>>
  BY DEF GetblkHit, Goto, Runs
<1>3. b \in Buffers /\ b_blk[b] = Head(args[p]) /\ args[p] \in Seq(Blocks) /\ args[p] # << >>
  BY <1>1, <1>2 DEF Cached, TypeInv, TypeOK, CallTypeOK, ControlOK, Control
<1>4. Head(args[p]) = args[p][1] /\ 1 \in DOMAIN args[p]
  BY <1>3, HeadTailProperties, LenProperties, EmptySeq
<1>5. held[p][b] = NoBlock
  <2>1. held[p][b] # NoBlock => held[p][b] = b_blk[b]
    BY <1>3 DEF References, Holders
  <2>2. held[p][b] # args[p][1]
    BY <1>2, <1>3, <1>4 DEF UseProc, GotLabels
  <2> QED BY <1>3, <1>4, <2>1, <2>2
<1>6. Takes(p, b)
  BY <1>1, <1>2, <1>3 DEF Takes, TypeInv, TypeOK, BufTypeOK
<1> QED BY <1>1, <1>2, <1>3, <1>5, <1>6

LEMMA ClaimStep ==
  ASSUME TypeInv, NEW p \in Procs, UseProc(p), References, VictimClaim(p)
  PROVE  \E b \in Buffers : /\ Takes(p, b) /\ held[p][b] = NoBlock /\ bh[p] = b /\ bh' = bh
                            /\ pc[p] = "victim_wait" /\ pc' = [pc EXCEPT ![p] = "got"]
                            /\ UNCHANGED <<op, args, first, scan>>
<1> DEFINE b == bh[p]
<1>1. /\ pc[p] = "victim_wait" /\ pc' = [pc EXCEPT ![p] = "got"]
      /\ UNCHANGED <<op, args, bh, first, scan>>
  BY DEF VictimClaim, Claim, TakeOver, Goto, Runs, callVars
<1>2. b \in Buffers /\ b_count[b] = 0
  BY <1>1 DEF VictimClaim, Taken, TypeInv, ControlOK, Control
<1>3. /\ b_count' = [b_count EXCEPT ![b] = 1] /\ b_blk' = [b_blk EXCEPT ![b] = Head(args[p])]
      /\ held' = [held EXCEPT ![p][b] = Head(args[p])]
  BY DEF VictimClaim, Claim, TakeOver
<1>4. Holders(b) = {}
  <2>1. IsFiniteSet(Holders(b))
    BY ProcsAssumption, FS_Subset DEF Holders
  <2>2. Cardinality(Holders(b)) = 0
    BY <1>2 DEF References
  <2> QED BY <2>1, <2>2, FS_EmptySet
<1>5. held[p][b] = NoBlock
  BY <1>4 DEF Holders
<1>6. Takes(p, b)
  BY <1>2, <1>3, <1>4 DEF Takes, TypeInv, TypeOK, BufTypeOK
<1> QED BY <1>1, <1>2, <1>5, <1>6

LEMMA TakesKeeps ==
  ASSUME TypeInv, NEW p \in Procs, UseProc(p), References, NEW b \in Buffers,
         Takes(p, b), held[p][b] = NoBlock, pc[p] \in {"getblk", "victim_wait"},
         NEW l \in {"hash_wait", "got"}, pc' = [pc EXCEPT ![p] = l],
         bh' = [bh EXCEPT ![p] = b], UNCHANGED <<op, args, first, scan>>
  PROVE  LocalTo(p) /\ UseProc(p)' /\ AsksNoMore(p) /\ References'
<1>1. args[p] \in Seq(Blocks) /\ args[p] # << >>
  BY DEF TypeInv, TypeOK, CallTypeOK, ControlOK, Control
<1>2. Head(args[p]) = args[p][1] /\ 1 \in DOMAIN args[p] /\ Head(args[p]) \in Blocks
  BY <1>1, HeadTailProperties, LenProperties, EmptySeq
<1>3. /\ \A q \in Procs \ {p} : held'[q] = held[q]
      /\ held'[p][b] = Head(args[p]) /\ \A c \in Buffers \ {b} : held'[p][c] = held[p][c]
  BY DEF Takes, TypeInv, TypeOK, UseTypeOK
<1>4. LocalTo(p)
  BY <1>3 DEF LocalTo, TypeInv, TypeOK, CallTypeOK, RunTypeOK
<1>5. pc'[p] = l /\ bh'[p] = b /\ Head(args[p]) # NoBlock
  BY <1>2, BlockFacts DEF TypeInv, TypeOK, CallTypeOK, RunTypeOK
<1>6. UseProc(p)'
  <2>1. first[p] # NoBuffer => first[p] \in Buffers /\ held[p][first[p]] # NoBlock
    BY DEF UseProc, TypeInv, TypeOK, CallTypeOK
  <2>2. first[p] # NoBuffer => held'[p][first[p]] # NoBlock
    BY <1>3, <1>5, <2>1
  <2>3. \A k \in DOMAIN args[p], c \in Buffers : held'[p][c] = args[p][k] => k = 1 /\ c = b
    BY <1>2, <1>3 DEF UseProc, GotLabels
  <2>4. \A j, k \in DOMAIN args[p] : args[p][j] = args[p][k] => j = k
    BY DEF UseProc
  <2> QED BY <1>3, <1>5, <2>2, <2>3, <2>4 DEF UseProc, GotLabels, ReqLabels
<1>7. AsksNoMore(p)
  BY <1>2, <1>3 DEF AsksNoMore, Wants
<1>8. References'
  <2> SUFFICES ASSUME NEW c \in Buffers
               PROVE  /\ b_count'[c] = Cardinality(Holders(c)')
                      /\ \A q \in Holders(c)' : held'[q][c] = b_blk'[c]
    BY DEF References, Holders
  <2>1. CASE c # b
    <3>1. \A q \in Procs : held'[q][c] = held[q][c]
      BY <1>3, <2>1
    <3>2. Holders(c)' = Holders(c)
      BY <3>1 DEF Holders
    <3>3. b_count'[c] = b_count[c] /\ b_blk'[c] = b_blk[c]
      BY <2>1 DEF Takes
    <3> QED BY <3>1, <3>2, <3>3 DEF References, Holders
  <2>2. CASE c = b
    <3>1. Holders(b)' = Holders(b) \cup {p} /\ p \notin Holders(b)
      BY <1>3, <1>5 DEF Holders
    <3>2. IsFiniteSet(Holders(b))
      BY ProcsAssumption, FS_Subset DEF Holders
    <3>3. Cardinality(Holders(b)') = Cardinality(Holders(b)) + 1
      BY <3>1, <3>2, FS_AddElement
    <3>4. b_count'[b] = Cardinality(Holders(b)')
      BY <3>3 DEF Takes, References
    <3>5. ASSUME NEW q \in Holders(b)'
          PROVE  held'[q][b] = b_blk'[b]
      <4>1. CASE q = p
        BY <1>3, <4>1 DEF Takes
      <4>2. CASE q # p
        <5>1. q \in Holders(b) /\ q \in Procs
          BY <3>1, <3>5, <4>2 DEF Holders
        <5>2. held[q][b] = b_blk[b]
          BY <5>1 DEF References
        <5>3. b_blk'[b] = b_blk[b]
          BY <5>1 DEF Takes
        <5> QED BY <1>3, <4>2, <5>1, <5>2, <5>3
      <4> QED BY <4>1, <4>2
    <3> QED BY <2>2, <3>4, <3>5
  <2> QED BY <2>1, <2>2
<1> QED BY <1>4, <1>6, <1>7, <1>8

(* get_hash_table takes a reference before it waits, so that the buffer is *)
(* still the block's when it looks again.                                  *)
LEMMA HashWaitStep ==
  ASSUME TypeInv, NEW p \in Procs, UseProc(p), References, HashWait(p)
  PROVE  LocalTo(p) /\ SameRefs /\ UseProc(p)' /\ AsksNoMore(p)
<1>1. pc[p] = "hash_wait" /\ bh[p] \in Buffers /\ args[p] \in Seq(Blocks) /\ args[p] # << >>
  BY DEF HashWait, Runs, TypeInv, TypeOK, CallTypeOK, ControlOK, Control
<1>2. Head(args[p]) # NoBlock
  BY <1>1, HeadTailProperties, BlockFacts
<1>3. held[p][bh[p]] = Head(args[p]) /\ b_blk[bh[p]] = Head(args[p])
  BY <1>1, <1>2 DEF UseProc, GotLabels, References, Holders
<1>4. /\ pc' = [pc EXCEPT ![p] = "got"]
      /\ UNCHANGED <<b_count, held, b_blk, op, args, bh, first, scan>>
  BY <1>3 DEF HashWait, Goto, callVars
<1>5. LocalTo(p) /\ SameRefs
  BY <1>4 DEF LocalTo, SameRefs, TypeInv, TypeOK, CallTypeOK, RunTypeOK
<1>6. UseProc(p)'
  BY <1>1, <1>4 DEF UseProc, GotLabels, ReqLabels, TypeInv, TypeOK, CallTypeOK, RunTypeOK
<1> QED BY <1>4, <1>5, <1>6 DEF AsksNoMore, Wants


-----------------------------------------------------------------------------
(* ... and given up,                                                       *)

Gives(p, b) ==
  /\ held' = [held EXCEPT ![p][b] = NoBlock]
  /\ b_count' = [b_count EXCEPT ![b] = @ - 1] /\ b_blk' = b_blk

LEMMA GivesKeeps ==
  ASSUME TypeInv, NEW p \in Procs, References, NEW b \in Buffers, Gives(p, b), held[p][b] # NoBlock
  PROVE  /\ \A q \in Procs \ {p} : held'[q] = held[q]
         /\ held'[p][b] = NoBlock /\ \A c \in Buffers \ {b} : held'[p][c] = held[p][c]
         /\ References'
<1>1. /\ \A q \in Procs \ {p} : held'[q] = held[q]
      /\ held'[p][b] = NoBlock /\ \A c \in Buffers \ {b} : held'[p][c] = held[p][c]
  BY DEF Gives, TypeInv, TypeOK, UseTypeOK
<1>2. /\ b_count'[b] = b_count[b] - 1 /\ b_blk' = b_blk
      /\ \A c \in Buffers \ {b} : b_count'[c] = b_count[c]
  BY DEF Gives, TypeInv, TypeOK, BufTypeOK
<1>3. References'
  <2> SUFFICES ASSUME NEW c \in Buffers
               PROVE  /\ b_count'[c] = Cardinality(Holders(c)')
                      /\ \A q \in Holders(c)' : held'[q][c] = b_blk'[c]
    BY DEF References, Holders
  <2>1. Holders(c)' \subseteq Holders(c) /\ \A q \in Holders(c)' : held'[q][c] = held[q][c]
    BY <1>1 DEF Holders
  <2>2. \A q \in Holders(c)' : held'[q][c] = b_blk'[c]
    BY <1>2, <2>1 DEF References
  <2>3. CASE c # b
    <3>1. Holders(c)' = Holders(c)
      BY <1>1, <2>3 DEF Holders
    <3> QED BY <1>2, <2>2, <2>3, <3>1 DEF References
  <2>4. CASE c = b
    <3>1. Holders(b)' = Holders(b) \ {p} /\ p \in Holders(b)
      BY <1>1 DEF Holders
    <3>2. IsFiniteSet(Holders(b))
      BY ProcsAssumption, FS_Subset DEF Holders
    <3>3. Cardinality(Holders(b)') = Cardinality(Holders(b)) - 1
      BY <3>1, <3>2, FS_RemoveElement
    <3> QED BY <1>2, <2>2, <2>4, <3>3 DEF References
  <2> QED BY <2>3, <2>4
<1> QED BY <1>1, <1>3

LEMMA GiveStep ==
  ASSUME TypeInv, NEW p \in Procs, UseProc(p), References,
         DropAhead(p) \/ Brelse(p) \/ PageWait(p)
  PROVE  LocalTo(p) /\ UseProc(p)' /\ AsksNoMore(p) /\ References'
<1> DEFINE Kept == LocalTo(p) /\ UseProc(p)' /\ AsksNoMore(p) /\ References'
<1>a. Control(p) /\ first[p] \in Buffers \cup {NoBuffer} /\ DOMAIN << >> = {}
  BY DEF TypeInv, TypeOK, CallTypeOK, ControlOK
<1>b. ASSUME \A b \in Buffers : held'[p][b] \in {held[p][b], NoBlock},
             op'[p] \in {op[p], "none"}, args'[p] \in {args[p], << >>}
      PROVE  AsksNoMore(p)
  <2>1. \A b \in Buffers : held'[p][b] # NoBlock => held'[p][b] = held[p][b]
    BY <1>b
  <2>2. \A b \in Buffers : held'[p][b] # NoBlock => Wants(p, held'[p][b])
    BY <2>1 DEF Wants
  <2>3. \A k \in DOMAIN args'[p] : \E j \in DOMAIN args[p] : args'[p][k] = args[p][j]
    BY <1>a, <1>b
  <2> QED BY <1>b, <2>2, <2>3 DEF AsksNoMore
<1>1. ASSUME DropAhead(p)
      PROVE  Kept
  <2>1. /\ pc[p] = "drop" /\ Gives(p, bh[p]) /\ bh' = [bh EXCEPT ![p] = first[p]]
        /\ \E l \in {"getblk", "read_wait"} : pc' = [pc EXCEPT ![p] = l]
        /\ UNCHANGED <<op, args, first, scan>>
    BY <1>1 DEF DropAhead, Gives, Goto, Runs
  <2>2. /\ bh[p] \in Buffers /\ first[p] \in Buffers /\ bh[p] # first[p]
        /\ held[p][bh[p]] # NoBlock /\ held[p][first[p]] # NoBlock
    BY <1>a, <2>1, BlockFacts DEF Control, UseProc
  <2>3. /\ \A q \in Procs \ {p} : held'[q] = held[q]
        /\ \A c \in Buffers : held'[p][c] \in {held[p][c], NoBlock}
        /\ held'[p][first[p]] # NoBlock /\ References'
    BY <2>1, <2>2, GivesKeeps
  <2>4. LocalTo(p)
    BY <2>1, <2>3 DEF LocalTo, TypeInv, TypeOK, CallTypeOK, RunTypeOK
  <2>5. UseProc(p)'
    <3>1. \A k \in DOMAIN args[p] : args[p][k] # NoBlock
      BY BlockFacts DEF TypeInv, TypeOK, CallTypeOK
    <3>2. \A k \in DOMAIN args[p], c \in Buffers : held'[p][c] # args[p][k]
      BY <2>1, <2>3, <3>1 DEF UseProc, GotLabels
    <3>3. pc'[p] \in {"getblk", "read_wait"}
      BY <2>1 DEF TypeInv, TypeOK, RunTypeOK
    <3> QED BY <2>1, <2>3, <3>2, <3>3 DEF UseProc, GotLabels, ReqLabels
  <2> QED BY <1>b, <2>1, <2>3, <2>4, <2>5
<1>2. ASSUME NEW b \in Buffers, Gives(p, b), held[p][b] # NoBlock, Return(p), scan' = scan
      PROVE  Kept
  <2>1. /\ pc' = [pc EXCEPT ![p] = "user"] /\ op' = [op EXCEPT ![p] = "none"]
        /\ args' = [args EXCEPT ![p] = << >>] /\ bh' = [bh EXCEPT ![p] = NoBuffer]
        /\ first' = [first EXCEPT ![p] = NoBuffer]
    BY <1>2 DEF Return
  <2>2. /\ \A q \in Procs \ {p} : held'[q] = held[q]
        /\ \A c \in Buffers : held'[p][c] \in {held[p][c], NoBlock}
        /\ References'
    BY <1>2, GivesKeeps
  <2>3. LocalTo(p)
    BY <1>2, <2>1, <2>2 DEF LocalTo, TypeInv, TypeOK, CallTypeOK, RunTypeOK
  <2>4. /\ pc'[p] = "user" /\ op'[p] = "none" /\ args'[p] = << >> /\ first'[p] = NoBuffer
    BY <2>1 DEF TypeInv, TypeOK, CallTypeOK, RunTypeOK
  <2>5. UseProc(p)'
    BY <1>a, <2>4 DEF UseProc, GotLabels, ReqLabels
  <2> QED BY <1>b, <2>2, <2>3, <2>4, <2>5
<1>3. ASSUME Brelse(p)
      PROVE  Kept
  <2>1. pc[p] = "brelse" /\ Gives(p, bh[p]) /\ Return(p) /\ scan' = scan
    BY <1>3 DEF Brelse, Release, Gives, Runs
  <2>2. bh[p] \in Buffers /\ held[p][bh[p]] # NoBlock
    BY <1>a, <2>1 DEF Control, UseProc
  <2> QED BY <1>2, <2>1, <2>2
<1>4. ASSUME PageWait(p)
      PROVE  Kept
  <2> DEFINE b == PageBuffer(p)
  <2>1. pc[p] = "page_wait" /\ Gives(p, b) /\ scan' = scan
    BY <1>4 DEF PageWait, Release, Gives, Runs
  <2>2. /\ bh[p] \in Buffers /\ held[p][bh[p]] # NoBlock
        /\ b \in Buffers /\ held[p][b] # NoBlock
    BY <1>a, <2>1 DEF Control, UseProc, PageBuffer
  <2>3. CASE b = bh[p]
    <3>1. Return(p)
      BY <1>4, <2>3 DEF PageWait
    <3> QED BY <1>2, <2>1, <2>2, <3>1
  <2>4. CASE b # bh[p]
    <3>1. /\ first' = [first EXCEPT ![p] = NoBuffer] /\ pc' = [pc EXCEPT ![p] = "page_wait"]
          /\ UNCHANGED <<op, args, bh>>
      BY <1>4, <2>4 DEF PageWait, Goto
    <3> HIDE DEF b
    <3>2. /\ \A q \in Procs \ {p} : held'[q] = held[q]
          /\ \A c \in Buffers : held'[p][c] \in {held[p][c], NoBlock}
          /\ held'[p][bh[p]] # NoBlock /\ References'
      BY <2>1, <2>2, <2>4, GivesKeeps
    <3>3. LocalTo(p)
      BY <2>1, <3>1, <3>2 DEF LocalTo, TypeInv, TypeOK, CallTypeOK, RunTypeOK
    <3>4. \A k \in DOMAIN args[p] : args[p][k] # NoBlock
      BY BlockFacts DEF TypeInv, TypeOK, CallTypeOK
    <3>5. \A k \in DOMAIN args[p], c \in Buffers : held'[p][c] # args[p][k]
      BY <2>1, <3>2, <3>4 DEF UseProc, GotLabels
    <3>6. pc'[p] = "page_wait" /\ first'[p] = NoBuffer
      BY <3>1 DEF TypeInv, TypeOK, RunTypeOK, CallTypeOK
    <3>7. UseProc(p)'
      BY <3>1, <3>2, <3>5, <3>6 DEF UseProc, GotLabels, ReqLabels
    <3> QED BY <1>b, <3>1, <3>2, <3>3, <3>7
  <2> QED BY <2>3, <2>4
<1> QED BY <1>1, <1>3, <1>4

-----------------------------------------------------------------------------
(* ... and asked for, by callers that hold none of the blocks.             *)

LEMMA CallKeeps ==
  ASSUME TypeInv, NEW p \in Procs, UseProc(p), NewIsPrivate, NEW o \in Ops,
         NEW blocks \in Seq(Blocks), Call(p, o, blocks),
         \A j, k \in DOMAIN blocks : blocks[j] = blocks[k] => j = k,
         NEW l \in {"getblk", "sync"}, pc' = [pc EXCEPT ![p] = l],
         \A q \in Procs \ {p} : scan'[q] = scan[q]
  PROVE  LocalTo(p) /\ SameRefs /\ UseProc(p)' /\ NewIsPrivate'
<1>1. /\ op' = [op EXCEPT ![p] = o] /\ args' = [args EXCEPT ![p] = blocks]
      /\ UNCHANGED <<b_blk, b_count, held, bh, first>> /\ pc[p] = "user"
  BY DEF Call, Runs, bufVars
<1>2. \A k \in DOMAIN blocks, q \in Procs :
        Wants(q, blocks[k]) => q # p /\ o # "new_block" /\ op[q] # "new_block"
  BY DEF Call
<1>3. /\ pc'[p] = l /\ op'[p] = o /\ args'[p] = blocks /\ held' = held
      /\ \A q \in Procs \ {p} : op'[q] = op[q] /\ args'[q] = args[q]
  BY <1>1 DEF TypeInv, TypeOK, CallTypeOK, RunTypeOK
<1>4. LocalTo(p) /\ SameRefs
  BY <1>1, <1>3 DEF LocalTo, SameRefs, TypeInv, TypeOK, RunTypeOK
<1>5. UseProc(p)'
  <2>1. \A k \in DOMAIN blocks, b \in Buffers : held[p][b] # blocks[k]
    BY <1>2 DEF Wants
  <2>2. first'[p] = NoBuffer
    BY <1>1 DEF UseProc
  <2> QED BY <1>3, <2>1, <2>2 DEF UseProc, GotLabels, ReqLabels
<1>6. NewIsPrivate'
  <2> SUFFICES ASSUME NEW q \in Procs, NEW r \in Procs, op'[q] = "new_block", q # r,
                      NEW k \in DOMAIN args'[q], Wants(r, args[q][k])'
               PROVE  FALSE
    BY DEF NewIsPrivate
  <2>1. CASE q = p
    <3>1. Wants(r, blocks[k]) /\ k \in DOMAIN blocks
      BY <1>3, <2>1 DEF Wants
    <3> QED BY <1>2, <1>3, <2>1, <3>1
  <2>2. CASE q # p /\ r # p
    BY <1>3, <2>2 DEF NewIsPrivate, Wants
  <2>3. CASE q # p /\ r = p
    <3>1. \/ \E j \in DOMAIN blocks : blocks[j] = args[q][k]
          \/ \E b \in Buffers : held[p][b] = args[q][k]
      BY <1>3, <2>3 DEF Wants
    <3>2. op[q] = "new_block" /\ k \in DOMAIN args[q]
      BY <1>3, <2>3
    <3>3. CASE \E j \in DOMAIN blocks : blocks[j] = args[q][k]
      <4>1. PICK j \in DOMAIN blocks : blocks[j] = args[q][k]
        BY <3>3
      <4>2. Wants(q, blocks[j])
        BY <3>2, <4>1 DEF Wants
      <4> QED BY <1>2, <3>2, <4>2
    <3>4. CASE \E b \in Buffers : held[p][b] = args[q][k]
      BY <2>3, <3>2, <3>4 DEF NewIsPrivate, Wants
    <3> QED BY <3>1, <3>3, <3>4
  <2> QED BY <2>1, <2>2, <2>3
<1> QED BY <1>4, <1>5, <1>6

LEMMA CallStep ==
  ASSUME TypeInv, NEW p \in Procs, UseProc(p), NewIsPrivate, NEW o \in Ops,
         \/ \E blk \in Blocks : CallOne(p, o, blk)
         \/ \E blk1, blk2 \in Blocks : CallMany(p, o, blk1, blk2)
         \/ \E dev \in Devices : CallSync(p, o, dev)
  PROVE  LocalTo(p) /\ SameRefs /\ UseProc(p)' /\ NewIsPrivate'
<1> DEFINE Kept == LocalTo(p) /\ SameRefs /\ UseProc(p)' /\ NewIsPrivate'
<1>1. ASSUME NEW blk \in Blocks, CallOne(p, o, blk)
      PROVE  Kept
  <2>1. /\ Call(p, o, <<blk>>) /\ pc' = [pc EXCEPT ![p] = "getblk"] /\ scan' = scan
    BY <1>1 DEF CallOne, Goto
  <2>2. <<blk>> \in Seq(Blocks) /\ \A j, k \in DOMAIN <<blk>> : <<blk>>[j] = <<blk>>[k] => j = k
    OBVIOUS
  <2> QED BY <2>1, <2>2, CallKeeps
<1>2. ASSUME NEW blk1 \in Blocks, NEW blk2 \in Blocks, CallMany(p, o, blk1, blk2)
      PROVE  Kept
  <2>1. /\ Call(p, o, <<blk1, blk2>>) /\ pc' = [pc EXCEPT ![p] = "getblk"] /\ scan' = scan
        /\ blk1 # blk2
    BY <1>2 DEF CallMany, Goto
  <2>2. /\ <<blk1, blk2>> \in Seq(Blocks)
        /\ \A j, k \in DOMAIN <<blk1, blk2>> : <<blk1, blk2>>[j] = <<blk1, blk2>>[k] => j = k
    BY <2>1
  <2> QED BY <2>1, <2>2, CallKeeps
<1>3. ASSUME NEW dev \in Devices, CallSync(p, o, dev)
      PROVE  Kept
  <2>1. /\ Call(p, o, << >>) /\ pc' = [pc EXCEPT ![p] = "sync"]
        /\ \A q \in Procs \ {p} : scan'[q] = scan[q]
    BY <1>3 DEF CallSync, Goto, TypeInv, TypeOK, CallTypeOK
  <2>2. << >> \in Seq(Blocks) /\ \A j, k \in DOMAIN << >> : << >>[j] = << >>[k] => j = k
    OBVIOUS
  <2> QED BY <2>1, <2>2, CallKeeps
<1> QED BY <1>1, <1>2, <1>3


-----------------------------------------------------------------------------
(* The invariant of the references, step by step.                          *)

LEMMA OthersUse ==
  ASSUME NEW p \in Procs, LocalTo(p), UseProc(p)', \A q \in Procs : UseProc(q)
  PROVE  \A q \in Procs : UseProc(q)'
<1> SUFFICES ASSUME NEW q \in Procs, q # p
             PROVE  UseProc(q)'
  OBVIOUS
<1>1. UseProc(q) /\ q \in Procs \ {p}
  OBVIOUS
<1> QED BY <1>1 DEF LocalTo, UseProc

LEMMA PrivateKept ==
  ASSUME TypeInv', NEW p \in Procs, LocalTo(p), AsksNoMore(p), NewIsPrivate
  PROVE  NewIsPrivate'
<1>1. ASSUME NEW q \in Procs, NEW blk, blk # NoBlock, Wants(q, blk)'
      PROVE  Wants(q, blk)
  <2>1. CASE q # p
    BY <1>1, <2>1 DEF LocalTo, Wants
  <2>2. CASE q = p
    <3>1. \/ \E k \in DOMAIN args'[p] : args'[p][k] = blk
          \/ \E b \in Buffers : held'[p][b] = blk
      BY <1>1, <2>2 DEF Wants
    <3>2. CASE \E k \in DOMAIN args'[p] : args'[p][k] = blk
      BY <2>2, <3>2 DEF AsksNoMore, Wants
    <3>3. CASE \E b \in Buffers : held'[p][b] = blk
      BY <1>1, <2>2, <3>3 DEF AsksNoMore
    <3> QED BY <3>1, <3>2, <3>3
  <2> QED BY <2>1, <2>2
<1>2. ASSUME NEW q \in Procs
      PROVE  /\ op'[q] = "new_block" => op[q] = "new_block"
             /\ \A k \in DOMAIN args'[q] : \E j \in DOMAIN args[q] : args'[q][k] = args[q][j]
  BY DEF LocalTo, AsksNoMore
<1> SUFFICES ASSUME NEW q \in Procs, NEW r \in Procs, op'[q] = "new_block", q # r,
                    NEW k \in DOMAIN args'[q], Wants(r, args[q][k])'
             PROVE  FALSE
  BY DEF NewIsPrivate
<1>3. PICK j \in DOMAIN args[q] : args'[q][k] = args[q][j]
  BY <1>2
<1>4. PICK blk \in Blocks : blk = args'[q][k]
  BY DEF TypeInv, TypeOK, CallTypeOK
<1>5. Wants(r, blk)'
  BY <1>4 DEF Wants
<1>6. Wants(r, blk)
  BY <1>1, <1>5, BlockFacts
<1> QED BY <1>2, <1>3, <1>4, <1>6 DEF NewIsPrivate

LEMMA SameRefsKeep ==
  ASSUME References, SameRefs
  PROVE  References'
BY DEF References, SameRefs, Holders

LEMMA UseStep ==
  ASSUME TypeInv, TypeInv', UseInv, NEW p \in Procs, Caller(p) \/ Kernel(p)
  PROVE  UseInv' /\ LocalTo(p)
<1> DEFINE Kept == UseInv' /\ LocalTo(p)
<1>1. UseProc(p) /\ References /\ NewIsPrivate /\ \A q \in Procs : UseProc(q)
  BY DEF UseInv
<1>2. ASSUME LocalTo(p), UseProc(p)', AsksNoMore(p), References'
      PROVE  Kept
  BY <1>1, <1>2, OthersUse, PrivateKept DEF UseInv
<1>3. ASSUME LocalTo(p), UseProc(p)', AsksNoMore(p), SameRefs
      PROVE  Kept
  BY <1>1, <1>2, <1>3, SameRefsKeep
<1>4. ASSUME LocalTo(p), UNCHANGED args, UNCHANGED op, SameRefs, UseProc(p)'
      PROVE  Kept
  <2>1. AsksNoMore(p)
    BY <1>4 DEF AsksNoMore, SameRefs, Wants
  <2> QED BY <1>3, <1>4, <2>1
<1>5. ASSUME LocalTo(p), SameRefs, UseProc(p)', NewIsPrivate'
      PROVE  Kept
  BY <1>1, <1>5, OthersUse, SameRefsKeep DEF UseInv
<1>6. CASE Caller(p)
  <2>1. ASSUME NEW o \in Ops, \/ \E blk \in Blocks : CallOne(p, o, blk)
                              \/ \E blk1, blk2 \in Blocks : CallMany(p, o, blk1, blk2)
                              \/ \E dev \in Devices : CallSync(p, o, dev)
        PROVE  Kept
    BY <1>1, <1>5, <2>1, CallStep
  <2>2. CASE (\E dev \in Devices : CallDiskChange(p, dev)) \/ (\E b \in Buffers : Modify(p, b))
    BY <1>1, <1>3, <2>2, EndStep
  <2> QED BY <1>6, <2>1, <2>2 DEF Caller
<1>7. CASE Kernel(p)
  <2>1. CASE GetblkVictim(p) \/ GetblkSleep(p) \/ VictimLost(p) \/ VictimSync(p) \/ SyncWait(p)
             \/ ScanWaited(p) \/ SyncWrite(p) \/ SyncAgain(p) \/ SkipRequest(p) \/ LockBuffer(p)
             \/ AddRequest(p) \/ NoSlot(p) \/ RequestSleep(p) \/ GotNew(p) \/ GotWrite(p)
             \/ Fill(p) \/ ReadFailed(p) \/ Wait(p) \/ InvalidateWait(p)
    BY <1>1, <1>4, <2>1, StillStep
  <2>2. CASE SyncEnd(p) \/ GotValid(p) \/ ReadDone(p) \/ InvalidateEnd(p)
             \/ \E b \in Buffers : CallBrelse(p, b)
    BY <1>1, <1>3, <2>2, EndStep
  <2>3. CASE GotRead(p) \/ HashWait(p)
    BY <1>1, <1>3, <2>3, GotReadStep, HashWaitStep
  <2>4. CASE DropAhead(p) \/ Brelse(p) \/ PageWait(p)
    BY <1>1, <1>2, <2>4, GiveStep
  <2>5. CASE GetblkHit(p)
    <3>1. PICK b \in Buffers :
            /\ Takes(p, b) /\ held[p][b] = NoBlock /\ bh' = [bh EXCEPT ![p] = b]
            /\ pc[p] = "getblk" /\ pc' = [pc EXCEPT ![p] = "hash_wait"]
            /\ UNCHANGED <<op, args, first, scan>>
      BY <1>1, <2>5, HitStep
    <3> QED BY <1>1, <1>2, <3>1, TakesKeeps
  <2>6. CASE VictimClaim(p)
    <3>1. PICK b \in Buffers :
            /\ Takes(p, b) /\ held[p][b] = NoBlock /\ bh[p] = b /\ bh' = bh
            /\ pc[p] = "victim_wait" /\ pc' = [pc EXCEPT ![p] = "got"]
            /\ UNCHANGED <<op, args, first, scan>>
      BY <1>1, <2>6, ClaimStep
    <3>2. bh' = [bh EXCEPT ![p] = b]
      BY <3>1 DEF TypeInv, TypeOK, CallTypeOK
    <3> QED BY <1>1, <1>2, <3>1, <3>2, TakesKeeps
  <2> QED BY <1>7, <2>1, <2>2, <2>3, <2>4, <2>5, <2>6 DEF Kernel
<1> QED BY <1>6, <1>7

LEMMA UseSame ==
  ASSUME UseInv, UNCHANGED <<pc, op, args, bh, first, scan, held, b_blk, b_count>>
  PROVE  UseInv'
<1>1. \A p \in Procs : UseProc(p)'
  BY DEF UseInv, UseProc
<1>2. NewIsPrivate'
  BY DEF UseInv, NewIsPrivate, Wants
<1>3. References'
  BY SameRefsKeep DEF UseInv, SameRefs
<1> QED BY <1>1, <1>2, <1>3 DEF UseInv

LEMMA UseInit == Init => UseInv
<1> SUFFICES ASSUME Init
             PROVE  UseInv
  OBVIOUS
<1>1. \A p \in Procs : /\ pc[p] = "user" /\ op[p] = "none" /\ args[p] = << >>
                       /\ first[p] = NoBuffer /\ \A b \in Buffers : held[p][b] = NoBlock
  BY DEF Init
<1>2. DOMAIN << >> = {}
  OBVIOUS
<1>3. \A p \in Procs : UseProc(p)
  BY <1>1, <1>2 DEF UseProc, GotLabels, ReqLabels
<1>4. NewIsPrivate
  BY <1>1 DEF NewIsPrivate
<1>5. References
  <2> SUFFICES ASSUME NEW b \in Buffers
               PROVE  b_count[b] = Cardinality(Holders(b)) /\ Holders(b) = {}
    BY DEF References
  <2>1. Holders(b) = {}
    BY <1>1 DEF Holders
  <2> QED BY <2>1, FS_EmptySet DEF Init
<1> QED BY <1>3, <1>4, <1>5 DEF UseInv

LEMMA UseNext == Inv /\ Inv' /\ UseInv /\ [Next]_vars => UseInv'
<1> SUFFICES ASSUME Inv, Inv', UseInv, [Next]_vars
             PROVE  UseInv'
  OBVIOUS
<1>1. ASSUME NEW p \in Procs, Caller(p) \/ Kernel(p)
      PROVE  UseInv'
  BY <1>1, UseStep DEF Inv
<1>2. ASSUME NEW m \in Majors, Device(m)
      PROVE  UseInv'
  BY <1>2, UseSame DEF Device, Transfer, EndRequest, bufVars, callVars
<1>3. CASE UNCHANGED vars
  BY <1>3, UseSame DEF vars, bufVars, callVars
<1> QED BY <1>1, <1>2, <1>3 DEF Next

(* What NoPanic needs of the invariants: bh[p] is held where it is given   *)
(* up, a new block has no other user, and a queued request has its buffer  *)
(* locked.                                                                 *)
LEMMA InvNoPanic ==
  ASSUME Inv, UseInv
  PROVE  NoPanic
<1>1. TypeInv /\ QueueOK /\ LockOwned /\ RequestsOK /\ References /\ NewIsPrivate
  BY DEF Inv, OwnInv, NamedOK, UseInv
<1>2. ASSUME NEW b \in Buffers, NEW p \in Procs, held[p][b] # NoBlock
      PROVE  b_count[b] > 0 /\ (Holders(b) = {p} => b_count[b] = 1)
  <2>1. IsFiniteSet(Holders(b)) /\ p \in Holders(b)
    BY <1>2, ProcsAssumption, FS_Subset DEF Holders
  <2>2. Cardinality(Holders(b)) \in Nat /\ Cardinality(Holders(b)) # 0
    BY <2>1, FS_CardinalityType, FS_EmptySet
  <2>3. b_count[b] = Cardinality(Holders(b))
    BY <1>1 DEF References
  <2>4. Cardinality({p}) = 1
    BY FS_Singleton
  <2> QED BY <2>2, <2>3, <2>4
<1>3. ASSUME NEW p \in Procs
      PROVE  /\ pc[p] = "got" /\ op[p] = "new_block" => b_count[bh[p]] = 1
             /\ pc[p] \in {"brelse", "drop", "page_wait"} => b_count[bh[p]] > 0
  <2>1. UseProc(p) /\ Control(p) /\ args[p] \in Seq(Blocks)
    BY <1>1 DEF UseInv, TypeInv, TypeOK, CallTypeOK, ControlOK
  <2>2. pc[p] \in {"brelse", "drop", "page_wait"} => b_count[bh[p]] > 0
    BY <1>2, <2>1 DEF UseProc, Control
  <2>3. ASSUME pc[p] = "got", op[p] = "new_block"
        PROVE  b_count[bh[p]] = 1
    <3>1. bh[p] \in Buffers /\ args[p] # << >> /\ held[p][bh[p]] = Head(args[p])
      BY <2>1, <2>3 DEF UseProc, Control, GotLabels
    <3>2. Head(args[p]) = args[p][1] /\ 1 \in DOMAIN args[p] /\ Head(args[p]) # NoBlock
      BY <2>1, <3>1, HeadTailProperties, LenProperties, EmptySeq, BlockFacts
    <3>3. b_blk[bh[p]] = Head(args[p])
      BY <1>1, <3>1, <3>2 DEF References, Holders
    <3>4. \A q \in Holders(bh[p]) : q = p
      <4> SUFFICES ASSUME NEW q \in Holders(bh[p]), q # p
                   PROVE  FALSE
        OBVIOUS
      <4>1. q \in Procs /\ held[q][bh[p]] = args[p][1]
        BY <1>1, <3>1, <3>2, <3>3 DEF References, Holders
      <4>2. Wants(q, args[p][1])
        BY <3>1, <4>1 DEF Wants
      <4> QED BY <1>1, <2>3, <3>2, <4>1, <4>2 DEF NewIsPrivate
    <3>5. Holders(bh[p]) = {p}
      BY <3>1, <3>2, <3>4 DEF Holders
    <3> QED BY <1>2, <3>1, <3>2, <3>5
  <2> QED BY <2>2, <2>3
<1>4. ASSUME NEW m \in Majors, queue[m] # << >>
      PROVE  /\ InFlight(Head(queue[m])) /\ b_lock[request[Head(queue[m])].bh]
             /\ MAJOR(request[Head(queue[m])].blk[1]) = m
  <2>1. queue[m] \in Seq(Slots)
    BY <1>1 DEF TypeInv, TypeOK, ReqTypeOK
  <2>2. Head(queue[m]) = queue[m][1] /\ 1 \in DOMAIN queue[m] /\ Head(queue[m]) \in Slots
    BY <1>4, <2>1, HeadTailProperties, LenProperties, EmptySeq
  <2>3. InFlight(Head(queue[m])) /\ MAJOR(request[Head(queue[m])].blk[1]) = m
    BY <1>1, <2>2 DEF QueueOK
  <2>4. request[Head(queue[m])].bh \in Buffers
    BY <1>1, <2>2, <2>3 DEF RequestsOK, InFlight
  <2>5. b_lock[request[Head(queue[m])].bh]
    BY <1>1, <2>2, <2>3, <2>4 DEF LockOwned
  <2> QED BY <2>3, <2>5
<1> QED BY <1>3, <1>4 DEF NoPanic

(* b_count is exactly the number of processes that hold the buffer, and a  *)
(* buffer keeps its block as long as one does, however getblk, bread,      *)
(* breada, bread_page and brelse of any number of processes interleave.    *)
THEOREM ReferencesHolds == Spec => []References
<1>1. UseInv => References
  BY DEF UseInv
<1> QED BY <1>1, InvInit, InvNext, UseInit, UseNext, PTL DEF Spec

(* None of the panics of this code is reached: new_block is the only user  *)
(* of its buffer, brelse frees a used one, and the driver finds the buffer *)
(* of its current request locked.                                          *)
THEOREM NoPanicHolds == Spec => []NoPanic
<1>1. Inv /\ UseInv => NoPanic
  BY InvNoPanic
<1> QED BY <1>1, InvInit, InvNext, UseInit, UseNext, PTL DEF Spec

-----------------------------------------------------------------------------
(* The data in the buffers                                                 *)

ManyOps == {"breada", "bread_page"}

(* Where a process is in getblk, or in the sync that getblk has called. *)
Getting(p) == \/ pc[p] \in {"getblk", "victim_wait", "sync", "sync_wait"}
              \/ pc[p] \in ReqLabels /\ scan[p] # NoScan

(* How far an operation has come: what is still to be got, and which of    *)
(* bh[p] and first[p] it has.                                              *)
CallProc(p) ==
  /\ op[p] \in Ops \cup {"none"}
  /\ pc[p] = "fill" => op[p] = "block_write"
  /\ Len(args[p]) <= IF op[p] \in ManyOps /\ first[p] = NoBuffer THEN 2 ELSE 1
  /\ first[p] # NoBuffer /\ op[p] \notin ManyOps => args[p] = << >>
  /\ op[p] = "none" => first[p] = NoBuffer
  /\ pc[p] = "user" => bh[p] = NoBuffer
  /\ op[p] \in SyncOps \cup {"check_disk_change"} =>
       bh[p] = NoBuffer /\ first[p] = NoBuffer /\ args[p] = << >>
  /\ pc[p] \in {"invalidate", "invalidate_wait"} =>
       scan[p].dev \in Removable /\ op[p] = "check_disk_change"
  /\ pc[p] = "read_wait" => bh[p] = first[p]
  /\ pc[p] \in ReqLabels /\ scan[p] = NoScan =>
       /\ op[p] \in ManyOps \cup {"bread"}
       /\ (op[p] = "bread" \/ args[p] # << >>) => bh[p] = first[p]
  /\ pc[p] = "brelse" => first[p] \in {NoBuffer, bh[p]}
  /\ Getting(p) /\ bh[p] # NoBuffer /\ held[p][bh[p]] # NoBlock => bh[p] = first[p]
  /\ pc[p] = "got" => current = p /\ ~b_lock[bh[p]]

(* The buffer is one of a block on a medium that cannot be changed. *)
Fixed(b) == b_blk[b] # NoBlock /\ b_blk[b][1] \notin Removable

ValidData(b) ==
  /\ b_uptodate[b] => b_cur[b]
  /\ b_dirt[b] => b_uptodate[b]
  /\ \A p \in Procs : Making(p) /\ rbh[p] = b =>
       IF rw[p] = WRITE THEN b_dirt[b] ELSE ~b_uptodate[b]
  /\ \A s \in Slots : InFlight(s) /\ request[s].bh = b =>
       IF request[s].cmd = WRITE THEN b_uptodate[b]
       ELSE ~b_uptodate[b] /\ (request[s].moved => b_cur[b])

(* What p holds is valid, but for the buffers its operation works on. *)
HeldValid(p) ==
  \A b \in Buffers : held[p][b] # NoBlock /\ Fixed(b) /\ b \notin {bh[p], first[p]} => b_uptodate[b]

(* Every buffer p stops working on is given up or valid. *)
Leaves(p) ==
  \A b \in Buffers : held'[p][b] # NoBlock /\ b \notin {bh'[p], first'[p]} =>
    held[p][b] # NoBlock /\ (b \in {bh[p], first[p]} => b_uptodate[b])

(* What the types and the control state say of the call variables of p. *)
LEMMA CallFacts ==
  ASSUME TypeInv, NEW p \in Procs
  PROVE  /\ Control(p) /\ args[p] \in Seq(Blocks) /\ Len(args[p]) \in Nat
         /\ args[p] = << >> <=> Len(args[p]) = 0
         /\ bh[p] \in Buffers \cup {NoBuffer} /\ first[p] \in Buffers \cup {NoBuffer}
         /\ p # Nobody
BY EmptySeq, LenProperties, ProcsAssumption DEF TypeInv, TypeOK, CallTypeOK, ControlOK

(* A buffer with b_count 0 has no holder. *)
LEMMA UnusedIsUnheld ==
  ASSUME References, NEW b \in Buffers, b_count[b] = 0
  PROVE  Holders(b) = {} /\ \A q \in Procs : held[q][b] = NoBlock
<1>1. IsFiniteSet(Holders(b))
  BY ProcsAssumption, FS_Subset DEF Holders
<1>2. Cardinality(Holders(b)) = 0
  BY DEF References
<1>3. Holders(b) = {}
  BY <1>1, <1>2, FS_EmptySet
<1> QED BY <1>3 DEF Holders

(* CallProc and Leaves, action by action: the steps inside an operation, *)
LEMMA CallProcStill ==
  ASSUME TypeInv, NEW p \in Procs, CallProc(p), UseProc(p), References,
         GetblkVictim(p) \/ GetblkSleep(p) \/ HashWait(p) \/ VictimLost(p) \/ VictimSync(p)
         \/ SyncWait(p) \/ ScanWaited(p) \/ SyncWrite(p) \/ SyncAgain(p) \/ SkipRequest(p)
         \/ LockBuffer(p) \/ AddRequest(p) \/ NoSlot(p) \/ RequestSleep(p) \/ GotNew(p)
         \/ GotWrite(p) \/ Fill(p) \/ ReadFailed(p) \/ Wait(p) \/ InvalidateWait(p)
  PROVE  CallProc(p)' /\ Leaves(p)
<1> USE DEF TypeInv, TypeOK, CallTypeOK, RunTypeOK, UseTypeOK, Getting, ManyOps, SyncOps,
        ReqLabels, Runs, NoBuffer, bufVars, callVars, Leaves
<1>a. Control(p) /\ p # Nobody /\ bh[p] \in Buffers \cup {NoBuffer} /\ first[p] \in Buffers \cup {NoBuffer}
  BY CallFacts
<1>1. CASE GetblkVictim(p)
  <2>1. PICK b \in Buffers : b_count[b] = 0 /\ bh' = [bh EXCEPT ![p] = b]
    BY <1>1 DEF GetblkVictim, IsVictim
  <2>2. held[p][b] = NoBlock
    BY <2>1, UnusedIsUnheld
  <2>3. /\ pc[p] = "getblk" /\ pc' = [pc EXCEPT ![p] = "victim_wait"]
        /\ UNCHANGED <<op, args, first, scan, held, b_lock>>
    BY <1>1 DEF GetblkVictim, Goto
  <2>4. bh'[p] = b /\ pc'[p] = "victim_wait"
    BY <2>1, <2>3
  <2>5. CallProc(p)'
    BY <1>a, <2>2, <2>3, <2>4 DEF CallProc, Control
  <2> QED BY <1>a, <2>3, <2>4, <2>5, BlockFacts DEF CallProc
<1>2. CASE GetblkSleep(p)
  BY <1>a, <1>2 DEF CallProc, UseProc, GotLabels, Control, GetblkSleep, SleepOn
<1>3. CASE HashWait(p)
  BY <1>a, <1>3 DEF CallProc, UseProc, GotLabels, Control, HashWait, Goto, MustWait
<1>4. CASE VictimLost(p)
  BY <1>a, <1>4 DEF CallProc, UseProc, GotLabels, Control, VictimLost, Goto
<1>5. CASE VictimSync(p)
  BY <1>a, <1>5 DEF CallProc, UseProc, GotLabels, Control, VictimSync, Goto, NoScan
<1>6. CASE SyncWait(p)
  BY <1>a, <1>6 DEF CallProc, UseProc, GotLabels, Control, SyncWait, Goto, At, Pending, NoScan
<1>7. CASE ScanWaited(p)
  BY <1>a, <1>7 DEF CallProc, UseProc, GotLabels, Control, ScanWaited, Goto
<1>8. CASE SyncWrite(p)
  <2>1. PICK b \in Pending(p) : /\ scan' = [scan EXCEPT ![p] = At(p, b + 1, scan[p].pass)]
                                 /\ CallRW(p, WRITE, b)
    BY <1>8 DEF SyncWrite
  <2>2. b + 1 # 0
    BY BlockFacts DEF Pending
  <2>3. scan'[p] # NoScan
    BY <2>1, <2>2 DEF At, NoScan
  <2>4. /\ pc[p] = "sync" /\ pc'[p] = "lock"
        /\ UNCHANGED <<op, args, bh, first, held, b_lock>>
    BY <1>8, <2>1 DEF SyncWrite, CallRW, Goto
  <2>5. CallProc(p)'
    BY <1>a, <2>3, <2>4 DEF CallProc
  <2> QED BY <2>4, <2>5
<1>9. CASE SyncAgain(p)
  BY <1>a, <1>9 DEF CallProc, UseProc, GotLabels, Control, SyncAgain, Goto, At, NoScan
<1>10. CASE SkipRequest(p)
  BY <1>a, <1>10 DEF CallProc, UseProc, GotLabels, Control, SkipRequest, ReturnRW, AfterRW, Goto
<1>11. CASE LockBuffer(p)
  BY <1>a, <1>11 DEF CallProc, UseProc, GotLabels, Control, LockBuffer, Goto
<1>12. CASE AddRequest(p)
  BY <1>a, <1>12 DEF CallProc, UseProc, GotLabels, Control, AddRequest, ReturnRW, AfterRW, Goto
<1>13. CASE NoSlot(p)
  BY <1>a, <1>13 DEF CallProc, UseProc, GotLabels, Control, NoSlot, ReturnRW, AfterRW, Goto
<1>14. CASE RequestSleep(p)
  BY <1>a, <1>14 DEF CallProc, UseProc, GotLabels, Control, RequestSleep, SleepOn
<1>15. CASE GotNew(p)
  BY <1>a, <1>15 DEF CallProc, UseProc, GotLabels, Control, GotNew, Goto
<1>16. CASE GotWrite(p)
  BY <1>a, <1>16 DEF CallProc, UseProc, GotLabels, Control, GotWrite, MayBlock
<1>17. CASE Fill(p)
  BY <1>a, <1>17 DEF CallProc, UseProc, GotLabels, Control, Fill, Goto
<1>18. CASE ReadFailed(p)
  BY <1>a, <1>18 DEF CallProc, UseProc, GotLabels, Control, ReadFailed, Goto
<1>19. CASE Wait(p)
  <2>1. pc[p] # "got" /\ pc' = pc /\ UNCHANGED <<op, args, bh, first, scan, held, b_lock>>
    BY <1>19 DEF Wait, SleepOn, WaitTarget
  <2>2. CallProc(p)'
    BY <2>1 DEF CallProc
  <2> QED BY <2>1, <2>2
<1>20. CASE InvalidateWait(p)
  BY <1>a, <1>20 DEF CallProc, UseProc, GotLabels, Control, InvalidateWait, Invalidated, Goto, Blocking, At, NoScan
<1> QED BY <1>1, <1>2, <1>3, <1>4, <1>5, <1>6, <1>7, <1>8, <1>9, <1>10, <1>11, <1>12, <1>13, <1>14, <1>15, <1>16, <1>17, <1>18, <1>19, <1>20

(* p is back in user mode. *)
LEMMA CallProcReturn ==
  ASSUME TypeInv, NEW p \in Procs, Return(p)
  PROVE  CallProc(p)' /\ bh'[p] = NoBuffer /\ first'[p] = NoBuffer
<1>1. /\ pc'[p] = "user" /\ op'[p] = "none" /\ args'[p] = << >> /\ bh'[p] = NoBuffer
      /\ first'[p] = NoBuffer
  BY DEF Return, TypeInv, TypeOK, CallTypeOK, RunTypeOK
<1>2. Len(<< >>) = 0
  OBVIOUS
<1> QED BY <1>1, <1>2 DEF CallProc, Getting, ManyOps, SyncOps, ReqLabels

(* ... its last step, the releases and the callers' own steps, ... *)
LEMMA CallProcEnd ==
  ASSUME TypeInv, NEW p \in Procs, CallProc(p), UseProc(p),
         \/ SyncEnd(p) \/ GotValid(p) \/ ReadDone(p) \/ InvalidateEnd(p) \/ DropAhead(p)
         \/ Brelse(p) \/ PageWait(p)
         \/ (\E b \in Buffers : Modify(p, b) \/ CallBrelse(p, b))
         \/ (\E dev \in Devices : CallDiskChange(p, dev))
  PROVE  CallProc(p)' /\ Leaves(p)
<1> USE DEF TypeInv, TypeOK, CallTypeOK, RunTypeOK, UseTypeOK, Getting, ManyOps, SyncOps,
        ReqLabels, Runs, NoBuffer, bufVars, callVars
<1>a. /\ Control(p) /\ p # Nobody /\ bh[p] \in Buffers \cup {NoBuffer}
      /\ first[p] \in Buffers \cup {NoBuffer} /\ args[p] = << >> <=> Len(args[p]) = 0
  BY CallFacts
<1>1. CASE SyncEnd(p) /\ op[p] \notin SyncOps
  BY <1>a, <1>1, BlockFacts DEF CallProc, Leaves, UseProc, Control, SyncEnd, Goto
<1>2. ASSUME Return(p), \A b \in Buffers : held'[p][b] \in {held[p][b], NoBlock},
             \A b \in Buffers \cap {bh[p], first[p]} : b_uptodate[b] \/ held'[p][b] = NoBlock
      PROVE  CallProc(p)' /\ Leaves(p)
  BY <1>2, CallProcReturn, BlockFacts DEF Leaves
<1>3. CASE SyncEnd(p) /\ op[p] \in SyncOps
  <2>1. Return(p) /\ UNCHANGED held
    BY <1>3 DEF SyncEnd
  <2> QED BY <1>2, <1>3, <2>1, BlockFacts DEF CallProc
<1>4. CASE GotValid(p)
  <2>1. Return(p) /\ UNCHANGED held /\ b_uptodate[bh[p]] /\ pc[p] = "got" /\ op[p] = "bread"
    BY <1>4 DEF GotValid
  <2>2. first[p] = NoBuffer
    BY <1>a, <2>1 DEF Control, CallProc
  <2> QED BY <1>2, <2>1, <2>2, BlockFacts
<1>5. CASE ReadDone(p)
  <2>1. Return(p) /\ UNCHANGED held /\ b_uptodate[first[p]] /\ pc[p] = "read_wait"
    BY <1>5 DEF ReadDone
  <2> QED BY <1>2, <2>1 DEF CallProc
<1>6. CASE InvalidateEnd(p)
  <2>1. Return(p) /\ UNCHANGED held /\ pc[p] = "invalidate"
    BY <1>6 DEF InvalidateEnd, Invalidated
  <2> QED BY <1>2, <2>1, BlockFacts DEF CallProc
<1>b. ASSUME NEW b \in Buffers, held' = [held EXCEPT ![p][b] = NoBlock]
      PROVE  held'[p][b] = NoBlock /\ \A c \in Buffers \ {b} : held'[p][c] = held[p][c]
  BY <1>b
<1>7. CASE DropAhead(p)
  <2>1. /\ pc[p] = "drop" /\ held' = [held EXCEPT ![p][bh[p]] = NoBlock]
        /\ bh' = [bh EXCEPT ![p] = first[p]] /\ UNCHANGED <<op, args, first, scan>>
        /\ pc' = [pc EXCEPT ![p] = IF args[p] # << >> THEN "getblk" ELSE "read_wait"]
    BY <1>7 DEF DropAhead, Goto
  <2>2. /\ bh[p] \in Buffers /\ held'[p][bh[p]] = NoBlock
        /\ \A c \in Buffers \ {bh[p]} : held'[p][c] = held[p][c]
    BY <1>a, <1>b, <2>1 DEF Control
  <2>3. bh'[p] = first[p] /\ pc'[p] \in {"getblk", "read_wait"} /\ first'[p] = first[p]
    BY <2>1
  <2>4. Leaves(p)
    BY <2>2, <2>3 DEF Leaves
  <2>5. first[p] \in Buffers
    BY <1>a, <2>1 DEF Control
  <2> QED BY <1>a, <2>1, <2>3, <2>4, <2>5, BlockFacts DEF CallProc
<1>8. CASE Brelse(p)
  <2>1. Return(p) /\ pc[p] = "brelse" /\ held' = [held EXCEPT ![p][bh[p]] = NoBlock]
    BY <1>8 DEF Brelse, Release
  <2>2. bh[p] \in Buffers
    BY <1>a, <2>1 DEF Control
  <2>3. held'[p][bh[p]] = NoBlock /\ \A c \in Buffers \ {bh[p]} : held'[p][c] = held[p][c]
    BY <1>b, <2>1, <2>2
  <2> QED BY <1>2, <2>1, <2>3, BlockFacts DEF CallProc
<1>9. CASE PageWait(p)
  <2> DEFINE b == PageBuffer(p)
  <2>1. pc[p] = "page_wait" /\ held' = [held EXCEPT ![p][b] = NoBlock] /\ UNCHANGED scan
    BY <1>9 DEF PageWait, Release
  <2>2. b \in Buffers /\ bh[p] \in Buffers /\ (b = bh[p] => first[p] \in {NoBuffer, bh[p]})
        /\ b \in {first[p], bh[p]}
    BY <1>a, <2>1 DEF Control, PageBuffer
  <2>3. CASE b = bh[p]
    <3>1. Return(p)
      BY <1>9, <2>3 DEF PageWait
    <3>2. held'[p][b] = NoBlock /\ \A c \in Buffers \ {b} : held'[p][c] = held[p][c]
      BY <1>b, <2>1, <2>2
    <3> HIDE DEF b
    <3> QED BY <1>2, <2>2, <2>3, <3>1, <3>2, BlockFacts
  <2>4. CASE b # bh[p]
    <3>1. /\ first' = [first EXCEPT ![p] = NoBuffer] /\ pc' = [pc EXCEPT ![p] = "page_wait"]
          /\ UNCHANGED <<op, args, bh>>
      BY <1>9, <2>4 DEF PageWait, Goto
    <3>2. held'[p][b] = NoBlock /\ \A c \in Buffers \ {b} : held'[p][c] = held[p][c]
      BY <1>b, <2>1, <2>2
    <3>3. first'[p] = NoBuffer /\ pc'[p] = "page_wait" /\ b = first[p]
      BY <2>2, <2>4, <3>1
    <3> HIDE DEF b
    <3>4. Leaves(p)
      BY <2>2, <3>1, <3>2, <3>3 DEF Leaves
    <3>5. CallProc(p)'
      BY <1>a, <2>1, <3>1, <3>3 DEF CallProc
    <3> QED BY <3>4, <3>5
  <2> QED BY <2>3, <2>4
<1>10. ASSUME NEW b \in Buffers, Modify(p, b)
       PROVE  CallProc(p)' /\ Leaves(p)
  BY <1>10 DEF Modify, CallProc, Leaves
<1>11. ASSUME NEW b \in Buffers, CallBrelse(p, b)
       PROVE  CallProc(p)' /\ Leaves(p)
  BY <1>a, <1>11, BlockFacts DEF CallBrelse, Goto, CallProc, Leaves, UseProc
<1>12. ASSUME NEW dev \in Devices, CallDiskChange(p, dev)
       PROVE  CallProc(p)' /\ Leaves(p)
  BY <1>a, <1>12 DEF CallDiskChange, Goto, CallProc, Leaves, UseProc
<1> QED BY <1>1, <1>3, <1>4, <1>5, <1>6, <1>7, <1>8, <1>9, <1>10, <1>11, <1>12

(* ... the two ends of getblk, ... *)
LEMMA CallProcTake ==
  ASSUME TypeInv, NEW p \in Procs, CallProc(p), UseProc(p), References,
         GetblkHit(p) \/ VictimClaim(p)
  PROVE  CallProc(p)' /\ Leaves(p)
<1>a. /\ Control(p) /\ p # Nobody /\ bh[p] \in Buffers \cup {NoBuffer}
      /\ first[p] \in Buffers \cup {NoBuffer} /\ args[p] = << >> <=> Len(args[p]) = 0
  BY CallFacts
<1>1. PICK b \in Buffers :
        /\ held' = [held EXCEPT ![p][b] = Head(args[p])] /\ bh' = [bh EXCEPT ![p] = b]
        /\ pc[p] \in {"getblk", "victim_wait"} /\ pc'[p] \in {"hash_wait", "got"}
        /\ UNCHANGED <<op, args, first, scan>>
        /\ pc'[p] = "got" => current' = p /\ ~b_lock'[b]
  <2>1. CASE GetblkHit(p)
    <3>1. PICK b \in Buffers : /\ Takes(p, b) /\ bh' = [bh EXCEPT ![p] = b]
                               /\ pc[p] = "getblk" /\ pc' = [pc EXCEPT ![p] = "hash_wait"]
                               /\ UNCHANGED <<op, args, first, scan>>
      BY <2>1, HitStep
    <3> QED BY <3>1 DEF Takes, TypeInv, TypeOK, RunTypeOK
  <2>2. CASE VictimClaim(p)
    <3>1. PICK b \in Buffers : /\ Takes(p, b) /\ bh[p] = b /\ bh' = bh
                               /\ pc[p] = "victim_wait" /\ pc' = [pc EXCEPT ![p] = "got"]
                               /\ UNCHANGED <<op, args, first, scan>>
      BY <2>2, ClaimStep
    <3>2. bh' = [bh EXCEPT ![p] = b]
      BY <3>1 DEF TypeInv, TypeOK, CallTypeOK
    <3>3. current' = p /\ ~b_lock'[b]
      BY <2>2, <3>1 DEF VictimClaim, Claim, TakeOver, Goto, MustWait
    <3> QED BY <3>1, <3>2, <3>3 DEF Takes, TypeInv, TypeOK, RunTypeOK
  <2> QED BY <2>1, <2>2
<1>2. bh'[p] = b /\ first'[p] = first[p] /\ \A c \in Buffers \ {b} : held'[p][c] = held[p][c]
  BY <1>1 DEF TypeInv, TypeOK, CallTypeOK, UseTypeOK
<1>3. Leaves(p)
  BY <1>1, <1>2, BlockFacts DEF Leaves, CallProc, Getting
<1>4. op[p] \notin SyncOps \cup {"check_disk_change"}
  BY <1>a, <1>1 DEF Control, CallProc
<1>5. CallProc(p)'
  BY <1>1, <1>2, <1>4 DEF CallProc, Getting, ReqLabels, ManyOps
<1> QED BY <1>3, <1>5

(* ... the choice of what to read, where first[p] is set, ... *)
LEMMA CallProcRead ==
  ASSUME TypeInv, NEW p \in Procs, CallProc(p), UseProc(p), GotRead(p)
  PROVE  CallProc(p)' /\ Leaves(p)
<1> DEFINE b == bh[p]
           lead == IF first[p] = NoBuffer THEN b ELSE first[p]
<1>a. /\ Control(p) /\ args[p] \in Seq(Blocks) /\ Len(args[p]) \in Nat
      /\ args[p] = << >> <=> Len(args[p]) = 0
  BY CallFacts
<1>1. /\ pc[p] = "got" /\ op[p] \in ManyOps \cup {"bread"} /\ b \in Buffers /\ scan[p] = NoScan
      /\ args[p] # << >>
  BY <1>a DEF GotRead, Runs, ManyOps, Control, ReqLabels
<1>2. /\ first' = [first EXCEPT ![p] = lead] /\ args' = [args EXCEPT ![p] = Tail(args[p])]
      /\ UNCHANGED <<held, op, bh, scan>>
  BY DEF GotRead, bufVars
<1>3. \/ pc' = [pc EXCEPT ![p] = "lock"]
      \/ pc' = [pc EXCEPT ![p] = AfterRW(p, lead, Tail(args[p]))]
  BY DEF GotRead, CallRW, Goto
<1>4. first'[p] = lead /\ args'[p] = Tail(args[p]) /\ held'[p] = held[p] /\ bh'[p] = b
  BY <1>2 DEF TypeInv, TypeOK, CallTypeOK
<1>5. Tail(args[p]) \in Seq(Blocks) /\ Len(Tail(args[p])) = Len(args[p]) - 1
  BY <1>a, <1>1, HeadTailProperties
<1>b. Len(args[p]) <= (IF op[p] \in ManyOps /\ first[p] = NoBuffer THEN 2 ELSE 1)
  BY DEF CallProc
<1>c. op[p] = "bread" => first[p] = NoBuffer
  BY <1>1 DEF CallProc, ManyOps
<1>d. Tail(args[p]) = << >> <=> Len(Tail(args[p])) = 0
  BY <1>5, EmptySeq
<1>e. (first[p] # NoBuffer \/ op[p] = "bread") => Tail(args[p]) = << >>
  BY <1>a, <1>b, <1>1, <1>5, <1>d DEF ManyOps
<1>6. /\ Len(args'[p]) <= 1 /\ (args'[p] = << >> <=> Len(args'[p]) = 0)
      /\ (first[p] # NoBuffer \/ op[p] = "bread") => args'[p] = << >>
      /\ op[p] = "bread" => first[p] = NoBuffer
  <2>1. Len(Tail(args[p])) <= 1
    BY <1>a, <1>b, <1>5
  <2> QED BY <1>4, <1>c, <1>d, <1>e, <2>1
<1>7. /\ pc'[p] \in {"lock", "drop", "getblk", "page_wait", "read_wait"}
      /\ pc'[p] = "read_wait" => b = lead
  <2>1. first[p] # NoBuffer => op[p] \in ManyOps
    BY <1>1, <1>c
  <2>2. /\ AfterRW(p, lead, Tail(args[p])) \in {"drop", "getblk", "page_wait", "read_wait"}
        /\ AfterRW(p, lead, Tail(args[p])) = "read_wait" => b = lead
    BY <1>1, <2>1 DEF AfterRW, ManyOps
  <2> QED BY <1>3, <2>2 DEF TypeInv, TypeOK, RunTypeOK
<1>8. (op[p] = "bread" \/ args'[p] # << >>) => b = lead
  BY <1>6
<1>9. lead # NoBuffer
  BY <1>1, BlockFacts
<1>10. Leaves(p)
  BY <1>4, BlockFacts DEF Leaves
<1> HIDE DEF b, lead
<1>11. CallProc(p)'
  <2>1. pc'[p] = "getblk" => args'[p] # << >>
    BY <1>3, <1>1, <1>4 DEF AfterRW, TypeInv, TypeOK, RunTypeOK
  <2>2. op'[p] = op[p] /\ scan'[p] = scan[p]
    BY <1>2
  <2> QED BY <1>1, <1>4, <1>6, <1>7, <1>8, <1>9, <2>1, <2>2
          DEF CallProc, Getting, ReqLabels, ManyOps, SyncOps
<1> QED BY <1>10, <1>11

(* ... and the start of an operation. *)
LEMMA CallProcCall ==
  ASSUME TypeInv, NEW p \in Procs, CallProc(p), UseProc(p), NEW o \in Ops,
         \/ \E blk \in Blocks : CallOne(p, o, blk)
         \/ \E blk1, blk2 \in Blocks : CallMany(p, o, blk1, blk2)
         \/ \E dev \in Devices : CallSync(p, o, dev)
  PROVE  CallProc(p)' /\ Leaves(p)
<1> DEFINE Kept == CallProc(p)' /\ Leaves(p)
           Few(blocks) == /\ Len(blocks) <= IF o \in ManyOps THEN 2 ELSE 1
                          /\ o \in SyncOps \cup {"check_disk_change"} => blocks = << >>
<1>1. ASSUME NEW blocks \in Seq(Blocks), Call(p, o, blocks), NEW l \in {"getblk", "sync"},
             pc' = [pc EXCEPT ![p] = l], Few(blocks)
      PROVE  Kept
  <2>1. pc[p] = "user" /\ op' = [op EXCEPT ![p] = o] /\ args' = [args EXCEPT ![p] = blocks]
        /\ UNCHANGED <<held, bh, first>>
    BY <1>1 DEF Call, Runs
  <2>2. pc'[p] = l /\ op'[p] = o /\ args'[p] = blocks /\ bh'[p] = NoBuffer /\ first'[p] = NoBuffer
    BY <1>1, <2>1 DEF CallProc, UseProc, TypeInv, TypeOK, CallTypeOK, RunTypeOK
  <2>3. o \in AllOps /\ o # "none"
    BY OpsAssumption DEF AllOps
  <2>4. Leaves(p)
    BY <2>1 DEF Leaves
  <2>5. CallProc(p)'
    BY <1>1, <2>2, <2>3 DEF CallProc, Getting, ReqLabels, ManyOps, SyncOps
  <2> QED BY <2>4, <2>5
<1> HIDE DEF Kept
<1>2. ASSUME NEW blk \in Blocks, CallOne(p, o, blk)
      PROVE  Kept
  <2>1. /\ Call(p, o, <<blk>>) /\ pc' = [pc EXCEPT ![p] = "getblk"]
        /\ o \notin SyncOps \cup ManyOps \cup {"check_disk_change"}
    BY <1>2 DEF CallOne, Goto, SyncOps, ManyOps
  <2>2. <<blk>> \in Seq(Blocks) /\ Len(<<blk>>) = 1
    OBVIOUS
  <2>3. Few(<<blk>>)
    BY <2>1, <2>2
  <2> HIDE DEF Few
  <2> QED BY <1>1, <2>1, <2>2, <2>3
<1>3. ASSUME NEW blk1 \in Blocks, NEW blk2 \in Blocks, CallMany(p, o, blk1, blk2)
      PROVE  Kept
  <2>1. /\ Call(p, o, <<blk1, blk2>>) /\ pc' = [pc EXCEPT ![p] = "getblk"]
        /\ o \notin SyncOps \cup {"check_disk_change"} /\ o \in ManyOps
    BY <1>3 DEF CallMany, Goto, SyncOps, ManyOps
  <2>2. <<blk1, blk2>> \in Seq(Blocks) /\ Len(<<blk1, blk2>>) = 2
    OBVIOUS
  <2>3. Few(<<blk1, blk2>>)
    BY <2>1, <2>2
  <2> HIDE DEF Few
  <2> QED BY <1>1, <2>1, <2>2, <2>3
<1>4. ASSUME NEW dev \in Devices, CallSync(p, o, dev)
      PROVE  Kept
  <2>1. Call(p, o, << >>) /\ pc' = [pc EXCEPT ![p] = "sync"]
    BY <1>4 DEF CallSync, Goto
  <2>2. << >> \in Seq(Blocks) /\ Len(<< >>) = 0
    OBVIOUS
  <2>3. Few(<< >>)
    BY <2>2
  <2> HIDE DEF Few
  <2> QED BY <1>1, <2>1, <2>2, <2>3
<1> QED BY <1>2, <1>3, <1>4 DEF Kept

(* Every step of a process, for the process itself ... *)
LEMMA CallProcStep ==
  ASSUME TypeInv, NEW p \in Procs, CallProc(p), UseProc(p), References, Caller(p) \/ Kernel(p)
  PROVE  CallProc(p)' /\ Leaves(p)
<1>1. CASE Caller(p)
  <2>1. ASSUME NEW o \in Ops, \/ \E blk \in Blocks : CallOne(p, o, blk)
                              \/ \E blk1, blk2 \in Blocks : CallMany(p, o, blk1, blk2)
                              \/ \E dev \in Devices : CallSync(p, o, dev)
        PROVE  CallProc(p)' /\ Leaves(p)
    BY <2>1, CallProcCall
  <2>2. CASE (\E dev \in Devices : CallDiskChange(p, dev)) \/ (\E b \in Buffers : Modify(p, b))
    BY <2>2, CallProcEnd
  <2> QED BY <1>1, <2>1, <2>2 DEF Caller
<1>2. CASE Kernel(p)
  <2>1. CASE GetblkVictim(p) \/ GetblkSleep(p) \/ HashWait(p) \/ VictimLost(p) \/ VictimSync(p)
             \/ SyncWait(p) \/ ScanWaited(p) \/ SyncWrite(p) \/ SyncAgain(p) \/ SkipRequest(p)
             \/ LockBuffer(p) \/ AddRequest(p) \/ NoSlot(p) \/ RequestSleep(p) \/ GotNew(p)
             \/ GotWrite(p) \/ Fill(p) \/ ReadFailed(p) \/ Wait(p) \/ InvalidateWait(p)
    BY <2>1, CallProcStill
  <2>2. CASE SyncEnd(p) \/ GotValid(p) \/ ReadDone(p) \/ InvalidateEnd(p) \/ DropAhead(p)
             \/ Brelse(p) \/ PageWait(p) \/ \E b \in Buffers : CallBrelse(p, b)
    BY <2>2, CallProcEnd
  <2>3. CASE GetblkHit(p) \/ VictimClaim(p)
    BY <2>3, CallProcTake
  <2>4. CASE GotRead(p)
    BY <2>4, CallProcRead
  <2> QED BY <1>2, <2>1, <2>2, <2>3, <2>4 DEF Kernel
<1> QED BY <1>1, <1>2

(* A process moves only when no other has the processor. *)
LEMMA RunsAlone ==
  ASSUME NEW p \in Procs, Caller(p) \/ Kernel(p)
  PROVE  current \in {p, Nobody}
<1>1. CASE Caller(p)
  BY <1>1, Zenon DEF Caller, CallOne, CallMany, CallSync, Call, CallDiskChange, Modify, Runs
<1>2. CASE Kernel(p)
  BY <1>2, Zenon DEF Kernel, CallBrelse, GetblkHit, GetblkVictim, GetblkSleep, HashWait, VictimLost,
     VictimSync, VictimClaim, SyncWait, ScanWaited, SyncWrite, SyncAgain, SyncEnd, SkipRequest,
     LockBuffer, AddRequest, NoSlot, RequestSleep, GotValid, GotRead, DropAhead, GotNew, GotWrite,
     Fill, ReadDone, ReadFailed, Brelse, PageWait, Wait, InvalidateWait, InvalidateEnd,
     Invalidated, Runs
<1> QED BY <1>1, <1>2

(* ... and for the others, none of which is between getblk and the use of  *)
(* its buffer.                                                             *)
LEMMA OthersCall ==
  ASSUME TypeInv, NEW p \in Procs, LocalTo(p), CallProc(p)', \A q \in Procs : CallProc(q),
         Caller(p) \/ Kernel(p)
  PROVE  \A q \in Procs : CallProc(q)'
<1> SUFFICES ASSUME NEW q \in Procs, q # p
             PROVE  CallProc(q)'
  OBVIOUS
<1>1. CallProc(q) /\ q \in Procs \ {p} /\ q # Nobody
  BY ProcsAssumption
<1>2. pc[q] # "got"
  BY <1>1, RunsAlone DEF CallProc
<1> QED BY <1>1, <1>2 DEF LocalTo, CallProc, Getting

-----------------------------------------------------------------------------
(* What the buffers of fixed media contain.                                *)

BuffersValid == \A b \in Buffers : Fixed(b) => ValidData(b)

DataInv == /\ \A p \in Procs : CallProc(p) /\ HeldValid(p)
           /\ BuffersValid /\ NoLostWrite

(* A buffer in use stays its block's, and valid. *)
HeldKept ==
  \A b \in Buffers : (\E q \in Procs : held[q][b] # NoBlock) =>
    /\ b_blk'[b] = b_blk[b]
    /\ Fixed(b) /\ b_uptodate[b] => b_uptodate'[b]

(* A step that changes nothing on fixed media and starts no request. *)
DataSame ==
  /\ UNCHANGED <<b_blk, request>>
  /\ \A b \in Buffers : Fixed(b) => /\ b_dirt'[b] = b_dirt[b] /\ b_uptodate'[b] = b_uptodate[b]
                                    /\ b_cur'[b] = b_cur[b]
  /\ \A blk \in Blocks : blk[1] \notin Removable => disk_cur'[blk] = disk_cur[blk]
  /\ \A q \in Procs : Making(q)' => Making(q) /\ rbh'[q] = rbh[q] /\ rw'[q] = rw[q]

DataKept == BuffersValid' /\ NoLostWrite' /\ HeldKept

(* Fixed, in terms of the block of the buffer. *)
LEMMA FixedFacts ==
  ASSUME TypeInv, NEW b \in Buffers
  PROVE  /\ Fixed(b) => b_blk[b] \in Blocks /\ b_blk[b][1] \notin Removable
         /\ b_blk[b] \in Blocks /\ b_blk[b][1] \notin Removable => Fixed(b)
BY BlockFacts DEF Fixed, TypeInv, TypeOK, BufTypeOK

(* Such a step keeps the data invariants. *)
LEMMA SameKeeps ==
  ASSUME TypeInv, BuffersValid, NoLostWrite, DataSame
  PROVE  DataKept
<1>1. HeldKept
  BY DEF DataSame, HeldKept
<1>2. BuffersValid'
  <2> SUFFICES ASSUME NEW b \in Buffers, Fixed(b)' PROVE ValidData(b)'
    BY DEF BuffersValid
  <2>1. Fixed(b) /\ ValidData(b)
    BY DEF DataSame, Fixed, BuffersValid
  <2> QED BY <2>1 DEF DataSame, ValidData, InFlight
<1>3. NoLostWrite'
  <2> SUFFICES ASSUME NEW blk \in Blocks, blk[1] \notin Removable, ~disk_cur'[blk]
               PROVE  \E b \in Buffers :
                        /\ b_blk'[b] = blk /\ b_cur'[b]
                        /\ \/ b_dirt'[b]
                           \/ \E s \in Slots : /\ request'[s].cmd = WRITE /\ request'[s].bh = b
                                               /\ ~request'[s].moved
    BY DEF NoLostWrite, Cached
  <2>1. ~disk_cur[blk]
    BY DEF DataSame
  <2>2. PICK b \in Buffers :
          /\ b_blk[b] = blk /\ b_cur[b]
          /\ \/ b_dirt[b]
             \/ \E s \in Slots : /\ request[s].cmd = WRITE /\ request[s].bh = b
                                 /\ ~request[s].moved
    BY <2>1 DEF NoLostWrite, Cached
  <2>3. Fixed(b)
    BY <2>2, FixedFacts
  <2> QED BY <2>2, <2>3 DEF DataSame
<1> QED BY <1>1, <1>2, <1>3 DEF DataKept

(* What is on fixed media and still to be written, for one block. *)
Safe(blk) ==
  \E b \in Buffers : /\ b_blk[b] = blk /\ b_cur[b]
                     /\ \/ b_dirt[b]
                        \/ \E s \in Slots : /\ request[s].cmd = WRITE /\ request[s].bh = b
                                            /\ ~request[s].moved

(* NoLostWrite, block by block, *)
LEMMA NoLostWriteSafe ==
  NoLostWrite <=> \A blk \in Blocks : blk[1] \notin Removable => disk_cur[blk] \/ Safe(blk)
BY DEF NoLostWrite, Safe, Cached

(* and in the next state. *)
LEMMA NoLostWriteSafeNext ==
  NoLostWrite' <=> \A blk \in Blocks : blk[1] \notin Removable => disk_cur'[blk] \/ Safe(blk)'
BY DEF NoLostWrite, Safe, Cached

(* The steps of a process that change data on fixed media or start and end *)
(* the making of a request.                                                *)
LEMMA DataSteps ==
  ASSUME TypeInv, NEW p \in Procs, CallProc(p), Caller(p) \/ Kernel(p)
  PROVE  \/ VictimClaim(p) \/ LockBuffer(p) \/ AddRequest(p) \/ GotNew(p) \/ Fill(p)
         \/ (\E b \in Buffers : Modify(p, b))
         \/ DataSame
<1>1. CASE NoSlot(p)
  <2>1. /\ UNCHANGED <<b_blk, b_dirt, b_uptodate, b_cur, disk_cur, request>>
        /\ pc[p] = "find_req"
    BY <1>1 DEF NoSlot, reqVars, dataVars, Runs
  <2>2. \A q \in Procs \ {p} : pc'[q] = pc[q] /\ rbh'[q] = rbh[q] /\ rw'[q] = rw[q]
    BY <1>1 DEF NoSlot, ReturnRW, Goto, TypeInv, TypeOK, RunTypeOK, CallTypeOK
  <2>3. pc'[p] \in {"find_req", "req_sleep"} => rbh' = rbh /\ rw' = rw
    BY <1>1 DEF NoSlot, ReturnRW, AfterRW, Goto, TypeInv, TypeOK, RunTypeOK
  <2>4. \A q \in Procs : Making(q)' => Making(q) /\ rbh'[q] = rbh[q] /\ rw'[q] = rw[q]
    BY <2>1, <2>2, <2>3 DEF Making
  <2> QED BY <2>1, <2>4 DEF DataSame
<1>2. ASSUME NEW dev \in Devices, CallDiskChange(p, dev) PROVE DataSame
  <2>1. /\ UNCHANGED <<b_blk, b_dirt, b_uptodate, request, rbh, rw>> /\ dev \in Removable
        /\ pc' = [pc EXCEPT ![p] = "invalidate"]
        /\ disk_cur' = [blk \in Blocks |-> disk_cur[blk] \/ blk[1] = dev]
        /\ b_cur' = [b \in Buffers |-> b_cur[b] /\ b_blk[b][1] # dev]
    BY <1>2 DEF CallDiskChange, bufVars, reqVars, Goto
  <2>2. \A q \in Procs : Making(q)' => Making(q)
    BY <2>1 DEF Making, TypeInv, TypeOK, RunTypeOK
  <2>3. \A b \in Buffers : Fixed(b) => b_cur'[b] = b_cur[b]
    BY <2>1 DEF Fixed, TypeInv, TypeOK, DataTypeOK
  <2>4. \A blk \in Blocks : blk[1] \notin Removable => disk_cur'[blk] = disk_cur[blk]
    BY <2>1 DEF TypeInv, TypeOK, DataTypeOK
  <2> QED BY <2>1, <2>2, <2>3, <2>4 DEF DataSame
<1>3. CASE InvalidateWait(p) \/ InvalidateEnd(p)
  <2>1. /\ UNCHANGED <<b_blk, request, b_cur, disk_cur, rbh, rw>> /\ pc[p] = "invalidate"
        /\ b_uptodate' = [b \in Buffers |-> b_uptodate[b] /\ b \notin Reached(p)]
        /\ b_dirt' = [b \in Buffers |-> b_dirt[b] /\ b \notin Reached(p)]
    BY <1>3 DEF InvalidateWait, InvalidateEnd, Invalidated, reqVars, dataVars, Runs
  <2>2. \A q \in Procs : Making(q)' => Making(q)
    BY <1>3 DEF InvalidateWait, InvalidateEnd, Goto, Return, Making, TypeInv, TypeOK, RunTypeOK
  <2>3. scan[p].dev \in Removable /\ scan[p].dev # AllDevs
    <3>1. \A dev \in Devices : dev # 0
      BY BlocksAssumption DEF Devices
    <3> QED BY <2>1, <3>1, OpsAssumption DEF CallProc, AllDevs
  <2>4. \A b \in Buffers : Fixed(b) => b \notin Reached(p)
    BY <2>3 DEF Fixed, Reached, InScan
  <2>5. \A b \in Buffers : Fixed(b) => b_uptodate'[b] = b_uptodate[b] /\ b_dirt'[b] = b_dirt[b]
    BY <2>1, <2>4 DEF TypeInv, TypeOK, BufTypeOK
  <2> QED BY <2>1, <2>2, <2>5 DEF DataSame
<1>4. ASSUME UNCHANGED <<b_dirt, b_uptodate, b_cur, disk_cur>>, Quiet PROVE DataSame
  BY <1>4 DEF Quiet, reqVars, DataSame
<1>5. CASE Caller(p) /\ ~(\E dev \in Devices : CallDiskChange(p, dev))
           /\ ~(\E b \in Buffers : Modify(p, b))
  <2>1. UNCHANGED <<b_dirt, b_uptodate, b_cur, disk_cur>>
    BY <1>5, Zenon DEF Caller, CallOne, CallMany, CallSync, Call, bufVars, dataVars
  <2> QED BY <1>1, <1>4, <2>1, QuietStep
<1>6. CASE /\ Kernel(p) /\ ~VictimClaim(p) /\ ~AddRequest(p) /\ ~GotNew(p) /\ ~Fill(p)
           /\ ~InvalidateWait(p) /\ ~InvalidateEnd(p)
  <2>1. UNCHANGED <<b_dirt, b_uptodate, b_cur, disk_cur>>
    BY <1>6, Zenon DEF Kernel, CallBrelse, GetblkHit, GetblkVictim, GetblkSleep, HashWait,
       VictimLost, VictimSync, SyncWait, ScanWaited, SyncWrite, SyncAgain, SyncEnd, SkipRequest,
       LockBuffer, NoSlot, RequestSleep, GotValid, GotRead, DropAhead, GotWrite,
       ReadDone, ReadFailed, Brelse, PageWait, Wait, bufVars, dataVars
  <2> QED BY <1>1, <1>4, <2>1, QuietStep
<1> QED BY <1>1, <1>2, <1>3, <1>5, <1>6

(* A buffer that is not locked has no request, made or in flight. *)
LEMMA UnlockedIsFree ==
  ASSUME LockOwned, NEW b \in Buffers, ~b_lock[b]
  PROVE  /\ \A q \in Procs : Making(q) => rbh[q] # b
         /\ \A s \in Slots : InFlight(s) => request[s].bh # b
BY DEF LockOwned

(* make_request starts only for a dirty buffer or an invalid one. *)
LEMMA LockKeeps ==
  ASSUME TypeInv, BuffersValid, NoLostWrite, NEW p \in Procs, LockBuffer(p)
  PROVE  DataKept
<1>1. /\ UNCHANGED <<b_blk, b_dirt, b_uptodate, b_cur, disk_cur, request, rbh, rw>>
      /\ ~NotNeeded(p) /\ pc' = [pc EXCEPT ![p] = "find_req"]
  BY DEF LockBuffer, Goto, reqVars, dataVars, callVars
<1>2. HeldKept
  BY <1>1 DEF HeldKept
<1>3. NoLostWrite'
  BY <1>1 DEF NoLostWrite, Cached
<1>4. BuffersValid'
  <2> SUFFICES ASSUME NEW b \in Buffers, Fixed(b)' PROVE ValidData(b)'
    BY DEF BuffersValid
  <2>1. ValidData(b)
    BY <1>1 DEF Fixed, BuffersValid
  <2>2. \A q \in Procs : Making(q)' => Making(q) \/ q = p
    BY <1>1 DEF Making, TypeInv, TypeOK, RunTypeOK
  <2>3. rbh[p] = b => IF rw[p] = WRITE THEN b_dirt[b] ELSE ~b_uptodate[b]
    BY <1>1 DEF NotNeeded
  <2> QED BY <1>1, <2>1, <2>2, <2>3 DEF ValidData, InFlight
<1> QED BY <1>2, <1>3, <1>4 DEF DataKept

(* The victim is clean and unused: no change is lost with it. *)
LEMMA ClaimKeeps ==
  ASSUME TypeInv, LockOwned, References, BuffersValid, NoLostWrite, NEW p \in Procs, VictimClaim(p)
  PROVE  DataKept
<1> DEFINE v == bh[p]
<1>1. v \in Buffers /\ ~b_lock[v] /\ ~b_dirt[v] /\ b_count[v] = 0
  BY DEF VictimClaim, Runs, MustWait, Taken, NeedsSync, TypeInv, ControlOK, Control
<1>2. /\ UNCHANGED <<disk_cur, request, rbh, rw>>
      /\ b_dirt' = [b_dirt EXCEPT ![v] = FALSE] /\ b_uptodate' = [b_uptodate EXCEPT ![v] = FALSE]
      /\ b_cur' = [b_cur EXCEPT ![v] = FALSE] /\ b_blk' = [b_blk EXCEPT ![v] = Head(args[p])]
      /\ pc' = [pc EXCEPT ![p] = "got"] /\ pc[p] = "victim_wait"
  BY DEF VictimClaim, Claim, TakeOver, Goto, Runs, reqVars, callVars
<1>3. \A c \in Buffers \ {v} : /\ b_dirt'[c] = b_dirt[c] /\ b_uptodate'[c] = b_uptodate[c]
                               /\ b_cur'[c] = b_cur[c] /\ b_blk'[c] = b_blk[c]
  BY <1>2 DEF TypeInv, TypeOK, BufTypeOK, DataTypeOK
<1>4. ~b_dirt'[v] /\ ~b_uptodate'[v]
  BY <1>1, <1>2 DEF TypeInv, TypeOK, BufTypeOK
<1>5. \A q \in Procs : Making(q)' => Making(q)
  BY <1>2 DEF Making, TypeInv, TypeOK, RunTypeOK
<1>6. /\ \A q \in Procs : Making(q) => rbh[q] # v
      /\ \A s \in Slots : InFlight(s) => request[s].bh # v
  BY <1>1, UnlockedIsFree
<1>7. HeldKept
  <2>1. \A q \in Procs : held[q][v] = NoBlock
    BY <1>1, UnusedIsUnheld
  <2> QED BY <1>3, <2>1 DEF HeldKept
<1> HIDE DEF v
<1>8. BuffersValid'
  <2> SUFFICES ASSUME NEW b \in Buffers, Fixed(b)' PROVE ValidData(b)'
    BY DEF BuffersValid
  <2>1. CASE b = v
    BY <1>2, <1>4, <1>5, <1>6, <2>1 DEF ValidData, InFlight
  <2>2. CASE b # v
    <3>1. ValidData(b)
      BY <1>3, <2>2 DEF Fixed, BuffersValid
    <3> QED BY <1>2, <1>3, <1>5, <2>2, <3>1 DEF ValidData, InFlight
  <2> QED BY <2>1, <2>2
<1>9. NoLostWrite'
  <2> SUFFICES ASSUME NEW blk \in Blocks, blk[1] \notin Removable, ~disk_cur'[blk]
               PROVE  Safe(blk)'
    BY NoLostWriteSafeNext
  <2>1. Safe(blk)
    BY <1>2, NoLostWriteSafe
  <2>2. PICK b \in Buffers :
          /\ b_blk[b] = blk /\ b_cur[b]
          /\ \/ b_dirt[b]
             \/ \E s \in Slots : /\ request[s].cmd = WRITE /\ request[s].bh = b
                                 /\ ~request[s].moved
    BY <2>1 DEF Safe
  <2>3. b # v
    BY <1>1, <1>6, <2>2 DEF InFlight, IsFree, WRITE
  <2> QED BY <1>2, <1>3, <2>2, <2>3 DEF Safe
<1> QED BY <1>7, <1>8, <1>9 DEF DataKept

(* add_request: a dirty buffer's change passes to its write request. *)
LEMMA AddKeeps ==
  ASSUME TypeInv, LockOwned, BuffersValid, NoLostWrite, NEW p \in Procs, AddRequest(p)
  PROVE  DataKept
<1> DEFINE v == rbh[p]
           req == [cmd |-> Command(p), bh |-> v, blk |-> b_blk[v], moved |-> FALSE]
<1>1. Making(p) /\ v \in Buffers /\ pc[p] = "find_req"
  BY DEF AddRequest, Runs, Making, TypeInv, ControlOK, Control, ReqLabels
<1>2. PICK s \in FreeSlots(p) : request' = [request EXCEPT ![s] = req]
  BY DEF AddRequest
<1>3. /\ UNCHANGED <<b_blk, b_uptodate, b_cur, disk_cur>>
      /\ b_dirt' = [b_dirt EXCEPT ![v] = FALSE]
      /\ \A q \in Procs \ {p} : pc'[q] = pc[q] /\ rbh'[q] = rbh[q] /\ rw'[q] = rw[q]
      /\ pc'[p] \notin {"find_req", "req_sleep"}
  <2>1. /\ UNCHANGED <<b_blk, b_uptodate, b_cur, disk_cur>>
        /\ b_dirt' = [b_dirt EXCEPT ![v] = FALSE]
    BY DEF AddRequest, dataVars
  <2>2. ReturnRW(p)
    BY DEF AddRequest
  <2>3. /\ \A q \in Procs \ {p} : pc'[q] = pc[q] /\ rbh'[q] = rbh[q] /\ rw'[q] = rw[q]
        /\ pc'[p] \notin {"find_req", "req_sleep"}
    BY <2>2 DEF ReturnRW, AfterRW, Goto, TypeInv, TypeOK, RunTypeOK, CallTypeOK
  <2> QED BY <2>1, <2>3
<1>4. /\ s \in Slots /\ IsFree(request[s]) /\ request'[s] = req
      /\ \A t \in Slots \ {s} : request'[t] = request[t]
  <2>1. s \in Slots /\ IsFree(request[s])
    <3>1. (NR_REQUEST * 2) \div 3 <= NR_REQUEST
      BY RequestAssumption
    <3> QED BY <3>1, RequestAssumption DEF FreeSlots, UsableSlots, Slots
  <2> QED BY <1>2, <2>1 DEF TypeInv, TypeOK, ReqTypeOK
<1>5. \A q \in Procs : Making(q)' => Making(q) /\ q # p /\ rbh'[q] = rbh[q] /\ rw'[q] = rw[q]
                                     /\ rbh[q] # v
  BY <1>1, <1>3 DEF Making, LockOwned
<1>6. \A t \in Slots : InFlight(t) => request[t].bh # v /\ t # s
  BY <1>1, <1>4 DEF LockOwned, InFlight
<1>7. req.cmd = Command(p) /\ req.bh = v /\ ~req.moved /\ ~IsFree(req)
  BY DEF Command, IsFree, READ, WRITE
<1>8. /\ ~b_dirt'[v] /\ \A c \in Buffers \ {v} : b_dirt'[c] = b_dirt[c]
  BY <1>1, <1>3 DEF TypeInv, TypeOK, BufTypeOK
<1>9. ASSUME Fixed(v)
      PROVE  IF rw[p] = WRITE THEN b_dirt[v] /\ b_uptodate[v] ELSE ~b_uptodate[v] /\ ~b_dirt[v]
  BY <1>1, <1>9 DEF BuffersValid, ValidData
<1>10. HeldKept
  BY <1>3 DEF HeldKept
<1> HIDE DEF v, req
<1>11. BuffersValid'
  <2> SUFFICES ASSUME NEW b \in Buffers, Fixed(b)' PROVE ValidData(b)'
    BY DEF BuffersValid
  <2>1. Fixed(b) /\ ValidData(b)
    BY <1>3 DEF Fixed, BuffersValid
  <2>2. ASSUME NEW t \in Slots, InFlight(t)', request'[t].bh = b
        PROVE  IF request'[t].cmd = WRITE THEN b_uptodate[b]
               ELSE ~b_uptodate[b] /\ (request'[t].moved => b_cur[b])
    <3>1. CASE t = s
      BY <1>4, <1>7, <1>9, <2>1, <2>2, <3>1 DEF Command, READ, WRITE
    <3>2. CASE t # s
      BY <1>4, <2>1, <2>2, <3>2 DEF ValidData, InFlight
    <3> QED BY <3>1, <3>2
  <2>3. \A q \in Procs : Making(q)' /\ rbh'[q] = b =>
          IF rw'[q] = WRITE THEN b_dirt'[b] ELSE ~b_uptodate[b]
    BY <1>5, <1>8, <2>1 DEF ValidData
  <2>4. b_dirt'[b] => b_uptodate[b]
    BY <1>8, <2>1 DEF ValidData
  <2> QED BY <1>3, <2>1, <2>2, <2>3, <2>4 DEF ValidData
<1>12. NoLostWrite'
  <2> SUFFICES ASSUME NEW blk \in Blocks, blk[1] \notin Removable, ~disk_cur'[blk]
               PROVE  Safe(blk)'
    BY NoLostWriteSafeNext
  <2>1. Safe(blk)
    BY <1>3, NoLostWriteSafe
  <2>2. PICK b \in Buffers :
          /\ b_blk[b] = blk /\ b_cur[b]
          /\ \/ b_dirt[b]
             \/ \E t \in Slots : /\ request[t].cmd = WRITE /\ request[t].bh = b
                                 /\ ~request[t].moved
    BY <2>1 DEF Safe
  <2>3. ASSUME NEW t \in Slots, request[t].cmd = WRITE
        PROVE  t # s /\ request'[t] = request[t] /\ request[t].bh # v
    BY <1>4, <1>6, <2>3 DEF InFlight, IsFree, WRITE
  <2>4. CASE b = v
    <3>1. Fixed(v) /\ b_dirt[v]
      BY <2>2, <2>3, <2>4, FixedFacts
    <3>2. request'[s].cmd = WRITE /\ request'[s].bh = b /\ ~request'[s].moved
      BY <1>4, <1>7, <1>9, <2>4, <3>1 DEF Command
    <3> QED BY <1>3, <1>4, <2>2, <3>2 DEF Safe
  <2>5. CASE b # v
    BY <1>3, <1>8, <2>2, <2>3, <2>5 DEF Safe
  <2> QED BY <2>4, <2>5
<1> QED BY <1>10, <1>11, <1>12 DEF DataKept

(* A process changes a buffer that it holds, valid or just cleared.        *)
LEMMA ChangeKeeps ==
  ASSUME TypeInv, References, BuffersValid, NoLostWrite, NEW p \in Procs, NEW v \in Buffers,
         held[p][v] # NoBlock,
         UNCHANGED <<b_blk, request>>,
         b_dirt' = [b_dirt EXCEPT ![v] = TRUE], b_cur' = [b_cur EXCEPT ![v] = TRUE],
         disk_cur' = [disk_cur EXCEPT ![held[p][v]] = FALSE],
         \A c \in Buffers \ {v} : b_uptodate'[c] = b_uptodate[c],
         \A q \in Procs : Making(q)' => Making(q) /\ rbh'[q] = rbh[q] /\ rw'[q] = rw[q],
         Fixed(v) => b_uptodate'[v],
         \/ b_uptodate'[v] = b_uptodate[v]
         \/ /\ \A q \in Procs : Making(q) => rbh[q] # v
            /\ \A s \in Slots : InFlight(s) => request[s].bh # v
  PROVE  DataKept
<1>1. /\ b_dirt'[v] /\ b_cur'[v] /\ b_blk[v] = held[p][v]
      /\ \A c \in Buffers \ {v} : b_dirt'[c] = b_dirt[c] /\ b_cur'[c] = b_cur[c]
  BY DEF TypeInv, TypeOK, BufTypeOK, DataTypeOK, References, Holders
<1>2. HeldKept
  BY DEF HeldKept
<1>3. BuffersValid'
  <2> SUFFICES ASSUME NEW b \in Buffers, Fixed(b)' PROVE ValidData(b)'
    BY DEF BuffersValid
  <2>1. Fixed(b) /\ ValidData(b)
    BY DEF Fixed, BuffersValid
  <2>2. CASE b = v
    BY <1>1, <2>1, <2>2 DEF ValidData, InFlight
  <2>3. CASE b # v
    BY <1>1, <2>1, <2>3 DEF ValidData, InFlight
  <2> QED BY <2>2, <2>3
<1>4. NoLostWrite'
  <2> SUFFICES ASSUME NEW blk \in Blocks, blk[1] \notin Removable, ~disk_cur'[blk]
               PROVE  Safe(blk)'
    BY NoLostWriteSafeNext
  <2>1. CASE blk = b_blk[v]
    BY <1>1, <2>1 DEF Safe
  <2>2. CASE blk # b_blk[v]
    <3>1. Safe(blk)
      BY <1>1, <2>2, NoLostWriteSafe DEF TypeInv, TypeOK, DataTypeOK
    <3>2. PICK b \in Buffers :
            /\ b_blk[b] = blk /\ b_cur[b]
            /\ \/ b_dirt[b]
               \/ \E t \in Slots : /\ request[t].cmd = WRITE /\ request[t].bh = b
                                   /\ ~request[t].moved
      BY <3>1 DEF Safe
    <3> QED BY <1>1, <2>2, <3>2 DEF Safe
  <2> QED BY <2>1, <2>2
<1> QED BY <1>2, <1>3, <1>4 DEF DataKept

(* A caller changes a valid buffer, *)
LEMMA ModifyKeeps ==
  ASSUME TypeInv, References, BuffersValid, NoLostWrite, NEW p \in Procs, UseProc(p), CallProc(p),
         HeldValid(p), NEW v \in Buffers, Modify(p, v)
  PROVE  DataKept
<1>1. /\ UNCHANGED <<b_blk, request, b_uptodate, pc, rbh, rw>>
      /\ b_dirt' = [b_dirt EXCEPT ![v] = TRUE] /\ b_cur' = [b_cur EXCEPT ![v] = TRUE]
      /\ disk_cur' = [disk_cur EXCEPT ![held[p][v]] = FALSE]
      /\ pc[p] = "user" /\ held[p][v] # NoBlock
  BY DEF Modify, reqVars, callVars, Runs, Holds
<1>2. v \notin {bh[p], first[p]}
  BY <1>1, BlockFacts DEF CallProc, UseProc
<1>3. Fixed(v) => b_uptodate[v]
  BY <1>1, <1>2 DEF HeldValid
<1>4. \A q \in Procs : Making(q)' => Making(q) /\ rbh'[q] = rbh[q] /\ rw'[q] = rw[q]
  BY <1>1 DEF Making
<1> QED BY <1>1, <1>3, <1>4, ChangeKeeps

(* new_block one that no request is made for. *)
LEMMA NewKeeps ==
  ASSUME TypeInv, References, LockOwned, BuffersValid, NoLostWrite, NEW p \in Procs, UseProc(p),
         CallProc(p), GotNew(p)
  PROVE  DataKept
<1> DEFINE v == bh[p]
<1>1. /\ UNCHANGED <<b_blk, request, rbh, rw>> /\ pc[p] = "got" /\ pc' = [pc EXCEPT ![p] = "brelse"]
      /\ b_dirt' = [b_dirt EXCEPT ![v] = TRUE] /\ b_cur' = [b_cur EXCEPT ![v] = TRUE]
      /\ b_uptodate' = [b_uptodate EXCEPT ![v] = TRUE]
      /\ disk_cur' = [disk_cur EXCEPT ![Head(args[p])] = FALSE]
  BY DEF GotNew, reqVars, callVars, Runs, Goto
<1>2. v \in Buffers /\ held[p][v] = Head(args[p]) /\ ~b_lock[v] /\ Head(args[p]) \in Blocks
  BY <1>1, HeadTailProperties DEF UseProc, GotLabels, CallProc, TypeInv, TypeOK, CallTypeOK, ControlOK, Control
<1>3. /\ \A q \in Procs : Making(q) => rbh[q] # v
      /\ \A s \in Slots : InFlight(s) => request[s].bh # v
  BY <1>2, UnlockedIsFree
<1>4. \A q \in Procs : Making(q)' => Making(q) /\ rbh'[q] = rbh[q] /\ rw'[q] = rw[q]
  BY <1>1 DEF Making, TypeInv, TypeOK, RunTypeOK
<1>5. b_uptodate'[v] /\ \A c \in Buffers \ {v} : b_uptodate'[c] = b_uptodate[c]
  BY <1>1, <1>2 DEF TypeInv, TypeOK, BufTypeOK
<1>6. held[p][v] # NoBlock /\ disk_cur' = [disk_cur EXCEPT ![held[p][v]] = FALSE]
  BY <1>1, <1>2, BlockFacts
<1> HIDE DEF v
<1> QED BY <1>1, <1>2, <1>3, <1>4, <1>5, <1>6, ChangeKeeps

(* The device serves the request at the head of a queue, for the block its *)
(* buffer has.                                                             *)
LEMMA HeadRequest ==
  ASSUME TypeInv, NamedOK, OwnInv, NEW m \in Majors, queue[m] # << >>
  PROVE  LET s == Head(queue[m]) IN
         /\ s \in Slots /\ InFlight(s) /\ request[s].bh \in Buffers
         /\ request[s].blk = b_blk[request[s].bh] /\ request[s].blk \in Blocks
         /\ request[s].cmd \in {READ, WRITE} /\ request[s].moved \in BOOLEAN
<1> DEFINE s == Head(queue[m])
<1>1. s \in Slots /\ s = queue[m][1] /\ 1 \in DOMAIN queue[m]
  BY HeadTailProperties, LenProperties, EmptySeq DEF TypeInv, TypeOK, ReqTypeOK
<1>2. InFlight(s)
  BY <1>1 DEF OwnInv, QueueOK
<1>3. request[s] \in Requests
  BY <1>1 DEF TypeInv, TypeOK, ReqTypeOK
<1> HIDE DEF s
<1>4. request[s].bh \in Buffers /\ request[s].blk = b_blk[request[s].bh] /\ request[s].blk \in Blocks
  BY <1>1, <1>2 DEF OwnInv, LockOwned, NamedOK, RequestsOK, InFlight
<1>5. request[s].cmd \in {READ, WRITE} /\ request[s].moved \in BOOLEAN
  BY <1>2, <1>3 DEF InFlight, IsFree, Requests
<1> QED BY <1>1, <1>2, <1>4, <1>5 DEF s

(* A transfer of data: what is read is the latest, as no change to the     *)
(* block can be waiting in another buffer; what is written is valid.       *)
LEMMA TransferKeeps ==
  ASSUME TypeInv, NamedOK, OwnInv, BuffersValid, NoLostWrite, NEW m \in Majors, Transfer(m)
  PROVE  DataKept
<1> DEFINE s == Head(queue[m])
           r == request[s]
           v == r.bh
<1>1. /\ s \in Slots /\ InFlight(s) /\ v \in Buffers /\ r.blk = b_blk[v] /\ r.blk \in Blocks
      /\ r.cmd \in {READ, WRITE} /\ r.moved \in BOOLEAN
  BY HeadRequest DEF Transfer
<1>2. /\ request' = [request EXCEPT ![s] = [r EXCEPT !.moved = TRUE]]
      /\ UNCHANGED <<b_blk, b_dirt, b_uptodate, rbh, rw, pc>>
      /\ IF r.cmd = READ
         THEN b_cur' = [b_cur EXCEPT ![v] = disk_cur[r.blk]] /\ disk_cur' = disk_cur
         ELSE disk_cur' = [disk_cur EXCEPT ![r.blk] = b_cur[v]] /\ b_cur' = b_cur
  BY <1>1 DEF Transfer, TypeInv, TypeOK, ReqTypeOK, bufVars, callVars
<1>3. /\ \A t \in Slots \ {s} : request'[t] = request[t]
      /\ request'[s].cmd = r.cmd /\ request'[s].bh = v
  BY <1>1, <1>2 DEF TypeInv, TypeOK, ReqTypeOK, Requests
<1>4. \A t \in Slots : /\ request'[t].cmd = request[t].cmd /\ request'[t].bh = request[t].bh
                       /\ InFlight(t)' <=> InFlight(t)
  BY <1>3 DEF InFlight, IsFree
<1>5. \A t \in Slots : InFlight(t) /\ request[t].bh = v => t = s
  BY <1>1 DEF OwnInv, LockOwned
<1>6. \A q \in Procs : Making(q)' => Making(q)
  BY <1>2 DEF Making
<1>7. HeldKept
  BY <1>2 DEF HeldKept
<1> HIDE DEF s, r, v
<1>8. ASSUME Fixed(v), r.cmd = READ
      PROVE  disk_cur[r.blk]
  <2>1. ~b_dirt[v]
    BY <1>1, <1>8 DEF BuffersValid, ValidData, READ, WRITE, r, v
  <2>2. \A t \in Slots : ~(request[t].cmd = WRITE /\ request[t].bh = v)
    BY <1>5, <1>8 DEF InFlight, IsFree, READ, WRITE, r
  <2>3. \A b \in Buffers : b_blk[b] = r.blk => b = v
    BY <1>1, BlockFacts DEF OwnInv, UniqueBuffer
  <2>4. ~Safe(r.blk)
    BY <2>1, <2>2, <2>3 DEF Safe
  <2> QED BY <1>1, <1>8, <2>4, FixedFacts, NoLostWriteSafe
<1>9. ASSUME Fixed(v), r.cmd = WRITE
      PROVE  b_cur[v] /\ b_uptodate[v]
  BY <1>1, <1>9 DEF BuffersValid, ValidData, r, v
<1>10. ASSUME NEW b \in Buffers, Fixed(b)
       PROVE  b_cur'[b] = b_cur[b] \/ (b = v /\ b_cur'[b] /\ r.cmd = READ)
  BY <1>1, <1>2, <1>8, <1>10 DEF TypeInv, TypeOK, DataTypeOK
<1>11. r.cmd = READ /\ Fixed(v) => b_cur'[v]
  BY <1>1, <1>2, <1>8 DEF TypeInv, TypeOK, DataTypeOK
<1>12. BuffersValid'
  <2> SUFFICES ASSUME NEW b \in Buffers, Fixed(b)' PROVE ValidData(b)'
    BY DEF BuffersValid
  <2>1. Fixed(b) /\ ValidData(b)
    BY <1>2 DEF Fixed, BuffersValid
  <2>2. ASSUME NEW t \in Slots, InFlight(t)', request'[t].bh = b
        PROVE  IF request'[t].cmd = WRITE THEN b_uptodate[b]
               ELSE ~b_uptodate[b] /\ (request'[t].moved => b_cur'[b])
    <3>1. InFlight(t) /\ request[t].bh = b
      BY <1>4, <2>2
    <3>2. IF request[t].cmd = WRITE THEN b_uptodate[b]
          ELSE ~b_uptodate[b] /\ (request[t].moved => b_cur[b])
      BY <2>1, <3>1 DEF ValidData
    <3>3. CASE t = s
      <4>1. b = v
        BY <3>1, <3>3 DEF r, v
      <4>2. r.cmd = READ \/ r.cmd = WRITE
        BY <1>1
      <4>3. request[t].cmd = r.cmd
        BY <3>3 DEF r
      <4> QED BY <1>4, <1>11, <2>1, <3>2, <4>1, <4>2, <4>3
    <3>4. CASE t # s
      BY <1>3, <1>10, <2>1, <3>2, <3>4
    <3> QED BY <3>3, <3>4
  <2>3. b_uptodate[b] => b_cur'[b]
    BY <1>10, <2>1 DEF ValidData
  <2>4. \A q \in Procs : Making(q)' /\ rbh'[q] = b =>
          IF rw'[q] = WRITE THEN b_dirt'[b] ELSE ~b_uptodate'[b]
    BY <1>2, <1>6, <2>1 DEF ValidData
  <2> QED BY <1>2, <2>1, <2>2, <2>3, <2>4 DEF ValidData
<1>13. NoLostWrite'
  <2> SUFFICES ASSUME NEW blk \in Blocks, blk[1] \notin Removable, ~disk_cur'[blk]
               PROVE  Safe(blk)'
    BY NoLostWriteSafeNext
  <2>1. ~disk_cur[blk] /\ (r.cmd = WRITE => blk # r.blk)
    <3>1. CASE r.cmd = READ
      BY <1>2, <3>1 DEF READ, WRITE
    <3>2. CASE r.cmd = WRITE
      <4>1. disk_cur' = [disk_cur EXCEPT ![r.blk] = b_cur[v]]
        BY <1>2, <3>2 DEF READ, WRITE
      <4>2. blk = r.blk => Fixed(v)
        BY <1>1, FixedFacts
      <4>3. blk # r.blk
        BY <1>1, <1>9, <3>2, <4>1, <4>2 DEF TypeInv, TypeOK, DataTypeOK
      <4> QED BY <4>1, <4>3 DEF TypeInv, TypeOK, DataTypeOK
    <3> QED BY <1>1, <3>1, <3>2
  <2>2. Safe(blk)
    BY <2>1, NoLostWriteSafe
  <2>3. PICK b \in Buffers :
          /\ b_blk[b] = blk /\ b_cur[b]
          /\ \/ b_dirt[b]
             \/ \E t \in Slots : /\ request[t].cmd = WRITE /\ request[t].bh = b
                                 /\ ~request[t].moved
    BY <2>2 DEF Safe
  <2>4. Fixed(b) /\ b_cur'[b]
    BY <1>10, <2>3, FixedFacts
  <2>5. ASSUME NEW t \in Slots, request[t].cmd = WRITE, request[t].bh = b
        PROVE  request'[t] = request[t]
    <3>1. t # s
      BY <1>1, <2>1, <2>3, <2>5 DEF r, v
    <3> QED BY <1>3, <3>1
  <2> QED BY <1>2, <2>3, <2>4, <2>5 DEF Safe
<1> QED BY <1>7, <1>12, <1>13 DEF DataKept

(* The end of a request: only data that has moved makes a buffer valid,    *)
(* and only a buffer that was not valid is left so by an error.            *)
LEMMA EndKeeps ==
  ASSUME TypeInv, NamedOK, OwnInv, BuffersValid, NoLostWrite, WRITE \notin Fallible,
         NEW m \in Majors, NEW ok \in BOOLEAN, EndRequest(m, ok)
  PROVE  DataKept
<1> DEFINE s == Head(queue[m])
           r == request[s]
           v == r.bh
<1>1. /\ s \in Slots /\ InFlight(s) /\ v \in Buffers /\ r.blk = b_blk[v] /\ r.blk \in Blocks
      /\ r.cmd \in {READ, WRITE} /\ r.moved \in BOOLEAN
  BY HeadRequest DEF EndRequest
<1>2. /\ request' = [request EXCEPT ![s] = NoRequest]
      /\ b_uptodate' = [b_uptodate EXCEPT ![v] = ok]
      /\ UNCHANGED <<b_blk, b_dirt, b_cur, disk_cur, rbh, rw, pc>>
      /\ IF ok THEN r.moved ELSE r.cmd = READ /\ ~r.moved
  BY <1>1 DEF EndRequest, dataVars, callVars
<1>3. /\ \A t \in Slots \ {s} : request'[t] = request[t]
      /\ request'[s] = NoRequest
      /\ b_uptodate'[v] = ok /\ \A c \in Buffers \ {v} : b_uptodate'[c] = b_uptodate[c]
  BY <1>1, <1>2 DEF TypeInv, TypeOK, ReqTypeOK, BufTypeOK
<1>4. \A t \in Slots : InFlight(t)' => InFlight(t) /\ t # s /\ request'[t] = request[t]
  BY <1>3 DEF InFlight, IsFree, NoRequest
<1>5. /\ \A t \in Slots : InFlight(t) /\ request[t].bh = v => t = s
      /\ \A q \in Procs : Making(q) => rbh[q] # v
  BY <1>1 DEF OwnInv, LockOwned
<1>6. \A q \in Procs : Making(q)' => Making(q)
  BY <1>2 DEF Making
<1>7. Fixed(v) => IF r.cmd = WRITE THEN b_uptodate[v] /\ b_cur[v]
                  ELSE ~b_uptodate[v] /\ ~b_dirt[v] /\ (r.moved => b_cur[v])
  BY <1>1 DEF BuffersValid, ValidData
<1>8. Fixed(v) => /\ b_uptodate[v] => b_uptodate'[v]
                  /\ b_uptodate'[v] => b_cur[v]
                  /\ b_dirt[v] => b_uptodate'[v]
  BY <1>1, <1>2, <1>3, <1>7 DEF READ, WRITE
<1> HIDE DEF s, r, v
<1>9. HeldKept
  <2>1. \A b \in Buffers : Fixed(b) /\ b_uptodate[b] => b_uptodate'[b]
    BY <1>3, <1>8
  <2> QED BY <1>2, <2>1 DEF HeldKept
<1>10. BuffersValid'
  <2> SUFFICES ASSUME NEW b \in Buffers, Fixed(b)' PROVE ValidData(b)'
    BY DEF BuffersValid
  <2>1. Fixed(b) /\ ValidData(b)
    BY <1>2 DEF Fixed, BuffersValid
  <2>2. CASE b = v
    <3>1. \A t \in Slots : InFlight(t)' => request'[t].bh # b
      BY <1>4, <1>5, <2>2
    <3>2. \A q \in Procs : Making(q)' => rbh'[q] # b
      BY <1>2, <1>5, <1>6, <2>2
    <3> QED BY <1>2, <1>8, <2>1, <2>2, <3>1, <3>2 DEF ValidData
  <2>3. CASE b # v
    BY <1>2, <1>3, <1>4, <1>6, <2>1, <2>3 DEF ValidData
  <2> QED BY <2>2, <2>3
<1>11. NoLostWrite'
  <2> SUFFICES ASSUME NEW blk \in Blocks, blk[1] \notin Removable, ~disk_cur'[blk]
               PROVE  Safe(blk)'
    BY NoLostWriteSafeNext
  <2>1. Safe(blk)
    BY <1>2, NoLostWriteSafe
  <2>2. PICK b \in Buffers :
          /\ b_blk[b] = blk /\ b_cur[b]
          /\ \/ b_dirt[b]
             \/ \E t \in Slots : /\ request[t].cmd = WRITE /\ request[t].bh = b
                                 /\ ~request[t].moved
    BY <2>1 DEF Safe
  <2>3. ASSUME NEW t \in Slots, request[t].cmd = WRITE, ~request[t].moved
        PROVE  request'[t] = request[t]
    <3>1. t # s
      BY <1>2, <2>3 DEF r, READ, WRITE
    <3> QED BY <1>3, <3>1
  <2> QED BY <1>2, <2>2, <2>3 DEF Safe
<1> QED BY <1>9, <1>10, <1>11 DEF DataKept

-----------------------------------------------------------------------------
(* The invariant of the data, step by step.                                *)

(* No block_write, whose buffer is dirty but not valid, and no failing     *)
(* write, which drops the change: those two do lose data.                  *)
NoDamage == "block_write" \notin Ops /\ WRITE \notin Fallible

(* Every step of a process keeps the data, *)
LEMMA DataProcStep ==
  ASSUME NoDamage, Inv, UseInv, DataInv, NEW p \in Procs, Caller(p) \/ Kernel(p)
  PROVE  DataKept
<1>1. /\ TypeInv /\ LockOwned /\ References /\ UseProc(p) /\ CallProc(p) /\ HeldValid(p)
      /\ BuffersValid /\ NoLostWrite
  BY DEF Inv, OwnInv, UseInv, DataInv
<1>2. ~Fill(p)
  BY <1>1 DEF Fill, Runs, CallProc, NoDamage
<1> QED
  BY <1>1, <1>2, DataSteps, SameKeeps, ClaimKeeps, LockKeeps, AddKeeps, NewKeeps, ModifyKeeps

(* and so does every step of the device. *)
LEMMA DataDeviceStep ==
  ASSUME NoDamage, Inv, DataInv, NEW m \in Majors, Device(m)
  PROVE  DataKept
<1>1. TypeInv /\ NamedOK /\ OwnInv /\ BuffersValid /\ NoLostWrite /\ WRITE \notin Fallible
  BY DEF Inv, DataInv, NoDamage
<1>2. CASE Transfer(m)
  BY <1>1, <1>2, TransferKeeps
<1>3. ASSUME NEW ok \in BOOLEAN, EndRequest(m, ok)
      PROVE  DataKept
  BY <1>1, <1>3, EndKeeps
<1> QED BY <1>2, <1>3 DEF Device

(* What a process holds stays valid when the process does not move. *)
LEMMA HeldValidStill ==
  ASSUME NEW q \in Procs, HeldValid(q), HeldKept,
         held'[q] = held[q], bh'[q] = bh[q], first'[q] = first[q]
  PROVE  HeldValid(q)'
<1> SUFFICES ASSUME NEW b \in Buffers, held[q][b] # NoBlock, Fixed(b)', b \notin {bh[q], first[q]}
             PROVE  b_uptodate'[b]
  BY DEF HeldValid
<1>1. b_blk'[b] = b_blk[b] /\ (Fixed(b) /\ b_uptodate[b] => b_uptodate'[b])
  BY DEF HeldKept
<1>2. Fixed(b)
  BY <1>1 DEF Fixed
<1> QED BY <1>1, <1>2 DEF HeldValid

(* The process that moves leaves only valid buffers behind. *)
LEMMA HeldValidMoves ==
  ASSUME NEW p \in Procs, HeldValid(p), HeldKept, Leaves(p)
  PROVE  HeldValid(p)'
<1> SUFFICES ASSUME NEW b \in Buffers, held'[p][b] # NoBlock, Fixed(b)', b \notin {bh'[p], first'[p]}
             PROVE  b_uptodate'[b]
  BY DEF HeldValid
<1>1. held[p][b] # NoBlock /\ (b \in {bh[p], first[p]} => b_uptodate[b])
  BY DEF Leaves
<1>2. b_blk'[b] = b_blk[b] /\ (Fixed(b) /\ b_uptodate[b] => b_uptodate'[b])
  BY <1>1 DEF HeldKept
<1>3. Fixed(b)
  BY <1>2 DEF Fixed
<1> QED BY <1>1, <1>2, <1>3 DEF HeldValid

(* DataInv holds at the start, *)
LEMMA DataInit == Init => DataInv
<1> SUFFICES ASSUME Init PROVE DataInv
  OBVIOUS
<1>1. \A p \in Procs : /\ pc[p] = "user" /\ op[p] = "none" /\ args[p] = << >> /\ bh[p] = NoBuffer
                       /\ first[p] = NoBuffer /\ \A b \in Buffers : held[p][b] = NoBlock
  BY DEF Init
<1>2. Len(<< >>) = 0
  OBVIOUS
<1>3. \A p \in Procs : CallProc(p)
  BY <1>1, <1>2 DEF CallProc, Getting, ManyOps, SyncOps, ReqLabels
<1>4. \A p \in Procs : HeldValid(p)
  BY <1>1 DEF HeldValid
<1>5. BuffersValid
  BY DEF BuffersValid, Fixed, Init
<1>6. NoLostWrite
  BY DEF NoLostWrite, Init
<1> QED BY <1>3, <1>4, <1>5, <1>6 DEF DataInv

(* every step keeps it, *)
LEMMA DataNext == NoDamage /\ Inv /\ Inv' /\ UseInv /\ DataInv /\ [Next]_vars => DataInv'
<1> SUFFICES ASSUME NoDamage, Inv, Inv', UseInv, DataInv, [Next]_vars
             PROVE  DataInv'
  OBVIOUS
<1>0. TypeInv /\ TypeInv' /\ References /\ \A q \in Procs : CallProc(q) /\ HeldValid(q)
  BY DEF Inv, UseInv, DataInv
<1>1. ASSUME NEW p \in Procs, Caller(p) \/ Kernel(p)
      PROVE  DataInv'
  <2>1. CallProc(p)' /\ Leaves(p)
    BY <1>0, <1>1, CallProcStep DEF UseInv
  <2>2. LocalTo(p)
    BY <1>0, <1>1, UseStep
  <2>3. \A q \in Procs : CallProc(q)'
    BY <1>0, <1>1, <2>1, <2>2, OthersCall
  <2>4. DataKept
    BY <1>1, DataProcStep
  <2>5. ASSUME NEW q \in Procs
        PROVE  HeldValid(q)'
    <3>1. CASE q = p
      BY <1>0, <2>1, <2>4, <3>1, HeldValidMoves DEF DataKept
    <3>2. CASE q # p
      BY <1>0, <2>2, <2>4, <3>2, HeldValidStill DEF DataKept, LocalTo
    <3> QED BY <3>1, <3>2
  <2> QED BY <2>3, <2>4, <2>5 DEF DataInv, DataKept
<1>2. ASSUME NEW m \in Majors, Device(m)
      PROVE  DataInv'
  <2>1. DataKept
    BY <1>2, DataDeviceStep
  <2>2. /\ UNCHANGED <<pc, op, args, bh, first, scan, held, current>>
        /\ \A b \in Buffers : ~b_lock[b] => ~b_lock'[b]
    <3>1. CASE Transfer(m)
      BY <3>1 DEF Transfer, callVars, bufVars
    <3>2. ASSUME NEW ok \in BOOLEAN, EndRequest(m, ok)
          PROVE  /\ UNCHANGED <<pc, op, args, bh, first, scan, held, current>>
                 /\ \A b \in Buffers : ~b_lock[b] => ~b_lock'[b]
      BY <1>0, <3>2 DEF EndRequest, callVars, TypeInv, TypeOK, BufTypeOK
    <3> QED BY <1>2, <3>1, <3>2 DEF Device
  <2>3. ASSUME NEW q \in Procs
        PROVE  CallProc(q)' /\ HeldValid(q)'
    <3>1. HeldValid(q)'
      BY <1>0, <2>1, <2>2, HeldValidStill DEF DataKept
    <3>2. pc[q] = "got" => bh[q] \in Buffers
      BY <1>0 DEF TypeInv, ControlOK, Control
    <3>3. CallProc(q)'
      BY <1>0, <2>2, <3>2 DEF CallProc, Getting
    <3> QED BY <3>1, <3>3
  <2> QED BY <2>1, <2>3 DEF DataInv, DataKept
<1>3. CASE UNCHANGED vars
  <2>1. /\ UNCHANGED <<pc, op, args, bh, first, scan, held, current, b_lock, rbh, rw>>
        /\ UNCHANGED <<b_blk, b_dirt, b_uptodate, b_cur, disk_cur, request>>
    BY <1>3 DEF vars, bufVars, reqVars, dataVars, callVars
  <2>2. DataSame
    BY <2>1 DEF DataSame, Making
  <2>3. DataKept
    BY <1>0, <2>2, SameKeeps DEF DataInv
  <2>4. ASSUME NEW q \in Procs
        PROVE  CallProc(q)' /\ HeldValid(q)'
    <3>1. HeldValid(q)'
      BY <1>0, <2>1, <2>3, HeldValidStill DEF DataKept
    <3>2. CallProc(q)'
      BY <1>0, <2>1 DEF CallProc, Getting
    <3> QED BY <3>1, <3>2
  <2> QED BY <2>3, <2>4 DEF DataInv, DataKept
<1> QED BY <1>1, <1>2, <1>3 DEF Next

(* and it implies HeldIsLatest. *)
LEMMA DataHeldIsLatest ==
  ASSUME Inv, UseInv, DataInv
  PROVE  HeldIsLatest
<1> SUFFICES ASSUME NEW p \in Procs, NEW b \in Buffers, pc[p] = "user", held[p][b] # NoBlock,
                    held[p][b][1] \notin Removable
             PROVE  b_cur[b]
  BY DEF HeldIsLatest
<1>1. bh[p] = NoBuffer /\ first[p] = NoBuffer
  BY DEF DataInv, CallProc, UseInv, UseProc
<1>2. b_blk[b] = held[p][b]
  BY DEF UseInv, References, Holders
<1>3. Fixed(b)
  BY <1>2 DEF Fixed
<1>4. b_uptodate[b]
  BY <1>1, <1>3, BlockFacts DEF DataInv, HeldValid
<1> QED BY <1>3, <1>4 DEF DataInv, BuffersValid, ValidData

(* Without block_write and failing writes the latest contents of a block   *)
(* of a fixed medium are on the disk, or in its buffer and marked or       *)
(* queued for writing, whatever callers, syncs and the disk interrupt do.  *)
THEOREM NoLostWriteHolds ==
  "block_write" \notin Ops /\ WRITE \notin Fallible => (Spec => []NoLostWrite)
<1> SUFFICES ASSUME NoDamage PROVE Spec => []NoLostWrite
  BY DEF NoDamage
<1>1. Inv /\ UseInv /\ DataInv /\ [Next]_vars => Inv' /\ UseInv' /\ DataInv'
  BY InvNext, UseNext, DataNext
<1>2. Init => Inv /\ UseInv /\ DataInv
  BY InvInit, UseInit, DataInit
<1>3. DataInv => NoLostWrite
  BY DEF DataInv
<1> QED BY <1>1, <1>2, <1>3, PTL DEF Spec

(* Under the same conditions the data of a buffer of a fixed medium that a *)
(* caller holds outside the kernel is the latest: bread never hands out a  *)
(* buffer before its read is done, and nobody invalidates it in use.       *)
THEOREM HeldIsLatestHolds ==
  "block_write" \notin Ops /\ WRITE \notin Fallible => (Spec => []HeldIsLatest)
<1> SUFFICES ASSUME NoDamage PROVE Spec => []HeldIsLatest
  BY DEF NoDamage
<1>1. Inv /\ UseInv /\ DataInv /\ [Next]_vars => Inv' /\ UseInv' /\ DataInv'
  BY InvNext, UseNext, DataNext
<1>2. Init => Inv /\ UseInv /\ DataInv
  BY InvInit, UseInit, DataInit
<1>3. Inv /\ UseInv /\ DataInv => HeldIsLatest
  BY DataHeldIsLatest
<1> QED BY <1>1, <1>2, <1>3, PTL DEF Spec
=============================================================================
