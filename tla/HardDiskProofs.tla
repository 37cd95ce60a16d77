--------------------------- MODULE HardDiskProofs ---------------------------
(***************************************************************************)
(* Proofs about HardDisk: its types, that the queue never stalls, that     *)
(* writes stay on their own sectors and that a request that ends well has  *)
(* moved both its sectors, for every geometry, partition table, error      *)
(* limit and number of requests.                                           *)
(***************************************************************************)
EXTENDS HardDisk, BlockRequestProofs

Contents == {Blank(s) : s \in DiskSectors} \cup {Written(i, h) : i \in Requests, h \in {0, 1}}
            \cup {Junk}

(* The contents of buffers and of the disk. *)
DataInv == /\ data \in [Requests -> [{0, 1} -> Contents]]
           /\ disk \in [Drives -> [DiskSectors -> Contents]]
           /\ hd_data \in Contents

(* The requests in the queue are different ones, made before; only the     *)
(* first one has been worked on.                                           *)
QueueInv ==
  /\ \A k \in 1 .. Len(queue) : queue[k] <= made
  /\ \A j, k \in 1 .. Len(queue) : queue[j] = queue[k] => j = k
  /\ \A k \in 2 .. Len(queue) :
       /\ nr_sectors[queue[k]] = 2 /\ buffer[queue[k]] = 0 /\ errors[queue[k]] = 0
       /\ sector[queue[k]] = 2 * block[queue[k]]

(* Both halves of request i are on its partition. *)
Inside(i) == dev[i] < 5 * NR_HD /\ 2 * block[i] + 2 <= Partition[dev[i]][2]

(* The halves before `buffer` are where they belong. *)
Done(i) == \A h \in {0, 1} :
             h < buffer[i] => disk[DriveOf(i)][Place(i, h)] = data[i][h]

(* How far the current request is: sector, nr_sectors and buffer agree. *)
HeadInv ==
  queue # << >> =>
    /\ nr_sectors[CURRENT] \in {1, 2}
    /\ buffer[CURRENT] = 2 - nr_sectors[CURRENT]
    /\ sector[CURRENT] = 2 * block[CURRENT] + buffer[CURRENT]
    /\ errors[CURRENT] < MAX_ERRORS
    /\ Done(CURRENT)

(* The controller works on what is left of the current request. *)
Transfers(c) ==
  /\ cmd[CURRENT] = c /\ Inside(CURRENT)
  /\ hd_drive = DriveOf(CURRENT) /\ hd_lba = Place(CURRENT, buffer[CURRENT])

ControllerInv ==
  /\ pc = "request" => hd_cmd = "none"
  /\ pc = "idle" /\ queue # << >> =>
       /\ do_hd = "read_intr" => Transfers(READ)
       /\ do_hd = "write_intr" => Transfers(WRITE) /\ hd_data = data[CURRENT][buffer[CURRENT]]

Inv == TypeOK /\ DataInv /\ QueueInv /\ HeadInv /\ ControllerInv /\ NeverStalled

-----------------------------------------------------------------------------
(* Division.                                                               *)

LEMMA DivMod ==
  ASSUME NEW a \in Nat, NEW d \in Nat \ {0}
  PROVE  a \div d \in Nat /\ a % d \in 0 .. d - 1 /\ a = d * (a \div d) + (a % d)
OBVIOUS

(* Splitting a sector number into cylinder, head and sector and putting it *)
(* together again, as the controller does, gives the sector.               *)
LEMMA AddressOf ==
  ASSUME NEW b \in Nat
  PROVE  Address(Cyl(b), HeadOf(b), Sec(b)) = b
<1> DEFINE t == b \div sects
           r == b % sects
           c == t \div heads
           h == t % heads
<1>1. t \in Nat /\ r \in Nat /\ b = sects * t + r
  BY DivMod, DrivesAssumption
<1> HIDE DEF t, r
<1>2. c \in Nat /\ h \in Nat /\ t = heads * c + h
  BY <1>1, DivMod, DrivesAssumption
<1>3. Cyl(b) = c /\ HeadOf(b) = h /\ Sec(b) = r + 1
  BY DEF Cyl, HeadOf, Sec, t, r
<1> HIDE DEF c, h
<1>4. Address(Cyl(b), HeadOf(b), Sec(b)) = (c * heads + h) * sects + r
  BY <1>1, <1>2, <1>3, DrivesAssumption DEF Address
<1>5. c * heads + h = t
  BY <1>2, DrivesAssumption
<1> QED BY <1>1, <1>4, <1>5, DrivesAssumption

LEMMA DriveOfMinor ==
  ASSUME NEW m \in Nat, m < 5 * NR_HD
  PROVE  m \div 5 \in Drives
BY DrivesAssumption DEF Drives

(* The sectors of a request inside its partition are on the drive. *)
LEMMA PlaceOnDrive ==
  ASSUME TypeOK, NEW i \in Requests, Inside(i), NEW h \in {0, 1}
  PROVE  DriveOf(i) \in Drives /\ Place(i, h) \in DiskSectors
         /\ Place(i, h) < Partition[dev[i]][1] + Partition[dev[i]][2]
<1> DEFINE m == dev[i]
           start == Partition[m][1]
           size == Partition[m][2]
           total == cyls * heads * sects
<1>1. m \in Nat /\ m < 5 * NR_HD /\ block[i] \in Nat /\ 2 * block[i] + 2 <= size
  BY DEF TypeOK, Inside
<1>2. DriveOf(i) \in Drives
  BY <1>1, DriveOfMinor DEF DriveOf
<1>3. m \in DOMAIN Partition
  BY <1>1, PartitionAssumption, DrivesAssumption
<1>4. start \in Nat /\ size \in Nat /\ start + size <= total
  BY <1>3, PartitionAssumption
<1>5. total \in Nat
  BY DrivesAssumption
<1> HIDE DEF m, start, size, total
<1>6. start + 2 * block[i] + h \in 0 .. total - 1 /\ start + 2 * block[i] + h < start + size
  BY <1>1, <1>4, <1>5
<1>7. Place(i, h) = start + 2 * block[i] + h /\ DiskSectors = 0 .. total - 1
  BY DEF Place, DiskSectors, m, start, total
<1> QED BY <1>2, <1>6, <1>7 DEF start, size, m

-----------------------------------------------------------------------------
(* The queue.                                                              *)

LEMMA CurrentProperties ==
  ASSUME TypeOK, queue # << >>
  PROVE  /\ CURRENT = queue[1] /\ CURRENT \in Requests
         /\ Len(queue) \in Nat /\ Len(queue) >= 1
         /\ Tail(queue) \in Seq(Requests) /\ Len(Tail(queue)) = Len(queue) - 1
         /\ \A k \in 1 .. Len(queue) - 1 : Tail(queue)[k] = queue[k + 1]
         /\ \A k \in 1 .. Len(queue) : queue[k] \in Requests
<1>1. queue \in Seq(Requests)
  BY DEF TypeOK
<1>2. Len(queue) # 0 /\ Len(queue) \in Nat
  BY <1>1, EmptySeq, LenProperties
<1> QED BY <1>1, <1>2, HeadTailProperties DEF CURRENT

(* The types of the fields of requests. *)
LEMMA Fields ==
  ASSUME TypeOK
  PROVE  /\ cmd \in [Requests -> {READ, WRITE}]
         /\ dev \in [Requests -> Nat] /\ block \in [Requests -> Nat]
         /\ sector \in [Requests -> Nat] /\ nr_sectors \in [Requests -> 0 .. 2]
         /\ buffer \in [Requests -> 0 .. 2] /\ errors \in [Requests -> 0 .. MAX_ERRORS]
         /\ status \in [Requests -> {"none", "queued", "ok", "failed"}]
         /\ queue \in Seq(Requests) /\ made \in 0 .. MaxRequests
BY DEF TypeOK

LEMMA CurrentFields ==
  ASSUME TypeOK, CURRENT \in Requests
  PROVE  /\ cmd[CURRENT] \in {READ, WRITE} /\ dev[CURRENT] \in Nat /\ block[CURRENT] \in Nat
         /\ sector[CURRENT] \in Nat /\ nr_sectors[CURRENT] \in 0 .. 2 /\ nr_sectors[CURRENT] \in Nat
         /\ buffer[CURRENT] \in 0 .. 2 /\ errors[CURRENT] \in 0 .. MAX_ERRORS
<1>1. /\ cmd \in [Requests -> {READ, WRITE}]
      /\ dev \in [Requests -> Nat] /\ block \in [Requests -> Nat]
      /\ sector \in [Requests -> Nat] /\ nr_sectors \in [Requests -> 0 .. 2]
      /\ buffer \in [Requests -> 0 .. 2] /\ errors \in [Requests -> 0 .. MAX_ERRORS]
  BY Fields
<1>2. nr_sectors[CURRENT] \in 0 .. 2
  BY <1>1
<1> QED BY <1>1, <1>2

(* A function that differs from another one at most at z. *)
SameBut(f, g, z) == \A i \in Requests : i # z => g[i] = f[i]

(* The requests other than z are left alone. *)
OnlyRequest(z) == /\ SameBut(nr_sectors, nr_sectors', z) /\ SameBut(buffer, buffer', z)
                  /\ SameBut(errors, errors', z) /\ SameBut(sector, sector', z)
                  /\ SameBut(data, data', z) /\ UNCHANGED <<dev, block, made>>

(* When the current request ends, the next one is a fresh one. *)
LEMMA PopKeeps ==
  ASSUME TypeOK, QueueInv, queue # << >>, queue' = Tail(queue), OnlyRequest(CURRENT)
  PROVE  queue' \in Seq(Requests) /\ QueueInv' /\ HeadInv'
<1>1. /\ CURRENT = queue[1] /\ Len(queue) \in Nat /\ Len(queue) >= 1
      /\ queue' \in Seq(Requests) /\ Len(queue') = Len(queue) - 1
      /\ \A k \in 1 .. Len(queue) - 1 : queue'[k] = queue[k + 1]
      /\ \A k \in 1 .. Len(queue) : queue[k] \in Requests
  BY CurrentProperties
<1>2. /\ \A k \in 1 .. Len(queue) : queue[k] <= made
      /\ \A j, k \in 1 .. Len(queue) : queue[j] = queue[k] => j = k
      /\ \A k \in 2 .. Len(queue) :
           /\ nr_sectors[queue[k]] = 2 /\ buffer[queue[k]] = 0 /\ errors[queue[k]] = 0
           /\ sector[queue[k]] = 2 * block[queue[k]]
  BY DEF QueueInv
<1>3. ASSUME NEW k \in 1 .. Len(queue')
      PROVE  /\ queue'[k] = queue[k + 1] /\ k + 1 \in 2 .. Len(queue) /\ queue'[k] <= made'
             /\ nr_sectors'[queue'[k]] = 2 /\ buffer'[queue'[k]] = 0
             /\ errors'[queue'[k]] = 0 /\ sector'[queue'[k]] = 2 * block'[queue'[k]]
  <2>1. queue'[k] = queue[k + 1] /\ k + 1 \in 2 .. Len(queue)
    BY <1>1
  <2>2. queue[k + 1] \in Requests /\ queue[k + 1] # CURRENT
    BY <1>1, <1>2, <2>1
  <2>3. /\ nr_sectors[queue[k + 1]] = 2 /\ buffer[queue[k + 1]] = 0
        /\ errors[queue[k + 1]] = 0 /\ sector[queue[k + 1]] = 2 * block[queue[k + 1]]
        /\ queue[k + 1] <= made
    BY <1>1, <1>2, <2>1
  <2> QED BY <2>1, <2>2, <2>3 DEF OnlyRequest, SameBut
<1>4. QueueInv'
  <2>1. \A j, k \in 1 .. Len(queue') : queue'[j] = queue'[k] => j = k
    <3> SUFFICES ASSUME NEW j \in 1 .. Len(queue'), NEW k \in 1 .. Len(queue'), queue'[j] = queue'[k]
                 PROVE  j = k
      OBVIOUS
    <3>1. /\ queue'[j] = queue[j + 1] /\ queue'[k] = queue[k + 1]
          /\ j + 1 \in 1 .. Len(queue) /\ k + 1 \in 1 .. Len(queue)
      BY <1>1
    <3>2. j + 1 = k + 1
      BY <1>2, <3>1
    <3> QED BY <1>1, <3>2
  <2>2. \A k \in 1 .. Len(queue') : queue'[k] <= made'
    BY <1>3
  <2>3. \A k \in 2 .. Len(queue') :
          /\ nr_sectors'[queue'[k]] = 2 /\ buffer'[queue'[k]] = 0
          /\ errors'[queue'[k]] = 0 /\ sector'[queue'[k]] = 2 * block'[queue'[k]]
    <3> TAKE k \in 2 .. Len(queue')
    <3>1. k \in 1 .. Len(queue')
      BY <1>1
    <3> QED BY <1>3, <3>1
  <2> QED BY <2>1, <2>2, <2>3 DEF QueueInv
<1>5. HeadInv'
  <2> SUFFICES ASSUME queue' # << >>
               PROVE  /\ nr_sectors'[Head(queue')] \in {1, 2}
                      /\ buffer'[Head(queue')] = 2 - nr_sectors'[Head(queue')]
                      /\ sector'[Head(queue')] = 2 * block'[Head(queue')] + buffer'[Head(queue')]
                      /\ errors'[Head(queue')] < MAX_ERRORS
                      /\ Done(CURRENT)'
    BY DEF HeadInv, CURRENT
  <2>1. Len(queue') # 0 /\ Head(queue') = queue'[1]
    BY <1>1, EmptySeq, HeadTailProperties
  <2>2. 1 \in 1 .. Len(queue')
    BY <1>1, <2>1
  <2>3. /\ nr_sectors'[queue'[1]] = 2 /\ buffer'[queue'[1]] = 0 /\ errors'[queue'[1]] = 0
        /\ sector'[queue'[1]] = 2 * block'[queue'[1]] /\ queue'[1] \in Requests
    <3>1. queue'[1] = queue[2] /\ 2 \in 1 .. Len(queue)
      BY <1>3, <2>2
    <3> QED BY <1>1, <1>3, <2>2, <3>1
  <2>4. Done(CURRENT)'
    BY <2>1, <2>3 DEF Done, CURRENT
  <2>5. block'[queue'[1]] \in Nat
    BY <2>3 DEF TypeOK, OnlyRequest
  <2> QED BY <2>1, <2>3, <2>4, <2>5, BoundsAssumption
<1> QED BY <1>1, <1>4, <1>5

(* The current request stays the current one. *)
LEMMA StayKeeps ==
  ASSUME TypeOK, QueueInv, queue # << >>, queue' = queue, OnlyRequest(CURRENT)
  PROVE  QueueInv'
<1>1. /\ CURRENT = queue[1] /\ Len(queue) \in Nat /\ Len(queue) >= 1
      /\ \A k \in 1 .. Len(queue) : queue[k] \in Requests
  BY CurrentProperties
<1>2. ASSUME NEW k \in 2 .. Len(queue)
      PROVE  /\ nr_sectors'[queue[k]] = 2 /\ buffer'[queue[k]] = 0
             /\ errors'[queue[k]] = 0 /\ sector'[queue[k]] = 2 * block'[queue[k]]
  <2>1. k \in 1 .. Len(queue) /\ 1 \in 1 .. Len(queue) /\ k # 1
    BY <1>1
  <2>2. queue[k] # CURRENT /\ queue[k] \in Requests
    BY <1>1, <2>1 DEF QueueInv
  <2>3. /\ nr_sectors[queue[k]] = 2 /\ buffer[queue[k]] = 0
        /\ errors[queue[k]] = 0 /\ sector[queue[k]] = 2 * block[queue[k]]
    BY DEF QueueInv
  <2> QED BY <2>2, <2>3 DEF OnlyRequest, SameBut
<1> QED BY <1>2 DEF QueueInv, OnlyRequest

(* What has been moved is not disturbed. *)
DoneKept == \A h \in {0, 1} :
  h < buffer[CURRENT] =>
    disk'[DriveOf(CURRENT)][Place(CURRENT, h)] = disk[DriveOf(CURRENT)][Place(CURRENT, h)]

LEMMA SameHead ==
  ASSUME HeadInv, DoneKept, UNCHANGED <<dev, block, sector, nr_sectors, buffer, data, queue>>,
         errors'[CURRENT] < MAX_ERRORS
  PROVE  HeadInv'
<1> SUFFICES ASSUME queue # << >>
             PROVE  /\ nr_sectors[CURRENT] \in {1, 2}
                    /\ buffer[CURRENT] = 2 - nr_sectors[CURRENT]
                    /\ sector[CURRENT] = 2 * block[CURRENT] + buffer[CURRENT]
                    /\ errors'[CURRENT] < MAX_ERRORS
                    /\ Done(CURRENT)'
  BY DEF HeadInv, CURRENT
<1>1. Done(CURRENT)'
  <2> SUFFICES ASSUME NEW h \in {0, 1}, h < buffer[CURRENT]
               PROVE  disk'[DriveOf(CURRENT)][Place(CURRENT, h)] = data[CURRENT][h]
    BY DEF Done, CURRENT, DriveOf, Place
  <2>1. disk[DriveOf(CURRENT)][Place(CURRENT, h)] = data[CURRENT][h]
    BY DEF HeadInv, Done
  <2> QED BY <2>1 DEF DoneKept
<1> QED BY <1>1 DEF HeadInv

(* An error: the request is tried again or given up. *)
LEMMA BadKeeps ==
  ASSUME TypeOK, QueueInv, HeadInv, queue # << >>, bad_rw_intr,
         UNCHANGED <<reqVars, posVars, data>>, DoneKept
  PROVE  /\ errors' \in [Requests -> 0 .. MAX_ERRORS]
         /\ status' \in [Requests -> {"none", "queued", "ok", "failed"}]
         /\ queue' \in Seq(Requests) /\ reset' \in BOOLEAN
         /\ QueueInv' /\ HeadInv'
<1> DEFINE n == errors[CURRENT] + 1
<1>1. /\ errors \in [Requests -> 0 .. MAX_ERRORS] /\ CURRENT \in Requests
      /\ status \in [Requests -> {"none", "queued", "ok", "failed"}]
      /\ queue \in Seq(Requests) /\ reset \in BOOLEAN
  BY CurrentProperties DEF TypeOK
<1>2. errors' = [errors EXCEPT ![CURRENT] = n] /\ n \in 1 .. MAX_ERRORS
  BY <1>1, BoundsAssumption DEF bad_rw_intr, HeadInv
<1>3. errors' \in [Requests -> 0 .. MAX_ERRORS]
  BY <1>1, <1>2
<1>4. OnlyRequest(CURRENT)
  BY <1>1, <1>2 DEF OnlyRequest, SameBut, reqVars, posVars
<1>5. reset' \in BOOLEAN
  BY <1>1 DEF bad_rw_intr
<1>6. CASE GiveUp(n)
  <2>1. queue' = Tail(queue) /\ status' = [status EXCEPT ![CURRENT] = "failed"]
    BY <1>6 DEF bad_rw_intr, Ended
  <2>2. status' \in [Requests -> {"none", "queued", "ok", "failed"}]
    BY <1>1, <2>1
  <2> QED BY <1>3, <1>4, <1>5, <2>1, <2>2, PopKeeps
<1>7. CASE ~GiveUp(n)
  <2>1. queue' = queue /\ status' = status
    BY <1>7 DEF bad_rw_intr, endVars
  <2>2. errors'[CURRENT] < MAX_ERRORS
    BY <1>1, <1>2, <1>7, BoundsAssumption DEF GiveUp
  <2>3. UNCHANGED <<dev, block, sector, nr_sectors, buffer, data, queue>>
    BY <2>1 DEF reqVars, posVars
  <2>4. HeadInv'
    BY <2>2, <2>3, SameHead
  <2>5. QueueInv'
    BY <1>4, <2>1, StayKeeps
  <2> QED BY <1>1, <1>3, <1>5, <2>1, <2>4, <2>5
<1> QED BY <1>6, <1>7

LEMMA RequestState ==
  ASSUME pc' = "request", hd_cmd' = "none"
  PROVE  ControllerInv' /\ NeverStalled'
BY DEF ControllerInv, NeverStalled

LEMMA SameData ==
  ASSUME DataInv, UNCHANGED <<data, disk, hd_data>>
  PROVE  DataInv'
BY DEF DataInv

LEMMA SameQueue ==
  ASSUME QueueInv, UNCHANGED <<reqVars, posVars, errors, queue>>
  PROVE  QueueInv'
BY DEF QueueInv, reqVars, posVars

LEMMA SameHeadInv ==
  ASSUME HeadInv, UNCHANGED <<reqVars, posVars, errors, queue, data, disk>>
  PROVE  HeadInv'
BY DEF HeadInv, Done, CURRENT, Place, DriveOf, reqVars, posVars

-----------------------------------------------------------------------------
(* do_hd_request                                                           *)

LEMMA NothingToDoKeeps ==
  ASSUME Inv, NothingToDo
  PROVE  Inv'
<1>1. /\ pc = "request" /\ queue = << >> /\ pc' = "idle" /\ hd_cmd = "none"
      /\ UNCHANGED <<reqVars, posVars, endVars, errors, data, reset, recalibrate, do_hd, ctlVars, disk>>
  BY DEF NothingToDo, Inv, ControllerInv
<1>2. TypeOK'
  BY <1>1 DEF Inv, TypeOK, reqVars, posVars, endVars, ctlVars
<1>3. DataInv'
  BY <1>1, SameData DEF Inv, ctlVars
<1>4. QueueInv' /\ HeadInv'
  BY <1>1, SameQueue, SameHeadInv DEF Inv, endVars
<1>5. ControllerInv' /\ NeverStalled'
  BY <1>1 DEF ControllerInv, NeverStalled, endVars, ctlVars
<1> QED BY <1>2, <1>3, <1>4, <1>5 DEF Inv

LEMMA RejectKeeps ==
  ASSUME Inv, Reject
  PROVE  Inv'
<1>1. /\ pc = "request" /\ queue # << >> /\ hd_cmd = "none"
      /\ queue' = Tail(queue) /\ status' = [status EXCEPT ![CURRENT] = "failed"]
      /\ UNCHANGED <<reqVars, posVars, errors, data, reset, recalibrate, do_hd, pc, ctlVars, disk>>
  BY DEF Reject, Ended, Inv, ControllerInv
<1>2. OnlyRequest(CURRENT)
  BY <1>1 DEF OnlyRequest, SameBut, reqVars, posVars
<1>3. queue' \in Seq(Requests) /\ QueueInv' /\ HeadInv'
  BY <1>1, <1>2, PopKeeps DEF Inv
<1>4. status' \in [Requests -> {"none", "queued", "ok", "failed"}]
  BY <1>1 DEF Inv, TypeOK
<1>5. TypeOK'
  BY <1>1, <1>3, <1>4 DEF Inv, TypeOK, reqVars, posVars, ctlVars
<1>6. DataInv'
  BY <1>1, SameData DEF Inv, ctlVars
<1>7. ControllerInv' /\ NeverStalled'
  BY <1>1, RequestState DEF ctlVars
<1> QED BY <1>3, <1>5, <1>6, <1>7 DEF Inv

(* What Start and hd_out are called with. *)
LEMMA StartProperties ==
  ASSUME TypeOK, HeadInv, Start
  PROVE  /\ CURRENT \in Requests /\ Inside(CURRENT) /\ dev[CURRENT] \div 5 \in Drives
         /\ DriveSector = Place(CURRENT, buffer[CURRENT])
         /\ buffer[CURRENT] \in {0, 1} /\ DriveSector \in DiskSectors
<1>1. CURRENT \in Requests /\ queue # << >> /\ InRange
  BY CurrentProperties DEF Start
<1>2. /\ dev[CURRENT] \in Nat /\ block[CURRENT] \in Nat /\ sector[CURRENT] \in Nat
      /\ dev[CURRENT] < 5 * NR_HD
      /\ sector[CURRENT] + 2 <= Partition[dev[CURRENT]][2]
      /\ sector[CURRENT] = 2 * block[CURRENT] + buffer[CURRENT]
      /\ buffer[CURRENT] \in {0, 1}
  <2>1. /\ dev[CURRENT] \in Nat /\ block[CURRENT] \in Nat /\ sector[CURRENT] \in Nat
        /\ nr_sectors[CURRENT] \in {1, 2}
    BY <1>1, CurrentFields DEF HeadInv
  <2> QED BY <1>1, <2>1 DEF InRange, HeadInv
<1>3. dev[CURRENT] \in DOMAIN Partition
  BY <1>2, PartitionAssumption, DrivesAssumption
<1>4. Partition[dev[CURRENT]][1] \in Nat /\ Partition[dev[CURRENT]][2] \in Nat
  BY <1>3, PartitionAssumption
<1>5. Inside(CURRENT)
  BY <1>2, <1>4 DEF Inside
<1>6. DriveSector = sector[CURRENT] + Partition[dev[CURRENT]][1]
  BY <1>2, <1>4, AddressOf DEF DriveSector
<1>7. DriveSector = Place(CURRENT, buffer[CURRENT])
  BY <1>2, <1>4, <1>6 DEF Place
<1>8. DriveSector \in DiskSectors
  BY <1>1, <1>2, <1>5, <1>7, PlaceOnDrive
<1> QED BY <1>1, <1>2, <1>5, <1>7, <1>8, DriveOfMinor

LEMMA LbaTypes ==
  /\ 0 \in 0 .. cyls * heads * sects
  /\ \A s \in DiskSectors : /\ s \in 0 .. cyls * heads * sects
                            /\ s + 1 \in 0 .. cyls * heads * sects
<1>1. cyls * heads * sects \in Nat
  BY DrivesAssumption
<1> QED BY <1>1 DEF DiskSectors

(* A command is given to the controller; nothing else changes. *)
LEMMA CommandKeeps ==
  ASSUME Inv, Start, NEW n \in Nat, NEW lba \in 0 .. cyls * heads * sects,
         NEW c \in {"SPECIFY", "RESTORE", "READ", "WRITE"},
         NEW h \in {"read_intr", "write_intr", "recal_intr"},
         hd_out(dev[CURRENT] \div 5, n, lba, c, h), pc' = "idle",
         UNCHANGED <<reqVars, posVars, endVars, errors, data, disk>>,
         hd_data' \in Contents, reset' \in BOOLEAN, recalibrate' \in BOOLEAN
  PROVE  TypeOK' /\ DataInv' /\ QueueInv' /\ HeadInv'
<1>1. /\ do_hd' = h /\ hd_cmd' = c /\ hd_drive' = dev[CURRENT] \div 5 /\ hd_lba' = lba
      /\ hd_left' = n /\ dev[CURRENT] \div 5 \in Drives
  BY StartProperties DEF hd_out, Inv
<1>2. TypeOK'
  BY <1>1 DEF Inv, TypeOK, reqVars, posVars, endVars
<1>3. DataInv'
  BY DEF Inv, DataInv
<1>4. QueueInv' /\ HeadInv'
  BY SameQueue, SameHeadInv DEF Inv, endVars
<1> QED BY <1>2, <1>3, <1>4

LEMMA ResetKeeps ==
  ASSUME Inv, reset_hd \/ Recalibrate
  PROVE  Inv'
<1>1. /\ Start /\ pc' = "idle" /\ do_hd' = "recal_intr" /\ hd_cmd' \in {"SPECIFY", "RESTORE"}
      /\ hd_out(dev[CURRENT] \div 5, sects, 0, hd_cmd', "recal_intr")
      /\ UNCHANGED <<reqVars, posVars, endVars, errors, data, hd_data, disk>>
      /\ reset' \in BOOLEAN /\ recalibrate' \in BOOLEAN
  BY DEF reset_hd, Recalibrate, hd_out, Inv, TypeOK
<1>2. sects \in Nat /\ hd_data' \in Contents /\ 0 \in 0 .. cyls * heads * sects
  BY <1>1, DrivesAssumption, LbaTypes DEF Inv, DataInv
<1>3. TypeOK' /\ DataInv' /\ QueueInv' /\ HeadInv'
  <2>1. ASSUME NEW c \in {"SPECIFY", "RESTORE"}, hd_cmd' = c
        PROVE  TypeOK' /\ DataInv' /\ QueueInv' /\ HeadInv'
    BY <1>1, <1>2, <2>1, CommandKeeps
  <2> QED BY <1>1, <2>1
<1>4. queue' # << >>
  BY <1>1 DEF Start, endVars
<1>5. ControllerInv' /\ NeverStalled'
  BY <1>1, <1>4 DEF ControllerInv, NeverStalled, Expects
<1> QED BY <1>3, <1>5 DEF Inv

LEMMA StartTransferKeeps ==
  ASSUME Inv, StartRead \/ StartWrite
  PROVE  Inv'
<1>1. /\ Start /\ pc' = "idle" /\ UNCHANGED <<reset, recalibrate>>
      /\ UNCHANGED <<reqVars, posVars, endVars, errors, data, disk>>
  BY DEF StartRead, StartWrite, Ready
<1>2. /\ CURRENT \in Requests /\ Inside(CURRENT) /\ dev[CURRENT] \div 5 \in Drives
      /\ DriveSector = Place(CURRENT, buffer[CURRENT])
      /\ buffer[CURRENT] \in {0, 1} /\ DriveSector \in 0 .. cyls * heads * sects
      /\ nr_sectors[CURRENT] \in Nat /\ reset' \in BOOLEAN /\ recalibrate' \in BOOLEAN
  <2>1. CURRENT \in Requests /\ DriveSector \in DiskSectors
    BY <1>1, StartProperties DEF Inv
  <2>2. nr_sectors[CURRENT] \in Nat
    BY <2>1, CurrentFields DEF Inv
  <2>3. reset' \in BOOLEAN /\ recalibrate' \in BOOLEAN
    BY <1>1 DEF Inv, TypeOK
  <2> QED BY <1>1, <2>1, <2>2, <2>3, StartProperties, LbaTypes DEF Inv
<1>3. queue' # << >> /\ queue' = queue /\ CURRENT' = CURRENT
  BY <1>1 DEF Start, endVars, CURRENT
<1>4. CASE StartRead
  <2>1. /\ hd_out(dev[CURRENT] \div 5, nr_sectors[CURRENT], DriveSector, "READ", "read_intr")
        /\ cmd[CURRENT] = READ /\ hd_data' = hd_data
    BY <1>4 DEF StartRead
  <2>2. hd_data' \in Contents
    BY <2>1 DEF Inv, DataInv
  <2>3. TypeOK' /\ DataInv' /\ QueueInv' /\ HeadInv'
    <3>1. ASSUME NEW n \in Nat, NEW lba \in 0 .. cyls * heads * sects,
                 n = nr_sectors[CURRENT], lba = DriveSector
          PROVE  TypeOK' /\ DataInv' /\ QueueInv' /\ HeadInv'
      BY <1>1, <1>2, <2>1, <2>2, <3>1, CommandKeeps
    <3> QED BY <1>2, <3>1
  <2>4. /\ do_hd' = "read_intr" /\ hd_cmd' = "READ" /\ hd_drive' = DriveOf(CURRENT)
        /\ hd_lba' = Place(CURRENT, buffer[CURRENT]) /\ hd_left' = nr_sectors[CURRENT]
    BY <1>2, <2>1 DEF hd_out, DriveOf
  <2>5. ControllerInv' /\ NeverStalled'
    BY <1>1, <1>2, <1>3, <2>1, <2>4
       DEF ControllerInv, NeverStalled, Expects, Transfers, Inside, DriveOf, Place, reqVars, posVars
  <2> QED BY <2>3, <2>5 DEF Inv
<1>5. CASE StartWrite
  <2>1. /\ hd_out(dev[CURRENT] \div 5, nr_sectors[CURRENT], DriveSector, "WRITE", "write_intr")
        /\ cmd[CURRENT] = WRITE /\ hd_data' = data[CURRENT][buffer[CURRENT]]
    BY <1>5 DEF StartWrite
  <2>2. hd_data' \in Contents
    BY <1>2, <2>1 DEF Inv, DataInv
  <2>3. TypeOK' /\ DataInv' /\ QueueInv' /\ HeadInv'
    <3>1. ASSUME NEW n \in Nat, NEW lba \in 0 .. cyls * heads * sects,
                 n = nr_sectors[CURRENT], lba = DriveSector
          PROVE  TypeOK' /\ DataInv' /\ QueueInv' /\ HeadInv'
      BY <1>1, <1>2, <2>1, <2>2, <3>1, CommandKeeps
    <3> QED BY <1>2, <3>1
  <2>4. /\ do_hd' = "write_intr" /\ hd_cmd' = "WRITE" /\ hd_drive' = DriveOf(CURRENT)
        /\ hd_lba' = Place(CURRENT, buffer[CURRENT]) /\ hd_left' = nr_sectors[CURRENT]
    BY <1>2, <2>1 DEF hd_out, DriveOf
  <2>5. ControllerInv' /\ NeverStalled'
    BY <1>1, <1>2, <1>3, <2>1, <2>4
       DEF ControllerInv, NeverStalled, Expects, Transfers, Inside, DriveOf, Place, reqVars, posVars
  <2> QED BY <2>3, <2>5 DEF Inv
<1> QED BY <1>4, <1>5

LEMMA StartWriteNoDrqKeeps ==
  ASSUME Inv, StartWriteNoDrq
  PROVE  Inv'
<1>1. /\ queue # << >> /\ pc = "request" /\ pc' = pc /\ bad_rw_intr /\ do_hd' = "write_intr"
      /\ hd_cmd' = "none"
      /\ UNCHANGED <<reqVars, posVars, data, recalibrate, hd_drive, hd_lba, hd_left, hd_data, disk>>
  BY DEF StartWriteNoDrq, Ready, Start
<1>2. /\ errors' \in [Requests -> 0 .. MAX_ERRORS]
      /\ status' \in [Requests -> {"none", "queued", "ok", "failed"}]
      /\ queue' \in Seq(Requests) /\ reset' \in BOOLEAN /\ QueueInv' /\ HeadInv'
  <2>1. DoneKept
    BY <1>1 DEF DoneKept
  <2>2. UNCHANGED <<reqVars, posVars, data>>
    BY <1>1
  <2> QED BY <1>1, <2>1, <2>2, BadKeeps DEF Inv
<1>3. TypeOK'
  BY <1>1, <1>2 DEF Inv, TypeOK, reqVars, posVars
<1>4. DataInv'
  BY <1>1, SameData DEF Inv
<1>5. ControllerInv' /\ NeverStalled'
  BY <1>1, RequestState
<1> QED BY <1>2, <1>3, <1>4, <1>5 DEF Inv

-----------------------------------------------------------------------------
(* The interrupt handlers.                                                 *)

(* When an interrupt comes, its handler is the one for what the controller *)
(* does.                                                                   *)
LEMMA TransferState ==
  ASSUME Inv, NEW h \in {"read_intr", "write_intr"}, Interrupt(h)
  PROVE  /\ queue # << >> /\ pc = "idle" /\ do_hd = h /\ CURRENT \in Requests
         /\ hd_cmd = IF h = "read_intr" THEN "READ" ELSE "WRITE"
         /\ cmd[CURRENT] = IF h = "read_intr" THEN READ ELSE WRITE
         /\ hd_left = nr_sectors[CURRENT] /\ nr_sectors[CURRENT] \in {1, 2}
         /\ buffer[CURRENT] = 2 - nr_sectors[CURRENT] /\ buffer[CURRENT] \in {0, 1}
         /\ sector[CURRENT] \in Nat /\ block[CURRENT] \in Nat
         /\ sector[CURRENT] = 2 * block[CURRENT] + buffer[CURRENT]
         /\ Done(CURRENT) /\ Inside(CURRENT)
         /\ hd_drive = DriveOf(CURRENT) /\ hd_lba = Place(CURRENT, buffer[CURRENT])
         /\ hd_drive \in Drives /\ hd_lba \in DiskSectors
         /\ h = "write_intr" => hd_data = data[CURRENT][buffer[CURRENT]]
<1>1. pc = "idle" /\ hd_cmd # "none" /\ do_hd = h
  BY DEF Interrupt
<1>2. queue # << >> /\ Expects(h)
  BY <1>1 DEF Inv, NeverStalled
<1>3. CURRENT \in Requests /\ TypeOK /\ HeadInv
  BY <1>2, CurrentProperties DEF Inv
<1>4. /\ hd_cmd = IF h = "read_intr" THEN "READ" ELSE "WRITE"
      /\ hd_left = nr_sectors[CURRENT]
  BY <1>2 DEF Expects
<1>5. /\ nr_sectors[CURRENT] \in {1, 2} /\ buffer[CURRENT] = 2 - nr_sectors[CURRENT]
      /\ sector[CURRENT] = 2 * block[CURRENT] + buffer[CURRENT] /\ Done(CURRENT)
  BY <1>2, <1>3 DEF HeadInv
<1>6. /\ (h = "read_intr" => Transfers(READ)) /\ (h = "write_intr" => Transfers(WRITE))
      /\ (h = "write_intr" => hd_data = data[CURRENT][buffer[CURRENT]])
  BY <1>1, <1>2 DEF Inv, ControllerInv
<1>7. /\ Inside(CURRENT) /\ hd_drive = DriveOf(CURRENT) /\ hd_lba = Place(CURRENT, buffer[CURRENT])
      /\ cmd[CURRENT] = IF h = "read_intr" THEN READ ELSE WRITE
  BY <1>6 DEF Transfers
<1>8. buffer[CURRENT] \in {0, 1}
  BY <1>5
<1>9. hd_drive \in Drives /\ hd_lba \in DiskSectors
  BY <1>3, <1>7, <1>8, PlaceOnDrive
<1> QED BY <1>1, <1>2, <1>3, <1>4, <1>5, <1>6, <1>7, <1>8, <1>9, CurrentFields

(* The two halves of a block are different sectors. *)
LEMMA TwoPlaces ==
  ASSUME TypeOK, NEW i \in Requests, Inside(i)
  PROVE  Place(i, 0) # Place(i, 1)
<1> DEFINE start == Partition[dev[i]][1]
<1>1. dev[i] \in Nat /\ block[i] \in Nat /\ dev[i] < 5 * NR_HD
  BY Fields DEF Inside
<1>2. dev[i] \in DOMAIN Partition
  BY <1>1, PartitionAssumption, DrivesAssumption
<1>3. start \in Nat
  BY <1>2, PartitionAssumption
<1> HIDE DEF start
<1>4. start + 2 * block[i] + 0 # start + 2 * block[i] + 1
  BY <1>1, <1>3
<1> QED BY <1>4 DEF Place, start

LEMMA ErrorKeeps ==
  ASSUME Inv, ReadError \/ WriteError
  PROVE  Inv'
<1>1. /\ hd_cmd' = "none" /\ UNCHANGED <<hd_drive, hd_lba, hd_left, hd_data>>
      /\ do_hd' = "NULL" /\ bad_rw_intr /\ pc' = "request"
      /\ UNCHANGED <<reqVars, posVars, data, recalibrate>>
  BY DEF ReadError, WriteError, Failed, Restart
<1>2. queue # << >> /\ DoneKept /\ disk' \in [Drives -> [DiskSectors -> Contents]]
  <2>1. CASE ReadError
    <3>1. queue # << >> /\ disk' = disk
      BY <2>1, TransferState DEF ReadError
    <3> QED BY <3>1 DEF DoneKept, Inv, DataInv
  <2>2. CASE WriteError
    <3>1. Interrupt("write_intr")
      BY <2>2 DEF WriteError
    <3>2. /\ queue # << >> /\ CURRENT \in Requests /\ Inside(CURRENT)
          /\ hd_drive = DriveOf(CURRENT) /\ hd_lba = Place(CURRENT, buffer[CURRENT])
          /\ hd_drive \in Drives /\ hd_lba \in DiskSectors /\ buffer[CURRENT] \in {0, 1}
      BY <3>1, TransferState
    <3>3. /\ disk \in [Drives -> [DiskSectors -> Contents]] /\ Junk \in Contents
          /\ disk[hd_drive][hd_lba] \in Contents /\ TypeOK
      <4>1. Junk \in Contents
        BY DEF Contents
      <4>2. disk \in [Drives -> [DiskSectors -> Contents]] /\ TypeOK
        BY DEF Inv, DataInv
      <4> QED BY <3>2, <4>1, <4>2
    <3>4. PICK d \in Contents : disk' = [disk EXCEPT ![hd_drive][hd_lba] = d]
      BY <2>2, <3>3 DEF WriteError
    <3>5. disk' \in [Drives -> [DiskSectors -> Contents]]
      BY <3>2, <3>3, <3>4
    <3>6. DoneKept
      <4> SUFFICES ASSUME NEW h \in {0, 1}, h < buffer[CURRENT]
                   PROVE  disk'[DriveOf(CURRENT)][Place(CURRENT, h)]
                            = disk[DriveOf(CURRENT)][Place(CURRENT, h)]
        BY DEF DoneKept
      <4>1. h = 0 /\ buffer[CURRENT] = 1
        BY <3>2
      <4>2. Place(CURRENT, h) # hd_lba
        BY <3>2, <3>3, <4>1, TwoPlaces
      <4>3. Place(CURRENT, h) \in DiskSectors
        BY <3>2, <3>3, PlaceOnDrive
      <4> QED BY <3>2, <3>3, <3>4, <4>2, <4>3
    <3> QED BY <3>2, <3>5, <3>6
  <2> QED BY <2>1, <2>2
<1>3. /\ errors' \in [Requests -> 0 .. MAX_ERRORS]
      /\ status' \in [Requests -> {"none", "queued", "ok", "failed"}]
      /\ queue' \in Seq(Requests) /\ reset' \in BOOLEAN /\ QueueInv' /\ HeadInv'
  <2>1. UNCHANGED <<reqVars, posVars, data>>
    BY <1>1
  <2> QED BY <1>1, <1>2, <2>1, BadKeeps DEF Inv
<1>4. DOMAIN disk' = Drives /\ \A d \in Drives : DOMAIN disk'[d] = DiskSectors
  BY <1>2
<1>5. TypeOK'
  BY <1>1, <1>3, <1>4 DEF Inv, TypeOK, reqVars, posVars
<1>6. DataInv'
  BY <1>1, <1>2 DEF Inv, DataInv
<1>7. ControllerInv' /\ NeverStalled'
  BY <1>1, RequestState
<1> QED BY <1>3, <1>5, <1>6, <1>7 DEF Inv

LEMMA RecalKeeps ==
  ASSUME Inv, recal_intr
  PROVE  Inv'
<1>1. /\ hd_cmd' = "none" /\ UNCHANGED <<hd_drive, hd_lba, hd_left, hd_data>>
      /\ do_hd' = "NULL" /\ pc' = "request"
      /\ UNCHANGED <<reqVars, posVars, data, recalibrate, disk>>
  BY DEF recal_intr, Failed, Restart
<1>2. queue # << >>
  BY DEF recal_intr, Interrupt, Inv, NeverStalled
<1>3. /\ errors' \in [Requests -> 0 .. MAX_ERRORS]
      /\ status' \in [Requests -> {"none", "queued", "ok", "failed"}]
      /\ queue' \in Seq(Requests) /\ reset' \in BOOLEAN /\ QueueInv' /\ HeadInv'
  <2>1. CASE bad_rw_intr
    <3>1. DoneKept
      BY <1>1 DEF DoneKept
    <3>2. UNCHANGED <<reqVars, posVars, data>>
      BY <1>1
    <3> QED BY <1>2, <2>1, <3>1, <3>2, BadKeeps DEF Inv
  <2>2. CASE UNCHANGED <<errors, reset, endVars>>
    <3>1. reset \in BOOLEAN
      BY DEF Inv, TypeOK
    <3>2. QueueInv' /\ HeadInv'
      BY <1>1, <2>2, SameQueue, SameHeadInv DEF Inv, endVars
    <3> QED BY <2>2, <3>1, <3>2, Fields DEF Inv, endVars
  <2> QED BY <2>1, <2>2 DEF recal_intr
<1>4. TypeOK'
  BY <1>1, <1>3 DEF Inv, TypeOK, reqVars, posVars
<1>5. DataInv'
  BY <1>1, SameData DEF Inv
<1>6. ControllerInv' /\ NeverStalled'
  BY <1>1, RequestState
<1> QED BY <1>3, <1>4, <1>5, <1>6 DEF Inv

(* Both halves of the block of i are on the disk as they are in memory. *)
Both(i) == \A h \in {0, 1} : disk'[DriveOf(i)][Place(i, h)] = data'[i][h]

LEMMA ReadKeeps ==
  ASSUME Inv, read_intr
  PROVE  Inv' /\ (queue' # queue => Both(CURRENT))
<1>1. Interrupt("read_intr")
  BY DEF read_intr
<1>2. PICK c \in Requests : c = CURRENT
  BY <1>1, TransferState
<1> DEFINE b == buffer[c]
<1>3. /\ queue # << >> /\ pc = "idle" /\ c \in Requests /\ hd_cmd = "READ" /\ cmd[c] = READ
      /\ hd_left = nr_sectors[c] /\ nr_sectors[c] \in {1, 2} /\ b = 2 - nr_sectors[c]
      /\ b \in {0, 1} /\ sector[c] \in Nat /\ block[c] \in Nat /\ sector[c] = 2 * block[c] + b
      /\ Done(c) /\ Inside(c) /\ hd_drive = DriveOf(c) /\ hd_lba = Place(c, b)
      /\ hd_drive \in Drives /\ hd_lba \in DiskSectors /\ TypeOK
  BY <1>2, <1>1, TransferState DEF Inv
<1>4. /\ data' = [data EXCEPT ![c][b] = disk[hd_drive][hd_lba]]
      /\ errors' = [errors EXCEPT ![c] = 0] /\ buffer' = [buffer EXCEPT ![c] = b + 1]
      /\ sector' = [sector EXCEPT ![c] = sector[c] + 1]
      /\ nr_sectors' = [nr_sectors EXCEPT ![c] = nr_sectors[c] - 1]
      /\ hd_left' = hd_left - 1 /\ hd_lba' = hd_lba + 1
      /\ hd_cmd' = (IF hd_left = 1 THEN "none" ELSE hd_cmd)
      /\ UNCHANGED <<cmd, dev, block, made, reset, recalibrate, disk, hd_drive, hd_data>>
  BY <1>2 DEF read_intr, NextSector, Forward, reqVars
<1>5. nr_sectors[c] = 2 => do_hd' = "read_intr" /\ UNCHANGED <<status, queue, pc>>
  BY <1>2 DEF read_intr, endVars
<1>6. nr_sectors[c] = 1 => /\ do_hd' = "NULL" /\ status' = [status EXCEPT ![c] = "ok"]
                           /\ queue' = Tail(queue) /\ pc' = "request"
  BY <1>2 DEF read_intr, Ended, Restart
<1>7. /\ data \in [Requests -> [{0, 1} -> Contents]] /\ hd_data \in Contents
      /\ disk \in [Drives -> [DiskSectors -> Contents]]
  BY DEF Inv, DataInv
<1>8. data' \in [Requests -> [{0, 1} -> Contents]] /\ data'[c][b] = disk[hd_drive][hd_lba]
      /\ \A h \in {0, 1} : h # b => data'[c][h] = data[c][h]
  BY <1>3, <1>4, <1>7
<1>9. DataInv'
  BY <1>4, <1>7, <1>8 DEF DataInv
<1>10. /\ errors \in [Requests -> 0 .. MAX_ERRORS] /\ buffer \in [Requests -> 0 .. 2]
      /\ sector \in [Requests -> Nat] /\ nr_sectors \in [Requests -> 0 .. 2]
      /\ status \in [Requests -> {"none", "queued", "ok", "failed"}] /\ queue \in Seq(Requests)
      /\ MAX_ERRORS \in Nat \ {0}
  BY <1>3, Fields, BoundsAssumption
<1>11. /\ errors' \in [Requests -> 0 .. MAX_ERRORS] /\ buffer' \in [Requests -> 0 .. 2]
       /\ sector' \in [Requests -> Nat] /\ nr_sectors' \in [Requests -> 0 .. 2]
       /\ hd_left' \in Nat
  <2>1. /\ b + 1 \in 0 .. 2 /\ nr_sectors[c] - 1 \in 0 .. 2 /\ sector[c] + 1 \in Nat
        /\ 0 \in 0 .. MAX_ERRORS /\ hd_left - 1 \in Nat
    BY <1>3, <1>10
  <2> QED BY <1>4, <1>10, <2>1
<1>12. hd_lba' \in 0 .. cyls * heads * sects
  BY <1>3, <1>4, LbaTypes
<1>13. OnlyRequest(c)
  BY <1>4, <1>7, <1>10 DEF OnlyRequest, SameBut
<1>14. DOMAIN data' = Requests /\ \A i \in Requests : DOMAIN data'[i] = {0, 1}
  BY <1>8
<1>15. CASE nr_sectors[c] = 2
  <2>1. QueueInv'
    BY <1>3, <1>5, <1>13, <1>15, <1>2, StayKeeps DEF Inv
  <2>2. CURRENT' = c /\ b = 0 /\ nr_sectors'[c] = 1 /\ buffer'[c] = 1 /\ errors'[c] = 0
        /\ sector'[c] = 2 * block'[c] + 1
    <3>1. CURRENT' = c
      BY <1>2, <1>5, <1>15 DEF CURRENT
    <3> QED BY <1>3, <1>4, <1>10, <1>15, <3>1
  <2>3. DriveOf(c)' = DriveOf(c) /\ \A h : Place(c, h)' = Place(c, h)
    BY <1>4 DEF DriveOf, Place
  <2>4. data'[c][0] = disk'[DriveOf(c)][Place(c, 0)]
    BY <1>3, <1>4, <1>8, <2>2
  <2>5. Done(c)'
    <3>1. \A h \in {0, 1} : h < buffer'[c] => disk'[DriveOf(c)'][Place(c, h)'] = data'[c][h]
      BY <2>2, <2>3, <2>4
    <3> QED BY <3>1 DEF Done
  <2>6. HeadInv'
    BY <2>2, <2>5, BoundsAssumption DEF HeadInv
  <2>7. TypeOK'
    BY <1>3, <1>4, <1>5, <1>11, <1>12, <1>14, <1>15 DEF TypeOK
  <2>8. hd_lba' = Place(c, 1)
    <3>1. dev[c] \in DOMAIN Partition
      BY <1>3, Fields, PartitionAssumption, DrivesAssumption DEF Inside
    <3>2. Partition[dev[c]][1] \in Nat
      BY <3>1, PartitionAssumption
    <3> QED BY <1>3, <1>4, <2>2, <3>2 DEF Place
  <2>9. ControllerInv' /\ NeverStalled'
    <3>1. hd_cmd' = "READ" /\ hd_left' = 1 /\ queue' # << >> /\ pc' = "idle"
          /\ do_hd' = "read_intr"
      BY <1>3, <1>4, <1>5, <1>15
    <3>2. Inside(c)'
      BY <1>3, <1>4 DEF Inside
    <3>3. Transfers(READ)'
      BY <1>3, <1>4, <2>2, <2>3, <2>8, <3>2 DEF Transfers
    <3> QED BY <2>2, <3>1, <3>3 DEF ControllerInv, NeverStalled, Expects
  <2> QED BY <1>5, <1>9, <1>15, <2>1, <2>6, <2>7, <2>9 DEF Inv
<1>16. CASE nr_sectors[c] = 1
  <2>1. queue' \in Seq(Requests) /\ QueueInv' /\ HeadInv'
    BY <1>3, <1>6, <1>13, <1>16, <1>2, PopKeeps DEF Inv
  <2>2. status' \in [Requests -> {"none", "queued", "ok", "failed"}]
    BY <1>3, <1>6, <1>10, <1>16
  <2>3. TypeOK'
    BY <1>3, <1>4, <1>6, <1>11, <1>12, <1>14, <1>16, <2>1, <2>2 DEF TypeOK
  <2>4. ControllerInv' /\ NeverStalled'
    BY <1>3, <1>4, <1>6, <1>16, RequestState
  <2>5. Both(c)
    <3>1. b = 1 /\ disk' = disk
      BY <1>3, <1>4, <1>16
    <3>2. data[c][0] = disk[DriveOf(c)][Place(c, 0)]
      BY <1>3, <3>1 DEF Done
    <3>3. data'[c][0] = disk'[DriveOf(c)][Place(c, 0)]
      BY <1>8, <3>1, <3>2
    <3>4. data'[c][1] = disk'[DriveOf(c)][Place(c, 1)]
      BY <1>3, <1>8, <3>1
    <3> QED BY <3>3, <3>4 DEF Both
  <2> QED BY <1>9, <2>1, <2>3, <2>4, <2>5, <1>2 DEF Inv
<1> QED BY <1>3, <1>15, <1>16

LEMMA WriteKeeps ==
  ASSUME Inv, write_intr
  PROVE  Inv' /\ (queue' # queue => Both(CURRENT))
<1>1. Interrupt("write_intr")
  BY DEF write_intr
<1>2. PICK c \in Requests : c = CURRENT
  BY <1>1, TransferState
<1> DEFINE b == buffer[c]
<1>3. /\ queue # << >> /\ pc = "idle" /\ c \in Requests /\ hd_cmd = "WRITE" /\ cmd[c] = WRITE
      /\ hd_left = nr_sectors[c] /\ nr_sectors[c] \in {1, 2} /\ b = 2 - nr_sectors[c]
      /\ b \in {0, 1} /\ sector[c] \in Nat /\ block[c] \in Nat /\ sector[c] = 2 * block[c] + b
      /\ Done(c) /\ Inside(c) /\ hd_drive = DriveOf(c) /\ hd_lba = Place(c, b)
      /\ hd_drive \in Drives /\ hd_lba \in DiskSectors /\ TypeOK /\ hd_data = data[c][b]
  BY <1>2, <1>1, TransferState DEF Inv
<1>4. /\ disk' = [disk EXCEPT ![hd_drive][hd_lba] = hd_data]
      /\ nr_sectors' = [nr_sectors EXCEPT ![c] = nr_sectors[c] - 1]
      /\ hd_left' = hd_left - 1 /\ hd_lba' = hd_lba + 1
      /\ hd_cmd' = (IF hd_left = 1 THEN "none" ELSE hd_cmd)
      /\ UNCHANGED <<cmd, dev, block, made, reset, recalibrate, data, errors, hd_drive>>
  BY <1>2 DEF write_intr, NextSector, reqVars
<1>5. nr_sectors[c] = 2 => /\ do_hd' = "write_intr" /\ UNCHANGED <<status, queue, pc>>
                           /\ sector' = [sector EXCEPT ![c] = sector[c] + 1]
                           /\ buffer' = [buffer EXCEPT ![c] = b + 1]
                           /\ hd_data' = data[c][buffer'[c]]
  BY <1>2 DEF write_intr, endVars, Forward
<1>6. nr_sectors[c] = 1 => /\ do_hd' = "NULL" /\ status' = [status EXCEPT ![c] = "ok"]
                           /\ queue' = Tail(queue) /\ pc' = "request"
                           /\ UNCHANGED <<sector, buffer, hd_data>>
  BY <1>2 DEF write_intr, Ended, Restart
<1>7. /\ data \in [Requests -> [{0, 1} -> Contents]] /\ hd_data \in Contents
      /\ disk \in [Drives -> [DiskSectors -> Contents]]
  BY DEF Inv, DataInv
<1>8. /\ disk' \in [Drives -> [DiskSectors -> Contents]]
      /\ disk'[DriveOf(c)][Place(c, b)] = data[c][b]
      /\ \A s \in DiskSectors : s # Place(c, b) => disk'[DriveOf(c)][s] = disk[DriveOf(c)][s]
  BY <1>3, <1>4, <1>7
<1>9. /\ errors \in [Requests -> 0 .. MAX_ERRORS] /\ buffer \in [Requests -> 0 .. 2]
      /\ sector \in [Requests -> Nat] /\ nr_sectors \in [Requests -> 0 .. 2]
      /\ status \in [Requests -> {"none", "queued", "ok", "failed"}] /\ queue \in Seq(Requests)
  BY <1>3, Fields
<1>10. nr_sectors' \in [Requests -> 0 .. 2] /\ hd_left' \in Nat
  BY <1>3, <1>4, <1>9
<1>11. hd_lba' \in 0 .. cyls * heads * sects
  BY <1>3, <1>4, LbaTypes
<1>12. DOMAIN disk' = Drives /\ \A d \in Drives : DOMAIN disk'[d] = DiskSectors
  BY <1>8
<1>13. CASE nr_sectors[c] = 2
  <2>1. OnlyRequest(c)
    BY <1>4, <1>5, <1>9, <1>13 DEF OnlyRequest, SameBut
  <2>2. QueueInv'
    BY <1>3, <1>5, <1>13, <2>1, <1>2, StayKeeps DEF Inv
  <2>3. CURRENT' = c /\ b = 0 /\ nr_sectors'[c] = 1 /\ buffer'[c] = 1
        /\ sector'[c] = 2 * block'[c] + 1
    <3>1. CURRENT' = c
      BY <1>2, <1>5, <1>13 DEF CURRENT
    <3> QED BY <1>3, <1>4, <1>5, <1>9, <1>13, <3>1
  <2>4. DriveOf(c)' = DriveOf(c) /\ \A h : Place(c, h)' = Place(c, h)
    BY <1>4 DEF DriveOf, Place
  <2>5. Done(c)'
    <3>1. disk'[DriveOf(c)][Place(c, 0)] = data'[c][0]
      BY <1>4, <1>8, <2>3
    <3>2. \A h \in {0, 1} : h < buffer'[c] => disk'[DriveOf(c)'][Place(c, h)'] = data'[c][h]
      BY <2>3, <2>4, <3>1
    <3> QED BY <3>2 DEF Done
  <2>6. HeadInv'
    <3>1. errors'[c] < MAX_ERRORS
      BY <1>2, <1>3, <1>4 DEF Inv, HeadInv
    <3> QED BY <2>3, <2>5, <3>1 DEF HeadInv
  <2>7. buffer' \in [Requests -> 0 .. 2] /\ sector' \in [Requests -> Nat]
    <3>1. b + 1 \in 0 .. 2 /\ sector[c] + 1 \in Nat
      BY <1>3
    <3> QED BY <1>5, <1>9, <1>13, <3>1
  <2>8. TypeOK'
    BY <1>3, <1>4, <1>5, <1>10, <1>11, <1>12, <1>13, <2>7 DEF TypeOK
  <2>9. DataInv' /\ hd_data' = data'[c][buffer'[c]]
    <3>1. hd_data' \in Contents /\ hd_data' = data'[c][buffer'[c]]
      BY <1>3, <1>4, <1>5, <1>7, <1>13, <2>3
    <3> QED BY <1>4, <1>7, <1>8, <3>1 DEF DataInv
  <2>10. hd_lba' = Place(c, 1)
    <3>1. dev[c] \in DOMAIN Partition
      BY <1>3, Fields, PartitionAssumption, DrivesAssumption DEF Inside
    <3>2. Partition[dev[c]][1] \in Nat
      BY <3>1, PartitionAssumption
    <3> QED BY <1>3, <1>4, <2>3, <3>2 DEF Place
  <2>11. ControllerInv' /\ NeverStalled'
    <3>1. hd_cmd' = "WRITE" /\ hd_left' = 1 /\ queue' # << >> /\ pc' = "idle"
          /\ do_hd' = "write_intr"
      BY <1>3, <1>4, <1>5, <1>13
    <3>2. Inside(c)'
      BY <1>3, <1>4 DEF Inside
    <3>3. Transfers(WRITE)'
      BY <1>3, <1>4, <2>3, <2>4, <2>10, <3>2 DEF Transfers
    <3> QED BY <2>3, <2>9, <3>1, <3>3 DEF ControllerInv, NeverStalled, Expects
  <2> QED BY <1>5, <1>13, <2>2, <2>6, <2>8, <2>9, <2>11 DEF Inv
<1>14. CASE nr_sectors[c] = 1
  <2>1. OnlyRequest(c)
    BY <1>4, <1>6, <1>9, <1>14 DEF OnlyRequest, SameBut
  <2>2. queue' \in Seq(Requests) /\ QueueInv' /\ HeadInv'
    BY <1>3, <1>6, <1>14, <2>1, <1>2, PopKeeps DEF Inv
  <2>3. status' \in [Requests -> {"none", "queued", "ok", "failed"}]
    BY <1>3, <1>6, <1>9, <1>14
  <2>4. TypeOK'
    BY <1>3, <1>4, <1>6, <1>10, <1>11, <1>12, <1>14, <2>2, <2>3 DEF TypeOK
  <2>5. DataInv'
    BY <1>4, <1>6, <1>7, <1>8, <1>14 DEF DataInv
  <2>6. ControllerInv' /\ NeverStalled'
    BY <1>3, <1>4, <1>6, <1>14, RequestState
  <2>7. Both(c)
    <3>1. b = 1 /\ data' = data
      BY <1>3, <1>4, <1>14
    <3>2. data[c][0] = disk[DriveOf(c)][Place(c, 0)]
      BY <1>3, <3>1 DEF Done
    <3>3. Place(c, 0) # Place(c, 1) /\ Place(c, 0) \in DiskSectors
      BY <1>3, TwoPlaces, PlaceOnDrive
    <3>4. data'[c][0] = disk'[DriveOf(c)][Place(c, 0)]
      BY <1>8, <3>1, <3>2, <3>3
    <3>5. data'[c][1] = disk'[DriveOf(c)][Place(c, 1)]
      BY <1>8, <3>1
    <3> QED BY <3>4, <3>5 DEF Both
  <2> QED BY <2>2, <2>4, <2>5, <2>6, <2>7, <1>2 DEF Inv
<1> QED BY <1>3, <1>13, <1>14

-----------------------------------------------------------------------------
(* make_request                                                            *)

(* What a new request starts with. *)
Fresh(i) == /\ nr_sectors'[i] = 2 /\ buffer'[i] = 0 /\ errors'[i] = 0
            /\ sector'[i] = 2 * block'[i]

LEMMA AddKeeps ==
  ASSUME Inv, NEW cc \in {READ, WRITE}, NEW m \in Nat, NEW b \in Nat, AddRequest(cc, m, b)
  PROVE  Inv'
<1> DEFINE table == [j \in Requests |-> AsRequest(j)]
           req == [cmd |-> cc, blk |-> <<m, 2 * b>>]
<1>1. PICK i : i = made + 1
  OBVIOUS
<1>2. /\ TypeOK /\ QueueInv /\ HeadInv /\ pc = "idle" /\ made < MaxRequests
      /\ made \in 0 .. MaxRequests /\ MaxRequests \in Nat /\ queue \in Seq(Requests)
  BY Fields, BoundsAssumption DEF Inv, AddRequest
<1>3. i \in Requests /\ i \in 0 .. MaxRequests
  BY <1>1, <1>2 DEF Requests
<1>4. /\ made' = i /\ cmd' = [cmd EXCEPT ![i] = cc] /\ dev' = [dev EXCEPT ![i] = m]
      /\ block' = [block EXCEPT ![i] = b] /\ errors' = [errors EXCEPT ![i] = 0]
      /\ sector' = [sector EXCEPT ![i] = 2 * b] /\ nr_sectors' = [nr_sectors EXCEPT ![i] = 2]
      /\ buffer' = [buffer EXCEPT ![i] = 0] /\ status' = [status EXCEPT ![i] = "queued"]
      /\ data' = [data EXCEPT ![i] = [h \in {0, 1} |-> IF cc = WRITE THEN Written(i, h) ELSE Junk]]
      /\ queue' = Enqueue(table, queue, i, req)
      /\ pc' = (IF queue = << >> THEN "request" ELSE "idle")
      /\ UNCHANGED <<reset, recalibrate, do_hd, hd_cmd, hd_drive, hd_lba, hd_left, hd_data, disk>>
  BY <1>1 DEF AddRequest, ctlVars
<1> HIDE DEF table, req
<1>5. /\ cmd \in [Requests -> {READ, WRITE}]
      /\ dev \in [Requests -> Nat] /\ block \in [Requests -> Nat]
      /\ sector \in [Requests -> Nat] /\ nr_sectors \in [Requests -> 0 .. 2]
      /\ buffer \in [Requests -> 0 .. 2] /\ errors \in [Requests -> 0 .. MAX_ERRORS]
      /\ status \in [Requests -> {"none", "queued", "ok", "failed"}]
  BY <1>2, Fields
<1>6. /\ cmd' \in [Requests -> {READ, WRITE}]
      /\ dev' \in [Requests -> Nat] /\ block' \in [Requests -> Nat]
      /\ sector' \in [Requests -> Nat] /\ nr_sectors' \in [Requests -> 0 .. 2]
      /\ buffer' \in [Requests -> 0 .. 2] /\ errors' \in [Requests -> 0 .. MAX_ERRORS]
      /\ status' \in [Requests -> {"none", "queued", "ok", "failed"}]
  <2>1. 2 * b \in Nat /\ 0 \in 0 .. MAX_ERRORS /\ 0 \in 0 .. 2 /\ 2 \in 0 .. 2
    BY BoundsAssumption
  <2> QED BY <1>4, <1>5, <2>1
<1>7. Fresh(i) /\ \A j \in Requests : j # i =>
                    /\ nr_sectors'[j] = nr_sectors[j] /\ buffer'[j] = buffer[j]
                    /\ errors'[j] = errors[j] /\ sector'[j] = sector[j]
                    /\ dev'[j] = dev[j] /\ block'[j] = block[j] /\ cmd'[j] = cmd[j]
  BY <1>3, <1>4, <1>5 DEF Fresh
<1>8. queue' \in Seq(Requests)
  BY <1>2, <1>3, <1>4, EnqueueProperties
<1>9. DataInv' /\ \A j \in Requests : j # i => data'[j] = data[j]
  <2>1. /\ data \in [Requests -> [{0, 1} -> Contents]] /\ hd_data \in Contents
        /\ disk \in [Drives -> [DiskSectors -> Contents]]
    BY DEF Inv, DataInv
  <2>2. [h \in {0, 1} |-> IF cc = WRITE THEN Written(i, h) ELSE Junk] \in [{0, 1} -> Contents]
    BY <1>3 DEF Contents
  <2>3. data' \in [Requests -> [{0, 1} -> Contents]] /\ \A j \in Requests : j # i => data'[j] = data[j]
    BY <1>3, <1>4, <2>1, <2>2
  <2> QED BY <1>4, <2>1, <2>3 DEF DataInv
<1>10. TypeOK'
  <2>1. DOMAIN data' = Requests /\ \A j \in Requests : DOMAIN data'[j] = {0, 1}
    BY <1>9 DEF DataInv
  <2>2. pc' \in {"idle", "request"}
    BY <1>4
  <2> QED BY <1>2, <1>3, <1>4, <1>6, <1>8, <2>1, <2>2 DEF TypeOK
<1>11. \A k \in 1 .. Len(queue) : queue[k] # i /\ queue[k] \in Requests /\ queue[k] <= i
  <2> TAKE k \in 1 .. Len(queue)
  <2>1. queue[k] \in Requests /\ queue[k] <= made
    BY <1>2, LenProperties DEF QueueInv
  <2> QED BY <1>1, <1>2, <2>1 DEF Requests
<1>12. CASE queue = << >>
  <2>1. queue' = <<i>> /\ pc' = "request"
    BY <1>4, <1>12 DEF Enqueue
  <2>2. Len(queue') = 1 /\ queue'[1] = i /\ Head(queue') = i
    BY <1>3, <2>1
  <2>3. QueueInv'
    BY <1>1, <1>3, <1>4, <2>2 DEF QueueInv, Requests
  <2>4. HeadInv'
    <3>1. Done(i)'
      BY <1>7 DEF Done, Fresh
    <3>2. CURRENT' = i /\ block'[i] \in Nat
      BY <1>3, <1>6, <2>2 DEF CURRENT
    <3> QED BY <1>7, <3>1, <3>2, BoundsAssumption DEF HeadInv, Fresh
  <2>5. hd_cmd' = "none"
    BY <1>2, <1>4, <1>12 DEF Inv, NeverStalled
  <2>6. ControllerInv' /\ NeverStalled'
    BY <2>1, <2>5, RequestState
  <2> QED BY <1>9, <1>10, <2>3, <2>4, <2>6 DEF Inv
<1>13. CASE queue # << >>
  <2>1. PICK k \in 0 .. Len(queue) : queue' = LinkAfter(queue, k, i) /\ k # 0
    BY <1>2, <1>3, <1>4, <1>13, EnqueueProperties
  <2>2. Len(queue) \in Nat /\ Len(queue) >= 1 /\ queue[1] = CURRENT /\ k \in 1 .. Len(queue)
    BY <1>2, <1>13, <2>1, CurrentProperties
  <2>3. /\ Len(queue') = Len(queue) + 1 /\ queue'[1] = queue[1]
        /\ \A x \in 2 .. Len(queue') : queue'[x] = i \/ \E y \in 2 .. Len(queue) : queue'[x] = queue[y]
        /\ \A x, y \in 1 .. Len(queue') : queue'[x] = queue'[y] => x = y
    <3>1. \A x \in 1 .. Len(queue) : queue[x] # i
      BY <1>11
    <3>2. \A x, y \in 1 .. Len(queue) : queue[x] = queue[y] => x = y
      BY <1>2 DEF QueueInv
    <3> QED BY <1>2, <1>3, <2>1, <2>2, <3>1, <3>2, LinkProperties
  <2>4. PICK c \in Requests : c = CURRENT
    BY <1>2, <1>13, CurrentProperties
  <2>5. queue' # << >> /\ CURRENT' = c /\ c # i /\ pc' = "idle"
    <3>1. queue' # << >>
      BY <2>2, <2>3, <1>8, EmptySeq
    <3>2. Head(queue') = queue'[1]
      BY <1>8, <3>1, HeadTailProperties
    <3>3. c # i
      BY <1>11, <2>2, <2>4
    <3> QED BY <1>4, <1>13, <2>2, <2>3, <2>4, <3>1, <3>2, <3>3 DEF CURRENT
  <2>6. ASSUME NEW x \in 2 .. Len(queue')
        PROVE  Fresh(queue'[x])
    <3>1. CASE queue'[x] = i
      BY <1>7, <3>1
    <3>2. ASSUME NEW y \in 2 .. Len(queue), queue'[x] = queue[y] PROVE Fresh(queue'[x])
      <4>1. y \in 1 .. Len(queue)
        BY <2>2
      <4>2. queue[y] # i /\ queue[y] \in Requests
        BY <1>11, <4>1
      <4>3. /\ nr_sectors[queue[y]] = 2 /\ buffer[queue[y]] = 0 /\ errors[queue[y]] = 0
            /\ sector[queue[y]] = 2 * block[queue[y]]
        BY <1>2 DEF QueueInv
      <4> QED BY <1>7, <3>2, <4>2, <4>3 DEF Fresh
    <3> QED BY <2>3, <3>1, <3>2
  <2>7. \A x \in 1 .. Len(queue') : queue'[x] <= made'
    <3> TAKE x \in 1 .. Len(queue')
    <3>1. queue'[x] = i \/ \E y \in 1 .. Len(queue) : queue'[x] = queue[y]
      <4>1. CASE x = 1
        BY <2>2, <2>3, <4>1
      <4>2. CASE x # 1
        <5>1. x \in 2 .. Len(queue') /\ 2 .. Len(queue) \subseteq 1 .. Len(queue)
          BY <2>2, <2>3, <4>2
        <5> QED BY <2>3, <5>1
      <4> QED BY <4>1, <4>2
    <3> QED BY <1>3, <1>4, <1>11, <3>1
  <2>8. QueueInv'
    BY <2>3, <2>6, <2>7 DEF QueueInv, Fresh
  <2>9. /\ nr_sectors'[c] = nr_sectors[c] /\ buffer'[c] = buffer[c] /\ errors'[c] = errors[c]
        /\ sector'[c] = sector[c] /\ dev'[c] = dev[c] /\ block'[c] = block[c]
        /\ cmd'[c] = cmd[c] /\ data'[c] = data[c]
    BY <1>7, <1>9, <2>5
  <2>10. DriveOf(c)' = DriveOf(c) /\ \A h : Place(c, h)' = Place(c, h)
    BY <2>9 DEF DriveOf, Place
  <2>11. HeadInv'
    <3>1. /\ nr_sectors[c] \in {1, 2} /\ buffer[c] = 2 - nr_sectors[c]
          /\ sector[c] = 2 * block[c] + buffer[c] /\ errors[c] < MAX_ERRORS /\ Done(c)
      BY <1>2, <1>13, <2>4 DEF HeadInv
    <3>2. Done(c)'
      BY <1>4, <2>9, <2>10, <3>1 DEF Done
    <3> QED BY <2>5, <2>9, <3>1, <3>2 DEF HeadInv
  <2>12. Inside(c)' <=> Inside(c)
    BY <2>9 DEF Inside
  <2>13. NeverStalled'
    <3>1. Expects(do_hd)
      BY <1>2, <1>13 DEF Inv, NeverStalled
    <3>2. Expects(do_hd)'
      BY <1>4, <2>4, <2>5, <2>9, <3>1 DEF Expects
    <3> QED BY <2>5, <3>2 DEF NeverStalled
  <2>14. ControllerInv'
    <3>1. /\ (do_hd = "read_intr" => Transfers(READ))
          /\ (do_hd = "write_intr" => Transfers(WRITE) /\ hd_data = data[c][buffer[c]])
      BY <1>2, <1>13, <2>4 DEF Inv, ControllerInv
    <3>2. \A w \in {READ, WRITE} : Transfers(w) => Transfers(w)'
      BY <1>4, <2>4, <2>5, <2>9, <2>10, <2>12 DEF Transfers
    <3> QED BY <1>4, <2>4, <2>5, <2>9, <3>1, <3>2 DEF ControllerInv
  <2> QED BY <1>9, <1>10, <2>8, <2>11, <2>13, <2>14 DEF Inv
<1> QED BY <1>12, <1>13

-----------------------------------------------------------------------------
(* The invariant, and what follows from it.                                *)

LEMMA InitInv == Init => Inv
<1> SUFFICES ASSUME Init PROVE Inv
  OBVIOUS
<1>1. queue = << >> /\ hd_cmd = "none" /\ pc = "idle" /\ Len(queue) = 0
  BY DEF Init
<1>2. 0 \in Drives /\ 0 \in 0 .. MAX_ERRORS /\ 0 \in 0 .. MaxRequests
  BY DrivesAssumption, BoundsAssumption DEF Drives
<1>3. TypeOK
  <2>1. queue \in Seq(Requests)
    BY <1>1
  <2>2. hd_lba \in 0 .. cyls * heads * sects
    BY LbaTypes DEF Init
  <2> QED BY <1>2, <2>1, <2>2 DEF Init, TypeOK
<1>4. DataInv
  <2>1. Junk \in Contents /\ \A s \in DiskSectors : Blank(s) \in Contents
    BY DEF Contents
  <2> QED BY <2>1 DEF Init, DataInv
<1>5. QueueInv /\ HeadInv /\ ControllerInv /\ NeverStalled
  BY <1>1 DEF QueueInv, HeadInv, ControllerInv, NeverStalled
<1> QED BY <1>3, <1>4, <1>5 DEF Inv

LEMMA StepKeeps == Inv /\ [Next]_vars => Inv'
<1> SUFFICES ASSUME Inv, [Next]_vars PROVE Inv'
  OBVIOUS
<1>1. CASE UNCHANGED vars
  <2>1. /\ UNCHANGED <<reqVars, posVars, endVars, errors, data, reset, recalibrate, do_hd, pc,
                       ctlVars, disk>>
    BY <1>1 DEF vars
  <2>2. TypeOK'
    BY <2>1 DEF Inv, TypeOK, reqVars, posVars, endVars, ctlVars
  <2>3. DataInv' /\ QueueInv' /\ HeadInv'
    BY <2>1, SameData, SameQueue, SameHeadInv DEF Inv, endVars, ctlVars
  <2>4. ControllerInv' /\ NeverStalled'
    BY <2>1 DEF Inv, ControllerInv, NeverStalled, Expects, Transfers, Inside, CURRENT, DriveOf,
                Place, reqVars, posVars, endVars, ctlVars
  <2> QED BY <2>2, <2>3, <2>4 DEF Inv
<1>2. ASSUME NEW a \in Asked, AddRequest(a[1], a[2], a[3]) PROVE Inv'
  <2>1. a[1] \in {READ, WRITE} /\ a[2] \in Nat /\ a[3] \in Nat
    BY AskedAssumption
  <2> QED BY <1>2, <2>1, AddKeeps
<1>3. CASE do_hd_request
  BY <1>3, NothingToDoKeeps, RejectKeeps, ResetKeeps, StartTransferKeeps, StartWriteNoDrqKeeps
     DEF do_hd_request
<1>4. CASE Handler
  BY <1>4, ErrorKeeps, ReadKeeps, WriteKeeps, RecalKeeps DEF Handler
<1> QED BY <1>1, <1>2, <1>3, <1>4 DEF Next

LEMMA InvHolds == Spec => []Inv
<1>1. Init => Inv
  BY InitInv
<1>2. Inv /\ [Next]_vars => Inv'
  BY StepKeeps
<1> QED BY <1>1, <1>2, PTL DEF Spec

(* The types of the requests, the driver and the controller: in particular *)
(* the error count stays within MAX_ERRORS and the controller is only ever *)
(* given drives and sectors that exist.                                    *)
THEOREM TypeCorrect == Spec => []TypeOK
<1>1. Inv => TypeOK
  BY DEF Inv
<1> QED BY <1>1, InvHolds, PTL

(* While requests wait, a command is in progress whose interrupt finds the *)
(* handler that expects it, through all retries, recalibrations and resets *)
(* and with requests added at any time: the queue is never left standing.  *)
THEOREM NeverStalledHolds == Spec => []NeverStalled
<1>1. Inv => NeverStalled
  BY DEF Inv
<1> QED BY <1>1, InvHolds, PTL

(* A request that ends well in a step has both its sectors moved. *)
DoneStep ==
  \A i \in Requests :
   status[i] = "queued" /\ status'[i] = "ok" =>
     \A h \in {0, 1} : disk'[DriveOf(i)][Place(i, h)] = data'[i][h]

(* A step writes at most to the sectors of the current request. *)
WriteStep ==
  \A d \in Drives : \A s \in DiskSectors :
   disk'[d][s] # disk[d][s] =>
     /\ queue # << >> /\ cmd[CURRENT] = WRITE /\ d = DriveOf(CURRENT)
     /\ s \in {Place(CURRENT, 0), Place(CURRENT, 1)}
     /\ s < Partition[dev[CURRENT]][1] + Partition[dev[CURRENT]][2]

LEMMA NoEnd ==
  ASSUME TypeOK, NEW i, NEW x, x # "ok",
         status' = status \/ (i \in Requests /\ status' = [status EXCEPT ![i] = x])
  PROVE  DoneStep
<1>1. status \in [Requests -> {"none", "queued", "ok", "failed"}]
  BY Fields
<1> QED BY <1>1 DEF DoneStep

LEMMA StepDone ==
  ASSUME Inv, [Next]_vars
  PROVE  DoneStep
<1>1. TypeOK
  BY DEF Inv
<1>2. CASE status' = status
  BY <1>1, <1>2, NoEnd
<1>3. ASSUME queue # << >>, bad_rw_intr PROVE DoneStep
  <2>1. CURRENT \in Requests
    BY <1>1, <1>3, CurrentProperties
  <2>2. status' = status \/ status' = [status EXCEPT ![CURRENT] = "failed"]
    BY <1>3 DEF bad_rw_intr, Ended, endVars
  <2> QED BY <1>1, <2>1, <2>2, NoEnd
<1>4. ASSUME queue # << >>, status' = [status EXCEPT ![CURRENT] = "ok"], Both(CURRENT)
      PROVE  DoneStep
  <2>1. CURRENT \in Requests /\ status \in [Requests -> {"none", "queued", "ok", "failed"}]
    BY <1>1, <1>4, CurrentProperties, Fields
  <2>2. \A i \in Requests : status[i] = "queued" /\ status'[i] = "ok" => i = CURRENT
    BY <1>4, <2>1
  <2> QED BY <1>4, <2>2 DEF DoneStep, Both
<1>5. CASE UNCHANGED vars
  BY <1>2, <1>5 DEF vars, endVars
<1>6. ASSUME NEW a \in Asked, AddRequest(a[1], a[2], a[3]) PROVE DoneStep
  <2>1. status' = [status EXCEPT ![made + 1] = "queued"] /\ made < MaxRequests
    BY <1>6 DEF AddRequest
  <2>2. made + 1 \in Requests
    <3>1. made \in 0 .. MaxRequests /\ MaxRequests \in Nat
      BY <1>1, Fields, BoundsAssumption
    <3> QED BY <2>1, <3>1 DEF Requests
  <2> QED BY <1>1, <2>1, <2>2, NoEnd
<1>7. CASE Reject
  <2>1. queue # << >> /\ status' = [status EXCEPT ![CURRENT] = "failed"]
    BY <1>7 DEF Reject, Ended
  <2>2. CURRENT \in Requests
    BY <1>1, <2>1, CurrentProperties
  <2> QED BY <1>1, <2>1, <2>2, NoEnd
<1>8. CASE NothingToDo \/ reset_hd \/ Recalibrate \/ StartRead \/ StartWrite
  BY <1>2, <1>8 DEF NothingToDo, reset_hd, Recalibrate, StartRead, StartWrite, endVars
<1>9. CASE StartWriteNoDrq
  BY <1>3, <1>9 DEF StartWriteNoDrq, Ready, Start
<1>10. CASE ReadError \/ WriteError
  <2>1. queue # << >>
    BY <1>10, TransferState DEF ReadError, WriteError
  <2> QED BY <1>3, <1>10, <2>1 DEF ReadError, WriteError
<1>11. CASE recal_intr
  <2>1. queue # << >>
    BY <1>11 DEF recal_intr, Interrupt, Inv, NeverStalled
  <2>2. bad_rw_intr \/ status' = status
    BY <1>11 DEF recal_intr, endVars
  <2> QED BY <1>2, <1>3, <2>1, <2>2
<1>12. ASSUME read_intr \/ write_intr PROVE DoneStep
  <2>1. queue # << >> /\ (queue' # queue => Both(CURRENT))
    BY <1>12, ReadKeeps, WriteKeeps, TransferState DEF read_intr, write_intr
  <2>2. \/ status' = status
        \/ status' = [status EXCEPT ![CURRENT] = "ok"] /\ queue' = Tail(queue)
    BY <1>12 DEF read_intr, write_intr, Ended, endVars
  <2>3. Tail(queue) # queue
    <3>1. Len(Tail(queue)) = Len(queue) - 1 /\ Len(queue) \in Nat
      BY <1>1, <2>1, CurrentProperties
    <3> QED BY <3>1
  <2> QED BY <1>2, <1>4, <2>1, <2>2, <2>3
<1> QED BY <1>5, <1>6, <1>7, <1>8, <1>9, <1>10, <1>11, <1>12 DEF Next, do_hd_request, Handler

(* A request that ends well has moved both halves of its buffer to or from *)
(* its own sectors of the partition, however often it was retried.         *)
THEOREM TransferDoneHolds == Spec => TransferDone
<1>1. Inv /\ [Next]_vars => [DoneStep]_vars
  BY StepDone
<1>2. TransferDone <=> [][DoneStep]_vars
  BY DEF TransferDone, DoneStep
<1> QED BY <1>1, <1>2, InvHolds, PTL DEF Spec

LEMMA StepWrites ==
  ASSUME Inv, [Next]_vars
  PROVE  WriteStep
<1>1. CASE disk' = disk
  BY <1>1 DEF WriteStep
<1>2. ASSUME Interrupt("write_intr"), NEW x, disk' = [disk EXCEPT ![hd_drive][hd_lba] = x]
      PROVE  WriteStep
  <2>1. /\ queue # << >> /\ CURRENT \in Requests /\ cmd[CURRENT] = WRITE /\ Inside(CURRENT)
        /\ hd_drive = DriveOf(CURRENT) /\ hd_lba = Place(CURRENT, buffer[CURRENT])
        /\ buffer[CURRENT] \in {0, 1} /\ TypeOK
    BY <1>2, TransferState DEF Inv
  <2>2. disk \in [Drives -> [DiskSectors -> Contents]]
    BY DEF Inv, DataInv
  <2>3. \A d \in Drives, s \in DiskSectors :
          disk'[d][s] # disk[d][s] => d = hd_drive /\ s = hd_lba
    BY <1>2, <2>2
  <2>4. hd_lba < Partition[dev[CURRENT]][1] + Partition[dev[CURRENT]][2]
    BY <2>1, PlaceOnDrive
  <2>5. hd_lba \in {Place(CURRENT, 0), Place(CURRENT, 1)}
    BY <2>1
  <2> QED BY <2>1, <2>3, <2>4, <2>5 DEF WriteStep
<1>3. CASE WriteError
  BY <1>2, <1>3 DEF WriteError
<1>4. CASE write_intr
  BY <1>2, <1>4 DEF write_intr
<1>5. CASE UNCHANGED vars
  BY <1>1, <1>5 DEF vars
<1>6. ASSUME NEW a \in Asked, AddRequest(a[1], a[2], a[3]) PROVE WriteStep
  BY <1>1, <1>6 DEF AddRequest
<1>7. CASE do_hd_request
  BY <1>1, <1>7 DEF do_hd_request, NothingToDo, Reject, reset_hd, Recalibrate, StartRead,
                    StartWrite, StartWriteNoDrq
<1>8. CASE ReadError \/ read_intr \/ recal_intr
  BY <1>1, <1>8 DEF ReadError, read_intr, recal_intr
<1> QED BY <1>3, <1>4, <1>5, <1>6, <1>7, <1>8 DEF Next, Handler

(* The disk changes only at the two sectors that the current request, a    *)
(* write, names, and never beyond the end of its partition: splitting the  *)
(* sector number into cylinder, head and sector loses nothing.             *)
THEOREM OwnSectorsHolds == Spec => OwnSectors
<1>1. Inv /\ [Next]_vars => [WriteStep]_vars
  BY StepWrites
<1>2. OwnSectors <=> [][WriteStep]_vars
  BY DEF OwnSectors, WriteStep
<1> QED BY <1>1, <1>2, InvHolds, PTL DEF Spec
=============================================================================
