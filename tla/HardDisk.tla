------------------------------ MODULE HardDisk ------------------------------
(***************************************************************************)
(* The hard disk driver of linux-0.11 (kernel/blk_drv/hd.c) with the       *)
(* request queue of its device: do_hd_request starts a command for the     *)
(* first request, the interrupt calls whatever do_hd points to, and errors *)
(* are answered by retrying, recalibrating and resetting the controller.   *)
(*                                                                         *)
(* A handler runs to its end: `pc` is "request" while do_hd_request has    *)
(* another round (its label repeat) to make, and nothing else happens      *)
(* meanwhile.  The controller (hd_cmd, hd_lba, hd_left, hd_data) is        *)
(* external: it is modelled from how the driver uses it, it interrupts     *)
(* once for every sector and may report an error each time.                *)
(***************************************************************************)
EXTENDS BlockRequest

CONSTANTS
  MaxRequests,    \* bound: requests made in all
  Asked,          \* what is asked for: triples <<cmd, minor, block>>
  NR_HD,          \* drives
  Partition,      \* hd[]: per minor device <<start_sect, nr_sects>>
  sects, heads, cyls,  \* hd_info[]: sectors per track, heads and cylinders
  MAX_ERRORS

ASSUME AskedAssumption  == \A a \in Asked : a[1] \in {READ, WRITE} /\ a[2] \in Nat /\ a[3] \in Nat
ASSUME DrivesAssumption == /\ NR_HD \in Nat \ {0}
                           /\ sects \in Nat \ {0} /\ heads \in Nat \ {0} /\ cyls \in Nat \ {0}
ASSUME PartitionAssumption ==
  /\ DOMAIN Partition = 0 .. 5 * NR_HD - 1
  /\ \A m \in DOMAIN Partition :
       Partition[m] \in Nat \X Nat /\ Partition[m][1] + Partition[m][2] <= cyls * heads * sects
ASSUME BoundsAssumption == MaxRequests \in Nat /\ MAX_ERRORS \in Nat \ {0}

VARIABLES
  cmd, dev, sector, nr_sectors, buffer, errors,  \* the fields of each request
  block,          \* per request: b_blocknr of its buffer head
  status,         \* per request: "none", "queued", b_uptodate after the end
  data,           \* per request: the two sectors of its buffer head
  queue,          \* the linked list from CURRENT
  made,           \* requests made so far
  reset, recalibrate, do_hd, pc,
  hd_cmd, hd_drive, hd_lba, hd_left, hd_data,    \* the controller
  disk            \* per drive and sector: what is on it

reqVars == <<cmd, dev, block, made>>
posVars == <<sector, nr_sectors, buffer>>
endVars == <<status, queue>>
ctlVars == <<hd_cmd, hd_drive, hd_lba, hd_left, hd_data>>
vars == <<reqVars, posVars, endVars, errors, data, reset, recalibrate, do_hd, pc,
          ctlVars, disk>>

Requests == 1 .. MaxRequests
Drives   == 0 .. NR_HD - 1
DiskSectors == 0 .. cyls * heads * sects - 1

(* Contents of a sector: its first contents, what half h of a request      *)
(* writes, or what a failed write leaves.                                  *)
Blank(s)      == <<"disk", s>>
Written(i, h) == <<"request", i, h>>
Junk          == <<"junk">>

CURRENT == Head(queue)

-----------------------------------------------------------------------------
(* end_request and bad_rw_intr, as what they make of the queue.            *)

Ended(ok) == /\ status' = [status EXCEPT ![CURRENT] = IF ok THEN "ok" ELSE "failed"]
             /\ queue' = Tail(queue)

OneMore(n) == n > MAX_ERRORS  \* mutant: off by one

GiveUp(n) == n >= MAX_ERRORS

RetryForever == UNCHANGED <<errors, reset, endVars>>  \* mutant: errors are not counted

(* After end_request CURRENT is the next request, whose errors are counted *)
(* from 0, or NULL: then bad_rw_intr reads the third entry of the page     *)
(* directory, which is at address 0, for the error count: an address, and  *)
(* so more than MAX_ERRORS.                                                *)
bad_rw_intr ==
  LET n == errors[CURRENT] + 1
  IN /\ errors' = [errors EXCEPT ![CURRENT] = n]
     /\ IF GiveUp(n)
        THEN /\ Ended(FALSE)
             /\ reset' = IF Len(queue) = 1 \/ errors[queue[2]] > MAX_ERRORS \div 2
                         THEN TRUE ELSE reset
        ELSE /\ reset' = IF n > MAX_ERRORS \div 2 THEN TRUE ELSE reset
             /\ UNCHANGED endVars

-----------------------------------------------------------------------------
(* make_request and add_request: a buffer of two sectors is queued by the  *)
(* elevator, or started at once when the queue is empty.                   *)

AsRequest(i) == [cmd |-> cmd[i], blk |-> <<dev[i], sector[i]>>]

AddRequest(c, m, b) ==
  /\ pc = "idle" /\ made < MaxRequests /\ <<c, m, b>> \in Asked
  /\ LET i == made + 1
         req == [cmd |-> c, blk |-> <<m, 2 * b>>]
     IN /\ made' = i
        /\ cmd' = [cmd EXCEPT ![i] = c]
        /\ dev' = [dev EXCEPT ![i] = m]
        /\ block' = [block EXCEPT ![i] = b]
        /\ errors' = [errors EXCEPT ![i] = 0]
        /\ sector' = [sector EXCEPT ![i] = 2 * b]
        /\ nr_sectors' = [nr_sectors EXCEPT ![i] = 2]
        /\ buffer' = [buffer EXCEPT ![i] = 0]
        /\ status' = [status EXCEPT ![i] = "queued"]
        /\ data' = [data EXCEPT ![i] = [h \in {0, 1} |-> IF c = WRITE THEN Written(i, h) ELSE Junk]]
        /\ queue' = Enqueue([j \in Requests |-> AsRequest(j)], queue, i, req)
  /\ pc' = IF queue = << >> THEN "request" ELSE "idle"
  /\ UNCHANGED <<reset, recalibrate, do_hd, ctlVars, disk>>

-----------------------------------------------------------------------------
(* do_hd_request                                                           *)

(* divl by sectors, then by heads; hd_out hands the three numbers to the   *)
(* controller, which finds the sector they name.                           *)
Sec(b)    == (b % sects) + 1
HeadOf(b) == (b \div sects) % heads
Cyl(b)    == (b \div sects) \div heads

Address(cyl, head, sec) == (cyl * heads + head) * sects + sec - 1

hd_out(drive, nsect, lba, c, intr_addr) ==
  /\ do_hd' = intr_addr
  /\ hd_cmd' = c
  /\ hd_drive' = drive
  /\ hd_lba' = lba
  /\ hd_left' = nsect

NothingToDo ==
  /\ pc = "request" /\ queue = << >>
  /\ pc' = "idle"
  /\ UNCHANGED <<reqVars, posVars, endVars, errors, data, reset, recalibrate, do_hd, ctlVars, disk>>

FirstSectorFits ==  \* mutant: only the first sector is checked
  dev[CURRENT] < 5 * NR_HD /\ sector[CURRENT] < Partition[dev[CURRENT]][2]

(* The drive exists and the request does not go beyond the end of its      *)
(* partition.  The code asks for two sectors also when a retry needs only  *)
(* the second one.                                                         *)
InRange == dev[CURRENT] < 5 * NR_HD /\ sector[CURRENT] + 2 <= Partition[dev[CURRENT]][2]

Reject ==
  /\ pc = "request" /\ queue # << >> /\ ~InRange
  /\ Ended(FALSE)
  /\ UNCHANGED <<reqVars, posVars, errors, data, reset, recalibrate, do_hd, pc, ctlVars, disk>>

Start == pc = "request" /\ queue # << >> /\ InRange

reset_hd ==
  /\ Start /\ reset
  /\ reset' = FALSE /\ recalibrate' = TRUE
  /\ hd_out(dev[CURRENT] \div 5, sects, 0, "SPECIFY", "recal_intr")
  /\ pc' = "idle"
  /\ UNCHANGED <<reqVars, posVars, endVars, errors, data, hd_data, disk>>

Recalibrate ==
  /\ Start /\ ~reset /\ recalibrate
  /\ recalibrate' = FALSE
  /\ hd_out(dev[CURRENT] \div 5, sects, 0, "RESTORE", "recal_intr")
  /\ pc' = "idle"
  /\ UNCHANGED <<reqVars, posVars, endVars, errors, data, reset, hd_data, disk>>

(* The sector on the drive, as the controller gets it. *)
DriveSector ==
  LET b == sector[CURRENT] + Partition[dev[CURRENT]][1]
  IN  Address(Cyl(b), HeadOf(b), Sec(b))

Ready == Start /\ ~reset /\ ~recalibrate

StartRead ==
  /\ Ready /\ cmd[CURRENT] = READ
  /\ hd_out(dev[CURRENT] \div 5, nr_sectors[CURRENT], DriveSector, "READ", "read_intr")
  /\ pc' = "idle"
  /\ UNCHANGED <<reqVars, posVars, endVars, errors, data, reset, recalibrate, hd_data, disk>>

(* The drive asks for data, and gets the first sector ... *)
StartWrite ==
  /\ Ready /\ cmd[CURRENT] = WRITE
  /\ hd_out(dev[CURRENT] \div 5, nr_sectors[CURRENT], DriveSector, "WRITE", "write_intr")
  /\ hd_data' = data[CURRENT][buffer[CURRENT]]
  /\ pc' = "idle"
  /\ UNCHANGED <<reqVars, posVars, endVars, errors, data, reset, recalibrate, disk>>

(* ... or it does not (no DRQ_STAT), which counts as an error. *)
StartWriteNoDrq ==
  /\ Ready /\ cmd[CURRENT] = WRITE
  /\ bad_rw_intr
  /\ do_hd' = "write_intr"
  /\ hd_cmd' = "none"
  /\ UNCHANGED <<reqVars, posVars, data, recalibrate, pc, hd_drive, hd_lba, hd_left, hd_data, disk>>

do_hd_request == \/ NothingToDo \/ Reject \/ reset_hd \/ Recalibrate
                 \/ StartRead \/ StartWrite \/ StartWriteNoDrq

-----------------------------------------------------------------------------
(* The interrupt: do_hd is taken and cleared, then called.  It comes when  *)
(* the controller is done with a sector or a command, and every handler    *)
(* that does not wait for another sector calls do_hd_request.              *)

Interrupt(h) == pc = "idle" /\ hd_cmd # "none" /\ do_hd = h

(* The controller goes on to the next sector, or is done. *)
NextSector == /\ hd_left' = hd_left - 1
              /\ hd_lba' = hd_lba + 1
              /\ hd_cmd' = IF hd_left = 1 THEN "none" ELSE hd_cmd
              /\ UNCHANGED hd_drive

NoRestart == pc' = "idle"  \* mutant: the queue is left alone

Restart == pc' = "request"

Failed == hd_cmd' = "none" /\ UNCHANGED <<hd_drive, hd_lba, hd_left, hd_data>>

ReadError ==
  /\ Interrupt("read_intr") /\ Failed
  /\ do_hd' = "NULL"
  /\ bad_rw_intr
  /\ Restart
  /\ UNCHANGED <<reqVars, posVars, data, recalibrate, disk>>

SameHalf == UNCHANGED buffer  \* mutant: the second sector goes over the first

Forward == buffer' = [buffer EXCEPT ![CURRENT] = @ + 1]

read_intr ==
  /\ Interrupt("read_intr") /\ NextSector /\ UNCHANGED hd_data
  /\ data' = [data EXCEPT ![CURRENT][buffer[CURRENT]] = disk[hd_drive][hd_lba]]
  /\ errors' = [errors EXCEPT ![CURRENT] = 0]
  /\ Forward
  /\ sector' = [sector EXCEPT ![CURRENT] = @ + 1]
  /\ nr_sectors' = [nr_sectors EXCEPT ![CURRENT] = @ - 1]
  /\ IF nr_sectors[CURRENT] > 1
     THEN do_hd' = "read_intr" /\ UNCHANGED <<endVars, pc>>
     ELSE do_hd' = "NULL" /\ Ended(TRUE) /\ Restart
  /\ UNCHANGED <<reqVars, reset, recalibrate, disk>>

(* What a failed write leaves on the disk is not known. *)
WriteError ==
  /\ Interrupt("write_intr") /\ Failed
  /\ do_hd' = "NULL"
  /\ bad_rw_intr
  /\ \E d \in {disk[hd_drive][hd_lba], Junk} : disk' = [disk EXCEPT ![hd_drive][hd_lba] = d]
  /\ Restart
  /\ UNCHANGED <<reqVars, posVars, data, recalibrate>>

write_intr ==
  /\ Interrupt("write_intr") /\ NextSector
  /\ disk' = [disk EXCEPT ![hd_drive][hd_lba] = hd_data]
  /\ nr_sectors' = [nr_sectors EXCEPT ![CURRENT] = @ - 1]
  /\ IF nr_sectors[CURRENT] > 1
     THEN /\ sector' = [sector EXCEPT ![CURRENT] = @ + 1]
          /\ Forward
          /\ do_hd' = "write_intr"
          /\ hd_data' = data[CURRENT][buffer'[CURRENT]]
          /\ UNCHANGED <<endVars, pc>>
     ELSE /\ do_hd' = "NULL" /\ Ended(TRUE) /\ Restart
          /\ UNCHANGED <<sector, buffer, hd_data>>
  /\ UNCHANGED <<reqVars, errors, data, reset, recalibrate>>

recal_intr ==
  /\ Interrupt("recal_intr") /\ Failed
  /\ do_hd' = "NULL"
  /\ \/ bad_rw_intr
     \/ UNCHANGED <<errors, reset, endVars>>
  /\ Restart
  /\ UNCHANGED <<reqVars, posVars, data, recalibrate, disk>>

Handler == ReadError \/ read_intr \/ WriteError \/ write_intr \/ recal_intr

-----------------------------------------------------------------------------
Init ==
  /\ cmd = [i \in Requests |-> READ]
  /\ dev = [i \in Requests |-> 0] /\ block = [i \in Requests |-> 0]
  /\ sector = [i \in Requests |-> 0] /\ nr_sectors = [i \in Requests |-> 0]
  /\ buffer = [i \in Requests |-> 0] /\ errors = [i \in Requests |-> 0]
  /\ status = [i \in Requests |-> "none"]
  /\ data = [i \in Requests |-> [h \in {0, 1} |-> Junk]]
  /\ queue = << >> /\ made = 0
  /\ reset = TRUE /\ recalibrate = TRUE
  /\ do_hd = "NULL" /\ pc = "idle"
  /\ hd_cmd = "none" /\ hd_drive = 0 /\ hd_lba = 0 /\ hd_left = 0 /\ hd_data = Junk
  /\ disk = [d \in Drives |-> [s \in DiskSectors |-> Blank(s)]]

Next == \/ \E a \in Asked : AddRequest(a[1], a[2], a[3])
        \/ do_hd_request
        \/ Handler

Spec == Init /\ [][Next]_vars

(* Code that runs goes on, and the controller interrupts: the driver has   *)
(* no timeout.                                                             *)
FairSpec == Spec /\ WF_vars(do_hd_request) /\ WF_vars(Handler)
-----------------------------------------------------------------------------
(* Properties                                                              *)

(* The types of the requests, the driver and the controller. *)
TypeOK ==
  /\ cmd \in [Requests -> {READ, WRITE}]
  /\ dev \in [Requests -> Nat] /\ block \in [Requests -> Nat]
  /\ sector \in [Requests -> Nat] /\ nr_sectors \in [Requests -> 0 .. 2]
  /\ buffer \in [Requests -> 0 .. 2] /\ errors \in [Requests -> 0 .. MAX_ERRORS]
  /\ status \in [Requests -> {"none", "queued", "ok", "failed"}]
  /\ queue \in Seq(Requests) /\ made \in 0 .. MaxRequests
  /\ reset \in BOOLEAN /\ recalibrate \in BOOLEAN
  /\ do_hd \in {"NULL", "read_intr", "write_intr", "recal_intr"}
  /\ pc \in {"idle", "request"}
  /\ hd_cmd \in {"none", "SPECIFY", "RESTORE", "READ", "WRITE"}
  /\ hd_drive \in Drives /\ hd_lba \in 0 .. cyls * heads * sects /\ hd_left \in Nat
  /\ DOMAIN data = Requests /\ \A i \in Requests : DOMAIN data[i] = {0, 1}
  /\ DOMAIN disk = Drives /\ \A d \in Drives : DOMAIN disk[d] = DiskSectors

(* The sector of the drive that holds half h of the block of request i. *)
Place(i, h) == Partition[dev[i]][1] + 2 * block[i] + h
DriveOf(i)  == dev[i] \div 5

(* A request that ends well has moved both halves of the buffer to or from *)
(* their own sectors of the partition, whatever was retried in between: a  *)
(* read has the contents of the disk, a write has put its own there        *)
(* (sector, nr_sectors and buffer move together in read_intr, write_intr). *)
TransferDone == [][\A i \in Requests :
   status[i] = "queued" /\ status'[i] = "ok" =>
     \A h \in {0, 1} : disk'[DriveOf(i)][Place(i, h)] = data'[i][h]]_vars

(* The disk changes only where the current request, a write, has asked for *)
(* it, and never outside the partition the request names (do_hd_request).  *)
OwnSectors == [][\A d \in Drives : \A s \in DiskSectors :
   disk'[d][s] # disk[d][s] =>
     /\ queue # << >> /\ cmd[CURRENT] = WRITE /\ d = DriveOf(CURRENT)
     /\ s \in {Place(CURRENT, 0), Place(CURRENT, 1)}
     /\ s < Partition[dev[CURRENT]][1] + Partition[dev[CURRENT]][2]]_vars

(* While requests wait, a command is in progress whose interrupt finds the *)
(* handler that expects it; nothing else would start the queue again       *)
(* (do_hd_request at the end of every handler).                            *)
Expects(h) == \/ h = "read_intr" /\ hd_cmd = "READ" /\ hd_left = nr_sectors[CURRENT]
              \/ h = "write_intr" /\ hd_cmd = "WRITE" /\ hd_left = nr_sectors[CURRENT]
              \/ h = "recal_intr" /\ hd_cmd \in {"SPECIFY", "RESTORE"}
NeverStalled == pc = "idle" => IF queue = << >> THEN hd_cmd = "none" ELSE Expects(do_hd)

(* Every request ends, with its data or with an error, although every      *)
(* command may fail: retries are bounded by MAX_ERRORS (bad_rw_intr).      *)
RequestsEnd == \A i \in Requests : status[i] = "queued" ~> status[i] \in {"ok", "failed"}
=============================================================================
