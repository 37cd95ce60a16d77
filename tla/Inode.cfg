CONSTANTS
  Procs = {p1, p2, p3}
  Nobody = Nobody
  NR_INODE = 2
  Keys <- MCKeys
  Removable <- MCFloppies
  MaxOps = 4
SPECIFICATION FairSpec
CHECK_DEADLOCK FALSE
INVARIANTS TypeOK UniqueInode Counted NoLostUpdate UnusedIsClean QueuesKept
PROPERTIES CallsReturn
