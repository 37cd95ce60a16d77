CONSTANTS
  Procs = {p1, p2}
  Nobody = Nobody
  NR_BUFFERS = 2
  NR_REQUEST = 2
  Blocks <- MCHardDisk
  Removable = {}
  Ops = {"bread", "block_write", "sys_sync"}
  Fallible = {}
  MaxOps = 3
  MaxHold = 1
SPECIFICATION FairSpec
CHECK_DEADLOCK FALSE
PROPERTY EverythingReturns
