CONSTANTS
  Procs = {p1, p2}
  Nobody = Nobody
  NR_BUFFERS = 2
  NR_REQUEST = 2
  Blocks <- MCHardDisk
  Removable = {}
  Ops = {"bread", "block_write"}
  Fallible = {}
  MaxOps = 4
  MaxHold = 2
SPECIFICATION FairSpec
CHECK_DEADLOCK FALSE
INVARIANT UniqueBuffer
PROPERTY ReturnsUnlessStuck
