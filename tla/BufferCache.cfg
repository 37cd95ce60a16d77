CONSTANTS
  Procs = {p1, p2}
  Nobody = Nobody
  NR_BUFFERS = 2
  NR_REQUEST = 2
  Blocks <- MCTwoDisks
  Removable <- MCFloppies
  Ops = {"bread", "breada", "bread_page", "new_block", "sys_sync", "sync_dev", "check_disk_change", "modify"}
  Fallible = {"READ"}
  MaxOps = 3
  MaxHold = 2
SYMMETRY ProcSymmetry
SPECIFICATION Spec
CHECK_DEADLOCK FALSE
INVARIANTS TypeOK References LockOwned NoLostWrite HeldIsLatest NoPanic
PROPERTY ClaimClean
