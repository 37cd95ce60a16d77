CONSTANTS
  Procs = {p1, p2}
  Nobody = Nobody
  NR_BUFFERS = 2
  NR_REQUEST = 3
  Blocks <- MCOneBlock
  Removable = {}
  Ops = {"bread", "block_write"}
  Fallible = {}
  MaxOps = 2
  MaxHold = 1
SYMMETRY ProcSymmetry
SPECIFICATION Spec
CHECK_DEADLOCK FALSE
INVARIANT HeldIsLatest
