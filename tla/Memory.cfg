CONSTANTS
  NR_TASKS = 3
  NR_FRAMES = 9
  ImageAddrs = {"image"}
  BssAddrs = {"bss"}
  ArgAddr = "stack"
  NoAddr = "none"
  Exes = {sh}
  NoExe = NoExe
  Values = {1}
  Ops = {"fork", "execve", "exit", "read"}
  ReadAddrs = {"bss"}
  MaxCalls = 3
VIEW UsedMemory
SPECIFICATION Spec
CHECK_DEADLOCK FALSE
INVARIANTS TypeOK ReferenceCounts WritableIsPrivate
PROPERTIES PagesStable ForkCopies
