CONSTANTS
  NR_TASKS = 2
  NR_FRAMES = 9
  ImageAddrs = {"image"}
  BssAddrs = {}
  NoAddr = "none"
  ArgAddr = "stack"
  Exes = {sh}
  NoExe = NoExe
  Values = {1}
  Ops = {"fork", "read"}
  ReadAddrs = {"image"}
  MaxCalls = 3
VIEW UsedMemory
SPECIFICATION Spec
CHECK_DEADLOCK FALSE
PROPERTY PagesStable
