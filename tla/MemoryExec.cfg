CONSTANTS
  NR_TASKS = 2
  NR_FRAMES = 10
  ImageAddrs = {"image"}
  BssAddrs = {}
  NoAddr = "none"
  ArgAddr = "stack"
  Exes = {sh, cat}
  NoExe = NoExe
  Values = {}
  Ops = {"fork", "execve"}
  ReadAddrs = {}
  MaxCalls = 3
VIEW UsedMemory
SPECIFICATION Spec
CHECK_DEADLOCK FALSE
PROPERTY FirstTouch
