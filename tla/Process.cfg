CONSTANTS
  NR_TASKS = 3
  MaxPid = 4
  MaxForks = 2
  MaxSignals = 1
SPECIFICATION FairSpec
CHECK_DEADLOCK FALSE
INVARIANTS TypeOK FatherKnown NoMissedChild
PROPERTIES WaitEnds KillWorks
