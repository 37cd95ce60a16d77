CONSTANTS
  Readers = {p1, p2}
  Writers = {p2, p3}
  Nobody = Nobody
  PAGE_SIZE = 4
  Bytes = {0, 1, 2}
  Messages <- MCMessages
  Sizes = {2}
  Faulting = {p1}
  MaxWrites = 2
SPECIFICATION FairSpec
CHECK_DEADLOCK FALSE
INVARIANTS TypeOK InodeInUse
PROPERTIES IsFifo EndOfFile SleepersWake
