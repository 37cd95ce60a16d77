CONSTANTS
  MaxRequests = 3
  Asked <- MCAsked
  NR_HD = 1
  Partition <- MCPartition
  sects = 2
  heads = 2
  cyls = 2
  MAX_ERRORS = 3
SPECIFICATION FairSpec
CHECK_DEADLOCK FALSE
INVARIANTS TypeOK NeverStalled
PROPERTIES TransferDone OwnSectors RequestsEnd
