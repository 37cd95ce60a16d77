CONSTANTS
  Readers = {r1}
  Writers = {w1, w2}
  MEMSIZE = 3
  Bytes = {1, 2}
  Messages <- MCMessages
  Sizes = {2}
  Signals = TRUE
  MaxWrites = 2
SPECIFICATION FairSpec
INVARIANTS TypeOK OneInside
PROPERTIES IsFifo WritesEnd
