\* A stream that failed reports end of file on the next read.
SPECIFICATION FairSpec
CONSTANTS
  r1 = r1
  Readers = {r1}
  ChanCap = 1
  WireCap = 2
  MaxBytes = 1
  PSEUDO_EOF = 10
  TAIL_TRIGGER_GAP = 3
  HasTail = FALSE
  TailLens = {0, 2}
  Offsets <- MCForward
  Sizes = {1}
PROPERTIES
  FailedIsSticky
