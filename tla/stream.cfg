\* One open file, one reading thread: what reads return, that they return, what stays behind.
SPECIFICATION FairSpec
CONSTANTS
  r1 = r1
  Readers = {r1}
  ChanCap = 1
  WireCap = 1
  MaxBytes = 3
  PSEUDO_EOF = 10
  TAIL_TRIGGER_GAP = 3
  HasTail = TRUE
  TailLens = {0, 2}
  Offsets <- MCOffsets
  Sizes = {1, 3}
INVARIANTS
  TypeOK
  ForwardReadsAreTheFile
  NoSilentTruncation
  ErrorAfterAllData
  BoundedBuffering
PROPERTIES
  ReadReturns
  NothingLeftRunning
  IsSequentialFile
