\* Two threads inside read_blocking on one handle.
SPECIFICATION Spec
CONSTANTS
  r1 = r1
  r2 = r2
  Readers = {r1, r2}
  ChanCap = 1
  WireCap = 2
  MaxBytes = 2
  PSEUDO_EOF = 10
  TAIL_TRIGGER_GAP = 3
  HasTail = TRUE
  TailLens = {2}
  Offsets <- MCOffsets
  Sizes = {1, 2}
INVARIANTS
  OneSelectPerReader
PROPERTIES
  IsSequentialFile
