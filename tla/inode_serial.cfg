\* One thread, as fuser dispatches requests; probes wrap around and pass the root.
SPECIFICATION FairSpec
CONSTANTS
  t1 = t1
  p1 = p1
  p2 = p2
  p3 = p3
  p4 = p4
  Threads = {t1}
  Paths = {p1, p2, p3, p4}
  Root = Root
  NoPath = NoPath
  MaxIno = 7
  Reserved = 4
  HashVals = {6, 7}
INVARIANTS
  TypeOK
  UniqueInodes
PROPERTIES
  AllocateReturns
