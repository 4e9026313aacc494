\* Two threads, three paths whose probes overlap: no wrap-around.
SPECIFICATION Spec
CONSTANTS
  t1 = t1
  t2 = t2
  p1 = p1
  p2 = p2
  p3 = p3
  Threads = {t1, t2}
  Paths = {p1, p2, p3}
  Root = Root
  NoPath = NoPath
  MaxIno = 11
  Reserved = 4
  HashVals = {2, 6, 7}
INVARIANTS
  UniqueInodes
  GivenResolve
  ReverseAgrees
