\* Two streams, two signals, two uses of `clickfs umount`.
SPECIFICATION FairSpec
CONSTANTS
  f1 = f1
  f2 = f2
  Files = {f1, f2}
  MaxSignals = 2
  MaxUmounts = 2
INVARIANTS
  TypeOK
  CleanExit
PROPERTIES
  ClosedStops
