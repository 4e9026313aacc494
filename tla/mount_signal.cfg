\* A signal that meets an open file is used up.
SPECIFICATION FairSpec
CONSTANTS
  f1 = f1
  f2 = f2
  Files = {f1, f2}
  MaxSignals = 2
  MaxUmounts = 2
PROPERTIES
  CtrlCUnmounts
