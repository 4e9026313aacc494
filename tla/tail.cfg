\* Tables of one and two columns with every kind of key; a limit below, at and above the rows.
SPECIFICATION Spec
CONSTANTS
  Vals = {0, 1}
  Schemas <- MCSchemas
  MaxRows = 3
  TailRows = 2
INVARIANTS
  BufferIsRows
  LatestRows
  KeysMaterialize
