SPECIFICATION RingSpec
CONSTANTS
  a = a
  b = b
  c = c
  d = d
  Jobs = {a, b, c, d}
  Capacity = 3
  NoJob = NoJob
INVARIANTS
  SnapshotIsRecentWindow
  SpansAreWhole
