SPECIFICATION Spec
CONSTANTS
  main = main
  helper = helper
  a = a
  b = b
  c = c
  d = d
  ThreadCount = 2
  Clients = {main, helper}
  Owner = main
  Jobs = {a, b, c, d}
  Spawns <- NestedSpawns
  HelpWaits <- NestedHelps
  BlockWaits <- NestedBlocks
  None = None
INVARIANTS
  TypeOK
  JobsConserved
  PendingCountsUnfinished
  NoLostWorkerWakeup
  NoLostCompletionSignal
PROPERTIES
  ImplementsJobPool
