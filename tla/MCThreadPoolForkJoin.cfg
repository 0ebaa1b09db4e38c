SPECIFICATION FairSpec
CONSTANTS
  main = main
  helper = helper
  a = a
  b = b
  c = c
  d = d
  ThreadCount = 2
  Clients = {main}
  Owner = main
  Jobs = {a, b, c, d}
  Spawns <- ForkJoinSpawns
  HelpWaits <- ForkJoinHelps
  BlockWaits <- NoCalls
  None = None
PROPERTIES
  SubmittedJobsComplete
  WaitAllReturns
  DestructorReturns
