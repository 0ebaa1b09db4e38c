SPECIFICATION FairSpec
CONSTANTS
  main = main
  helper = helper
  a = a
  b = b
  c = c
  WorkerCount = 2
  Clients = {main, helper}
  Owner = main
  Jobs = {a, b}
  None = None
INVARIANTS
  TypeOK
  PendingCoversJobs
PROPERTIES
  ImplementsJobPool
  SubmittedJobsRun
  DestructorReturns
