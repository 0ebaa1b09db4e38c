SPECIFICATION FairSpec
CONSTANTS
  main = main
  worker1 = worker1
  worker2 = worker2
  a = a
  b = b
  c = c
  d = d
  e = e
  Workers = {worker1, worker2}
  Clients = {main}
  Jobs = {a, b, c, d, e}
  Deps <- FanInDeps
  SuccessOnly = {d, e}
  MayThrow = {a}
  None = None
INVARIANTS
  TypeOK
  DependenciesFirst
  WaitAllCoversGraph
PROPERTIES
  OutcomesAreFinal
  HandlesComplete
  QueuedJobsDrain
  ImplementsJobOutcomes
