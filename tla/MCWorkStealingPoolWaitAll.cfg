SPECIFICATION FairSpec
CONSTANTS
  main = main
  helper = helper
  a = a
  b = b
  c = c
  WorkerCount = 2
  Clients = {main}
  Owner = main
  Jobs = {a}
  None = None
PROPERTIES
  WaitAllReturns
