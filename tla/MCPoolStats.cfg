SPECIFICATION Spec
CONSTANTS
  worker1 = worker1
  worker2 = worker2
  helper = helper
  Workers = {worker1, worker2}
  Helpers = {helper}
  MaxJobs = 4
  MaxRounds = 2
INVARIANTS
  StatsExactAfterWaitAll
  NoReaderSeesAhead
