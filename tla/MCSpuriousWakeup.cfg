SPECIFICATION FairSpec
CONSTANTS
  JobCount = 6
  None = None
INVARIANTS
  JobsAccounted
PROPERTIES
  JoinReturns
