SPECIFICATION Spec
CONSTANTS
  JobCount = 2
  None = None
INVARIANTS
  SafeProcessesAll
