SPECIFICATION FairSpec
CONSTANTS
  Programs <- GraphPrograms
  Parts = 3
  MaxNodes = 7
  Horizon = 3
  None = None
INVARIANTS
  TypeOK
  OrderIsTopological
  ValidationIsExact
  OutcomesDetermined
  ReportAgrees
  IntervalsOrdered
  CancellationsDated
  CriticalPathIsLongest
  NothingWaitsAtDestruction
PROPERTIES
  RecordsFrozen
  MainEnds
