SPECIFICATION Spec
CONSTANTS
  Programs <- ReadyPrograms
  Parts = 3
  MaxNodes = 7
  Horizon = 3
  None = None
INVARIANTS
  ReadyAfterAncestors
