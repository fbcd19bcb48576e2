\* Generated Java against the oracle's COBOL: flow of control and scopes.
CONSTANTS
  Units <- MCUnits
  Outcomes <- MCOutcomes
  MaxSteps = 30
  Layouts <- MCLayouts
  MaxSource = 5
  Item <- Items
  XWidth = 2
  Written <- MCWritten
  Storages <- MCStorages
  IntDigits = 1
  IntMax = 21
  LongMax = 922
SPECIFICATION MCSpec
INVARIANTS
  RunsAlike
  ScopesAsWritten
  StoresWhatCobolStores
CHECK_DEADLOCK FALSE
