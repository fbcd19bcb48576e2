\* STOP RUN in a CALLed program whose linkage the call matches.
CONSTANTS
  Units <- MCUnits
  Outcomes <- MCOutcomes
  MaxSteps = 30
  Layouts <- MCLayouts
  MaxSource = 1
  Item <- Items
  XWidth = 2
  Written <- MCWritten
  Storages <- MCStorages
  IntDigits = 1
  IntMax = 21
  LongMax = 922
SPECIFICATION MCSpec
INVARIANTS
  StopRunEndsTheUnit
CHECK_DEADLOCK FALSE
