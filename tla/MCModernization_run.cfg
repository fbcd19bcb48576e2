SPECIFICATION MCSpec
CONSTANTS
  Applications <- MCApplications
  CONSTRUCT_REGISTRY <- MCRegistry
  Cards <- MCCards
  Temporary = {"W"}
  MaxCards = 5
  Reports <- MCReports
  Sources <- MCSources
  Worlds <- MCWorlds
  MaxGeneration = 1
  SourceTrees <- MCSourceTrees
  Declarations <- MCDeclarations
  NoName <- MCNoName
CHECK_DEADLOCK FALSE
INVARIANTS
  OnlySupportedIsGenerated
  NoCallCycleIsGenerated
  EveryCallDispatches
  PreparationForeseen
  MergedCopybooksAreSound
  ReportIsTruthful
  FullIsFaithful
  ServedVerdictIsBacked
  ServedProofIsEarned
  SameProgramEnters
