\* One run through all stages and one revalidation; the store does not fail.
SPECIFICATION Spec
CONSTANTS
  Runs = {r1}
  Clients = {c1}
  MaxGeneration = 1
  JobLimit = 1
  PersistAttempts = 3
  Phases = {"DISCOVERING", "DISCOVERY_COMPLETED", "ANALYZING",
            "ANALYSIS_COMPLETED", "PLANNING", "PLAN_COMPLETED",
            "TRANSFORMING", "ASSEMBLING", "ASSEMBLY_COMPLETED"}
  StoreFaults = FALSE
  SecondProcess = FALSE
PROPERTIES
  RunsReachTerminal
  SlotsComeBack
