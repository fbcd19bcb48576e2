\* A worker outlives the startup reconciliation of another process.
SPECIFICATION Spec
CONSTANTS
  Runs = {r1}
  Clients = {c1}
  MaxGeneration = 0
  JobLimit = 1
  PersistAttempts = 3
  Phases = {"DISCOVERING"}
  StoreFaults = FALSE
  SecondProcess = TRUE
PROPERTY LateVerdictIsRejected
