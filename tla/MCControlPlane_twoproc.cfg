\* Another process opens the store while this one works on the run.
INIT Init
NEXT Next
CONSTANTS
  Runs = {r1}
  Clients = {c1}
  MaxGeneration = 1
  JobLimit = 2
  PersistAttempts = 1
  Phases = {"DISCOVERING"}
  StoreFaults = TRUE
  SecondProcess = TRUE
INVARIANTS
  VerdictOfThisAttempt
  TrailExplainsDecision
