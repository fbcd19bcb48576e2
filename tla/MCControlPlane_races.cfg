\* One run, several attempts, two request threads: races of one run.
INIT Init
NEXT Next
CONSTANTS
  Runs = {r1}
  Clients = {c1, c2}
  MaxGeneration = 1
  JobLimit = 2
  PersistAttempts = 3
  Phases = {"DISCOVERING"}
  StoreFaults = TRUE
  SecondProcess = FALSE
SYMMETRY ClientSymmetry
INVARIANTS
  ApprovedIsCertified
  SignedIsOfItsAttempt
  CompletedIsWhole
  SlotsMatchThreads
PROPERTIES TerminalResultIsFinal CertifiedExportSpec
