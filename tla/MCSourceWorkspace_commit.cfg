CONSTANTS
  Apps = {a1}
  Clients = {c1}
  Runs = {r1}
  MaxDirs = 2
  Names = {"application", "payroll"}
  Generic = "application"
  None = None
  FailedCommitApplies = TRUE
SPECIFICATION MCSpec
INVARIANTS RecordedSourceExists
CHECK_DEADLOCK FALSE
