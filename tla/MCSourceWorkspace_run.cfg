CONSTANTS
  Apps = {a1, a2}
  Clients = {c1, c2}
  Runs = {r1, r2}
  MaxDirs = 3
  Names = {"application", "payroll"}
  Generic = "application"
  None = None
  FailedCommitApplies = FALSE
SPECIFICATION MCSpec
INVARIANTS RecordedSourceExists PendingSourceExists NamesAreUnique ActiveRunHasSource
SYMMETRY Symmetry
CHECK_DEADLOCK FALSE
