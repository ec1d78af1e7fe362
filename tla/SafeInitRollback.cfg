\* An apply fails and so does its rollback.
SPECIFICATION FilesSpec
CONSTANTS
  TargetCount = 3
  Updatable <- MCUpdatable
  MaxFaults = 2
INVARIANTS
  FailuresPreserveState
\* A conflict stops init until a person resolves it.
CHECK_DEADLOCK FALSE
