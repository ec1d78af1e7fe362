\* Attempts: every policy over two changes, with two interruptions anywhere.
\* Schedule: every graph and every scope of three tasks, with one to three slots.
SPECIFICATION ExecutionSpec
CONSTANTS
  c1 = c1
  c2 = c2
  Changes = {c1, c2}
  Clean = Clean
  None = None
  Policies <- MCPolicies
  Threshold = 2
  MaxSpend = 3
  MaxInterruptions = 2
  a = a
  b = b
  Tasks = {1, 2, 3}
  Places = {a, b}
  Limits = {1, 2, 3}
INVARIANTS
  CommitsAreEarned
  ExecutionsAreEarned
  RepairStateIsTrue
  ScopesStayApart
  BlockedTasksHaveACause
PROPERTIES
  DriversStartInBudget
  RunsSettle
  SchedulesEnd
\* A run that ended has no further step, and a schedule ends with its report.
CHECK_DEADLOCK FALSE
