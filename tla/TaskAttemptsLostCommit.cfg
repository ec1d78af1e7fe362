\* Does a run whose task commit was made ever fail?
SPECIFICATION Spec
CONSTANTS
  c1 = c1
  c2 = c2
  Changes = {c1, c2}
  Clean = Clean
  None = None
  Policies <- MCPolicies
  Threshold = 2
  MaxSpend = 3
  MaxInterruptions = 2
INVARIANT
  CommittedRunsDoNotFail
CHECK_DEADLOCK FALSE
