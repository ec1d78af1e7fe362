\* Two processes, an approval that expires within the clock's range, and two
\* deaths, suspensions, revocations or changes of the policy.
SPECIFICATION FairSpec
CONSTANTS
  p1 = p1
  p2 = p2
  Processes = {p1, p2}
  Duration = 2
  Margin = 1
  ApprovalExpiry = 5
  MaxTime = 5
  MaxFaults = 2
INVARIANTS
  EffectsWereAuthorized
  GrantsAreChained
  GrantsFitTheRun
PROPERTIES
  ApprovalsConverge
\* An ended run stays ended.
CHECK_DEADLOCK FALSE
