\* Records: two processes decide on one run, from its execution on.  Commands:
\* the commands of one run beside the start of another.
SPECIFICATION TaskRunsSpec
CONSTANTS
  r1 = r1
  r2 = r2
  q1 = q1
  q2 = q2
  ann = ann
  bob = bob
  eve = eve
  d1 = d1
  d2 = d2
  c1 = c1
  None = None
  Actors = {ann, bob, eve}
  CanonicalDigests = {d1}
  Digests = {d1, d2}
  RunIds = {r1, r2}
  Processes = {q1, q2}
  RepairLimit = 1
  Principals <- DeliveryPrincipals
  Starts <- RaceStarts
  CapsuleIds = {c1}
  MaxVersion <- RaceVersions
  p1 = p1
  p2 = p2
  p3 = p3
  p4 = p4
  p5 = p5
  NoHolder = NoHolder
  Callers = {p1, p2, p3, p4, p5}
  Runs = {r1, r2}
  Command <- MCEveryCommand
SYMMETRY ProcessSymmetry
INVARIANTS
  WorkOnlyUnderApproval
  LogMatchesRun
  CompletedRunWasReviewed
  
  
PROPERTY
  EndedRunsStayEnded
\* Runs end, and every process issues one command.
CHECK_DEADLOCK FALSE
