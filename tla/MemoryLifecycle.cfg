\* Collections, forgets and the calls beside them, with two faults anywhere.
SPECIFICATION FairSpec
CONSTANTS
  p1 = p1
  p2 = p2
  p3 = p3
  Objects = {1, 2, 3}
  Callers = {p1, p2, p3}
  Scenes <- MCScenes
  None = None
  MaxFaults = 2
INVARIANTS
  RowsAreTrue
  ReceiptsAreTrue
PROPERTIES
  ProtectedObjectsStay
  CallsConverge
\* Callers stop when they are answered.
CHECK_DEADLOCK FALSE
