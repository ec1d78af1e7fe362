\* Two forgets of one object whose key may fail to be destroyed: the one that
\* fails takes back what the other has forgotten.
SPECIFICATION Spec
CONSTANTS
  p1 = p1
  p2 = p2
  p3 = p3
  Objects = {1, 2, 3}
  Callers = {p1, p2, p3}
  Scenes <- MCForgets
  None = None
  MaxFaults = 1
INVARIANT ForgottenStayForgotten
\* Callers stop when they are answered.
CHECK_DEADLOCK FALSE
