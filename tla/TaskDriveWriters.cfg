\* A run is started, resumed twice and cancelled while another one wants to start.
SPECIFICATION Spec
CONSTANTS
  p1 = p1
  p2 = p2
  p3 = p3
  p4 = p4
  p5 = p5
  r1 = r1
  r2 = r2
  NoHolder = NoHolder
  Callers = {p1, p2, p3, p4, p5}
  Runs = {r1, r2}
  Command <- MCRivals
INVARIANT
  OneWriter
\* Every process issues one command: at the end all of them are done.
CHECK_DEADLOCK FALSE
