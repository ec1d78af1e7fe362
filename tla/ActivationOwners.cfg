\* An activation dies with the lock, two others judge its lock to be stale, and
\* a fourth takes the path while one of them has the other's lock aside.
SPECIFICATION Spec
CONSTANTS
  p1 = p1
  p2 = p2
  p3 = p3
  p4 = p4
  a = a
  b = b
  Nil = Nil
  Releases = {a}
  Issuers = {p1, p2, p3, p4}
  Scripts <- MCOwners
INVARIANT OneOwner
\* Every process issues one command.
CHECK_DEADLOCK FALSE
