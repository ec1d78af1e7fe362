\* Two calls of any kind interleave over a create, an edit by hand and an update of one issue.
SPECIFICATION Spec
CONSTANTS
  w1 = w1
  w2 = w2
  p1 = p1
  p2 = p2
  Absent = Absent
  Workers = {w1, w2}
  Plans = {p1, p2}
  Base <- MCEditedBase
  MaxAttempts = 2
  MaxEdits = 1
SYMMETRY Symmetry
INVARIANTS
  OneIntentPerIdentity
  ReceiptProvesWrite
  AtMostOneWrite
PROPERTIES
  NothingIsUndone
  KeepsPromise
