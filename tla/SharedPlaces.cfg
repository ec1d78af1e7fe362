\* Claims: two runs on one machine and a third on another compete for one scope.
\* Canonical: three canonical files, four faults anywhere.  Installed: three
\* commands on one install root, in five combinations.
SPECIFICATION PlacesSpec
CONSTANTS
  s1 = s1
  s2 = s2
  s3 = s3
  r1 = r1
  r2 = r2
  r3 = r3
  m1 = m1
  m2 = m2
  Nobody = Nobody
  Sessions = {s1, s2, s3}
  Claimants = {r1, r2, r3}
  Machines = {m1, m2}
  Owner <- MCOwner
  Machine <- MCMachine
  Ttl = 2
  MaxTime = 3
  MaxGrants = 2
  TargetCount = 3
  Updatable <- MCUpdatable
  MaxFaults = 4
  p1 = p1
  p2 = p2
  p3 = p3
  p4 = p4
  a = a
  b = b
  Nil = Nil
  Releases = {a, b}
  Issuers = {p1, p2, p3}
  Scripts <- MCCommands
INVARIANTS
  
  OneClaimant
  
  HumanContentSurvives
  AllOrNothing
  RecoveryIsOpen
  ActiveIsWhole
  RetriesConverge
PROPERTY
  JournalsGuardThePointer
\* Grants and the clock are used up, a conflict stops init until a person
\* resolves it, and every process issues one command: each part may stop.
CHECK_DEADLOCK FALSE
