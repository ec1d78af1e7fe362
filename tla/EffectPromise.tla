---------------------------- MODULE EffectPromise ----------------------------
(***************************************************************************)
(* What the effect kernel promises of the remote issue: all its plans, with *)
(* their retries, lost answers, late requests and reconciliations, act on  *)
(* the issue like an atomic compare-and-set of each plan against the       *)
(* version it was made for, among the edits people make of the issue; and  *)
(* a plan is acknowledged once, after its compare-and-set.                 *)
(***************************************************************************)
EXTENDS Integers

CONSTANTS Plans, Base, Absent

VARIABLES
  issue,        \* the remote managed issue, or Absent
  applied,      \* plans whose compare-and-set took place
  acknowledged  \* plans with a receipt

vars == <<issue, applied, acknowledged>>

Version == IF issue = Absent THEN 0 ELSE issue.version

Edited == issue # Absent /\ issue.drifted

Apply(p) ==
  /\ Version = Base[p]
  /\ ~Edited
  /\ issue' = [digest |-> p, version |-> Version + 1, drifted |-> FALSE]
  /\ applied' = applied \cup {p}
  /\ UNCHANGED acknowledged

Edit ==
  /\ issue # Absent
  /\ \E managed \in BOOLEAN :
       issue' = [digest |-> issue.digest, version |-> issue.version + 1,
                 drifted |-> issue.drifted \/ managed]
  /\ UNCHANGED <<applied, acknowledged>>

Acknowledge(p) ==
  /\ p \in applied \ acknowledged
  /\ acknowledged' = acknowledged \cup {p}
  /\ UNCHANGED <<issue, applied>>

Init == issue = Absent /\ applied = {} /\ acknowledged = {}

Next == Edit \/ \E p \in Plans : Apply(p) \/ Acknowledge(p)

Spec == Init /\ [][Next]_vars
=============================================================================
