---------------------------- MODULE EffectKernel ----------------------------
(***************************************************************************)
(* The effect kernel: the broker of packages/effects, the durable effect   *)
(* repository of the runtime store and the Jira projection adapter, over   *)
(* one remote issue that several plans project to.                         *)
(*                                                                         *)
(* A worker is one call of plan, execute or reconcile in some process; the *)
(* code awaits between any two of the steps below, so workers interleave   *)
(* there, and a process may die there.  Each repository operation is one   *)
(* SQLite transaction and is one step.  effect_outbox and effect_inbox     *)
(* repeat the status and the receipt in the same transactions and are not  *)
(* kept apart.                                                             *)
(***************************************************************************)
EXTENDS Integers

CONSTANTS
  Workers,      \* concurrent broker calls
  Plans,        \* canonical projections of one target; each stands for its digest
  Base,         \* Base[p]: the remote version p was last reconciled with, 0 to create
  MaxAttempts,  \* bound: attempts per intent
  MaxEdits,     \* bound: human edits of the remote issue
  Absent        \* an absent row, issue or key

ASSUME EffectAssumption ==
  /\ Base \in [Plans -> Nat]
  /\ MaxAttempts \in Nat
  /\ MaxEdits \in Nat

VARIABLES
  intents,   \* key -> row of effect_intents, or Absent
  receipts,  \* key -> row of operation_receipts, or Absent
  issue,     \* the remote managed issue, or Absent
  late,      \* writes the caller gave up on that may still reach the service
  calls,     \* worker -> the call it is in
  writes,    \* history: how often each projection was written to the issue
  edits      \* number of human edits, for the bound

vars == <<intents, receipts, issue, late, calls, writes, edits>>

-----------------------------------------------------------------------------
EffectStatus == {"planned", "ready", "applying", "uncertain", "failed", "completed"}

CanonicalizationVersions == {1, 2}

\* An idempotency key is the digest of the logical identity under one
\* canonicalization version: the same plan has a V1 and a V2 key.
Keys == [plan : Plans, version : CanonicalizationVersions]

IntentRow == [status : EffectStatus, attempt : Nat]

ReceiptRow == [outcome : {"applied", "already-applied"}, attempt : Nat, remoteVersion : Nat]

Issue == [digest : Plans, version : Nat, drifted : BOOLEAN]

LateWrite == [plan : Plans, expected : Nat]

ASSUME AbsentIsNoRow == Absent \notin IntentRow /\ Absent \notin ReceiptRow /\ Absent \notin Issue

Steps == {"idle", "planning", "checked", "claimed", "writing",
          "applied", "failed", "unknown", "inspected"}

Findings == {"none", "applied", "already-applied", "not-applied", "unknown"}

\* The locals of a call: what it has read so far and will act on.
Call == [step : Steps, key : Keys \cup {Absent}, attempt : Nat,
         finding : Findings, seen : Nat]

Idle == [step |-> "idle", key |-> Absent, attempt |-> 0, finding |-> "none", seen |-> 0]

At(w, step) == calls[w].step = step
PlanOf(w) == calls[w].key.plan

\* The call of w moves on to step, knowing its key, an attempt, a finding and
\* the remote version it saw.
Goto(w, step, key, attempt, finding, seen) ==
  calls' = [calls EXCEPT ![w] =
    [step |-> step, key |-> key, attempt |-> attempt, finding |-> finding, seen |-> seen]]

Return(w) == calls' = [calls EXCEPT ![w] = Idle]

Moves(w, step, finding, seen) ==
  Goto(w, step, calls[w].key, calls[w].attempt, finding, seen)

-----------------------------------------------------------------------------
(* plan: look the logical identity up, then insert in a transaction that   *)
(* looks it up again.                                                      *)

SameIdentity(k) == {j \in Keys : j.plan = k.plan /\ intents[j] # Absent}

PlanLookup(w, k) ==
  /\ At(w, "idle")
  /\ SameIdentity(k) = {}
  /\ Goto(w, "planning", k, 0, "none", 0)
  /\ UNCHANGED <<intents, receipts, issue, late, writes, edits>>

\* Mutant: only the key is looked up again, not the identity.
InsertableByKey(k) == intents[k] = Absent

\* readIntentByIdentity inside BEGIN IMMEDIATE: another connection may have
\* inserted the identity, under either key form, since the lookup.
Insertable(k) == SameIdentity(k) = {}

InsertOrGet(w) ==
  /\ At(w, "planning")
  /\ intents' = IF Insertable(calls[w].key)
                THEN [intents EXCEPT ![calls[w].key] = [status |-> "planned", attempt |-> 0]]
                ELSE intents
  /\ Return(w)
  /\ UNCHANGED <<receipts, issue, late, writes, edits>>

-----------------------------------------------------------------------------
(* execute *)

\* getReceipt found nothing; a receipt would have been returned as it is.
CheckReceipt(w, k) ==
  /\ At(w, "idle")
  /\ intents[k] # Absent
  /\ receipts[k] = Absent
  /\ Goto(w, "checked", k, 0, "none", 0)
  /\ UNCHANGED <<intents, receipts, issue, late, writes, edits>>

Dispatchable(k) == intents[k].status \in {"planned", "ready"}

NextAttempt(k) == intents[k].attempt + 1

\* startAttempt: the only way from planned or ready to applying.
Claim(w) ==
  LET k == calls[w].key IN
  /\ At(w, "checked")
  /\ Dispatchable(k)
  /\ intents[k].attempt < MaxAttempts
  /\ intents' = [intents EXCEPT ![k] = [status |-> "applying", attempt |-> NextAttempt(k)]]
  /\ Goto(w, "claimed", k, NextAttempt(k), "none", 0)
  /\ UNCHANGED <<receipts, issue, late, writes, edits>>

\* VES_EFFECT_RECONCILIATION_REQUIRED or VES_EFFECT_APPLY_FAILED.
ClaimRefused(w) ==
  /\ At(w, "checked")
  /\ ~Dispatchable(calls[w].key)
  /\ Return(w)
  /\ UNCHANGED <<intents, receipts, issue, late, writes, edits>>

-----------------------------------------------------------------------------
(* apply of the Jira adapter: read the managed issue, then create it or    *)
(* update it under the version it was read at.                             *)

HoldsExactly(p) == issue # Absent /\ issue.digest = p /\ ~issue.drifted

\* Mutant: a plan made for an issue creates one that is gone or not there yet.
MayCreateAnew(p) == issue = Absent

MayCreate(p) == issue = Absent /\ Base[p] = 0

\* Mutant: the update takes whatever version it reads as the expected one.
MayUpdateAnyVersion(p) == issue # Absent /\ ~issue.drifted /\ issue.digest # p

\* Mutant: managed fields edited by hand are updated like any others.
MayUpdateOverDrift(p) == issue # Absent /\ issue.digest # p /\ issue.version = Base[p]

MayUpdate(p) == issue # Absent /\ ~issue.drifted /\ issue.digest # p /\ issue.version = Base[p]

SeenVersion == IF issue = Absent THEN 0 ELSE issue.version

Observe(w) ==
  LET p == PlanOf(w) IN
  /\ At(w, "claimed")
  /\ \/ HoldsExactly(p) /\ Moves(w, "applied", "already-applied", SeenVersion)
     \/ (MayCreate(p) \/ MayUpdate(p)) /\ Moves(w, "writing", "none", SeenVersion)
     \/ /\ ~(HoldsExactly(p) \/ MayCreate(p) \/ MayUpdate(p))
        /\ Moves(w, "failed", "none", 0)
  /\ UNCHANGED <<intents, receipts, issue, late, writes, edits>>

\* The service creates only an absent issue and updates only at the expected
\* version (createManaged and updateManaged of the transport).
ServiceAccepts(expected) == expected = SeenVersion

\* The projection p is now what the issue holds.
Written(p) ==
  /\ issue' = [digest |-> p, version |-> SeenVersion + 1, drifted |-> FALSE]
  /\ writes' = [writes EXCEPT ![p] = @ + 1]

\* The answer to an accepted write is the exact issue, or is refused after the
\* fact (normalizeRate, normalizeIssue), or is lost.
WriteAccepted(w) ==
  /\ At(w, "writing")
  /\ ServiceAccepts(calls[w].seen)
  /\ Written(PlanOf(w))
  /\ \/ Moves(w, "applied", "applied", SeenVersion + 1)
     \/ \E step \in {"failed", "unknown"} : Moves(w, step, "none", 0)
  /\ UNCHANGED <<intents, receipts, late, edits>>

WriteRefused(w) ==
  /\ At(w, "writing")
  /\ ~ServiceAccepts(calls[w].seen)
  /\ \E step \in {"failed", "unknown"} : Moves(w, step, "none", 0)
  /\ UNCHANGED <<intents, receipts, issue, late, writes, edits>>

\* The transport gives up with an unknown outcome; the request may be lost or
\* reach the service later.
WriteTimesOut(w) ==
  /\ At(w, "writing")
  /\ late' = late \cup {[plan |-> PlanOf(w), expected |-> calls[w].seen]}
  /\ Moves(w, "unknown", "none", 0)
  /\ UNCHANGED <<intents, receipts, issue, writes, edits>>

\* The read or the write never reaches the service: a refused rate budget or
\* a transport error, which says whether the outcome is unknown.
AdapterFails(w) ==
  /\ At(w, "claimed") \/ At(w, "writing")
  /\ \E step \in {"failed", "unknown"} : Moves(w, step, "none", 0)
  /\ UNCHANGED <<intents, receipts, issue, late, writes, edits>>

LateWriteArrives ==
  \E m \in late :
    /\ late' = late \ {m}
    /\ IF ServiceAccepts(m.expected) THEN Written(m.plan) ELSE UNCHANGED <<issue, writes>>
    /\ UNCHANGED <<intents, receipts, calls, edits>>

\* The catch of execute: updateStatus without a condition on the status.
RecordFailure(w) ==
  LET k == calls[w].key
      status == IF At(w, "unknown") THEN "uncertain" ELSE "failed"
  IN
  /\ At(w, "failed") \/ At(w, "unknown")
  /\ intents' = [intents EXCEPT ![k] = [status |-> status, attempt |-> @.attempt]]
  /\ Return(w)
  /\ UNCHANGED <<receipts, issue, late, writes, edits>>

\* complete: the first receipt of a key stays; a different one is refused.
ReceiptAfter(k, r) == IF receipts[k] = Absent THEN r ELSE receipts[k]

\* complete inserts the receipt and sets the status in one transaction.
Completed(w) ==
  LET k == calls[w].key
      r == [outcome |-> IF calls[w].finding = "applied" /\ At(w, "applied")
                        THEN "applied" ELSE "already-applied",
            attempt |-> IF calls[w].attempt < 1 THEN 1 ELSE calls[w].attempt,
            remoteVersion |-> calls[w].seen]
  IN
  /\ receipts' = [receipts EXCEPT ![k] = ReceiptAfter(k, r)]
  /\ intents' = IF receipts[k] = Absent
                THEN [intents EXCEPT ![k] = [status |-> "completed", attempt |-> @.attempt]]
                ELSE intents

Complete(w) ==
  /\ At(w, "applied")
  /\ Completed(w)
  /\ Return(w)
  /\ UNCHANGED <<issue, late, writes, edits>>

-----------------------------------------------------------------------------
(* reconcile: ask the adapter what the service holds, then record it.      *)

\* Mutant: any managed issue on the target proves the projection.
InspectFindingByTarget(p) ==
  IF issue = Absent THEN "not-applied"
  ELSE IF issue.drifted THEN "unknown"
  ELSE "applied"

InspectFinding(p) ==
  IF issue = Absent THEN "not-applied"
  ELSE IF issue.drifted THEN "unknown"
  ELSE IF issue.digest # p THEN "not-applied"
  ELSE "applied"

Inspect(w, k) ==
  /\ At(w, "idle")
  /\ intents[k] # Absent
  /\ Goto(w, "inspected", k, intents[k].attempt, InspectFinding(k.plan), SeenVersion)
  /\ UNCHANGED <<intents, receipts, issue, late, writes, edits>>

ReconciledStatus(finding) == IF finding = "not-applied" THEN "ready" ELSE "uncertain"

\* The write after the inspection has no condition on the status it replaces.
ReconcileResult(w) ==
  LET k == calls[w].key
      status == ReconciledStatus(calls[w].finding)
  IN
  /\ At(w, "inspected")
  /\ IF calls[w].finding = "applied"
     THEN Completed(w)
     ELSE /\ intents' = [intents EXCEPT ![k] = [status |-> status, attempt |-> @.attempt]]
          /\ UNCHANGED receipts
  /\ Return(w)
  /\ UNCHANGED <<issue, late, writes, edits>>

-----------------------------------------------------------------------------
\* A process dies between two of its steps, or a transaction of it fails: the
\* durable rows stay as they are.
Crash(w) ==
  /\ ~At(w, "idle")
  /\ Return(w)
  /\ UNCHANGED <<intents, receipts, issue, late, writes, edits>>

\* Someone edits the issue in Jira itself, its managed fields or others.
HumanEdit ==
  /\ issue # Absent
  /\ edits < MaxEdits
  /\ \E managed \in BOOLEAN :
       issue' = [digest |-> issue.digest, version |-> issue.version + 1, drifted |-> issue.drifted \/ managed]
  /\ edits' = edits + 1
  /\ UNCHANGED <<intents, receipts, late, calls, writes>>

Init ==
  /\ intents = [k \in Keys |-> Absent]
  /\ receipts = [k \in Keys |-> Absent]
  /\ issue = Absent
  /\ late = {}
  /\ calls = [w \in Workers |-> Idle]
  /\ writes = [p \in Plans |-> 0]
  /\ edits = 0

Step(w) ==
  \/ \E k \in Keys : PlanLookup(w, k) \/ CheckReceipt(w, k) \/ Inspect(w, k)
  \/ InsertOrGet(w)
  \/ Claim(w) \/ ClaimRefused(w)
  \/ Observe(w) \/ AdapterFails(w)
  \/ WriteAccepted(w) \/ WriteRefused(w) \/ WriteTimesOut(w)
  \/ RecordFailure(w) \/ Complete(w)
  \/ ReconcileResult(w)
  \/ Crash(w)

Next ==
  \/ \E w \in Workers : Step(w)
  \/ LateWriteArrives
  \/ HumanEdit

Spec == Init /\ [][Next]_vars

-----------------------------------------------------------------------------
TypeOK ==
  /\ intents \in [Keys -> IntentRow \cup {Absent}]
  /\ receipts \in [Keys -> ReceiptRow \cup {Absent}]
  /\ issue \in Issue \cup {Absent}
  /\ late \subseteq LateWrite
  /\ calls \in [Workers -> Call]
  /\ writes \in [Plans -> Nat]
  /\ edits \in Nat

\* Planning converges: however many connections plan one logical effect at
\* once, under V1 or V2 keys, one intent exists for it.
OneIntentPerIdentity ==
  \A j, k \in Keys : j.plan = k.plan /\ intents[j] # Absent /\ intents[k] # Absent => j = k

\* A receipt is evidence: whoever wrote it, after whatever crash, lost
\* acknowledgement or stale inspection, the projection did reach the issue,
\* and an intent is completed only with a receipt.
ReceiptProvesWrite ==
  \A k \in Keys :
    /\ receipts[k] # Absent => writes[k.plan] > 0
    /\ intents[k] # Absent /\ intents[k].status = "completed" => receipts[k] # Absent

\* No retry, reconciliation or late request writes a projection a second time.
AtMostOneWrite == \A p \in Plans : writes[p] <= 1

\* A durable receipt is never replaced, an intent never disappears and its
\* attempt never goes back, whatever two calls finish in whatever order.
RowsGoForward ==
  \A k \in Keys :
    /\ receipts[k] # Absent => receipts'[k] = receipts[k]
    /\ intents[k] # Absent => intents'[k] # Absent /\ intents'[k].attempt >= intents[k].attempt

\* A managed issue that somebody edited by hand stays as it is, whichever plan,
\* retry or late request meets it.
EditSurvives == issue # Absent /\ issue.drifted => issue' # Absent /\ issue'.drifted

\* Nothing that was settled is undone: neither what the repository recorded
\* (complete, startAttempt) nor what a human wrote in Jira (update).
NothingIsUndone == [][RowsGoForward /\ EditSurvives]_vars

\* A plan was written to the issue; it has a receipt under one of its keys.
Applied == {p \in Plans : writes[p] > 0}
Acknowledged == {p \in Plans : \E k \in Keys : k.plan = p /\ receipts[k] # Absent}

Promise == INSTANCE EffectPromise WITH applied <- Applied, acknowledged <- Acknowledged

\* Every write of a projection, by whichever call, retry or late request, is a
\* compare-and-set against the version the plan was made for (remoteBaseVersion
\* of jira.ts), so no plan writes over an edit, managed or not, or over another
\* plan's write that it was not made for, although the read, the request and the
\* answer are steps apart.
KeepsPromise == Promise!Spec
=============================================================================
