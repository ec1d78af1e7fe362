-------------------------- MODULE TaskAttemptsProofs --------------------------
(***************************************************************************)
(* What the gated attempts of a run keep for any set of changes, any       *)
(* repair policies, any threshold and any number of interruptions.         *)
(*                                                                         *)
(* Three arguments share the types of the process's memory.  The first is  *)
(* about the repair state: in the loop the memory knows the usage that was *)
(* reported and extends the chain that was saved, so whatever is saved is  *)
(* true.  The second is about commits: from the last checkpoint of the     *)
(* executor to the commit nothing but a gate touches the worktree, and     *)
(* what a gate touched is found out.  The third counts driver sessions:    *)
(* each is an entry of the chain, an excused interruption, or the one at   *)
(* hand.                                                                   *)
(***************************************************************************)
EXTENDS TaskAttempts, TLAPS

-----------------------------------------------------------------------------
(* The repair state.                                                       *)

\* An attempt is being made.
Busy == {"preparing", "creating", "opening", "driving", "suspending", "abandoning", "finished", "gating",
         "spoiled", "gated", "uncertain", "committed", "anchoring", "removing", "recording", "sealing"}

InLoop == Busy \cup {"looping", "deciding"}

ChainIsSealed(chain) == Len(chain) <= policy.max /\ \A n \in DOMAIN chain : sealed[n] = chain[n]

LedgerTyped ==
  /\ policy \in RepairPolicies
  /\ mem \in Memories /\ repair \in Repairs
  /\ sealed \in [1..5 -> Nat] /\ executions \in Nat /\ used \in Nat

LedgerInv ==
  /\ LedgerTyped
  /\ RepairStateIsTrue
  /\ pc \in InLoop =>
       /\ mem.ledger.spent = used
       /\ Len(repair.chain) <= Len(mem.chain)
       /\ ChainIsSealed(mem.chain)
  /\ pc \in Busy => Len(mem.chain) < policy.max

LEMMA MemoryFields ==
  ASSUME mem \in Memories
  PROVE  /\ mem.chain \in Seq(Nat) /\ Len(mem.chain) \in Nat
         /\ mem.ledger \in Ledgers /\ mem.ledger.spent \in Nat /\ mem.ledger.stopped \in BOOLEAN
         /\ mem.failed \in BOOLEAN /\ mem.handle \in BOOLEAN /\ mem.outcome \in Outcomes
BY DEF Memories, Ledgers

LEMMA RepairFields ==
  ASSUME repair \in Repairs
  PROVE  /\ repair.chain \in Seq(Nat) /\ Len(repair.chain) \in Nat
         /\ repair.ledger \in Ledgers /\ repair.ledger.spent \in Nat
BY DEF Repairs, Ledgers

LEMMA FreshMemory == Fresh \in Memories /\ Fresh.outcome = "none"
BY DEF Fresh, NoUsage, Memories, Ledgers, Outcomes

LEMMA OutcomeChanges ==
  ASSUME mem \in Memories, NEW o \in Outcomes, mem' = [mem EXCEPT !.outcome = o]
  PROVE  mem' \in Memories /\ mem'.chain = mem.chain /\ mem'.ledger = mem.ledger /\ mem'.outcome = o
BY DEF Memories

LEMMA HandleChanges ==
  ASSUME mem \in Memories, mem' = [mem EXCEPT !.handle = TRUE]
  PROVE  mem' \in Memories /\ mem'.chain = mem.chain /\ mem'.ledger = mem.ledger /\ mem'.outcome = mem.outcome
BY DEF Memories

LEMMA LedgerChanges ==
  ASSUME mem \in Memories, NEW l \in Ledgers, mem' = [mem EXCEPT !.ledger = l]
  PROVE  mem' \in Memories /\ mem'.chain = mem.chain /\ mem'.ledger = l /\ mem'.outcome = mem.outcome
BY DEF Memories

LEMMA SavedTyped ==
  ASSUME mem \in Memories, NEW s \in RepairStages
  PROVE  Saved(s) \in Repairs /\ Saved(s).chain = mem.chain /\ Saved(s).ledger = mem.ledger
BY DEF Saved, Memories, Repairs

\* A step that leaves the repair state, the capsules and the usage alone.
LEMMA LedgerStays ==
  ASSUME LedgerInv, UNCHANGED <<policy, repair, sealed, used>>,
         executions' \in Nat, mem' \in Memories,
         pc' \in InLoop => pc \in InLoop /\ mem'.chain = mem.chain /\ mem'.ledger.spent = mem.ledger.spent,
         pc' \in Busy => pc \in Busy \/ Attempts < policy.max
  PROVE  LedgerInv'
<1>1. LedgerTyped'
  BY DEF LedgerInv, LedgerTyped
<1>2. RepairStateIsTrue'
  BY DEF LedgerInv, RepairStateIsTrue, SpendIsKept, AttemptsAreChained
<1>3. Busy \subseteq InLoop
  BY DEF InLoop
<1>4. QED
  BY <1>1, <1>2, <1>3 DEF LedgerInv, ChainIsSealed, Attempts

\* A step of the loop that saves its state.
LEMMA LedgerSaved ==
  ASSUME LedgerInv, pc \in InLoop, UNCHANGED <<policy, sealed, used, executions>>,
         NEW s \in RepairStages, repair' = Saved(s),
         mem' \in Memories, mem'.chain = mem.chain, mem'.ledger = mem.ledger, pc' \notin Busy
  PROVE  LedgerInv'
<1>1. Saved(s) \in Repairs /\ Saved(s).chain = mem.chain /\ Saved(s).ledger = mem.ledger
  BY SavedTyped DEF LedgerInv, LedgerTyped
<1>2. LedgerTyped'
  BY <1>1 DEF LedgerInv, LedgerTyped
<1>3. RepairStateIsTrue'
  BY <1>1 DEF LedgerInv, RepairStateIsTrue, SpendIsKept, AttemptsAreChained, ChainIsSealed
<1>4. Len(mem.chain) \in Nat
  BY MemoryFields DEF LedgerInv, LedgerTyped
<1>5. QED
  BY <1>1, <1>2, <1>3, <1>4 DEF LedgerInv, ChainIsSealed

LEMMA InitLedger == Init => LedgerInv
<1> SUFFICES ASSUME Init PROVE LedgerInv
  OBVIOUS
<1>1. policy \in RepairPolicies /\ policy.max \in 1..5
  BY PolicyAssumption DEF Init, RepairPolicies
<1>2. repair \in Repairs /\ repair.chain = <<>> /\ repair.ledger.spent = 0
  BY DEF Init, NoRepair, NoUsage, Repairs, RepairStages, Ledgers
<1>3. LedgerTyped
  BY <1>1, <1>2, FreshMemory DEF Init, LedgerTyped
<1>4. RepairStateIsTrue
  BY <1>1, <1>2 DEF Init, RepairStateIsTrue, SpendIsKept, AttemptsAreChained
<1>5. QED
  BY <1>3, <1>4 DEF LedgerInv, InLoop, Busy, Init

\* A step that changes no more of the memory than its outcome or its handle.
Remembers ==
  \/ UNCHANGED mem
  \/ \E o \in Outcomes : mem' = [mem EXCEPT !.outcome = o]
  \/ mem' = [mem EXCEPT !.handle = TRUE]

LEMMA RemembersLedger ==
  ASSUME mem \in Memories, Remembers
  PROVE  mem' \in Memories /\ mem'.chain = mem.chain /\ mem'.ledger = mem.ledger
<1>1. CASE UNCHANGED mem
  BY <1>1
<1>2. ASSUME NEW o \in Outcomes, mem' = [mem EXCEPT !.outcome = o]
      PROVE mem' \in Memories /\ mem'.chain = mem.chain /\ mem'.ledger = mem.ledger
  BY <1>2, OutcomeChanges
<1>3. CASE mem' = [mem EXCEPT !.handle = TRUE]
  BY <1>3, HandleChanges
<1>4. QED
  BY <1>1, <1>2, <1>3 DEF Remembers

LEMMA LedgerWalks ==
  ASSUME LedgerInv, UNCHANGED <<policy, repair, sealed, used, executions>>, Remembers,
         pc' \in InLoop => pc \in InLoop,
         pc' \in Busy => pc \in Busy \/ Attempts < policy.max
  PROVE  LedgerInv'
<1>1. mem' \in Memories /\ mem'.chain = mem.chain /\ mem'.ledger = mem.ledger /\ executions \in Nat
  BY RemembersLedger DEF LedgerInv, LedgerTyped
<1>2. QED
  BY <1>1, LedgerStays

\* A step that throws, or abandons its attempt.
LEMMA ThrowsLedger ==
  ASSUME LedgerInv, NEW from, Throws(from), UNCHANGED <<policy, repair, sealed, used, executions>>
  PROVE  LedgerInv'
<1>1. Remembers /\ pc' \notin InLoop /\ pc' \notin Busy
  BY DEF Throws, Moves, Remembers, Outcomes, InLoop, Busy
<1>2. QED
  BY <1>1, LedgerWalks

LEMMA EnterLedger == ASSUME LedgerInv, Enter PROVE LedgerInv'
<1>1. CASE EnterRecorded \/ EnterEscalated
  BY <1>1, LedgerWalks DEF EnterRecorded, EnterEscalated, Moves, Remembers, InLoop, Busy,
     disk, checkpoints, history
<1>2. CASE EnterCommitted
  <2>1. CASE Throws("entering")
    BY <1>2, <2>1, ThrowsLedger DEF EnterCommitted, checkpoints, history
  <2>2. CASE ~Throws("entering")
    BY <1>2, <2>2, LedgerWalks DEF EnterCommitted, Moves, Remembers, InLoop, Busy, checkpoints, history
  <2>3. QED
    BY <2>1, <2>2
<1>3. CASE EnterLoop
  <2>1. /\ pc' = "looping" /\ mem' = [mem EXCEPT !.chain = repair.chain, !.ledger = repair.ledger]
        /\ UNCHANGED <<policy, repair, sealed, used, executions>>
    BY <1>3 DEF EnterLoop, Moves, disk, checkpoints, history
  <2>2. /\ mem \in Memories /\ repair.chain \in Seq(Nat) /\ repair.ledger \in Ledgers /\ Len(repair.chain) \in Nat
    BY RepairFields DEF LedgerInv, LedgerTyped
  <2>3. mem' \in Memories /\ mem'.chain = repair.chain /\ mem'.ledger = repair.ledger
    BY <2>1, <2>2 DEF Memories
  <2>4. LedgerTyped' /\ RepairStateIsTrue'
    BY <2>1, <2>3 DEF LedgerInv, LedgerTyped, RepairStateIsTrue, SpendIsKept, AttemptsAreChained
  <2>5. QED
    BY <2>1, <2>2, <2>3, <2>4 DEF LedgerInv, RepairStateIsTrue, SpendIsKept, AttemptsAreChained, ChainIsSealed, Busy
<1>4. QED
  BY <1>1, <1>2, <1>3 DEF Enter

LEMMA LoopLedger == ASSUME LedgerInv, Loop PROVE LedgerInv'
<1>1. CASE BeginAttempt
  BY <1>1, LedgerWalks DEF BeginAttempt, Moves, Remembers, InLoop, Busy, disk, checkpoints, history
<1>2. CASE LoopOverBudget
  <2>1. mem \in Memories /\ "stop" \in Outcomes /\ "budget-exceeded" \in RepairStages
    BY DEF LedgerInv, LedgerTyped, Outcomes, RepairStages
  <2>2. /\ pc \in InLoop /\ pc' \notin Busy /\ repair' = Saved("budget-exceeded")
        /\ mem' = [mem EXCEPT !.outcome = "stop"] /\ UNCHANGED <<policy, sealed, used, executions>>
    BY <1>2 DEF LoopOverBudget, Moves, InLoop, Busy, history
  <2>3. QED
    BY <2>1, <2>2, OutcomeChanges, LedgerSaved
<1>3. CASE Exhausted
  <2>1. /\ mem \in Memories /\ "stop" \in Outcomes /\ {"escalated", "gate-failed"} \subseteq RepairStages
        /\ UNCHANGED <<policy, sealed, used, executions>>
    BY <1>3 DEF LedgerInv, LedgerTyped, Outcomes, RepairStages, Exhausted, history
  <2>2. CASE Throws("looping") /\ UNCHANGED repair
    BY <2>1, <2>2, ThrowsLedger
  <2>3. CASE Moves("looping", "down") /\ repair' = Saved("escalated") /\ UNCHANGED mem
    BY <2>1, <2>3, LedgerSaved DEF Moves, InLoop, Busy
  <2>4. CASE /\ Moves("looping", "stopping") /\ mem' = [mem EXCEPT !.outcome = "stop"]
             /\ repair' = Saved("gate-failed")
    BY <2>1, <2>4, OutcomeChanges, LedgerSaved DEF Moves, InLoop, Busy
  <2>5. QED
    BY <1>3, <2>2, <2>3, <2>4 DEF Exhausted
<1>4. QED
  BY <1>1, <1>2, <1>3 DEF Loop

LEMMA PrepareLedger == ASSUME LedgerInv, Prepare PROVE LedgerInv'
<1>1. CASE WorktreeRefused
  BY <1>1, ThrowsLedger DEF WorktreeRefused, disk, checkpoints, history
<1>2. CASE NotResumable \/ Reopen
  BY <1>2, LedgerWalks DEF NotResumable, Reopen, Moves, Remembers, InLoop, Busy, disk, checkpoints, history
<1>3. QED
  BY <1>1, <1>2 DEF Prepare

LEMMA ExecuteLedger == ASSUME LedgerInv, Execute PROVE LedgerInv'
<1>1. CASE CancelledBeforeStart
  BY <1>1, ThrowsLedger DEF CancelledBeforeStart, disk, checkpoints, history
<1>2. CASE Create \/ DriverCompletes \/ DriverSuspends \/ Abandon
  BY <1>2, LedgerWalks DEF Create, DriverCompletes, DriverSuspends, Abandon, Moves, Remembers, InLoop, Busy,
     checkpoints, history
<1>3. CASE OpenedOverBudget \/ DriverFails
  BY <1>3, LedgerWalks DEF OpenedOverBudget, DriverFails, Abandons, Moves, Remembers, Outcomes, InLoop, Busy,
     history
<1>4. CASE DriverStarts
  <2>1. executions' \in Nat /\ mem \in Memories
    BY <1>4 DEF DriverStarts, LedgerInv, LedgerTyped
  <2>2. QED
    BY <1>4, <2>1, LedgerStays DEF DriverStarts, Moves, InLoop, Busy
<1>5. CASE Suspend
  <2>1. mem \in Memories /\ "repair" \in RepairStages
    BY DEF LedgerInv, LedgerTyped, RepairStages
  <2>2. QED
    BY <1>5, <2>1, LedgerSaved DEF Suspend, Moves, InLoop, Busy, history
<1>6. QED
  BY <1>1, <1>2, <1>3, <1>4, <1>5 DEF Execute

LEMMA DriverSpendsLedger == ASSUME LedgerInv, DriverSpends PROVE LedgerInv'
<1> DEFINE ledger == [spent |-> mem.ledger.spent + 1,
                      stopped |-> mem.ledger.stopped \/ mem.ledger.spent + 1 >= Threshold]
<1>1. /\ pc = "driving" /\ used' = used + 1 /\ mem' = [mem EXCEPT !.ledger = ledger]
      /\ repair' = Metered(ledger) /\ UNCHANGED <<policy, sealed, pc, executions>>
  BY DEF DriverSpends
<1>2. /\ mem \in Memories /\ repair \in Repairs /\ mem.ledger.spent = used /\ used \in Nat
      /\ mem.ledger.stopped \in BOOLEAN /\ mem.ledger.spent \in Nat
  BY <1>1, MemoryFields DEF LedgerInv, LedgerTyped, InLoop, Busy
<1>3. ledger \in Ledgers /\ ledger.spent = used + 1
  BY <1>2, BoundAssumption DEF Ledgers
<1> HIDE DEF ledger
<1>4. mem' \in Memories /\ mem'.chain = mem.chain /\ mem'.ledger = ledger
  BY <1>1, <1>2, <1>3, LedgerChanges
<1>5. repair' \in Repairs /\ repair'.chain = repair.chain /\ repair'.ledger = ledger
  BY <1>1, <1>2, <1>3 DEF Metered, Repairs, RepairStages
<1>6. LedgerTyped'
  BY <1>1, <1>2, <1>4, <1>5 DEF LedgerInv, LedgerTyped
<1>7. RepairStateIsTrue'
  BY <1>1, <1>3, <1>5 DEF LedgerInv, RepairStateIsTrue, SpendIsKept, AttemptsAreChained
<1>8. QED
  BY <1>1, <1>3, <1>4, <1>5, <1>6, <1>7 DEF LedgerInv, ChainIsSealed

LEMMA TimeRunsOutLedger == ASSUME LedgerInv, TimeRunsOut PROVE LedgerInv'
<1>1. /\ mem' = [mem EXCEPT !.ledger.stopped = TRUE]
      /\ UNCHANGED <<policy, repair, sealed, used, executions, pc>>
  BY DEF TimeRunsOut, history
<1> DEFINE ledger == [mem.ledger EXCEPT !.stopped = TRUE]
<1>2. mem \in Memories /\ executions \in Nat /\ mem.ledger \in Ledgers
  BY MemoryFields DEF LedgerInv, LedgerTyped
<1>3. ledger \in Ledgers /\ ledger.spent = mem.ledger.spent
  BY <1>2 DEF Ledgers
<1>4. mem' = [mem EXCEPT !.ledger = ledger]
  BY <1>1
<1> HIDE DEF ledger
<1>5. mem' \in Memories /\ mem'.chain = mem.chain /\ mem'.ledger = ledger
  BY <1>2, <1>3, <1>4, LedgerChanges
<1>6. QED
  BY <1>1, <1>2, <1>3, <1>5, LedgerStays

LEMMA GateLedger == ASSUME LedgerInv, GateAndCommit PROVE LedgerInv'
<1>1. CASE GateRefused \/ DriftFound \/ AnchorRefused
  BY <1>1, ThrowsLedger DEF GateRefused, DriftFound, AnchorRefused, disk, checkpoints, history
<1>2. CASE SaveUncertain
  BY <1>2, ThrowsLedger DEF SaveUncertain, history
<1>3. CASE ReachGate
  <2>1. CASE Throws("finished")
    BY <1>3, <2>1, ThrowsLedger DEF ReachGate, disk, checkpoints, history
  <2>2. CASE ~Throws("finished")
    BY <1>3, <2>2, LedgerWalks DEF ReachGate, Moves, Remembers, InLoop, Busy, disk, checkpoints, history
  <2>3. QED
    BY <2>1, <2>2
<1>4. CASE GatesFail \/ SaveCommit
  BY <1>4, LedgerWalks DEF GatesFail, SaveCommit, Moves, Remembers, Outcomes, InLoop, Busy, checkpoints, history
<1>5. CASE GatesPass \/ CommitTask \/ CommitFails \/ SaveCommitted \/ Anchor \/ RemoveWorktree
  BY <1>5, LedgerWalks DEF GatesPass, CommitTask, CommitFails, SaveCommitted, Anchor, RemoveWorktree, Moves,
     Remembers, InLoop, Busy, checkpoints, history
<1>6. QED
  BY <1>1, <1>2, <1>3, <1>4, <1>5 DEF GateAndCommit

\* longer is the chain with one more execution, its n-th.
Lengthens(longer, n, chain, e, max) ==
  /\ longer = Append(chain, e) /\ n = Len(chain) + 1 /\ n <= max
  /\ Len(longer) = n /\ longer[n] = e
  /\ DOMAIN longer = 1..n /\ DOMAIN chain = 1..Len(chain)
  /\ \A i \in 1..n : i \in 1..5 /\ (i # n => i \in 1..Len(chain) /\ longer[i] = chain[i])
  /\ \A i \in 1..Len(chain) : i \in 1..n /\ i # n

LEMMA LongerChain ==
  ASSUME NEW chain \in Seq(Nat), NEW e \in Nat, NEW max \in 1..5, Len(chain) < max
  PROVE  \E longer \in Seq(Nat), n \in 1..5 : Lengthens(longer, n, chain, e, max)
<1>1. Len(chain) \in Nat /\ Append(chain, e) \in Seq(Nat)
  OBVIOUS
<1>2. PICK longer \in Seq(Nat) : longer = Append(chain, e)
  BY <1>1
<1>3. PICK n \in 1..5 : n = Len(chain) + 1
  <2>1. PICK len \in Nat : len = Len(chain)
    BY <1>1
  <2>2. len < max
    BY <2>1
  <2>3. PICK n \in Nat : n = len + 1
    BY <2>1
  <2>4. n \in 1..5
    BY <2>2, <2>3
  <2>5. QED
    BY <2>1, <2>3, <2>4
<1>4. Len(longer) = n /\ longer[n] = e /\ DOMAIN longer = 1..n /\ DOMAIN chain = 1..Len(chain)
  BY <1>1, <1>2, <1>3
<1>5. \A i \in 1..n : i \in 1..5 /\ (i # n => i \in 1..Len(chain) /\ longer[i] = chain[i])
  BY <1>1, <1>2, <1>3
<1>6. \A i \in 1..Len(chain) : i \in 1..n /\ i # n
  BY <1>1, <1>3
<1>7. n <= max
  BY <1>1, <1>3
<1>8. QED
  BY <1>2, <1>3, <1>4, <1>5, <1>6, <1>7 DEF Lengthens

\* A capsule is sealed past the end of every chain that was saved.
LEMMA SealLedger == ASSUME LedgerInv, SealAttempt PROVE LedgerInv'
<1>1. /\ pc = "sealing" /\ pc' = "deciding" /\ sealed' = [sealed EXCEPT ![Len(mem.chain) + 1] = executions]
      /\ mem' = [mem EXCEPT !.chain = Append(@, executions), !.failed = mem.outcome # "passed"]
      /\ UNCHANGED <<policy, repair, used, executions>>
  BY DEF SealAttempt, Moves, Attempts, checkpoints, history
<1>2. /\ mem \in Memories /\ mem.chain \in Seq(Nat) /\ executions \in Nat /\ sealed \in [1..5 -> Nat]
      /\ policy.max \in 1..5 /\ mem.ledger.spent = used
      /\ Len(repair.chain) <= Len(mem.chain) /\ Len(mem.chain) < policy.max /\ ChainIsSealed(mem.chain)
  BY <1>1, MemoryFields DEF LedgerInv, LedgerTyped, InLoop, Busy, RepairPolicies
<1>3. /\ repair.chain \in Seq(Nat) /\ Len(repair.chain) \in Nat /\ Len(mem.chain) \in Nat
      /\ DOMAIN repair.chain = 1..Len(repair.chain)
      /\ \A i \in 1..Len(repair.chain) : sealed[i] = repair.chain[i]
  <2>1. repair.chain \in Seq(Nat) /\ Len(repair.chain) \in Nat
    BY RepairFields DEF LedgerInv, LedgerTyped
  <2>2. Len(mem.chain) \in Nat
    BY <1>2
  <2>3. \A i \in DOMAIN repair.chain : sealed[i] = repair.chain[i]
    BY DEF LedgerInv, RepairStateIsTrue, AttemptsAreChained
  <2>4. QED
    BY <2>1, <2>2, <2>3
<1>4. PICK longer \in Seq(Nat), n \in 1..5 : Lengthens(longer, n, mem.chain, executions, policy.max)
  <2>1. PICK chain \in Seq(Nat), max \in 1..5 : chain = mem.chain /\ max = policy.max
    BY <1>2
  <2>2. Len(chain) < max
    BY <1>2, <2>1
  <2>3. \E longer \in Seq(Nat), n \in 1..5 : Lengthens(longer, n, chain, executions, max)
    BY <1>2, <2>2, LongerChain
  <2>4. QED
    BY <2>1, <2>3
<1>5. PICK failed \in BOOLEAN : failed = (mem.outcome # "passed")
  OBVIOUS
<1>6. mem' = [mem EXCEPT !.chain = longer, !.failed = failed]
  BY <1>1, <1>4, <1>5 DEF Lengthens
<1>7. mem' \in Memories /\ mem'.chain = longer /\ mem'.ledger = mem.ledger
  BY <1>2, <1>6 DEF Memories
<1>8. sealed' = [sealed EXCEPT ![n] = executions]
  BY <1>1, <1>4 DEF Lengthens
<1>9. /\ sealed' \in [1..5 -> Nat] /\ sealed'[n] = executions
      /\ \A i \in 1..5 : i # n => sealed'[i] = sealed[i]
  BY <1>2, <1>8
<1>10. \A i \in 1..n : sealed'[i] = longer[i]
  BY <1>2, <1>4, <1>9 DEF ChainIsSealed, Lengthens
<1>11. ChainIsSealed(mem.chain)'
  BY <1>1, <1>4, <1>7, <1>10 DEF ChainIsSealed, Lengthens
<1>12. LedgerTyped'
  BY <1>1, <1>2, <1>7, <1>9 DEF LedgerInv, LedgerTyped
<1>13. \A i \in 1..Len(repair.chain) : i \in 1..Len(mem.chain)
  BY <1>2, <1>3
<1>14. \A i \in 1..Len(repair.chain) : sealed'[i] = repair.chain[i]
  BY <1>3, <1>4, <1>9, <1>13 DEF Lengthens
<1>15. RepairStateIsTrue'
  BY <1>1, <1>3, <1>14 DEF LedgerInv, RepairStateIsTrue, SpendIsKept, AttemptsAreChained
<1>16. Len(repair.chain)' <= Len(mem'.chain)
  BY <1>1, <1>2, <1>3, <1>4, <1>7 DEF Lengthens
<1>17. QED
  BY <1>1, <1>2, <1>7, <1>11, <1>12, <1>15, <1>16 DEF LedgerInv, InLoop, Busy

LEMMA AfterAttemptLedger == ASSUME LedgerInv, AfterAttempt PROVE LedgerInv'
<1>1. mem \in Memories /\ RepairStages = {"none", "repair", "escalated", "converged", "gate-failed", "budget-exceeded"}
  BY DEF LedgerInv, LedgerTyped, RepairStages
<1>2. CASE SealAttempt
  BY <1>2, SealLedger
<1>3. CASE Converged
  BY <1>1, <1>3, LedgerSaved DEF Converged, Moves, InLoop, Busy, history
<1>4. CASE AttemptOverBudget
  <2>1. "stop" \in Outcomes
    BY DEF Outcomes
  <2>2. /\ pc \in InLoop /\ pc' \notin Busy /\ repair' = Saved("budget-exceeded")
        /\ mem' = [mem EXCEPT !.outcome = "stop"] /\ UNCHANGED <<policy, sealed, used, executions>>
    BY <1>4 DEF AttemptOverBudget, Moves, InLoop, Busy, history
  <2>3. QED
    BY <1>1, <2>1, <2>2, OutcomeChanges, LedgerSaved
<1>5. CASE Escalated
  BY <1>1, <1>5, LedgerSaved DEF Escalated, Moves, InLoop, Busy, history
<1>6. CASE Retry
  <2>1. CASE repair' = Saved("repair")
    BY <1>1, <1>6, <2>1, LedgerSaved DEF Retry, Moves, InLoop, Busy, history
  <2>2. CASE repair' = repair
    BY <1>6, <2>2, LedgerWalks DEF Retry, Moves, Remembers, InLoop, Busy, history
  <2>3. QED
    BY <1>6, <2>1, <2>2 DEF Retry
<1>7. QED
  BY <1>2, <1>3, <1>4, <1>5, <1>6 DEF AfterAttempt

\* A process that starts, or is gone, knows nothing.
LEMMA FreshLedger ==
  ASSUME LedgerInv, UNCHANGED <<policy, repair, sealed, used, executions>>, mem' = Fresh, pc' \notin InLoop
  PROVE  LedgerInv'
<1>1. pc' \notin Busy /\ executions \in Nat
  BY DEF InLoop, LedgerInv, LedgerTyped
<1>2. QED
  BY <1>1, FreshMemory, LedgerStays

LEMMA NextKeepsLedger == LedgerInv /\ [Next]_vars => LedgerInv'
<1> SUFFICES ASSUME LedgerInv, [Next]_vars PROVE LedgerInv'
  OBVIOUS
<1>1. CASE Start
  BY <1>1, FreshLedger DEF Start, Moves, disk, checkpoints, history, InLoop, Busy
<1>2. CASE Die
  BY <1>2, FreshLedger DEF Die, disk, checkpoints, InLoop, Busy
<1>3. CASE Enter \/ Loop \/ Prepare \/ Execute \/ GateAndCommit \/ AfterAttempt
  BY <1>3, EnterLedger, LoopLedger, PrepareLedger, ExecuteLedger, GateLedger, AfterAttemptLedger
<1>4. CASE RecordRecovered \/ StartVerification \/ Release \/ End
  BY <1>4, LedgerWalks DEF RecordRecovered, StartVerification, Release, End, Moves, Remembers, InLoop, Busy,
     disk, checkpoints, history
<1>5. CASE \/ \E c \in Changes : DriverWrites(c) \/ GateWrites(c) \/ EditByHand(c)
           \/ DriverCommits \/ GateMakesCommit
  BY <1>5, LedgerWalks DEF DriverWrites, GateWrites, EditByHand, DriverCommits, GateMakesCommit, Moves,
     Remembers, InLoop, Busy,
     checkpoints, history, process
<1>6. CASE DriverSpends \/ TimeRunsOut
  BY <1>6, DriverSpendsLedger, TimeRunsOutLedger
<1>7. CASE PortFails
  BY <1>7, ThrowsLedger DEF PortFails, disk, checkpoints, history
<1>8. CASE Cancel \/ UNCHANGED vars
  BY <1>8, LedgerWalks DEF Cancel, Remembers, vars, disk, checkpoints, history, process
<1>9. QED
  BY <1>1, <1>2, <1>3, <1>4, <1>5, <1>6, <1>7, <1>8 DEF Next, Continue

LEMMA LedgerInvHolds == Spec => []LedgerInv
<1>1. QED
  BY InitLedger, NextKeepsLedger, PTL DEF Spec

\* The repair state carries all the usage the drivers reported and names the
\* capsules on disk, whatever died and whatever was saved since (saveStage and
\* recordingMeter, gate-repair.ts).
THEOREM RepairTheorem == Spec => []RepairStateIsTrue
<1>1. LedgerInv => RepairStateIsTrue
  BY DEF LedgerInv
<1>2. QED
  BY <1>1, LedgerInvHolds, PTL

\* No driver session starts once the drivers of the run have spent up to its
\* threshold, in however many processes: the meter resumes from the ledger.
THEOREM BudgetTheorem == Spec => DriversStartInBudget
<1>1. LedgerInv /\ [Next]_vars => [executions' > executions => used < Threshold]_vars
  <2> SUFFICES ASSUME LedgerInv, Next, executions' > executions PROVE used < Threshold
    BY DEF vars, history
  <2>1. executions \in Nat
    BY DEF LedgerInv, LedgerTyped
  <2>2. DriverStarts \/ executions' = executions
    BY DEF Next, Continue, Start, Enter, EnterRecorded, EnterCommitted, EnterEscalated, EnterLoop,
       RecordRecovered, StartVerification, Loop, BeginAttempt, LoopOverBudget, Exhausted, Prepare,
       WorktreeRefused, NotResumable, Reopen, Execute, CancelledBeforeStart, Create, OpenedOverBudget,
       DriverCompletes, DriverSuspends, Suspend, DriverFails, Abandon, GateAndCommit, ReachGate,
       GateRefused, GatesFail, DriftFound, GatesPass, CommitTask, CommitFails, SaveUncertain,
       SaveCommitted, Anchor, AnchorRefused, RemoveWorktree, SaveCommit, AfterAttempt, SealAttempt,
       Converged, AttemptOverBudget, Escalated, Retry, Release, End, DriverWrites, GateWrites,
       EditByHand, DriverCommits, GateMakesCommit, DriverSpends, TimeRunsOut, PortFails, Cancel, Die, history
  <2>3. DriverStarts
    BY <2>1, <2>2
  <2>4. pc = "opening" /\ ~Stop(mem.ledger)
    BY <2>3 DEF DriverStarts, Moves
  <2>5. mem.ledger.spent = used /\ used \in Nat
    BY <2>4 DEF LedgerInv, LedgerTyped, InLoop, Busy
  <2>6. QED
    BY <2>4, <2>5, BoundAssumption DEF Stop
<1>2. QED
  BY <1>1, LedgerInvHolds, PTL DEF Spec, DriversStartInBudget

-----------------------------------------------------------------------------
(* The commits.                                                            *)

CommitTyped ==
  /\ worktree \in Worktrees \cup {None} /\ branch \in Worktrees \cup {None}
  /\ executor \in Executors /\ gate \in Gates

\* A checkpoint waits for the gate only after a driver session.
WaitsForASession == executor.stage = "awaiting-gate" => executions > 0

\* A committed checkpoint speaks of a change that passed, in the worktree or on
\* the branch.
CheckpointIsTrue ==
  gate.stage = "committed" =>
    /\ gate.change \in passed
    /\ HasTaskCommit => worktree.change = gate.change
    /\ ~HasTaskCommit => branch # None /\ branch.change = gate.change

\* The worktree is at its base revision.
AtBase == {"opening", "finished", "gating", "gated"}

\* The worktree has no task commit: it is at its base, or a driver or a gate
\* may have committed in it.
Unmade == AtBase \cup {"driving", "spoiled"}

\* The worktree is as the executor left it.
AsLeft == {"finished", "gating", "gated", "committed"}

\* The attempt has no committed checkpoint.
Undecided == {"looping", "preparing", "creating", "opening", "driving", "suspending", "abandoning", "finished",
              "gating", "spoiled", "gated", "uncertain", "committed"}

\* What the process may rely on at its next step.
StepIsDue ==
  /\ pc = "driving" => executions > 0
  /\ pc \in AtBase => worktree # None /\ worktree.head = 0
  /\ pc \in Unmade => worktree # None /\ ~HasTaskCommit
  /\ pc \in AsLeft => worktree # None /\ executor.stage = "awaiting-gate" /\ executor.change = worktree.change
  /\ pc \in {"gated", "committed"} => worktree.change \in passed
  /\ pc \in {"committed", "anchoring"} => HasTaskCommit
  /\ pc \in {"anchoring", "removing", "recording"} => gate.stage = "committed" /\ gate.change = executor.change
  /\ pc \in {"removing", "recording"} => branch # None /\ branch.change = executor.change
  /\ pc \in Undecided => gate.stage # "committed"
  /\ pc \in {"sealing", "deciding"} => (gate.stage = "committed" => mem.outcome = "passed")
  /\ pc = "recovering" => gate.stage = "committed" /\ ~HasTaskCommit

CommitInv == CommitTyped /\ CommitsAreEarned /\ WaitsForASession /\ CheckpointIsTrue /\ StepIsDue

LEMMA ACheckpoint ==
  ASSUME executor \in Executors
  PROVE  /\ executor.change \in Work
         /\ \A c : executor = [stage |-> "awaiting-gate", change |-> c]
                     <=> executor.stage = "awaiting-gate" /\ executor.change = c
<1>1. executor = [stage |-> executor.stage, change |-> executor.change] /\ executor.change \in Work
  BY DEF Executors
<1>2. QED
  BY <1>1

\* A step that leaves git, the record and the checkpoints alone.
LEMMA CommitStays ==
  ASSUME CommitInv, UNCHANGED <<git, record, executor, gate, executions, passed>>, StepIsDue'
  PROVE  CommitInv'
BY DEF CommitInv, CommitTyped, CommitsAreEarned, WaitsForASession, CheckpointIsTrue, HasCommit, HasTaskCommit,
   Foreign, git

\* Where a process goes, it need not know more than it did.
Nowhere == {"down", "entering", "verifying", "stopping", "ending"}

LEMMA CommitLeaves ==
  ASSUME CommitInv, UNCHANGED <<git, record, executor, gate, executions, passed>>, pc' \in Nowhere
  PROVE  CommitInv'
<1>1. StepIsDue'
  BY DEF StepIsDue, Nowhere, AtBase, Unmade, AsLeft, Undecided
<1>2. QED
  BY <1>1, CommitStays

LEMMA ThrowsCommit ==
  ASSUME CommitInv, NEW from, Throws(from), UNCHANGED <<git, record, executor, gate, executions, passed>>
  PROVE  CommitInv'
<1>1. pc' \in Nowhere
  BY DEF Throws, Moves, Nowhere
<1>2. QED
  BY <1>1, CommitLeaves

LEMMA InitCommit == Init => CommitInv
<1> SUFFICES ASSUME Init PROVE CommitInv
  OBVIOUS
<1>1. /\ worktree = None /\ branch = None /\ record = None /\ pc = "down"
      /\ executor = NoCheckpoint /\ gate = NoCheckpoint
  BY DEF Init
<1>2. executor.stage = "none" /\ gate.stage = "none" /\ executor \in Executors /\ gate \in Gates
  BY <1>1 DEF NoCheckpoint, Executors, Gates, Work
<1>3. QED
  BY <1>1, <1>2 DEF CommitInv, CommitTyped, CommitsAreEarned, WaitsForASession, CheckpointIsTrue, StepIsDue,
     HasCommit, HasTaskCommit, Foreign, AtBase, Unmade, AsLeft, Undecided

LEMMA EnterCommit == ASSUME CommitInv, Enter PROVE CommitInv'
<1>1. CASE EnterRecorded \/ EnterEscalated
  BY <1>1, CommitLeaves DEF EnterRecorded, EnterEscalated, Moves, Nowhere, disk, checkpoints, history
<1>2. CASE EnterCommitted
  <2>1. record = None /\ gate.stage = "committed" /\ UNCHANGED <<record, executor, gate, executions, passed>>
    BY <1>2 DEF EnterCommitted, checkpoints, history
  <2>2. CASE ~HasTaskCommit
    <3>1. pc' = "recovering" /\ UNCHANGED git
      BY <1>2, <2>2 DEF EnterCommitted, Moves
    <3>2. StepIsDue'
      BY <2>1, <2>2, <3>1 DEF StepIsDue, AtBase, Unmade, AsLeft, Undecided, HasCommit, HasTaskCommit, Foreign, git
    <3>3. QED
      BY <2>1, <3>1, <3>2, CommitStays
  <2>3. CASE HasTaskCommit /\ Anchorable
    <3>1. pc' = "recovering" /\ branch' = worktree /\ worktree' = None
      BY <1>2, <2>3 DEF EnterCommitted, Moves
    <3>2. StepIsDue'
      BY <2>1, <3>1 DEF StepIsDue, AtBase, Unmade, AsLeft, Undecided, HasCommit, HasTaskCommit, Foreign
    <3>3. CommitTyped' /\ CheckpointIsTrue' /\ CommitsAreEarned' /\ WaitsForASession'
      BY <2>1, <2>3, <3>1 DEF CommitInv, CommitTyped, CheckpointIsTrue, CommitsAreEarned, WaitsForASession,
         HasCommit, HasTaskCommit, Foreign
    <3>4. QED
      BY <3>2, <3>3 DEF CommitInv
  <2>4. CASE HasTaskCommit /\ ~Anchorable
    BY <1>2, <2>1, <2>4, ThrowsCommit DEF EnterCommitted
  <2>5. QED
    BY <2>2, <2>3, <2>4
<1>3. CASE EnterLoop
  <2>1. /\ pc' = "looping" /\ gate.stage # "committed"
        /\ UNCHANGED <<git, record, executor, gate, executions, passed>>
    BY <1>3 DEF EnterLoop, Uncommitted, Moves, disk, checkpoints, history
  <2>2. StepIsDue'
    BY <2>1 DEF StepIsDue, AtBase, Unmade, AsLeft
  <2>3. QED
    BY <2>1, <2>2, CommitStays
<1>4. QED
  BY <1>1, <1>2, <1>3 DEF Enter

LEMMA LoopCommit == ASSUME CommitInv, Loop PROVE CommitInv'
<1>1. /\ UNCHANGED <<git, record, executor, gate, executions, passed>>
      /\ pc = "looping" /\ pc' \in {"preparing", "stopping", "down"}
  BY DEF Loop, BeginAttempt, LoopOverBudget, Exhausted, Throws, Moves, disk, checkpoints, history
<1>2. StepIsDue'
  BY <1>1 DEF CommitInv, StepIsDue, AtBase, Unmade, AsLeft, Undecided
<1>3. QED
  BY <1>1, <1>2, CommitStays

LEMMA PrepareCommit == ASSUME CommitInv, Prepare PROVE CommitInv'
<1>1. CASE WorktreeRefused
  BY <1>1, ThrowsCommit DEF WorktreeRefused, disk, checkpoints, history
<1>2. CASE NotResumable
  <2>1. UNCHANGED <<git, record, executor, gate, executions, passed>> /\ pc = "preparing" /\ pc' = "creating"
    BY <1>2 DEF NotResumable, Moves, disk, checkpoints, history
  <2>2. StepIsDue'
    BY <2>1 DEF CommitInv, StepIsDue, AtBase, Unmade, AsLeft, Undecided
  <2>3. QED
    BY <2>1, <2>2, CommitStays
<1>3. CASE Reopen
  <2>1. /\ pc = "preparing" /\ executor.stage = "awaiting-gate" /\ ~HasCommit /\ worktree' = Opened
        /\ pc' = IF Opened.change = executor.change THEN "finished" ELSE "creating"
        /\ UNCHANGED <<branch, record, executor, gate, executions, passed>>
    BY <1>3 DEF Reopen, Resumable, Moves, checkpoints, history
  <2>2. Opened \in Worktrees /\ Opened.head = 0 /\ Opened # None
    BY <2>1, NoneAssumption DEF Opened, HasCommit, HasTaskCommit, Foreign, CommitInv, CommitTyped, Worktrees
  <2>3. StepIsDue'
    BY <2>1, <2>2 DEF CommitInv, StepIsDue, AtBase, Unmade, AsLeft, Undecided, HasCommit, HasTaskCommit, Foreign
  <2>4. CommitTyped' /\ CommitsAreEarned' /\ WaitsForASession' /\ CheckpointIsTrue'
    BY <2>1, <2>2 DEF CommitInv, CommitTyped, CommitsAreEarned, WaitsForASession, CheckpointIsTrue, HasCommit,
       HasTaskCommit, Foreign
  <2>5. QED
    BY <2>3, <2>4 DEF CommitInv
<1>4. QED
  BY <1>1, <1>2, <1>3 DEF Prepare

\* A step of the executor that saves a checkpoint, the worktree at its base.
LEMMA ExecutorSaves ==
  ASSUME CommitInv, NEW s \in {"driving", "stopped", "suspended", "awaiting-gate"}, NEW c \in Work,
         executor' = [stage |-> s, change |-> c], pc \in Unmade, pc \in Undecided,
         UNCHANGED <<git, record, gate, passed>>, executions' \in Nat, executions' >= executions,
         executions \in Nat, s = "awaiting-gate" => executions > 0, StepIsDue'
  PROVE  CommitInv'
<1>1. executor' \in Executors /\ executor'.stage = s
  BY DEF Executors
<1>2. worktree # None /\ ~HasTaskCommit /\ gate.stage # "committed"
  BY DEF CommitInv, StepIsDue
<1>3. CommitTyped' /\ WaitsForASession'
  BY <1>1 DEF CommitInv, CommitTyped, WaitsForASession, git
<1>4. CommitsAreEarned' /\ CheckpointIsTrue'
  BY <1>2 DEF CommitInv, CommitsAreEarned, CheckpointIsTrue, HasCommit, HasTaskCommit, Foreign, git
<1>5. QED
  BY <1>3, <1>4 DEF CommitInv

LEMMA DriverStartsCommit == ASSUME LedgerInv, CommitInv, DriverStarts PROVE CommitInv'
<1>1. /\ pc = "opening" /\ pc' = "driving" /\ executor' = [stage |-> "driving", change |-> None]
      /\ executions' = executions + 1 /\ UNCHANGED <<git, record, gate, passed>>
  BY DEF DriverStarts, Moves
<1>2. executions \in Nat /\ executions' \in Nat /\ executions' > 0 /\ executions' >= executions
  BY <1>1 DEF LedgerInv, LedgerTyped
<1>3. StepIsDue'
  BY <1>1, <1>2 DEF CommitInv, StepIsDue, AtBase, Unmade, AsLeft, Undecided, HasCommit, HasTaskCommit, Foreign, git
<1>4. QED
  BY <1>1, <1>2, <1>3, ExecutorSaves DEF Work, AtBase, Unmade, Undecided

\* The checkpoint of an abandoned, stopped, suspended or completed session.
LEMMA SessionCommit ==
  ASSUME LedgerInv, CommitInv, OpenedOverBudget \/ DriverFails \/ DriverCompletes \/ DriverSuspends
  PROVE  CommitInv'
<1>1. /\ pc \in {"opening", "driving"} /\ UNCHANGED <<git, record, gate, executions, passed>>
      /\ executions \in Nat /\ worktree \in Worktrees
  BY DEF OpenedOverBudget, DriverFails, DriverCompletes, DriverSuspends, Abandons, Moves, history, LedgerInv,
     LedgerTyped,
     CommitInv, CommitTyped, StepIsDue, AtBase, Unmade
<1>2. pc \in Unmade /\ pc \in Undecided /\ worktree.change \in Work /\ None \in Work
  BY <1>1 DEF AtBase, Unmade, Undecided, Work, Worktrees
<1>3. CASE OpenedOverBudget \/ DriverFails
  <2>1. executor' = [stage |-> "stopped", change |-> None] /\ pc' = "abandoning"
    BY <1>3 DEF OpenedOverBudget, DriverFails, Abandons, Moves
  <2>2. StepIsDue'
    BY <1>1, <1>2, <2>1 DEF CommitInv, StepIsDue, AtBase, Unmade, AsLeft, Undecided
  <2>3. QED
    BY <1>1, <1>2, <2>1, <2>2, ExecutorSaves
<1>4. CASE DriverSuspends
  <2>1. executor' = [stage |-> "suspended", change |-> worktree.change] /\ pc' = "suspending"
    BY <1>4 DEF DriverSuspends, Moves
  <2>2. StepIsDue'
    BY <1>1, <1>2, <2>1 DEF CommitInv, StepIsDue, AtBase, Unmade, AsLeft, Undecided
  <2>3. QED
    BY <1>1, <1>2, <2>1, <2>2, ExecutorSaves
<1>5. CASE DriverCompletes
  <2>1. /\ executor' = [stage |-> "awaiting-gate", change |-> worktree.change] /\ pc = "driving" /\ pc' = "finished"
        /\ ~HasCommit
    BY <1>5 DEF DriverCompletes, Moves
  <2>2. executions > 0
    BY <2>1 DEF CommitInv, StepIsDue
  <2>3. StepIsDue'
    BY <1>1, <1>2, <2>1 DEF CommitInv, StepIsDue, AtBase, Unmade, AsLeft, Undecided, HasCommit, HasTaskCommit,
       Foreign, git
  <2>4. QED
    BY <1>1, <1>2, <2>1, <2>2, <2>3, ExecutorSaves
<1>6. QED
  BY <1>3, <1>4, <1>5

LEMMA ExecuteCommit == ASSUME LedgerInv, CommitInv, Execute PROVE CommitInv'
<1>1. CASE CancelledBeforeStart
  BY <1>1, ThrowsCommit DEF CancelledBeforeStart, disk, checkpoints, history
<1>2. CASE Create
  <2>1. /\ pc = "creating" /\ pc' = "opening" /\ ~HasCommit /\ worktree' = Opened
        /\ UNCHANGED <<branch, record, executor, gate, executions, passed>>
    BY <1>2 DEF Create, Moves, checkpoints, history
  <2>2. Opened \in Worktrees /\ Opened.head = 0 /\ Opened # None
    BY <2>1, NoneAssumption DEF Opened, HasCommit, HasTaskCommit, Foreign, CommitInv, CommitTyped, Worktrees
  <2>3. StepIsDue'
    BY <2>1, <2>2 DEF CommitInv, StepIsDue, AtBase, Unmade, AsLeft, Undecided, HasCommit, HasTaskCommit, Foreign
  <2>4. CommitTyped' /\ CommitsAreEarned' /\ WaitsForASession' /\ CheckpointIsTrue'
    BY <2>1, <2>2 DEF CommitInv, CommitTyped, CommitsAreEarned, WaitsForASession, CheckpointIsTrue, HasCommit,
       HasTaskCommit, Foreign
  <2>5. QED
    BY <2>3, <2>4 DEF CommitInv
<1>3. CASE DriverStarts
  BY <1>3, DriverStartsCommit
<1>4. CASE OpenedOverBudget \/ DriverFails \/ DriverCompletes \/ DriverSuspends
  BY <1>4, SessionCommit
<1>5. CASE Suspend
  BY <1>5, CommitLeaves DEF Suspend, Moves, Nowhere, history
<1>6. CASE Abandon
  <2>1. /\ pc = "abandoning" /\ pc' \in {"sealing", "stopping"} /\ worktree' \in {None, worktree}
        /\ UNCHANGED <<branch, record, executor, gate, executions, passed>>
    BY <1>6 DEF Abandon, Moves, checkpoints, history
  <2>2. gate.stage # "committed"
    BY <2>1 DEF CommitInv, StepIsDue, Undecided
  <2>3. StepIsDue'
    BY <2>1, <2>2 DEF StepIsDue, AtBase, Unmade, AsLeft, Undecided
  <2>4. CommitTyped' /\ CommitsAreEarned' /\ WaitsForASession' /\ CheckpointIsTrue'
    BY <2>1, <2>2 DEF CommitInv, CommitTyped, CommitsAreEarned, WaitsForASession, CheckpointIsTrue, HasCommit,
       HasTaskCommit, Foreign
  <2>5. QED
    BY <2>3, <2>4 DEF CommitInv
<1>7. QED
  BY <1>1, <1>2, <1>3, <1>4, <1>5, <1>6 DEF Execute

\* A step of the gates that saves a checkpoint of what the executor left.
LEMMA GateSaves ==
  ASSUME CommitInv, NEW s \in {"gate-failed", "gates-passed", "commit-uncertain"},
         gate' = [stage |-> s, change |-> executor.change],
         UNCHANGED <<git, record, executor, executions>>, passed \subseteq passed', StepIsDue'
  PROVE  CommitInv'
<1>1. executor.change \in Work
  BY ACheckpoint DEF CommitInv, CommitTyped
<1>2. gate' \in Gates /\ gate'.stage # "committed"
  BY <1>1 DEF Gates
<1>3. CommitTyped' /\ CommitsAreEarned' /\ WaitsForASession' /\ CheckpointIsTrue'
  BY <1>2 DEF CommitInv, CommitTyped, CommitsAreEarned, WaitsForASession, CheckpointIsTrue, HasCommit,
     HasTaskCommit, Foreign, git
<1>4. QED
  BY <1>3 DEF CommitInv

LEMMA JudgedCommit == ASSUME CommitInv, GatesFail \/ GatesPass \/ SaveUncertain PROVE CommitInv'
<1>1. CASE GatesFail
  <2>1. /\ pc' = "sealing" /\ gate' = [stage |-> "gate-failed", change |-> executor.change]
        /\ UNCHANGED <<git, record, executor, executions, passed>>
    BY <1>1 DEF GatesFail, Moves, history
  <2>2. StepIsDue'
    BY <2>1 DEF StepIsDue, AtBase, Unmade, AsLeft, Undecided
  <2>3. QED
    BY <2>1, <2>2, GateSaves
<1>2. CASE GatesPass
  <2>1. /\ pc = "gating" /\ pc' = "gated" /\ gate' = [stage |-> "gates-passed", change |-> executor.change]
        /\ passed' = passed \cup {worktree.change} /\ UNCHANGED <<git, record, executor, executions>>
    BY <1>2 DEF GatesPass, Moves
  <2>2. worktree' = worktree /\ worktree.change \in passed'
    BY <2>1 DEF git
  <2>3. StepIsDue'
    BY <2>1, <2>2 DEF CommitInv, StepIsDue, AtBase, Unmade, AsLeft, Undecided, HasCommit, HasTaskCommit, Foreign
  <2>4. QED
    BY <2>1, <2>3, GateSaves
<1>3. CASE SaveUncertain
  <2>1. /\ pc' = "stopping" /\ gate' = [stage |-> "commit-uncertain", change |-> executor.change]
        /\ UNCHANGED <<git, record, executor, executions, passed>>
    BY <1>3 DEF SaveUncertain, Throws, Moves, history
  <2>2. StepIsDue'
    BY <2>1 DEF StepIsDue, AtBase, Unmade, AsLeft, Undecided
  <2>3. QED
    BY <2>1, <2>2, GateSaves
<1>4. QED
  BY <1>1, <1>2, <1>3

\* git makes the commit, whether the process hears of it or not.
LEMMA MadeCommit == ASSUME LedgerInv, CommitInv, CommitTask \/ CommitFails PROVE CommitInv'
<1>1. /\ pc = "gated" /\ pc' \in {"committed", "uncertain"}
      /\ worktree' \in {worktree, [worktree EXCEPT !.head = executions]}
      /\ pc' = "committed" => worktree' = [worktree EXCEPT !.head = executions]
      /\ UNCHANGED <<branch, record, executor, gate, executions, passed>>
  BY DEF CommitTask, CommitFails, Moves, checkpoints, history
<1>2. /\ worktree # None /\ worktree \in Worktrees /\ worktree.change \in passed /\ gate.stage # "committed"
      /\ executor.stage = "awaiting-gate" /\ executor.change = worktree.change /\ executor \in Executors
  BY <1>1 DEF CommitInv, CommitTyped, StepIsDue, AsLeft, Undecided
<1>3. executions > 0 /\ executions \in Nat
  BY <1>2 DEF CommitInv, WaitsForASession, LedgerInv, LedgerTyped
<1>4. worktree' \in Worktrees /\ worktree' # None /\ worktree'.change = worktree.change
  BY <1>1, <1>2, <1>3, NoneAssumption DEF Worktrees
<1>5. pc' = "committed" => HasTaskCommit'
  BY <1>1, <1>2, <1>3, <1>4 DEF Worktrees, HasCommit, HasTaskCommit, Foreign
<1>6. executor = [stage |-> "awaiting-gate", change |-> worktree.change]
  BY <1>2, ACheckpoint
<1>7. StepIsDue'
  BY <1>1, <1>2, <1>4, <1>5 DEF CommitInv, StepIsDue, AtBase, Unmade, AsLeft, Undecided
<1>8. CommitTyped' /\ CommitsAreEarned' /\ WaitsForASession' /\ CheckpointIsTrue'
  BY <1>1, <1>2, <1>4, <1>6 DEF CommitInv, CommitTyped, CommitsAreEarned, WaitsForASession, CheckpointIsTrue,
     HasCommit, HasTaskCommit, Foreign
<1>9. QED
  BY <1>7, <1>8 DEF CommitInv

\* From the commit to its record.
LEMMA RecordedCommit ==
  ASSUME LedgerInv, CommitInv, SaveCommitted \/ Anchor \/ RemoveWorktree \/ SaveCommit \/ RecordRecovered
  PROVE  CommitInv'
<1>1. CASE SaveCommitted
  <2>1. /\ pc = "committed" /\ pc' = "anchoring" /\ gate' = [stage |-> "committed", change |-> executor.change]
        /\ UNCHANGED <<git, record, executor, executions, passed>>
    BY <1>1 DEF SaveCommitted, Moves, history
  <2>2. HasTaskCommit /\ worktree.change \in passed /\ executor.change = worktree.change /\ executor.change \in Work
    BY <2>1, ACheckpoint DEF CommitInv, CommitTyped, StepIsDue, AsLeft
  <2>3. gate' \in Gates /\ gate'.stage = "committed" /\ gate'.change = executor.change
    BY <2>1, <2>2 DEF Gates
  <2>4. StepIsDue'
    BY <2>1, <2>2, <2>3 DEF StepIsDue, AtBase, Unmade, AsLeft, Undecided, HasCommit, HasTaskCommit, Foreign, git
  <2>5. CommitTyped' /\ CommitsAreEarned' /\ WaitsForASession' /\ CheckpointIsTrue'
    BY <2>1, <2>2, <2>3 DEF CommitInv, CommitTyped, CommitsAreEarned, WaitsForASession, CheckpointIsTrue,
       HasCommit, HasTaskCommit, Foreign, git
  <2>6. QED
    BY <2>4, <2>5 DEF CommitInv
<1>2. CASE Anchor
  <2>1. /\ pc = "anchoring" /\ pc' = "removing" /\ Anchorable /\ branch' = worktree
        /\ UNCHANGED <<worktree, record, executor, gate, executions, passed>>
    BY <1>2 DEF Anchor, Moves, checkpoints, history
  <2>2. HasTaskCommit /\ gate.stage = "committed" /\ gate.change = executor.change /\ worktree.change = gate.change
    BY <2>1 DEF CommitInv, StepIsDue, CheckpointIsTrue
  <2>3. StepIsDue'
    BY <2>1, <2>2 DEF StepIsDue, AtBase, Unmade, AsLeft, Undecided, HasCommit, HasTaskCommit, Foreign
  <2>4. CommitTyped' /\ CommitsAreEarned' /\ WaitsForASession' /\ CheckpointIsTrue'
    BY <2>1, <2>2 DEF CommitInv, CommitTyped, CommitsAreEarned, WaitsForASession, CheckpointIsTrue, HasCommit,
       HasTaskCommit, Foreign, Anchorable
  <2>5. QED
    BY <2>3, <2>4 DEF CommitInv
<1>3. CASE RemoveWorktree
  <2>1. /\ pc = "removing" /\ pc' = "recording" /\ worktree' = None
        /\ UNCHANGED <<branch, record, executor, gate, executions, passed>>
    BY <1>3 DEF RemoveWorktree, Moves, checkpoints, history
  <2>2. gate.stage = "committed" /\ gate.change = executor.change /\ branch # None /\ branch.change = executor.change
    BY <2>1 DEF CommitInv, StepIsDue
  <2>3. StepIsDue'
    BY <2>1, <2>2 DEF StepIsDue, AtBase, Unmade, AsLeft, Undecided
  <2>4. CommitTyped' /\ CommitsAreEarned' /\ WaitsForASession' /\ CheckpointIsTrue'
    BY <2>1, <2>2 DEF CommitInv, CommitTyped, CommitsAreEarned, WaitsForASession, CheckpointIsTrue, HasCommit,
       HasTaskCommit, Foreign
  <2>5. QED
    BY <2>3, <2>4 DEF CommitInv
<1>4. CASE SaveCommit
  <2>1. /\ pc = "recording" /\ pc' = "sealing" /\ mem' = [mem EXCEPT !.outcome = "passed"] /\ mem \in Memories
        /\ record' = executor.change /\ UNCHANGED <<git, executor, gate, executions, passed>>
    BY <1>4 DEF SaveCommit, Moves, checkpoints, history, LedgerInv, LedgerTyped
  <2>2. mem'.outcome = "passed"
    BY <2>1 DEF Memories
  <2>3. gate.stage = "committed" /\ gate.change = executor.change /\ branch # None /\ branch.change = executor.change
    BY <2>1 DEF CommitInv, StepIsDue
  <2>4. executor.change \in passed
    BY <2>3 DEF CommitInv, CheckpointIsTrue
  <2>5. StepIsDue'
    BY <2>1, <2>2 DEF StepIsDue, AtBase, Unmade, AsLeft, Undecided
  <2>6. CommitTyped' /\ CommitsAreEarned' /\ WaitsForASession' /\ CheckpointIsTrue'
    BY <2>1, <2>3, <2>4 DEF CommitInv, CommitTyped, CommitsAreEarned, WaitsForASession, CheckpointIsTrue,
       HasCommit, HasTaskCommit, Foreign, git
  <2>7. QED
    BY <2>5, <2>6 DEF CommitInv
<1>5. CASE RecordRecovered
  <2>1. /\ pc = "recovering" /\ pc' = "verifying" /\ record' = gate.change
        /\ UNCHANGED <<git, executor, gate, executions, passed>>
    BY <1>5 DEF RecordRecovered, Moves, checkpoints, history
  <2>2. gate.stage = "committed" /\ ~HasTaskCommit /\ branch # None /\ branch.change = gate.change /\ gate.change \in passed
    BY <2>1 DEF CommitInv, StepIsDue, CheckpointIsTrue
  <2>3. StepIsDue'
    BY <2>1 DEF StepIsDue, AtBase, Unmade, AsLeft, Undecided
  <2>4. CommitTyped' /\ CommitsAreEarned' /\ WaitsForASession' /\ CheckpointIsTrue'
    BY <2>1, <2>2 DEF CommitInv, CommitTyped, CommitsAreEarned, WaitsForASession, CheckpointIsTrue, HasCommit,
       HasTaskCommit, Foreign, git
  <2>5. QED
    BY <2>3, <2>4 DEF CommitInv
<1>6. QED
  BY <1>1, <1>2, <1>3, <1>4, <1>5

LEMMA GateCommits == ASSUME LedgerInv, CommitInv, GateAndCommit PROVE CommitInv'
<1>1. CASE GateRefused \/ DriftFound \/ AnchorRefused
  BY <1>1, ThrowsCommit DEF GateRefused, DriftFound, AnchorRefused, disk, checkpoints, history
<1>2. CASE ReachGate
  <2>1. UNCHANGED <<git, record, executor, gate, executions, passed>>
    BY <1>2 DEF ReachGate, disk, checkpoints, history
  <2>2. CASE Throws("finished")
    BY <2>1, <2>2, ThrowsCommit
  <2>3. CASE Moves("finished", "gating")
    <3>1. StepIsDue'
      BY <2>1, <2>3 DEF CommitInv, StepIsDue, AtBase, Unmade, AsLeft, Undecided, HasCommit, HasTaskCommit,
         Foreign, Moves, git
    <3>2. QED
      BY <2>1, <3>1, CommitStays
  <2>4. QED
    BY <1>2, <2>2, <2>3 DEF ReachGate
<1>3. CASE GatesFail \/ GatesPass \/ SaveUncertain
  BY <1>3, JudgedCommit
<1>4. CASE CommitTask \/ CommitFails
  BY <1>4, MadeCommit
<1>5. CASE SaveCommitted \/ Anchor \/ RemoveWorktree \/ SaveCommit
  BY <1>5, RecordedCommit
<1>6. QED
  BY <1>1, <1>2, <1>3, <1>4, <1>5 DEF GateAndCommit

LEMMA AfterAttemptCommit == ASSUME LedgerInv, CommitInv, AfterAttempt PROVE CommitInv'
<1>1. UNCHANGED <<git, record, executor, gate, executions, passed>> /\ mem \in Memories
  BY DEF AfterAttempt, SealAttempt, Converged, AttemptOverBudget, Escalated, Retry, checkpoints, history,
     LedgerInv, LedgerTyped
<1>2. CASE SealAttempt
  <2>1. /\ pc = "sealing" /\ pc' = "deciding"
        /\ mem' = [mem EXCEPT !.chain = Append(@, executions), !.failed = mem.outcome # "passed"]
    BY <1>2 DEF SealAttempt, Moves
  <2>2. mem'.outcome = mem.outcome
    BY <1>1, <2>1 DEF Memories
  <2>3. StepIsDue'
    BY <1>1, <2>1, <2>2 DEF CommitInv, StepIsDue, AtBase, Unmade, AsLeft, Undecided
  <2>4. QED
    BY <1>1, <2>3, CommitStays
<1>3. CASE Converged \/ AttemptOverBudget \/ Escalated
  BY <1>1, <1>3, CommitLeaves DEF Converged, AttemptOverBudget, Escalated, Moves, Nowhere
<1>4. CASE Retry
  <2>1. pc = "deciding" /\ pc' = "looping" /\ mem.outcome # "passed"
    BY <1>4 DEF Retry, Retrying, Moves
  <2>2. StepIsDue'
    BY <1>1, <2>1 DEF CommitInv, StepIsDue, AtBase, Unmade, AsLeft, Undecided
  <2>3. QED
    BY <1>1, <2>2, CommitStays
<1>5. QED
  BY <1>2, <1>3, <1>4 DEF AfterAttempt

LEMMA ReleaseCommit == ASSUME CommitInv, Release PROVE CommitInv'
<1>1. pc' = "ending" /\ UNCHANGED <<record, executor, gate, executions, passed>>
  BY DEF Release, Moves, checkpoints, history
<1>2. CASE UNCHANGED git
  BY <1>1, <1>2, CommitLeaves DEF Nowhere
<1>3. CASE /\ record = None /\ worktree # None /\ worktree' = None
           /\ branch' = IF HasCommit THEN worktree ELSE branch
           /\ HasCommit => Anchorable
  <2>1. StepIsDue'
    BY <1>1 DEF StepIsDue, AtBase, Unmade, AsLeft, Undecided
  <2>2. CommitTyped' /\ CommitsAreEarned' /\ WaitsForASession' /\ CheckpointIsTrue'
    BY <1>1, <1>3 DEF CommitInv, CommitTyped, CommitsAreEarned, WaitsForASession, CheckpointIsTrue, HasCommit,
       HasTaskCommit, Foreign,
       Anchorable
  <2>3. QED
    BY <2>1, <2>2 DEF CommitInv
<1>4. QED
  BY <1>2, <1>3 DEF Release

\* A driver, a gate or a hand writes to the worktree, or commits in it.
LEMMA WrittenCommit ==
  ASSUME CommitInv,
         \/ \E c \in Changes : DriverWrites(c) \/ GateWrites(c) \/ EditByHand(c)
         \/ DriverCommits \/ GateMakesCommit
  PROVE  CommitInv'
<1>1. /\ worktree # None /\ ~HasTaskCommit /\ worktree \in Worktrees
      /\ UNCHANGED <<branch, record, executor, gate, executions, passed>>
      /\ (pc = "driving" /\ pc' = pc) \/ (pc = "gating" /\ pc' = "spoiled") \/ (pc = "down" /\ pc' = pc)
  BY DEF CommitInv, CommitTyped, StepIsDue, AtBase, Unmade, DriverWrites, GateWrites, EditByHand, DriverCommits,
     GateMakesCommit, Judging, Moves, HasCommit, HasTaskCommit, checkpoints, history, process
<1>2. \/ \E c \in Changes : worktree' = [worktree EXCEPT !.change = c]
      \/ worktree' = [worktree EXCEPT !.head = Foreign]
  BY DEF DriverWrites, GateWrites, EditByHand, DriverCommits, GateMakesCommit
<1>3. worktree' \in Worktrees /\ worktree' # None /\ ~HasTaskCommit'
  BY <1>1, <1>2, NoneAssumption DEF Worktrees, HasCommit, HasTaskCommit, Foreign
<1>4. StepIsDue'
  BY <1>1, <1>3 DEF CommitInv, StepIsDue, AtBase, Unmade, AsLeft, Undecided
<1>5. CommitTyped' /\ CommitsAreEarned' /\ WaitsForASession' /\ CheckpointIsTrue'
  BY <1>1, <1>3 DEF CommitInv, CommitTyped, CommitsAreEarned, WaitsForASession, CheckpointIsTrue
<1>6. QED
  BY <1>4, <1>5 DEF CommitInv

\* The memory, or the checkpoint of a stopped session, while the driver works.
LEMMA MeteredCommit == ASSUME LedgerInv, CommitInv, DriverSpends \/ TimeRunsOut PROVE CommitInv'
<1>1. /\ UNCHANGED <<git, record, gate, executions, passed, pc>> /\ executions \in Nat
      /\ pc \in {"opening", "driving", "gating"} /\ pc \in Unmade /\ pc \in Undecided
      /\ executor' \in {executor, [stage |-> "stopped", change |-> None]} /\ None \in Work
      /\ pc # "driving" => executor' = executor
  BY DEF DriverSpends, TimeRunsOut, BudgetCheckpoint, history, AtBase, Unmade, Undecided, Work, LedgerInv,
     LedgerTyped
<1>2. StepIsDue'
  BY <1>1 DEF CommitInv, StepIsDue, AtBase, Unmade, AsLeft, HasCommit, HasTaskCommit, Foreign, git
<1>3. CASE executor' = executor
  BY <1>1, <1>2, <1>3, CommitStays
<1>4. CASE executor' = [stage |-> "stopped", change |-> None]
  BY <1>1, <1>2, <1>4, ExecutorSaves
<1>5. QED
  BY <1>1, <1>3, <1>4

LEMMA NextKeepsCommit == LedgerInv /\ CommitInv /\ [Next]_vars => CommitInv'
<1> SUFFICES ASSUME LedgerInv, CommitInv, [Next]_vars PROVE CommitInv'
  OBVIOUS
<1>1. CASE Start \/ StartVerification \/ End \/ Die
  BY <1>1, CommitLeaves DEF Start, StartVerification, End, Die, Moves, Nowhere, disk, checkpoints, history
<1>2. CASE Enter \/ Loop \/ Prepare \/ Execute \/ GateAndCommit \/ AfterAttempt \/ Release
  BY <1>2, EnterCommit, LoopCommit, PrepareCommit, ExecuteCommit, GateCommits, AfterAttemptCommit, ReleaseCommit
<1>3. CASE RecordRecovered
  BY <1>3, RecordedCommit
<1>4. CASE \/ \E c \in Changes : DriverWrites(c) \/ GateWrites(c) \/ EditByHand(c)
           \/ DriverCommits \/ GateMakesCommit
  BY <1>4, WrittenCommit
<1>5. CASE DriverSpends \/ TimeRunsOut
  BY <1>5, MeteredCommit
<1>6. CASE PortFails
  BY <1>6, ThrowsCommit DEF PortFails, disk, checkpoints, history
<1>7. CASE Cancel \/ UNCHANGED vars
  <2>1. UNCHANGED <<git, record, executor, gate, executions, passed, pc, mem>>
    BY <1>7 DEF Cancel, vars, disk, checkpoints, history, process
  <2>2. StepIsDue'
    BY <2>1 DEF CommitInv, StepIsDue, HasCommit, HasTaskCommit, Foreign, git
  <2>3. QED
    BY <2>1, <2>2, CommitStays
<1>8. QED
  BY <1>1, <1>2, <1>3, <1>4, <1>5, <1>6, <1>7 DEF Next, Continue

LEMMA CommitInvHolds == Spec => []CommitInv
BY InitCommit, NextKeepsCommit, LedgerInvHolds, PTL DEF Spec

\* Whatever a driver or a gate commits, the coordinator's commit is of what the
\* last driver session left and passed its gates, only such a commit reaches
\* the task branch, and only then is it recorded (TaskExecutionCoordinator,
\* TaskGateCommitCoordinator, recoverCommittedTask).
THEOREM CommitTheorem == Spec => []CommitsAreEarned
<1>1. CommitInv => CommitsAreEarned
  BY DEF CommitInv
<1>2. QED
  BY <1>1, CommitInvHolds, PTL

-----------------------------------------------------------------------------
(* The driver sessions.  Each one is an attempt of the chain, one that was *)
(* interrupted, or the one at hand.                                        *)

\* The attempt at hand: a process that resumes reaches its gates without a session.
AtHand == Resumable /\ Opened.change = executor.change

Bought(n) == executions <= n + excused

\* No attempt follows the one after which a human is asked.
HasRoom(chain, ledger) == Len(chain) < policy.escalate \/ Len(chain) >= policy.max \/ Stop(ledger)

\* At most one session more than the chain on disk names.
Accounts ==
  /\ excused \in Nat
  /\ ExecutionsAreEarned
  /\ Bought(Len(repair.chain) + 1)
  /\ repair.stage = "escalated" \/ record # None \/ HasRoom(repair.chain, repair.ledger)

\* What is at hand when the process takes its next step.
SessionIsDue ==
  /\ (pc = "entering" \/ (pc = "down" /\ run = "IMPLEMENTING")) /\ Uncommitted =>
       AtHand \/ Bought(Len(repair.chain))
  /\ pc \in Busy => mem.chain = repair.chain /\ Attempts < policy.escalate
  /\ pc \in {"creating", "opening", "suspending"} => Bought(Attempts)
  /\ pc = "preparing" => AtHand \/ Bought(Attempts)
  /\ pc \in {"gated", "committed"} => Resumable
  /\ pc = "verifying" => record # None
  /\ pc \in {"sealing", "deciding"} => (mem.outcome = "passed" => record # None)
  /\ pc = "deciding" => Attempts = Len(repair.chain) + 1
  /\ pc = "looping" => /\ HasRoom(mem.chain, mem.ledger)
                       /\ mem.chain = repair.chain \/ Attempts >= policy.max
                       /\ Bought(Attempts) \/ (AtHand /\ mem.chain = repair.chain)

EarnedInv == Accounts /\ SessionIsDue

LEMMA EarnedTypes ==
  ASSUME LedgerInv, EarnedInv
  PROVE  /\ Len(repair.chain) \in Nat /\ Attempts \in Nat /\ executions \in Nat /\ excused \in Nat
         /\ policy.max \in 1..5 /\ policy.escalate \in 1..5
         /\ policy.escalate <= policy.max /\ (~policy.declared => policy.max = 1)
<1>1. policy \in RepairPolicies /\ executions \in Nat /\ mem \in Memories /\ repair \in Repairs
  BY DEF LedgerInv, LedgerTyped
<1>2. QED
  BY <1>1, MemoryFields, RepairFields DEF RepairPolicies, EarnedInv, Accounts, Attempts

\* A step that neither saves the loop's state nor starts a session.
LEMMA AccountsStay ==
  ASSUME LedgerInv, EarnedInv, UNCHANGED <<policy, repair, executions>>,
         excused' \in Nat, excused' >= excused, record' = record \/ record' # None
  PROVE  Accounts'
<1>1. /\ Len(repair.chain) \in Nat /\ executions \in Nat /\ excused \in Nat /\ policy.escalate \in 1..5
  BY EarnedTypes
<1>2. ExecutionsAreEarned' /\ Bought(Len(repair.chain) + 1)'
  BY <1>1 DEF EarnedInv, Accounts, ExecutionsAreEarned, Bought
<1>3. QED
  BY <1>2 DEF EarnedInv, Accounts, HasRoom, Stop

\* Where nothing is due.
LEMMA EarnedLeaves ==
  ASSUME LedgerInv, EarnedInv, UNCHANGED <<policy, repair, executions, excused>>,
         record' = record \/ record' # None,
         pc' \in {"stopping", "ending", "recovering"} \/ (pc' = "down" /\ run' # "IMPLEMENTING")
                                                    \/ (pc' = "verifying" /\ record' # None)
  PROVE  EarnedInv'
<1>1. Accounts'
  BY AccountsStay, EarnedTypes
<1>2. SessionIsDue'
  BY DEF SessionIsDue, Busy
<1>3. QED
  BY <1>1, <1>2 DEF EarnedInv

\* Where no more is due than that an attempt is being made.
Plain == {"driving", "abandoning", "finished", "gating", "spoiled", "uncertain", "anchoring", "removing",
"recording"}

LEMMA EarnedWorks ==
  ASSUME LedgerInv, EarnedInv, UNCHANGED <<policy, repair, executions, excused, record>>,
         pc \in Busy, mem'.chain = mem.chain,
         \/ pc' \in Plain
         \/ pc' \in {"gated", "committed"} /\ Resumable'
         \/ pc' = "opening" /\ pc \in {"creating", "opening"}
         \/ pc' = "sealing" /\ mem'.outcome # "passed"
  PROVE  EarnedInv'
<1>1. Accounts'
  BY AccountsStay, EarnedTypes
<1>2. mem'.chain = repair'.chain /\ Len(mem'.chain) < policy'.escalate
  BY DEF EarnedInv, SessionIsDue, Attempts
<1>3. pc \in {"creating", "opening"} => Bought(Len(mem.chain))
  BY DEF EarnedInv, SessionIsDue, Attempts
<1>4. SessionIsDue'
  BY <1>2, <1>3 DEF SessionIsDue, Busy, Plain, Attempts, Bought
<1>5. QED
  BY <1>1, <1>4 DEF EarnedInv

LEMMA InitEarned == Init => EarnedInv
<1> SUFFICES ASSUME Init PROVE EarnedInv
  OBVIOUS
<1>1. /\ repair.chain = <<>> /\ Len(repair.chain) = 0 /\ executions = 0 /\ excused = 0
      /\ policy.escalate \in 1..5 /\ pc = "down"
  BY PolicyAssumption DEF Init, NoRepair, RepairPolicies
<1>2. Accounts
  BY <1>1 DEF Accounts, ExecutionsAreEarned, Bought, HasRoom
<1>3. SessionIsDue
  BY <1>1 DEF SessionIsDue, Busy, Bought
<1>4. QED
  BY <1>2, <1>3 DEF EarnedInv

LEMMA EnterEarned == ASSUME LedgerInv, EarnedInv, Enter PROVE EarnedInv'
<1>1. CASE EnterRecorded
  BY <1>1, EarnedLeaves DEF EnterRecorded, Moves, disk, checkpoints, history
<1>2. CASE EnterCommitted
  BY <1>2, EarnedLeaves DEF EnterCommitted, Throws, Moves, checkpoints, history
<1>3. ASSUME EnterEscalated \/ EnterLoop
      PROVE  /\ pc = "entering" /\ Uncommitted /\ Accounts' /\ AtHand' = AtHand
             /\ AtHand \/ Bought(Len(repair.chain))
             /\ UNCHANGED <<policy, repair, executions, excused, record, gate>>
  <2>1. /\ pc = "entering" /\ Uncommitted
        /\ UNCHANGED <<policy, worktree, executor, gate, repair, executions, excused, record>>
    BY <1>3 DEF EnterEscalated, EnterLoop, Moves, disk, git, checkpoints, history
  <2>2. Accounts'
    BY <2>1, AccountsStay, EarnedTypes
  <2>3. AtHand' = AtHand
    BY <2>1 DEF AtHand, Resumable, Opened
  <2>4. QED
    BY <2>1, <2>2, <2>3 DEF EarnedInv, SessionIsDue
<1>4. CASE EnterEscalated
  <2>1. pc' = "down"
    BY <1>4 DEF EnterEscalated, Moves
  <2>2. SessionIsDue'
    BY <1>3, <1>4, <2>1 DEF SessionIsDue, Busy, Uncommitted, Bought
  <2>3. QED
    BY <1>3, <1>4, <2>2 DEF EarnedInv
<1>5. CASE EnterLoop
  <2>1. pc' = "looping" /\ repair.stage # "escalated"
        /\ mem' = [mem EXCEPT !.chain = repair.chain, !.ledger = repair.ledger]
    BY <1>5 DEF EnterLoop, Moves
  <2>2. mem'.chain = repair.chain /\ mem'.ledger = repair.ledger
    BY <2>1 DEF LedgerInv, LedgerTyped, Memories
  <2>3. HasRoom(repair.chain, repair.ledger)
    BY <1>3, <1>5, <2>1 DEF EarnedInv, Accounts, Uncommitted
  <2>4. SessionIsDue'
    BY <1>3, <1>5, <2>1, <2>2, <2>3 DEF SessionIsDue, Busy, Bought, HasRoom, Stop, Attempts
  <2>5. QED
    BY <1>3, <1>5, <2>4 DEF EarnedInv
<1>6. QED
  BY <1>1, <1>2, <1>4, <1>5 DEF Enter

\* A save of a chain that the memory holds, with no session more than it names
\* and the one at hand.
LEMMA AccountsSaved ==
  ASSUME LedgerInv, EarnedInv, UNCHANGED <<policy, executions, excused, record>>,
         NEW s \in RepairStages, repair' = Saved(s), Bought(Attempts + 1),
         s = "escalated" \/ record # None \/ HasRoom(mem.chain, mem.ledger)
  PROVE  Accounts' /\ repair'.chain = mem.chain
<1>1. repair'.chain = mem.chain /\ repair'.ledger = mem.ledger /\ repair'.stage = s
  BY SavedTyped DEF LedgerInv, LedgerTyped, Saved
<1>2. Bought(Len(repair.chain) + 1)' /\ ExecutionsAreEarned' /\ excused' \in Nat
  BY <1>1 DEF EarnedInv, Accounts, ExecutionsAreEarned, Bought, Attempts
<1>3. QED
  BY <1>1, <1>2 DEF Accounts, HasRoom, Stop

LEMMA LoopEarned == ASSUME LedgerInv, EarnedInv, Loop PROVE EarnedInv'
<1>1. /\ pc = "looping" /\ HasRoom(mem.chain, mem.ledger)
      /\ mem.chain = repair.chain \/ Attempts >= policy.max
      /\ Bought(Attempts) \/ (AtHand /\ mem.chain = repair.chain)
      /\ UNCHANGED <<policy, run, executions, excused, record, worktree, executor, gate>>
  BY DEF Loop, BeginAttempt, LoopOverBudget, Exhausted, Throws, Moves, EarnedInv, SessionIsDue,
     disk, git, checkpoints, history
<1>2. /\ Attempts \in Nat /\ executions \in Nat /\ excused \in Nat /\ policy.max \in 1..5 /\ policy.escalate \in 1..5
      /\ Len(repair.chain) \in Nat
  BY EarnedTypes
<1>3. Bought(Attempts + 1)
  BY <1>1, <1>2 DEF EarnedInv, Accounts, Bought, Attempts
<1>4. AtHand' = AtHand
  BY <1>1 DEF AtHand, Resumable, Opened
<1>5. CASE BeginAttempt
  <2>1. pc' = "preparing" /\ Attempts < policy.max /\ ~Stop(mem.ledger) /\ UNCHANGED <<mem, repair>>
    BY <1>5 DEF BeginAttempt, Moves, disk, checkpoints
  <2>2. mem.chain = repair.chain /\ Attempts < policy.escalate
    BY <1>1, <1>2, <2>1 DEF HasRoom, Attempts
  <2>3. Accounts'
    BY <1>1, <1>2, <2>1, AccountsStay
  <2>4. SessionIsDue'
    BY <1>1, <1>4, <2>1, <2>2 DEF SessionIsDue, Busy, Attempts, Bought
  <2>5. QED
    BY <2>3, <2>4 DEF EarnedInv
<1>6. CASE LoopOverBudget
  <2>1. pc' = "stopping" /\ repair' = Saved("budget-exceeded")
    BY <1>6 DEF LoopOverBudget, Moves
  <2>2. Accounts'
    BY <1>1, <1>3, <2>1, AccountsSaved DEF RepairStages
  <2>3. SessionIsDue'
    BY <2>1 DEF SessionIsDue, Busy
  <2>4. QED
    BY <2>2, <2>3 DEF EarnedInv
<1>7. CASE Exhausted
  <2>1. CASE Throws("looping") /\ UNCHANGED repair
    BY <1>1, <2>1, EarnedLeaves DEF Throws, Moves
  <2>2. ASSUME NEW s \in {"escalated", "gate-failed"}, repair' = Saved(s),
               pc' = "stopping" \/ (pc' = "down" /\ s = "escalated")
        PROVE  EarnedInv'
    <3>1. Accounts' /\ repair'.chain = mem.chain
      BY <1>1, <1>3, <2>2, AccountsSaved DEF RepairStages
    <3>2. AtHand' \/ Bought(Len(repair.chain))'
      BY <1>1, <1>4, <3>1 DEF Bought, Attempts
    <3>3. SessionIsDue'
      BY <2>2, <3>2 DEF SessionIsDue, Busy
    <3>4. QED
      BY <3>1, <3>3 DEF EarnedInv
  <2>3. QED
    BY <1>7, <2>1, <2>2 DEF Exhausted, Moves
<1>8. QED
  BY <1>5, <1>6, <1>7 DEF Loop

LEMMA PrepareEarned == ASSUME LedgerInv, EarnedInv, Prepare PROVE EarnedInv'
<1>1. CASE WorktreeRefused
  BY <1>1, EarnedLeaves DEF WorktreeRefused, Throws, Moves, disk, checkpoints, history
<1>2. ASSUME NotResumable \/ Reopen
      PROVE  /\ pc = "preparing" /\ UNCHANGED <<policy, repair, executions, excused, record>>
             /\ Attempts < policy.escalate /\ mem.chain = repair.chain
             /\ AtHand \/ Bought(Attempts)
             /\ mem'.chain = mem.chain
             /\ pc' \in {"finished", "creating"}
             /\ pc' = "creating" => ~AtHand
             /\ Accounts'
  <2>1. /\ pc = "preparing" /\ UNCHANGED <<policy, repair, executions, excused, record>>
        /\ pc' \in {"finished", "creating"}
        /\ pc' = "creating" => ~AtHand
        /\ Remembers
    BY <1>2 DEF NotResumable, Reopen, Moves, AtHand, Remembers, disk, checkpoints, history
  <2>2. mem'.chain = mem.chain
    BY <2>1, RemembersLedger DEF LedgerInv, LedgerTyped
  <2>3. Accounts'
    BY <2>1, AccountsStay, EarnedTypes
  <2>4. QED
    BY <2>1, <2>2, <2>3 DEF EarnedInv, SessionIsDue, Busy
<1>3. CASE NotResumable \/ Reopen
  <2>1. SessionIsDue'
    BY <1>2, <1>3 DEF SessionIsDue, Busy, Bought, Attempts
  <2>2. QED
    BY <1>2, <1>3, <2>1 DEF EarnedInv
<1>4. QED
  BY <1>1, <1>3 DEF Prepare

LEMMA ExecuteEarned == ASSUME LedgerInv, EarnedInv, Execute PROVE EarnedInv'
<1>1. CASE CancelledBeforeStart
  BY <1>1, EarnedLeaves DEF CancelledBeforeStart, Throws, Moves, disk, checkpoints, history
<1>2. CASE Create
  BY <1>2, EarnedWorks DEF Create, Moves, Busy, checkpoints, history
<1>3. CASE OpenedOverBudget \/ DriverFails \/ DriverCompletes
  <2>1. /\ pc \in Busy /\ pc' \in Plain /\ Remembers
        /\ UNCHANGED <<policy, repair, executions, excused, record>>
    BY <1>3 DEF OpenedOverBudget, DriverFails, DriverCompletes, Abandons, Moves, Busy, Plain, Remembers,
       Outcomes, history
  <2>2. mem'.chain = mem.chain
    BY <2>1, RemembersLedger DEF LedgerInv, LedgerTyped
  <2>3. QED
    BY <2>1, <2>2, EarnedWorks
<1>4. CASE DriverStarts
  <2>1. /\ pc = "opening" /\ pc' = "driving" /\ executions' = executions + 1
        /\ UNCHANGED <<policy, repair, excused, record, mem>>
    BY <1>4 DEF DriverStarts, Moves
  <2>2. mem.chain = repair.chain /\ Attempts < policy.escalate /\ Bought(Attempts)
    BY <2>1 DEF EarnedInv, SessionIsDue, Busy
  <2>3. ExecutionsAreEarned' /\ Bought(Len(repair.chain) + 1)'
    BY <2>1, <2>2, EarnedTypes DEF Bought, ExecutionsAreEarned, Attempts
  <2>4. Accounts'
    BY <2>1, <2>3 DEF EarnedInv, Accounts, HasRoom, Stop
  <2>5. SessionIsDue'
    BY <2>1, <2>2 DEF SessionIsDue, Busy, Attempts
  <2>6. QED
    BY <2>4, <2>5 DEF EarnedInv
<1>5. CASE DriverSuspends
  <2>1. /\ pc = "driving" /\ pc' = "suspending" /\ excused' = excused + 1
        /\ UNCHANGED <<policy, repair, executions, record, mem>>
    BY <1>5 DEF DriverSuspends, Moves
  <2>2. Accounts'
    BY <2>1, AccountsStay, EarnedTypes
  <2>3. mem.chain = repair.chain /\ Attempts < policy.escalate /\ Bought(Attempts + 1)
    BY <2>1 DEF EarnedInv, SessionIsDue, Accounts, Busy, Attempts
  <2>4. SessionIsDue'
    BY <2>1, <2>3, EarnedTypes DEF SessionIsDue, Busy, Attempts, Bought
  <2>5. QED
    BY <2>2, <2>4 DEF EarnedInv
<1>6. CASE Suspend
  <2>1. /\ pc = "suspending" /\ pc' = "down" /\ repair' = Saved("repair")
        /\ UNCHANGED <<policy, executions, excused, record, mem>>
    BY <1>6 DEF Suspend, Moves, history
  <2>2. mem.chain = repair.chain /\ Attempts < policy.escalate /\ Bought(Attempts) /\ Bought(Attempts + 1)
    BY <2>1 DEF EarnedInv, SessionIsDue, Accounts, Busy, Attempts
  <2>3. Accounts' /\ repair'.chain = mem.chain
    BY <2>1, <2>2, AccountsSaved DEF HasRoom, Attempts, RepairStages
  <2>4. SessionIsDue'
    BY <2>1, <2>2, <2>3 DEF SessionIsDue, Busy, Attempts, Bought
  <2>5. QED
    BY <2>3, <2>4 DEF EarnedInv
<1>7. CASE Abandon
  <2>1. /\ pc = "abandoning" /\ UNCHANGED <<policy, repair, executions, excused, record, mem>>
        /\ pc' = IF mem.outcome = "budget" THEN "sealing" ELSE "stopping"
    BY <1>7 DEF Abandon, Moves, checkpoints, history
  <2>2. CASE mem.outcome = "budget"
    BY <2>1, <2>2, EarnedWorks DEF Busy
  <2>3. CASE mem.outcome # "budget"
    BY <2>1, <2>3, EarnedLeaves
  <2>4. QED
    BY <2>2, <2>3
<1>8. QED
  BY <1>1, <1>2, <1>3, <1>4, <1>5, <1>6, <1>7 DEF Execute

LEMMA GateEarned == ASSUME LedgerInv, CommitInv, EarnedInv, GateAndCommit PROVE EarnedInv'
<1>1. CASE GateRefused \/ DriftFound \/ SaveUncertain \/ AnchorRefused
  BY <1>1, EarnedLeaves DEF GateRefused, DriftFound, SaveUncertain, AnchorRefused, Throws, Moves,
     disk, checkpoints, history
<1>2. CASE ReachGate
  <2>1. pc = "finished" /\ UNCHANGED <<policy, repair, executions, excused, record>>
    BY <1>2 DEF ReachGate, Throws, Moves, disk, checkpoints, history
  <2>2. CASE signal
    BY <1>2, <2>1, <2>2, EarnedLeaves DEF ReachGate, Throws, Moves
  <2>3. CASE ~signal
    BY <1>2, <2>1, <2>3, EarnedWorks DEF ReachGate, Moves, Busy, Plain
  <2>4. QED
    BY <2>2, <2>3
<1>3. CASE GatesFail
  <2>1. /\ pc \in {"gating", "spoiled"} /\ pc' = "sealing" /\ mem' = [mem EXCEPT !.outcome = "failed"]
        /\ UNCHANGED <<policy, repair, executions, excused, record>>
    BY <1>3 DEF GatesFail, Moves, history
  <2>2. mem'.chain = mem.chain /\ mem'.outcome = "failed"
    BY <2>1 DEF LedgerInv, LedgerTyped, Memories
  <2>3. QED
    BY <2>1, <2>2, EarnedWorks DEF Busy
<1>4. CASE GatesPass
  <2>1. /\ pc = "gating" /\ pc' = "gated" /\ UNCHANGED mem
        /\ gate' = [stage |-> "gates-passed", change |-> executor.change] /\ UNCHANGED executor
        /\ UNCHANGED <<policy, repair, executions, excused, record>>
    BY <1>4 DEF GatesPass, Moves
  <2>2. Resumable'
    BY <2>1 DEF Resumable, CommitInv, StepIsDue, AsLeft
  <2>3. QED
    BY <2>1, <2>2, EarnedWorks DEF Busy
<1>5. CASE CommitTask
  <2>1. /\ pc = "gated" /\ pc' = "committed" /\ UNCHANGED <<mem, executor, gate>>
        /\ UNCHANGED <<policy, repair, executions, excused, record>>
    BY <1>5 DEF CommitTask, Moves, checkpoints, history
  <2>2. Resumable'
    BY <2>1 DEF Resumable, EarnedInv, SessionIsDue
  <2>3. QED
    BY <2>1, <2>2, EarnedWorks DEF Busy
<1>6. CASE CommitFails \/ SaveCommitted \/ Anchor \/ RemoveWorktree
  BY <1>6, EarnedWorks DEF CommitFails, SaveCommitted, Anchor, RemoveWorktree, Moves, Busy, Plain,
     checkpoints, history
<1>7. CASE SaveCommit
  <2>1. /\ pc = "recording" /\ pc' = "sealing" /\ mem' = [mem EXCEPT !.outcome = "passed"]
        /\ record' = executor.change /\ UNCHANGED <<policy, repair, executions, excused>>
    BY <1>7 DEF SaveCommit, Moves, checkpoints, history
  <2>2. record' # None
    <3>1. branch # None /\ branch.change = executor.change /\ branch \in Worktrees
      BY <2>1 DEF CommitInv, CommitTyped, StepIsDue
    <3>2. QED
      BY <2>1, <3>1, ChangeAssumption DEF Worktrees
  <2>3. mem'.chain = mem.chain
    BY <2>1 DEF LedgerInv, LedgerTyped, Memories
  <2>4. Accounts'
    BY <2>1, <2>2, AccountsStay, EarnedTypes
  <2>5. SessionIsDue'
    BY <2>1, <2>2, <2>3 DEF EarnedInv, SessionIsDue, Busy, Attempts
  <2>6. QED
    BY <2>4, <2>5 DEF EarnedInv
<1>8. QED
  BY <1>1, <1>2, <1>3, <1>4, <1>5, <1>6, <1>7 DEF GateAndCommit

\* An attempt that is sealed is one more of the chain.
LEMMA SealEarned == ASSUME LedgerInv, EarnedInv, SealAttempt PROVE EarnedInv'
<1>1. /\ pc = "sealing" /\ pc' = "deciding"
      /\ mem' = [mem EXCEPT !.chain = Append(@, executions), !.failed = mem.outcome # "passed"]
      /\ UNCHANGED <<policy, repair, executions, excused, record>>
  BY DEF SealAttempt, Moves, checkpoints, history
<1>2. mem'.chain = Append(mem.chain, executions) /\ mem'.outcome = mem.outcome
  BY <1>1 DEF LedgerInv, LedgerTyped, Memories
<1>3. Len(mem'.chain) = Len(repair.chain) + 1
  BY <1>1, <1>2, MemoryFields DEF LedgerInv, LedgerTyped, EarnedInv, SessionIsDue, Busy
<1>4. Accounts'
  BY <1>1, AccountsStay, EarnedTypes
<1>5. SessionIsDue'
  BY <1>1, <1>2, <1>3 DEF EarnedInv, SessionIsDue, Busy, Attempts
<1>6. QED
  BY <1>4, <1>5 DEF EarnedInv

LEMMA AfterAttemptEarned == ASSUME LedgerInv, EarnedInv, AfterAttempt PROVE EarnedInv'
<1>1. CASE SealAttempt
  BY <1>1, SealEarned
<1>2. ASSUME pc = "deciding"
      PROVE  /\ Bought(Attempts) /\ Bought(Attempts + 1) /\ Attempts >= 1
             /\ Attempts = Len(repair.chain) + 1
             /\ mem.outcome = "passed" => record # None
  BY <1>2, EarnedTypes DEF EarnedInv, Accounts, SessionIsDue, Bought
<1>3. CASE Converged
  <2>1. /\ pc = "deciding" /\ pc' = "verifying" /\ repair' = Saved("converged") /\ mem.outcome = "passed"
        /\ UNCHANGED <<policy, executions, excused, record>>
    BY <1>3 DEF Converged, Moves, history
  <2>2. Accounts'
    BY <1>2, <2>1, AccountsSaved DEF RepairStages
  <2>3. SessionIsDue'
    BY <1>2, <2>1 DEF SessionIsDue, Busy
  <2>4. QED
    BY <2>2, <2>3 DEF EarnedInv
<1>4. CASE AttemptOverBudget
  <2>1. /\ pc = "deciding" /\ pc' = "stopping" /\ repair' = Saved("budget-exceeded") /\ Stop(mem.ledger)
        /\ UNCHANGED <<policy, executions, excused, record>>
    BY <1>4 DEF AttemptOverBudget, Moves, history
  <2>2. Accounts'
    BY <1>2, <2>1, AccountsSaved DEF RepairStages, HasRoom
  <2>3. SessionIsDue'
    BY <2>1 DEF SessionIsDue, Busy
  <2>4. QED
    BY <2>2, <2>3 DEF EarnedInv
<1>5. CASE Escalated
  <2>1. /\ pc = "deciding" /\ pc' = "down" /\ repair' = Saved("escalated")
        /\ UNCHANGED <<policy, executions, excused, record>>
    BY <1>5 DEF Escalated, Moves, history
  <2>2. Accounts' /\ repair'.chain = mem.chain
    BY <1>2, <2>1, AccountsSaved DEF RepairStages
  <2>3. SessionIsDue'
    BY <1>2, <2>1, <2>2 DEF SessionIsDue, Busy, Bought, Attempts
  <2>4. QED
    BY <2>2, <2>3 DEF EarnedInv
<1>6. CASE Retry
  <2>1. /\ pc = "deciding" /\ pc' = "looping" /\ ~MustEscalate
        /\ repair' = IF Attempts < policy.max THEN Saved("repair") ELSE repair
        /\ UNCHANGED <<policy, executions, excused, record, mem>>
    BY <1>6 DEF Retry, Moves, history
  <2>2. Attempts < policy.escalate \/ Attempts >= policy.max
    BY <1>2, <2>1, EarnedTypes DEF MustEscalate
  <2>3. HasRoom(mem.chain, mem.ledger)
    BY <2>2 DEF HasRoom, Attempts
  <2>4. Accounts' /\ (repair'.chain = mem.chain \/ Attempts >= policy.max)
    <3>1. CASE Attempts < policy.max
      BY <1>2, <2>1, <2>3, <3>1, AccountsSaved DEF RepairStages
    <3>2. CASE ~(Attempts < policy.max)
      BY <2>1, <3>2, AccountsStay, EarnedTypes
    <3>3. QED
      BY <3>1, <3>2
  <2>5. SessionIsDue'
    BY <1>2, <2>1, <2>3, <2>4 DEF SessionIsDue, Busy, Bought, Attempts, HasRoom, Stop
  <2>6. QED
    BY <2>4, <2>5 DEF EarnedInv
<1>7. QED
  BY <1>1, <1>3, <1>4, <1>5, <1>6 DEF AfterAttempt

\* Meters change the ledgers and no chain.
LEMMA MeteredEarned == ASSUME LedgerInv, EarnedInv, DriverSpends \/ TimeRunsOut PROVE EarnedInv'
<1>1. CASE DriverSpends
  <2>1. /\ pc = "driving" /\ pc' = pc /\ UNCHANGED <<policy, executions, excused, record>>
        /\ \E l : repair' = Metered(l)
        /\ \E l : mem' = [mem EXCEPT !.ledger = l]
    BY <1>1 DEF DriverSpends
  <2>2. mem'.chain = mem.chain /\ repair'.chain = repair.chain
    BY <2>1 DEF Metered, LedgerInv, LedgerTyped, Memories, Repairs
  <2>3. mem.chain = repair.chain /\ Attempts < policy.escalate
    BY <2>1 DEF EarnedInv, SessionIsDue, Busy
  <2>4. Accounts'
    BY <2>1, <2>2, <2>3 DEF EarnedInv, Accounts, ExecutionsAreEarned, Bought, HasRoom, Attempts
  <2>5. SessionIsDue'
    BY <2>1, <2>2, <2>3 DEF SessionIsDue, Busy, Attempts
  <2>6. QED
    BY <2>4, <2>5 DEF EarnedInv
<1>2. CASE TimeRunsOut
  <2>1. /\ pc \in {"opening", "driving", "gating"} /\ pc' = pc
        /\ UNCHANGED <<policy, repair, executions, excused, record>>
        /\ mem' = [mem EXCEPT !.ledger.stopped = TRUE]
    BY <1>2 DEF TimeRunsOut, history
  <2>2. mem'.chain = mem.chain
    BY <2>1 DEF LedgerInv, LedgerTyped, Memories
  <2>3. QED
    BY <2>1, <2>2, EarnedWorks DEF Busy, Plain
<1>3. QED
  BY <1>1, <1>2

\* What a dead process leaves is at hand, or its loss is excused.
LEMMA DieEarned == ASSUME LedgerInv, CommitInv, EarnedInv, Die PROVE EarnedInv'
<1>1. /\ pc' = "down" /\ UNCHANGED <<policy, run, repair, executions, record, worktree, executor, gate>>
      /\ excused' = IF CostsNothing THEN excused ELSE excused + 1
  BY DEF Die, disk, git, checkpoints
<1>2. Accounts'
  BY <1>1, AccountsStay, EarnedTypes
<1>3. AtHand' = AtHand /\ Uncommitted' = Uncommitted
  BY <1>1 DEF AtHand, Resumable, Opened, Uncommitted
<1>4. ASSUME run = "IMPLEMENTING", Uncommitted
      PROVE  (AtHand \/ Bought(Len(repair.chain)))'
  <2>1. CASE ~CostsNothing
    <3>1. Bought(Len(repair.chain) + 1)
      BY DEF EarnedInv, Accounts
    <3>2. QED
      BY <1>1, <2>1, <3>1, EarnedTypes DEF Bought
  <2>2. CASE CostsNothing
    <3>0. Bought(Len(repair.chain)) => Bought(Len(repair.chain))'
      BY <1>1, <2>2 DEF Bought
    <3>1. pc \in Resumes
      BY <2>2 DEF CostsNothing
    <3>2. CASE pc \in {"entering", "preparing", "creating", "opening"}
      BY <1>3, <1>4, <3>0, <3>2 DEF EarnedInv, SessionIsDue, Busy, Attempts
    <3>3. CASE pc \in {"finished", "gating", "gated", "committed"}
      <4>1. Resumable
        BY <2>2, <3>3 DEF CostsNothing, EarnedInv, SessionIsDue
      <4>2. worktree # None /\ executor.change = worktree.change
        BY <3>3 DEF CommitInv, StepIsDue, AsLeft
      <4>3. QED
        BY <1>3, <4>1, <4>2 DEF AtHand, Opened
    <3>4. CASE pc \in {"recovering", "anchoring", "removing", "recording", "verifying"}
      <4>1. gate.stage = "committed" \/ record # None
        BY <3>4 DEF CommitInv, StepIsDue, EarnedInv, SessionIsDue
      <4>2. QED
        BY <1>4, <4>1 DEF Uncommitted
    <3>5. QED
      BY <3>1, <3>2, <3>3, <3>4 DEF Resumes
  <2>3. QED
    BY <2>1, <2>2
<1>5. SessionIsDue'
  BY <1>1, <1>3, <1>4 DEF SessionIsDue, Busy
<1>6. QED
  BY <1>2, <1>5 DEF EarnedInv

LEMMA WrittenEarned ==
  ASSUME LedgerInv, EarnedInv,
         \/ \E c \in Changes : DriverWrites(c) \/ GateWrites(c) \/ EditByHand(c)
         \/ DriverCommits \/ GateMakesCommit
  PROVE  EarnedInv'
<1>1. ASSUME NEW c \in Changes, DriverWrites(c) \/ GateWrites(c)
      PROVE  EarnedInv'
  BY <1>1, EarnedWorks DEF DriverWrites, GateWrites, Moves, Busy, Plain, process, checkpoints, history
<1>2. ASSUME NEW c \in Changes, EditByHand(c)
      PROVE  EarnedInv'
  <2>1. /\ pc = "down" /\ pc' = pc /\ excused' = excused + 1
        /\ UNCHANGED <<policy, repair, executions, record>>
    BY <1>2 DEF EditByHand, process, checkpoints
  <2>2. Accounts'
    BY <2>1, AccountsStay, EarnedTypes
  <2>3. Bought(Len(repair.chain))'
    <3>1. Bought(Len(repair.chain) + 1)
      BY DEF EarnedInv, Accounts
    <3>2. QED
      BY <2>1, <3>1, EarnedTypes DEF Bought
  <2>4. SessionIsDue'
    BY <2>1, <2>3 DEF SessionIsDue, Busy
  <2>5. QED
    BY <2>2, <2>4 DEF EarnedInv
<1>3. CASE DriverCommits \/ GateMakesCommit
  BY <1>3, EarnedWorks DEF DriverCommits, GateMakesCommit, Moves, Busy, Plain, process, checkpoints, history
<1>4. QED
  BY <1>1, <1>2, <1>3

LEMMA NextKeepsEarned == LedgerInv /\ CommitInv /\ EarnedInv /\ [Next]_vars => EarnedInv'
<1> SUFFICES ASSUME LedgerInv, CommitInv, EarnedInv, [Next]_vars PROVE EarnedInv'
  OBVIOUS
<1>1. CASE Start
  <2>1. /\ pc = "down" /\ pc' = "entering" /\ run = "IMPLEMENTING"
        /\ UNCHANGED <<policy, repair, executions, excused, record, worktree, executor, gate>>
    BY <1>1 DEF Start, Moves, disk, git, checkpoints, history
  <2>2. Accounts'
    BY <2>1, AccountsStay, EarnedTypes
  <2>3. SessionIsDue'
    BY <2>1 DEF EarnedInv, SessionIsDue, Busy, AtHand, Resumable, Opened, Uncommitted, Bought
  <2>4. QED
    BY <2>2, <2>3 DEF EarnedInv
<1>2. CASE Enter \/ Loop \/ Prepare \/ Execute \/ GateAndCommit \/ AfterAttempt
  BY <1>2, EnterEarned, LoopEarned, PrepareEarned, ExecuteEarned, GateEarned, AfterAttemptEarned
<1>3. CASE RecordRecovered
  <2>1. /\ pc = "recovering" /\ pc' = "verifying" /\ record' = gate.change
        /\ UNCHANGED <<policy, repair, executions, excused>>
    BY <1>3 DEF RecordRecovered, Moves, checkpoints, history
  <2>2. branch # None /\ branch.change = gate.change /\ branch \in Worktrees
    BY <2>1 DEF CommitInv, CommitTyped, StepIsDue, CheckpointIsTrue
  <2>3. record' # None
    BY <2>1, <2>2, ChangeAssumption DEF Worktrees
  <2>4. QED
    BY <2>1, <2>3, EarnedLeaves
<1>4. CASE StartVerification \/ Release \/ End
  BY <1>4, EarnedLeaves DEF StartVerification, Release, End, Moves, disk, checkpoints, history
<1>5. CASE \/ \E c \in Changes : DriverWrites(c) \/ GateWrites(c) \/ EditByHand(c)
           \/ DriverCommits \/ GateMakesCommit
  BY <1>5, WrittenEarned
<1>6. CASE DriverSpends \/ TimeRunsOut
  BY <1>6, MeteredEarned
<1>7. CASE PortFails
  BY <1>7, EarnedLeaves DEF PortFails, Throws, Moves, disk, checkpoints, history
<1>8. CASE Die
  BY <1>8, DieEarned
<1>9. CASE Cancel \/ UNCHANGED vars
  <2>1. UNCHANGED <<policy, run, repair, executions, excused, record, worktree, executor, gate, pc, mem>>
    BY <1>9 DEF Cancel, vars, disk, git, checkpoints, history, process
  <2>2. Accounts'
    BY <2>1, AccountsStay, EarnedTypes
  <2>3. SessionIsDue'
    BY <2>1 DEF EarnedInv, SessionIsDue, AtHand, Resumable, Opened, Uncommitted, Bought, HasRoom, Stop, Attempts
  <2>4. QED
    BY <2>2, <2>3 DEF EarnedInv
<1>10. QED
  BY <1>1, <1>2, <1>3, <1>4, <1>5, <1>6, <1>7, <1>8, <1>9 DEF Next, Continue

LEMMA EarnedInvHolds == Spec => []EarnedInv
BY InitEarned, NextKeepsEarned, LedgerInvHolds, CommitInvHolds, PTL DEF Spec

\* A run starts no more driver sessions than its policy allows before a human
\* decides, and one more for each interruption that cost a session's work: what
\* a process leaves between the driver's end and the commit record is taken up
\* and not paid for again (runGateRepairLoop, TaskExecutionCoordinator).
THEOREM SessionTheorem == Spec => []ExecutionsAreEarned
<1>1. EarnedInv => ExecutionsAreEarned
  BY DEF EarnedInv, Accounts
<1>2. QED
  BY <1>1, EarnedInvHolds, PTL
=============================================================================
