---------------------------- MODULE TaskAttempts ----------------------------
(***************************************************************************)
(* The gated attempts of one task run: the repair loop                     *)
(* (application/src/execution/gate-repair.ts) around the executor          *)
(* (task-executor.ts) and the gate and commit coordinator (gate-commit.ts),*)
(* as the command composes them (apps/vestra-cli/src/task/task-run.ts)     *)
(* over the checkpoints of the runtime store, the run's worktree and the   *)
(* attempt capsules.                                                       *)
(*                                                                         *)
(* One process at a time works on the run: TaskDrive models how that is    *)
(* arranged.  It may die between any two durable writes; the next process  *)
(* resumes from the checkpoints, and somebody may have edited the worktree *)
(* in the meantime.                                                        *)
(***************************************************************************)
EXTENDS Integers, Sequences

CONSTANTS
  Changes,          \* what a worktree may hold beside its base revision
  Clean,            \* a worktree with no change
  None,             \* no worktree, branch, record or change
  Policies,         \* the repair policies a plan may carry
  Threshold,        \* usage at which the budget stops the run
  MaxSpend,         \* bound: usage events of the run
  MaxInterruptions  \* bound: deaths, suspensions and edits by hand

RepairPolicies == {p \in [declared : BOOLEAN, max : 1..5, escalate : 1..5] :
                     /\ p.escalate <= p.max
                     /\ ~p.declared => p.max = 1}

ASSUME PolicyAssumption == Policies \subseteq RepairPolicies

\* HEAD of a worktree that somebody else than the coordinator committed in.
Foreign == -1

Worktrees == [change : Changes \cup {Clean}, head : Nat \cup {Foreign}]

ASSUME NoneAssumption == None \notin Worktrees

ASSUME ChangeAssumption == Clean \notin Changes /\ None \notin Changes \cup {Clean}

ASSUME BoundAssumption == /\ Threshold \in Nat \ {0}
                          /\ MaxSpend \in Nat
                          /\ MaxInterruptions \in Nat

VARIABLES
  policy,         \* the plan's repair policy
  run,            \* workflow state of the run
  worktree,       \* the worktree: its change, and HEAD: 0 for the base, Foreign, or
                  \* the driver session whose change the coordinator committed
  branch,         \* worktree whose commit the task branch anchors
  record,         \* change of the task commit record
  executor,       \* latest executor checkpoint
  gate,           \* latest gate checkpoint
  repair,         \* latest repair state
  sealed,         \* attempt capsules: the execution each one describes
  pc,             \* what the process does next
  mem,            \* the process's memory
  signal,         \* whether its abort signal was raised
  executions,     \* driver sessions started
  used,           \* usage the drivers reported
  passed,         \* changes that passed their gates
  interruptions,  \* deaths, suspensions and edits by hand so far
  excused         \* those of them that cost a driver session's work

git == <<worktree, branch>>
checkpoints == <<executor, gate, repair>>
disk == <<git, record, checkpoints, sealed>>
process == <<pc, mem, signal>>
history == <<executions, used, passed, interruptions, excused>>
vars == <<policy, run, disk, process, history>>

-----------------------------------------------------------------------------
NoCheckpoint == [stage |-> "none", change |-> None]

NoUsage == [spent |-> 0, stopped |-> FALSE]

NoRepair == [stage |-> "none", chain |-> <<>>, ledger |-> NoUsage]

Fresh == [chain |-> <<>>, ledger |-> NoUsage, failed |-> FALSE, handle |-> FALSE, outcome |-> "none"]

Init ==
  /\ policy \in Policies
  /\ run = "IMPLEMENTING"
  /\ worktree = None
  /\ branch = None
  /\ record = None
  /\ executor = NoCheckpoint
  /\ gate = NoCheckpoint
  /\ repair = NoRepair
  /\ sealed = [n \in 1..5 |-> 0]
  /\ pc = "down"
  /\ mem = Fresh
  /\ signal = FALSE
  /\ executions = 0
  /\ used = 0
  /\ passed = {}
  /\ interruptions = 0
  /\ excused = 0

\* shouldStop: a reason once found stays.
Stop(ledger) == ledger.stopped \/ ledger.spent >= Threshold

\* saveStage: the loop's state with the meter's ledger.
Saved(stage) == [stage |-> stage, chain |-> mem.chain, ledger |-> mem.ledger]

Attempts == Len(mem.chain)

Moves(from, to) == pc = from /\ pc' = to

\* #terminal: an error leaves the attempt and ends the run.
Throws(from) == Moves(from, "stopping") /\ mem' = [mem EXCEPT !.outcome = "throw"]

HasCommit == worktree # None /\ worktree.head # 0

HasTaskCommit == HasCommit /\ worktree.head # Foreign

\* Mutant: any commit on the base is taken for the task commit.
AnyAnchorable == branch \in {None, worktree}

\* #anchorTaskCommit: only a task commit is anchored, and the task branch is
\* made once, or is already there.
Anchorable == worktree.head # Foreign /\ branch \in {None, worktree}

-----------------------------------------------------------------------------
\* A command starts or resumes the run.

\* assertSuspensionHolds: a suspended run resumes on the worktree it left.
SuspensionHolds ==
  executor.stage = "suspended" => worktree = [change |-> executor.change, head |-> 0]

Start ==
  /\ run = "IMPLEMENTING"
  /\ SuspensionHolds
  /\ Moves("down", "entering")
  /\ mem' = Fresh
  /\ signal' = FALSE
  /\ UNCHANGED <<policy, run, disk, history>>

EnterRecorded ==
  /\ record # None
  /\ Moves("entering", "verifying")
  /\ UNCHANGED <<policy, run, disk, mem, signal, history>>

\* recoverCommittedTask: the committed checkpoint is finished from what is on disk.
EnterCommitted ==
  /\ record = None
  /\ gate.stage = "committed"
  /\ IF ~HasTaskCommit
     THEN Moves("entering", "recovering") /\ UNCHANGED <<git, mem>>
     ELSE IF Anchorable
     THEN /\ Moves("entering", "recovering")
          /\ branch' = worktree
          /\ worktree' = None
          /\ UNCHANGED mem
     ELSE Throws("entering") /\ UNCHANGED git
  /\ UNCHANGED <<policy, run, record, checkpoints, sealed, signal, history>>

RecordRecovered ==
  /\ Moves("recovering", "verifying")
  /\ record' = gate.change
  /\ UNCHANGED <<policy, run, git, checkpoints, sealed, mem, signal, history>>

Uncommitted == record = None /\ gate.stage # "committed"

EnterEscalated ==
  /\ Uncommitted
  /\ repair.stage = "escalated"
  /\ Moves("entering", "down")
  /\ UNCHANGED <<policy, run, disk, mem, signal, history>>

\* Mutant: the resumed meter starts from nothing.
EnterLoopAfresh ==
  /\ Uncommitted
  /\ repair.stage # "escalated"
  /\ Moves("entering", "looping")
  /\ mem' = [mem EXCEPT !.chain = repair.chain]
  /\ UNCHANGED <<policy, run, disk, signal, history>>

\* normalizeState and the meter resumed from the ledger.
EnterLoop ==
  /\ Uncommitted
  /\ repair.stage # "escalated"
  /\ Moves("entering", "looping")
  /\ mem' = [mem EXCEPT !.chain = repair.chain, !.ledger = repair.ledger]
  /\ UNCHANGED <<policy, run, disk, signal, history>>

StartVerification ==
  /\ Moves("verifying", "down")
  /\ run' = "VERIFYING"
  /\ UNCHANGED <<policy, disk, mem, signal, history>>

Enter == EnterRecorded \/ EnterCommitted \/ EnterEscalated \/ EnterLoop

-----------------------------------------------------------------------------
\* runGateRepairLoop

BeginAttempt ==
  /\ Attempts < policy.max
  /\ ~Stop(mem.ledger)
  /\ Moves("looping", "preparing")
  /\ UNCHANGED <<policy, run, disk, mem, signal, history>>

LoopOverBudget ==
  /\ Attempts < policy.max
  /\ Stop(mem.ledger)
  /\ Moves("looping", "stopping")
  /\ mem' = [mem EXCEPT !.outcome = "stop"]
  /\ repair' = Saved("budget-exceeded")
  /\ UNCHANGED <<policy, run, git, record, executor, gate, sealed, signal, history>>

\* Mutant: a loop that knows of no failure returns without a result.
ExhaustedQuietly ==
  /\ Attempts >= policy.max
  /\ IF mem.failed /\ policy.declared
     THEN Moves("looping", "down") /\ repair' = Saved("escalated")
     ELSE Moves("looping", "down") /\ repair' = Saved("gate-failed")
  /\ UNCHANGED <<policy, run, git, record, executor, gate, sealed, mem, signal, history>>

\* exhausted: a loop that knows of no failure has nothing to report.
Exhausted ==
  /\ Attempts >= policy.max
  /\ IF ~mem.failed
     THEN Throws("looping") /\ UNCHANGED repair
     ELSE IF policy.declared
     THEN Moves("looping", "down") /\ repair' = Saved("escalated") /\ UNCHANGED mem
     ELSE /\ Moves("looping", "stopping")
          /\ mem' = [mem EXCEPT !.outcome = "stop"]
          /\ repair' = Saved("gate-failed")
  /\ UNCHANGED <<policy, run, git, record, executor, gate, sealed, signal, history>>

Loop == BeginAttempt \/ LoopOverBudget \/ Exhausted

-----------------------------------------------------------------------------
\* resumable: the gate is reached again without another driver session.

Resumable ==
  /\ executor.stage = "awaiting-gate"
  /\ ~(gate.stage = "gate-failed" /\ gate.change = executor.change)

\* worktrees.create: an existing worktree is taken as it is, and refused once
\* HEAD has left the base.
Opened == IF worktree = None THEN [change |-> Clean, head |-> 0] ELSE worktree

WorktreeRefused ==
  /\ \/ Resumable /\ Throws("preparing")
     \/ Throws("creating")
  /\ HasCommit
  /\ UNCHANGED <<policy, run, disk, signal, history>>

NotResumable ==
  /\ ~Resumable
  /\ Moves("preparing", "creating")
  /\ UNCHANGED <<policy, run, disk, mem, signal, history>>

Reopen ==
  /\ Resumable
  /\ ~HasCommit
  /\ Moves("preparing", IF Opened.change = executor.change THEN "finished" ELSE "creating")
  /\ worktree' = Opened
  /\ mem' = [mem EXCEPT !.handle = TRUE]
  /\ UNCHANGED <<policy, run, branch, record, checkpoints, sealed, signal, history>>

Prepare == WorktreeRefused \/ NotResumable \/ Reopen

-----------------------------------------------------------------------------
\* TaskExecutionCoordinator.execute

CancelledBeforeStart ==
  /\ signal
  /\ Throws("creating")
  /\ UNCHANGED <<policy, run, disk, signal, history>>

Create ==
  /\ ~signal
  /\ ~HasCommit
  /\ Moves("creating", "opening")
  /\ worktree' = Opened
  /\ UNCHANGED <<policy, run, branch, record, checkpoints, sealed, mem, signal, history>>

\* The failure path saves its checkpoint first.
Abandons(from, outcome) ==
  /\ Moves(from, "abandoning")
  /\ mem' = [mem EXCEPT !.outcome = outcome]
  /\ executor' = [stage |-> "stopped", change |-> None]

OpenedOverBudget ==
  /\ Stop(mem.ledger)
  /\ Abandons("opening", "budget")
  /\ UNCHANGED <<policy, run, git, record, gate, repair, sealed, signal, history>>

DriverStarts ==
  /\ ~Stop(mem.ledger)
  /\ Moves("opening", "driving")
  /\ executor' = [stage |-> "driving", change |-> None]
  /\ executions' = executions + 1
  /\ UNCHANGED <<policy, run, git, record, gate, repair, sealed, mem, signal>>
  /\ UNCHANGED <<used, passed, interruptions, excused>>

DriverWrites(c) ==
  /\ pc = "driving"
  /\ worktree' = [worktree EXCEPT !.change = c]
  /\ UNCHANGED <<policy, run, branch, record, checkpoints, sealed, process, history>>

\* Nothing keeps a driver from running git commit in its worktree.
DriverCommits ==
  /\ pc = "driving"
  /\ worktree' = [worktree EXCEPT !.head = Foreign]
  /\ UNCHANGED <<policy, run, branch, record, checkpoints, sealed, process, history>>

\* Mutant: the ledger reaches the repair state only when the loop saves it.
MeteredLate(ledger) == repair

\* recordingMeter: what a usage event spent is on the repair state before the
\* next event is read, and the stage and the attempts stay as the loop left them.
Metered(ledger) == [repair EXCEPT !.ledger = ledger,
                                  !.stage = IF @ = "none" THEN "repair" ELSE @]

\* stopForBudget: its checkpoint replaces the driver's.
BudgetCheckpoint(ledger) == IF Stop(ledger) THEN [stage |-> "stopped", change |-> None] ELSE executor

DriverSpends ==
  LET spent == mem.ledger.spent + 1
      ledger == [spent |-> spent, stopped |-> mem.ledger.stopped \/ spent >= Threshold]
  IN /\ pc = "driving"
     /\ used < MaxSpend
     /\ used' = used + 1
     /\ mem' = [mem EXCEPT !.ledger = ledger]
     /\ repair' = Metered(ledger)
     /\ executor' = BudgetCheckpoint(ledger)
     /\ UNCHANGED <<policy, run, git, record, gate, sealed, pc, signal>>
     /\ UNCHANGED <<executions, passed, interruptions, excused>>

\* The duration ceiling is reached while the run prepares, drives or gates.
TimeRunsOut ==
  /\ pc \in {"opening", "driving", "gating"}
  /\ ~mem.ledger.stopped
  /\ mem' = [mem EXCEPT !.ledger.stopped = TRUE]
  /\ executor' = IF pc = "driving" THEN BudgetCheckpoint(mem'.ledger) ELSE executor
  /\ UNCHANGED <<policy, run, git, record, gate, repair, sealed, pc, signal, history>>

\* #inspected refuses what a driver committed.
DriverCompletes ==
  /\ ~Stop(mem.ledger)
  /\ ~signal
  /\ ~HasCommit
  /\ Moves("driving", "finished")
  /\ executor' = [stage |-> "awaiting-gate", change |-> worktree.change]
  /\ mem' = [mem EXCEPT !.handle = TRUE]
  /\ UNCHANGED <<policy, run, git, record, gate, repair, sealed, signal, history>>

DriverSuspends ==
  /\ ~Stop(mem.ledger)
  /\ ~signal
  /\ ~HasCommit
  /\ interruptions < MaxInterruptions
  /\ Moves("driving", "suspending")
  /\ executor' = [stage |-> "suspended", change |-> worktree.change]
  /\ interruptions' = interruptions + 1
  /\ excused' = excused + 1
  /\ UNCHANGED <<policy, run, git, record, gate, repair, sealed, mem, signal>>
  /\ UNCHANGED <<executions, used, passed>>

Suspend ==
  /\ Moves("suspending", "down")
  /\ repair' = Saved("repair")
  /\ UNCHANGED <<policy, run, git, record, executor, gate, sealed, mem, signal, history>>

\* The driver fails, or its worktree is refused (a commit of its own).  The
\* budget stop outlives the driver's own report.
DriverFails ==
  /\ \E outcome \in {"throw", "cancel"} :
       Abandons("driving", IF Stop(mem.ledger) THEN "budget" ELSE outcome)
  /\ UNCHANGED <<policy, run, git, record, gate, repair, sealed, signal, history>>

\* A cleanup that fails is left for later, as one of a foreign commit does.
Abandon ==
  /\ Moves("abandoning", IF mem.outcome = "budget" THEN "sealing" ELSE "stopping")
  /\ worktree' \in {None, worktree}
  /\ HasCommit => UNCHANGED worktree
  /\ UNCHANGED <<policy, run, branch, record, checkpoints, sealed, mem, signal, history>>

Execute == \/ CancelledBeforeStart
           \/ Create
           \/ OpenedOverBudget
           \/ DriverStarts
           \/ DriverCompletes
           \/ DriverSuspends
           \/ Suspend
           \/ DriverFails
           \/ Abandon

-----------------------------------------------------------------------------
\* TaskGateCommitCoordinator.execute

\* #attempt reads the signal once more before the gates.
ReachGate ==
  /\ IF signal THEN Throws("finished") ELSE Moves("finished", "gating") /\ UNCHANGED mem
  /\ UNCHANGED <<policy, run, disk, signal, history>>

\* #normalizePrior: passed gates of another change are not this attempt's.
PriorHolds ==
  gate.stage \in {"gates-passed", "commit-uncertain"} => gate.change = executor.change

GateRefused ==
  /\ Throws("gating")
  /\ ~PriorHolds \/ worktree.change = Clean
  /\ UNCHANGED <<policy, run, disk, signal, history>>

Judging == pc \in {"gating", "spoiled"} /\ PriorHolds /\ worktree.change # Clean

GatesFail ==
  /\ Judging
  /\ \/ Moves("gating", "sealing")
     \/ Moves("spoiled", "sealing")
  /\ mem' = [mem EXCEPT !.outcome = "failed"]
  /\ gate' = [stage |-> "gate-failed", change |-> executor.change]
  /\ UNCHANGED <<policy, run, git, record, executor, repair, sealed, signal, history>>

\* A gate command writes to the worktree it judges.
GateWrites(c) ==
  /\ Judging
  /\ c # worktree.change
  /\ Moves("gating", "spoiled")
  /\ worktree' = [worktree EXCEPT !.change = c]
  /\ UNCHANGED <<policy, run, branch, record, checkpoints, sealed, mem, signal, history>>

\* A gate command commits in the worktree it judges.
GateMakesCommit ==
  /\ Judging
  /\ Moves("gating", "spoiled")
  /\ worktree' = [worktree EXCEPT !.head = Foreign]
  /\ UNCHANGED <<policy, run, branch, record, checkpoints, sealed, mem, signal, history>>

\* The second inspection finds a commit, or another change than the gates were
\* run for.
DriftFound ==
  /\ Throws("spoiled")
  /\ UNCHANGED <<policy, run, disk, signal, history>>

GatesPass ==
  /\ Judging
  /\ Moves("gating", "gated")
  /\ gate' = [stage |-> "gates-passed", change |-> executor.change]
  /\ passed' = passed \cup {worktree.change}
  /\ UNCHANGED <<policy, run, git, record, executor, repair, sealed, mem, signal>>
  /\ UNCHANGED <<executions, used, interruptions, excused>>

CommitTask ==
  /\ Moves("gated", "committed")
  /\ worktree' = [worktree EXCEPT !.head = executions]
  /\ UNCHANGED <<policy, run, branch, record, checkpoints, sealed, mem, signal, history>>

\* commitAtomic fails, and git has the commit or has not.
CommitFails ==
  /\ Moves("gated", "uncertain")
  /\ \/ UNCHANGED worktree
     \/ worktree' = [worktree EXCEPT !.head = executions]
  /\ UNCHANGED <<policy, run, branch, record, checkpoints, sealed, mem, signal, history>>

SaveUncertain ==
  /\ Throws("uncertain")
  /\ gate' = [stage |-> "commit-uncertain", change |-> executor.change]
  /\ UNCHANGED <<policy, run, git, record, executor, repair, sealed, signal, history>>

SaveCommitted ==
  /\ Moves("committed", "anchoring")
  /\ gate' = [stage |-> "committed", change |-> executor.change]
  /\ UNCHANGED <<policy, run, git, record, executor, repair, sealed, mem, signal, history>>

\* cleanup anchors the commit on the task branch and removes the worktree.
Anchor ==
  /\ Moves("anchoring", "removing")
  /\ Anchorable
  /\ branch' = worktree
  /\ UNCHANGED <<policy, run, worktree, record, checkpoints, sealed, mem, signal, history>>

AnchorRefused ==
  /\ Throws("anchoring")
  /\ ~Anchorable
  /\ UNCHANGED <<policy, run, disk, signal, history>>

RemoveWorktree ==
  /\ Moves("removing", "recording")
  /\ worktree' = None
  /\ UNCHANGED <<policy, run, branch, record, checkpoints, sealed, mem, signal, history>>

SaveCommit ==
  /\ Moves("recording", "sealing")
  /\ mem' = [mem EXCEPT !.outcome = "passed"]
  /\ record' = executor.change
  /\ UNCHANGED <<policy, run, git, checkpoints, sealed, signal, history>>

\* A port refuses: the approval or the lease is stale, or an operation fails.
PortFails ==
  /\ \E from \in {"preparing", "creating", "gating", "anchoring", "removing"} : Throws(from)
  /\ UNCHANGED <<policy, run, disk, signal, history>>

GateAndCommit == \/ ReachGate
                 \/ GateRefused
                 \/ GatesFail
                 \/ DriftFound
                 \/ GatesPass
                 \/ CommitTask
                 \/ CommitFails
                 \/ SaveUncertain
                 \/ SaveCommitted
                 \/ Anchor
                 \/ AnchorRefused
                 \/ RemoveWorktree
                 \/ SaveCommit

-----------------------------------------------------------------------------
\* sealAndRecord and what the loop does after an attempt

SealAttempt ==
  /\ Moves("sealing", "deciding")
  /\ sealed' = [sealed EXCEPT ![Attempts + 1] = executions]
  /\ mem' = [mem EXCEPT !.chain = Append(@, executions), !.failed = mem.outcome # "passed"]
  /\ UNCHANGED <<policy, run, git, record, checkpoints, signal, history>>

Converged ==
  /\ mem.outcome = "passed"
  /\ Moves("deciding", "verifying")
  /\ repair' = Saved("converged")
  /\ UNCHANGED <<policy, run, git, record, executor, gate, sealed, mem, signal, history>>

\* The budget outcome wins over escalation.
AttemptOverBudget ==
  /\ mem.outcome # "passed"
  /\ Stop(mem.ledger)
  /\ Moves("deciding", "stopping")
  /\ mem' = [mem EXCEPT !.outcome = "stop"]
  /\ repair' = Saved("budget-exceeded")
  /\ UNCHANGED <<policy, run, git, record, executor, gate, sealed, signal, history>>

Retrying == mem.outcome # "passed" /\ ~Stop(mem.ledger)

\* Mutant: one attempt more before a human is asked.
MustEscalateLate == policy.declared /\ Attempts > policy.escalate /\ Attempts < policy.max

MustEscalate == policy.declared /\ Attempts >= policy.escalate /\ Attempts < policy.max

Escalated ==
  /\ Retrying
  /\ MustEscalate
  /\ Moves("deciding", "down")
  /\ repair' = Saved("escalated")
  /\ UNCHANGED <<policy, run, git, record, executor, gate, sealed, mem, signal, history>>

\* The state after the last attempt is left to the end of the loop.
Retry ==
  /\ Retrying
  /\ ~MustEscalate
  /\ Moves("deciding", "looping")
  /\ repair' = IF Attempts < policy.max THEN Saved("repair") ELSE repair
  /\ UNCHANGED <<policy, run, git, record, executor, gate, sealed, mem, signal, history>>

AfterAttempt == SealAttempt \/ Converged \/ AttemptOverBudget \/ Escalated \/ Retry

-----------------------------------------------------------------------------
\* #fail and #terminal

\* release: a worktree this process knows goes, its commit anchored first.
Release ==
  /\ Moves("stopping", "ending")
  /\ IF mem.handle /\ record = None /\ worktree # None /\ (HasCommit => Anchorable)
     THEN /\ branch' = IF HasCommit THEN worktree ELSE branch
          /\ worktree' = None
     ELSE UNCHANGED git
  /\ UNCHANGED <<policy, run, record, checkpoints, sealed, mem, signal, history>>

End ==
  /\ Moves("ending", "down")
  /\ run' = IF mem.outcome = "cancel" \/ (mem.outcome = "throw" /\ signal) THEN "ABORTED" ELSE "FAILED"
  /\ UNCHANGED <<policy, disk, mem, signal, history>>

-----------------------------------------------------------------------------
\* What happens to a process, and to the worktree between two of them

Cancel ==
  /\ pc # "down"
  /\ ~signal
  /\ signal' = TRUE
  /\ UNCHANGED <<policy, run, disk, pc, mem, history>>

\* Until a driver starts, and from its last checkpoint to the commit record,
\* a death costs no driver session, unless the attempt left the very change the
\* attempt before it failed its gates with: its checkpoint is then taken for
\* that one's.
Resumes == {"entering", "recovering", "verifying", "preparing", "creating", "opening", "finished",
            "gating", "gated", "committed", "anchoring", "removing", "recording"}

CostsNothing == pc \in Resumes /\ (pc \in {"finished", "gating"} => Resumable)

Die ==
  /\ pc # "down"
  /\ interruptions < MaxInterruptions
  /\ pc' = "down"
  /\ mem' = Fresh
  /\ signal' = FALSE
  /\ interruptions' = interruptions + 1
  /\ excused' = IF CostsNothing THEN excused ELSE excused + 1
  /\ UNCHANGED <<policy, run, disk, executions, used, passed>>

\* Somebody edits the worktree no process works in.
EditByHand(c) ==
  /\ pc = "down"
  /\ run = "IMPLEMENTING"
  /\ interruptions < MaxInterruptions
  /\ worktree # None
  /\ worktree.head = 0
  /\ c # worktree.change
  /\ worktree' = [worktree EXCEPT !.change = c]
  /\ interruptions' = interruptions + 1
  /\ excused' = excused + 1
  /\ UNCHANGED <<policy, run, branch, record, checkpoints, sealed, process>>
  /\ UNCHANGED <<executions, used, passed>>

\* Steps the process takes by itself once they are due.
Continue == \/ Enter
            \/ RecordRecovered
            \/ StartVerification
            \/ Loop
            \/ Prepare
            \/ Execute
            \/ GateAndCommit
            \/ AfterAttempt
            \/ Release
            \/ End

Next ==
  \/ Start
  \/ Continue
  \/ \E c \in Changes : DriverWrites(c) \/ GateWrites(c) \/ EditByHand(c)
  \/ DriverCommits
  \/ GateMakesCommit
  \/ DriverSpends
  \/ TimeRunsOut
  \/ PortFails
  \/ Cancel
  \/ Die

Spec == Init /\ [][Next]_vars

\* A process at work takes its next step, a driver session ends (the duration
\* timer cancels one that does not), and somebody resumes a stopped run.
FairSpec == Spec /\ WF_vars(Start) /\ WF_vars(Continue)

-----------------------------------------------------------------------------
Stages == {"down", "looping", "driving", "suspending", "abandoning", "spoiled", "uncertain", "sealing",
           "deciding", "stopping", "ending"} \cup Resumes

Work == Changes \cup {Clean, None}

Executors == [stage : {"none", "driving", "stopped", "awaiting-gate", "suspended"}, change : Work]

Gates == [stage : {"none", "gate-failed", "gates-passed", "commit-uncertain", "committed"}, change : Work]

Ledgers == [spent : Nat, stopped : BOOLEAN]

RepairStages == {"none", "repair", "escalated", "converged", "gate-failed", "budget-exceeded"}

Repairs == [stage : RepairStages, chain : Seq(Nat), ledger : Ledgers]

Outcomes == {"none", "passed", "failed", "budget", "throw", "cancel", "stop"}

Memories == [chain : Seq(Nat), ledger : Ledgers, failed : BOOLEAN, handle : BOOLEAN, outcome : Outcomes]

TypeOK ==
  /\ policy \in RepairPolicies
  /\ run \in {"IMPLEMENTING", "VERIFYING", "FAILED", "ABORTED"}
  /\ worktree \in Worktrees \cup {None}
  /\ branch \in Worktrees \cup {None}
  /\ record \in Changes \cup {None}
  /\ executor \in Executors
  /\ gate \in Gates
  /\ repair \in Repairs
  /\ sealed \in [1..5 -> Nat]
  /\ pc \in Stages
  /\ mem \in Memories
  /\ signal \in BOOLEAN
  /\ executions \in Nat
  /\ used \in Nat
  /\ passed \subseteq Changes
  /\ interruptions \in 0..MaxInterruptions
  /\ excused \in 0..MaxInterruptions

\* Whoever commits in the worktree, a driver and a gate included, the commit
\* the coordinator makes is of the change the last driver session left, and that
\* change passed its gates; only such a commit reaches the task branch, and one
\* is recorded only once the branch holds it: whichever processes died, and
\* whatever was edited on the way.
CommitsAreEarned ==
  /\ HasTaskCommit => /\ executor = [stage |-> "awaiting-gate", change |-> worktree.change]
                      /\ worktree.change \in passed
  /\ branch # None => branch.head # Foreign /\ branch.change \in passed
  /\ record # None => branch # None /\ branch.change = record

\* A run starts no more driver sessions than its policy allows before a human
\* decides, one more for each interruption that cost a session's work: a death
\* between the driver's end and the commit record never buys another session.
ExecutionsAreEarned == executions <= policy.escalate + excused

\* The repair state carries all the usage the drivers of the run reported,
\* whichever process reported it and whatever was saved since, and its chain
\* names the capsules on disk: an attempt that is repeated after a death never
\* replaces one the chain already names.
SpendIsKept == repair.ledger.spent = used

AttemptsAreChained ==
  /\ Len(repair.chain) <= policy.max
  /\ \A n \in DOMAIN repair.chain : sealed[n] = repair.chain[n]

RepairStateIsTrue == SpendIsKept /\ AttemptsAreChained

\* No driver session starts once the run has spent up to its threshold.
DriversStartInBudget == [][executions' > executions => used < Threshold]_vars

\* A run that is resumed as often as it stops does not work for ever: it is
\* verified or it ends, unless it waits for a human, escalated or with a
\* suspension whose worktree was changed.
RunsSettle == <>[](run # "IMPLEMENTING" \/ repair.stage = "escalated" \/ ~SuspensionHolds)

\* A run whose task commit was made does not fail: the checkpoints and the
\* commit's trailers converge to it.
CommittedRunsDoNotFail == run = "FAILED" => branch = None /\ ~HasTaskCommit
=============================================================================
