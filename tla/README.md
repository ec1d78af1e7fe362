# Verchestra in TLA+

Verchestra runs governed delivery work. A run is planned, approved by a human, implemented by an AI driver inside a
git worktree, gated, committed, verified by somebody other than its author and reviewed by a human. It does this with
short-lived command-line processes that share one SQLite database, a directory of marker files, a git repository and
some remote services. No server keeps order between them. Every process may be killed, and what it leaves must make
sense to the next one. This directory models those parts, checks them with TLC and proves what matters most with TLAPS.

All source paths below are relative to `src/`. `PROJECT.json` maps every definition to the lines it stands for, and lists
the runs, the mutants that each property must catch, the hazards and the findings.

## 1. Inventory

The first column of each list entry is the component. *State* is what it keeps, *operations* what changes it, *hard* what
a test would hardly reach, *correct* what must hold.

### Modelled

**Workflow machine** (`packages/domain/src/workflow/workflow-machine.ts`). A pure function from a run's state and a
command to an accepted successor or a refusal. *State*: none of its own; it reads the workflow state, version, run
kind, binding digests, repair count and implementer of a run. *Operations*: `decideWorkflowCommand`, `transition`,
`createHandoffSuccessor`. *Correct*: its callers decide on a row they read earlier, so everything it promises has to
survive the interleavings of the run store.

**Run store** (`packages/platform-node/src/runtime-store/runtime-store.ts`, `apps/vestra-cli/src/task/task-workflow.ts`).
*State*: tables `runs`, `state_events`, `run_capsule_seals`. *Operations*: create, read, apply a transition by compare
and set, seal a capsule. *Interacts*: every command of the CLI goes through it. *Hard*: a process reads, another one
writes, the first one decides on what it read; a process dies between any two of these. *Correct*: work only under an
approval of the current binding; log and projection agree; ended runs never reopen, a handed-off one included.

**Effect kernel** (`packages/effects/src/effect-kernel.ts`, `runtime-store/effect-repository.ts`, the projection adapter
of `packages/connectors/src/jira/jira.ts`). *State*: intents, receipts, attempts; the remote issue. *Operations*: plan,
execute, reconcile. *Hard*: a lost acknowledgement, a request that arrives after its caller gave up, a reconciliation
racing an execution, a human who edits the issue. *Correct*: a projection is written at most once, a receipt exists only
for a write, a human's edit is not overwritten.

**Work claims** (`packages/application/src/coordination/work-claims.ts`, the `leases` table, a remote claim service).
*State*: one lease row per machine, one remote claim, what each process believes it holds. *Operations*: acquire,
heartbeat, release, in the personal, enforced and advisory modes. *Hard*: time passes across every await; leases expire
under their holder; a local lease is taken before the remote claim and must be given back when that fails. *Correct*: one
writer per machine and per scope among unexpired holders; a live claim never outlives its lease.

**Task commands** (`apps/vestra-cli/src/task/*`, `packages/application/src/execution/task-run.ts`). *State*: the marker
`active.json`, the request `cancel.json`, the worktree and the file naming it, the task commit, its branch and record, the
workspace lease, the workflow state. *Operations*: start, resume, cancel, review, each a process. *Hard*: two commands on
one run, a cancel that meets a start, a death anywhere and the resume after it. *Correct*: one driver per run, one writer per
workspace, no commit lost, nothing verified that is not recorded, a cancel stops the driver.

**Gated attempts** (`packages/application/src/execution/gate-repair.ts`, `task-executor.ts`, `gate-commit.ts`,
`budget-meter.ts`, composed by `apps/vestra-cli/src/task/task-run.ts`). *State*: executor checkpoint, gate checkpoint, repair
state with its chain of attempts and the spent ledger, sealed attempt capsules, worktree, branch, commit record.
*Operations*: enter or recover, attempt, drive, suspend, gate, commit, anchor, record, seal, repair, escalate, give up.
*Hard*: every one of these is several durable writes, the process may die between any two, and somebody may edit the
worktree before the next one resumes. *Correct*: the committed change is the one that passed; a resumed run gets neither a
fresh budget nor fresh attempts; a run that is resumed as often as it stops comes to an end.

**Authority and capability broker** (`packages/application/src/authority/authority.ts`, `apps/vestra-cli/src/task/task-authority.ts`,
`task-approve.ts`). *State*: the approval's row, the grants' rows, the run's grant marker, the workspace policy. *Operations*: approve,
start, issue or renew a grant, check and run an effect, revoke. *Hard*: a check reads one row after the other while time
passes and somebody revokes; a grant is stored before the marker names it. *Correct*: nothing runs without authority that
held when it was asked for; no grant replaces one that was revoked; an approval that was cut short is finished.

**Task scheduler** (`packages/application/src/execution/task-scheduler.ts`). *State*: the status of every task of a graph, a
queue of settled executions. *Operations*: plan a round, record settlements, cancel. *Hard*: executions settle in any order
between two turns of one loop that sleeps on a promise. *Correct*: overlapping change scopes never run together,
dependencies first, nothing lost, nothing blocked without a cause.

**Memory lifecycle** (`packages/memory/src/memory-lifecycle.ts`). *State*: rows, references, legal holds and collection
receipts in SQLite; the bytes at their path or in quarantine; keys held by an external adapter; a promotion's canonical
file. *Operations*: register, refer, hold, plan and collect, invalidate, forget, promote. *Hard*: bytes move before their row
changes; several callers do so at once; what was checked may be protected by the time it is moved. *Correct*: a row says
where its bytes are, a receipt that its plan was carried out, a key that is gone belongs to a forgotten object.

**Workspace initialisation** (`packages/workspace/src/init/safe-init.ts`). *State*: the canonical files; a staging directory with
the new files, the backups and a journal. *Operations*: preview, apply, roll back, recover. *Hard*: a death or a failure between
any two file operations, also of the recovery, and a person who edits a file meanwhile. *Correct*: all files or none; what a
person wrote is never lost; a recovery can be repeated.

**Transactional activation** (`packages/distribution/src/transactional-activation.ts`, called by the launcher's
`apps/vestra-launcher/closure/node-activation-closure.ts`). *State*: in one install root, the lock file, the journal, staged
transactions, releases, the record of verified releases, the pointer to the active one. *Operations*: activate, roll back,
uninstall, purge, and the launcher's choice between the first two. *Hard*: each step is a file operation, a process may die
after any of them, and the lock of a dead owner is reclaimed by whoever finds it. *Correct*: the pointer names a whole,
recorded release; the journal tells the truth; a retry converges; one process changes the root at a time.

### Not modelled yet, planned

| Component | State | Operations | Hard | Correct when |
| --- | --- | --- | --- | --- |
| Coordinated implementer (`coordinated-driver.ts`, `coordination-ledger.ts`) | a ledger of node visits | step, suspend, replay | replay after a suspension | no node's effect twice |
| Runtime tables (`runtime-store.ts`: leases, sync state, policy views, checkpoints) | rows | compare-and-set writes | `releaseLease` in two statements | the owner's row only; generations grow |
| Handoff coordinator (`application/src/handoff/coordinator.ts`) | acceptance, continuation, publication progress | publish, accept, continue, reconcile | two workflow commands and one save | one acceptance; a retry finishes |
| Jira claims (`connectors/src/jira/jira.ts`) | a remote claim with a version | acquire, renew, release | foreign writers | one unexpired owner |
| Update client (`distribution/src/tuf-update-client.ts`) | trust bootstrap, partial downloads, receipts | bootstrap, stage | death between two exclusive creations | a second attempt succeeds |
| Driver sessions (`drivers/src/driver-session-ledger.ts`) | outcome, sequence, terminal flag | emit, cancel, close | a cancel that waits | one terminal event, last |
| Process trees (`platform-node/src/process-tree-terminator.ts`) | a tree of processes | stop, list, kill | forks during the sweep | nothing reachable survives |
| Verification, workspace synchronisation, policy activation | one row each | evaluate, save | stale reads | evaluated against a reference definition |

Left out for good: wire protocols of the four AI providers, database adapters, canonical forms, signatures, redaction,
retrieval scores, operating-system credential tools, generated contracts, release building, the site. They are data, byte
layouts or platform input and output without a protocol between actors. `PROJECT.json` lists each with its reason.

## 2. Modules

```
WorkflowMachine  <- RunStore        <- MCTaskRuns,                       RuntimeStoreProofs
EffectPromise    <= EffectKernel    <- MCEffectKernel,                   RuntimeStoreProofs   (<= : implemented by)
                    WorkClaims      <- MCSharedPlaces,                   ConcurrentWorkProofs
                    TaskScheduler   <- MCTaskExecution,                  ConcurrentWorkProofs
                    TaskDrive       <- MCTaskDrive,    MCTaskRuns,       TaskDriveProofs
                    TaskAttempts    <- MCTaskAttempts, MCTaskExecution,  TaskAttemptsProofs
                    TaskAuthority   <- MCTaskAuthority,                  TaskAuthorityProofs
                    Activation      <- MCActivation,   MCSharedPlaces,   ActivationProofs
                    MemoryLifecycle <- MCMemoryLifecycle,                MemoryLifecycleProofs
                    SafeInit        <- MCSafeInit,     MCSharedPlaces,   SafeInitProofs
```

Two proof modules hold the proofs of two components each: those of the two tables that every command writes, and those of
the two that keep concurrent work apart. Three MC modules put components side by side that one question joins: the records and
the commands of runs (MCTaskRuns), the attempts of one task and the schedule of several (MCTaskExecution), and what is shared
outside the records: the claim, the canonical files, the install root (MCSharedPlaces). A behaviour of such a run plays one
`part`; the others rest in a state they could be in, so that the run explores each component's states, and not their product.
The components share no variables; `StoreSpec`, `ScheduleSpec`, `ClaimsSpec` and `FilesSpec` have names of their own so
that they can be extended together.

The three modules about one task divide it as the code does. TaskDrive has the processes: who drives, who may end a run from
outside, what happens to the workspace lease. It leaves open what an attempt finds. TaskAttempts takes the one driving
process from there, and follows it through every checkpoint. TaskAuthority takes the same process and follows its
approval and its grants; an effect of a driver, and the commit, are where the two meet.

A component module declares its sets as CONSTANTS with named assumptions, one action per step between two awaits (or
two durable writes), and its properties as named formulas at the end. The MC module gives the constants values, and
puts parts side by side where a run has several.

**WorkflowMachine** has no variables. `WORKFLOW_DEFINITION` is the table of edges the code
builds, `ValidWorkflowDefinition` its validation; `Accepts` and the guards under it take a run and a command and say whether it
is accepted; `Transition` gives the next run, `HandoffSuccessor` a receiver's. Digests are members of a set, only some of them
canonical.

**RunStore** gives each process a snapshot (`loaded`). `Starts` says with which kinds and states a run may be created; the
CLI creates every run in EXECUTION_READY, and a successor is stored by `CreateSuccessor` only. `GetRun` reads, `ApplyWorkflow` decides on the snapshot and succeeds
only if the row still has the snapshot's version, and records the event in the same step, because the code does both in one
transaction. `Abandon` forgets the snapshot: the process died, or its command came to nothing.

**EffectKernel** gives each call a program counter between its awaits. A plan stands for its canonical projection, its key for
the digest under one of the two canonicalization versions. The issue carries the digest of what was written last, a version
and whether a human changed it. `late` holds writes whose caller gave up and that may still arrive. **EffectPromise** says
what a caller may rely on: the kernel's plans act on the issue like an atomic compare-and-set of each plan against the version
it was made for, among the edits people make, and a plan is acknowledged once, after its compare-and-set. `KeepsPromise` maps
the kernel onto it: the read, the request, its late arrival and the answer are steps apart in the kernel and one step there.

**WorkClaims** has a clock. A call remembers when it began and applies its expiry from then, as the code does. An *epoch* is a
history variable that counts uninterrupted tenures of a lease row; the table has no such column, and the properties need
to tell two tenures with the same token apart.

**TaskDrive** follows each command from its guards to its end; the names in `step` are the places where the process may be
overtaken or die. What an attempt or a gate finds is left open; opening the worktree, working in it, gating, committing,
anchoring the commit on its branch and recording it are steps of their own. Nothing orders the commands of one run: each looks
who drives it and acts on what it saw some awaits later, as in the code.

**TaskAttempts** has one process at work (`pc`, `mem`) and what it leaves on disk: worktree and branch, the commit record, the
latest executor, gate and repair checkpoints, the sealed capsules. A change is a name; `passed` remembers which ones their
gates passed. A driver or a gate may write to the worktree, and may commit in it: HEAD is then `Foreign`. `Enter` is the
decision of a command what the checkpoints call for, `Loop` the head of the repair loop, `Prepare` the shortcut to the gate,
`Execute` the executor, `GateAndCommit` the coordinator from the first inspection to the record,
`AfterAttempt` the sealing and the decision to retry. The three ceilings of a budget are one threshold on usage and a timer.
`excused` counts the interruptions that cost a driver session's work, so that `ExecutionsAreEarned` can say that the others do
not; `CostsNothing` names the places, and the one exception among them (section 3).

**TaskAuthority** has a clock and gives each process a memory of what it has read: a check is one step per row. The plan's
binding is abstracted to the policy it was made under. `mem[p].live` records, when a check begins, whether the approval and the
grant hold under the policy the process read when it started, and for a commit whether the approval does; `EffectsWereAuthorized`
says that no effect is reached otherwise. `Never` is later than any time.

**TaskScheduler** separates what executions do on their own (`Settle`) from the loop (`Turn`). A path of a change scope is
the set of places under it, so overlap is intersection. `Chosen` characterises what `planRound` selects rather than folding
over the tasks: the first ready tasks, in order, that conflict with nothing running and nothing chosen before them.

**MemoryLifecycle** plays a *scene*: what is stored, rooted, expired and encrypted, and one call per caller, repeated until it is
answered. The synchronous stretch between two awaits is one step, as in JavaScript. `Protected` is the closure of roots and
holds over the references, stated as the objects in every closed superset. A collection keeps its plan over deaths, as its
caller does. A registration looks for the row, looks for the bytes and writes them in steps of its own; `late` collects the
objects whose bytes it wrote after somebody else's row. `torn` collects the objects a fault left between two places: the
code has no repair for them.

**SafeInit** names contents (`"absent"`, `"old"`, `"edited"`, `"new"`) and gives each file operation a step. `human` is what a person
left at a target last, `base` what its new file was made from; both exist only for the properties, and so do `edited`, `exposed`
(targets edited where the code does not look again) and `failed` (targets that a failed rollback left as they were).

**Activation** has one process per command, and one step per file operation. `command` is fixed by `Init`, which takes one
of the assignments in `Scripts`; a *safe* command neither fails nor dies. `ReadLock`, `MoveLock`, `CompareLock` and
`RestoreLock` are the reclamation of a dead owner's lock; `Prepare` to `ClearJournal` the switch; `Deselect` to `Unrecord` the
removal. `Die` may follow any step, `Fault` is a failed operation with the code's own catch.

## 3. Runs

Each passing run is finished exhaustively by TLC within the stated bounds. For every property in it PROJECT.json names a
plausible bug of a mapped definition that makes TLC reject the property.

| Run | Instance | What it shows |
| --- | --- | --- |
| task_runs, records | one run and the one it may be handed off to, two processes, six versions, two digests, an implementer who also claims the verifier's role | log and projection agree (`LogMatchesRun`), work is under an approval (`WorkOnlyUnderApproval`), a completed run was reviewed by somebody else, nothing reopens or is renumbered |
| task_runs, commands | start and review of one run with two of: its resumption, its cancellation, the start of another run; in any interleaving, with deaths anywhere | no task commit is lost (`CommitsAreKept`), nothing unrecorded is verified (`VerifiedCommitsAreAnchored`) |
| effect_race | two calls, a create and an update of one issue made for the version after a possible human edit, two attempts each | one intent per identity, a write at most once, a receipt only for a write, no human edit overwritten, and the refinement of EffectPromise |
| task_execution, attempts | three policies (none, escalation at the first failure, escalation at the last), two changes, a threshold of two, two interruptions anywhere, drivers and gates that write or commit; fair | task commits are of passed changes and no other commit is anchored, attempts and budget survive every interruption, the repair state is true, resumed runs settle |
| task_execution, schedule | every graph and every scope over two places of three tasks; one to three slots; fair | scopes, causes of blocked tasks, every schedule ends |
| shared_places, claims | three runs, two on one machine, three instants, two grants | writers and claimants exclude each other while they are unexpired |
| shared_places, canonical | three files, of which two may exist; four deaths, failures or edits | human content survives, all or nothing, a cut-short transaction can be recovered |
| shared_places, installed | three commands, over any earlier installation: two activations and a launch; an activation, a rollback and a purge; a launch, an unbound rollback and an uninstallation; three attempts at one release, or two and a rollback to it, the last not interrupted | the pointer changes only under a journal, only whole and recorded releases active, `RetriesConverge` |
| memory | three callers over three objects: a collection, a forget and each other call; two collections; two or three forgets of one object whose key may fail to be destroyed; two registrations of one content beside its forget or collection; two promotions; two faults; fair | rows and receipts are true, protected objects stay, repeated calls converge |
| authority | two processes of one run, a clock past the approval's expiry, two deaths, suspensions, revocations or policy changes; fair | no effect or commit without authority, a true marker, no renewal of what was revoked, approvals converge |

The parts of a run were also checked one by one, with TLC's coverage, on the same instance: every action of every component
fires.

Why these bounds are enough. The properties relate two actors and one object; a third actor is added where the second
one's clean-up can be overtaken (claims, drive, activation, memory). Version and attempt bounds are the smallest that let
every loop close once and every limit be reached: a policy of two attempts has a first and a last one; a threshold of two
is reached by one session or by two. Six versions of a run reach its first repair and its review, not a repair limit over
many rounds. The commands of a run are four or fewer at a time because both their properties are also proved for any number
(section 5). Two runs of the store are one source and one successor, which is only stored: what it does
next is the first run's behaviour again. Two plans, one for a create and one for the update that follows, give every order
of two writes to one issue. Three tasks are the smallest graph with a diamond's half, a chain and an independent task. Three
files give a rollback a file before and a file after the one that failed. Two faults let a recovery be interrupted
itself; init has four, because an edit and three deaths are the shortest way to a recovery of a recovery that meets
somebody's file. What holds for larger instances is proved (section 5).

Type invariants (`TypeOK` of each module) are not listed with the runs; where a proof needs them they are part of the inductive
invariant.

### Findings

Six runs expect a violation. Each states what a document of the repository says, and TLC shows an execution of the code
that does otherwise. PROJECT.json quotes all of them.

| Run | Instance | What happens |
| --- | --- | --- |
| drive_leak | a start that dies while verifying, a resume, a review | A resumed verification takes the workspace lease and its run completes without releasing it. |
| drive_writers | start, two resumes and a cancel of one run, start of another | Two processes work between the opening of a worktree and its commit. A command's look for a driver and what it does about it are awaits apart (`task-run-record.ts:608-613`, `task-status.ts:193-206`), and the other one begins in between; `docs/quick-start.md:902` promises one writer. |
| attempts_lost_commit | the attempts of task_execution | When the acknowledgement of a commit or the checkpoint after it is lost, the run fails although git has the commit. `docs/qualification/t59-validation.md:36` promises that it converges; the coordinator has that path, the command cannot reach it, because the worktree is refused once its HEAD has left the base (`platform-node/src/git-worktree-adapter.ts:182-186`). |
| activation_owners | four activations of one release, one of which may die | A live owner's lock is moved aside by a process that judged its dead predecessor (`transactional-activation.ts:576`), a fourth command takes the path, and two own the lock, against the comment at lines 30-31. It takes the fourth command. |
| memory_forgets | two forgets of one object, one failure | The second resumes while the first waits for the key's destruction. When that fails the first takes the object back (`memory-lifecycle.ts:1211`), and the second destroys the key of an active object, against `docs/qualification/t53-validation.md:58`. |
| init_rollback | three files, two failures | A rollback fails half-way and the `finally` removes the backups (`safe-init.ts:464-470`): old and new files stay side by side, against `docs/qualification/t20-validation.md:38`. |

Other places where the code and its documents differ, met while modelling and not run. Paths are below `packages/` unless
they begin with `docs/` or `apps/`.

* Tokens of the lease table start again at 1 after a release (`runtime-store.ts:966`), so a stalled process can renew somebody
  else's tenure; `docs/qualification/t26-validation.md:48` excludes that.
* A death between the checkpoint of failed gates and the repair state that says escalated makes the next process try again
  (`application/src/execution/gate-repair.ts:336-338`): the loop reads the state of the attempt before.
* An attempt that leaves the very change the previous one failed its gates with, followed by a death before its own gate, is
  driven again (`apps/vestra-cli/src/task/task-run.ts:601-602`): its checkpoint is taken for the other one's. `CostsNothing` excepts it.
* A run that dies after its release anchored the commit and before the workflow command that ends it can be implemented
  again beside the anchored commit.
* A running process keeps the policy it read first, where the comment at `apps/vestra-cli/src/task/task-authority.ts:124-126` speaks of the
  policy view in force now: a changed policy stops the next process, not this one.
* An approval found by a later approve is not looked at again: an expired or revoked one authorises the run, and start
  then refuses. A death between a grant's row and its marker leaves a second live grant of one run, against the comment at
  `apps/vestra-cli/src/task/task-run.ts:445`. A revocation between the load of a grant and the storing of its successor is not
  noticed; `RevocationsStick` speaks of revocations before that decision.
* A legal hold placed on an object after a forget has quarantined it does not stop the resumed forget from destroying its
  key; `docs/qualification/t53-validation.md:29` says that legal holds survive.
* A registration that found neither row nor bytes writes the bytes after another one registered the same content and had it
  forgotten or collected (`memory/src/memory-lifecycle.ts:765-798`): readable bytes lie beside a quarantined row.
* A process that dies between the move of an object's bytes and its row leaves an active row without bytes, for good
  (`memory/src/memory-lifecycle.ts:970-1063`).
* A rollback of an initialisation compares no contents: an edit made to a file it published is deleted. A death while the staging
  directory of a complete transaction is removed leaves a conflict that recovery cannot resolve (`workspace/src/init/safe-init.ts:377`),
  against `docs/qualification/t20-validation.md:39-41`. Outside the tests nothing calls `recover`.

## 4. Liveness and fairness

Each liveness property is checked under weak fairness of steps a living process takes by itself. A process that dies has no
obligation; deaths and failures are never fair and are bounded, which is what "eventually" is relative to.

| Property | Specification | What is fair, and why |
| --- | --- | --- |
| `RunsSettle` | TaskAttempts (MCTaskExecution) | `Continue`, the process at work; `Start`, somebody who resumes a run that stopped. A driver session ends because the duration timer cancels one that does not. |
| `ApprovalsConverge` | TaskAuthority | each process's `Approves` and `Drives`: approve and start are repeated until they succeed or are refused for good. |
| `SchedulesEnd` | TaskScheduler (MCTaskExecution) | `Begin` and `Turn`, the loop that runs whenever its promise is resolved, and each `Settle`, which the executor's time limits ensure. `Abort` is not fair. |
| `CallsConverge` | MemoryLifecycle | each caller's `Works`: a caller repeats its call until it is answered. |

`ExecutionSpec` has the fairness of both of its parts; a part that rests is never enabled. SafeInit states no liveness: nothing in the
program calls `recover`, so `RecoveryIsOpen` says that a recovery would not be refused, and not that it happens. No strong
fairness is assumed anywhere. Everything else is safety.

## 5. Proofs

| Module | Theorems | Inductive argument |
| --- | --- | --- |
| RuntimeStoreProofs, run store | `TypeCorrect`, `ApprovalTheorem`, `EndedTheorem`, `LogTheorem`, `ReviewTheorem` | A snapshot is a state its row really was in: its version is at most the row's, and equal versions mean equal rows. So what the machine decides on a snapshot with the current version it decides on the row. `LogInv` adds that each log is finite, so that its repair requests can be counted against the row. `WayInv` says, for each state on the way to review, which events the log must already hold (a grant nothing has voided, the last implementation after it, a pass by another actor after that); one lemma about the edges and one per event that may be appended show that no command skips a part. |
| RuntimeStoreProofs, effect kernel | `ReceiptTheorem`, `WriteOnceTheorem`, `IdentityTheorem`, `HistoryTheorem`, `PromiseTheorem` | The number of writes of a projection is tied to the issue's version: a write needs the base version, and a version once passed does not come back. Every path to a receipt carries evidence of the write with it. `PromiseTheorem` maps each step to one compare-and-set, one edit, one acknowledgement or a stutter. |
| ConcurrentWorkProofs, claims | `LocalWriterTheorem`, `ClaimantTheorem`, `ProtectionTheorem` | An unexpired reference held by a session agrees with the row in owner and epoch; an unexpired claim agrees with the remote claim; claims expire no later than their lease. |
| ConcurrentWorkProofs, scheduler | `ScopeTheorem`, `DependencyTheorem`, `BlockedTheorem`, `WakeTheorem`, `EndTheorem` | The running set never conflicts and only grows by a chosen set; a completed task's dependencies are complete; while anything is pending in a clean schedule, something runs or is ready, by well-foundedness of the graph. The last two are the safety part of `SchedulesEnd`: a task whose settlement has not been drained keeps the promise resolved, a loop that waits has an unsettled execution, and the executions yet to settle bound what is left to do. |
| TaskDriveProofs | `CommitTheorem`, `VerifiedTheorem` | The records of a commit are written in an order in which each implies the ones before, and a process between two of them knows the ones it wrote. Neither needs one process to be alone with its run. |
| TaskAttemptsProofs | `RepairTheorem`, `BudgetTheorem`, `CommitTheorem`, `SessionTheorem` | Three invariants. `LedgerInv`: inside the loop the memory knows all the usage and extends the chain on disk, so any of its saves is true, and a capsule is sealed past the end of every saved chain. `CommitInv`: from the executor's last checkpoint to the commit nothing but a gate touches the worktree, whether it writes or commits, and that is found out; a driver's commit is found before the checkpoint; a committed checkpoint names a passed change that is in the worktree or on the branch. `EarnedInv`: the sessions so far are entries of the chain on disk, excused interruptions, or the one at hand, and a step that may start another one has room for it. |
| TaskAuthorityProofs | `AuthorityTyped`, `EffectTheorem`, `ChainTheorem`, `FitTheorem` | What a process has read is still so, or can no longer become so again: rows only fade. So a check that began without a live approval or grant meets the missing part at its last reading of it. The marker changes under one process only, which knows the grant it is about to name. |
| ActivationProofs | `WholeTheorem`, `GuardTheorem`, `RetryTheorem` | Files: only the holder of the lock touches them, so what it found or made stays true until its next step. `StageIsTrue` says what that is for each step: the release is installed and trusted before the switch, nothing is selected while the releases are removed, and the journal is the holder's own or absent after the first step. Retries: while all commands are about one release, `Shared` says what an interrupted one can leave (nothing of the release or all of it, no foreign journal), and `Progress` what a later one has established at each of its steps. |
| MemoryLifecycleProofs | `BytesTheorem`, `RowsTheorem`, `ReceiptsTheorem`, `ProtectionTheorem` | What a caller has moved is in its hand. An object in a hand is active, in quarantine and in no other hand; whatever is in no hand and not torn is where its row says. So nobody else finds the bytes of an object in a hand, and only its caller marks the row. A late registration breaks this for its object, so the invariant says it of the others, and says of all that no bytes are lost and that an active object has its bytes at their path or in a hand. What a caller has moved and what it has left are together the candidates it was allowed, none of them protected then; so a receipt names exactly what its transaction quarantined, and only forgets take an object back. |
| SafeInitProofs | `HumanTheorem`, `WholeTheorem`, `OpenTheorem` | `HumanInv`: the new file of a target knows what it was made from; while something may still be undone, what a person left is at the target, or in the backup with an undo that returns it. `Together`: while nobody edits and no rollback has failed, what is still staged is as planned, what is not to be undone any more is as planned too, and where neither journal nor undo is left every target is old or every target is new. `Opens`: under the same condition, each target of a journal is in one of the states a recovery knows. |

Each follows the same plan. The invariant of a run is strengthened to an inductive one, which TLC checked first; a lemma per
action shows it is preserved, one step per conjunct the action disturbs; frame lemmas dispose of the rest; the last step is
temporal. Assumptions besides the constants' types:

* ConcurrentWorkProofs, claims: `OneSessionPerRun`, one process works for a run. Where two do, the property speaks of their owner only,
  and two processes of one run can renew each other's tenure (section 3).
* TaskDriveProofs: none.
* TaskAttemptsProofs: none, any policies with a limit of at most five attempts, which is what the code accepts.
* ActivationProofs: `[]OneOwner`, the lock excludes. Four commands and a death can break it (the run activation_owners), and nothing is
  claimed of what happens then.
* MemoryLifecycleProofs: none; any scenes and any number of callers and faults.
* SafeInitProofs: none beside the number of files, of which any may exist before.

Only model-checked: the four liveness properties, which are out of the prover's reach. Of `SchedulesEnd` the proofs have all but
the last step: something is always left to wait for (`WakeTheorem`) and it gets less (`EndTheorem`); that a round can always be
chosen, an induction over the ready tasks, and that fairness makes an end of it stay with TLC. Every other property of every
passing run is proved, under the assumptions above.

## 6. What is abstracted

Digests, identifiers and payloads are model values; equality is all that is used. Evidence attached to commands is taken
as present where the CLI always attaches it. SQLite transactions are atomic, and a statement outside a transaction is
one step. Renames are atomic. Clocks of different machines agree in WorkClaims. A killed process does nothing more, but
a request it sent may still arrive. Tampering with files or rows is not modelled: the code refuses such content, and no
property is about it.

By module:

* TaskAttempts: one process at a time, which TaskDrive's markers arrange unless two commands meet in the windows of drive_writers.
  A gate plan is one verdict. Paths and change scopes are part of a change's name. The tools a driver calls are in TaskAuthority. The commits of a driver or a gate are one kind, `Foreign`: none of
  them carries the task's trailers.
* TaskAuthority: the approved policy allows the task. A policy file is read once by a process. No command revokes; revocation
  through the interface of the library is a fault. A commit is checked for its approval only, as in
  the code. The time between the last check and the effect is not closed by the code
  (`authority.ts:600`), so the property speaks of the check.
* MemoryLifecycle: sizes are one. The crypto-shred adapter is external: it destroys a key or fails, and destroying twice is
  harmless. The time between a protection check and
  the moves it allows is the code's own; `guarded` remembers the check. A promotion's rename replaces what appeared after the second
  look. `RowsAreTrue` excepts two things: an object in `torn` may be active without bytes at its path, and one in `late` may have bytes
  in both places. Of both it still claims that the bytes exist.
* SafeInit: one process works on a control root; concurrent applies, or a recovery beside a live apply, are not kept apart by
  the code. Contents are compared by name. `HumanContentSurvives` excepts `exposed` and `failed`, `AllOrNothing` and `RecoveryIsOpen` edits
  and failed rollbacks: what the code does there is told in section 3.
* Activation: signatures, health evidence and bundles are given. The record of verified releases is its set and its latest entry;
  the order of the others decides nothing.

## 7. Plan

Done: the workflow machine with its store, effects, claims, commands, attempts, authority, scheduler, activation, memory and
initialisation. Next, in this order:

1. **Proofs** of more than the runs ask: which windows of TaskDrive would have to be closed for the one driver that TaskAttempts and
   TaskAuthority take for granted; that a repeated call of MemoryLifecycle finds what an interrupted one left, as an invariant.
2. **RuntimeTables**: `releaseLease` in its two statements (`runtime-store.ts:960`), sync state compared before its transaction (`:414`),
   policy generations, checkpoints by sequence. Theorem: generations and sequences grow by one.
3. **Handoff** over RunStore's machine: two workflow commands and one save (`handoff/coordinator.ts:738`); **JiraClaims** as the
   remote service of WorkClaims, with a write whose answer is refused (`connectors/src/jira/jira.ts:536`).
4. **DriverSessions**, **ProcessTree**, **UpdateStage**, **Coordination**.
5. Workspace synchronisation and verification as operators against reference definitions.

Hazards known and not covered yet, beside those of the planned modules: drivers that stop on request while their process
lives (`apps/vestra-cli/src/task/task-run.ts:803`), the repair limit over long runs (`domain/src/workflow/workflow-machine.ts:463`), the slots of
a schedule under cancellation (`task-scheduler.ts:511`).
