------------------------------ MODULE TaskDrive ------------------------------
(***************************************************************************)
(* The processes of `vestra task`: start, resume, cancel and review of the *)
(* runs of one workspace (apps/vestra-cli/src/task), over the run's marker *)
(* files, its worktree and records, the workspace writer lease and the     *)
(* workflow state, with the coordinator of a run                           *)
(* (application/src/execution/task-run.ts) as far as those are concerned.  *)
(*                                                                         *)
(* A process issues one command and ends.  Between any two of its steps    *)
(* other processes act and it may die.  How an attempt, a gate or a        *)
(* verification comes out is left open.                                    *)
(***************************************************************************)
EXTENDS Integers

CONSTANTS
  Runs,       \* the task runs planned and approved in the workspace
  Callers,    \* one per command issued
  Command,    \* process -> its command and the run it names
  NoHolder    \* no run, no process

Kinds == {"start", "resume", "cancel", "review"}

ASSUME CommandAssumption == Command \in [Callers -> [kind : Kinds, run : Runs]]

ASSUME HolderAssumption == NoHolder \notin Runs \cup Callers

VARIABLES
  run,           \* workflow state of each run
  lease,         \* run that holds the workspace writer lease, or NoHolder
  active,        \* active.json: the process that drives the run, or NoHolder
  requested,     \* runs with a cancel.json
  worktree,      \* worktree of the run
  named,         \* runs whose worktree.json names the worktree
  commits,       \* runs whose task commit was made
  anchored,      \* runs whose task branch holds the commit
  checkpointed,  \* runs with the gate checkpoint "committed"
  recorded,      \* runs with a task commit record
  escalated,     \* runs whose repair state is "escalated"
  step,          \* what each process does next
  aborted        \* processes whose abort signal was raised

markers == <<active, requested>>
work == <<worktree, named, commits, anchored>>
records == <<checkpointed, recorded, escalated>>
vars == <<run, lease, markers, work, records, step, aborted>>

-----------------------------------------------------------------------------
RunStates == {"EXECUTION_AUTHORIZED", "AWAITING_EXECUTION_APPROVAL", "IMPLEMENTING", "VERIFYING",
              "REPAIRING", "HUMAN_REVIEW", "COMPLETED", "FAILED", "ABORTED"}

Ended == {"COMPLETED", "FAILED", "ABORTED"}

\* Steps of a command before it has claimed its run, while it has, and of a
\* cancel that found no driver.
Claiming == {"preparing", "claiming", "marking"}
Driving == {"claimed", "leased", "starting", "implementing", "opening", "working", "gating",
            "committing", "committed", "anchoring", "releasing", "recording", "submitting",
            "verifying", "cleaning", "failing", "ending", "leaving"}
Idling == {"asking", "removing", "freeing", "aborting"}

Steps == {"ready", "requesting", "waiting", "reviewing", "done", "dead"} \cup Claiming \cup Driving \cup Idling

Run(p) == Command[p].run

At(p, s) == step[p] = s

Goes(p, s) == step' = [step EXCEPT ![p] = s]

Alive(p) == step[p] \notin {"ready", "done", "dead"}

\* activeProcess: the marker names a live process.
Driven(r) == active[r] # NoHolder /\ Alive(active[r])

\* The lease is acquired again by its owner.
LeaseFree(r) == lease \in {NoHolder, r}

\* Only the owner's lease is released.
LeaseReleased(r) == lease' = IF lease = r THEN NoHolder ELSE lease

\* applyWorkflow: the command is decided against the stored run and persisted
\* by compare-and-set on its version.
Becomes(r, state) == run' = [run EXCEPT ![r] = state]

\* Mutant: a worktree is removed without anchoring its task commit.
DiscardedUnanchored(r) ==
  /\ worktree' = [worktree EXCEPT ![r] = "none"]
  /\ UNCHANGED <<named, commits, anchored>>

\* cleanup: a task commit in the worktree is anchored before it is removed.
Discarded(r) ==
  /\ worktree' = [worktree EXCEPT ![r] = "none"]
  /\ anchored' = IF worktree[r] = "committed" THEN anchored \cup {r} ELSE anchored
  /\ UNCHANGED <<named, commits>>

-----------------------------------------------------------------------------
(* A command begins: it reads the workflow state and is refused or goes on. *)

Admitted(p) ==
  CASE Command[p].kind = "start"  -> run[Run(p)] = "EXECUTION_AUTHORIZED"
    [] Command[p].kind = "resume" -> run[Run(p)] \in {"IMPLEMENTING", "VERIFYING"}
    [] Command[p].kind = "cancel" -> run[Run(p)] \notin Ended
    [] Command[p].kind = "review" -> run[Run(p)] = "HUMAN_REVIEW"

FirstStep(p) ==
  CASE Command[p].kind = "cancel" -> "asking"
    [] Command[p].kind = "review" -> "reviewing"
    [] OTHER -> "preparing"

Begin(p) ==
  /\ At(p, "ready")
  /\ Admitted(p)
  /\ Goes(p, FirstStep(p))
  /\ UNCHANGED <<run, lease, markers, work, records, aborted>>

-----------------------------------------------------------------------------
(* runTask: claimActive, claimWriterLease, then the coordinator.           *)

MayClaim(p) == ~Driven(Run(p))

CheckActive(p) ==
  /\ At(p, "preparing")
  /\ Goes(p, IF MayClaim(p) THEN "claiming" ELSE "done")
  /\ UNCHANGED <<run, lease, markers, work, records, aborted>>

ClearRequest(p) ==
  /\ At(p, "claiming")
  /\ requested' = requested \ {Run(p)}
  /\ Goes(p, "marking")
  /\ UNCHANGED <<run, lease, active, work, records, aborted>>

WriteActive(p) ==
  /\ At(p, "marking")
  /\ active' = [active EXCEPT ![Run(p)] = p]
  /\ Goes(p, "claimed")
  /\ UNCHANGED <<run, lease, requested, work, records, aborted>>

\* The revalidation of a resume may refuse as well.
RefusedLease(p) ==
  /\ At(p, "claimed")
  /\ Command[p].kind = "resume" \/ ~LeaseFree(Run(p))
  /\ Goes(p, "leaving")
  /\ UNCHANGED <<run, lease, markers, work, records, aborted>>

ClaimWriterLease(p) ==
  /\ At(p, "claimed")
  /\ LeaseFree(Run(p))
  /\ lease' = Run(p)
  /\ Goes(p, "leased")
  /\ UNCHANGED <<run, markers, work, records, aborted>>

\* The coordinator reads the run; from any other state it throws and releases
\* nothing.
Coordinate(p) ==
  /\ At(p, "leased")
  /\ Goes(p, CASE run[Run(p)] = "EXECUTION_AUTHORIZED" -> "starting"
               [] run[Run(p)] = "IMPLEMENTING" -> "implementing"
               [] run[Run(p)] = "VERIFYING" -> "verifying"
               [] OTHER -> "leaving")
  /\ UNCHANGED <<run, lease, markers, work, records, aborted>>

\* START_IMPLEMENTATION, which voids an approval bound to another policy.
StartImplementation(p) ==
  /\ At(p, "starting")
  /\ \/ /\ run[Run(p)] = "EXECUTION_AUTHORIZED"
        /\ Becomes(Run(p), "IMPLEMENTING") /\ Goes(p, "implementing")
     \/ /\ run[Run(p)] = "EXECUTION_AUTHORIZED"
        /\ Becomes(Run(p), "AWAITING_EXECUTION_APPROVAL") /\ Goes(p, "leaving")
     \/ /\ run[Run(p)] # "EXECUTION_AUTHORIZED"
        /\ UNCHANGED run /\ Goes(p, "failing")
  /\ UNCHANGED <<lease, markers, work, records, aborted>>

-----------------------------------------------------------------------------
(* One attempt: the executor, the gates and the commit.                    *)

\* A commit that is recorded or checkpointed is not made again, and an
\* escalated repair loop is left to a human.
Continue(p) ==
  /\ At(p, "implementing")
  /\ Run(p) \in recorded \cup checkpointed \cup escalated
  /\ Goes(p, CASE Run(p) \in recorded -> "submitting"
               [] Run(p) \in checkpointed \ recorded -> "anchoring"
               [] OTHER -> "leaving")
  /\ UNCHANGED <<run, lease, markers, work, records, aborted>>

Undecided(r) == r \notin recorded \cup checkpointed \cup escalated

\* The executor acquires the lease again and opens the worktree, or takes the
\* one that is there if its HEAD is the base.
OpenWorktree(p) ==
  /\ At(p, "implementing") /\ Undecided(Run(p))
  /\ p \notin aborted /\ LeaseFree(Run(p)) /\ worktree[Run(p)] # "committed"
  /\ lease' = Run(p)
  /\ worktree' = [worktree EXCEPT ![Run(p)] = "open"]
  /\ Goes(p, "opening")
  /\ UNCHANGED <<run, markers, named, commits, anchored, records, aborted>>

RefusedAttempt(p) ==
  /\ At(p, "implementing") /\ Undecided(Run(p))
  /\ p \in aborted \/ ~LeaseFree(Run(p)) \/ worktree[Run(p)] = "committed"
  /\ Goes(p, "failing")
  /\ UNCHANGED <<run, lease, markers, work, records, aborted>>

\* resumable: an earlier attempt finished in this worktree.
ResumeAtGate(p) ==
  /\ At(p, "implementing") /\ Undecided(Run(p))
  /\ worktree[Run(p)] = "open" /\ LeaseFree(Run(p))
  /\ lease' = Run(p)
  /\ Goes(p, "gating")
  /\ UNCHANGED <<run, markers, work, records, aborted>>

NameWorktree(p) ==
  /\ At(p, "opening")
  /\ named' = named \cup {Run(p)}
  /\ Goes(p, "working")
  /\ UNCHANGED <<run, lease, markers, worktree, commits, anchored, records, aborted>>

FinishAttempt(p) ==
  /\ At(p, "working") /\ worktree[Run(p)] # "none"
  /\ Goes(p, "gating")
  /\ UNCHANGED <<run, lease, markers, work, records, aborted>>

\* A suspended attempt keeps its worktree and releases the lease.
SuspendAttempt(p) ==
  /\ At(p, "working") /\ worktree[Run(p)] # "none"
  /\ LeaseReleased(Run(p))
  /\ Goes(p, "leaving")
  /\ UNCHANGED <<run, markers, work, records, aborted>>

\* A failed or aborted attempt discards its worktree and releases the lease.
AbandonAttempt(p) ==
  /\ At(p, "working")
  /\ Discarded(Run(p))
  /\ LeaseReleased(Run(p))
  /\ Goes(p, "failing")
  /\ UNCHANGED <<run, markers, records, aborted>>

\* The gates verify the lease and inspect the worktree first.
StopsBeforeGates(p) == p \in aborted \/ lease # Run(p) \/ worktree[Run(p)] = "none"

RefusedGates(p) ==
  /\ At(p, "gating") /\ StopsBeforeGates(p)
  /\ Goes(p, "cleaning")
  /\ UNCHANGED <<run, lease, markers, work, records, aborted>>

\* The repair loop: another attempt, a human's decision, or the end.
GatesFail(p) ==
  /\ At(p, "gating") /\ ~StopsBeforeGates(p)
  /\ \/ Goes(p, "implementing") /\ UNCHANGED escalated
     \/ Goes(p, "leaving") /\ escalated' = escalated \cup {Run(p)}
     \/ Goes(p, "cleaning") /\ UNCHANGED escalated
  /\ UNCHANGED <<run, lease, markers, work, checkpointed, recorded, aborted>>

GatesPass(p) ==
  /\ At(p, "gating") /\ ~StopsBeforeGates(p)
  /\ Goes(p, "committing")
  /\ UNCHANGED <<run, lease, markers, work, records, aborted>>

\* commitAtomic makes the commit, or finds the one already made.
Commit(p) ==
  /\ At(p, "committing")
  /\ worktree[Run(p)] # "none"
  /\ worktree' = [worktree EXCEPT ![Run(p)] = "committed"]
  /\ commits' = commits \cup {Run(p)}
  /\ Goes(p, "committed")
  /\ UNCHANGED <<run, lease, markers, named, anchored, records, aborted>>

CommitFails(p) ==
  /\ At(p, "committing")
  /\ Goes(p, "cleaning")
  /\ UNCHANGED <<run, lease, markers, work, records, aborted>>

CheckpointCommit(p) ==
  /\ At(p, "committed")
  /\ checkpointed' = checkpointed \cup {Run(p)}
  /\ Goes(p, "anchoring")
  /\ UNCHANGED <<run, lease, markers, work, recorded, escalated, aborted>>

\* A worktree without the commit is not the one to clean up after it.
AnchorCommit(p) ==
  /\ At(p, "anchoring")
  /\ IF worktree[Run(p)] = "committed" THEN Discarded(Run(p)) ELSE UNCHANGED work
  /\ Goes(p, "releasing")
  /\ UNCHANGED <<run, lease, markers, records, aborted>>

ReleaseAfterCommit(p) ==
  /\ At(p, "releasing")
  /\ LeaseReleased(Run(p))
  /\ Goes(p, "recording")
  /\ UNCHANGED <<run, markers, work, records, aborted>>

\* Mutant: the commit is recorded before its worktree is anchored.
RecordsEarly(p) ==
  /\ At(p, "recording") \/ At(p, "anchoring")
  /\ recorded' = recorded \cup {Run(p)}
  /\ Goes(p, "submitting")
  /\ UNCHANGED <<run, lease, markers, work, checkpointed, escalated, aborted>>

RecordCommit(p) ==
  /\ At(p, "recording")
  /\ recorded' = recorded \cup {Run(p)}
  /\ Goes(p, "submitting")
  /\ UNCHANGED <<run, lease, markers, work, checkpointed, escalated, aborted>>

-----------------------------------------------------------------------------
(* Verification, and the ends of a run.                                    *)

StartVerification(p) ==
  /\ At(p, "submitting")
  /\ IF run[Run(p)] = "IMPLEMENTING"
     THEN Becomes(Run(p), "VERIFYING") /\ Goes(p, "verifying")
     ELSE UNCHANGED run /\ Goes(p, "failing")
  /\ UNCHANGED <<lease, markers, work, records, aborted>>

\* Whichever way the verifier decides, the coordinator returns its outcome as
\* it is: the lease that a resumed verification took stays.
ConcludeVerification(p) ==
  /\ At(p, "verifying") /\ Run(p) \in recorded
  /\ run[Run(p)] = "VERIFYING"
  /\ \E state \in {"HUMAN_REVIEW", "REPAIRING"} : Becomes(Run(p), state)
  /\ Goes(p, "leaving")
  /\ UNCHANGED <<lease, markers, work, records, aborted>>

SuspendVerification(p) ==
  /\ At(p, "verifying") /\ p \notin aborted
  /\ LeaseReleased(Run(p))
  /\ Goes(p, "leaving")
  /\ UNCHANGED <<run, markers, work, records, aborted>>

FailVerification(p) ==
  /\ At(p, "verifying")
  /\ Goes(p, "failing")
  /\ UNCHANGED <<run, lease, markers, work, records, aborted>>

\* release: the worktree of an uncommitted run, then the lease.
CleanUp(p) ==
  /\ At(p, "cleaning")
  /\ IF Run(p) \notin recorded THEN Discarded(Run(p)) ELSE UNCHANGED work
  /\ Goes(p, "failing")
  /\ UNCHANGED <<run, lease, markers, records, aborted>>

ReleaseToEnd(p) ==
  /\ At(p, "failing")
  /\ LeaseReleased(Run(p))
  /\ Goes(p, "ending")
  /\ UNCHANGED <<run, markers, work, records, aborted>>

\* FAIL or ABORT, refused by a run that has ended meanwhile.
EndRun(p) ==
  /\ At(p, "ending")
  /\ IF run[Run(p)] \in Ended THEN UNCHANGED run
     ELSE Becomes(Run(p), IF p \in aborted THEN "ABORTED" ELSE "FAILED")
  /\ Goes(p, "leaving")
  /\ UNCHANGED <<lease, markers, work, records, aborted>>

\* releaseActive removes the marker whoever wrote it.
ReleaseActive(p) ==
  /\ At(p, "leaving")
  /\ active' = [active EXCEPT ![Run(p)] = NoHolder]
  /\ Goes(p, "done")
  /\ UNCHANGED <<run, lease, requested, work, records, aborted>>

\* watchCancellation polls for the cancel marker while the process drives.
SeeRequest(p) ==
  /\ step[p] \in Driving \ {"leaving"} /\ p \notin aborted
  /\ Run(p) \in requested
  /\ aborted' = aborted \cup {p}
  /\ UNCHANGED <<run, lease, markers, work, records, step>>

-----------------------------------------------------------------------------
(* cancelTask and reviewTask                                               *)

AskForDriver(p) ==
  /\ At(p, "asking")
  /\ Goes(p, IF Driven(Run(p)) THEN "requesting" ELSE "removing")
  /\ UNCHANGED <<run, lease, markers, work, records, aborted>>

RequestCancel(p) ==
  /\ At(p, "requesting")
  /\ requested' = requested \cup {Run(p)}
  /\ Goes(p, "waiting")
  /\ UNCHANGED <<run, lease, active, work, records, aborted>>

\* waitForStop: the driver is gone, or a minute has passed.
StopWaiting(p) ==
  /\ At(p, "waiting")
  /\ Goes(p, "done")
  /\ UNCHANGED <<run, lease, markers, work, records, aborted>>

RemoveIdleWorktree(p) ==
  /\ At(p, "removing")
  /\ IF Run(p) \in named \ recorded THEN Discarded(Run(p)) ELSE UNCHANGED work
  /\ Goes(p, "freeing")
  /\ UNCHANGED <<run, lease, markers, records, aborted>>

FreeLease(p) ==
  /\ At(p, "freeing")
  /\ LeaseReleased(Run(p))
  /\ Goes(p, "aborting")
  /\ UNCHANGED <<run, markers, work, records, aborted>>

AbortIdle(p) ==
  /\ At(p, "aborting")
  /\ IF run[Run(p)] \in Ended THEN UNCHANGED run ELSE Becomes(Run(p), "ABORTED")
  /\ Goes(p, "done")
  /\ UNCHANGED <<lease, markers, work, records, aborted>>

\* A rejection aborts the run.
Review(p) ==
  /\ At(p, "reviewing")
  /\ \/ run[Run(p)] = "HUMAN_REVIEW" /\ \E state \in {"COMPLETED", "ABORTED"} : Becomes(Run(p), state)
     \/ run[Run(p)] # "HUMAN_REVIEW" /\ UNCHANGED run
  /\ Goes(p, "done")
  /\ UNCHANGED <<lease, markers, work, records, aborted>>

-----------------------------------------------------------------------------
Die(p) ==
  /\ Alive(p)
  /\ Goes(p, "dead")
  /\ UNCHANGED <<run, lease, markers, work, records, aborted>>

\* The lease lasts an hour longer than the run may, so it does not expire
\* under a live driver.
LeaseExpires ==
  /\ lease # NoHolder
  /\ \A p \in Callers : Run(p) = lease => step[p] \notin Driving
  /\ lease' = NoHolder
  /\ UNCHANGED <<run, markers, work, records, step, aborted>>

Init ==
  /\ run = [r \in Runs |-> "EXECUTION_AUTHORIZED"]
  /\ lease = NoHolder
  /\ active = [r \in Runs |-> NoHolder]
  /\ requested = {}
  /\ worktree = [r \in Runs |-> "none"]
  /\ named = {} /\ commits = {} /\ anchored = {}
  /\ checkpointed = {} /\ recorded = {} /\ escalated = {}
  /\ step = [p \in Callers |-> "ready"]
  /\ aborted = {}

Claim(p) ==
  CheckActive(p) \/ ClearRequest(p) \/ WriteActive(p) \/ RefusedLease(p) \/ ClaimWriterLease(p)

Implement(p) ==
  \/ Coordinate(p) \/ StartImplementation(p) \/ Continue(p) \/ OpenWorktree(p) \/ RefusedAttempt(p)
  \/ ResumeAtGate(p) \/ NameWorktree(p) \/ FinishAttempt(p) \/ SuspendAttempt(p) \/ AbandonAttempt(p)

GateAndCommit(p) ==
  \/ RefusedGates(p) \/ GatesFail(p) \/ GatesPass(p) \/ Commit(p) \/ CommitFails(p)
  \/ CheckpointCommit(p) \/ AnchorCommit(p) \/ ReleaseAfterCommit(p) \/ RecordCommit(p)

Conclude(p) ==
  \/ StartVerification(p) \/ ConcludeVerification(p) \/ SuspendVerification(p) \/ FailVerification(p)
  \/ CleanUp(p) \/ ReleaseToEnd(p) \/ EndRun(p) \/ ReleaseActive(p)

Drive(p) == Claim(p) \/ Implement(p) \/ GateAndCommit(p) \/ Conclude(p)

Ask(p) ==
  \/ AskForDriver(p) \/ RequestCancel(p) \/ StopWaiting(p) \/ RemoveIdleWorktree(p) \/ FreeLease(p)
  \/ AbortIdle(p) \/ Review(p)

Next ==
  \/ LeaseExpires
  \/ \E p \in Callers : Begin(p) \/ Drive(p) \/ SeeRequest(p) \/ Ask(p) \/ Die(p)

Spec == Init /\ [][Next]_vars

-----------------------------------------------------------------------------
\* Types, and the order the records of a commit are written in.
TypeOK ==
  /\ run \in [Runs -> RunStates]
  /\ lease \in Runs \cup {NoHolder}
  /\ active \in [Runs -> Callers \cup {NoHolder}]
  /\ requested \subseteq Runs
  /\ worktree \in [Runs -> {"none", "open", "committed"}]
  /\ named \subseteq Runs /\ commits \subseteq Runs /\ anchored \subseteq Runs
  /\ checkpointed \subseteq Runs /\ recorded \subseteq Runs /\ escalated \subseteq Runs
  /\ recorded \subseteq checkpointed /\ checkpointed \subseteq commits
  /\ step \in [Callers -> Steps]
  /\ aborted \subseteq Callers

Writing == {"opening", "working", "gating", "committing", "committed"}

\* docs/quick-start.md:902: "one writer per Workspace": no two processes are
\* ever both between opening a worktree and having made its task commit, be it
\* for one run or for two.
OneWriter ==
  \A p, q \in Callers : step[p] \in Writing /\ step[q] \in Writing => p = q

\* No task commit is lost, whoever cleans up or dies when: its worktree is
\* still there or its branch holds it.
CommitsAreKept ==
  \A r \in commits : worktree[r] = "committed" \/ r \in anchored

\* What is verified and reviewed is a recorded commit on its task branch.
VerifiedCommitsAreAnchored ==
  \A r \in Runs :
    run[r] \in {"VERIFYING", "REPAIRING", "HUMAN_REVIEW", "COMPLETED"}
      => r \in recorded /\ r \in anchored

\* docs/quick-start.md:902: a second run is refused until the first one ends,
\* and resuming a run whose process died releases the lease: a completed run
\* does not hold the lease once every process but its starter has ended in its
\* own time.
CompletedRunsFreeTheWorkspace ==
  \A r \in Runs :
    /\ run[r] = "COMPLETED"
    /\ \A p \in Callers :
         Run(p) = r => ~Alive(p) /\ (Command[p].kind = "start" \/ step[p] # "dead")
    => lease # r
=============================================================================
