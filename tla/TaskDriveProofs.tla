--------------------------- MODULE TaskDriveProofs ---------------------------
(***************************************************************************)
(* Proofs about the processes of `vestra task` for any number of runs and  *)
(* processes, whatever commands they issue.                                *)
(*                                                                         *)
(* The records of a task commit are written in an order in which each      *)
(* implies the ones before, and each process between two of them knows the *)
(* ones it wrote.  Neither needs one process to be alone with its run.     *)
(***************************************************************************)
EXTENDS TaskDrive, TLAPS

\* What the step of a process says about the commit of its run.
KnowsRecords(p) ==
  /\ step[p] = "committed" => Run(p) \in commits
  /\ step[p] \in {"anchoring", "releasing", "recording"} => Run(p) \in checkpointed
  /\ step[p] \in {"releasing", "recording"} => Run(p) \in anchored
  /\ step[p] = "submitting" => Run(p) \in recorded

RecordInv ==
  /\ TypeOK
  /\ CommitsAreKept
  /\ recorded \subseteq anchored
  /\ VerifiedCommitsAreAnchored
  /\ \A p \in Callers : KnowsRecords(p)

LEMMA RunsOfProcesses == \A p \in Callers : Run(p) \in Runs
BY CommandAssumption DEF Run

LEMMA StepMoves ==
  ASSUME step \in [Callers -> Steps], NEW p \in Callers, NEW s \in Steps, Goes(p, s)
  PROVE  /\ step' \in [Callers -> Steps]
         /\ step'[p] = s
         /\ \A q \in Callers \ {p} : step'[q] = step[q]
BY DEF Goes

\* A step that takes nothing back from the records keeps what is known of them.
LEMMA RecordsGrow ==
  ASSUME RecordInv, NEW p \in Callers, NEW s \in Steps, Goes(p, s),
         commits \subseteq commits', anchored \subseteq anchored',
         checkpointed \subseteq checkpointed', recorded \subseteq recorded',
         run' \in [Runs -> RunStates],
         lease' \in Runs \cup {NoHolder}, active' \in [Runs -> Callers \cup {NoHolder}],
         requested' \subseteq Runs, aborted' \subseteq Callers,
         worktree' \in [Runs -> {"none", "open", "committed"}],
         named' \subseteq Runs, commits' \subseteq Runs, anchored' \subseteq Runs,
         escalated' \subseteq Runs,
         recorded' \subseteq checkpointed', checkpointed' \subseteq commits',
         CommitsAreKept', recorded' \subseteq anchored', VerifiedCommitsAreAnchored',
         s = "committed" => Run(p) \in commits',
         s \in {"anchoring", "releasing", "recording"} => Run(p) \in checkpointed',
         s \in {"releasing", "recording"} => Run(p) \in anchored',
         s = "submitting" => Run(p) \in recorded'
  PROVE  RecordInv'
<1>1. /\ step' \in [Callers -> Steps] /\ step'[p] = s
      /\ \A q \in Callers \ {p} : step'[q] = step[q]
  BY StepMoves DEF RecordInv, TypeOK
<1>2. TypeOK'
  BY <1>1 DEF TypeOK
<1>3. ASSUME NEW q \in Callers PROVE KnowsRecords(q)'
  <2>1. CASE q = p
    BY <1>1, <2>1 DEF KnowsRecords, Run
  <2>2. CASE q # p
    <3>1. KnowsRecords(q) /\ step'[q] = step[q]
      BY <1>1, <2>2 DEF RecordInv
    <3>2. QED
      BY <3>1 DEF KnowsRecords, Run
  <2>3. QED
    BY <2>1, <2>2
<1>4. QED
  BY <1>2, <1>3 DEF RecordInv

\* The steps that change neither the work nor the records.
LEMMA RecordsStay ==
  ASSUME RecordInv, NEW p \in Callers, NEW s \in Steps, Goes(p, s),
         UNCHANGED <<work, records>>,
         run' \in [Runs -> RunStates],
         lease' \in Runs \cup {NoHolder}, active' \in [Runs -> Callers \cup {NoHolder}],
         requested' \subseteq Runs, aborted' \subseteq Callers,
         VerifiedCommitsAreAnchored',
         s = "committed" => Run(p) \in commits,
         s \in {"anchoring", "releasing", "recording"} => Run(p) \in checkpointed,
         s \in {"releasing", "recording"} => Run(p) \in anchored,
         s = "submitting" => Run(p) \in recorded
  PROVE  RecordInv'
<1>1. /\ commits' = commits /\ anchored' = anchored /\ checkpointed' = checkpointed
      /\ recorded' = recorded /\ worktree' = worktree /\ named' = named /\ escalated' = escalated
  BY DEF work, records
<1>2. CommitsAreKept'
  BY <1>1 DEF RecordInv, CommitsAreKept
<1>3. /\ worktree' \in [Runs -> {"none", "open", "committed"}]
      /\ named' \subseteq Runs /\ commits' \subseteq Runs /\ anchored' \subseteq Runs
      /\ escalated' \subseteq Runs
      /\ recorded' \subseteq checkpointed' /\ checkpointed' \subseteq commits'
      /\ recorded' \subseteq anchored'
  BY <1>1 DEF RecordInv, TypeOK
<1>4. QED
  BY <1>1, <1>2, <1>3, RecordsGrow

\* The same for a step that leaves the workflow state alone and goes where
\* nothing has to be known of the records.
Unknowing == Steps \ {"committed", "anchoring", "releasing", "recording", "submitting"}

LEMMA RecordsUntouched ==
  ASSUME RecordInv, NEW p \in Callers, NEW s \in Unknowing, Goes(p, s),
         UNCHANGED <<run, work, records>>,
         lease' \in Runs \cup {NoHolder}, active' \in [Runs -> Callers \cup {NoHolder}],
         requested' \subseteq Runs, aborted' \subseteq Callers
  PROVE  RecordInv'
<1>1. s \in Steps /\ run' \in [Runs -> RunStates]
  BY DEF Unknowing, RecordInv, TypeOK
<1>2. VerifiedCommitsAreAnchored'
  BY DEF RecordInv, VerifiedCommitsAreAnchored, work, records
<1>3. s \notin {"committed", "anchoring", "releasing", "recording", "submitting"}
  BY DEF Unknowing
<1>4. QED
  BY <1>1, <1>2, <1>3, RecordsStay

LEMMA DiscardKeeps ==
  ASSUME RecordInv, NEW r \in Runs, Discarded(r), UNCHANGED recorded
  PROVE  /\ anchored \subseteq anchored' /\ commits' = commits /\ named' = named
         /\ worktree' \in [Runs -> {"none", "open", "committed"}]
         /\ anchored' \subseteq Runs
         /\ CommitsAreKept'
         /\ r \in commits => r \in anchored'
BY DEF Discarded, CommitsAreKept, RecordInv, TypeOK

-----------------------------------------------------------------------------
LEMMA InitRecords == Init => RecordInv
BY CommandAssumption DEF Init, RecordInv, TypeOK, CommitsAreKept, VerifiedCommitsAreAnchored,
   KnowsRecords, RunStates, Steps

LEMMA ClaimKeepsRecords ==
  ASSUME RecordInv, NEW p \in Callers, Begin(p) \/ Claim(p)
  PROVE  RecordInv'
<1> USE DEF Unknowing, Steps, Claiming, Driving, Idling
<1>0. Run(p) \in Runs
  BY RunsOfProcesses
<1>t. /\ lease \in Runs \cup {NoHolder} /\ active \in [Runs -> Callers \cup {NoHolder}]
      /\ requested \subseteq Runs /\ aborted \subseteq Callers
  BY DEF RecordInv, TypeOK
<1>1. CASE Begin(p)
  <2>1. FirstStep(p) \in Unknowing
    BY CommandAssumption DEF FirstStep, Kinds
  <2>2. Goes(p, FirstStep(p)) /\ UNCHANGED <<run, lease, markers, work, records, aborted>>
    BY <1>1 DEF Begin
  <2>3. QED
    BY <1>t, <2>1, <2>2, RecordsUntouched DEF markers
<1>2. CASE CheckActive(p)
  <2>1. PICK s \in {"claiming", "done"} : Goes(p, s)
    BY <1>2 DEF CheckActive
  <2>2. QED
    BY <1>2, <1>t, <2>1, RecordsUntouched DEF CheckActive, markers
<1>3. CASE ClearRequest(p)
  BY <1>3, <1>t, RecordsUntouched DEF ClearRequest
<1>4. CASE WriteActive(p)
  BY <1>0, <1>4, <1>t, RecordsUntouched DEF WriteActive
<1>5. CASE RefusedLease(p)
  BY <1>5, <1>t, RecordsUntouched DEF RefusedLease, markers
<1>6. CASE ClaimWriterLease(p)
  BY <1>0, <1>6, <1>t, RecordsUntouched DEF ClaimWriterLease, markers
<1>7. QED
  BY <1>1, <1>2, <1>3, <1>4, <1>5, <1>6 DEF Claim

LEMMA ImplementKeepsRecords ==
  ASSUME RecordInv, NEW p \in Callers, Implement(p)
  PROVE  RecordInv'
<1> USE DEF Unknowing, Steps, Claiming, Driving, Idling
<1>0. Run(p) \in Runs
  BY RunsOfProcesses
<1>t. /\ lease \in Runs \cup {NoHolder} /\ active \in [Runs -> Callers \cup {NoHolder}]
      /\ requested \subseteq Runs /\ aborted \subseteq Callers
      /\ run \in [Runs -> RunStates]
      /\ worktree \in [Runs -> {"none", "open", "committed"}]
      /\ named \subseteq Runs /\ commits \subseteq Runs /\ anchored \subseteq Runs
      /\ checkpointed \subseteq Runs /\ recorded \subseteq Runs /\ escalated \subseteq Runs
      /\ recorded \subseteq checkpointed /\ checkpointed \subseteq commits
      /\ recorded \subseteq anchored
  BY DEF RecordInv, TypeOK
<1>1. CASE Coordinate(p)
  <2>1. PICK s \in {"starting", "implementing", "verifying", "leaving"} : Goes(p, s)
    BY <1>1 DEF Coordinate
  <2>2. QED
    BY <1>1, <1>t, <2>1, RecordsUntouched DEF Coordinate, markers
<1>2. CASE StartImplementation(p)
  <2>1. PICK s \in {"implementing", "leaving", "failing"} : Goes(p, s)
    BY <1>2 DEF StartImplementation
  <2>2. run' \in [Runs -> RunStates] /\ VerifiedCommitsAreAnchored'
    BY <1>0, <1>2, <1>t DEF StartImplementation, Becomes, RunStates, RecordInv,
       VerifiedCommitsAreAnchored, work, records
  <2>3. QED
    BY <1>2, <1>t, <2>1, <2>2, RecordsStay DEF StartImplementation, markers
<1>3. CASE Continue(p)
  <2>1. PICK s \in {"submitting", "anchoring", "leaving"} :
          /\ Goes(p, s)
          /\ s = "submitting" => Run(p) \in recorded
          /\ s = "anchoring" => Run(p) \in checkpointed
    BY <1>3 DEF Continue
  <2>2. VerifiedCommitsAreAnchored'
    BY <1>3 DEF Continue, RecordInv, VerifiedCommitsAreAnchored, work, records
  <2>3. QED
    BY <1>3, <1>t, <2>1, <2>2, RecordsStay DEF Continue, markers
<1>4. CASE OpenWorktree(p)
  <2>1. /\ worktree' = [worktree EXCEPT ![Run(p)] = "open"] /\ worktree[Run(p)] # "committed"
        /\ Goes(p, "opening") /\ lease' = Run(p)
        /\ UNCHANGED <<run, active, requested, named, commits, anchored, aborted>>
        /\ UNCHANGED <<checkpointed, recorded, escalated>>
    BY <1>4 DEF OpenWorktree, markers, records
  <2>2. CommitsAreKept'
    BY <1>0, <1>t, <2>1 DEF RecordInv, CommitsAreKept
  <2>3. VerifiedCommitsAreAnchored'
    BY <2>1 DEF RecordInv, VerifiedCommitsAreAnchored
  <2>4. QED
    BY <1>0, <1>t, <2>1, <2>2, <2>3, RecordsGrow
<1>5. CASE RefusedAttempt(p)
  BY <1>5, <1>t, RecordsUntouched DEF RefusedAttempt, markers
<1>6. CASE ResumeAtGate(p)
  BY <1>0, <1>6, <1>t, RecordsUntouched DEF ResumeAtGate, markers
<1>7. CASE NameWorktree(p)
  <2>1. /\ named' = named \cup {Run(p)} /\ Goes(p, "working")
        /\ UNCHANGED <<run, lease, active, requested, worktree, commits, anchored, aborted>>
        /\ UNCHANGED <<checkpointed, recorded, escalated>>
    BY <1>7 DEF NameWorktree, markers, records
  <2>2. CommitsAreKept' /\ VerifiedCommitsAreAnchored'
    BY <2>1 DEF RecordInv, CommitsAreKept, VerifiedCommitsAreAnchored
  <2>3. QED
    BY <1>0, <1>t, <2>1, <2>2, RecordsGrow
<1>8. CASE FinishAttempt(p)
  BY <1>8, <1>t, RecordsUntouched DEF FinishAttempt, markers
<1>9. CASE SuspendAttempt(p)
  BY <1>9, <1>t, RecordsUntouched DEF SuspendAttempt, LeaseReleased, markers
<1>10. CASE AbandonAttempt(p)
  <2>1. /\ Discarded(Run(p)) /\ LeaseReleased(Run(p)) /\ Goes(p, "failing")
        /\ UNCHANGED <<run, active, requested, aborted>>
        /\ UNCHANGED <<checkpointed, recorded, escalated>>
    BY <1>10 DEF AbandonAttempt, markers, records
  <2>2. /\ anchored \subseteq anchored' /\ commits' = commits /\ named' = named
        /\ worktree' \in [Runs -> {"none", "open", "committed"}]
        /\ anchored' \subseteq Runs
        /\ CommitsAreKept'
    BY <1>0, <2>1, DiscardKeeps
  <2>3. VerifiedCommitsAreAnchored'
    BY <2>1, <2>2 DEF RecordInv, VerifiedCommitsAreAnchored
  <2>4. lease' \in Runs \cup {NoHolder}
    BY <1>t, <2>1 DEF LeaseReleased
  <2>5. QED
    BY <1>0, <1>t, <2>1, <2>2, <2>3, <2>4, RecordsGrow
<1>11. QED
  BY <1>1, <1>2, <1>3, <1>4, <1>5, <1>6, <1>7, <1>8, <1>9, <1>10 DEF Implement

LEMMA CommitKeepsRecords ==
  ASSUME RecordInv, NEW p \in Callers, GateAndCommit(p)
  PROVE  RecordInv'
<1> USE DEF Unknowing, Steps, Claiming, Driving, Idling
<1>0. Run(p) \in Runs
  BY RunsOfProcesses
<1>t. /\ lease \in Runs \cup {NoHolder} /\ active \in [Runs -> Callers \cup {NoHolder}]
      /\ requested \subseteq Runs /\ aborted \subseteq Callers
      /\ run \in [Runs -> RunStates]
      /\ worktree \in [Runs -> {"none", "open", "committed"}]
      /\ named \subseteq Runs /\ commits \subseteq Runs /\ anchored \subseteq Runs
      /\ checkpointed \subseteq Runs /\ recorded \subseteq Runs /\ escalated \subseteq Runs
      /\ recorded \subseteq checkpointed /\ checkpointed \subseteq commits
      /\ recorded \subseteq anchored
      /\ KnowsRecords(p)
  BY DEF RecordInv, TypeOK
<1>1. CASE RefusedGates(p)
  BY <1>1, <1>t, RecordsUntouched DEF RefusedGates, markers
<1>2. CASE GatesFail(p)
  <2>1. PICK s \in {"implementing", "leaving", "cleaning"} : Goes(p, s)
    BY <1>2 DEF GatesFail
  <2>2. /\ escalated' \subseteq Runs
        /\ UNCHANGED <<run, lease, active, requested, worktree, named, commits, anchored>>
        /\ UNCHANGED <<checkpointed, recorded, aborted>>
    BY <1>0, <1>2, <1>t DEF GatesFail, markers, work
  <2>3. CommitsAreKept' /\ VerifiedCommitsAreAnchored'
    BY <2>2 DEF RecordInv, CommitsAreKept, VerifiedCommitsAreAnchored
  <2>4. QED
    BY <1>t, <2>1, <2>2, <2>3, RecordsGrow
<1>3. CASE GatesPass(p)
  BY <1>3, <1>t, RecordsUntouched DEF GatesPass, markers
<1>4. CASE Commit(p)
  <2>1. /\ worktree' = [worktree EXCEPT ![Run(p)] = "committed"]
        /\ commits' = commits \cup {Run(p)} /\ Goes(p, "committed")
        /\ UNCHANGED <<run, lease, active, requested, named, anchored, aborted>>
        /\ UNCHANGED <<checkpointed, recorded, escalated>>
    BY <1>4 DEF Commit, markers, records
  <2>2. CommitsAreKept'
    BY <1>0, <1>t, <2>1 DEF RecordInv, CommitsAreKept
  <2>3. VerifiedCommitsAreAnchored'
    BY <2>1 DEF RecordInv, VerifiedCommitsAreAnchored
  <2>4. QED
    BY <1>0, <1>t, <2>1, <2>2, <2>3, RecordsGrow
<1>5. CASE CommitFails(p)
  BY <1>5, <1>t, RecordsUntouched DEF CommitFails, markers
<1>6. CASE CheckpointCommit(p)
  <2>1. /\ checkpointed' = checkpointed \cup {Run(p)} /\ Goes(p, "anchoring")
        /\ UNCHANGED <<run, lease, active, requested, worktree, named, commits, anchored>>
        /\ UNCHANGED <<recorded, escalated, aborted>>
        /\ Run(p) \in commits
    BY <1>6, <1>t DEF CheckpointCommit, markers, work, KnowsRecords, At
  <2>2. CommitsAreKept' /\ VerifiedCommitsAreAnchored'
    BY <2>1 DEF RecordInv, CommitsAreKept, VerifiedCommitsAreAnchored
  <2>3. QED
    BY <1>0, <1>t, <2>1, <2>2, RecordsGrow
<1>7. CASE AnchorCommit(p)
  <2>1. /\ Goes(p, "releasing")
        /\ UNCHANGED <<run, lease, active, requested, aborted>>
        /\ UNCHANGED <<checkpointed, recorded, escalated>>
        /\ Run(p) \in checkpointed /\ Run(p) \in commits
    BY <1>7, <1>t DEF AnchorCommit, markers, records, KnowsRecords, At
  <2>2. /\ anchored \subseteq anchored' /\ commits' = commits /\ named' \subseteq Runs
        /\ worktree' \in [Runs -> {"none", "open", "committed"}]
        /\ anchored' \subseteq Runs
        /\ CommitsAreKept'
        /\ Run(p) \in anchored'
    <3>1. CASE worktree[Run(p)] = "committed"
      <4>1. Discarded(Run(p))
        BY <1>7, <3>1 DEF AnchorCommit
      <4>2. QED
        BY <1>0, <1>t, <2>1, <4>1, DiscardKeeps
    <3>2. CASE worktree[Run(p)] # "committed"
      BY <1>7, <1>t, <2>1, <3>2 DEF AnchorCommit, work, RecordInv, CommitsAreKept
    <3>3. QED
      BY <3>1, <3>2
  <2>3. VerifiedCommitsAreAnchored'
    BY <2>1, <2>2 DEF RecordInv, VerifiedCommitsAreAnchored
  <2>4. QED
    BY <1>0, <1>t, <2>1, <2>2, <2>3, RecordsGrow
<1>8. CASE ReleaseAfterCommit(p)
  <2>1. /\ LeaseReleased(Run(p)) /\ Goes(p, "recording")
        /\ UNCHANGED <<run, markers, work, records, aborted>>
        /\ Run(p) \in checkpointed /\ Run(p) \in anchored
    BY <1>8, <1>t DEF ReleaseAfterCommit, KnowsRecords, At
  <2>2. lease' \in Runs \cup {NoHolder}
    BY <1>t, <2>1 DEF LeaseReleased
  <2>3. VerifiedCommitsAreAnchored'
    BY <2>1 DEF RecordInv, VerifiedCommitsAreAnchored, work, records
  <2>4. QED
    BY <1>t, <2>1, <2>2, <2>3, RecordsStay DEF markers
<1>9. CASE RecordCommit(p)
  <2>1. /\ recorded' = recorded \cup {Run(p)} /\ Goes(p, "submitting")
        /\ UNCHANGED <<run, lease, active, requested, worktree, named, commits, anchored>>
        /\ UNCHANGED <<checkpointed, escalated, aborted>>
        /\ Run(p) \in checkpointed /\ Run(p) \in anchored
    BY <1>9, <1>t DEF RecordCommit, markers, work, KnowsRecords, At
  <2>2. CommitsAreKept' /\ VerifiedCommitsAreAnchored'
    BY <2>1 DEF RecordInv, CommitsAreKept, VerifiedCommitsAreAnchored
  <2>3. QED
    BY <1>0, <1>t, <2>1, <2>2, RecordsGrow
<1>10. QED
  BY <1>1, <1>2, <1>3, <1>4, <1>5, <1>6, <1>7, <1>8, <1>9 DEF GateAndCommit

LEMMA ConcludeKeepsRecords ==
  ASSUME RecordInv, NEW p \in Callers, Conclude(p)
  PROVE  RecordInv'
<1> USE DEF Unknowing, Steps, Claiming, Driving, Idling
<1>0. Run(p) \in Runs
  BY RunsOfProcesses
<1>t. /\ lease \in Runs \cup {NoHolder} /\ active \in [Runs -> Callers \cup {NoHolder}]
      /\ requested \subseteq Runs /\ aborted \subseteq Callers
      /\ run \in [Runs -> RunStates]
      /\ worktree \in [Runs -> {"none", "open", "committed"}]
      /\ named \subseteq Runs /\ commits \subseteq Runs /\ anchored \subseteq Runs
      /\ checkpointed \subseteq Runs /\ recorded \subseteq Runs /\ escalated \subseteq Runs
      /\ recorded \subseteq checkpointed /\ checkpointed \subseteq commits
      /\ recorded \subseteq anchored
      /\ KnowsRecords(p)
  BY DEF RecordInv, TypeOK
<1>1. CASE StartVerification(p)
  <2>1. PICK s \in {"verifying", "failing"} : Goes(p, s)
    BY <1>1 DEF StartVerification
  <2>2. Run(p) \in recorded /\ UNCHANGED <<lease, markers, work, records, aborted>>
    BY <1>1, <1>t DEF StartVerification, KnowsRecords, At
  <2>3. run' = run \/ run' = [run EXCEPT ![Run(p)] = "VERIFYING"]
    BY <1>1 DEF StartVerification, Becomes
  <2>4. run' \in [Runs -> RunStates] /\ VerifiedCommitsAreAnchored'
    BY <1>0, <1>t, <2>2, <2>3 DEF RunStates, RecordInv, VerifiedCommitsAreAnchored, work, records
  <2>5. QED
    BY <1>t, <2>1, <2>2, <2>4, RecordsStay DEF markers
<1>2. CASE ConcludeVerification(p)
  <2>1. PICK state \in {"HUMAN_REVIEW", "REPAIRING"} : Becomes(Run(p), state)
    BY <1>2 DEF ConcludeVerification
  <2>2. run' \in [Runs -> RunStates] /\ VerifiedCommitsAreAnchored'
    BY <1>0, <1>2, <1>t, <2>1 DEF ConcludeVerification, Becomes, RunStates, RecordInv,
       VerifiedCommitsAreAnchored, work, records
  <2>3. QED
    BY <1>2, <1>t, <2>2, RecordsStay DEF ConcludeVerification, markers
<1>3. CASE SuspendVerification(p)
  BY <1>3, <1>t, RecordsUntouched DEF SuspendVerification, LeaseReleased, markers
<1>4. CASE FailVerification(p)
  BY <1>4, <1>t, RecordsUntouched DEF FailVerification, markers
<1>5. CASE CleanUp(p)
  <2>1. /\ Goes(p, "failing")
        /\ UNCHANGED <<run, lease, active, requested, aborted>>
        /\ UNCHANGED <<checkpointed, recorded, escalated>>
    BY <1>5 DEF CleanUp, markers, records
  <2>2. /\ anchored \subseteq anchored' /\ commits' = commits /\ named' \subseteq Runs
        /\ worktree' \in [Runs -> {"none", "open", "committed"}]
        /\ anchored' \subseteq Runs
        /\ CommitsAreKept'
    <3>1. CASE Run(p) \notin recorded
      BY <1>0, <1>5, <1>t, <2>1, <3>1, DiscardKeeps DEF CleanUp
    <3>2. CASE Run(p) \in recorded
      BY <1>5, <1>t, <3>2 DEF CleanUp, work, RecordInv, CommitsAreKept
    <3>3. QED
      BY <3>1, <3>2
  <2>3. VerifiedCommitsAreAnchored'
    BY <2>1, <2>2 DEF RecordInv, VerifiedCommitsAreAnchored
  <2>4. QED
    BY <1>0, <1>t, <2>1, <2>2, <2>3, RecordsGrow
<1>6. CASE ReleaseToEnd(p)
  BY <1>6, <1>t, RecordsUntouched DEF ReleaseToEnd, LeaseReleased, markers
<1>7. CASE EndRun(p)
  <2>1. run' = run \/ \E state \in {"ABORTED", "FAILED"} : run' = [run EXCEPT ![Run(p)] = state]
    BY <1>7 DEF EndRun, Becomes
  <2>2. run' \in [Runs -> RunStates] /\ VerifiedCommitsAreAnchored'
    BY <1>0, <1>7, <1>t, <2>1 DEF EndRun, RunStates, RecordInv, VerifiedCommitsAreAnchored, work, records
  <2>3. QED
    BY <1>7, <1>t, <2>2, RecordsStay DEF EndRun, markers
<1>8. CASE ReleaseActive(p)
  BY <1>0, <1>8, <1>t, RecordsUntouched DEF ReleaseActive
<1>9. QED
  BY <1>1, <1>2, <1>3, <1>4, <1>5, <1>6, <1>7, <1>8 DEF Conclude

LEMMA AskKeepsRecords ==
  ASSUME RecordInv, NEW p \in Callers, Ask(p) \/ Die(p)
  PROVE  RecordInv'
<1> USE DEF Unknowing, Steps, Claiming, Driving, Idling
<1>0. Run(p) \in Runs
  BY RunsOfProcesses
<1>t. /\ lease \in Runs \cup {NoHolder} /\ active \in [Runs -> Callers \cup {NoHolder}]
      /\ requested \subseteq Runs /\ aborted \subseteq Callers
      /\ run \in [Runs -> RunStates]
      /\ worktree \in [Runs -> {"none", "open", "committed"}]
      /\ named \subseteq Runs /\ commits \subseteq Runs /\ anchored \subseteq Runs
      /\ checkpointed \subseteq Runs /\ recorded \subseteq Runs /\ escalated \subseteq Runs
      /\ recorded \subseteq checkpointed /\ checkpointed \subseteq commits
      /\ recorded \subseteq anchored
  BY DEF RecordInv, TypeOK
<1>1. CASE AskForDriver(p)
  <2>1. PICK s \in {"requesting", "removing"} : Goes(p, s)
    BY <1>1 DEF AskForDriver
  <2>2. QED
    BY <1>1, <1>t, <2>1, RecordsUntouched DEF AskForDriver, markers
<1>2. CASE RequestCancel(p)
  BY <1>0, <1>2, <1>t, RecordsUntouched DEF RequestCancel
<1>3. CASE StopWaiting(p)
  BY <1>3, <1>t, RecordsUntouched DEF StopWaiting, markers
<1>4. CASE RemoveIdleWorktree(p)
  <2>1. /\ Goes(p, "freeing")
        /\ UNCHANGED <<run, lease, active, requested, aborted>>
        /\ UNCHANGED <<checkpointed, recorded, escalated>>
    BY <1>4 DEF RemoveIdleWorktree, markers, records
  <2>2. /\ anchored \subseteq anchored' /\ commits' = commits /\ named' \subseteq Runs
        /\ worktree' \in [Runs -> {"none", "open", "committed"}]
        /\ anchored' \subseteq Runs
        /\ CommitsAreKept'
    <3>1. CASE Run(p) \in named \ recorded
      BY <1>0, <1>4, <1>t, <2>1, <3>1, DiscardKeeps DEF RemoveIdleWorktree
    <3>2. CASE ~(Run(p) \in named \ recorded)
      BY <1>4, <1>t, <3>2 DEF RemoveIdleWorktree, work, RecordInv, CommitsAreKept
    <3>3. QED
      BY <3>1, <3>2
  <2>3. VerifiedCommitsAreAnchored'
    BY <2>1, <2>2 DEF RecordInv, VerifiedCommitsAreAnchored
  <2>4. QED
    BY <1>0, <1>t, <2>1, <2>2, <2>3, RecordsGrow
<1>5. CASE FreeLease(p)
  BY <1>5, <1>t, RecordsUntouched DEF FreeLease, LeaseReleased, markers
<1>6. CASE AbortIdle(p)
  <2>1. run' = run \/ run' = [run EXCEPT ![Run(p)] = "ABORTED"]
    BY <1>6 DEF AbortIdle, Becomes
  <2>2. run' \in [Runs -> RunStates] /\ VerifiedCommitsAreAnchored'
    BY <1>0, <1>6, <1>t, <2>1 DEF AbortIdle, RunStates, RecordInv, VerifiedCommitsAreAnchored, work, records
  <2>3. QED
    BY <1>6, <1>t, <2>2, RecordsStay DEF AbortIdle, markers
<1>7. CASE Review(p)
  <2>1. run' = run \/ (run[Run(p)] = "HUMAN_REVIEW" /\
                       \E state \in {"COMPLETED", "ABORTED"} : run' = [run EXCEPT ![Run(p)] = state])
    BY <1>7 DEF Review, Becomes
  <2>2. run' \in [Runs -> RunStates] /\ VerifiedCommitsAreAnchored'
    BY <1>0, <1>7, <1>t, <2>1 DEF Review, RunStates, RecordInv, VerifiedCommitsAreAnchored, work, records
  <2>3. QED
    BY <1>7, <1>t, <2>2, RecordsStay DEF Review, markers
<1>8. CASE Die(p)
  BY <1>8, <1>t, RecordsUntouched DEF Die, markers
<1>9. QED
  BY <1>1, <1>2, <1>3, <1>4, <1>5, <1>6, <1>7, <1>8 DEF Ask

LEMMA QuietKeepsRecords ==
  ASSUME RecordInv,
         UNCHANGED <<run, markers, work, records, step>>,
         lease' \in Runs \cup {NoHolder}, aborted' \subseteq Callers
  PROVE  RecordInv'
<1>1. /\ run' = run /\ step' = step /\ active' = active /\ requested' = requested
      /\ worktree' = worktree /\ named' = named /\ commits' = commits /\ anchored' = anchored
      /\ checkpointed' = checkpointed /\ recorded' = recorded /\ escalated' = escalated
  BY DEF markers, work, records
<1>2. TypeOK'
  BY <1>1 DEF RecordInv, TypeOK
<1>3. CommitsAreKept' /\ VerifiedCommitsAreAnchored' /\ recorded' \subseteq anchored'
  BY <1>1 DEF RecordInv, CommitsAreKept, VerifiedCommitsAreAnchored
<1>4. \A p \in Callers : KnowsRecords(p)'
  BY <1>1 DEF RecordInv, KnowsRecords, Run
<1>5. QED
  BY <1>2, <1>3, <1>4 DEF RecordInv

LEMMA NextRecords == RecordInv /\ [Next]_vars => RecordInv'
<1> SUFFICES ASSUME RecordInv, [Next]_vars PROVE RecordInv'
  OBVIOUS
<1>1. CASE LeaseExpires
  BY <1>1, QuietKeepsRecords DEF LeaseExpires, RecordInv, TypeOK
<1>2. ASSUME NEW p \in Callers, Begin(p) \/ Drive(p) \/ SeeRequest(p) \/ Ask(p) \/ Die(p)
      PROVE  RecordInv'
  <2>1. CASE SeeRequest(p)
    BY <2>1, QuietKeepsRecords DEF SeeRequest, RecordInv, TypeOK
  <2>2. QED
    BY <1>2, <2>1, ClaimKeepsRecords, ImplementKeepsRecords, CommitKeepsRecords,
       ConcludeKeepsRecords, AskKeepsRecords DEF Drive
<1>3. CASE UNCHANGED vars
  BY <1>3, QuietKeepsRecords DEF vars, RecordInv, TypeOK
<1>4. QED
  BY <1>1, <1>2, <1>3 DEF Next

LEMMA RecordsInvariant == Spec => []RecordInv
BY InitRecords, NextRecords, PTL DEF Spec

\* No task commit is lost, for any number of processes of a run and any deaths:
\* every removal of a worktree anchors the commit in it first.
THEOREM CommitTheorem == Spec => []CommitsAreKept
<1>1. RecordInv => CommitsAreKept
  BY DEF RecordInv
<1>2. QED
  BY <1>1, RecordsInvariant, PTL

\* A run reaches verification, review or completion only with its commit
\* recorded and on its task branch.
THEOREM VerifiedTheorem == Spec => []VerifiedCommitsAreAnchored
<1>1. RecordInv => VerifiedCommitsAreAnchored
  BY DEF RecordInv
<1>2. QED
  BY <1>1, RecordsInvariant, PTL

=============================================================================
