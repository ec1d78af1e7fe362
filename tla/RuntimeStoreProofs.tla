------------------------- MODULE RuntimeStoreProofs -------------------------
(***************************************************************************)
(* Proofs about what the runtime store keeps: runs and their events, and   *)
(* the intents, attempts and receipts of external effects.                 *)
(*                                                                         *)
(* RunStore, for every number of processes, runs, actors, digests and      *)
(* every repair limit.  The argument turns on one fact: a snapshot a       *)
(* process holds is a former or the current value of the run, and of the   *)
(* versions of a run each has one value (HeldSnapshotsAreVersions).  Hence *)
(* the compare-and-set only lets a decision through that was taken on the  *)
(* run as it is.                                                           *)
(*                                                                         *)
(* EffectKernel, for any number of workers, plans, attempts and edits.     *)
(* Everything rests on one fact about the remote issue: a projection that  *)
(* was written left the issue at a version above the one it was planned    *)
(* against.  Every write, prompt or late, is made under exactly the base   *)
(* version of its plan, so none of them can be accepted a second time, and *)
(* whatever evidence a call holds is about a write that did happen.        *)
(***************************************************************************)
EXTENDS RunStore, EffectKernel, FiniteSetTheorems, TLAPS

-----------------------------------------------------------------------------
(* The run store. *)

RunsKeepTheirIds ==
    \A r \in RunIds : Exists(r) => runs[r].runId = r

HeldSnapshotsAreVersions ==
    \A p \in Processes : loaded[p] # None =>
        LET run == runs[loaded[p].runId] IN
        /\ run # None
        /\ loaded[p].version <= run.version
        /\ loaded[p].version = run.version => loaded[p] = run

StoreInv ==
    /\ StoreTypeOK
    /\ RunsKeepTheirIds
    /\ HeldSnapshotsAreVersions
    /\ WorkOnlyUnderApproval

-----------------------------------------------------------------------------
(* Facts about the edge table, read off edge by edge.                      *)

LEMMA EdgeTypes ==
    ASSUME NEW e \in WORKFLOW_DEFINITION
    PROVE  /\ e.from \in ACTIVE_STATES
           /\ e.to \in WORKFLOW_STATES
           /\ e.command \in WORKFLOW_COMMANDS
<1>1. CASE e \in BASE_EDGES
  BY <1>1 DEF BASE_EDGES, Edge, WORKFLOW_STATES, ACTIVE_STATES, TERMINAL_WORKFLOW_STATES,
              WORKFLOW_COMMANDS
<1>2. CASE e \in INVALIDATION_EDGES
  BY <1>2 DEF INVALIDATION_EDGES, Edge, WORKFLOW_STATES, ACTIVE_STATES, WORKFLOW_COMMANDS
<1>3. CASE e \in TERMINAL_EDGES
  BY <1>3 DEF TERMINAL_EDGES, Edge, WORKFLOW_STATES, TERMINAL_WORKFLOW_STATES, WORKFLOW_COMMANDS
<1>4. QED
  BY <1>1, <1>2, <1>3 DEF WORKFLOW_DEFINITION

\* Only a grant leads into the authorised states, only the clearing commands lead back out.
LEMMA EdgeApprovals ==
    ASSUME NEW e \in WORKFLOW_DEFINITION
    PROVE  /\ e.to \in AuthorisedStates =>
                e.from \in AuthorisedStates \/ e.command = "GRANT_EXECUTION_APPROVAL"
           /\ e.to \in ACTIVE_STATES \ AuthorisedStates =>
                \/ e.from \in ACTIVE_STATES \ AuthorisedStates
                \/ e.command \in {"INVALIDATE_EXECUTION_APPROVAL", "EXPAND_REPAIR_SCOPE",
                                  "PREPARE_HANDOFF"}
           /\ e.command = "GRANT_EXECUTION_APPROVAL" => e.to \in AuthorisedStates
           /\ e.command = "REQUEST_REPAIR" => e.from \in AuthorisedStates
           /\ e.command \in {"INVALIDATE_EXECUTION_APPROVAL", "EXPAND_REPAIR_SCOPE",
                             "PREPARE_HANDOFF"} => e.to \notin AuthorisedStates
<1>1. CASE e \in BASE_EDGES
  BY <1>1 DEF BASE_EDGES, Edge, ACTIVE_STATES, AuthorisedStates
<1>2. CASE e \in INVALIDATION_EDGES
  BY <1>2 DEF INVALIDATION_EDGES, Edge, ACTIVE_STATES, AuthorisedStates
<1>3. CASE e \in TERMINAL_EDGES
  BY <1>3 DEF TERMINAL_EDGES, Edge, ACTIVE_STATES, AuthorisedStates
<1>4. QED
  BY <1>1, <1>2, <1>3 DEF WORKFLOW_DEFINITION

-----------------------------------------------------------------------------
(* What the machine returns is a well-formed snapshot of the same run.     *)

LEMMA CommandTypes ==
    ASSUME NEW e \in WORKFLOW_DEFINITION, NEW version \in Nat,
           NEW principal \in Principals, NEW fields \in Commands(e, version)
    PROVE  /\ IssuedBy(principal, fields).type = e.command
           /\ IssuedBy(principal, fields).actorRole \in WORKFLOW_ACTOR_ROLES
           /\ IssuedBy(principal, fields).actorId \in Actors
           /\ IssuedBy(principal, fields).approvalBindingDigest \in Digests \cup {None}
           /\ IssuedBy(principal, fields).successorRunId \in RunIds \cup {None}
BY PrincipalsAssumption DEF Commands, Unless, IssuedBy

LEMMA TransitionTypes ==
    ASSUME NEW current \in RunSnapshot, NEW e \in WORKFLOW_DEFINITION, NEW command,
           command.type = e.command,
           command.actorId \in Actors,
           command.approvalBindingDigest \in Digests \cup {None},
           command.successorRunId \in RunIds \cup {None}
    PROVE  /\ Transition(current, command, e) \in RunSnapshot
           /\ Transition(current, command, e).runId = current.runId
           /\ Transition(current, command, e).version = current.version + 1
<1> DEFINE next == TargetState(current, command, e)
<1>1. next \in WORKFLOW_STATES
  BY EdgeTypes DEF TargetState, WORKFLOW_STATES, ACTIVE_STATES
<1>2. RepairCyclesAfter(current, command, next) \in Nat
  BY DEF RepairCyclesAfter, RunSnapshot
<1>3. ApprovalAfter(current, command) \in Digests \cup {None}
  BY DEF ApprovalAfter, RunSnapshot
<1>4. SuccessorAfter(current, command) \in RunIds \cup {None}
  BY DEF SuccessorAfter, RunSnapshot
<1>5. (CapsuleRequired(current, next) \/ current.terminalCapsuleRequired) \in BOOLEAN
  OBVIOUS
<1>6. ImplementerAfter(current, command) \in Actors \cup {None}
  BY DEF ImplementerAfter, RunSnapshot
<1>7. QED
  BY <1>1, <1>2, <1>3, <1>4, <1>5, <1>6 DEF Transition, RunSnapshot

LEMMA EventTypes ==
    ASSUME NEW current, NEW command, command.type \in WORKFLOW_COMMANDS
    PROVE  EventType(current, command) \in EVENT_TYPES
BY DEF EventType, EVENT_TYPES

\* A decision keeps the approval discipline of the run it is taken on.
ApprovalDiscipline(snapshot) ==
    /\ snapshot.state \in AuthorisedStates => snapshot.approval \in CanonicalDigests
    /\ snapshot.state \in ACTIVE_STATES \ AuthorisedStates => snapshot.approval = None

LEMMA TransitionKeepsDiscipline ==
    ASSUME NEW current \in RunSnapshot, NEW e \in WORKFLOW_DEFINITION, NEW command,
           ApprovalDiscipline(current),
           Accepts(current, command, e)
    PROVE  ApprovalDiscipline(Transition(current, command, e))
<1> DEFINE after == Transition(current, command, e)
<1>1. /\ e.from = current.state /\ e.command = command.type
      /\ GrantApprovalGuard(command) /\ ApprovalPresentGuard(current, command)
  BY DEF Accepts, Guards
<1>2. after.state = TargetState(current, command, e) /\ after.approval = ApprovalAfter(current, command)
  BY DEF Transition
<1>3. CASE InvalidatesApproval(current, command)
  <2>1. after.state = "AWAITING_EXECUTION_APPROVAL" /\ after.approval = None
    BY <1>2, <1>3 DEF TargetState, ApprovalAfter
  <2>2. QED
    BY <2>1 DEF ApprovalDiscipline, AuthorisedStates
<1>4. CASE ~InvalidatesApproval(current, command) /\ RepairLimitReached(current, command)
  <2>1. command.type = "REQUEST_REPAIR" /\ after.state = "HUMAN_RESOLUTION_REQUIRED"
        /\ after.approval = current.approval
    BY <1>2, <1>4 DEF TargetState, ApprovalAfter, RepairLimitReached
  <2>2. current.state \in AuthorisedStates
    BY <1>1, <2>1, EdgeApprovals
  <2>3. QED
    BY <2>1, <2>2 DEF ApprovalDiscipline, AuthorisedStates, ACTIVE_STATES
<1>5. CASE ~InvalidatesApproval(current, command) /\ ~RepairLimitReached(current, command)
  <2>1. after.state = e.to
    BY <1>2, <1>5 DEF TargetState
  <2>2. CASE command.type = "GRANT_EXECUTION_APPROVAL"
    <3>1. after.approval \in CanonicalDigests
      BY <1>1, <1>2, <1>5, <2>2 DEF ApprovalAfter, GrantApprovalGuard
    <3>2. QED
      BY <1>1, <2>1, <2>2, <3>1, EdgeApprovals DEF ApprovalDiscipline
  <2>3. CASE command.type \in {"INVALIDATE_EXECUTION_APPROVAL", "EXPAND_REPAIR_SCOPE",
                               "PREPARE_HANDOFF"}
    <3>1. after.approval = None
      BY <1>2, <2>3 DEF ApprovalAfter
    <3>2. QED
      BY <1>1, <2>1, <2>3, <3>1, EdgeApprovals DEF ApprovalDiscipline
  <2>4. CASE command.type \notin {"GRANT_EXECUTION_APPROVAL", "INVALIDATE_EXECUTION_APPROVAL",
                                  "EXPAND_REPAIR_SCOPE", "PREPARE_HANDOFF"}
    <3>1. after.approval = current.approval
      BY <1>2, <1>5, <2>4 DEF ApprovalAfter
    <3>2. QED
      BY <1>1, <2>1, <2>4, <3>1, EdgeApprovals DEF ApprovalDiscipline
  <2>5. QED
    BY <2>2, <2>3, <2>4
<1>6. QED
  BY <1>3, <1>4, <1>5

-----------------------------------------------------------------------------
(* The inductive invariant.                                                *)

NextSnapshot(p, e, command) == Transition(loaded[p], command, e)

LEMMA NewRunTypes ==
    ASSUME NEW r \in RunIds, NEW kind \in RUN_KINDS, NEW state \in {"CREATED", "EXECUTION_READY"},
           NEW predecessor \in RunIds \cup {None}
    PROVE  /\ NewRun(r, kind, state, predecessor) \in RunSnapshot
           /\ NewRun(r, kind, state, predecessor) # None
           /\ NewRun(r, kind, state, predecessor).runId = r
           /\ NewRun(r, kind, state, predecessor).version = 0
           /\ ApprovalDiscipline(NewRun(r, kind, state, predecessor))
<1>1. state \in WORKFLOW_STATES /\ state \notin AuthorisedStates
  BY DEF WORKFLOW_STATES, ACTIVE_STATES, AuthorisedStates
<1>2. NewRun(r, kind, state, predecessor) \in RunSnapshot
  BY <1>1 DEF NewRun, RunSnapshot
<1>3. NewRun(r, kind, state, predecessor) # None
  BY <1>2, NoneIsNoSnapshot
<1>4. QED
  BY <1>1, <1>2, <1>3 DEF NewRun, ApprovalDiscipline

\* What a decision that passed the compare-and-set was decided on: the current run.
LEMMA DecidedOnCurrentRun ==
    ASSUME StoreInv, NEW p \in Processes, NEW e \in WORKFLOW_DEFINITION,
           NEW principal \in Principals, loaded[p] # None,
           NEW fields \in Commands(e, loaded[p].version),
           ApplyWorkflow(p, e, IssuedBy(principal, fields))
    PROVE  LET r == loaded[p].runId
               after == NextSnapshot(p, e, IssuedBy(principal, fields)) IN
           /\ r \in RunIds /\ runs[r] # None /\ runs[r] = loaded[p]
           /\ runs[r].state \notin TERMINAL_WORKFLOW_STATES
           /\ after \in RunSnapshot /\ after.runId = r
           /\ after.version = runs[r].version + 1
           /\ ApprovalDiscipline(after)
           /\ runs' = [runs EXCEPT ![r] = after]
           /\ loaded' = [loaded EXCEPT ![p] = None]
<1> DEFINE r == loaded[p].runId
           command == IssuedBy(principal, fields)
           after == NextSnapshot(p, e, command)
<1>1. loaded[p] \in RunSnapshot /\ r \in RunIds
  BY DEF StoreInv, StoreTypeOK, RunSnapshot
<1>2. /\ command.type = e.command
      /\ command.actorId \in Actors
      /\ command.approvalBindingDigest \in Digests \cup {None}
      /\ command.successorRunId \in RunIds \cup {None}
  <2>1. loaded[p].version \in Nat
    BY <1>1 DEF RunSnapshot
  <2>2. QED
    BY <2>1, CommandTypes
<1>3. after \in RunSnapshot /\ after.runId = r /\ after.version = loaded[p].version + 1
  BY <1>1, <1>2, TransitionTypes DEF NextSnapshot
<1>4. /\ Accepts(loaded[p], command, e)
      /\ runs[r].version = after.version - 1
      /\ runs' = [runs EXCEPT ![r] = after]
      /\ loaded' = [loaded EXCEPT ![p] = None]
  BY DEF ApplyWorkflow, ApplyTransition, Persistable, NextSnapshot
<1>5. runs[r] # None /\ (loaded[p].version = runs[r].version => loaded[p] = runs[r])
  BY DEF StoreInv, HeldSnapshotsAreVersions
<1>6. runs[r] = loaded[p]
  BY <1>1, <1>3, <1>4, <1>5 DEF RunSnapshot
<1>7. ApprovalDiscipline(loaded[p])
  BY <1>1, <1>5, <1>6 DEF StoreInv, WorkOnlyUnderApproval, ApprovalDiscipline, Exists
<1>8. ApprovalDiscipline(after)
  BY <1>1, <1>4, <1>7, TransitionKeepsDiscipline DEF NextSnapshot
<1>9. runs[r].state \notin TERMINAL_WORKFLOW_STATES
  BY <1>4, <1>6 DEF Accepts
<1>10. QED
  BY <1>1, <1>3, <1>4, <1>5, <1>6, <1>8, <1>9

LEMMA StoreInitInvariant == StoreInit => StoreInv
<1> SUFFICES ASSUME StoreInit PROVE StoreInv
  OBVIOUS
<1>1. StoreTypeOK
  BY DEF StoreInit, StoreTypeOK
<1>2. RunsKeepTheirIds /\ HeldSnapshotsAreVersions /\ WorkOnlyUnderApproval
  BY DEF StoreInit, RunsKeepTheirIds, HeldSnapshotsAreVersions, WorkOnlyUnderApproval, Exists
<1>3. QED
  BY <1>1, <1>2 DEF StoreInv

\* One step, one action at a time.  The seal and the event log are typed by their own
\* actions; the runs and the held snapshots change together.
LEMMA StepKeepsRuns ==
    ASSUME StoreInv, StoreNext
    PROVE  /\ runs' \in [RunIds -> RunSnapshot \cup {None}]
           /\ loaded' \in [Processes -> RunSnapshot \cup {None}]
           /\ RunsKeepTheirIds'
           /\ HeldSnapshotsAreVersions'
           /\ WorkOnlyUnderApproval'
<1> USE DEF Exists
<1>0. /\ runs \in [RunIds -> RunSnapshot \cup {None}]
      /\ loaded \in [Processes -> RunSnapshot \cup {None}]
      /\ RunsKeepTheirIds /\ HeldSnapshotsAreVersions
      /\ \A r \in RunIds : runs[r] # None => ApprovalDiscipline(runs[r])
  BY DEF StoreInv, StoreTypeOK, WorkOnlyUnderApproval, ApprovalDiscipline
<1>1. ASSUME NEW r \in RunIds, NEW new \in RunSnapshot,
             runs[r] = None, new # None, new.runId = r, ApprovalDiscipline(new),
             runs' = [runs EXCEPT ![r] = new],
             \A p \in Processes : loaded'[p] \in {loaded[p], None},
             loaded' \in [Processes -> RunSnapshot \cup {None}]
      PROVE  /\ runs' \in [RunIds -> RunSnapshot \cup {None}]
             /\ RunsKeepTheirIds' /\ HeldSnapshotsAreVersions' /\ WorkOnlyUnderApproval'
  <2>1. RunsKeepTheirIds'
    BY <1>0, <1>1 DEF RunsKeepTheirIds
  <2>2. HeldSnapshotsAreVersions'
    <3> SUFFICES ASSUME NEW p \in Processes, loaded'[p] # None
                 PROVE  LET run == runs'[loaded'[p].runId] IN
                        /\ run # None
                        /\ loaded'[p].version <= run.version
                        /\ loaded'[p].version = run.version => loaded'[p] = run
      BY DEF HeldSnapshotsAreVersions
    <3>1. loaded'[p] = loaded[p] /\ loaded[p] \in RunSnapshot
      BY <1>0, <1>1
    <3>2. loaded[p].runId \in RunIds /\ loaded[p].runId # r
      BY <1>0, <1>1, <3>1 DEF HeldSnapshotsAreVersions, RunSnapshot
    <3>3. runs'[loaded[p].runId] = runs[loaded[p].runId]
      BY <1>0, <1>1, <3>2
    <3>4. QED
      BY <1>0, <3>1, <3>3 DEF HeldSnapshotsAreVersions
  <2>3. WorkOnlyUnderApproval'
    BY <1>0, <1>1 DEF WorkOnlyUnderApproval, ApprovalDiscipline
  <2>4. QED
    BY <1>0, <1>1, <2>1, <2>2, <2>3
<1>2. ASSUME NEW r \in RunIds, NEW start \in Starts[r], CreateRun(r, start)
      PROVE  /\ runs' \in [RunIds -> RunSnapshot \cup {None}]
             /\ loaded' \in [Processes -> RunSnapshot \cup {None}]
             /\ RunsKeepTheirIds' /\ HeldSnapshotsAreVersions' /\ WorkOnlyUnderApproval'
  <2>1. start.kind \in RUN_KINDS /\ start.state \in {"CREATED", "EXECUTION_READY"}
    BY <1>2, StartsAssumption
  <2> DEFINE new == NewRun(r, start.kind, start.state, None)
  <2>2. new \in RunSnapshot /\ new # None /\ new.runId = r /\ ApprovalDiscipline(new)
    BY <2>1, NewRunTypes
  <2>3. runs[r] = None /\ runs' = [runs EXCEPT ![r] = new] /\ loaded' = loaded
    BY <1>2 DEF CreateRun
  <2>4. loaded' \in [Processes -> RunSnapshot \cup {None}]
        /\ \A p \in Processes : loaded'[p] \in {loaded[p], None}
    BY <1>0, <2>3
  <2> HIDE DEF new
  <2>5. QED
    BY <1>1, <2>2, <2>3, <2>4
<1>3. ASSUME NEW p \in Processes, NEW r \in RunIds, CreateSuccessor(p, r)
      PROVE  /\ runs' \in [RunIds -> RunSnapshot \cup {None}]
             /\ loaded' \in [Processes -> RunSnapshot \cup {None}]
             /\ RunsKeepTheirIds' /\ HeldSnapshotsAreVersions' /\ WorkOnlyUnderApproval'
  <2> DEFINE new == HandoffSuccessor(loaded[p], r)
  <2>1. loaded[p].runId \in RunIds
    BY <1>0, <1>3 DEF CreateSuccessor, RunSnapshot
  <2>2. new \in RunSnapshot /\ new # None /\ new.runId = r /\ ApprovalDiscipline(new)
    BY <2>1, NewRunTypes DEF HandoffSuccessor, RUN_KINDS
  <2>3. /\ runs[r] = None /\ runs' = [runs EXCEPT ![r] = new]
        /\ loaded' = [loaded EXCEPT ![p] = None]
    BY <1>3 DEF CreateSuccessor
  <2>4. /\ loaded' \in [Processes -> RunSnapshot \cup {None}]
        /\ \A q \in Processes : loaded'[q] \in {loaded[q], None}
    BY <1>0, <2>3
  <2> HIDE DEF new
  <2>5. QED
    BY <1>1, <2>2, <2>3, <2>4
<1>4. ASSUME NEW p \in Processes, NEW r \in RunIds, GetRun(p, r)
      PROVE  /\ runs' \in [RunIds -> RunSnapshot \cup {None}]
             /\ loaded' \in [Processes -> RunSnapshot \cup {None}]
             /\ RunsKeepTheirIds' /\ HeldSnapshotsAreVersions' /\ WorkOnlyUnderApproval'
  <2>1. /\ loaded' = [loaded EXCEPT ![p] = runs[r]] /\ runs' = runs
        /\ runs[r] # None /\ runs[r] \in RunSnapshot /\ runs[r].runId = r
    BY <1>0, <1>4 DEF GetRun, RunsKeepTheirIds
  <2>2. runs[r].version <= runs[r].version
    BY <2>1 DEF RunSnapshot
  <2>3. HeldSnapshotsAreVersions'
    BY <1>0, <2>1, <2>2 DEF HeldSnapshotsAreVersions
  <2>4. QED
    BY <1>0, <2>1, <2>3 DEF RunsKeepTheirIds, WorkOnlyUnderApproval, ApprovalDiscipline
<1>5. ASSUME NEW p \in Processes, loaded[p] # None, NEW e \in WORKFLOW_DEFINITION,
             NEW principal \in Principals, NEW fields \in Commands(e, loaded[p].version),
             ApplyWorkflow(p, e, IssuedBy(principal, fields))
      PROVE  /\ runs' \in [RunIds -> RunSnapshot \cup {None}]
             /\ loaded' \in [Processes -> RunSnapshot \cup {None}]
             /\ RunsKeepTheirIds' /\ HeldSnapshotsAreVersions' /\ WorkOnlyUnderApproval'
  <2> DEFINE r == loaded[p].runId
             after == NextSnapshot(p, e, IssuedBy(principal, fields))
  <2>1. /\ r \in RunIds /\ runs[r] # None
        /\ after \in RunSnapshot /\ after.runId = r
        /\ after.version = runs[r].version + 1
        /\ ApprovalDiscipline(after)
        /\ runs' = [runs EXCEPT ![r] = after]
        /\ loaded' = [loaded EXCEPT ![p] = None]
    BY <1>5, DecidedOnCurrentRun
  <2> HIDE DEF r, after
  <2>2. after # None /\ runs[r] \in RunSnapshot
    BY <1>0, <2>1, NoneIsNoSnapshot
  <2>3. /\ runs' \in [RunIds -> RunSnapshot \cup {None}]
        /\ loaded' \in [Processes -> RunSnapshot \cup {None}]
        /\ RunsKeepTheirIds' /\ WorkOnlyUnderApproval'
    BY <1>0, <2>1 DEF RunsKeepTheirIds, WorkOnlyUnderApproval, ApprovalDiscipline
  <2>4. HeldSnapshotsAreVersions'
    <3> SUFFICES ASSUME NEW q \in Processes, loaded'[q] # None
                 PROVE  LET run == runs'[loaded'[q].runId] IN
                        /\ run # None
                        /\ loaded'[q].version <= run.version
                        /\ loaded'[q].version = run.version => loaded'[q] = run
      BY DEF HeldSnapshotsAreVersions
    <3>1. loaded'[q] = loaded[q] /\ loaded[q] \in RunSnapshot
      BY <1>0, <2>1
    <3>2. loaded[q].runId \in RunIds /\ loaded[q].version \in Nat /\ runs[r].version \in Nat
      BY <2>2, <3>1 DEF RunSnapshot
    <3>3. CASE loaded[q].runId = r
      <4>1. loaded[q].version <= runs[r].version /\ runs'[r] = after
        BY <1>0, <2>1, <3>1, <3>3 DEF HeldSnapshotsAreVersions
      <4>2. loaded[q].version < after.version
        BY <2>1, <3>2, <4>1
      <4>3. QED
        BY <2>1, <2>2, <3>1, <3>2, <3>3, <4>1, <4>2
    <3>4. CASE loaded[q].runId # r
      BY <1>0, <2>1, <3>1, <3>2, <3>4 DEF HeldSnapshotsAreVersions
    <3>5. QED
      BY <3>3, <3>4
  <2>5. QED
    BY <2>3, <2>4
<1>6. ASSUME NEW p \in Processes,
             (\E capsule \in CapsuleIds : RecordRunCapsuleSeal(p, capsule)) \/ Abandon(p)
      PROVE  /\ runs' \in [RunIds -> RunSnapshot \cup {None}]
             /\ loaded' \in [Processes -> RunSnapshot \cup {None}]
             /\ RunsKeepTheirIds' /\ HeldSnapshotsAreVersions' /\ WorkOnlyUnderApproval'
  <2>1. runs' = runs /\ loaded' = [loaded EXCEPT ![p] = None]
    BY <1>6 DEF RecordRunCapsuleSeal, Abandon
  <2>2. HeldSnapshotsAreVersions'
    BY <1>0, <2>1 DEF HeldSnapshotsAreVersions
  <2>3. QED
    BY <1>0, <2>1, <2>2 DEF RunsKeepTheirIds, WorkOnlyUnderApproval, ApprovalDiscipline
<1>7. QED
  BY <1>2, <1>3, <1>4, <1>5, <1>6 DEF StoreNext

LEMMA StepKeepsLogAndSealTypes ==
    ASSUME StoreInv, StoreNext
    PROVE  /\ events' \in [RunIds -> SUBSET EventRow]
           /\ seals' \in [RunIds -> CapsuleSeal \cup {None}]
<1>0. /\ events \in [RunIds -> SUBSET EventRow]
      /\ seals \in [RunIds -> CapsuleSeal \cup {None}]
      /\ runs \in [RunIds -> RunSnapshot \cup {None}]
      /\ loaded \in [Processes -> RunSnapshot \cup {None}]
  BY DEF StoreInv, StoreTypeOK
<1>1. ASSUME NEW p \in Processes, loaded[p] # None, NEW e \in WORKFLOW_DEFINITION,
             NEW principal \in Principals, NEW fields \in Commands(e, loaded[p].version),
             ApplyWorkflow(p, e, IssuedBy(principal, fields))
      PROVE  /\ events' \in [RunIds -> SUBSET EventRow]
             /\ seals' \in [RunIds -> CapsuleSeal \cup {None}]
  <2> DEFINE r == loaded[p].runId
             command == IssuedBy(principal, fields)
             after == NextSnapshot(p, e, command)
             row == [sequence |-> after.version,
                     previousState |-> loaded[p].state,
                     nextState |-> after.state,
                     eventType |-> EventType(loaded[p], command),
                     actorRole |-> command.actorRole,
                     actorId |-> command.actorId]
  <2>1. loaded[p] \in RunSnapshot /\ r \in RunIds /\ after \in RunSnapshot
    BY <1>0, <1>1, DecidedOnCurrentRun
  <2>2. loaded[p].version \in Nat
    BY <2>1 DEF RunSnapshot
  <2>3. /\ command.actorRole \in WORKFLOW_ACTOR_ROLES /\ command.actorId \in Actors
        /\ EventType(loaded[p], command) \in EVENT_TYPES
    BY <2>2, CommandTypes, EdgeTypes, EventTypes
  <2>4. after.version \in Nat /\ loaded[p].state \in WORKFLOW_STATES /\ after.state \in WORKFLOW_STATES
    BY <2>1 DEF RunSnapshot
  <2>5. row \in EventRow
    BY <2>3, <2>4 DEF EventRow
  <2>6. events' = [events EXCEPT ![r] = @ \cup {row}] /\ seals' = seals
    BY <1>1 DEF ApplyWorkflow, ApplyTransition, NextSnapshot
  <2> HIDE DEF row
  <2>7. QED
    BY <1>0, <2>1, <2>5, <2>6
<1>2. ASSUME NEW p \in Processes, NEW capsule \in CapsuleIds, RecordRunCapsuleSeal(p, capsule)
      PROVE  /\ events' \in [RunIds -> SUBSET EventRow]
             /\ seals' \in [RunIds -> CapsuleSeal \cup {None}]
  <2> DEFINE seal == [stateVersion |-> loaded[p].version, status |-> loaded[p].state,
                      capsuleId |-> capsule]
  <2>1. loaded[p] \in RunSnapshot /\ loaded[p].state \in TERMINAL_WORKFLOW_STATES
    BY <1>0, <1>2 DEF RecordRunCapsuleSeal, Sealable
  <2>2. seal \in CapsuleSeal
    BY <2>1 DEF CapsuleSeal, RunSnapshot
  <2>3. seals' = [seals EXCEPT ![loaded[p].runId] = seal] /\ events' = events
    BY <1>2 DEF RecordRunCapsuleSeal
  <2> HIDE DEF seal
  <2>4. QED
    BY <1>0, <2>2, <2>3
<1>3. CASE UNCHANGED <<events, seals>>
  BY <1>0, <1>3
<1>4. QED
  BY <1>1, <1>2, <1>3 DEF StoreNext, CreateRun, CreateSuccessor, GetRun, Abandon

LEMMA StoreStepKeepsInvariant ==
    ASSUME StoreInv, [StoreNext]_storeVars
    PROVE  StoreInv'
<1>1. CASE StoreNext
  BY <1>1, StepKeepsRuns, StepKeepsLogAndSealTypes DEF StoreInv, StoreTypeOK
<1>2. CASE UNCHANGED storeVars
  BY <1>2 DEF storeVars, StoreInv, StoreTypeOK, RunsKeepTheirIds, HeldSnapshotsAreVersions,
              WorkOnlyUnderApproval, Exists
<1>3. QED
  BY <1>1, <1>2

(* The inductive invariant of the run store holds in every state: every row is a run of its own *)
(* identifier, every snapshot a process holds is a version the store once had, and work is      *)
(* recorded only under an approval (updateRun's version check and applyEvent's guards).         *)
THEOREM StoreInvariance == StoreSpec => []StoreInv
BY StoreInitInvariant, StoreStepKeepsInvariant, PTL DEF StoreSpec

(***************************************************************************)
(* Every row and every held snapshot is well formed in every reachable     *)
(* state of any instance.                                                  *)
(***************************************************************************)
THEOREM TypeCorrect == StoreSpec => []StoreTypeOK
<1>1. StoreInv => StoreTypeOK
  BY DEF StoreInv
<1>2. QED
  BY <1>1, StoreInvariance, PTL

(***************************************************************************)
(* However many processes race, a run is implemented, verified, repaired   *)
(* or reviewed only under a canonical approval, and no approval outlives   *)
(* its invalidation.                                                       *)
(***************************************************************************)
THEOREM ApprovalTheorem == StoreSpec => []WorkOnlyUnderApproval
<1>1. StoreInv => WorkOnlyUnderApproval
  BY DEF StoreInv
<1>2. QED
  BY <1>1, StoreInvariance, PTL

(***************************************************************************)
(* No step of any process reopens an ended run, replaces a seal, drops an  *)
(* event or moves a version other than one forward.                        *)
(***************************************************************************)
EndedStep ==
    \A r \in RunIds :
        /\ events[r] \subseteq events'[r]
        /\ Exists(r) => runs'[r] # None /\ runs'[r].version \in {runs[r].version, runs[r].version + 1}
        /\ Exists(r) /\ runs[r].state \in TERMINAL_WORKFLOW_STATES => runs'[r] = runs[r]
        /\ seals[r] # None => seals'[r] = seals[r]

LEMMA EveryStepIsEndedStep ==
    ASSUME StoreInv, [StoreNext]_storeVars
    PROVE  [EndedStep]_storeVars
<1> USE DEF Exists
<1>0. /\ events \in [RunIds -> SUBSET EventRow]
      /\ seals \in [RunIds -> CapsuleSeal \cup {None}]
      /\ runs \in [RunIds -> RunSnapshot \cup {None}]
      /\ loaded \in [Processes -> RunSnapshot \cup {None}]
  BY DEF StoreInv, StoreTypeOK
<1>1. ASSUME NEW p \in Processes, loaded[p] # None, NEW e \in WORKFLOW_DEFINITION,
             NEW principal \in Principals, NEW fields \in Commands(e, loaded[p].version),
             ApplyWorkflow(p, e, IssuedBy(principal, fields))
      PROVE  EndedStep
  <2> DEFINE q == loaded[p].runId
             after == NextSnapshot(p, e, IssuedBy(principal, fields))
  <2>1. /\ q \in RunIds /\ runs[q] # None
        /\ runs[q].state \notin TERMINAL_WORKFLOW_STATES
        /\ after \in RunSnapshot
        /\ after.version = runs[q].version + 1
        /\ runs' = [runs EXCEPT ![q] = after]
    BY <1>1, DecidedOnCurrentRun
  <2>2. after # None
    BY <2>1, NoneIsNoSnapshot
  <2>3. seals' = seals /\ \A r \in RunIds : events[r] \subseteq events'[r]
    BY <1>0, <1>1 DEF ApplyWorkflow, ApplyTransition
  <2> HIDE DEF q, after
  <2>4. QED
    BY <1>0, <2>1, <2>2, <2>3 DEF EndedStep
<1>2. ASSUME NEW p \in Processes, NEW capsule \in CapsuleIds, RecordRunCapsuleSeal(p, capsule)
      PROVE  EndedStep
  <2>1. /\ runs' = runs /\ events' = events /\ seals[loaded[p].runId] = None
        /\ \E seal : seals' = [seals EXCEPT ![loaded[p].runId] = seal]
    BY <1>2 DEF RecordRunCapsuleSeal
  <2>2. QED
    BY <1>0, <2>1 DEF EndedStep
<1>3. ASSUME NEW r \in RunIds, runs[r] = None, UNCHANGED <<events, seals>>,
             \E new : runs' = [runs EXCEPT ![r] = new]
      PROVE  EndedStep
  BY <1>0, <1>3 DEF EndedStep
<1>4. CASE UNCHANGED <<runs, events, seals>>
  BY <1>4 DEF EndedStep
<1>5. QED
  BY <1>1, <1>2, <1>3, <1>4 DEF StoreNext, storeVars, CreateRun, CreateSuccessor, GetRun, Abandon

(* A run that completed, failed or was cancelled keeps its row and its events for ever: the   *)
(* transition table has no edge out of an ended state, and the version check refuses a writer *)
(* that loaded the row before it ended.                                                       *)
THEOREM EndedTheorem == StoreSpec => EndedRunsStayEnded
<1>1. StoreInv /\ [StoreNext]_storeVars => [EndedStep]_storeVars
  BY EveryStepIsEndedStep
<1>2. StoreSpec => [][EndedStep]_storeVars
  BY <1>1, StoreInvariance, PTL DEF StoreSpec
<1>3. QED
  BY <1>2 DEF EndedRunsStayEnded, EndedStep

-----------------------------------------------------------------------------
(* The log.  A decision appends one row, numbered past every other.        *)

AppendedRow(p, e, command) ==
    [sequence |-> NextSnapshot(p, e, command).version,
     previousState |-> loaded[p].state,
     nextState |-> NextSnapshot(p, e, command).state,
     eventType |-> EventType(loaded[p], command),
     actorRole |-> command.actorRole,
     actorId |-> command.actorId]

\* A capsule is owed by no probe: what a sealer may seal is not one.
CapsulesOwed ==
    \A r \in RunIds :
        Exists(r) /\ runs[r].terminalCapsuleRequired => runs[r].runKind # "probe"

LogIsFinite == \A r \in RunIds : IsFiniteSet(events[r])

LogInv == LogMatchesRun /\ LogIsFinite /\ CapsulesOwed

\* What the edges of the repair loop do to the state and to the counted cycles.
LEMMA EdgeRepairs ==
    ASSUME NEW e \in WORKFLOW_DEFINITION
    PROVE  e.command = "REQUEST_REPAIR" => e.to = "REPAIRING"
<1>1. CASE e \in BASE_EDGES
  BY <1>1 DEF BASE_EDGES, Edge
<1>2. CASE e \in INVALIDATION_EDGES
  BY <1>2 DEF INVALIDATION_EDGES, Edge
<1>3. CASE e \in TERMINAL_EDGES
  BY <1>3 DEF TERMINAL_EDGES, Edge
<1>4. QED
  BY <1>1, <1>2, <1>3 DEF WORKFLOW_DEFINITION

LEMMA RepairDecision ==
    ASSUME NEW current \in RunSnapshot, NEW e \in WORKFLOW_DEFINITION, NEW command,
           e.command = command.type,
           current.repairCycles <= RepairLimit
    PROVE  LET after == Transition(current, command, e)
               type == EventType(current, command) IN
           /\ type = "REQUEST_REPAIR" => after.repairCycles = current.repairCycles + 1
           /\ type = "RESOLVE_REPAIR" => after.repairCycles = 0
           /\ type \notin {"REQUEST_REPAIR", "RESOLVE_REPAIR"} =>
                after.repairCycles = current.repairCycles
           /\ after.repairCycles <= RepairLimit
<1> DEFINE next == TargetState(current, command, e)
<1>1. Transition(current, command, e).repairCycles = RepairCyclesAfter(current, command, next)
  BY DEF Transition
<1>2. current.repairCycles \in Nat /\ RepairLimit \in Nat
  BY RepairLimitAssumption DEF RunSnapshot
<1>3. CASE command.type = "REQUEST_REPAIR" /\ current.repairCycles >= RepairLimit
  <2>1. next = "HUMAN_RESOLUTION_REQUIRED" /\ EventType(current, command) = "REPAIR_LIMIT_REACHED"
    BY <1>3 DEF TargetState, EventType, InvalidatesApproval, RepairLimitReached
  <2>2. RepairCyclesAfter(current, command, next) = current.repairCycles
    BY <1>3, <2>1 DEF RepairCyclesAfter
  <2>3. QED
    BY <1>1, <2>1, <2>2
<1>4. CASE command.type = "REQUEST_REPAIR" /\ ~(current.repairCycles >= RepairLimit)
  <2>1. next = "REPAIRING" /\ EventType(current, command) = "REQUEST_REPAIR"
    BY <1>4, EdgeRepairs DEF TargetState, EventType, InvalidatesApproval, RepairLimitReached
  <2>2. RepairCyclesAfter(current, command, next) = current.repairCycles + 1
    BY <1>4, <2>1 DEF RepairCyclesAfter
  <2>3. QED
    BY <1>1, <1>2, <1>4, <2>1, <2>2
<1>5. CASE command.type = "RESOLVE_REPAIR"
  <2>1. EventType(current, command) = "RESOLVE_REPAIR"
    BY <1>5 DEF EventType, InvalidatesApproval, RepairLimitReached
  <2>2. RepairCyclesAfter(current, command, next) = 0
    BY <1>5 DEF RepairCyclesAfter
  <2>3. QED
    BY <1>1, <1>2, <2>1, <2>2
<1>6. CASE command.type \notin {"REQUEST_REPAIR", "RESOLVE_REPAIR"}
  <2>1. EventType(current, command) \notin {"REQUEST_REPAIR", "RESOLVE_REPAIR"}
    BY <1>6 DEF EventType, RepairLimitReached
  <2>2. RepairCyclesAfter(current, command, next) = current.repairCycles
    BY <1>6 DEF RepairCyclesAfter
  <2>3. QED
    BY <1>1, <2>1, <2>2
<1>7. QED
  BY <1>3, <1>4, <1>5, <1>6

\* RepairRequestsSinceResolution of a log, and what one more row makes of it.
OpenRequests(log) ==
    { row \in log :
        /\ row.eventType = "REQUEST_REPAIR"
        /\ \A other \in log : other.eventType = "RESOLVE_REPAIR" => other.sequence < row.sequence }

LEMMA AppendedRequests ==
    ASSUME NEW log \in SUBSET EventRow, IsFiniteSet(log), NEW row \in EventRow,
           \A other \in log : other.sequence < row.sequence
    PROVE  /\ IsFiniteSet(log \cup {row})
           /\ row.eventType = "REQUEST_REPAIR" =>
                Cardinality(OpenRequests(log \cup {row})) = Cardinality(OpenRequests(log)) + 1
           /\ row.eventType = "RESOLVE_REPAIR" => Cardinality(OpenRequests(log \cup {row})) = 0
           /\ row.eventType \notin {"REQUEST_REPAIR", "RESOLVE_REPAIR"} =>
                Cardinality(OpenRequests(log \cup {row})) = Cardinality(OpenRequests(log))
<1>0. /\ row.sequence \in Nat
      /\ \A other \in log : other.sequence \in Nat /\ ~(row.sequence < other.sequence)
      /\ row \notin log
      /\ ~(row.sequence < row.sequence)
  BY DEF EventRow
<1>1. IsFiniteSet(log \cup {row})
  BY FS_AddElement
<1>2. IsFiniteSet(OpenRequests(log))
  BY FS_Subset DEF OpenRequests
<1>3. ASSUME row.eventType = "REQUEST_REPAIR"
      PROVE  Cardinality(OpenRequests(log \cup {row})) = Cardinality(OpenRequests(log)) + 1
  <2>1. OpenRequests(log \cup {row}) = OpenRequests(log) \cup {row}
    BY <1>0, <1>3 DEF OpenRequests
  <2>2. row \notin OpenRequests(log)
    BY <1>0 DEF OpenRequests
  <2>3. QED
    BY <1>2, <2>1, <2>2, FS_AddElement
<1>4. ASSUME row.eventType = "RESOLVE_REPAIR"
      PROVE  Cardinality(OpenRequests(log \cup {row})) = 0
  <2>1. OpenRequests(log \cup {row}) = {}
    BY <1>0, <1>4 DEF OpenRequests
  <2>2. QED
    BY <2>1, FS_EmptySet
<1>5. ASSUME row.eventType \notin {"REQUEST_REPAIR", "RESOLVE_REPAIR"}
      PROVE  OpenRequests(log \cup {row}) = OpenRequests(log)
  BY <1>5 DEF OpenRequests
<1>6. QED
  BY <1>1, <1>3, <1>4, <1>5

\* The decision that is persisted: one row, about the run as it is.
LEMMA DecisionAppends ==
    ASSUME StoreInv, NEW p \in Processes, NEW e \in WORKFLOW_DEFINITION,
           NEW principal \in Principals, loaded[p] # None,
           NEW fields \in Commands(e, loaded[p].version),
           ApplyWorkflow(p, e, IssuedBy(principal, fields))
    PROVE  LET r == loaded[p].runId
               command == IssuedBy(principal, fields)
               row == AppendedRow(p, e, command) IN
           /\ events' = [events EXCEPT ![r] = events[r] \cup {row}]
           /\ seals' = seals
           /\ row \in EventRow
           /\ row.sequence = runs[r].version + 1
           /\ row.previousState = runs[r].state
           /\ command.type = e.command
           /\ command.actorId \in Actors
           /\ Accepts(runs[r], command, e)
<1> DEFINE r == loaded[p].runId
           command == IssuedBy(principal, fields)
           after == NextSnapshot(p, e, command)
           row == AppendedRow(p, e, command)
<1>1. loaded[p] \in RunSnapshot /\ after \in RunSnapshot /\ runs[r] = loaded[p]
      /\ after.version = runs[r].version + 1
  BY DecidedOnCurrentRun DEF StoreInv, StoreTypeOK
<1>2. /\ command.actorRole \in WORKFLOW_ACTOR_ROLES /\ command.actorId \in Actors
      /\ command.type = e.command
      /\ EventType(loaded[p], command) \in EVENT_TYPES
  <2>1. loaded[p].version \in Nat
    BY <1>1 DEF RunSnapshot
  <2>2. QED
    BY <2>1, CommandTypes, EdgeTypes, EventTypes
<1>3. after.version \in Nat /\ loaded[p].state \in WORKFLOW_STATES /\ after.state \in WORKFLOW_STATES
  BY <1>1 DEF RunSnapshot
<1>4. row \in EventRow
  BY <1>2, <1>3 DEF AppendedRow, EventRow
<1>5. /\ events' = [events EXCEPT ![r] = events[r] \cup {row}] /\ seals' = seals
      /\ Accepts(runs[r], command, e)
  BY <1>1 DEF ApplyWorkflow, ApplyTransition, AppendedRow, NextSnapshot
<1>6. QED
  BY <1>1, <1>2, <1>4, <1>5 DEF AppendedRow

\* EventsMatch of a log, and what one more row makes of it.
Chained(log, version, state) ==
    /\ { x.sequence : x \in log } = 1..version
    /\ \A a, b \in log :
         /\ a.sequence = b.sequence => a = b
         /\ b.sequence = a.sequence + 1 => a.nextState = b.previousState
    /\ \A a \in log : a.sequence = version => a.nextState = state

LEMMA AppendedChain ==
    ASSUME NEW log, NEW row, NEW version \in Nat, NEW state,
           Chained(log, version, state),
           row.sequence = version + 1, row.previousState = state
    PROVE  Chained(log \cup {row}, version + 1, row.nextState)
<1> USE DEF Chained
<1> DEFINE new == log \cup {row}
<1>1. \A a \in log : a.sequence \in 1..version
  OBVIOUS
<1>2. \A a \in log : a.sequence # version + 1 /\ a.sequence # version + 2 /\ a.sequence \in Nat
  BY <1>1
<1>3. { x.sequence : x \in new } = 1..(version + 1)
  <2>1. { x.sequence : x \in new } = { x.sequence : x \in log } \cup {version + 1}
    OBVIOUS
  <2>2. (1..version) \cup {version + 1} = 1..(version + 1)
    OBVIOUS
  <2>3. QED
    BY <2>1, <2>2
<1>4. ASSUME NEW a \in new, NEW b \in new
      PROVE  /\ a.sequence = b.sequence => a = b
             /\ b.sequence = a.sequence + 1 => a.nextState = b.previousState
  <2>1. CASE a \in log /\ b \in log
    BY <2>1
  <2>2. CASE a \in log /\ b = row
    BY <1>2, <2>2
  <2>3. CASE a = row /\ b \in log
    BY <1>2, <2>3
  <2>4. CASE a = row /\ b = row
    BY <2>4
  <2>5. QED
    BY <2>1, <2>2, <2>3, <2>4
<1>5. \A a \in new : a.sequence = version + 1 => a.nextState = row.nextState
  BY <1>2
<1>6. QED
  BY <1>3, <1>4, <1>5

\* One conjunct of LogMatchesRun, about one run.
LogMatches(r) ==
    /\ ~Exists(r) => events[r] = {} /\ seals[r] = None
    /\ Exists(r) => EventsMatch(r) /\ RepairsMatch(r) /\ (seals[r] # None => SealMatches(r))

LEMMA DecisionKeepsLog ==
    ASSUME StoreInv, LogInv, NEW p \in Processes, NEW e \in WORKFLOW_DEFINITION,
           NEW principal \in Principals, loaded[p] # None,
           NEW fields \in Commands(e, loaded[p].version),
           ApplyWorkflow(p, e, IssuedBy(principal, fields))
    PROVE  LogInv'
<1>0. PICK r \in RunIds : r = loaded[p].runId
  BY DEF StoreInv, StoreTypeOK, RunSnapshot
<1> DEFINE command == IssuedBy(principal, fields)
           after == NextSnapshot(p, e, command)
           row == AppendedRow(p, e, command)
<1>1. /\ runs[r] # None /\ runs[r] = loaded[p]
      /\ runs[r].state \notin TERMINAL_WORKFLOW_STATES
      /\ after \in RunSnapshot /\ after.runId = r
      /\ after.version = runs[r].version + 1
      /\ runs' = [runs EXCEPT ![r] = after]
  BY <1>0, DecidedOnCurrentRun
<1>2. /\ events' = [events EXCEPT ![r] = events[r] \cup {row}] /\ seals' = seals
      /\ row \in EventRow /\ row.sequence = runs[r].version + 1
      /\ row.previousState = runs[r].state
      /\ command.type = e.command
      /\ Accepts(runs[r], command, e)
  BY <1>0, DecisionAppends
<1>3. row.nextState = after.state /\ row.eventType = EventType(runs[r], command)
      /\ after = Transition(runs[r], command, e)
  BY <1>1 DEF AppendedRow, NextSnapshot
<1>4. /\ runs \in [RunIds -> RunSnapshot \cup {None}]
      /\ events \in [RunIds -> SUBSET EventRow]
      /\ seals \in [RunIds -> CapsuleSeal \cup {None}]
  BY DEF StoreInv, StoreTypeOK
<1>5. runs[r] \in RunSnapshot /\ runs[r].version \in Nat /\ after # None
  BY <1>1, <1>4, NoneIsNoSnapshot DEF RunSnapshot
<1>6. EventsMatch(r) /\ RepairsMatch(r) /\ IsFiniteSet(events[r])
      /\ (seals[r] # None => SealMatches(r))
  BY <1>1 DEF LogInv, LogMatchesRun, LogIsFinite, Exists
<1>7. seals[r] = None
  BY <1>1, <1>4, <1>6 DEF SealMatches, CapsuleSeal
<1>8. \A q \in RunIds : q # r => runs'[q] = runs[q] /\ events'[q] = events[q] /\ seals'[q] = seals[q]
  BY <1>1, <1>2, <1>4
<1>9. runs'[r] = after /\ events'[r] = events[r] \cup {row} /\ seals'[r] = None
  BY <1>1, <1>2, <1>4, <1>7
<1>10. events[r] \in SUBSET EventRow
  BY <1>1, <1>4
<1> HIDE DEF command, after, row
<1>11. EventsMatch(r)'
  <2>1. Chained(events[r], runs[r].version, runs[r].state)
    BY <1>6 DEF EventsMatch, Chained
  <2>2. Chained(events[r] \cup {row}, runs[r].version + 1, row.nextState)
    BY <1>2, <1>5, <2>1, AppendedChain
  <2>3. Chained(events'[r], runs'[r].version, runs'[r].state)
    BY <1>1, <1>3, <1>9, <2>2
  <2>4. QED
    BY <2>3 DEF EventsMatch, Chained
<1>12. \A x \in events[r] : x.sequence < row.sequence
  <2>1. \A x \in events[r] : x.sequence \in 1..runs[r].version
    BY <1>6 DEF EventsMatch
  <2>2. QED
    BY <1>2, <1>5, <2>1
<1>13. RepairsMatch(r)' /\ IsFiniteSet(events'[r])
  <2>1. runs[r].repairCycles = Cardinality(OpenRequests(events[r]))
        /\ runs[r].repairCycles <= RepairLimit
    BY <1>6 DEF RepairsMatch, RepairRequestsSinceResolution, OpenRequests
  <2>2. /\ row.eventType = "REQUEST_REPAIR" => after.repairCycles = runs[r].repairCycles + 1
        /\ row.eventType = "RESOLVE_REPAIR" => after.repairCycles = 0
        /\ row.eventType \notin {"REQUEST_REPAIR", "RESOLVE_REPAIR"} =>
             after.repairCycles = runs[r].repairCycles
        /\ after.repairCycles <= RepairLimit
    BY <1>2, <1>3, <1>5, <2>1, RepairDecision
  <2>3. /\ IsFiniteSet(events[r] \cup {row})
        /\ row.eventType = "REQUEST_REPAIR" =>
             Cardinality(OpenRequests(events[r] \cup {row})) = Cardinality(OpenRequests(events[r])) + 1
        /\ row.eventType = "RESOLVE_REPAIR" => Cardinality(OpenRequests(events[r] \cup {row})) = 0
        /\ row.eventType \notin {"REQUEST_REPAIR", "RESOLVE_REPAIR"} =>
             Cardinality(OpenRequests(events[r] \cup {row})) = Cardinality(OpenRequests(events[r]))
    BY <1>2, <1>6, <1>10, <1>12, AppendedRequests
  <2>4. after.repairCycles = Cardinality(OpenRequests(events[r] \cup {row}))
    BY <2>1, <2>2, <2>3
  <2>5. RepairRequestsSinceResolution(r)' = OpenRequests(events[r] \cup {row})
    BY <1>9 DEF RepairRequestsSinceResolution, OpenRequests
  <2>6. QED
    BY <1>9, <2>2, <2>3, <2>4, <2>5 DEF RepairsMatch
<1>14. ASSUME NEW q \in RunIds, q # r
       PROVE  LogMatches(q)'
  <2>1. LogMatches(q)
    BY DEF LogInv, LogMatchesRun, LogMatches
  <2>2. runs'[q] = runs[q] /\ events'[q] = events[q] /\ seals' = seals
    BY <1>2, <1>8, <1>14
  <2>3. QED
    BY <2>1, <2>2 DEF LogMatches, Exists, EventsMatch, RepairsMatch,
                      RepairRequestsSinceResolution, SealMatches
<1>15. LogMatchesRun'
  BY <1>5, <1>9, <1>11, <1>13, <1>14 DEF LogMatchesRun, LogMatches, Exists
<1>16. CapsulesOwed'
  <2>1. after.runKind = runs[r].runKind
        /\ after.terminalCapsuleRequired =
             (CapsuleRequired(runs[r], after.state) \/ runs[r].terminalCapsuleRequired)
    BY <1>3 DEF Transition
  <2>2. after.terminalCapsuleRequired => after.runKind # "probe"
    BY <1>1, <2>1 DEF LogInv, CapsulesOwed, CapsuleRequired, Exists
  <2>3. QED
    BY <1>8, <1>9, <2>2 DEF LogInv, CapsulesOwed, Exists
<1>17. LogIsFinite'
  BY <1>8, <1>13 DEF LogInv, LogIsFinite
<1>18. QED
  BY <1>15, <1>16, <1>17 DEF LogInv

LEMMA CreationKeepsLog ==
    ASSUME StoreInv, LogInv, NEW r \in RunIds, NEW kind, NEW state, NEW predecessor,
           runs[r] = None, NewRun(r, kind, state, predecessor) # None,
           runs' = [runs EXCEPT ![r] = NewRun(r, kind, state, predecessor)],
           UNCHANGED <<events, seals>>
    PROVE  LogInv'
<1> DEFINE new == NewRun(r, kind, state, predecessor)
<1>1. new.version = 0 /\ new.repairCycles = 0 /\ new.terminalCapsuleRequired = FALSE
  BY DEF NewRun
<1>2. events[r] = {} /\ seals[r] = None
  BY DEF LogInv, LogMatchesRun, Exists
<1>3. runs'[r] = new /\ \A q \in RunIds : q # r => runs'[q] = runs[q]
  BY DEF StoreInv, StoreTypeOK
<1> HIDE DEF new
<1>4. EventsMatch(r)'
  <2>1. events'[r] = {} /\ 1..0 = {}
    BY <1>2
  <2>2. QED
    BY <1>1, <1>3, <2>1 DEF EventsMatch
<1>5. RepairsMatch(r)'
  <2>1. RepairRequestsSinceResolution(r)' = {}
    BY <1>2 DEF RepairRequestsSinceResolution
  <2>2. Cardinality({}) = 0 /\ 0 <= RepairLimit
    BY FS_EmptySet, RepairLimitAssumption
  <2>3. QED
    BY <1>1, <1>3, <2>1, <2>2 DEF RepairsMatch
<1>6. ASSUME NEW q \in RunIds, q # r
      PROVE  LogMatches(q)'
  <2>1. LogMatches(q) /\ runs'[q] = runs[q]
    BY <1>3, <1>6 DEF LogInv, LogMatchesRun, LogMatches
  <2>2. QED
    BY <2>1 DEF LogMatches, Exists, EventsMatch, RepairsMatch,
                RepairRequestsSinceResolution, SealMatches
<1>7. LogMatchesRun'
  BY <1>2, <1>3, <1>4, <1>5, <1>6 DEF LogMatchesRun, LogMatches, Exists, new
<1>8. CapsulesOwed' /\ LogIsFinite'
  BY <1>1, <1>3 DEF LogInv, CapsulesOwed, LogIsFinite, Exists
<1>9. QED
  BY <1>7, <1>8 DEF LogInv

\* A sealer's snapshot that passes the check is the run as it ended.
LEMMA SealKeepsLog ==
    ASSUME StoreInv, LogInv, NEW p \in Processes, NEW capsule \in CapsuleIds,
           RecordRunCapsuleSeal(p, capsule)
    PROVE  LogInv'
<1>0. /\ loaded[p] # None /\ loaded[p] \in RunSnapshot
      /\ runs' = runs /\ events' = events
      /\ seals \in [RunIds -> CapsuleSeal \cup {None}]
      /\ \A q \in RunIds : seals[q] # None => seals[q].capsuleId # capsule
  BY DEF RecordRunCapsuleSeal, StoreInv, StoreTypeOK
<1>1. PICK r \in RunIds : r = loaded[p].runId
  BY <1>0 DEF RunSnapshot
<1> DEFINE seal == [stateVersion |-> loaded[p].version, status |-> loaded[p].state,
                    capsuleId |-> capsule]
<1>2. runs[r] # None /\ runs[r] = loaded[p] /\ runs[r].runKind # "probe"
  BY <1>0, <1>1 DEF RecordRunCapsuleSeal, Sealable, StoreInv, HeldSnapshotsAreVersions,
                    LogInv, CapsulesOwed, Exists
<1>3. /\ seals[r] = None /\ seals'[r] = seal
      /\ \A q \in RunIds : q # r => seals'[q] = seals[q]
  BY <1>0, <1>1 DEF RecordRunCapsuleSeal
<1>4. seal.stateVersion = runs[r].version /\ seal.status = runs[r].state /\ seal.capsuleId = capsule
  BY <1>2
<1> HIDE DEF seal
<1>5. SealMatches(r)'
  BY <1>0, <1>2, <1>3, <1>4 DEF SealMatches
<1>6. ASSUME NEW q \in RunIds, q # r, seals[q] # None, SealMatches(q)
      PROVE  SealMatches(q)'
  BY <1>0, <1>3, <1>4, <1>6 DEF SealMatches
<1>7. ASSUME NEW q \in RunIds
      PROVE  LogMatches(q)'
  <2>1. LogMatches(q)
    BY DEF LogInv, LogMatchesRun, LogMatches
  <2>2. EventsMatch(q) => EventsMatch(q)'
    BY <1>0 DEF EventsMatch
  <2>3. RepairsMatch(q) => RepairsMatch(q)'
    BY <1>0 DEF RepairsMatch, RepairRequestsSinceResolution
  <2>4. QED
    BY <1>0, <1>2, <1>3, <1>5, <1>6, <2>1, <2>2, <2>3 DEF LogMatches, Exists
<1>8. LogMatchesRun'
  BY <1>7 DEF LogMatchesRun, LogMatches
<1>9. CapsulesOwed' /\ LogIsFinite'
  BY <1>0 DEF LogInv, CapsulesOwed, LogIsFinite, Exists
<1>10. QED
  BY <1>8, <1>9 DEF LogInv

LEMMA StepKeepsLog ==
    ASSUME StoreInv, LogInv, [StoreNext]_storeVars
    PROVE  LogInv'
<1>1. ASSUME NEW r \in RunIds, NEW start \in Starts[r], CreateRun(r, start)
      PROVE  LogInv'
  <2>1. start.kind \in RUN_KINDS /\ start.state \in {"CREATED", "EXECUTION_READY"}
    BY <1>1, StartsAssumption
  <2>2. NewRun(r, start.kind, start.state, None) # None
    BY <2>1, NewRunTypes
  <2>3. QED
    BY <1>1, <2>2, CreationKeepsLog DEF CreateRun
<1>2. ASSUME NEW p \in Processes, NEW r \in RunIds, CreateSuccessor(p, r)
      PROVE  LogInv'
  <2>1. loaded[p].runId \in RunIds
    BY <1>2 DEF StoreInv, StoreTypeOK, CreateSuccessor, RunSnapshot
  <2>2. NewRun(r, "feature", "EXECUTION_READY", loaded[p].runId) # None
    BY <2>1, NewRunTypes DEF RUN_KINDS
  <2>3. QED
    BY <1>2, <2>2, CreationKeepsLog DEF CreateSuccessor, HandoffSuccessor
<1>3. CASE UNCHANGED <<runs, events, seals>>
  <2>1. \A q \in RunIds : LogMatches(q)
    BY DEF LogInv, LogMatchesRun, LogMatches
  <2>2. ASSUME NEW q \in RunIds
        PROVE  LogMatches(q)'
    BY <1>3, <2>1, <2>2 DEF LogMatches, Exists, EventsMatch, RepairsMatch,
                            RepairRequestsSinceResolution, SealMatches
  <2>3. LogMatchesRun'
    BY <2>2 DEF LogMatchesRun, LogMatches
  <2>4. QED
    BY <1>3, <2>3 DEF LogInv, CapsulesOwed, LogIsFinite, Exists
<1>4. QED
  BY <1>1, <1>2, <1>3, DecisionKeepsLog, SealKeepsLog DEF StoreNext, storeVars, GetRun, Abandon

LEMMA InitLog == StoreInit => LogInv
<1> SUFFICES ASSUME StoreInit PROVE LogInv
  OBVIOUS
<1>1. \A r \in RunIds : runs[r] = None /\ events[r] = {} /\ seals[r] = None
  BY DEF StoreInit
<1>2. IsFiniteSet({})
  BY FS_EmptySet
<1>3. QED
  BY <1>1, <1>2 DEF LogInv, LogMatchesRun, LogIsFinite, CapsulesOwed, Exists

(***************************************************************************)
(* Whatever processes race, the log, the counted repairs and the seal of   *)
(* every run agree with its row (applyTransition, repairCyclesAfter,       *)
(* recordRunCapsuleSeal).                                                  *)
(***************************************************************************)
THEOREM LogTheorem == StoreSpec => []LogMatchesRun
<1>1. StoreInit => LogInv
  BY InitLog
<1>2. StoreInv /\ LogInv /\ [StoreNext]_storeVars => LogInv'
  BY StepKeepsLog
<1>3. LogInv => LogMatchesRun
  BY DEF LogInv
<1>4. QED
  BY <1>1, <1>2, <1>3, StoreInvariance, PTL DEF StoreSpec

-----------------------------------------------------------------------------
(* The way to completion.  Each state from the grant on has the part of    *)
(* the way behind it in its log that leads there.                          *)

WorkStates == {"IMPLEMENTING", "VERIFYING", "REPAIRING", "HUMAN_RESOLUTION_REQUIRED", "HUMAN_REVIEW"}

Granted(log) ==
    { grant \in log :
        /\ grant.eventType = "GRANT_EXECUTION_APPROVAL" /\ grant.actorRole = "human"
        /\ \A row \in log : row.sequence > grant.sequence => row.eventType \notin Voids }

StartedUnder(log, grant) ==
    { start \in log :
        /\ start.eventType = "START_IMPLEMENTATION" /\ grant.sequence < start.sequence
        /\ \A row \in log : row.sequence > start.sequence => row.eventType # "START_IMPLEMENTATION" }

PassedAfter(log, start) ==
    { pass \in log :
        /\ pass.eventType = "PASS_VERIFICATION" /\ pass.actorId # start.actorId
        /\ start.sequence < pass.sequence }

Implemented(log, implementer) ==
    \E grant \in Granted(log) : \E start \in StartedUnder(log, grant) :
        start.actorId = implementer

Passed(log, implementer) ==
    \E grant \in Granted(log) : \E start \in StartedUnder(log, grant) :
        start.actorId = implementer /\ PassedAfter(log, start) # {}

Reviewed(log, version) ==
    \E grant \in Granted(log) : \E start \in StartedUnder(log, grant) :
      \E pass \in PassedAfter(log, start) : \E review \in log :
        /\ review.eventType = "APPROVE_HUMAN_REVIEW" /\ review.actorRole = "human"
        /\ pass.sequence < review.sequence
        /\ review.sequence = version

OnTheWay(log, run) ==
    /\ run.state = "EXECUTION_AUTHORIZED" => Granted(log) # {}
    /\ run.state \in WorkStates => Implemented(log, run.implementationActorId)
    /\ run.state = "HUMAN_REVIEW" => Passed(log, run.implementationActorId)
    /\ run.state = "COMPLETED" /\ run.runKind # "probe" => Reviewed(log, run.version)

WayInv == \A r \in RunIds : Exists(r) => OnTheWay(events[r], runs[r])

\* The edges of the way.
LEMMA EdgeWay ==
    ASSUME NEW e \in WORKFLOW_DEFINITION
    PROVE  /\ e.to = "EXECUTION_AUTHORIZED" =>
                e.command = "GRANT_EXECUTION_APPROVAL" /\ e.roles = {"human"}
           /\ e.command = "START_IMPLEMENTATION" =>
                e.from = "EXECUTION_AUTHORIZED" /\ e.to = "IMPLEMENTING"
           /\ e.command = "REQUEST_REPAIR" => e.from = "VERIFYING"
           /\ e.to \in WorkStates =>
                \/ e.command = "START_IMPLEMENTATION"
                \/ /\ e.from \in WorkStates
                   /\ e.command \notin {"INVALIDATE_EXECUTION_APPROVAL", "EXPAND_REPAIR_SCOPE",
                                        "PREPARE_HANDOFF"}
           /\ e.to = "HUMAN_REVIEW" => e.from = "VERIFYING" /\ e.command = "PASS_VERIFICATION"
           /\ e.to = "COMPLETED" =>
                \/ /\ e.from = "HUMAN_REVIEW" /\ e.command = "APPROVE_HUMAN_REVIEW"
                   /\ e.roles = {"human"}
                \/ e.command = "COMPLETE_PROBE"
<1>1. CASE e \in BASE_EDGES
  BY <1>1 DEF BASE_EDGES, Edge, WorkStates
<1>2. CASE e \in INVALIDATION_EDGES
  BY <1>2 DEF INVALIDATION_EDGES, Edge, WorkStates
<1>3. CASE e \in TERMINAL_EDGES
  BY <1>3 DEF TERMINAL_EDGES, Edge, WorkStates
<1>4. QED
  BY <1>1, <1>2, <1>3 DEF WORKFLOW_DEFINITION

\* What a later row leaves of a way already gone.
LEMMA LaterRow ==
    ASSUME NEW log \in SUBSET EventRow, NEW row \in EventRow,
           \A other \in log : other.sequence < row.sequence,
           row.eventType \notin Voids
    PROVE  /\ Granted(log) \subseteq Granted(log \cup {row})
           /\ row.eventType # "START_IMPLEMENTATION" =>
                \A grant \in log : StartedUnder(log, grant) \subseteq StartedUnder(log \cup {row}, grant)
           /\ row.eventType = "START_IMPLEMENTATION" =>
                \A grant \in log : row \in StartedUnder(log \cup {row}, grant)
           /\ \A start \in log : PassedAfter(log, start) \subseteq PassedAfter(log \cup {row}, start)
<1>0. /\ ~(row.sequence > row.sequence)
      /\ \A other \in log : ~(other.sequence > row.sequence)
  BY DEF EventRow
<1>1. Granted(log) \subseteq Granted(log \cup {row})
  BY DEF Granted
<1>2. ASSUME row.eventType # "START_IMPLEMENTATION"
      PROVE  \A grant \in log : StartedUnder(log, grant) \subseteq StartedUnder(log \cup {row}, grant)
  BY <1>2 DEF StartedUnder
<1>3. ASSUME row.eventType = "START_IMPLEMENTATION"
      PROVE  \A grant \in log : row \in StartedUnder(log \cup {row}, grant)
  BY <1>0, <1>3 DEF StartedUnder
<1>4. \A start \in log : PassedAfter(log, start) \subseteq PassedAfter(log \cup {row}, start)
  BY DEF PassedAfter
<1>5. QED
  BY <1>1, <1>2, <1>3, <1>4

LEMMA DecisionWay ==
    ASSUME NEW log \in SUBSET EventRow, NEW run \in RunSnapshot, NEW e \in WORKFLOW_DEFINITION,
           NEW command, NEW row \in EventRow,
           Accepts(run, command, e), command.actorId \in Actors,
           row.sequence = run.version + 1,
           row.eventType = EventType(run, command),
           row.actorRole = command.actorRole, row.actorId = command.actorId,
           \A other \in log : other.sequence < row.sequence,
           OnTheWay(log, run)
    PROVE  OnTheWay(log \cup {row}, Transition(run, command, e))
<1> DEFINE after == Transition(run, command, e)
           new == log \cup {row}
<1>0. /\ e.from = run.state /\ e.command = command.type
      /\ RunKindGuard(run, command) /\ command.actorRole \in e.roles
      /\ AuthorVerifierGuard(run, command)
  BY DEF Accepts, Guards
<1>1. /\ after.state = TargetState(run, command, e)
      /\ after.implementationActorId = ImplementerAfter(run, command)
      /\ after.runKind = run.runKind
      /\ after.version = run.version + 1
  BY DEF Transition
<1>2. ASSUME row.eventType \notin Voids, row.eventType # "START_IMPLEMENTATION",
             NEW implementer, Implemented(log, implementer)
      PROVE  Implemented(new, implementer)
  <2>1. PICK grant \in Granted(log) :
             \E start \in StartedUnder(log, grant) : start.actorId = implementer
    BY <1>2 DEF Implemented
  <2> PICK start \in StartedUnder(log, grant) : start.actorId = implementer
    BY <2>1
  <2>2. grant \in Granted(new) /\ start \in StartedUnder(new, grant)
    BY <1>2, <2>1, LaterRow DEF Granted
  <2>3. QED
    BY <2>1, <2>2 DEF Implemented
<1>3. CASE InvalidatesApproval(run, command)
  <2>1. after.state = "AWAITING_EXECUTION_APPROVAL"
    BY <1>1, <1>3 DEF TargetState
  <2>2. QED
    BY <2>1 DEF OnTheWay, WorkStates
<1>4. CASE ~InvalidatesApproval(run, command) /\ RepairLimitReached(run, command)
  <2>1. /\ command.type = "REQUEST_REPAIR" /\ after.state = "HUMAN_RESOLUTION_REQUIRED"
        /\ row.eventType = "REPAIR_LIMIT_REACHED"
        /\ after.implementationActorId = run.implementationActorId
    BY <1>1, <1>4 DEF TargetState, EventType, RepairLimitReached, ImplementerAfter
  <2>2. run.state \in WorkStates
    BY <1>0, <2>1, EdgeWay DEF WorkStates
  <2>3. Implemented(new, run.implementationActorId)
    BY <1>2, <2>1, <2>2 DEF OnTheWay, Voids
  <2>4. QED
    BY <2>1, <2>3 DEF OnTheWay
<1>5. CASE ~InvalidatesApproval(run, command) /\ ~RepairLimitReached(run, command)
  <2>0. after.state = e.to /\ row.eventType = command.type
    BY <1>1, <1>5 DEF TargetState, EventType
  <2>1. ASSUME after.state = "EXECUTION_AUTHORIZED"
        PROVE  Granted(new) # {}
    <3>1. row.eventType = "GRANT_EXECUTION_APPROVAL" /\ row.actorRole = "human"
      BY <1>0, <2>0, <2>1, EdgeWay
    <3>2. \A other \in new : ~(other.sequence > row.sequence)
      BY DEF EventRow
    <3>3. row \in Granted(new)
      BY <3>1, <3>2 DEF Granted
    <3>4. QED
      BY <3>3
  <2>2. ASSUME after.state \in WorkStates, command.type = "START_IMPLEMENTATION"
        PROVE  Implemented(new, after.implementationActorId)
    <3>1. run.state = "EXECUTION_AUTHORIZED" /\ after.implementationActorId = row.actorId
          /\ row.eventType = "START_IMPLEMENTATION" /\ row.eventType \notin Voids
      BY <1>0, <1>1, <2>0, <2>2, EdgeWay DEF ImplementerAfter, Voids
    <3>2. PICK grant \in Granted(log) : TRUE
      BY <3>1 DEF OnTheWay
    <3>3. grant \in Granted(new) /\ row \in StartedUnder(new, grant)
      BY <3>1, <3>2, LaterRow DEF Granted
    <3>4. QED
      BY <3>1, <3>3 DEF Implemented
  <2>3. ASSUME after.state \in WorkStates, command.type # "START_IMPLEMENTATION"
        PROVE  /\ run.state \in WorkStates
               /\ row.eventType \notin Voids /\ row.eventType # "START_IMPLEMENTATION"
               /\ after.implementationActorId = run.implementationActorId
    <3>1. /\ run.state \in WorkStates
          /\ command.type \notin {"INVALIDATE_EXECUTION_APPROVAL", "EXPAND_REPAIR_SCOPE",
                                  "PREPARE_HANDOFF"}
      BY <1>0, <2>0, <2>3, EdgeWay
    <3>2. command.type # "EXECUTION_APPROVAL_INVALIDATED"
      BY <1>0, EdgeTypes DEF WORKFLOW_COMMANDS
    <3>3. QED
      BY <1>1, <2>0, <2>3, <3>1, <3>2 DEF ImplementerAfter, Voids
  <2>4. ASSUME after.state \in WorkStates
        PROVE  Implemented(new, after.implementationActorId)
    <3>1. CASE command.type = "START_IMPLEMENTATION"
      BY <2>2, <2>4, <3>1
    <3>2. CASE command.type # "START_IMPLEMENTATION"
      BY <1>2, <2>3, <2>4, <3>2 DEF OnTheWay
    <3>3. QED
      BY <3>1, <3>2
  <2>5. ASSUME after.state = "HUMAN_REVIEW"
        PROVE  Passed(new, after.implementationActorId)
    <3>1. run.state = "VERIFYING" /\ command.type = "PASS_VERIFICATION"
          /\ row.eventType = "PASS_VERIFICATION"
          /\ after.implementationActorId = run.implementationActorId
      BY <1>0, <1>1, <2>0, <2>5, EdgeWay DEF ImplementerAfter
    <3> PICK grant \in Granted(log) :
             \E start \in StartedUnder(log, grant) : start.actorId = run.implementationActorId
      BY <3>1 DEF OnTheWay, WorkStates, Implemented
    <3>2. PICK start \in StartedUnder(log, grant) : start.actorId = run.implementationActorId
      OBVIOUS
    <3>3. start.actorId # row.actorId
      <4>1. start.actorId \in Actors
        BY <3>2 DEF StartedUnder, EventRow
      <4>2. run.implementationActorId # None
        BY <3>2, <4>1, NoneAssumption
      <4>3. QED
        BY <1>0, <3>1, <3>2, <4>2 DEF AuthorVerifierGuard
    <3>4. grant \in Granted(new) /\ start \in StartedUnder(new, grant) /\ start \in log
      BY <3>1, <3>2, LaterRow DEF Granted, StartedUnder, Voids
    <3>5. row \in PassedAfter(new, start)
      BY <3>1, <3>3, <3>4 DEF PassedAfter
    <3>6. QED
      BY <3>1, <3>2, <3>4, <3>5 DEF Passed
  <2>6. ASSUME after.state = "COMPLETED", after.runKind # "probe"
        PROVE  Reviewed(new, after.version)
    <3>1. run.state = "HUMAN_REVIEW" /\ row.eventType = "APPROVE_HUMAN_REVIEW"
          /\ row.actorRole = "human"
      BY <1>0, <1>1, <2>0, <2>6, EdgeWay DEF RunKindGuard
    <3> PICK grant \in Granted(log) :
             \E start \in StartedUnder(log, grant) : PassedAfter(log, start) # {}
      BY <3>1 DEF OnTheWay, Passed
    <3>2. PICK start \in StartedUnder(log, grant) : PassedAfter(log, start) # {}
      OBVIOUS
    <3>3. PICK pass \in PassedAfter(log, start) : TRUE
      BY <3>2
    <3>4. /\ grant \in Granted(new) /\ start \in StartedUnder(new, grant)
          /\ pass \in PassedAfter(new, start)
      <4>1. row.eventType \notin Voids /\ row.eventType # "START_IMPLEMENTATION"
        BY <3>1 DEF Voids
      <4>2. grant \in log /\ start \in log
        BY <3>2 DEF Granted, StartedUnder
      <4>3. grant \in Granted(new) /\ start \in StartedUnder(new, grant)
        BY <3>2, <4>1, <4>2, LaterRow
      <4>4. pass \in PassedAfter(new, start)
        BY <3>3, <4>1, <4>2, LaterRow
      <4>5. QED
        BY <4>3, <4>4
    <3>5. pass.sequence < row.sequence
      BY <3>3 DEF PassedAfter
    <3>6. QED
      BY <1>1, <3>1, <3>4, <3>5 DEF Reviewed
  <2>7. QED
    BY <2>1, <2>4, <2>5, <2>6 DEF OnTheWay
<1>6. QED
  BY <1>3, <1>4, <1>5

LEMMA InitWay == StoreInit => WayInv
BY DEF StoreInit, WayInv, Exists

LEMMA StepKeepsWay ==
    ASSUME StoreInv, LogInv, WayInv, [StoreNext]_storeVars
    PROVE  WayInv'
<1>0. runs \in [RunIds -> RunSnapshot \cup {None}] /\ events \in [RunIds -> SUBSET EventRow]
  BY DEF StoreInv, StoreTypeOK
<1>1. ASSUME NEW p \in Processes, loaded[p] # None, NEW e \in WORKFLOW_DEFINITION,
             NEW principal \in Principals, NEW fields \in Commands(e, loaded[p].version),
             ApplyWorkflow(p, e, IssuedBy(principal, fields))
      PROVE  WayInv'
  <2>1. PICK r \in RunIds : r = loaded[p].runId
    BY <1>1 DEF StoreInv, StoreTypeOK, RunSnapshot
  <2> DEFINE command == IssuedBy(principal, fields)
             after == Transition(runs[r], command, e)
             row == AppendedRow(p, e, command)
  <2>2. /\ runs[r] # None /\ runs[r] = loaded[p] /\ runs[r] \in RunSnapshot
        /\ runs' = [runs EXCEPT ![r] = after]
    BY <1>0, <1>1, <2>1, DecidedOnCurrentRun DEF NextSnapshot
  <2>3. /\ events' = [events EXCEPT ![r] = events[r] \cup {row}]
        /\ row \in EventRow /\ row.sequence = runs[r].version + 1
        /\ command.actorId \in Actors
        /\ Accepts(runs[r], command, e)
    BY <1>1, <2>1, DecisionAppends
  <2>4. /\ row.eventType = EventType(runs[r], command)
        /\ row.actorRole = command.actorRole /\ row.actorId = command.actorId
    BY <2>2 DEF AppendedRow
  <2>5. \A other \in events[r] : other.sequence < row.sequence
    <3>1. \A other \in events[r] : other.sequence \in 1..runs[r].version
      BY <2>2 DEF LogInv, LogMatchesRun, EventsMatch, Exists
    <3>2. runs[r].version \in Nat
      BY <2>2 DEF RunSnapshot
    <3>3. QED
      BY <2>3, <3>1, <3>2
  <2>6. OnTheWay(events[r], runs[r]) /\ events[r] \in SUBSET EventRow
    BY <1>0, <2>2 DEF WayInv, Exists
  <2> HIDE DEF command, row
  <2>7. OnTheWay(events[r] \cup {row}, after)
    BY <2>2, <2>3, <2>4, <2>5, <2>6, DecisionWay
  <2>8. OnTheWay(events'[r], runs'[r])
    BY <1>0, <2>2, <2>3, <2>7
  <2>9. \A q \in RunIds : q # r => events'[q] = events[q] /\ runs'[q] = runs[q]
    BY <1>0, <2>2, <2>3
  <2>10. QED
    BY <2>8, <2>9 DEF WayInv, Exists
<1>2. ASSUME NEW r \in RunIds, NEW kind, NEW state \in {"CREATED", "EXECUTION_READY"}, NEW predecessor,
             runs' = [runs EXCEPT ![r] = NewRun(r, kind, state, predecessor)],
             events' = events
      PROVE  WayInv'
  <2>1. OnTheWay(events[r], NewRun(r, kind, state, predecessor))
    BY <1>2 DEF OnTheWay, NewRun, WorkStates
  <2>2. runs'[r] = NewRun(r, kind, state, predecessor)
        /\ \A q \in RunIds : q # r => runs'[q] = runs[q]
    BY <1>0, <1>2
  <2>3. QED
    BY <1>2, <2>1, <2>2 DEF WayInv, Exists
<1>3. ASSUME NEW r \in RunIds, NEW start \in Starts[r], CreateRun(r, start)
      PROVE  WayInv'
  <2>1. start.state \in {"CREATED", "EXECUTION_READY"}
    BY <1>3, StartsAssumption
  <2>2. QED
    BY <1>2, <1>3, <2>1 DEF CreateRun
<1>4. ASSUME NEW p \in Processes, NEW r \in RunIds, CreateSuccessor(p, r)
      PROVE  WayInv'
  BY <1>2, <1>4 DEF CreateSuccessor, HandoffSuccessor
<1>5. CASE UNCHANGED <<runs, events>>
  BY <1>5 DEF WayInv, Exists
<1>6. QED
  BY <1>1, <1>3, <1>4, <1>5 DEF StoreNext, storeVars, GetRun, RecordRunCapsuleSeal, Abandon

(***************************************************************************)
(* Every completed task or recovery run went through a grant that nothing  *)
(* voided, an implementation, a verification by another actor and a human  *)
(* review, in this order - by the single edges of the table and the        *)
(* guards, whatever processes raced.                                       *)
(***************************************************************************)
THEOREM ReviewTheorem == StoreSpec => []CompletedRunWasReviewed
<1>1. StoreInit => LogInv /\ WayInv
  BY InitLog, InitWay
<1>2. StoreInv /\ LogInv /\ WayInv /\ [StoreNext]_storeVars => LogInv' /\ WayInv'
  BY StepKeepsLog, StepKeepsWay
<1>3. WayInv => CompletedRunWasReviewed
  <2> SUFFICES ASSUME WayInv, NEW r \in RunIds,
                      Exists(r), runs[r].state = "COMPLETED", runs[r].runKind # "probe"
               PROVE  \E grant, start, pass, review \in events[r] :
                /\ grant.eventType = "GRANT_EXECUTION_APPROVAL" /\ grant.actorRole = "human"
                /\ start.eventType = "START_IMPLEMENTATION"
                /\ pass.eventType = "PASS_VERIFICATION" /\ pass.actorId # start.actorId
                /\ review.eventType = "APPROVE_HUMAN_REVIEW" /\ review.actorRole = "human"
                /\ grant.sequence < start.sequence
                /\ start.sequence < pass.sequence
                /\ pass.sequence < review.sequence
                /\ review.sequence = runs[r].version
                /\ \A row \in events[r] : row.sequence > grant.sequence =>
                     /\ row.eventType \notin Voids
                     /\ row.sequence > start.sequence => row.eventType # "START_IMPLEMENTATION"
    BY DEF CompletedRunWasReviewed
  <2>1. Reviewed(events[r], runs[r].version)
    BY DEF WayInv, OnTheWay
  <2>2. QED
    BY <2>1 DEF Reviewed, Granted, StartedUnder, PassedAfter
<1>4. QED
  BY <1>1, <1>2, <1>3, StoreInvariance, PTL DEF StoreSpec

-----------------------------------------------------------------------------
(* The effect kernel. *)

\* A written projection left the issue above its base version, and what the
\* issue holds was written.
WrittenIsBehind ==
  /\ \A p \in Plans : writes[p] > 0 => issue # Absent /\ issue.version > Base[p]
  /\ issue # Absent => writes[issue.digest] > 0 /\ issue.version > 0

\* A write is on its way under the base version of its plan, seen at an issue
\* nobody had edited.
SoundExpectation(p, expected) ==
  /\ expected = Base[p]
  /\ expected <= SeenVersion
  /\ issue # Absent /\ expected = SeenVersion => ~issue.drifted

WritesAreConditional ==
  /\ \A w \in Workers : At(w, "writing") => SoundExpectation(PlanOf(w), calls[w].seen)
  /\ \A m \in late : SoundExpectation(m.plan, m.expected)

\* A call that is about to complete an intent knows of a write.
HoldsEvidence(w) == At(w, "applied") \/ (At(w, "inspected") /\ calls[w].finding = "applied")

EvidenceIsTrue == \A w \in Workers : HoldsEvidence(w) => writes[PlanOf(w)] > 0

\* A call beyond planning works on an intent that exists.
CallsHaveIntents ==
  \A w \in Workers : ~At(w, "idle") =>
    /\ calls[w].key \in Keys
    /\ ~At(w, "planning") => intents[calls[w].key] # Absent

IInv ==
  /\ TypeOK
  /\ CallsHaveIntents
  /\ WrittenIsBehind
  /\ WritesAreConditional
  /\ EvidenceIsTrue
  /\ AtMostOneWrite
  /\ ReceiptProvesWrite

-----------------------------------------------------------------------------
LEMMA InitInvariant == Init => IInv
BY EffectAssumption DEF Init, IInv, TypeOK, CallsHaveIntents, WrittenIsBehind, WritesAreConditional,
   EvidenceIsTrue, HoldsEvidence, AtMostOneWrite, ReceiptProvesWrite, At, Idle, Call, Steps,
   Findings

\* The frame of the steps that leave the remote issue alone.
RemoteUnchanged == UNCHANGED <<issue, writes>>

\* What a step may do to one call.
LEMMA CallMoves ==
  ASSUME calls \in [Workers -> Call], NEW w \in Workers, NEW step \in Steps,
         NEW key \in Keys, NEW attempt \in Nat, NEW finding \in Findings, NEW seen \in Nat,
         Goto(w, step, key, attempt, finding, seen)
  PROVE  /\ calls' \in [Workers -> Call]
         /\ \A v \in Workers \ {w} : calls'[v] = calls[v]
         /\ calls'[w].step = step /\ calls'[w].key = key /\ calls'[w].attempt = attempt
         /\ calls'[w].finding = finding /\ calls'[w].seen = seen
BY DEF Goto, Call

LEMMA CallReturns ==
  ASSUME calls \in [Workers -> Call], NEW w \in Workers, Return(w)
  PROVE  /\ calls' \in [Workers -> Call]
         /\ \A v \in Workers \ {w} : calls'[v] = calls[v]
         /\ calls'[w].step = "idle"
BY DEF Return, Call, Idle, Steps, Findings

\* A write the service accepts is the first of its projection, and leaves every
\* expectation, evidence and receipt as sound as it was.
LEMMA AcceptedWrite ==
  ASSUME TypeOK, WrittenIsBehind, AtMostOneWrite,
         NEW p \in Plans, ServiceAccepts(Base[p]), Written(p)
  PROVE  /\ writes[p] = 0
         /\ writes \in [Plans -> Nat] /\ writes' \in [Plans -> Nat]
         /\ issue' \in Issue
         /\ writes'[p] = 1
         /\ \A q \in Plans : writes'[q] >= writes[q]
         /\ SeenVersion \in Nat /\ SeenVersion' = SeenVersion + 1
         /\ WrittenIsBehind' /\ AtMostOneWrite'
<1>0. Base[p] \in Nat /\ issue \in Issue \cup {Absent} /\ writes \in [Plans -> Nat]
  BY EffectAssumption DEF TypeOK
<1>1. SeenVersion \in Nat
  BY <1>0 DEF SeenVersion, Issue
<1>2. issue' = [digest |-> p, version |-> SeenVersion + 1, drifted |-> FALSE]
  BY DEF Written
<1>3. issue' \in Issue
  BY <1>1, <1>2 DEF Issue
<1>4. issue' # Absent /\ SeenVersion' = SeenVersion + 1
  BY <1>2, <1>3, AbsentIsNoRow DEF SeenVersion
<1>5. writes' = [writes EXCEPT ![p] = @ + 1]
  BY DEF Written
<1>6. writes[p] = 0
  BY <1>0, <1>1, EffectAssumption DEF WrittenIsBehind, ServiceAccepts, SeenVersion
<1>7. \A q \in Plans : writes[q] > 0 => SeenVersion > Base[q]
  BY DEF WrittenIsBehind, SeenVersion
<1>8. WrittenIsBehind'
  <2>1. ASSUME NEW q \in Plans, writes'[q] > 0
        PROVE  issue' # Absent /\ issue'.version > Base[q]
    <3>1. Base[q] \in Nat
      BY EffectAssumption
    <3>2. SeenVersion >= Base[q]
      <4>1. CASE q = p
        BY <1>1, <3>1, <4>1 DEF ServiceAccepts
      <4>2. CASE q # p
        BY <1>0, <1>1, <1>5, <1>7, <2>1, <3>1, <4>2
      <4>3. QED
        BY <4>1, <4>2
    <3>3. QED
      BY <1>1, <1>2, <1>4, <3>1, <3>2
  <2>2. writes'[issue'.digest] > 0 /\ issue'.version > 0
    BY <1>0, <1>1, <1>2, <1>5
  <2>3. QED
    BY <2>1, <2>2 DEF WrittenIsBehind
<1>9. AtMostOneWrite'
  BY <1>0, <1>5, <1>6 DEF AtMostOneWrite
<1>10. QED
  BY <1>0, <1>1, <1>3, <1>4, <1>5, <1>6, <1>8, <1>9

\* When the issue moves to a later version, no expectation becomes wrong.
LEMMA ExpectationsSurvive ==
  ASSUME NEW p \in Plans, NEW expected \in Nat, SoundExpectation(p, expected),
         SeenVersion \in Nat, SeenVersion' = SeenVersion + 1
  PROVE  SoundExpectation(p, expected)'
BY DEF SoundExpectation

-----------------------------------------------------------------------------
\* The steps that touch neither the issue nor the writes in flight: what is
\* left to show is that the call they move knows what it claims to know.
LEMMA QuietStep ==
  ASSUME IInv, NEW w \in Workers, UNCHANGED <<issue, writes, late, edits>>,
         calls' \in [Workers -> Call],
         \A v \in Workers \ {w} : calls'[v] = calls[v],
         calls'[w].step # "idle" => calls'[w].key \in Keys,
         calls'[w].step \notin {"idle", "planning"} => intents'[calls'[w].key] # Absent,
         \A k \in Keys : intents[k] # Absent => intents'[k] # Absent,
         calls'[w].step = "writing" => SoundExpectation(calls'[w].key.plan, calls'[w].seen),
         HoldsEvidence(w)' => writes[calls'[w].key.plan] > 0,
         intents' \in [Keys -> IntentRow \cup {Absent}],
         receipts' \in [Keys -> ReceiptRow \cup {Absent}],
         ReceiptProvesWrite'
  PROVE  IInv'
<1>1. TypeOK'
  BY DEF IInv, TypeOK
<1>2. CallsHaveIntents'
  BY DEF IInv, CallsHaveIntents, At
<1>3. WrittenIsBehind' /\ AtMostOneWrite'
  BY DEF IInv, WrittenIsBehind, AtMostOneWrite
<1>4. WritesAreConditional'
  <2>1. \A p \in Plans, expected \in Nat : SoundExpectation(p, expected) => SoundExpectation(p, expected)'
    BY DEF SoundExpectation, SeenVersion
  <2>2. ASSUME NEW v \in Workers, At(v, "writing")' PROVE SoundExpectation(PlanOf(v), calls[v].seen)'
    BY <2>2 DEF IInv, WritesAreConditional, At, PlanOf, SoundExpectation, SeenVersion
  <2>3. \A m \in late' : SoundExpectation(m.plan, m.expected)'
    BY DEF IInv, WritesAreConditional, SoundExpectation, SeenVersion
  <2>4. QED
    BY <2>2, <2>3 DEF WritesAreConditional
<1>5. EvidenceIsTrue'
  BY DEF IInv, EvidenceIsTrue, HoldsEvidence, At, PlanOf
<1>6. QED
  BY <1>1, <1>2, <1>3, <1>4, <1>5 DEF IInv

\* A change of status that does not claim completion keeps the receipts sound.
LEMMA StatusChange ==
  ASSUME IInv, NEW k \in Keys, NEW row \in IntentRow, row.status # "completed",
         intents' = [intents EXCEPT ![k] = row],
         UNCHANGED <<receipts, writes>>
  PROVE  /\ intents' \in [Keys -> IntentRow \cup {Absent}]
         /\ \A j \in Keys : intents[j] # Absent => intents'[j] # Absent
         /\ receipts' \in [Keys -> ReceiptRow \cup {Absent}]
         /\ ReceiptProvesWrite'
BY AbsentIsNoRow DEF IInv, TypeOK, ReceiptProvesWrite

\* A completion by a call that holds evidence keeps them sound too.
LEMMA Completion ==
  ASSUME IInv, NEW w \in Workers, HoldsEvidence(w), Completed(w), UNCHANGED writes
  PROVE  /\ intents' \in [Keys -> IntentRow \cup {Absent}]
         /\ receipts' \in [Keys -> ReceiptRow \cup {Absent}]
         /\ ReceiptProvesWrite'
         /\ \A k \in Keys : intents[k] # Absent => intents'[k] # Absent
         /\ calls[w].key \in Keys /\ writes[calls[w].key.plan] > 0
         /\ \E r \in ReceiptRow :
              receipts' = [receipts EXCEPT ![calls[w].key] = ReceiptAfter(calls[w].key, r)]
<1> DEFINE k == calls[w].key
           r == [outcome |-> IF calls[w].finding = "applied" /\ At(w, "applied")
                             THEN "applied" ELSE "already-applied",
                 attempt |-> IF calls[w].attempt < 1 THEN 1 ELSE calls[w].attempt,
                 remoteVersion |-> calls[w].seen]
<1>1. k \in Keys /\ calls[w] \in Call
  BY DEF IInv, TypeOK, CallsHaveIntents, HoldsEvidence, At
<1>2. r \in ReceiptRow
  BY <1>1 DEF ReceiptRow, Call
<1>3. writes[k.plan] > 0
  BY DEF IInv, EvidenceIsTrue, PlanOf
<1>4. receipts' = [receipts EXCEPT ![k] = ReceiptAfter(k, r)]
  BY DEF Completed
<1>5. intents' = IF receipts[k] = Absent
                 THEN [intents EXCEPT ![k] = [status |-> "completed", attempt |-> intents[k].attempt]]
                 ELSE intents
  BY DEF Completed
<1>6. intents[k] \in IntentRow /\ receipts[k] \in ReceiptRow \cup {Absent}
  BY <1>1 DEF IInv, TypeOK, CallsHaveIntents, HoldsEvidence, At
<1>7. ReceiptAfter(k, r) \in ReceiptRow
  BY <1>2, <1>6 DEF ReceiptAfter
<1>8. [status |-> "completed", attempt |-> intents[k].attempt] \in IntentRow
  BY <1>6 DEF IntentRow, EffectStatus
<1> HIDE DEF k, r
<1>9. /\ intents' \in [Keys -> IntentRow \cup {Absent}]
      /\ \A j \in Keys : intents[j] # Absent => intents'[j] # Absent
      /\ receipts' \in [Keys -> ReceiptRow \cup {Absent}]
  BY <1>1, <1>4, <1>5, <1>7, <1>8, AbsentIsNoRow DEF IInv, TypeOK
<1>10. ReceiptProvesWrite'
  <2>1. ASSUME NEW j \in Keys, receipts'[j] # Absent PROVE writes'[j.plan] > 0
    BY <1>1, <1>3, <1>4, <2>1 DEF IInv, TypeOK, ReceiptProvesWrite
  <2>2. ASSUME NEW j \in Keys, intents'[j] # Absent, intents'[j].status = "completed"
        PROVE  receipts'[j] # Absent
    BY <1>1, <1>4, <1>5, <1>7, <2>2, AbsentIsNoRow DEF IInv, TypeOK, ReceiptProvesWrite, ReceiptAfter
  <2>3. QED
    BY <2>1, <2>2 DEF ReceiptProvesWrite
<1>11. QED
  BY <1>1, <1>2, <1>3, <1>4, <1>9, <1>10 DEF k

-----------------------------------------------------------------------------
\* The fields of a row or a call that the step lemmas pass on.
LEMMA RowTypes ==
  ASSUME IInv
  PROVE  /\ SeenVersion \in Nat
         /\ \A k \in Keys : intents[k] # Absent =>
              intents[k].status \in EffectStatus /\ intents[k].attempt \in Nat
         /\ \A w \in Workers : calls[w].attempt \in Nat /\ calls[w].seen \in Nat
BY DEF IInv, TypeOK, SeenVersion, Issue, IntentRow, Call

LEMMA RelabelledIntent ==
  ASSUME IInv, NEW w \in Workers, calls[w].step \notin {"idle", "planning"},
         NEW status \in EffectStatus \ {"completed"}, NEW attempt \in Nat,
         intents' = [intents EXCEPT ![calls[w].key] = [status |-> status, attempt |-> attempt]],
         UNCHANGED <<receipts, writes>>
  PROVE  /\ intents' \in [Keys -> IntentRow \cup {Absent}]
         /\ \A j \in Keys : intents[j] # Absent => intents'[j] # Absent
         /\ receipts' \in [Keys -> ReceiptRow \cup {Absent}]
         /\ ReceiptProvesWrite'
<1>1. calls[w].key \in Keys
  BY DEF IInv, CallsHaveIntents, At
<1>2. [status |-> status, attempt |-> attempt] \in IntentRow
  BY DEF IntentRow
<1>3. QED
  BY <1>1, <1>2, StatusChange

LEMMA UntouchedRows ==
  ASSUME IInv, UNCHANGED <<intents, receipts, writes>>
  PROVE  /\ intents' \in [Keys -> IntentRow \cup {Absent}]
         /\ receipts' \in [Keys -> ReceiptRow \cup {Absent}]
         /\ ReceiptProvesWrite'
BY DEF IInv, TypeOK, ReceiptProvesWrite

\* An accepted write keeps the invariant, provided that the calls that do not
\* make it stay as they are and its own call leaves the adapter.
LEMMA WriteStep ==
  ASSUME IInv, NEW p \in Plans, ServiceAccepts(Base[p]), Written(p),
         UNCHANGED <<intents, receipts, edits>>,
         late' \subseteq late,
         calls' \in [Workers -> Call],
         \A v \in Workers :
           \/ calls'[v] = calls[v]
           \/ /\ calls'[v].step \in {"applied", "failed", "unknown"}
              /\ calls'[v].key = calls[v].key /\ PlanOf(v) = p
              /\ calls[v].step = "writing"
  PROVE  IInv'
<1>1. /\ writes' \in [Plans -> Nat] /\ issue' \in Issue /\ writes'[p] = 1
      /\ writes \in [Plans -> Nat]
      /\ \A q \in Plans : writes'[q] >= writes[q]
      /\ SeenVersion \in Nat /\ SeenVersion' = SeenVersion + 1
      /\ WrittenIsBehind' /\ AtMostOneWrite'
  BY AcceptedWrite DEF IInv
<1>2. TypeOK'
  BY <1>1 DEF IInv, TypeOK
<1>3. CallsHaveIntents'
  BY DEF IInv, CallsHaveIntents, At
<1>4. WritesAreConditional'
  <2>1. ASSUME NEW v \in Workers, At(v, "writing")' PROVE SoundExpectation(PlanOf(v), calls[v].seen)'
    <3>1. calls'[v] = calls[v] /\ calls[v].seen \in Nat /\ SoundExpectation(PlanOf(v), calls[v].seen)
      BY <2>1, RowTypes DEF At, IInv, WritesAreConditional
    <3>2. PlanOf(v) \in Plans /\ PlanOf(v)' = PlanOf(v)
      BY <2>1, <3>1 DEF IInv, CallsHaveIntents, At, PlanOf, Keys
    <3>3. QED
      BY <1>1, <3>1, <3>2, ExpectationsSurvive DEF SoundExpectation
  <2>2. ASSUME NEW m \in late' PROVE SoundExpectation(m.plan, m.expected)'
    <3>1. m \in LateWrite /\ SoundExpectation(m.plan, m.expected)
      BY <2>2 DEF IInv, TypeOK, WritesAreConditional
    <3>2. QED
      BY <1>1, <3>1, ExpectationsSurvive DEF LateWrite, SoundExpectation
  <2>3. QED
    BY <2>1, <2>2 DEF WritesAreConditional
<1>5. EvidenceIsTrue'
  <2>1. ASSUME NEW v \in Workers, HoldsEvidence(v)' PROVE writes'[PlanOf(v)'] > 0
    <3>1. CASE calls'[v] = calls[v]
      <4>1. HoldsEvidence(v) /\ PlanOf(v)' = PlanOf(v) /\ PlanOf(v) \in Plans
        BY <2>1, <3>1 DEF HoldsEvidence, At, PlanOf, IInv, CallsHaveIntents, Keys
      <4>2. writes[PlanOf(v)] > 0
        BY <4>1 DEF IInv, EvidenceIsTrue
      <4>3. QED
        BY <1>1, <4>1, <4>2
    <3>2. CASE calls'[v].key = calls[v].key /\ PlanOf(v) = p
      BY <1>1, <3>2 DEF PlanOf
    <3>3. QED
      BY <3>1, <3>2
  <2>2. QED
    BY <2>1 DEF EvidenceIsTrue
<1>6. ReceiptProvesWrite'
  <2>1. \A k \in Keys : k.plan \in Plans
    BY DEF Keys
  <2>2. QED
    BY <1>1, <2>1 DEF IInv, ReceiptProvesWrite
<1>7. QED
  BY <1>1, <1>2, <1>3, <1>4, <1>5, <1>6 DEF IInv

LEMMA LateWriteKeepsInvariant ==
  ASSUME IInv, LateWriteArrives
  PROVE  IInv'
<1>1. PICK m \in late :
        /\ late' = late \ {m}
        /\ IF ServiceAccepts(m.expected) THEN Written(m.plan) ELSE UNCHANGED <<issue, writes>>
        /\ UNCHANGED <<intents, receipts, calls, edits>>
  BY DEF LateWriteArrives
<1>2. m.plan \in Plans /\ m.expected = Base[m.plan]
  BY DEF IInv, TypeOK, LateWrite, WritesAreConditional, SoundExpectation
<1>3. CASE ServiceAccepts(m.expected)
  BY <1>1, <1>2, <1>3, WriteStep DEF IInv, TypeOK
<1>4. CASE ~ServiceAccepts(m.expected)
  BY <1>1, <1>4 DEF IInv, TypeOK, CallsHaveIntents, WrittenIsBehind, WritesAreConditional,
     SoundExpectation, SeenVersion, EvidenceIsTrue, HoldsEvidence, AtMostOneWrite,
     ReceiptProvesWrite, At, PlanOf
<1>5. QED
  BY <1>3, <1>4

\* An edit moves the issue past every expectation.
LEMMA HumanEditKeepsInvariant ==
  ASSUME IInv, HumanEdit
  PROVE  IInv'
<1>1. PICK managed \in BOOLEAN :
        /\ issue \in Issue /\ issue # Absent
        /\ issue' = [digest |-> issue.digest, version |-> issue.version + 1,
                      drifted |-> issue.drifted \/ managed]
        /\ edits' = edits + 1 /\ UNCHANGED <<intents, receipts, late, calls, writes>>
  BY DEF HumanEdit, IInv, TypeOK
<1>2. /\ issue' \in Issue /\ issue' # Absent /\ SeenVersion' = SeenVersion + 1 /\ SeenVersion \in Nat
      /\ issue'.digest = issue.digest /\ issue'.version = issue.version + 1 /\ issue.version \in Nat
  <2>1. issue.digest \in Plans /\ issue.version \in Nat
    BY <1>1 DEF Issue
  <2>2. issue' \in Issue /\ issue'.digest = issue.digest /\ issue'.version = issue.version + 1
    BY <1>1, <2>1 DEF Issue
  <2>3. issue' # Absent
    BY <2>2, AbsentIsNoRow
  <2>4. QED
    BY <1>1, <2>1, <2>2, <2>3 DEF SeenVersion
<1>3. TypeOK'
  BY <1>1, <1>2 DEF IInv, TypeOK
<1>4. WrittenIsBehind'
  BY <1>1, <1>2, EffectAssumption DEF IInv, WrittenIsBehind
<1>5. WritesAreConditional'
  <2>1. \A m \in late' : SoundExpectation(m.plan, m.expected)'
    BY <1>1, <1>2 DEF IInv, TypeOK, LateWrite, WritesAreConditional, SoundExpectation
  <2>2. \A v \in Workers : At(v, "writing")' => SoundExpectation(PlanOf(v), calls[v].seen)'
    BY <1>1, <1>2, RowTypes DEF IInv, WritesAreConditional, SoundExpectation, At, PlanOf
  <2>3. QED
    BY <2>1, <2>2 DEF WritesAreConditional
<1>6. CallsHaveIntents' /\ EvidenceIsTrue' /\ AtMostOneWrite' /\ ReceiptProvesWrite'
  BY <1>1 DEF IInv, CallsHaveIntents, EvidenceIsTrue, HoldsEvidence, AtMostOneWrite,
     ReceiptProvesWrite, At, PlanOf
<1>7. QED
  BY <1>3, <1>4, <1>5, <1>6 DEF IInv

LEMMA StepKeepsInvariant ==
  ASSUME IInv, NEW w \in Workers, Step(w)
  PROVE  IInv'
<1> DEFINE key == calls[w].key
<1>0. calls \in [Workers -> Call]
  BY DEF IInv, TypeOK
<1>1. ASSUME NEW k \in Keys, PlanLookup(w, k) PROVE IInv'
  <2>1. Goto(w, "planning", k, 0, "none", 0) /\ UNCHANGED <<intents, receipts, issue, late, writes, edits>>
    BY <1>1 DEF PlanLookup
  <2>2. "planning" \in Steps /\ "none" \in Findings
    BY DEF Steps, Findings
  <2>3. QED
    BY <1>0, <2>1, <2>2, CallMoves, UntouchedRows, QuietStep DEF HoldsEvidence, At
<1>2. ASSUME NEW k \in Keys, CheckReceipt(w, k) PROVE IInv'
  <2>1. /\ Goto(w, "checked", k, 0, "none", 0) /\ intents[k] # Absent
        /\ UNCHANGED <<intents, receipts, issue, late, writes, edits>>
    BY <1>2 DEF CheckReceipt
  <2>2. "checked" \in Steps /\ "none" \in Findings
    BY DEF Steps, Findings
  <2>3. QED
    BY <1>0, <2>1, <2>2, CallMoves, UntouchedRows, QuietStep DEF HoldsEvidence, At
<1>3. ASSUME NEW k \in Keys, Inspect(w, k) PROVE IInv'
  <2>1. /\ Goto(w, "inspected", k, intents[k].attempt, InspectFinding(k.plan), SeenVersion)
        /\ intents[k] # Absent
        /\ UNCHANGED <<intents, receipts, issue, late, writes, edits>>
    BY <1>3 DEF Inspect
  <2>2. "inspected" \in Steps /\ InspectFinding(k.plan) \in Findings
    BY DEF Steps, Findings, InspectFinding
  <2>3. InspectFinding(k.plan) = "applied" => writes[k.plan] > 0
    BY DEF InspectFinding, IInv, WrittenIsBehind
  <2>4. QED
    BY <1>0, <2>1, <2>2, <2>3, RowTypes, CallMoves, UntouchedRows, QuietStep DEF HoldsEvidence, At
<1>4. CASE InsertOrGet(w)
  <2>1. Return(w) /\ key \in Keys /\ UNCHANGED <<receipts, issue, late, writes, edits>>
    BY <1>4 DEF InsertOrGet, IInv, CallsHaveIntents, At
  <2>2. CASE intents' = intents
    BY <1>0, <2>1, <2>2, CallReturns, UntouchedRows, QuietStep DEF HoldsEvidence, At
  <2>3. CASE intents' = [intents EXCEPT ![key] = [status |-> "planned", attempt |-> 0]]
    <3>1. [status |-> "planned", attempt |-> 0] \in IntentRow
      BY DEF IntentRow, EffectStatus
    <3>2. /\ intents' \in [Keys -> IntentRow \cup {Absent}]
          /\ receipts' \in [Keys -> ReceiptRow \cup {Absent}]
          /\ ReceiptProvesWrite'
          /\ \A j \in Keys : intents[j] # Absent => intents'[j] # Absent
      BY <2>1, <2>3, <3>1, StatusChange
    <3>3. QED
      BY <1>0, <2>1, <3>2, CallReturns, QuietStep DEF HoldsEvidence, At
  <2>4. QED
    BY <1>4, <2>2, <2>3 DEF InsertOrGet
<1>5. CASE Claim(w)
  <2>1. /\ At(w, "checked") /\ key \in Keys /\ intents[key] # Absent
        /\ intents' = [intents EXCEPT ![key] = [status |-> "applying", attempt |-> NextAttempt(key)]]
        /\ Goto(w, "claimed", key, NextAttempt(key), "none", 0)
        /\ UNCHANGED <<receipts, issue, late, writes, edits>>
    BY <1>5 DEF Claim, IInv, CallsHaveIntents, At
  <2>2. NextAttempt(key) \in Nat
    BY <2>1, RowTypes DEF NextAttempt
  <2>3. "claimed" \in Steps /\ "none" \in Findings /\ "applying" \in EffectStatus \ {"completed"}
    BY DEF Steps, Findings, EffectStatus
  <2>4. /\ intents' \in [Keys -> IntentRow \cup {Absent}]
        /\ receipts' \in [Keys -> ReceiptRow \cup {Absent}]
        /\ ReceiptProvesWrite'
        /\ \A j \in Keys : intents[j] # Absent => intents'[j] # Absent
    BY <2>1, <2>2, <2>3, RelabelledIntent DEF At
  <2>5. QED
    BY <1>0, <2>1, <2>2, <2>3, <2>4, CallMoves, QuietStep DEF HoldsEvidence, At
<1>6. CASE ClaimRefused(w) \/ Crash(w)
  <2>1. Return(w) /\ UNCHANGED <<intents, receipts, issue, late, writes, edits>>
    BY <1>6 DEF ClaimRefused, Crash
  <2>2. QED
    BY <1>0, <2>1, CallReturns, UntouchedRows, QuietStep DEF HoldsEvidence, At
<1>7. ASSUME NEW step \in {"applied", "writing", "failed", "unknown"},
             NEW finding \in Findings, NEW seen \in Nat,
             calls[w].step \in {"claimed", "writing"},
             Moves(w, step, finding, seen),
             step = "writing" => SoundExpectation(PlanOf(w), seen),
             step = "applied" => writes[PlanOf(w)] > 0,
             UNCHANGED <<intents, receipts, issue, late, writes, edits>>
      PROVE  IInv'
  <2>1. step \in Steps
    BY DEF Steps
  <2>2. Goto(w, step, key, calls[w].attempt, finding, seen) /\ key \in Keys /\ intents[key] # Absent
    BY <1>7 DEF Moves, IInv, CallsHaveIntents, At
  <2>3. QED
    BY <1>0, <1>7, <2>1, <2>2, RowTypes, CallMoves, UntouchedRows, QuietStep
       DEF HoldsEvidence, At, PlanOf
<1>8. CASE Observe(w)
  <2>1. PlanOf(w) \in Plans /\ At(w, "claimed")
    BY <1>8 DEF Observe, IInv, CallsHaveIntents, At, PlanOf, Keys
  <2>2. HoldsExactly(PlanOf(w)) => writes[PlanOf(w)] > 0
    BY DEF HoldsExactly, IInv, WrittenIsBehind
  <2>3. MayCreate(PlanOf(w)) \/ MayUpdate(PlanOf(w)) => SoundExpectation(PlanOf(w), SeenVersion)
    BY RowTypes DEF MayCreate, MayUpdate, SoundExpectation, SeenVersion
  <2>4. UNCHANGED <<intents, receipts, issue, late, writes, edits>>
    BY <1>8 DEF Observe
  <2>5. CASE HoldsExactly(PlanOf(w)) /\ Moves(w, "applied", "already-applied", SeenVersion)
    BY <1>7, <2>1, <2>2, <2>4, <2>5, RowTypes DEF At, Findings
  <2>6. CASE (MayCreate(PlanOf(w)) \/ MayUpdate(PlanOf(w))) /\ Moves(w, "writing", "none", SeenVersion)
    BY <1>7, <2>1, <2>3, <2>4, <2>6, RowTypes DEF At, Findings
  <2>7. CASE Moves(w, "failed", "none", 0)
    BY <1>7, <2>1, <2>4, <2>7 DEF At, Findings
  <2>8. QED
    BY <1>8, <2>5, <2>6, <2>7 DEF Observe
<1>9. CASE AdapterFails(w) \/ WriteRefused(w)
  <2>1. /\ calls[w].step \in {"claimed", "writing"}
        /\ \E step \in {"failed", "unknown"} : Moves(w, step, "none", 0)
        /\ UNCHANGED <<intents, receipts, issue, late, writes, edits>>
    BY <1>9 DEF AdapterFails, WriteRefused, At
  <2>2. PICK step \in {"failed", "unknown"} : Moves(w, step, "none", 0)
    BY <2>1
  <2>3. "none" \in Findings
    BY DEF Findings
  <2>4. QED
    BY <1>7, <2>1, <2>2, <2>3
<1>10. CASE WriteAccepted(w)
  <2>1. /\ At(w, "writing") /\ key \in Keys /\ PlanOf(w) \in Plans
        /\ calls[w].seen = Base[PlanOf(w)]
        /\ ServiceAccepts(calls[w].seen) /\ Written(PlanOf(w))
        /\ UNCHANGED <<intents, receipts, late, edits>>
    BY <1>10 DEF WriteAccepted, IInv, CallsHaveIntents, WritesAreConditional, SoundExpectation,
       At, PlanOf, Keys
  <2>2. SeenVersion + 1 \in Nat
    BY RowTypes
  <2>3. PICK step \in {"applied", "failed", "unknown"}, finding \in Findings, seen \in Nat :
          Goto(w, step, key, calls[w].attempt, finding, seen)
    BY <1>10, <2>2 DEF WriteAccepted, Moves, Findings
  <2>4. step \in Steps
    BY DEF Steps
  <2>5. /\ calls' \in [Workers -> Call]
        /\ \A v \in Workers \ {w} : calls'[v] = calls[v]
        /\ calls'[w].step = step /\ calls'[w].key = key
    BY <1>0, <2>1, <2>3, <2>4, RowTypes, CallMoves
  <2>6. QED
    BY <2>1, <2>5, WriteStep DEF At
<1>11. CASE WriteTimesOut(w)
  <2>1. /\ At(w, "writing") /\ key \in Keys /\ PlanOf(w) \in Plans
        /\ Goto(w, "unknown", key, calls[w].attempt, "none", 0)
        /\ late' = late \cup {[plan |-> PlanOf(w), expected |-> calls[w].seen]}
        /\ SoundExpectation(PlanOf(w), calls[w].seen)
        /\ UNCHANGED <<intents, receipts, issue, writes, edits>>
    BY <1>11 DEF WriteTimesOut, Moves, IInv, CallsHaveIntents, WritesAreConditional, At, PlanOf, Keys
  <2>2. "unknown" \in Steps /\ "none" \in Findings
    BY DEF Steps, Findings
  <2>3. /\ calls' \in [Workers -> Call]
        /\ \A v \in Workers \ {w} : calls'[v] = calls[v]
        /\ calls'[w].step = "unknown" /\ calls'[w].key = key
    BY <1>0, <2>1, <2>2, RowTypes, CallMoves
  <2>4. TypeOK'
    BY <2>1, <2>3, RowTypes DEF IInv, TypeOK, LateWrite
  <2>5. WritesAreConditional'
    BY <2>1, <2>3 DEF IInv, WritesAreConditional, SoundExpectation, SeenVersion, At, PlanOf
  <2>6. EvidenceIsTrue' /\ CallsHaveIntents'
    BY <2>1, <2>3 DEF IInv, EvidenceIsTrue, CallsHaveIntents, HoldsEvidence, At, PlanOf
  <2>7. WrittenIsBehind' /\ AtMostOneWrite' /\ ReceiptProvesWrite'
    BY <2>1 DEF IInv, WrittenIsBehind, AtMostOneWrite, ReceiptProvesWrite
  <2>8. QED
    BY <2>4, <2>5, <2>6, <2>7 DEF IInv
<1>12. CASE RecordFailure(w)
  <2>1. /\ calls[w].step \notin {"idle", "planning"} /\ key \in Keys /\ intents[key] # Absent
        /\ Return(w) /\ UNCHANGED <<receipts, issue, late, writes, edits>>
    BY <1>12 DEF RecordFailure, IInv, CallsHaveIntents, At
  <2>2. PICK status \in {"uncertain", "failed"} :
          intents' = [intents EXCEPT ![key] = [status |-> status, attempt |-> intents[key].attempt]]
    BY <1>12 DEF RecordFailure
  <2>3. status \in EffectStatus \ {"completed"}
    BY DEF EffectStatus
  <2>4. /\ intents' \in [Keys -> IntentRow \cup {Absent}]
        /\ receipts' \in [Keys -> ReceiptRow \cup {Absent}]
        /\ ReceiptProvesWrite'
        /\ \A j \in Keys : intents[j] # Absent => intents'[j] # Absent
    BY <2>1, <2>2, <2>3, RowTypes, RelabelledIntent
  <2>5. QED
    BY <1>0, <2>1, <2>4, CallReturns, QuietStep DEF HoldsEvidence, At
<1>13. CASE Complete(w)
  <2>1. HoldsEvidence(w) /\ Completed(w) /\ Return(w) /\ UNCHANGED <<issue, late, writes, edits>>
    BY <1>13 DEF Complete, HoldsEvidence
  <2>2. QED
    BY <1>0, <2>1, Completion, CallReturns, QuietStep DEF HoldsEvidence, At
<1>14. CASE ReconcileResult(w)
  <2>1. At(w, "inspected") /\ Return(w) /\ UNCHANGED <<issue, late, writes, edits>>
    BY <1>14 DEF ReconcileResult
  <2>2. CASE calls[w].finding = "applied"
    <3>1. HoldsEvidence(w) /\ Completed(w)
      BY <1>14, <2>2 DEF ReconcileResult, HoldsEvidence
    <3>2. QED
      BY <1>0, <2>1, <3>1, Completion, CallReturns, QuietStep DEF HoldsEvidence, At
  <2>3. CASE calls[w].finding # "applied"
    <3>1. key \in Keys /\ intents[key] # Absent
      BY <2>1 DEF IInv, CallsHaveIntents, At
    <3>2. PICK status \in {"ready", "uncertain"} :
            intents' = [intents EXCEPT ![key] = [status |-> status, attempt |-> intents[key].attempt]]
      BY <1>14, <2>3 DEF ReconcileResult, ReconciledStatus
    <3>3. status \in EffectStatus \ {"completed"} /\ UNCHANGED receipts
      BY <1>14, <2>3 DEF EffectStatus, ReconcileResult
    <3>4. /\ intents' \in [Keys -> IntentRow \cup {Absent}]
          /\ receipts' \in [Keys -> ReceiptRow \cup {Absent}]
          /\ ReceiptProvesWrite'
          /\ \A j \in Keys : intents[j] # Absent => intents'[j] # Absent
      BY <2>1, <3>1, <3>2, <3>3, RowTypes, RelabelledIntent DEF At
    <3>5. QED
      BY <1>0, <2>1, <3>4, CallReturns, QuietStep DEF HoldsEvidence, At
  <2>4. QED
    BY <2>2, <2>3
<1>15. QED
  BY <1>1, <1>2, <1>3, <1>4, <1>5, <1>6, <1>8, <1>9, <1>10, <1>11, <1>12, <1>13, <1>14 DEF Step

LEMMA NextKeepsInvariant == IInv /\ [Next]_vars => IInv'
<1> SUFFICES ASSUME IInv, [Next]_vars PROVE IInv'
  OBVIOUS
<1>1. CASE UNCHANGED vars
  BY <1>1 DEF vars, IInv, TypeOK, CallsHaveIntents, WrittenIsBehind, WritesAreConditional,
     SoundExpectation, SeenVersion, EvidenceIsTrue, HoldsEvidence, AtMostOneWrite,
     ReceiptProvesWrite, At, PlanOf
<1>2. QED
  BY <1>1, StepKeepsInvariant, LateWriteKeepsInvariant, HumanEditKeepsInvariant DEF Next

(* The inductive invariant of the effect kernel holds in every state: what a call knows, what    *)
(* the rows say and what Jira shows agree, whatever the order of the calls, crashes and answers. *)
THEOREM Invariance == Spec => []IInv
BY InitInvariant, NextKeepsInvariant, PTL DEF Spec

(***************************************************************************)
(* A receipt is evidence of a write, for any number of workers, crashes,   *)
(* lost acknowledgements and reconciliations, and only a receipted intent  *)
(* is completed.                                                           *)
(***************************************************************************)
THEOREM ReceiptTheorem == Spec => []ReceiptProvesWrite
<1>1. IInv => ReceiptProvesWrite
  BY DEF IInv
<1>2. QED
  BY <1>1, Invariance, PTL

(***************************************************************************)
(* No projection is written twice, whatever is retried, reconciled or      *)
(* delivered late.                                                         *)
(***************************************************************************)
THEOREM WriteOnceTheorem == Spec => []AtMostOneWrite
<1>1. IInv => AtMostOneWrite
  BY DEF IInv
<1>2. QED
  BY <1>1, Invariance, PTL

(***************************************************************************)
(* What is settled stays settled: receipts, intents and their attempts in  *)
(* the repository, and the issue that somebody edited by hand.             *)
(***************************************************************************)
LEMMA AcceptedWriteMeetsNoEdit ==
  ASSUME IInv, NEW p \in Plans, NEW expected \in Nat,
         SoundExpectation(p, expected), ServiceAccepts(expected)
  PROVE  ~(issue # Absent /\ issue.drifted)
BY DEF SoundExpectation, ServiceAccepts

LEMMA EditsSurvive == IInv /\ [Next]_vars => [EditSurvives]_vars
<1> SUFFICES ASSUME IInv, Next PROVE EditSurvives
  BY DEF vars
<1>1. CASE UNCHANGED issue
  BY <1>1 DEF EditSurvives
<1>2. CASE HumanEdit
  <2>1. PICK managed \in BOOLEAN :
          /\ issue \in Issue
          /\ issue' = [digest |-> issue.digest, version |-> issue.version + 1,
                        drifted |-> issue.drifted \/ managed]
    BY <1>2 DEF HumanEdit, IInv, TypeOK
  <2>2. issue' \in Issue
    BY <2>1 DEF Issue
  <2>3. QED
    BY <2>1, <2>2, AbsentIsNoRow DEF EditSurvives
<1>3. ASSUME NEW w \in Workers, WriteAccepted(w) PROVE EditSurvives
  <2>1. /\ PlanOf(w) \in Plans /\ SoundExpectation(PlanOf(w), calls[w].seen)
        /\ ServiceAccepts(calls[w].seen)
    BY <1>3 DEF WriteAccepted, IInv, CallsHaveIntents, WritesAreConditional, At, PlanOf, Keys
  <2>2. QED
    BY <2>1, RowTypes, AcceptedWriteMeetsNoEdit DEF EditSurvives
<1>4. CASE LateWriteArrives
  <2>1. PICK m \in late : IF ServiceAccepts(m.expected) THEN Written(m.plan) ELSE UNCHANGED issue
    BY <1>4 DEF LateWriteArrives
  <2>2. m \in LateWrite /\ SoundExpectation(m.plan, m.expected)
    BY DEF IInv, TypeOK, WritesAreConditional
  <2>3. CASE ServiceAccepts(m.expected)
    BY <2>2, <2>3, AcceptedWriteMeetsNoEdit DEF EditSurvives, LateWrite
  <2>4. CASE ~ServiceAccepts(m.expected)
    BY <1>1, <2>1, <2>4
  <2>5. QED
    BY <2>3, <2>4
<1>5. QED
  BY <1>1, <1>2, <1>3, <1>4 DEF Next, Step, PlanLookup, CheckReceipt, Inspect, InsertOrGet, Claim,
     ClaimRefused, Observe, AdapterFails, WriteRefused, WriteTimesOut, RecordFailure, Complete,
     ReconcileResult, Crash

\* A row that gets another status, and no lower an attempt, goes forward.
LEMMA ForwardRow ==
  ASSUME IInv, NEW w \in Workers, calls[w].step \notin {"idle", "planning"},
         NEW status \in EffectStatus, NEW attempt \in Nat, attempt >= intents[calls[w].key].attempt,
         intents' = [intents EXCEPT ![calls[w].key] = [status |-> status, attempt |-> attempt]],
         \A k \in Keys : receipts[k] # Absent => receipts'[k] = receipts[k]
  PROVE  RowsGoForward
<1> DEFINE key == calls[w].key
           row == [status |-> status, attempt |-> attempt]
<1>1. key \in Keys /\ intents \in [Keys -> IntentRow \cup {Absent}]
  BY DEF IInv, TypeOK, CallsHaveIntents, At
<1>2. row \in IntentRow /\ row.attempt = attempt
  BY DEF IntentRow
<1>3. intents' = [intents EXCEPT ![key] = row]
  OBVIOUS
<1> HIDE DEF key, row
<1>4. ASSUME NEW k \in Keys, intents[k] # Absent PROVE intents'[k] # Absent /\ intents'[k].attempt >= intents[k].attempt
  <2>1. CASE k = key
    BY <1>1, <1>2, <1>3, <2>1, AbsentIsNoRow DEF key
  <2>2. CASE k # key
    BY <1>1, <1>3, <1>4, <2>2, RowTypes
  <2>3. QED
    BY <2>1, <2>2
<1>5. QED
  BY <1>4 DEF RowsGoForward

LEMMA CompletedGoesForward ==
  ASSUME IInv, NEW w \in Workers, HoldsEvidence(w), Completed(w), UNCHANGED writes
  PROVE  RowsGoForward
<1>1. PICK r \in ReceiptRow : receipts' = [receipts EXCEPT ![calls[w].key] = ReceiptAfter(calls[w].key, r)]
  BY Completion
<1>2. \A k \in Keys : receipts[k] # Absent => receipts'[k] = receipts[k]
  BY <1>1 DEF IInv, TypeOK, ReceiptAfter
<1>3. calls[w].key \in Keys /\ intents[calls[w].key] # Absent /\ calls[w].step \notin {"idle", "planning"}
  BY DEF IInv, CallsHaveIntents, HoldsEvidence, At
<1>4. CASE receipts[calls[w].key] = Absent
  <2>1. intents' = [intents EXCEPT ![calls[w].key] = [status |-> "completed", attempt |-> intents[calls[w].key].attempt]]
    BY <1>4 DEF Completed
  <2>2. "completed" \in EffectStatus
    BY DEF EffectStatus
  <2>3. /\ intents[calls[w].key].attempt \in Nat
        /\ intents[calls[w].key].attempt >= intents[calls[w].key].attempt
    BY <1>3, RowTypes
  <2>4. QED
    BY <1>2, <1>3, <2>1, <2>2, <2>3, ForwardRow
<1>5. CASE receipts[calls[w].key] # Absent
  <2>1. intents' = intents
    BY <1>5 DEF Completed
  <2>2. QED
    BY <1>2, <2>1, RowTypes DEF RowsGoForward
<1>6. QED
  BY <1>4, <1>5

LEMMA RowsMoveForward == IInv /\ [Next]_vars => [RowsGoForward]_vars
<1> SUFFICES ASSUME IInv, Next PROVE RowsGoForward
  BY DEF vars
<1>0. \A k \in Keys : intents[k] # Absent => intents[k].attempt \in Nat
  BY RowTypes
<1>1. ASSUME UNCHANGED <<intents, receipts>> PROVE RowsGoForward
  <2>1. \A k \in Keys : intents[k] # Absent => intents[k].attempt >= intents[k].attempt
    BY <1>0
  <2>2. QED
    BY <1>1, <2>1 DEF RowsGoForward
<1>2. ASSUME NEW w \in Workers, InsertOrGet(w) PROVE RowsGoForward
  <2>1. calls[w].key \in Keys
    BY <1>2 DEF InsertOrGet, IInv, CallsHaveIntents, At
  <2>2. CASE Insertable(calls[w].key)
    <3>1. intents[calls[w].key] = Absent
      BY <2>1, <2>2 DEF Insertable, SameIdentity
    <3>2. \A k \in Keys : intents[k] # Absent => intents'[k] = intents[k]
      BY <1>2, <2>1, <2>2, <3>1 DEF InsertOrGet, IInv, TypeOK
    <3>3. QED
      BY <1>2, <3>2, RowTypes DEF InsertOrGet, RowsGoForward
  <2>3. CASE ~Insertable(calls[w].key)
    BY <1>1, <1>2, <2>3 DEF InsertOrGet
  <2>4. QED
    BY <2>2, <2>3
<1>3. ASSUME NEW w \in Workers, Claim(w) PROVE RowsGoForward
  <2>1. /\ calls[w].step \notin {"idle", "planning"}
        /\ intents[calls[w].key].attempt \in Nat
    BY <1>3, RowTypes DEF Claim, At, IInv, CallsHaveIntents
  <2>2. NextAttempt(calls[w].key) \in Nat /\ NextAttempt(calls[w].key) >= intents[calls[w].key].attempt
    BY <2>1 DEF NextAttempt
  <2>3. "applying" \in EffectStatus
    BY DEF EffectStatus
  <2>4. QED
    BY <1>3, <2>1, <2>2, <2>3, ForwardRow DEF Claim
<1>4. ASSUME NEW w \in Workers, NEW status \in EffectStatus, calls[w].step \notin {"idle", "planning"},
             intents' = [intents EXCEPT ![calls[w].key] = [status |-> status, attempt |-> intents[calls[w].key].attempt]],
             UNCHANGED receipts
      PROVE  RowsGoForward
  <2>1. /\ intents[calls[w].key].attempt \in Nat
        /\ intents[calls[w].key].attempt >= intents[calls[w].key].attempt
    BY <1>4, RowTypes DEF IInv, CallsHaveIntents, At
  <2>2. \A k \in Keys : receipts[k] # Absent => receipts'[k] = receipts[k]
    BY <1>4
  <2>3. QED
    BY <1>4, <2>1, <2>2, ForwardRow
<1>5. ASSUME NEW w \in Workers, RecordFailure(w) PROVE RowsGoForward
  <2>1. {"uncertain", "failed"} \subseteq EffectStatus
    BY DEF EffectStatus
  <2>2. QED
    BY <1>4, <1>5, <2>1 DEF RecordFailure, At
<1>6. ASSUME NEW w \in Workers, Complete(w) PROVE RowsGoForward
  BY <1>6, CompletedGoesForward DEF Complete, HoldsEvidence
<1>7. ASSUME NEW w \in Workers, ReconcileResult(w) PROVE RowsGoForward
  <2>1. CASE calls[w].finding = "applied"
    BY <1>7, <2>1, CompletedGoesForward DEF ReconcileResult, HoldsEvidence
  <2>2. CASE calls[w].finding # "applied"
    <3>1. ReconciledStatus(calls[w].finding) \in EffectStatus
      BY DEF ReconciledStatus, EffectStatus
    <3>2. /\ calls[w].step \notin {"idle", "planning"}
          /\ intents' = [intents EXCEPT ![calls[w].key] = [status |-> ReconciledStatus(calls[w].finding),
                                                            attempt |-> intents[calls[w].key].attempt]]
          /\ UNCHANGED receipts
      BY <1>7, <2>2 DEF ReconcileResult, At
    <3>3. QED
      BY <1>4, <3>1, <3>2
  <2>3. QED
    BY <2>1, <2>2
<1>8. QED
  BY <1>1, <1>2, <1>3, <1>5, <1>6, <1>7 DEF Next, Step, PlanLookup, CheckReceipt, Inspect,
     ClaimRefused, Observe, AdapterFails, WriteAccepted, WriteRefused, WriteTimesOut, LateWriteArrives,
     Crash, HumanEdit

(* No step undoes history: the row of an intent only goes forward, and a human's edit in Jira *)
(* is never written over by a later answer or a late write.                                   *)
THEOREM HistoryTheorem == Spec => NothingIsUndone
<1>1. IInv /\ [Next]_vars => [RowsGoForward /\ EditSurvives]_vars
  BY EditsSurvive, RowsMoveForward
<1>2. QED
  BY <1>1, Invariance, PTL DEF Spec, NothingIsUndone

(***************************************************************************)
(* Planning converges on one intent: an intent appears only where the      *)
(* transaction of its insertion finds none of its identity.                *)
(***************************************************************************)
Appears(k) == intents[k] = Absent /\ intents'[k] # Absent

LEMMA OnlyInsertionsAppear ==
  ASSUME IInv, Next, NEW k \in Keys, Appears(k)
  PROVE  SameIdentity(k) = {} /\ \A j \in Keys \ {k} : intents'[j] = intents[j]
<1>1. ASSUME NEW w \in Workers, calls[w].step \notin {"idle", "planning"}, NEW row,
             intents' = [intents EXCEPT ![calls[w].key] = row] \/ intents' = intents
      PROVE  FALSE
  <2>1. calls[w].key \in Keys /\ intents[calls[w].key] # Absent
    BY <1>1 DEF IInv, CallsHaveIntents, At
  <2>2. QED
    BY <1>1, <2>1 DEF Appears, IInv, TypeOK
<1>2. ASSUME NEW w \in Workers, InsertOrGet(w)
      PROVE  SameIdentity(k) = {} /\ \A j \in Keys \ {k} : intents'[j] = intents[j]
  <2>1. intents' # intents
    BY DEF Appears
  <2>2. /\ Insertable(calls[w].key)
        /\ intents' = [intents EXCEPT ![calls[w].key] = [status |-> "planned", attempt |-> 0]]
    BY <1>2, <2>1 DEF InsertOrGet
  <2>3. calls[w].key = k
    BY <2>2 DEF Appears, IInv, TypeOK
  <2>4. QED
    BY <2>2, <2>3 DEF Insertable, IInv, TypeOK
<1>3. ASSUME NEW w \in Workers, Claim(w) \/ RecordFailure(w) PROVE FALSE
  BY <1>1, <1>3 DEF Claim, RecordFailure, At
<1>4. ASSUME NEW w \in Workers, Complete(w) \/ ReconcileResult(w) PROVE FALSE
  BY <1>1, <1>4 DEF Complete, ReconcileResult, Completed, At
<1>5. intents' # intents
  BY DEF Appears
<1>6. QED
  BY <1>2, <1>3, <1>4, <1>5 DEF Next, Step, PlanLookup, CheckReceipt, Inspect, ClaimRefused, Observe,
     AdapterFails, WriteAccepted, WriteRefused, WriteTimesOut, LateWriteArrives, Crash, HumanEdit

(* One intent for one identity: however many workers plan the same effect, insertOrGet gives *)
(* them all the one row.                                                                     *)
THEOREM IdentityTheorem == Spec => []OneIntentPerIdentity
<1>1. Init => OneIntentPerIdentity
  BY DEF Init, OneIntentPerIdentity
<1>2. IInv /\ OneIntentPerIdentity /\ [Next]_vars => OneIntentPerIdentity'
  <2> SUFFICES ASSUME IInv, OneIntentPerIdentity, Next, NEW j \in Keys, NEW k \in Keys, j.plan = k.plan,
                      intents'[j] # Absent, intents'[k] # Absent
               PROVE  j = k
    BY DEF OneIntentPerIdentity, vars
  <2>1. CASE Appears(k)
    BY <2>1, OnlyInsertionsAppear DEF SameIdentity
  <2>2. CASE Appears(j)
    BY <2>2, OnlyInsertionsAppear DEF SameIdentity
  <2>3. CASE ~Appears(j) /\ ~Appears(k)
    BY <2>3 DEF Appears, OneIntentPerIdentity
  <2>4. QED
    BY <2>1, <2>2, <2>3
<1>3. QED
  BY <1>1, <1>2, Invariance, PTL DEF Spec

-----------------------------------------------------------------------------
(***************************************************************************)
(* The kernel implements EffectPromise.  Every request, prompt or late, is *)
(* made under the base version of its plan (SoundExpectation), so the step *)
(* at which the service accepts it is the compare-and-set of that plan.    *)
(***************************************************************************)
LEMMA WrittenRefines ==
  ASSUME IInv, NEW p \in Plans, NEW expected \in Nat, SoundExpectation(p, expected),
         ServiceAccepts(expected), Written(p), UNCHANGED receipts
  PROVE  Promise!Apply(p)
<1>1. expected = Base[p]
  BY DEF SoundExpectation
<1>2. Promise!Version = Base[p] /\ ~Promise!Edited
  BY <1>1, AcceptedWriteMeetsNoEdit
     DEF ServiceAccepts, SeenVersion, Promise!Version, Promise!Edited
<1>3. issue' = [digest |-> p, version |-> Promise!Version + 1, drifted |-> FALSE]
  BY DEF Written, SeenVersion, Promise!Version
<1>4. /\ writes \in [Plans -> Nat] /\ writes' = [writes EXCEPT ![p] = @ + 1]
      /\ writes'[p] = 1
  BY <1>1, AcceptedWrite DEF IInv, Written
<1>5. Applied' = Applied \cup {p}
  BY <1>4 DEF Applied
<1>6. UNCHANGED Acknowledged
  BY DEF Acknowledged
<1>7. QED
  BY <1>2, <1>3, <1>5, <1>6 DEF Promise!Apply

LEMMA EditRefines ==
  ASSUME HumanEdit
  PROVE  Promise!Edit
<1>1. UNCHANGED <<Applied, Acknowledged>>
  BY DEF HumanEdit, Applied, Acknowledged
<1>2. QED
  BY <1>1 DEF HumanEdit, Promise!Edit

\* A completion acknowledges its plan, or changes nothing of the promise.
LEMMA CompletionRefines ==
  ASSUME IInv, NEW w \in Workers, HoldsEvidence(w), Completed(w), UNCHANGED <<writes, issue>>
  PROVE  \/ \E p \in Plans : Promise!Acknowledge(p)
         \/ UNCHANGED <<issue, Applied, Acknowledged>>
<1>1. PICK r \in ReceiptRow :
        receipts' = [receipts EXCEPT ![calls[w].key] = ReceiptAfter(calls[w].key, r)]
  BY Completion
<1>2. PICK k \in Keys, p \in Plans : k = calls[w].key /\ p = k.plan /\ writes[p] > 0
  <2>1. calls[w].key \in Keys /\ writes[calls[w].key.plan] > 0
    BY Completion
  <2>2. calls[w].key.plan \in Plans
    BY <2>1 DEF Keys
  <2>3. QED
    BY <2>1, <2>2
<1>3. receipts \in [Keys -> ReceiptRow \cup {Absent}]
  BY DEF IInv, TypeOK
<1>4. ReceiptAfter(k, r) # Absent
  BY AbsentIsNoRow DEF ReceiptAfter
<1>5. /\ receipts'[k] # Absent
      /\ \A j \in Keys \ {k} : receipts'[j] = receipts[j]
  BY <1>1, <1>2, <1>3, <1>4
<1>6. \A q \in Plans \ {p} : q \in Acknowledged' <=> q \in Acknowledged
  BY <1>2, <1>5 DEF Acknowledged
<1>7. p \in Acknowledged'
  BY <1>2, <1>5 DEF Acknowledged
<1>8. Acknowledged \subseteq Plans /\ Acknowledged' \subseteq Plans
  BY DEF Acknowledged
<1>9. Acknowledged' = Acknowledged \cup {p}
  BY <1>6, <1>7, <1>8
<1>10. UNCHANGED Applied /\ p \in Applied
  BY <1>2 DEF Applied
<1>11. CASE p \in Acknowledged
  <2>1. Acknowledged' = Acknowledged
    BY <1>9, <1>11
  <2>2. QED
    BY <1>10, <2>1
<1>12. CASE p \notin Acknowledged
  BY <1>9, <1>10, <1>12 DEF Promise!Acknowledge
<1>13. QED
  BY <1>11, <1>12

LEMMA StepRefines ==
  ASSUME IInv, [Next]_vars
  PROVE  [Promise!Next]_<<issue, Applied, Acknowledged>>
<1>1. ASSUME UNCHANGED <<issue, writes, receipts>>
      PROVE  UNCHANGED <<issue, Applied, Acknowledged>>
  BY <1>1 DEF Applied, Acknowledged
<1>2. ASSUME NEW w \in Workers, WriteAccepted(w) PROVE Promise!Next
  <2>1. /\ PlanOf(w) \in Plans /\ calls[w].seen \in Nat
        /\ SoundExpectation(PlanOf(w), calls[w].seen) /\ ServiceAccepts(calls[w].seen)
        /\ Written(PlanOf(w)) /\ UNCHANGED receipts
    BY <1>2, RowTypes DEF WriteAccepted, IInv, CallsHaveIntents, WritesAreConditional,
       At, PlanOf, Keys
  <2>2. QED
    BY <2>1, WrittenRefines DEF Promise!Next
<1>3. CASE LateWriteArrives
  <2>1. PICK m \in late :
          /\ IF ServiceAccepts(m.expected) THEN Written(m.plan) ELSE UNCHANGED <<issue, writes>>
          /\ UNCHANGED receipts
    BY <1>3 DEF LateWriteArrives
  <2>2. m.plan \in Plans /\ m.expected \in Nat /\ SoundExpectation(m.plan, m.expected)
    BY DEF IInv, TypeOK, LateWrite, WritesAreConditional
  <2>3. CASE ServiceAccepts(m.expected)
    BY <2>1, <2>2, <2>3, WrittenRefines DEF Promise!Next
  <2>4. CASE ~ServiceAccepts(m.expected)
    BY <1>1, <2>1, <2>4
  <2>5. QED
    BY <2>3, <2>4
<1>4. ASSUME NEW w \in Workers, Complete(w) \/ ReconcileResult(w)
      PROVE  [Promise!Next]_<<issue, Applied, Acknowledged>>
  <2>1. CASE HoldsEvidence(w) /\ Completed(w) /\ UNCHANGED <<writes, issue>>
    BY <2>1, CompletionRefines DEF Promise!Next
  <2>2. CASE UNCHANGED <<issue, writes, receipts>>
    BY <1>1, <2>2
  <2>3. QED
    BY <1>4, <2>1, <2>2 DEF Complete, ReconcileResult, HoldsEvidence
<1>5. CASE HumanEdit
  BY <1>5, EditRefines DEF Promise!Next
<1>6. QED
  BY <1>1, <1>2, <1>3, <1>4, <1>5 DEF Next, vars, Step, PlanLookup, CheckReceipt, Inspect,
     InsertOrGet, Claim, ClaimRefused, Observe, AdapterFails, WriteRefused, WriteTimesOut,
     RecordFailure, Crash

(* The kernel implements its promise: every write of a projection, whenever it reaches the  *)
(* service, is the atomic compare-and-set of its plan against the version it was made for,  *)
(* and a plan is acknowledged once, after it.                                               *)
THEOREM PromiseTheorem == Spec => KeepsPromise
<1>1. Init => Promise!Init
  BY DEF Init, Promise!Init, Applied, Acknowledged
<1>2. IInv /\ [Next]_vars => [Promise!Next]_<<issue, Applied, Acknowledged>>
  BY StepRefines
<1>3. QED
  BY <1>1, <1>2, Invariance, PTL DEF Spec, KeepsPromise, Promise!Spec, Promise!vars
=============================================================================
