--------------------------- MODULE WorkflowMachine ---------------------------
(***************************************************************************)
(* The canonical workflow of a run: packages/domain/src/workflow/          *)
(* workflow-machine.ts.  The module is a pure function: Decide maps a run  *)
(* snapshot and a command to a refusal or to the next snapshot with the    *)
(* event it emits.  It keeps no state; RunStore persists what it decides.  *)
(***************************************************************************)
EXTENDS Integers, FiniteSets

CONSTANTS
    RunIds,            \* StableId "run" identifiers
    Actors,            \* actor identifiers
    Digests,           \* every binding digest a caller may present
    CanonicalDigests,  \* the ones Digest.parse accepts
    RepairLimit,       \* repair cycles before a human must resolve (3)
    None               \* the code's undefined

ASSUME DigestsAssumption == CanonicalDigests \subseteq Digests
ASSUME RepairLimitAssumption == RepairLimit \in Nat
ASSUME NoneAssumption == None \notin RunIds \cup Actors \cup Digests

-----------------------------------------------------------------------------
(* The vocabulary of the machine.                                          *)

TERMINAL_WORKFLOW_STATES ==
    {"COMPLETED", "HANDED_OFF", "FAILED", "ABORTED", "INTERRUPTED", "RECOVERED"}

ACTIVE_STATES ==
    {"CREATED", "INTAKE_REQUIRED", "READY", "DISCOVERY_REQUIRED", "RECONNING",
     "SPECIFYING", "SPEC_REVIEW", "DESIGNING", "DESIGN_REVIEW", "TASKING",
     "EXECUTION_READY", "AWAITING_EXECUTION_APPROVAL", "EXECUTION_AUTHORIZED",
     "IMPLEMENTING", "VERIFYING", "REPAIRING", "HUMAN_RESOLUTION_REQUIRED",
     "HUMAN_REVIEW", "HANDOFF_PREPARING", "AWAITING_HANDOFF_PUBLICATION_APPROVAL"}

WORKFLOW_STATES == ACTIVE_STATES \cup TERMINAL_WORKFLOW_STATES

WORKFLOW_COMMANDS ==
    {"REQUIRE_INTAKE", "READY_WITHOUT_INTAKE", "COMPLETE_INTAKE",
     "REQUIRE_DISCOVERY", "START_RECONNAISSANCE", "START_SPECIFICATION",
     "SUBMIT_SPEC_REVIEW", "APPROVE_SPEC", "SUBMIT_DESIGN_REVIEW",
     "APPROVE_DESIGN", "COMPLETE_TASKING", "REQUEST_EXECUTION_APPROVAL",
     "GRANT_EXECUTION_APPROVAL", "START_IMPLEMENTATION",
     "START_VERIFICATION", "REQUEST_REPAIR", "COMPLETE_REPAIR",
     "RESOLVE_REPAIR", "PASS_VERIFICATION", "APPROVE_HUMAN_REVIEW",
     "PREPARE_HANDOFF", "REQUEST_HANDOFF_PUBLICATION_APPROVAL",
     "COMPLETE_HANDOFF", "INVALIDATE_EXECUTION_APPROVAL", "FAIL", "ABORT",
     "INTERRUPT", "COMPLETE_RECOVERY", "EXPAND_REPAIR_SCOPE",
     "COMPLETE_PROBE"}

RUN_KINDS == {"feature", "recovery", "probe"}

WORKFLOW_ACTOR_ROLES ==
    {"human", "planner", "implementer", "verifier", "controller", "recovery"}

RunSnapshot ==
    [runId : RunIds,
     runKind : RUN_KINDS,
     state : WORKFLOW_STATES,
     version : Nat,
     repairCycles : Nat,
     approval : Digests \cup {None},
     implementationActorId : Actors \cup {None},
     terminalCapsuleRequired : BOOLEAN,
     predecessorRunId : RunIds \cup {None},
     successorRunId : RunIds \cup {None}]

ASSUME NoneIsNoSnapshot == None \notin RunSnapshot

(***************************************************************************)
(* The edge table.  An edge without an actorRole admits every role.        *)
(***************************************************************************)
Edge(from, command, to, roles, evidence) ==
    [from |-> from, command |-> command, to |-> to,
     roles |-> roles, requiredEvidence |-> evidence]

AnyRole == WORKFLOW_ACTOR_ROLES

BASE_EDGES ==
    { Edge("CREATED", "REQUIRE_INTAKE", "INTAKE_REQUIRED", AnyRole, {}),
      Edge("CREATED", "READY_WITHOUT_INTAKE", "READY", AnyRole, {}),
      Edge("INTAKE_REQUIRED", "COMPLETE_INTAKE", "READY", AnyRole, {"intake-record"}),
      Edge("READY", "REQUIRE_DISCOVERY", "DISCOVERY_REQUIRED", AnyRole, {}),
      Edge("READY", "START_RECONNAISSANCE", "RECONNING", AnyRole, {}),
      Edge("DISCOVERY_REQUIRED", "START_RECONNAISSANCE", "RECONNING", AnyRole, {}),
      Edge("READY", "START_SPECIFICATION", "SPECIFYING", AnyRole, {}),
      Edge("RECONNING", "START_SPECIFICATION", "SPECIFYING", AnyRole, {"discovery-report"}),
      Edge("SPECIFYING", "SUBMIT_SPEC_REVIEW", "SPEC_REVIEW", AnyRole, {"specification"}),
      Edge("SPEC_REVIEW", "APPROVE_SPEC", "DESIGNING", {"human"}, {"spec-review"}),
      Edge("DESIGNING", "SUBMIT_DESIGN_REVIEW", "DESIGN_REVIEW", AnyRole, {"design"}),
      Edge("DESIGN_REVIEW", "APPROVE_DESIGN", "TASKING", {"human"}, {"design-review"}),
      Edge("TASKING", "COMPLETE_TASKING", "EXECUTION_READY", AnyRole, {"execution-package"}),
      Edge("EXECUTION_READY", "REQUEST_EXECUTION_APPROVAL", "AWAITING_EXECUTION_APPROVAL",
           AnyRole, {"execution-package"}),
      Edge("AWAITING_EXECUTION_APPROVAL", "GRANT_EXECUTION_APPROVAL", "EXECUTION_AUTHORIZED",
           {"human"}, {"execution-approval"}),
      Edge("EXECUTION_AUTHORIZED", "START_IMPLEMENTATION", "IMPLEMENTING",
           {"implementer"}, {"writer-lease"}),
      Edge("IMPLEMENTING", "START_VERIFICATION", "VERIFYING",
           {"implementer"}, {"task-gate-evidence"}),
      Edge("VERIFYING", "REQUEST_REPAIR", "REPAIRING", {"verifier"}, {"verification-evidence"}),
      Edge("REPAIRING", "COMPLETE_REPAIR", "VERIFYING", {"implementer"}, {"repair-evidence"}),
      Edge("HUMAN_RESOLUTION_REQUIRED", "RESOLVE_REPAIR", "REPAIRING",
           {"human"}, {"human-resolution"}),
      Edge("VERIFYING", "PASS_VERIFICATION", "HUMAN_REVIEW",
           {"verifier"}, {"verification-evidence"}),
      Edge("HUMAN_REVIEW", "APPROVE_HUMAN_REVIEW", "COMPLETED",
           {"human"}, {"human-review-record"}),
      Edge("EXECUTION_AUTHORIZED", "COMPLETE_PROBE", "COMPLETED", {"controller"}, {"probe-result"}),
      Edge("EXECUTION_READY", "PREPARE_HANDOFF", "HANDOFF_PREPARING", AnyRole, {"signed-package"}),
      Edge("EXECUTION_AUTHORIZED", "PREPARE_HANDOFF", "HANDOFF_PREPARING",
           AnyRole, {"signed-package"}),
      Edge("HANDOFF_PREPARING", "REQUEST_HANDOFF_PUBLICATION_APPROVAL",
           "AWAITING_HANDOFF_PUBLICATION_APPROVAL", AnyRole, {"signed-package"}),
      Edge("HANDOFF_PREPARING", "COMPLETE_HANDOFF", "HANDED_OFF", AnyRole, {"signed-package"}),
      Edge("AWAITING_HANDOFF_PUBLICATION_APPROVAL", "COMPLETE_HANDOFF", "HANDED_OFF", AnyRole,
           {"signed-package", "handoff-publication-approval", "handoff-publication-receipt"}),
      Edge("REPAIRING", "EXPAND_REPAIR_SCOPE", "AWAITING_EXECUTION_APPROVAL", AnyRole, {}) }

INVALIDATION_EDGES ==
    { Edge(from, "INVALIDATE_EXECUTION_APPROVAL", "AWAITING_EXECUTION_APPROVAL", AnyRole, {}) :
        from \in {"EXECUTION_AUTHORIZED", "IMPLEMENTING", "VERIFYING", "REPAIRING"} }

TERMINAL_EDGES ==
    { Edge(from, "FAIL", "FAILED", AnyRole, {"terminal-error-evidence"}) : from \in ACTIVE_STATES }
    \cup { Edge(from, "ABORT", "ABORTED", {"human"}, {}) : from \in ACTIVE_STATES }
    \cup { Edge(from, "INTERRUPT", "INTERRUPTED", AnyRole, {}) : from \in ACTIVE_STATES }
    \cup { Edge(from, "COMPLETE_RECOVERY", "RECOVERED", {"recovery"}, {"recovery-evidence"}) :
             from \in ACTIVE_STATES }

WORKFLOW_DEFINITION == BASE_EDGES \cup INVALIDATION_EDGES \cup TERMINAL_EDGES

(***************************************************************************)
(* validateWorkflowDefinition: the module refuses to load unless the table *)
(* has one edge per (state, command), no edge out of a terminal state, no  *)
(* way to implement without approval, to complete without Human Review (a  *)
(* probe aside), or to widen a repair without a new approval.              *)
(***************************************************************************)
EdgeKey(e) == <<e.from, e.command, e.to>>

REQUIRED_EDGE_KEYS ==
    { <<"EXECUTION_READY", "REQUEST_EXECUTION_APPROVAL", "AWAITING_EXECUTION_APPROVAL">>,
      <<"AWAITING_EXECUTION_APPROVAL", "GRANT_EXECUTION_APPROVAL", "EXECUTION_AUTHORIZED">>,
      <<"VERIFYING", "PASS_VERIFICATION", "HUMAN_REVIEW">>,
      <<"HUMAN_REVIEW", "APPROVE_HUMAN_REVIEW", "COMPLETED">>,
      <<"REPAIRING", "EXPAND_REPAIR_SCOPE", "AWAITING_EXECUTION_APPROVAL">> }

COMPLETION_EDGE_KEYS ==
    { <<"HUMAN_REVIEW", "APPROVE_HUMAN_REVIEW", "COMPLETED">>,
      <<"EXECUTION_AUTHORIZED", "COMPLETE_PROBE", "COMPLETED">> }

ValidWorkflowDefinition(definition) ==
    /\ \A d, e \in definition : d.from = e.from /\ d.command = e.command => d = e
    /\ \A e \in definition :
         /\ e.from \notin TERMINAL_WORKFLOW_STATES
         /\ ~(e.from = "EXECUTION_READY" /\ e.to = "IMPLEMENTING")
         /\ e.to = "COMPLETED" => EdgeKey(e) \in COMPLETION_EDGE_KEYS
         /\ e.command = "EXPAND_REPAIR_SCOPE" => e.to = "AWAITING_EXECUTION_APPROVAL"
    /\ REQUIRED_EDGE_KEYS \subseteq { EdgeKey(e) : e \in definition }

\* The throw at module load: WORKFLOW_DEFINITION passes its own validation.
ASSUME WorkflowDefinitionAssumption == ValidWorkflowDefinition(WORKFLOW_DEFINITION)

-----------------------------------------------------------------------------
(* Guards.  Each one refuses the command or lets the next one decide; the  *)
(* refusals differ only in the error code, so they are a conjunction here. *)

PROBE_RUN_COMMANDS ==
    {"REQUEST_EXECUTION_APPROVAL", "GRANT_EXECUTION_APPROVAL", "COMPLETE_PROBE",
     "FAIL", "ABORT", "INTERRUPT"}

RunKindGuard(current, command) ==
    /\ command.type = "COMPLETE_RECOVERY" => current.runKind = "recovery"
    /\ command.type = "COMPLETE_PROBE" => current.runKind = "probe"
    /\ current.runKind = "probe" => command.type \in PROBE_RUN_COMMANDS

GrantApprovalGuard(command) ==
    command.type = "GRANT_EXECUTION_APPROVAL" =>
        /\ command.approvalBindingDigest # None
        /\ command.approvalBindingDigest = command.currentBindingDigest
        /\ command.approvalBindingDigest \in CanonicalDigests

\* START_IMPLEMENTATION needs an approval; a stale one does not refuse the
\* command but turns it into an invalidation (see TargetState).
ApprovalPresentGuard(current, command) ==
    command.type = "START_IMPLEMENTATION" => current.approval # None

ApprovalIsStale(current, command) ==
    \/ current.approval # command.currentBindingDigest
    \/ current.approval \notin CanonicalDigests

\* Mutant: only the role separates author and verifier.
AuthorVerifierByRole(current, command) ==
    command.type \in {"REQUEST_REPAIR", "PASS_VERIFICATION"} => command.actorRole = "verifier"

AuthorVerifierGuard(current, command) ==
    command.type \in {"REQUEST_REPAIR", "PASS_VERIFICATION"} =>
        \/ current.implementationActorId = None
        \/ current.implementationActorId # command.actorId

HandoffPublicationGuard(current, command) ==
    ~ /\ command.type = "COMPLETE_HANDOFF"
      /\ current.state = "HANDOFF_PREPARING"
      /\ command.publicationRequired

\* successorAfter returns undefined for a run that would succeed itself.
SuccessorGuard(current, command) ==
    command.type = "PREPARE_HANDOFF" => command.successorRunId # current.runId

Guards(current, command, definition) ==
    /\ RunKindGuard(current, command)
    /\ command.actorRole \in definition.roles
    /\ definition.requiredEvidence \subseteq command.evidence
    /\ GrantApprovalGuard(command)
    /\ ApprovalPresentGuard(current, command)
    /\ AuthorVerifierGuard(current, command)
    /\ HandoffPublicationGuard(current, command)
    /\ SuccessorGuard(current, command)

-----------------------------------------------------------------------------
(* transition: the snapshot and the event an accepted command produces.    *)

InvalidatesApproval(current, command) ==
    command.type = "START_IMPLEMENTATION" /\ ApprovalIsStale(current, command)

RepairLimitReached(current, command) ==
    command.type = "REQUEST_REPAIR" /\ current.repairCycles >= RepairLimit

TargetState(current, command, definition) ==
    IF InvalidatesApproval(current, command) THEN "AWAITING_EXECUTION_APPROVAL"
    ELSE IF RepairLimitReached(current, command) THEN "HUMAN_RESOLUTION_REQUIRED"
    ELSE definition.to

EVENT_TYPES ==
    WORKFLOW_COMMANDS \cup {"EXECUTION_APPROVAL_INVALIDATED", "REPAIR_LIMIT_REACHED"}

EventType(current, command) ==
    IF InvalidatesApproval(current, command) THEN "EXECUTION_APPROVAL_INVALIDATED"
    ELSE IF RepairLimitReached(current, command) THEN "REPAIR_LIMIT_REACHED"
    ELSE command.type

\* Mutant: widening a repair keeps the approval.
ApprovalKeptOnExpansion(current, command) ==
    IF \/ command.type \in {"INVALIDATE_EXECUTION_APPROVAL", "PREPARE_HANDOFF"}
       \/ InvalidatesApproval(current, command)
    THEN None
    ELSE IF command.type = "GRANT_EXECUTION_APPROVAL" THEN command.approvalBindingDigest
    ELSE current.approval

ApprovalAfter(current, command) ==
    IF \/ command.type \in {"INVALIDATE_EXECUTION_APPROVAL", "EXPAND_REPAIR_SCOPE",
                            "PREPARE_HANDOFF"}
       \/ InvalidatesApproval(current, command)
    THEN None
    ELSE IF command.type = "GRANT_EXECUTION_APPROVAL" THEN command.approvalBindingDigest
    ELSE current.approval

RepairCyclesAfter(current, command, nextState) ==
    IF command.type = "REQUEST_REPAIR" /\ nextState = "REPAIRING"
    THEN current.repairCycles + 1
    ELSE IF command.type = "RESOLVE_REPAIR" THEN 0
    ELSE current.repairCycles

SuccessorAfter(current, command) ==
    IF command.type = "PREPARE_HANDOFF" /\ command.successorRunId # None
    THEN command.successorRunId ELSE current.successorRunId

ImplementerAfter(current, command) ==
    IF command.type = "START_IMPLEMENTATION" THEN command.actorId
    ELSE current.implementationActorId

CapsuleRequired(current, nextState) ==
    nextState \in TERMINAL_WORKFLOW_STATES /\ current.runKind # "probe"

Transition(current, command, definition) ==
    LET nextState == TargetState(current, command, definition) IN
    [runId |-> current.runId,
     runKind |-> current.runKind,
     state |-> nextState,
     version |-> current.version + 1,
     repairCycles |-> RepairCyclesAfter(current, command, nextState),
     approval |-> ApprovalAfter(current, command),
     implementationActorId |-> ImplementerAfter(current, command),
     terminalCapsuleRequired |->
        CapsuleRequired(current, nextState) \/ current.terminalCapsuleRequired,
     predecessorRunId |-> current.predecessorRunId,
     successorRunId |-> SuccessorAfter(current, command)]

(***************************************************************************)
(* WorkflowMachine.decide, as the relation "the command is accepted by the *)
(* edge definition".  A command that no edge accepts is refused and        *)
(* changes nothing.                                                        *)
(***************************************************************************)
Accepts(current, command, definition) ==
    /\ command.expectedVersion = current.version
    /\ current.state \notin TERMINAL_WORKFLOW_STATES
    /\ definition.from = current.state
    /\ definition.command = command.type
    /\ Guards(current, command, definition)

(***************************************************************************)
(* createHandoffSuccessor: the run that continues a handed-off one.  Its   *)
(* other preconditions (verified package, ready bindings and claim,        *)
(* re-evaluated policy, a first pending task) are facts about the receiver *)
(* that the caller supplies.                                               *)
(***************************************************************************)
MayCreateSuccessor(source, successorRunId, receiverReady) ==
    /\ source.state = "HANDED_OFF"
    /\ receiverReady
    /\ successorRunId # source.runId
    /\ source.successorRunId = successorRunId

NewRun(runId, kind, state, predecessor) ==
    [runId |-> runId, runKind |-> kind, state |-> state, version |-> 0,
     repairCycles |-> 0, approval |-> None, implementationActorId |-> None,
     terminalCapsuleRequired |-> FALSE,
     predecessorRunId |-> predecessor, successorRunId |-> None]

HandoffSuccessor(source, successorRunId) ==
    NewRun(successorRunId, "feature", "EXECUTION_READY", source.runId)
=============================================================================
