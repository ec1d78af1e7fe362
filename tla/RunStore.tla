------------------------------ MODULE RunStore ------------------------------
(***************************************************************************)
(* The durable record of runs: the runs, state_events and                  *)
(* run_capsule_seals tables of platform-node/src/runtime-store/            *)
(* runtime-store.ts, written by independent operating-system processes     *)
(* (vestra task plan, approve, start, cancel, review; vestra probe run)    *)
(* through applyWorkflow of apps/vestra-cli/src/task/task-workflow.ts.     *)
(*                                                                         *)
(* applyWorkflow reads a run, decides on what it read and then persists    *)
(* with compare-and-set.  Each SQLite transaction is atomic; between the   *)
(* read and the transaction any other process may act, and the process     *)
(* itself may die, so the read is an action of its own.                    *)
(***************************************************************************)
EXTENDS WorkflowMachine

CONSTANTS
    Processes,     \* the processes that share the database
    Principals,    \* [actorRole, actorId] identities that issue commands
    Starts,        \* run -> kinds and states with which createRun is called for it
    CapsuleIds,    \* identifiers of sealed Run Capsules
    MaxVersion     \* run -> bound on its state_version

ASSUME PrincipalsAssumption ==
    Principals \subseteq [actorRole : WORKFLOW_ACTOR_ROLES, actorId : Actors]
ASSUME StartsAssumption ==
    Starts \in [RunIds -> SUBSET [kind : RUN_KINDS, state : {"CREATED", "EXECUTION_READY"}]]
ASSUME CapsuleIdsAssumption == None \notin CapsuleIds
ASSUME MaxVersionAssumption == MaxVersion \in [RunIds -> Nat]

VARIABLES
    runs,    \* table runs, by run_id
    events,  \* table state_events, by run_id: a set of rows
    seals,   \* table run_capsule_seals, by run_id
    loaded   \* per process: the snapshot getRun returned, until it is used

storeVars == <<runs, events, seals, loaded>>

EventRow ==
    [sequence : Nat, previousState : WORKFLOW_STATES, nextState : WORKFLOW_STATES,
     eventType : EVENT_TYPES, actorRole : WORKFLOW_ACTOR_ROLES, actorId : Actors]

CapsuleSeal ==
    [stateVersion : Nat, status : TERMINAL_WORKFLOW_STATES, capsuleId : CapsuleIds]

StoreInit ==
    /\ runs = [r \in RunIds |-> None]
    /\ events = [r \in RunIds |-> {}]
    /\ seals = [r \in RunIds |-> None]
    /\ loaded = [p \in Processes |-> None]

-----------------------------------------------------------------------------
(* createRun: INSERT INTO runs, refused when the primary key exists.       *)

CreateRun(r, start) ==
    /\ runs[r] = None
    /\ runs' = [runs EXCEPT ![r] = NewRun(r, start.kind, start.state, None)]
    /\ UNCHANGED <<events, seals, loaded>>

\* The handoff receiver stores the successor of a handed-off run it has read.
CreateSuccessor(p, r) ==
    /\ loaded[p] # None
    /\ MayCreateSuccessor(loaded[p], r, TRUE)
    /\ runs[r] = None
    /\ runs' = [runs EXCEPT ![r] = HandoffSuccessor(loaded[p], r)]
    /\ loaded' = [loaded EXCEPT ![p] = None]
    /\ UNCHANGED <<events, seals>>

GetRun(p, r) ==
    /\ loaded[p] = None
    /\ runs[r] # None
    /\ loaded' = [loaded EXCEPT ![p] = runs[r]]
    /\ UNCHANGED <<runs, events, seals>>

-----------------------------------------------------------------------------
(* The commands callers send along an edge.  Optional fields are filled    *)
(* only where the machine reads them, and evidence is offered whole or not *)
(* at all; expectedVersion is the version the process read.                *)

Unless(used, values) == IF used THEN values ELSE {None}

Commands(definition, version) ==
    LET type == definition.command IN
    [type : {type},
     expectedVersion : {version},
     evidence : {{}, definition.requiredEvidence},
     currentBindingDigest :
        Unless(type \in {"GRANT_EXECUTION_APPROVAL", "START_IMPLEMENTATION"},
               Digests \cup {None}),
     approvalBindingDigest :
        Unless(type = "GRANT_EXECUTION_APPROVAL", Digests \cup {None}),
     publicationRequired : IF type = "COMPLETE_HANDOFF" THEN BOOLEAN ELSE {FALSE},
     successorRunId : Unless(type = "PREPARE_HANDOFF", RunIds \cup {None})]

IssuedBy(principal, fields) ==
    [type |-> fields.type,
     expectedVersion |-> fields.expectedVersion,
     actorRole |-> principal.actorRole,
     actorId |-> principal.actorId,
     evidence |-> fields.evidence,
     currentBindingDigest |-> fields.currentBindingDigest,
     approvalBindingDigest |-> fields.approvalBindingDigest,
     publicationRequired |-> fields.publicationRequired,
     successorRunId |-> fields.successorRunId]

-----------------------------------------------------------------------------
(* applyTransition: one BEGIN IMMEDIATE transaction that updates the run   *)
(* where version and state are the ones decided on, and inserts the event; *)
(* UNIQUE (run_id, sequence) refuses a second event of one version.        *)

\* Mutant: the update names the run and not the version it was decided on.
PersistableOnAnyVersion(r, before, after) == runs[r].runId = after.runId

Persistable(r, before, after) ==
    /\ runs[r].version = after.version - 1
    /\ runs[r].state = before.state
    /\ \A row \in events[r] : row.sequence # after.version

ApplyTransition(r, before, after, command) ==
    /\ Persistable(r, before, after)
    /\ runs' = [runs EXCEPT ![r] = after]
    /\ events' = [events EXCEPT ![r] = @ \cup
          {[sequence |-> after.version,
            previousState |-> before.state,
            nextState |-> after.state,
            eventType |-> EventType(before, command),
            actorRole |-> command.actorRole,
            actorId |-> command.actorId]}]

\* applyWorkflow: decide on the loaded snapshot, persist, return.
ApplyWorkflow(p, definition, command) ==
    LET before == loaded[p] IN
    /\ before # None
    /\ before.version < MaxVersion[before.runId]
    /\ Accepts(before, command, definition)
    /\ ApplyTransition(before.runId, before, Transition(before, command, definition), command)
    /\ loaded' = [loaded EXCEPT ![p] = None]
    /\ UNCHANGED seals

(***************************************************************************)
(* recordRunCapsuleSeal with the version and status of a snapshot the      *)
(* sealer read earlier.  The seal is written once; a different one is      *)
(* refused, an identical one is a no-op.                                   *)
(***************************************************************************)
\* Mutant: a capsule is accepted for a run that owes none.
SealableWhenNotOwed(snapshot) ==
    LET run == runs[snapshot.runId] IN
    /\ snapshot.state \in TERMINAL_WORKFLOW_STATES
    /\ run.state = snapshot.state
    /\ run.version = snapshot.version

Sealable(snapshot) ==
    LET run == runs[snapshot.runId] IN
    /\ snapshot.state \in TERMINAL_WORKFLOW_STATES
    /\ run.state = snapshot.state
    /\ run.version = snapshot.version
    /\ run.terminalCapsuleRequired

RecordRunCapsuleSeal(p, capsule) ==
    LET snapshot == loaded[p] IN
    /\ snapshot # None
    /\ seals[snapshot.runId] = None
    /\ Sealable(snapshot)
    /\ \A r \in RunIds : seals[r] # None => seals[r].capsuleId # capsule
    /\ seals' = [seals EXCEPT ![snapshot.runId] =
          [stateVersion |-> snapshot.version, status |-> snapshot.state, capsuleId |-> capsule]]
    /\ loaded' = [loaded EXCEPT ![p] = None]
    /\ UNCHANGED <<runs, events>>

(***************************************************************************)
(* Every other way a process stops using what it read: the machine refuses *)
(* the command, the compare-and-set finds the run changed and the          *)
(* transaction rolls back, or the process dies (also inside the            *)
(* transaction, which SQLite then rolls back).                             *)
(***************************************************************************)
Abandon(p) ==
    /\ loaded[p] # None
    /\ loaded' = [loaded EXCEPT ![p] = None]
    /\ UNCHANGED <<runs, events, seals>>

StoreNext ==
    \/ \E r \in RunIds : \E start \in Starts[r] : CreateRun(r, start)
    \/ \E p \in Processes, r \in RunIds : CreateSuccessor(p, r)
    \/ \E p \in Processes, r \in RunIds : GetRun(p, r)
    \/ \E p \in Processes :
         /\ loaded[p] # None
         /\ \E definition \in {e \in WORKFLOW_DEFINITION : e.from = loaded[p].state} :
              \E principal \in Principals, fields \in Commands(definition, loaded[p].version) :
                ApplyWorkflow(p, definition, IssuedBy(principal, fields))
    \/ \E p \in Processes, capsule \in CapsuleIds : RecordRunCapsuleSeal(p, capsule)
    \/ \E p \in Processes : Abandon(p)

StoreSpec == StoreInit /\ [][StoreNext]_storeVars

-----------------------------------------------------------------------------
(* Properties.                                                             *)

Exists(r) == runs[r] # None

\* Type invariant: every row and every held snapshot is well formed.
StoreTypeOK ==
    /\ runs \in [RunIds -> RunSnapshot \cup {None}]
    /\ events \in [RunIds -> SUBSET EventRow]
    /\ seals \in [RunIds -> CapsuleSeal \cup {None}]
    /\ loaded \in [Processes -> RunSnapshot \cup {None}]

(***************************************************************************)
(* A run is implemented, verified, repaired or reviewed only while it      *)
(* carries a canonical approval, and no approval survives into a state     *)
(* that precedes approval or prepares a handoff (approvalAfter).           *)
(***************************************************************************)
AuthorisedStates ==
    {"EXECUTION_AUTHORIZED", "IMPLEMENTING", "VERIFYING", "REPAIRING",
     "HUMAN_RESOLUTION_REQUIRED", "HUMAN_REVIEW"}

WorkOnlyUnderApproval ==
    \A r \in RunIds : Exists(r) =>
        /\ runs[r].state \in AuthorisedStates => runs[r].approval \in CanonicalDigests
        /\ runs[r].state \in ACTIVE_STATES \ AuthorisedStates => runs[r].approval = None

(***************************************************************************)
(* What is recorded of a run agrees, whatever processes raced: one event   *)
(* per version, each starting where the previous one ended, the last one   *)
(* ending in the run's state (applyTransition writes both or neither); the *)
(* repair cycles since a human last resolved the loop, within the limit    *)
(* (repairCyclesAfter); and a seal of the run as it ended, one capsule for *)
(* one run and none for a probe, though sealers hold snapshots that other  *)
(* processes may have outdated (recordRunCapsuleSeal).                     *)
(***************************************************************************)
EventsMatch(r) ==
    /\ { row.sequence : row \in events[r] } = 1..runs[r].version
    /\ \A a, b \in events[r] :
         /\ a.sequence = b.sequence => a = b
         /\ b.sequence = a.sequence + 1 => a.nextState = b.previousState
    /\ \A a \in events[r] :
         a.sequence = runs[r].version => a.nextState = runs[r].state

RepairRequestsSinceResolution(r) ==
    { row \in events[r] :
        /\ row.eventType = "REQUEST_REPAIR"
        /\ \A other \in events[r] :
             other.eventType = "RESOLVE_REPAIR" => other.sequence < row.sequence }

RepairsMatch(r) ==
    /\ runs[r].repairCycles = Cardinality(RepairRequestsSinceResolution(r))
    /\ runs[r].repairCycles <= RepairLimit

SealMatches(r) ==
    /\ runs[r].state = seals[r].status
    /\ runs[r].version = seals[r].stateVersion
    /\ runs[r].runKind # "probe"
    /\ \A q \in RunIds : seals[q] # None /\ seals[q].capsuleId = seals[r].capsuleId => q = r

LogMatchesRun ==
    \A r \in RunIds :
        /\ ~Exists(r) => events[r] = {} /\ seals[r] = None
        /\ Exists(r) => EventsMatch(r) /\ RepairsMatch(r) /\ (seals[r] # None => SealMatches(r))

(***************************************************************************)
(* A completed task or recovery run went, in this order, through a human   *)
(* grant that nothing invalidated, an implementation, a verification       *)
(* passed by somebody other than the actor of the last implementation, and *)
(* a human review that ended it.  (validateWorkflowDefinition only looks   *)
(* at single edges.)                                                       *)
(***************************************************************************)
Voids == {"INVALIDATE_EXECUTION_APPROVAL", "EXPAND_REPAIR_SCOPE",
          "EXECUTION_APPROVAL_INVALIDATED", "PREPARE_HANDOFF"}

CompletedRunWasReviewed ==
    \A r \in RunIds :
        (Exists(r) /\ runs[r].state = "COMPLETED" /\ runs[r].runKind # "probe") =>
            \E grant, start, pass, review \in events[r] :
                /\ grant.eventType = "GRANT_EXECUTION_APPROVAL" /\ grant.actorRole = "human"
                /\ start.eventType = "START_IMPLEMENTATION"
                /\ pass.eventType = "PASS_VERIFICATION" /\ pass.actorId # start.actorId
                /\ review.eventType = "APPROVE_HUMAN_REVIEW" /\ review.actorRole = "human"
                /\ grant.sequence < start.sequence
                /\ start.sequence < pass.sequence
                /\ pass.sequence < review.sequence
                /\ review.sequence = runs[r].version
                /\ \A row \in events[r] : row.sequence > grant.sequence =>
                     /\ row.eventType \notin Voids
                     /\ row.sequence > start.sequence => row.eventType # "START_IMPLEMENTATION"

(***************************************************************************)
(* What no step may do: reopen an ended run, change a recorded seal, lose  *)
(* an event, or move a version other than one forward - also when the      *)
(* process that writes decided on a snapshot that is no longer current.    *)
(***************************************************************************)
EndedRunsStayEnded ==
    [][\A r \in RunIds :
         /\ events[r] \subseteq events'[r]
         /\ Exists(r) => runs'[r] # None /\ runs'[r].version \in {runs[r].version, runs[r].version + 1}
         /\ Exists(r) /\ runs[r].state \in TERMINAL_WORKFLOW_STATES => runs'[r] = runs[r]
         /\ seals[r] # None => seals'[r] = seals[r]]_storeVars
=============================================================================
