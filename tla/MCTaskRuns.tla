------------------------------ MODULE MCTaskRuns ------------------------------
(***************************************************************************)
(* The runs of a workspace, for TLC: their durable record, and the         *)
(* commands that drive them with their markers, worktrees and lease.  A    *)
(* behaviour plays one of the two parts; the other stays in its initial    *)
(* state.                                                                  *)
(***************************************************************************)
EXTENDS RunStore, MCTaskDrive

CONSTANTS q1, q2, ann, bob, eve, d1, d2, c1

VARIABLE part

As(role, actor) == [actorRole |-> role, actorId |-> actor]

\* ann is the human, bob implements and also claims the verifier role, eve verifies.
DeliveryPrincipals ==
    {As("human", ann), As("implementer", bob), As("verifier", bob), As("verifier", eve)}

Start(kind, state) == [kind |-> kind, state |-> state]

\* A run from its execution on, and the run it may be handed off to.
RaceStarts ==
    r1 :> {Start("feature", "EXECUTION_READY"), Start("probe", "EXECUTION_READY")} @@ r2 :> {}
RaceVersions == r1 :> 6 @@ r2 :> 0

TaskRunsInit == part \in {"records", "commands"} /\ StoreInit /\ Init

RecordsStep == part = "records" /\ StoreNext /\ UNCHANGED <<part, vars>>

\* The start of a run and its review meet at most two of: its resumption, its
\* cancellation, the start of another run.
MaxOthers == 2
Others == {p \in Callers : Command[p] \in {Does("resume", r1), Does("cancel", r1), Does("start", r2)}}
IssuedOthers == {p \in Others : step[p] # "ready"}

CommandsStep ==
    /\ part = "commands"
    /\ Next
    /\ Cardinality(IssuedOthers') <= MaxOthers
    /\ UNCHANGED <<part, storeVars>>

TaskRunsSpec == TaskRunsInit /\ [][RecordsStep \/ CommandsStep]_<<part, storeVars, vars>>

\* The processes that read and write records are alike.
ProcessSymmetry == Permutations(Processes)
=============================================================================
