---------------------------- MODULE TaskScheduler ----------------------------
(***************************************************************************)
(* The scheduler of the tasks of one execution package                     *)
(* (application/src/execution/task-scheduler.ts): it starts the tasks      *)
(* whose dependencies completed, as many as are allowed at once, never two *)
(* whose change scopes overlap, waits for executions to settle, and stops  *)
(* launching after a failure or an abort.                                  *)
(*                                                                         *)
(* One turn of its loop is one turn of the event loop: it drains what has  *)
(* settled and launches the next round without yielding.  Executions       *)
(* settle, and the abort signal is raised, between two turns.              *)
(***************************************************************************)
EXTENDS Integers, FiniteSets

CONSTANTS
  Tasks,    \* task identifiers, numbered in code-unit order
  Places,   \* a path of a change scope stands for the places below it
  Limits    \* values of maxConcurrentTasks

ASSUME TasksAssumption == Tasks \subseteq Nat /\ IsFiniteSet(Tasks)

ASSUME LimitsAssumption == Limits \subseteq Nat \ {0}

VARIABLES
  deps,       \* dependencyTaskIds of each task
  scope,      \* changeScope of each task
  limit,      \* maxConcurrentTasks
  aborted,    \* the caller's abort signal
  status,     \* task state; "running" until its execution has been drained
  settled,    \* how each execution settled; "no" until it does
  resolved,   \* the promise the loop waits on
  halt,       \* nothing is launched any more
  cancelled,  \* the schedule reports a cancellation
  report      \* "none", or the status of the finished schedule

input == <<deps, scope, limit>>
scheduleVars == <<input, aborted, status, settled, resolved, halt, cancelled, report>>

Statuses == {"pending", "running", "completed", "failed", "blocked"}

Ends == {"no", "ok", "failed", "cancelled"}

-----------------------------------------------------------------------------
(* What normalizeTaskSchedule accepts. *)

\* Mutant: only the self-dependencies are refused.
ValidGraphAnyCycle(d) == \A t \in Tasks : t \notin d[t]

\* Every set of tasks holds one that depends on none of them: what is left
\* when no task of indegree zero remains is empty.
ValidGraph(d) == \A S \in (SUBSET Tasks) \ {{}} : \E t \in S : d[t] \cap S = {}

Conflict(t, u) == scope[t] \cap scope[u] # {}

-----------------------------------------------------------------------------
(* One turn of the loop, from the task states it finds. *)

InState(st, s) == {t \in Tasks : st[t] = s}

Ready(st) == {t \in InState(st, "pending") : \A d \in deps[t] : st[d] = "completed"}

Before(t, S) == {u \in S : u < t}

\* Mutant: a task is compared with the running ones only.
ChosenBesideRunning(st, S) ==
  /\ S \subseteq Ready(st)
  /\ \A t \in Ready(st) :
       t \in S <=> /\ Cardinality(Before(t, S)) < limit - Cardinality(InState(st, "running"))
                   /\ \A u \in InState(st, "running") : ~Conflict(t, u)

\* planRound: the ready tasks in the order of their identifiers, each started
\* unless no slot is left or it conflicts with a running or a selected one.
Chosen(st, S) ==
  /\ S \subseteq Ready(st)
  /\ \A t \in Ready(st) :
       t \in S <=> /\ Cardinality(Before(t, S)) < limit - Cardinality(InState(st, "running"))
                   /\ \A u \in InState(st, "running") \cup Before(t, S) : ~Conflict(t, u)

\* scheduleStatus
Verdict(st, c) ==
  IF c THEN "cancelled"
  ELSE IF \E t \in Tasks : st[t] # "completed" THEN "failed"
  ELSE "completed"

\* planNextRound; when nothing is in flight blockRemaining and the report,
\* else the loop waits.
PlanNextRound(st, h, c) ==
  \E S \in SUBSET Ready(st) :
    /\ IF h THEN S = {} ELSE Chosen(st, S)
    /\ IF S = {} /\ InState(st, "running") = {}
         THEN /\ status' = [t \in Tasks |-> IF st[t] = "pending" THEN "blocked" ELSE st[t]]
              /\ report' = Verdict(status', c)
         ELSE /\ status' = [t \in Tasks |-> IF t \in S THEN "running" ELSE st[t]]
              /\ UNCHANGED report

-----------------------------------------------------------------------------
ScheduleTypeOK ==
  /\ deps \in [Tasks -> SUBSET Tasks]
  /\ scope \in [Tasks -> SUBSET Places]
  /\ limit \in Limits
  /\ status \in [Tasks -> Statuses]
  /\ settled \in [Tasks -> Ends]
  /\ {aborted, resolved, halt, cancelled} \subseteq BOOLEAN
  /\ report \in {"none", "completed", "failed", "cancelled"}

\* A schedule that was not aborted before its start; the first round is
\* planned by Begin.
ScheduleInit ==
  /\ deps \in {d \in [Tasks -> SUBSET Tasks] : ValidGraph(d)}
  /\ scope \in [Tasks -> (SUBSET Places) \ {{}}]
  /\ limit \in Limits
  /\ status = [t \in Tasks |-> "pending"]
  /\ settled = [t \in Tasks |-> "no"]
  /\ aborted = FALSE /\ resolved = FALSE
  /\ halt = FALSE /\ cancelled = FALSE
  /\ report = "none"

Unstarted == report = "none" /\ InState(status, "pending") = Tasks

Begin ==
  /\ Unstarted
  /\ PlanNextRound(status, FALSE, FALSE)
  /\ UNCHANGED <<input, aborted, settled, resolved, halt, cancelled>>

\* Mutant: nobody is woken by an execution that failed.
SettleInSilence(t, end) ==
  /\ status[t] = "running" /\ settled[t] = "no"
  /\ end = "cancelled" => aborted
  /\ settled' = [settled EXCEPT ![t] = end]
  /\ resolved' = (resolved \/ end = "ok")
  /\ UNCHANGED <<input, aborted, status, halt, cancelled, report>>

\* The execution of a task settles, and the loop is woken.  It is refused for
\* the abort only once the signal was raised, and may have gone too far to
\* notice it.
Settle(t, end) ==
  /\ status[t] = "running" /\ settled[t] = "no"
  /\ end = "cancelled" => aborted
  /\ settled' = [settled EXCEPT ![t] = end]
  /\ resolved' = TRUE
  /\ UNCHANGED <<input, aborted, status, halt, cancelled, report>>

Abort ==
  /\ ~aborted /\ report = "none" /\ ~Unstarted
  /\ aborted' = TRUE
  /\ UNCHANGED <<input, status, settled, resolved, halt, cancelled, report>>

\* The tasks whose execution settled since the last turn.
Drained == {t \in InState(status, "running") : settled[t] # "no"}

StatusOnceDrained ==
  [t \in Tasks |-> IF t \notin Drained THEN status[t]
                   ELSE IF settled[t] = "ok" THEN "completed" ELSE "failed"]

\* A1: one failure halts new launches; so does the abort.
Halt == halt \/ aborted \/ \E t \in Drained : settled[t] # "ok"

Cancelled == cancelled \/ aborted \/ \E t \in Drained : settled[t] = "cancelled"

\* The loop wakes: drainSettled arms the next promise, the abort signal is
\* read, and the next round is planned.
Turn ==
  /\ report = "none" /\ resolved
  /\ resolved' = FALSE
  /\ halt' = Halt
  /\ cancelled' = Cancelled
  /\ PlanNextRound(StatusOnceDrained, halt', cancelled')
  /\ UNCHANGED <<input, aborted, settled>>

ScheduleNext ==
  \/ Begin
  \/ \E t \in Tasks, end \in Ends \ {"no"} : Settle(t, end)
  \/ Abort
  \/ Turn

ScheduleSpec == ScheduleInit /\ [][ScheduleNext]_scheduleVars

\* Every execution settles (TaskExecutor bounds its driver and its gates) and
\* a scheduler that is woken runs.
FairSchedule ==
  /\ ScheduleSpec
  /\ WF_scheduleVars(Begin)
  /\ WF_scheduleVars(Turn)
  /\ \A t \in Tasks : WF_scheduleVars(\E end \in Ends \ {"no"} : Settle(t, end))

-----------------------------------------------------------------------------
(* Properties *)

\* Two tasks whose change scopes overlap are never in flight at once, however
\* rounds, completions and failures interleave (scopesOverlap).
ScopesStayApart ==
  \A t, u \in InState(status, "running") : t # u => ~Conflict(t, u)

\* A task that was started saw every task it depends on, and those they
\* depend on, complete: none of them is started later, fails or is blocked.
DependenciesCameFirst ==
  \A t \in Tasks, d \in Tasks :
    status[t] \in {"running", "completed", "failed"} /\ d \in deps[t] => status[d] = "completed"

\* A task that was never started is reported as blocked only because
\* something failed or the schedule was aborted, and a schedule that says
\* completed left no task out.
BlockedTasksHaveACause ==
  report # "none" =>
    /\ InState(status, "pending") \cup InState(status, "running") = {}
    /\ InState(status, "blocked") # {} => halt
    /\ report = "completed" => InState(status, "completed") = Tasks

\* A schedule comes to its report: no settlement goes unnoticed.
SchedulesEnd == <>(report # "none")
=============================================================================
