--------------------------- MODULE MCTaskExecution ---------------------------
(***************************************************************************)
(* The execution of tasks, for TLC: the attempts of one run, and the       *)
(* schedule of several tasks.  A behaviour plays one of the two parts; the *)
(* other has come to its end, the run cancelled before it was started, or  *)
(* the schedule with all its tasks completed.                              *)
(***************************************************************************)
EXTENDS MCTaskAttempts, TaskScheduler

CONSTANTS a, b

VARIABLE part

CancelledRun ==
  /\ policy = Undeclared /\ run = "ABORTED"
  /\ worktree = None /\ branch = None /\ record = None
  /\ executor = NoCheckpoint /\ gate = NoCheckpoint /\ repair = NoRepair
  /\ sealed = [n \in 1..5 |-> 0]
  /\ pc = "down" /\ mem = Fresh /\ signal = FALSE
  /\ executions = 0 /\ used = 0 /\ passed = {} /\ interruptions = 0 /\ excused = 0

CompletedSchedule ==
  /\ deps = [t \in Tasks |-> {}] /\ scope = [t \in Tasks |-> Places] /\ limit = 1
  /\ status = [t \in Tasks |-> "completed"] /\ settled = [t \in Tasks |-> "ok"]
  /\ aborted = FALSE /\ resolved = FALSE /\ halt = FALSE /\ cancelled = FALSE
  /\ report = "completed"

ExecutionInit ==
  \/ part = "attempts" /\ Init /\ CompletedSchedule
  \/ part = "schedule" /\ CancelledRun /\ ScheduleInit

AttemptsStep == part = "attempts" /\ Next /\ UNCHANGED <<part, scheduleVars>>

ScheduleStep == part = "schedule" /\ ScheduleNext /\ UNCHANGED <<part, vars>>

\* The fairness of FairSpec and of FairSchedule.
ExecutionSpec ==
  /\ ExecutionInit
  /\ [][AttemptsStep \/ ScheduleStep]_<<part, vars, scheduleVars>>
  /\ WF_vars(Start) /\ WF_vars(Continue)
  /\ WF_scheduleVars(Begin) /\ WF_scheduleVars(Turn)
  /\ \A t \in Tasks : WF_scheduleVars(\E end \in Ends \ {"no"} : Settle(t, end))
=============================================================================
