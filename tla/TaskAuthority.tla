---------------------------- MODULE TaskAuthority ----------------------------
(***************************************************************************)
(* The authority of one task run: its execution approval, the grants of    *)
(* its writer capability and every check that an effect passes             *)
(* (application/src/authority/authority.ts, as task-authority.ts,          *)
(* task-approve.ts and task-run.ts of the command line compose it over the *)
(* runtime store).                                                         *)
(*                                                                         *)
(* Time passes, the Workspace policy changes, approvals and grants are     *)
(* revoked and processes die between any two steps.  A check reads one row *)
(* per step.  The plan's binding differs from the current one exactly when *)
(* the policy differs from the one it was planned under, and that policy   *)
(* allows the task.                                                        *)
(***************************************************************************)
EXTENDS Integers, Sequences, SequencesExt

CONSTANTS
  Processes,
  Duration,        \* maximumDurationMs of the plan
  Margin,          \* LEASE_MARGIN_MS
  ApprovalExpiry,  \* when the approval expires
  MaxTime,         \* bound: the clock
  MaxFaults        \* bound: deaths, suspensions, revocations, policy changes

ASSUME LifetimeAssumption ==
  /\ Duration \in Nat \ {0} /\ Margin \in Nat /\ ApprovalExpiry \in Nat
  /\ MaxTime \in Nat /\ MaxFaults \in Nat

VARIABLES
  now,       \* the clock
  policy,    \* the Workspace's policy file: as planned, or changed
  approval,  \* the approval's row
  run,       \* workflow state
  grants,    \* the grants' rows, in the order of their creation
  marker,    \* the run's grant marker: the current grant and those it replaced
  stage,     \* latest executor checkpoint
  ledger,    \* duration the run has used, as recorded
  pc,        \* what each process does next
  mem,       \* each process's memory; live: what a check is for held when it began
  faults,    \* deaths, suspensions, revocations, policy changes so far
  orphans    \* grants whose process died before it marked them

rows == <<approval, grants>>
record == <<run, marker, stage, ledger>>
world == <<now, policy>>
history == <<faults, orphans>>
vars == <<world, rows, record, pc, mem, history>>

-----------------------------------------------------------------------------
Fresh == [view |-> "planned", first |-> FALSE, armed |-> FALSE, deadline |-> 0, grant |-> 0,
          decided |-> 0, expires |-> 0, live |-> FALSE]

Never == MaxTime + 1

Init ==
  /\ now = 0
  /\ policy = "planned"
  /\ approval = "none"
  /\ run = "AWAITING"
  /\ grants = <<>>
  /\ marker = [grant |-> 0, replaced |-> <<>>]
  /\ stage = "none"
  /\ ledger = 0
  /\ pc = [p \in Processes |-> "idle"]
  /\ mem = [p \in Processes |-> Fresh]
  /\ faults = 0
  /\ orphans = {}

Goto(p, step) == pc' = [pc EXCEPT ![p] = step]

Forgets(p) == mem' = [mem EXCEPT ![p] = Fresh]

\* A process that exits has decided the state of the run.
Ends(p, state) == Goto(p, "idle") /\ Forgets(p) /\ run' = state

\* #terminal: what throws fails the run.
Proceeds(p, condition, step) ==
  IF condition THEN Goto(p, step) /\ UNCHANGED <<run, mem>> ELSE Ends(p, "FAILED")

Over == run \in {"COMMITTED", "FAILED"}

Fault == faults < MaxFaults /\ ~Over /\ faults' = faults + 1

Expired(instant) == instant <= now

ApprovalLive == approval = "valid" /\ ~Expired(ApprovalExpiry)

\* ApprovalVerifier.verify against the binding under the process's policy view.
ApprovalValid(p) == ApprovalLive /\ mem[p].view = "planned"

Approved(p) == ApprovalLive /\ mem[p].view = "planned"

GrantLive(g) == grants[g].revoked = Never /\ ~Expired(grants[g].expires)

\* Mutant: a grant that was revoked is used until it expires.
GrantUnexpired(g) == ~Expired(grants[g].expires)

\* What CapabilityBroker.invoke asks of the grant's row.
GrantUsable(g) == grants[g].revoked = Never /\ ~Expired(grants[g].expires)

-----------------------------------------------------------------------------
(* vestra task approve *)

Presents(p) ==
  /\ pc[p] = "idle"
  /\ run = "AWAITING"
  /\ policy = "planned"
  /\ Goto(p, "presented")
  /\ UNCHANGED <<world, rows, record, mem, history>>

\* Mutant: an approval that is already recorded is a conflict.
LooksUpConflict(p) ==
  /\ pc[p] = "presented"
  /\ Goto(p, IF approval # "none" \/ Expired(ApprovalExpiry) THEN "idle" ELSE "sealing")
  /\ UNCHANGED <<world, rows, record, mem, history>>

\* A recorded approval is taken as it is; an expired request is refused.
LooksUp(p) ==
  /\ pc[p] = "presented"
  /\ Goto(p, IF approval # "none" THEN "recorded" ELSE IF Expired(ApprovalExpiry) THEN "idle" ELSE "sealing")
  /\ UNCHANGED <<world, rows, record, mem, history>>

\* Of two recorders one fails: the seals differ.
Seals(p) ==
  /\ pc[p] = "sealing"
  /\ IF approval = "none"
     THEN approval' = "valid" /\ Goto(p, "recorded")
     ELSE Goto(p, "idle") /\ UNCHANGED approval
  /\ UNCHANGED <<world, grants, record, mem, history>>

Authorizes(p) ==
  /\ pc[p] = "recorded"
  /\ Goto(p, "idle")
  /\ run' = IF run = "AWAITING" THEN "AUTHORIZED" ELSE run
  /\ UNCHANGED <<world, rows, marker, stage, ledger, mem, history>>

-----------------------------------------------------------------------------
(* vestra task start and resume *)

Drivers == {p \in Processes : pc[p] \notin {"idle", "presented", "sealing", "recorded"}}

\* One process drives the run: TaskDrive models how that is arranged.  It
\* reads the policy file once.
Starts(p) ==
  /\ pc[p] = "idle"
  /\ Drivers = {}
  /\ run \in {"AUTHORIZED", "IMPLEMENTING"}
  /\ Goto(p, IF run = "IMPLEMENTING" /\ stage = "suspended" THEN "revalidating" ELSE "beginning")
  /\ mem' = [mem EXCEPT ![p] = [Fresh EXCEPT !.view = policy]]
  /\ UNCHANGED <<world, rows, record, history>>

\* A suspended run resumes on an approval that is valid, or is left as it was.
Revalidates(p) ==
  /\ pc[p] = "revalidating"
  /\ IF ApprovalValid(p)
     THEN Goto(p, "beginning") /\ mem' = [mem EXCEPT ![p].armed = TRUE]
     ELSE Goto(p, "idle") /\ Forgets(p)
  /\ UNCHANGED <<world, rows, record, history>>

\* START_IMPLEMENTATION under another policy invalidates the run's approval.
\* The meter takes up the duration that was used before.  A change that waits
\* for its gates is gated, or attempted again when it drifted or failed them.
Begins(p) ==
  /\ pc[p] = "beginning"
  /\ IF run = "AUTHORIZED" /\ mem[p].view # "planned"
     THEN Ends(p, "AWAITING")
     ELSE /\ run' = "IMPLEMENTING"
          /\ \E step \in {"granting"} \cup {s \in {"gating"} : stage = "awaiting"} :
               /\ Goto(p, step)
               /\ mem' = [mem EXCEPT ![p].first = (run = "AUTHORIZED"), ![p].deadline = now + Duration - ledger,
                                     ![p].live = (step = "gating" /\ Approved(p))]
  /\ UNCHANGED <<world, rows, marker, stage, ledger, history>>

-----------------------------------------------------------------------------
(* The writer capability *)

GrantExpiry == IF ApprovalExpiry < now + Duration + Margin THEN ApprovalExpiry ELSE now + Duration + Margin

Remaining(p) == IF mem[p].deadline < now THEN 0 ELSE mem[p].deadline - now

\* Mutant: only a grant that has lapsed is renewed.
RenewsLapsed(p) ==
  LET grant == grants[marker.grant] IN
  /\ mem[p].armed
  /\ grant.revoked = Never
  /\ Expired(grant.expires)
  /\ GrantExpiry > grant.expires

\* A resume of a suspended run renews a grant that would lapse before the
\* run's remaining duration is spent.
RenewsGrant(p) ==
  LET grant == grants[marker.grant] IN
  /\ mem[p].armed
  /\ grant.revoked = Never
  /\ grant.expires - now < Remaining(p)
  /\ GrantExpiry > grant.expires

Decides(p) ==
  /\ pc[p] = "granting"
  /\ IF marker.grant # 0 /\ ~RenewsGrant(p)
     THEN Goto(p, "executing") /\ mem' = [mem EXCEPT ![p].grant = marker.grant]
     ELSE Goto(p, "proving") /\ mem' = [mem EXCEPT ![p].decided = now, ![p].expires = GrantExpiry]
  /\ UNCHANGED <<world, rows, record, history>>

\* The approval is verified, and again by the broker before it issues.
Proves(p) ==
  /\ pc[p] = "proving"
  /\ Proceeds(p, ApprovalValid(p), "issuing")
  /\ UNCHANGED <<world, rows, marker, stage, ledger, history>>

Issues(p) ==
  /\ pc[p] = "issuing"
  /\ IF ApprovalValid(p) /\ ~Expired(mem[p].expires)
     THEN /\ grants' = Append(grants, [expires |-> mem[p].expires, revoked |-> Never,
                                       view |-> mem[p].view, decided |-> mem[p].decided])
          /\ mem' = [mem EXCEPT ![p].grant = Len(grants) + 1, ![p].decided = 0, ![p].expires = 0]
          /\ Goto(p, "marking")
          /\ UNCHANGED run
     ELSE Ends(p, "FAILED") /\ UNCHANGED grants
  /\ UNCHANGED <<world, approval, marker, stage, ledger, history>>

\* Mutant: the marker forgets what its grant replaced.
MarksAlone(p) ==
  /\ pc[p] = "marking"
  /\ Goto(p, "executing")
  /\ marker' = [grant |-> mem[p].grant, replaced |-> <<>>]
  /\ UNCHANGED <<world, rows, run, stage, ledger, mem, history>>

Marks(p) ==
  /\ pc[p] = "marking"
  /\ Goto(p, "executing")
  /\ marker' = [grant |-> mem[p].grant,
                replaced |-> IF marker.grant = 0 THEN <<>> ELSE Append(marker.replaced, marker.grant)]
  /\ UNCHANGED <<world, rows, run, stage, ledger, mem, history>>

-----------------------------------------------------------------------------
(* An attempt: the driver's session, its tool requests, gates and commit *)

\* Every attempt is started under the approval and the policy.
Executes(p) ==
  /\ pc[p] = "executing"
  /\ Proceeds(p, ApprovalValid(p), "opening")
  /\ UNCHANGED <<world, rows, marker, stage, ledger, history>>

Opens(p) ==
  /\ pc[p] = "opening"
  /\ Goto(p, "driving")
  /\ stage' = "running"
  /\ UNCHANGED <<world, rows, run, marker, ledger, mem, history>>

\* The driver asks for an effect.
Requests(p) ==
  /\ pc[p] = "driving"
  /\ Goto(p, "checking")
  /\ mem' = [mem EXCEPT ![p].live = Approved(p) /\ GrantLive(mem[p].grant)]
  /\ UNCHANGED <<world, rows, record, history>>

\* A request that is refused goes back to the driver.
Checks(p, from, condition, to) ==
  /\ pc[p] = from
  /\ IF condition
     THEN Goto(p, to) /\ UNCHANGED mem
     ELSE Goto(p, "driving") /\ mem' = [mem EXCEPT ![p].live = FALSE]
  /\ UNCHANGED <<world, rows, record, history>>

ChecksApproval(p) == Checks(p, "checking", ApprovalValid(p), "approved")

ChecksGrant(p) == Checks(p, "approved", GrantUsable(mem[p].grant), "granted")

ChecksBinding(p) == Checks(p, "granted", ApprovalValid(p) /\ grants[mem[p].grant].view = mem[p].view, "permitted")

Effects(p) ==
  /\ pc[p] = "permitted"
  /\ Goto(p, "driving")
  /\ mem' = [mem EXCEPT ![p].live = FALSE]
  /\ UNCHANGED <<world, rows, record, history>>

Used(p) == Duration - (mem[p].deadline - now)

Suspends(p) ==
  /\ pc[p] = "driving"
  /\ Fault
  /\ Goto(p, "idle")
  /\ Forgets(p)
  /\ stage' = "suspended"
  /\ ledger' = Used(p)
  /\ UNCHANGED <<world, rows, run, marker, orphans>>

Completes(p) ==
  /\ pc[p] = "driving"
  /\ Goto(p, "gating")
  /\ stage' = "awaiting"
  /\ mem' = [mem EXCEPT ![p].live = Approved(p)]
  /\ UNCHANGED <<world, rows, run, marker, ledger, history>>

\* The run's time is up, or the driver fails.
SessionFails(p) ==
  /\ pc[p] = "driving"
  /\ Ends(p, "FAILED")
  /\ UNCHANGED <<world, rows, marker, stage, ledger, history>>

\* Gates run under the approval; what fails them is attempted again.
Gates(p) ==
  /\ pc[p] = "gating"
  /\ IF ApprovalValid(p)
     THEN Goto(p, "gated") /\ UNCHANGED <<run, mem>>
     ELSE Ends(p, "FAILED")
  /\ UNCHANGED <<world, rows, marker, stage, ledger, history>>

GatesFail(p) ==
  /\ pc[p] = "gated"
  /\ IF Expired(mem[p].deadline)
     THEN Ends(p, "FAILED") /\ UNCHANGED ledger
     ELSE /\ Goto(p, "granting")
          /\ ledger' = Used(p)
          /\ mem' = [mem EXCEPT ![p].live = FALSE]
          /\ UNCHANGED run
  /\ UNCHANGED <<world, rows, marker, stage, history>>

\* The approval is verified once more before the commit.
GatesPass(p) ==
  /\ pc[p] = "gated"
  /\ IF ApprovalValid(p)
     THEN Goto(p, "committing") /\ UNCHANGED <<run, mem>>
     ELSE Ends(p, "FAILED")
  /\ UNCHANGED <<world, rows, marker, stage, ledger, history>>

Commits(p) ==
  /\ pc[p] = "committing"
  /\ Ends(p, "COMMITTED")
  /\ UNCHANGED <<world, rows, marker, stage, ledger, history>>

-----------------------------------------------------------------------------
(* The world *)

Tick ==
  /\ now < MaxTime /\ ~Over
  /\ now' = now + 1
  /\ UNCHANGED <<policy, rows, record, pc, mem, history>>

PolicyChanges ==
  /\ Fault
  /\ policy' = IF policy = "planned" THEN "changed" ELSE "planned"
  /\ UNCHANGED <<now, rows, record, pc, mem, orphans>>

RevokeApproval ==
  /\ approval = "valid"
  /\ Fault
  /\ approval' = "revoked"
  /\ UNCHANGED <<world, grants, record, pc, mem, orphans>>

RevokeGrant(g) ==
  /\ grants[g].revoked = Never
  /\ Fault
  /\ grants' = [grants EXCEPT ![g].revoked = now]
  /\ UNCHANGED <<world, approval, record, pc, mem, orphans>>

Die(p) ==
  /\ pc[p] # "idle"
  /\ Fault
  /\ Goto(p, "idle")
  /\ Forgets(p)
  /\ orphans' = IF pc[p] = "marking" THEN orphans \cup {mem[p].grant} ELSE orphans
  /\ UNCHANGED <<world, rows, record>>

Approves(p) == Presents(p) \/ LooksUp(p) \/ Seals(p) \/ Authorizes(p)

Drives(p) ==
  \/ Starts(p) \/ Revalidates(p) \/ Begins(p)
  \/ Decides(p) \/ Proves(p) \/ Issues(p) \/ Marks(p)
  \/ Executes(p) \/ Opens(p)
  \/ Requests(p) \/ ChecksApproval(p) \/ ChecksGrant(p) \/ ChecksBinding(p) \/ Effects(p)
  \/ Completes(p) \/ SessionFails(p) \/ Gates(p) \/ GatesFail(p) \/ GatesPass(p) \/ Commits(p)

Revoke == RevokeApproval \/ (\E g \in DOMAIN grants : RevokeGrant(g))

Next == (\E p \in Processes : Approves(p) \/ Drives(p) \/ Suspends(p) \/ Die(p)) \/ Tick \/ PolicyChanges \/ Revoke

Spec == Init /\ [][Next]_vars

FairSpec == Spec /\ \A p \in Processes : WF_vars(Approves(p) \/ Drives(p))

-----------------------------------------------------------------------------
Grant == [expires : Int, revoked : Nat, view : {"planned", "changed"}, decided : Nat]

Memory == [view : {"planned", "changed"}, first : BOOLEAN, armed : BOOLEAN, deadline : Int,
           grant : Nat, decided : Nat, expires : Int, live : BOOLEAN]

Steps == {"idle", "presented", "sealing", "recorded", "revalidating", "beginning", "granting", "proving",
          "issuing", "marking", "executing", "opening", "driving", "checking", "approved", "granted",
          "permitted", "gating", "gated", "committing"}

\* The type of the variables.
TypeOK ==
  /\ now \in 0..MaxTime
  /\ policy \in {"planned", "changed"}
  /\ approval \in {"none", "valid", "revoked"}
  /\ run \in {"AWAITING", "AUTHORIZED", "IMPLEMENTING", "COMMITTED", "FAILED"}
  /\ grants \in Seq(Grant)
  /\ marker.grant \in 0..Len(grants)
  /\ marker.replaced \in Seq(1..Len(grants))
  /\ stage \in {"none", "running", "suspended", "awaiting"}
  /\ ledger \in Int
  /\ pc \in [Processes -> Steps]
  /\ mem \in [Processes -> Memory]
  /\ \A p \in Processes : mem[p].grant <= Len(grants)
  /\ faults \in 0..MaxFaults
  /\ orphans \subseteq 1..Len(grants)

\* An effect was asked for under a live approval and a live grant, and gates
\* that lead to a commit were entered under a live approval: what is revoked or
\* lapses before is refused by the readings that follow, one row each.  The
\* policy is the one the process read when it started, and a commit needs no
\* grant.  A policy that changes while a process runs does not stop it, though
\* task-authority.ts:124-126 speaks of "the policy view in force now".
EffectsWereAuthorized == \A p \in Processes : pc[p] \in {"permitted", "committing"} => mem[p].live

Chain == IF marker.grant = 0 THEN <<>> ELSE Append(marker.replaced, marker.grant)

\* The marker names every grant of the run, but for those whose process died
\* before it could mark them; each one outlives the one it replaced, and none
\* takes the place of one that was revoked before it was asked for.
MarkerNamesGrants ==
  \A g \in DOMAIN grants :
    g \in ToSet(Chain) \cup orphans \/ \E p \in Processes : pc[p] = "marking" /\ mem[p].grant = g

RevocationsStick ==
  \A i \in DOMAIN Chain : i > 1 =>
    /\ grants[Chain[i - 1]].expires < grants[Chain[i]].expires
    /\ grants[Chain[i - 1]].revoked >= grants[Chain[i]].decided

GrantsAreChained == MarkerNamesGrants /\ RevocationsStick

InSession == {"executing", "opening", "driving", "checking", "approved", "granted", "permitted"}

\* No grant is issued under another policy than the approved one or outlives
\* its approval, and the grant of a run that was started, or resumed from a
\* suspension, lasts as long as the run has time left, or its approval.
GrantsAreApproved ==
  \A g \in DOMAIN grants : approval # "none" /\ grants[g].view = "planned" /\ grants[g].expires <= ApprovalExpiry

GrantsCoverTheRun ==
  \A p \in Processes : pc[p] \in InSession /\ (mem[p].first \/ mem[p].armed) =>
    LET grant == grants[mem[p].grant] IN
      grant.revoked # Never \/ grant.expires >= mem[p].deadline \/ grant.expires = ApprovalExpiry

GrantsFitTheRun == GrantsAreApproved /\ GrantsCoverTheRun

\* An approval that was cut short between its record and the run is finished
\* by the next one, whoever else approves meanwhile.
ApprovalsConverge == <>[](policy = "planned" /\ approval # "none" => run # "AWAITING")
=============================================================================
