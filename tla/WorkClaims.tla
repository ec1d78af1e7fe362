----------------------------- MODULE WorkClaims -----------------------------
(***************************************************************************)
(* Work claims: WorkClaimService of application/src/coordination/          *)
(* work-claims.ts over the workspace lease of the runtime store and a      *)
(* remote claim service.                                                   *)
(*                                                                         *)
(* A session is one process that works for one run on one machine.  The    *)
(* lease row of a machine is changed synchronously; the remote service is  *)
(* asked across an await, with the instant the call began at, so time      *)
(* passes and other sessions act in between, answers get lost and          *)
(* processes die.  All runs here claim overlapping scopes.                 *)
(***************************************************************************)
EXTENDS Integers

CONSTANTS
  Sessions,   \* processes
  Claimants,  \* owners of leases and claims
  Machines,   \* workspaces on a machine, each with its runtime store
  Owner,      \* session -> run
  Machine,    \* session -> machine
  Ttl,        \* lifetime of a lease or claim
  MaxTime,    \* bound: last instant of the clock
  MaxGrants,  \* bound: number of lease epochs and of remote claims
  Nobody      \* an absent row, lease or claim

ASSUME ClaimAssumption ==
  /\ Owner \in [Sessions -> Claimants]
  /\ Machine \in [Sessions -> Machines]
  /\ Ttl \in Nat \ {0}
  /\ MaxTime \in Nat
  /\ MaxGrants \in Nat

VARIABLES
  now,       \* the clock
  leases,    \* machine -> row of the leases table, or Nobody
  remote,    \* the claim the remote service holds, or Nobody
  sessions,  \* session -> what its process holds and is doing
  epochs,    \* history: lease epochs begun so far
  grants,    \* fencing tokens the remote service has issued
  crashed    \* history: runs whose process died since it last acquired

claimVars == <<now, leases, remote, sessions, epochs, grants, crashed>>

-----------------------------------------------------------------------------
\* An epoch is one uninterrupted tenure of a lease row; the table has none.
LeaseRow == [owner : Claimants, token : Nat, expires : Nat, epoch : Nat]

RemoteClaim == [owner : Claimants, token : Nat, expires : Nat]

LeaseRef == [token : Nat, expires : Nat, epoch : Nat]

ClaimRef == [token : Nat, expires : Nat]

ASSUME NobodyIsNoRow ==
  Nobody \notin LeaseRow /\ Nobody \notin RemoteClaim /\ Nobody \notin LeaseRef /\ Nobody \notin ClaimRef

Modes == {"personal", "enforced", "advisory"}

SessionSteps == {"idle", "acquiring", "heartbeating", "releasing", "uncertain"}

\* mode and asked are the arguments of the call in progress, asked the instant
\* it began at.
Session == [step : SessionSteps, mode : Modes, asked : Nat,
            lease : LeaseRef \cup {Nobody}, claim : ClaimRef \cup {Nobody}]

Nothing == [step |-> "idle", mode |-> "personal", asked |-> 0, lease |-> Nobody, claim |-> Nobody]

InStep(s, step) == sessions[s].step = step

\* The session s becomes this record.
Turns(s, step, mode, asked, lease, claim) ==
  sessions' = [sessions EXCEPT ![s] =
    [step |-> step, mode |-> mode, asked |-> asked, lease |-> lease, claim |-> claim]]

Keeps(s, step, lease, claim) == Turns(s, step, sessions[s].mode, sessions[s].asked, lease, claim)

-----------------------------------------------------------------------------
(* The lease row (acquireLease and releaseLease of the runtime store).     *)

Row(s) == leases[Machine[s]]

OwnsRow(s) == Row(s) # Nobody /\ Row(s).owner = Owner[s]

RowIsLive(s) == Row(s) # Nobody /\ Row(s).expires > now

\* Mutant: a lease that expires now still belongs to the next writer too.
LeaseAvailableEarly(s) == OwnsRow(s) \/ ~(Row(s) # Nobody /\ Row(s).expires > now + 1)

LeaseAvailable(s) == OwnsRow(s) \/ ~RowIsLive(s)

\* The row after s acquires it: the same tenure when s holds it and it has not
\* expired, the next token otherwise, the first one in an empty table.
AcquiredRow(s) ==
  LET kept == OwnsRow(s) /\ RowIsLive(s) IN
  [owner   |-> Owner[s],
   token   |-> IF Row(s) = Nobody THEN 1 ELSE IF kept THEN Row(s).token ELSE Row(s).token + 1,
   expires |-> now + Ttl,
   epoch   |-> IF kept THEN Row(s).epoch ELSE epochs + 1]

\* The compare-and-set of a heartbeat.
MayRenew(s) ==
  /\ OwnsRow(s)
  /\ Row(s).token = sessions[s].lease.token
  /\ RowIsLive(s)

RenewedRow(s) ==
  [owner |-> Owner[s], token |-> Row(s).token, expires |-> now + Ttl, epoch |-> Row(s).epoch]

\* releaseLease deletes the row of its owner, and with it the token.
ReleaseRow(s) ==
  leases' = IF OwnsRow(s) THEN [leases EXCEPT ![Machine[s]] = Nobody] ELSE leases

-----------------------------------------------------------------------------
(* WorkClaimService.acquire                                                *)

AcquireLocal(s, mode) ==
  LET row == AcquiredRow(s) IN
  /\ InStep(s, "idle") /\ sessions[s].lease = Nobody
  /\ LeaseAvailable(s)
  /\ epochs < MaxGrants
  /\ leases' = [leases EXCEPT ![Machine[s]] = row]
  /\ epochs' = IF row.epoch > epochs THEN row.epoch ELSE epochs
  /\ crashed' = crashed \ {Owner[s]}
  /\ Turns(s, IF mode = "personal" THEN "idle" ELSE "acquiring", mode, now,
             [token |-> row.token, expires |-> row.expires, epoch |-> row.epoch], Nobody)
  /\ UNCHANGED <<now, remote, grants>>

\* Mutant: the service takes the current claim for expired at its last instant.
RemoteConflictLate(s) == remote # Nobody /\ remote.owner # Owner[s] /\ remote.expires > sessions[s].asked + 1

\* The remote service grants unless another run has a claim that was live when
\* the call began; a grant replaces the claims of its own run.
RemoteConflict(s) == remote # Nobody /\ remote.owner # Owner[s] /\ remote.expires > sessions[s].asked

RemoteGrants(s) ==
  /\ grants < MaxGrants
  /\ ~RemoteConflict(s)
  /\ grants' = grants + 1
  /\ remote' = [owner |-> Owner[s], token |-> grants + 1, expires |-> sessions[s].asked + Ttl]

RemoteUntouched == UNCHANGED <<remote, grants>>

\* An acquisition without a usable claim: enforced coordination gives the
\* provisional lease back, advisory coordination keeps it.
WithoutClaim(s) ==
  IF sessions[s].mode = "advisory"
  THEN Keeps(s, "idle", sessions[s].lease, Nobody) /\ UNCHANGED leases
  ELSE Keeps(s, "idle", Nobody, Nobody) /\ ReleaseRow(s)

AcquireGranted(s) ==
  /\ InStep(s, "acquiring")
  /\ RemoteGrants(s)
  /\ Keeps(s, "idle", sessions[s].lease, [token |-> grants + 1, expires |-> sessions[s].asked + Ttl])
  /\ UNCHANGED <<now, leases, epochs, crashed>>

AcquireConflicts(s) ==
  /\ InStep(s, "acquiring")
  /\ RemoteConflict(s)
  /\ WithoutClaim(s)
  /\ RemoteUntouched
  /\ UNCHANGED <<now, epochs, crashed>>

\* The service is not reached, or grants and the answer is lost.
AcquireUnanswered(s) ==
  /\ InStep(s, "acquiring")
  /\ RemoteUntouched \/ RemoteGrants(s)
  /\ WithoutClaim(s)
  /\ UNCHANGED <<now, epochs, crashed>>

\* The answer does not verify: the lease is given back in every mode, unless
\* another run has it by then: releaseLease throws, and the handler takes that
\* for an unavailable service.
AcquireInvalid(s) ==
  /\ InStep(s, "acquiring")
  /\ RemoteUntouched \/ RemoteGrants(s)
  /\ IF OwnsRow(s) \/ Row(s) = Nobody
     THEN Keeps(s, "idle", Nobody, Nobody) /\ ReleaseRow(s)
     ELSE WithoutClaim(s)
  /\ UNCHANGED <<now, epochs, crashed>>

-----------------------------------------------------------------------------
(* heartbeatLocal, heartbeat                                               *)

HeartbeatLocal(s) ==
  /\ InStep(s, "idle") /\ sessions[s].lease # Nobody /\ sessions[s].claim = Nobody
  /\ MayRenew(s)
  /\ leases' = [leases EXCEPT ![Machine[s]] = RenewedRow(s)]
  /\ Keeps(s, "idle", [token |-> sessions[s].lease.token, expires |-> now + Ttl,
                       epoch |-> sessions[s].lease.epoch], Nobody)
  /\ UNCHANGED <<now, remote, epochs, grants, crashed>>

\* heartbeat renews the lease first and drops the renewed reference: the
\* caller keeps the one it passed.
HeartbeatBegins(s) ==
  /\ InStep(s, "idle") /\ sessions[s].claim # Nobody
  /\ MayRenew(s)
  /\ leases' = [leases EXCEPT ![Machine[s]] = RenewedRow(s)]
  /\ Turns(s, "heartbeating", sessions[s].mode, now, sessions[s].lease, sessions[s].claim)
  /\ UNCHANGED <<now, remote, epochs, grants, crashed>>

RemoteHoldsClaim(s) == remote # Nobody /\ remote.token = sessions[s].claim.token

RemoteRenewed(s) ==
  /\ RemoteHoldsClaim(s)
  /\ remote.expires > sessions[s].asked
  /\ remote' = [owner |-> remote.owner, token |-> remote.token, expires |-> sessions[s].asked + Ttl]

HeartbeatRenews(s) ==
  /\ InStep(s, "heartbeating")
  /\ RemoteRenewed(s)
  /\ Keeps(s, "idle", sessions[s].lease,
           [token |-> sessions[s].claim.token, expires |-> sessions[s].asked + Ttl])
  /\ UNCHANGED <<now, leases, epochs, grants, crashed>>

\* The claim is stale, the service was not reached, or its answer was lost.
HeartbeatFails(s) ==
  /\ InStep(s, "heartbeating")
  /\ UNCHANGED remote \/ RemoteRenewed(s)
  /\ Keeps(s, "idle", sessions[s].lease, sessions[s].claim)
  /\ UNCHANGED <<now, leases, epochs, grants, crashed>>

-----------------------------------------------------------------------------
(* release, releaseLocal                                                   *)

\* Mutant: the lease is released before the remote release is confirmed.
ReleaseBeginsLocally(s) ==
  /\ InStep(s, "idle") \/ InStep(s, "uncertain")
  /\ sessions[s].claim # Nobody
  /\ ReleaseRow(s)
  /\ Keeps(s, "releasing", sessions[s].lease, sessions[s].claim)
  /\ UNCHANGED <<now, remote, epochs, grants, crashed>>

ReleaseBegins(s) ==
  /\ InStep(s, "idle") \/ InStep(s, "uncertain")
  /\ sessions[s].claim # Nobody
  /\ Keeps(s, "releasing", sessions[s].lease, sessions[s].claim)
  /\ UNCHANGED <<now, leases, remote, epochs, grants, crashed>>

\* The remote release is confirmed, and only then the lease is released.
ReleaseConfirmed(s) ==
  /\ InStep(s, "releasing")
  /\ RemoteHoldsClaim(s)
  /\ remote' = Nobody
  /\ ReleaseRow(s)
  /\ Keeps(s, "idle", Nobody, Nobody)
  /\ UNCHANGED <<now, epochs, grants, crashed>>

\* VES_CLAIM_RELEASE_UNCERTAIN: the claim may be gone, the lease stays.
ReleaseUncertain(s) ==
  /\ InStep(s, "releasing")
  /\ UNCHANGED remote \/ (RemoteHoldsClaim(s) /\ remote' = Nobody)
  /\ Keeps(s, "uncertain", sessions[s].lease, sessions[s].claim)
  /\ UNCHANGED <<now, leases, epochs, grants, crashed>>

\* The service no longer holds the claim: release returns false and leaves the
\* lease to releaseLocal.
ReleaseRefused(s) ==
  /\ InStep(s, "releasing")
  /\ ~RemoteHoldsClaim(s)
  /\ Keeps(s, "idle", sessions[s].lease, Nobody)
  /\ UNCHANGED <<now, leases, remote, epochs, grants, crashed>>

ReleaseLocal(s) ==
  /\ InStep(s, "idle") /\ sessions[s].lease # Nobody /\ sessions[s].claim = Nobody
  /\ ReleaseRow(s)
  /\ Keeps(s, "idle", Nobody, Nobody)
  /\ UNCHANGED <<now, remote, epochs, grants, crashed>>

-----------------------------------------------------------------------------
\* The process dies; its run may be taken up by a new one.
Crash(s) ==
  /\ sessions[s] # Nothing
  /\ sessions' = [sessions EXCEPT ![s] = Nothing]
  /\ crashed' = crashed \cup {Owner[s]}
  /\ UNCHANGED <<now, leases, remote, epochs, grants>>

Tick ==
  /\ now < MaxTime
  /\ now' = now + 1
  /\ UNCHANGED <<leases, remote, sessions, epochs, grants, crashed>>

ClaimsInit ==
  /\ now = 0
  /\ leases = [m \in Machines |-> Nobody]
  /\ remote = Nobody
  /\ sessions = [s \in Sessions |-> Nothing]
  /\ epochs = 0
  /\ grants = 0
  /\ crashed = {}

Step(s) ==
  \/ \E mode \in Modes : AcquireLocal(s, mode)
  \/ AcquireGranted(s) \/ AcquireConflicts(s) \/ AcquireUnanswered(s) \/ AcquireInvalid(s)
  \/ HeartbeatLocal(s) \/ HeartbeatBegins(s) \/ HeartbeatRenews(s) \/ HeartbeatFails(s)
  \/ ReleaseBegins(s) \/ ReleaseConfirmed(s) \/ ReleaseUncertain(s) \/ ReleaseRefused(s)
  \/ ReleaseLocal(s)
  \/ Crash(s)

ClaimsNext == Tick \/ \E s \in Sessions : Step(s)

ClaimsSpec == ClaimsInit /\ [][ClaimsNext]_claimVars

-----------------------------------------------------------------------------
\* Types, and the shape of a session: a call in progress and a claim both go
\* with a lease reference.
ClaimsTypeOK ==
  /\ now \in Nat
  /\ leases \in [Machines -> LeaseRow \cup {Nobody}]
  /\ remote \in RemoteClaim \cup {Nobody}
  /\ sessions \in [Sessions -> Session]
  /\ \A s \in Sessions : sessions[s].step # "idle" \/ sessions[s].claim # Nobody => sessions[s].lease # Nobody
  /\ epochs \in Nat
  /\ grants \in Nat
  /\ crashed \subseteq Claimants

HoldsLease(s) == sessions[s].lease # Nobody /\ sessions[s].lease.expires > now

\* A session may work under its claim until the claim expires or its release
\* has begun.
HoldsClaim(s) ==
  /\ sessions[s].claim # Nobody /\ sessions[s].claim.expires > now
  /\ sessions[s].step \notin {"releasing", "uncertain"}

\* One writer per workspace: sessions of different runs on one machine never
\* hold unexpired leases at once, however long their remote calls take.
OneLocalWriter ==
  \A s, t \in Sessions :
    HoldsLease(s) /\ HoldsLease(t) /\ Machine[s] = Machine[t] => Owner[s] = Owner[t]

\* One claimant everywhere: sessions of different runs never work under
\* unexpired claims at once, although grants and renewals are dated by the
\* instant their call began at.
OneClaimant ==
  \A s, t \in Sessions : HoldsClaim(s) /\ HoldsClaim(t) => Owner[s] = Owner[t]

\* A claim is protected on its own machine as long as it lives: the lease row
\* is its run's and outlives the claim, also after an uncertain release.
ClaimsAreProtected ==
  \A s \in Sessions :
    sessions[s].claim # Nobody /\ sessions[s].claim.expires > now
      => OwnsRow(s) /\ Row(s).expires >= sessions[s].claim.expires
=============================================================================
