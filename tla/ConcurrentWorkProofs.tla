------------------------ MODULE ConcurrentWorkProofs ------------------------
(***************************************************************************)
(* Proofs about who works at once: sessions under leases and claims, and   *)
(* the tasks of one schedule.                                              *)
(*                                                                         *)
(* Work claims, for any number of sessions, machines, lease lifetimes and  *)
(* grants, when no two processes work for the same run.  A reference is    *)
(* worth nothing by itself: what makes it safe is that the lease row, and  *)
(* the claim of the remote service, promise at least as much.  A row is    *)
(* only ever changed by the run that owns it or after it expired, and a    *)
(* claim is replaced only by a call that began after it expired, so what a *)
(* live reference promises cannot be taken away.                           *)
(*                                                                         *)
(* The scheduler, for every task graph, every choice of change scopes and  *)
(* every number of slots.  A round is judged by what Chosen says of it,    *)
(* never by how it was computed.                                           *)
(***************************************************************************)
EXTENDS WorkClaims, TaskScheduler, FiniteSetTheorems, TLAPS

-----------------------------------------------------------------------------
(* Work claims. *)

\* No two processes work for the same run.
OneSessionPerRun == \A s, t \in Sessions : Owner[s] = Owner[t] => s = t

\* The lease row protects s until e.
Protected(s, e) == e > now => OwnsRow(s) /\ Row(s).expires >= e

\* The remote service holds the claim c of s, and for as long as c says.
Backed(s, c) ==
  /\ remote # Nobody
  /\ remote.owner = Owner[s]
  /\ remote.token = c.token
  /\ remote.expires >= c.expires

LeaseSound(s) ==
  sessions[s].lease # Nobody =>
    /\ sessions[s].lease.expires <= now + Ttl
    /\ Protected(s, sessions[s].lease.expires)

ClaimSound(s) ==
  sessions[s].claim # Nobody =>
    /\ sessions[s].lease # Nobody
    /\ sessions[s].claim.expires <= now + Ttl
    /\ Protected(s, sessions[s].claim.expires)
    /\ sessions[s].claim.token <= grants
    /\ RemoteHoldsClaim(s) => remote.owner = Owner[s]
    /\ HoldsClaim(s) => Backed(s, sessions[s].claim)

\* What the call in progress still counts on.
CallSound(s) ==
  /\ sessions[s].asked <= now
  /\ InStep(s, "acquiring") =>
       /\ sessions[s].claim = Nobody /\ sessions[s].lease # Nobody
       /\ sessions[s].lease.expires = sessions[s].asked + Ttl
  /\ InStep(s, "heartbeating") =>
       /\ sessions[s].claim # Nobody
       /\ sessions[s].claim.expires <= sessions[s].asked + Ttl
       /\ Protected(s, sessions[s].asked + Ttl)
  /\ InStep(s, "releasing") \/ InStep(s, "uncertain") => sessions[s].claim # Nobody

SessionSound(s) == LeaseSound(s) /\ ClaimSound(s) /\ CallSound(s)

Typed ==
  /\ now \in Nat
  /\ leases \in [Machines -> LeaseRow \cup {Nobody}]
  /\ remote \in RemoteClaim \cup {Nobody}
  /\ sessions \in [Sessions -> Session]
  /\ epochs \in Nat
  /\ grants \in Nat
  /\ crashed \subseteq Claimants

IInv ==
  /\ Typed
  /\ remote # Nobody => remote.token <= grants
  /\ \A s \in Sessions : SessionSound(s)

-----------------------------------------------------------------------------
(* What the steps on the lease row leave to the other sessions.            *)

\* Every other session is as protected as it was.
OthersProtected(s) ==
  \A t \in Sessions \ {s} : \A e \in Nat : Protected(t, e) => Protected(t, e)'

LEMMA RowUntouched ==
  ASSUME UNCHANGED <<leases, now>>, NEW s \in Sessions
  PROVE  OthersProtected(s) /\ \A e \in Nat : Protected(s, e) => Protected(s, e)'
BY DEF OthersProtected, Protected, OwnsRow, Row

LEMMA RowReleased ==
  ASSUME Typed, OneSessionPerRun, NEW s \in Sessions, ReleaseRow(s), now' = now
  PROVE  OthersProtected(s) /\ leases' \in [Machines -> LeaseRow \cup {Nobody}]
<1>1. Machine[s] \in Machines
  BY ClaimAssumption
<1>2. leases' \in [Machines -> LeaseRow \cup {Nobody}]
  BY <1>1 DEF ReleaseRow, Typed
<1>3. ASSUME NEW t \in Sessions \ {s}, NEW e \in Nat, Protected(t, e), e > now
      PROVE  OwnsRow(t)' /\ Row(t)'.expires >= e
  <2>1. Machine[t] \in Machines /\ OwnsRow(t) /\ Row(t).expires >= e
    BY <1>3, ClaimAssumption DEF Protected
  <2>2. ~(OwnsRow(s) /\ Machine[s] = Machine[t])
    BY <1>3, <2>1 DEF OneSessionPerRun, OwnsRow, Row
  <2>3. Row(t)' = Row(t)
    BY <1>1, <2>1, <2>2 DEF ReleaseRow, Row, Typed
  <2> QED
    BY <2>1, <2>3 DEF OwnsRow
<1> QED
  BY <1>2, <1>3 DEF OthersProtected, Protected

\* A row that is written by s when nobody else has a live one.
LEMMA RowWritten ==
  ASSUME Typed, OneSessionPerRun, NEW s \in Sessions, OwnsRow(s) \/ ~RowIsLive(s),
         NEW row \in LeaseRow, row.owner = Owner[s], row.expires = now + Ttl,
         leases' = [leases EXCEPT ![Machine[s]] = row], now' = now
  PROVE  /\ OthersProtected(s)
         /\ leases' \in [Machines -> LeaseRow \cup {Nobody}]
         /\ \A e \in Nat : e <= now + Ttl => Protected(s, e)'
<1>1. Machine[s] \in Machines
  BY ClaimAssumption
<1>2. leases' \in [Machines -> LeaseRow \cup {Nobody}]
  BY <1>1 DEF Typed
<1>3. ASSUME NEW t \in Sessions \ {s}, NEW e \in Nat, Protected(t, e), e > now
      PROVE  OwnsRow(t)' /\ Row(t)'.expires >= e
  <2>1. Machine[t] \in Machines /\ OwnsRow(t) /\ Row(t).expires >= e
    BY <1>3, ClaimAssumption DEF Protected
  <2>2. Row(t) \in LeaseRow
    BY <2>1 DEF Typed, Row, OwnsRow
  <2>3. Machine[s] # Machine[t]
    <3>1. SUFFICES ASSUME Machine[s] = Machine[t] PROVE FALSE
      OBVIOUS
    <3>2. Row(s) = Row(t) /\ Row(s) # Nobody /\ ~OwnsRow(s)
      BY <1>3, <2>1, <3>1 DEF OneSessionPerRun, OwnsRow, Row
    <3>3. Row(s).expires > now
      BY <1>3, <2>1, <2>2, <3>2 DEF LeaseRow, Typed
    <3> QED
      BY <3>2, <3>3 DEF RowIsLive
  <2>4. Row(t)' = Row(t)
    BY <1>1, <2>1, <2>3 DEF Row, Typed
  <2> QED
    BY <2>1, <2>4 DEF OwnsRow
<1>4. Row(s)' = row
  BY <1>1 DEF Row, Typed
<1>5. row # Nobody
  BY NobodyIsNoRow
<1>6. \A e \in Nat : e <= now + Ttl => Protected(s, e)'
  BY <1>4, <1>5 DEF Protected, OwnsRow
<1> QED
  BY <1>2, <1>3, <1>6 DEF OthersProtected, Protected

LEMMA RowRenewed ==
  ASSUME Typed, OneSessionPerRun, NEW s \in Sessions, MayRenew(s), now' = now,
         leases' = [leases EXCEPT ![Machine[s]] = RenewedRow(s)]
  PROVE  /\ OthersProtected(s)
         /\ leases' \in [Machines -> LeaseRow \cup {Nobody}]
         /\ \A e \in Nat : e <= now + Ttl => Protected(s, e)'
<1>1. OwnsRow(s) /\ Row(s) \in LeaseRow
  BY ClaimAssumption DEF MayRenew, OwnsRow, Row, Typed
<1>2. /\ RenewedRow(s) \in LeaseRow
      /\ RenewedRow(s).owner = Owner[s] /\ RenewedRow(s).expires = now + Ttl
  BY <1>1, ClaimAssumption DEF RenewedRow, LeaseRow, Typed
<1> QED
  BY <1>1, <1>2, RowWritten

LEMMA RowAcquired ==
  ASSUME Typed, OneSessionPerRun, NEW s \in Sessions, LeaseAvailable(s), now' = now,
         leases' = [leases EXCEPT ![Machine[s]] = AcquiredRow(s)]
  PROVE  /\ AcquiredRow(s) \in LeaseRow
         /\ AcquiredRow(s).expires = now + Ttl
         /\ OthersProtected(s)
         /\ leases' \in [Machines -> LeaseRow \cup {Nobody}]
         /\ \A e \in Nat : e <= now + Ttl => Protected(s, e)'
<1>1. Row(s) \in LeaseRow \cup {Nobody}
  BY ClaimAssumption DEF Row, Typed
<1>2. /\ AcquiredRow(s) \in LeaseRow
      /\ AcquiredRow(s).owner = Owner[s] /\ AcquiredRow(s).expires = now + Ttl
  BY <1>1, ClaimAssumption DEF AcquiredRow, LeaseRow, Typed, OwnsRow, RowIsLive
<1>3. OwnsRow(s) \/ ~RowIsLive(s)
  BY DEF LeaseAvailable
<1> QED
  BY <1>2, <1>3, RowWritten
-----------------------------------------------------------------------------
(* What the steps on the remote claim leave to the other sessions.         *)

\* The claim of every other session stays what it was.
OthersBacked(s) ==
  /\ grants' \in Nat /\ grants' >= grants
  /\ remote' \in RemoteClaim \cup {Nobody}
  /\ remote' # Nobody => remote'.token <= grants'
  /\ \A t \in Sessions \ {s} :
       sessions[t].claim # Nobody /\ sessions[t].claim.token <= grants =>
         /\ (RemoteHoldsClaim(t) => remote.owner = Owner[t])
              => (remote' # Nobody /\ remote'.token = sessions[t].claim.token => remote'.owner = Owner[t])
         /\ Backed(t, sessions[t].claim) /\ sessions[t].claim.expires > now =>
              /\ remote' # Nobody /\ remote'.owner = Owner[t]
              /\ remote'.token = sessions[t].claim.token
              /\ remote'.expires >= sessions[t].claim.expires

LEMMA RemoteUnchanged ==
  ASSUME Typed, remote # Nobody => remote.token <= grants, NEW s \in Sessions, RemoteUntouched
  PROVE  OthersBacked(s)
BY DEF OthersBacked, RemoteUntouched, Typed, Backed, RemoteHoldsClaim

LEMMA RemoteGranted ==
  ASSUME Typed, OneSessionPerRun, remote # Nobody => remote.token <= grants, NEW s \in Sessions,
         sessions[s].asked <= now, RemoteGrants(s)
  PROVE  /\ OthersBacked(s)
         /\ grants' = grants + 1
         /\ remote' = [owner |-> Owner[s], token |-> grants + 1, expires |-> sessions[s].asked + Ttl]
         /\ remote' # Nobody
<1>1. /\ grants' = grants + 1
      /\ remote' = [owner |-> Owner[s], token |-> grants + 1, expires |-> sessions[s].asked + Ttl]
  BY DEF RemoteGrants
<1>2. sessions[s] \in Session
  BY DEF Typed
<1>3. remote' \in RemoteClaim
  BY <1>1, <1>2, ClaimAssumption DEF RemoteClaim, Session, Typed
<1>4. remote' # Nobody
  BY <1>3, NobodyIsNoRow
<1>5. grants' \in Nat /\ grants' >= grants /\ remote'.token <= grants'
  BY <1>1 DEF Typed
<1>6. ASSUME NEW t \in Sessions \ {s}, sessions[t].claim # Nobody, sessions[t].claim.token <= grants
      PROVE  /\ remote'.token # sessions[t].claim.token
             /\ ~(Backed(t, sessions[t].claim) /\ sessions[t].claim.expires > now)
  <2>1. sessions[t].claim \in ClaimRef
    BY <1>6 DEF Typed, Session
  <2>2. remote'.token # sessions[t].claim.token
    BY <1>1, <1>6, <2>1 DEF Typed, ClaimRef
  <2>3. ASSUME Backed(t, sessions[t].claim), sessions[t].claim.expires > now
        PROVE  FALSE
    <3>1. remote \in RemoteClaim /\ remote.owner # Owner[s]
      BY <1>6, <2>3 DEF Backed, Typed, OneSessionPerRun
    <3>2. remote.expires > sessions[s].asked
      BY <1>2, <2>1, <2>3, <3>1 DEF Backed, RemoteClaim, ClaimRef, Session, Typed
    <3> QED
      BY <3>1, <3>2, NobodyIsNoRow DEF RemoteGrants, RemoteConflict
  <2> QED
    BY <2>2, <2>3
<1> QED
  BY <1>1, <1>3, <1>4, <1>5, <1>6 DEF OthersBacked

\* s renews or releases the claim it holds.
LEMMA RemoteOwnClaim ==
  ASSUME Typed, OneSessionPerRun, remote # Nobody => remote.token <= grants, NEW s \in Sessions,
         RemoteHoldsClaim(s), remote.owner = Owner[s], grants' = grants,
         \/ remote' = Nobody
         \/ remote' = [owner |-> remote.owner, token |-> remote.token,
                       expires |-> sessions[s].asked + Ttl]
  PROVE  OthersBacked(s)
<1>1. remote \in RemoteClaim /\ sessions[s] \in Session /\ grants \in Nat
  BY DEF Typed, RemoteHoldsClaim
<1>2. remote' \in RemoteClaim \cup {Nobody}
  BY <1>1, ClaimAssumption DEF RemoteClaim, Session
<1>3. remote' # Nobody => remote'.token = remote.token /\ remote'.owner = remote.owner
  BY <1>1
<1>4. remote' # Nobody => remote'.token <= grants'
  BY <1>3, NobodyIsNoRow, <1>1
<1>5. \A t \in Sessions \ {s} : ~Backed(t, sessions[t].claim)
  BY DEF Backed, OneSessionPerRun
<1>6. \A t \in Sessions \ {s} :
        (RemoteHoldsClaim(t) => remote.owner = Owner[t])
          => (remote' # Nobody /\ remote'.token = sessions[t].claim.token => remote'.owner = Owner[t])
  BY <1>1, <1>3, NobodyIsNoRow DEF RemoteHoldsClaim
<1> QED
  BY <1>1, <1>2, <1>4, <1>5, <1>6 DEF OthersBacked

-----------------------------------------------------------------------------
(* One session moves, and the others are as sound as they were.            *)

LEMMA SessionMoves ==
  ASSUME Typed, NEW s \in Sessions, NEW step \in SessionSteps, NEW mode \in Modes, NEW asked \in Nat,
         NEW lease \in LeaseRef \cup {Nobody}, NEW claim \in ClaimRef \cup {Nobody},
         Turns(s, step, mode, asked, lease, claim)
  PROVE  /\ sessions' \in [Sessions -> Session]
         /\ \A t \in Sessions \ {s} : sessions'[t] = sessions[t]
         /\ sessions'[s].step = step /\ sessions'[s].asked = asked
         /\ sessions'[s].lease = lease /\ sessions'[s].claim = claim
BY DEF Turns, Session, Typed

LEMMA SessionKeeps ==
  ASSUME Typed, NEW s \in Sessions, NEW step \in SessionSteps,
         NEW lease \in LeaseRef \cup {Nobody}, NEW claim \in ClaimRef \cup {Nobody},
         Keeps(s, step, lease, claim)
  PROVE  /\ sessions' \in [Sessions -> Session]
         /\ \A t \in Sessions \ {s} : sessions'[t] = sessions[t]
         /\ sessions'[s].step = step /\ sessions'[s].asked = sessions[s].asked
         /\ sessions'[s].lease = lease /\ sessions'[s].claim = claim
<1>1. sessions[s].mode \in Modes /\ sessions[s].asked \in Nat
  BY DEF Typed, Session
<1> QED
  BY <1>1, SessionMoves DEF Keeps

LEMMA OthersStaySound ==
  ASSUME IInv, NEW s \in Sessions, NEW t \in Sessions \ {s}, sessions'[t] = sessions[t],
         now' = now, OthersProtected(s), OthersBacked(s)
  PROVE  SessionSound(t)'
<1>1. SessionSound(t) /\ sessions[t] \in Session /\ now \in Nat /\ Ttl \in Nat
  BY ClaimAssumption DEF IInv, Typed
<1>2. \A e \in Nat : Protected(t, e) => Protected(t, e)'
  BY DEF OthersProtected
<1>3. LeaseSound(t)'
  <2>1. sessions[t].lease # Nobody => sessions[t].lease.expires \in Nat
    BY <1>1 DEF Session, LeaseRef
  <2>2. PICK lease : lease = sessions[t].lease
    OBVIOUS
  <2>3. sessions'[t].lease = lease
    BY <2>2
  <2>4. lease # Nobody => Protected(t, lease.expires)'
    BY <1>1, <1>2, <2>1, <2>2 DEF SessionSound, LeaseSound
  <2> QED
    BY <1>1, <2>2, <2>3, <2>4 DEF SessionSound, LeaseSound, Protected, OwnsRow, Row
<1>4. ClaimSound(t)'
  <2>1. SUFFICES ASSUME sessions[t].claim # Nobody
                 PROVE  ClaimSound(t)'
    BY DEF ClaimSound
  <2>2. PICK claim : claim = sessions[t].claim
    OBVIOUS
  <2>3. claim \in ClaimRef
    BY <1>1, <2>1, <2>2 DEF Session
  <2>4. Protected(t, claim.expires)'
    BY <1>1, <1>2, <2>1, <2>2, <2>3 DEF SessionSound, ClaimSound, ClaimRef
  <2>5. Protected(t, claim.expires)' => Protected(t, sessions[t].claim.expires)'
    BY <2>2 DEF Protected, OwnsRow, Row
  <2>6. /\ sessions[t].lease # Nobody
        /\ claim.expires <= now + Ttl
        /\ claim.token <= grants'
        /\ RemoteHoldsClaim(t)' => remote'.owner = Owner[t]
        /\ HoldsClaim(t)' => HoldsClaim(t)
    BY <1>1, <2>1, <2>2, <2>3
       DEF SessionSound, ClaimSound, OthersBacked, RemoteHoldsClaim, HoldsClaim, IInv, Typed, ClaimRef
  <2>7. HoldsClaim(t) => Backed(t, sessions[t].claim)'
    BY <1>1, <2>1, <2>6 DEF SessionSound, ClaimSound, OthersBacked, HoldsClaim, Backed
  <2> QED
    BY <2>1, <2>2, <2>4, <2>6, <2>7 DEF ClaimSound, Protected, OwnsRow, Row
<1>5. CallSound(t)'
  <2>1. PICK e \in Nat : e = sessions[t].asked + Ttl
    BY <1>1 DEF Session
  <2>2. InStep(t, "heartbeating") => Protected(t, e)'
    BY <1>1, <1>2, <2>1 DEF SessionSound, CallSound
  <2>3. InStep(t, "heartbeating") => Protected(t, sessions[t].asked + Ttl)'
    BY <2>1, <2>2 DEF Protected, OwnsRow, Row
  <2> QED
    BY <1>1, <2>1, <2>2, <2>3 DEF SessionSound, CallSound, InStep, Protected, OwnsRow, Row
<1> QED
  BY <1>3, <1>4, <1>5 DEF SessionSound

\* A session that holds this lease and this claim after a step is sound.
LEMMA OwnSound ==
  ASSUME NEW s \in Sessions, NEW step, NEW asked, NEW lease, NEW claim,
         sessions'[s].step = step, sessions'[s].asked = asked,
         sessions'[s].lease = lease, sessions'[s].claim = claim,
         asked <= now',
         lease # Nobody => lease.expires <= now' + Ttl /\ Protected(s, lease.expires)',
         claim # Nobody =>
           /\ lease # Nobody
           /\ claim.expires <= now' + Ttl /\ Protected(s, claim.expires)'
           /\ claim.token <= grants'
           /\ remote' # Nobody /\ remote'.token = claim.token => remote'.owner = Owner[s]
           /\ step \notin {"releasing", "uncertain"} /\ claim.expires > now' =>
                /\ remote' # Nobody /\ remote'.owner = Owner[s]
                /\ remote'.token = claim.token /\ remote'.expires >= claim.expires,
         step = "acquiring" => claim = Nobody /\ lease # Nobody /\ lease.expires = asked + Ttl,
         step = "heartbeating" =>
           claim # Nobody /\ claim.expires <= asked + Ttl /\ Protected(s, asked + Ttl)',
         step \in {"releasing", "uncertain"} => claim # Nobody
  PROVE  SessionSound(s)'
<1>1. LeaseSound(s)'
  BY DEF LeaseSound, Protected, OwnsRow, Row
<1>2. ClaimSound(s)'
  BY DEF ClaimSound, Protected, OwnsRow, Row, RemoteHoldsClaim, HoldsClaim, Backed
<1>3. CallSound(s)'
  BY DEF CallSound, InStep, Protected, OwnsRow, Row
<1> QED
  BY <1>1, <1>2, <1>3 DEF SessionSound

LEMMA StepSound ==
  ASSUME IInv, NEW s \in Sessions, now' = now, epochs' \in Nat, crashed' \subseteq Claimants,
         sessions' \in [Sessions -> Session],
         leases' \in [Machines -> LeaseRow \cup {Nobody}],
         \A t \in Sessions \ {s} : sessions'[t] = sessions[t],
         OthersProtected(s), OthersBacked(s), SessionSound(s)'
  PROVE  IInv'
<1>1. Typed'
  BY DEF IInv, Typed, OthersBacked
<1>2. remote' # Nobody => remote'.token <= grants'
  BY DEF OthersBacked
<1>3. \A t \in Sessions \ {s} : SessionSound(t)'
  BY OthersStaySound
<1> QED
  BY <1>1, <1>2, <1>3 DEF IInv

\* What is known of the session that moves.
LEMMA Known ==
  ASSUME IInv, NEW s \in Sessions
  PROVE  /\ Typed /\ now \in Nat /\ grants \in Nat /\ epochs \in Nat /\ crashed \subseteq Claimants
         /\ Ttl \in Nat /\ Owner[s] \in Claimants
         /\ leases \in [Machines -> LeaseRow \cup {Nobody}]
         /\ remote \in RemoteClaim \cup {Nobody} /\ (remote # Nobody => remote.token <= grants)
         /\ sessions[s].step \in SessionSteps /\ sessions[s].mode \in Modes
         /\ sessions[s].asked \in Nat /\ sessions[s].asked <= now
         /\ sessions[s].lease \in LeaseRef \cup {Nobody} /\ sessions[s].claim \in ClaimRef \cup {Nobody}
         /\ SessionSound(s)
BY ClaimAssumption DEF IInv, Typed, Session, SessionSound, CallSound

\* A session that drops everything is sound.
LEMMA NothingHeld ==
  ASSUME NEW s \in Sessions, sessions'[s].step = "idle", sessions'[s].asked <= now',
         sessions'[s].lease = Nobody, sessions'[s].claim = Nobody
  PROVE  SessionSound(s)'
BY OwnSound

\* A session that keeps its lease and holds no claim is sound.
LEMMA LeaseKept ==
  ASSUME IInv, NEW s \in Sessions, now' = now, UNCHANGED leases,
         sessions'[s].step = "idle", sessions'[s].asked = sessions[s].asked,
         sessions'[s].lease = sessions[s].lease, sessions'[s].claim = Nobody
  PROVE  SessionSound(s)'
<1>1. LeaseSound(s) /\ sessions[s].asked <= now
  BY Known DEF SessionSound
<1>2. PICK lease : lease = sessions[s].lease
  OBVIOUS
<1>3. lease # Nobody => lease.expires <= now' + Ttl /\ Protected(s, lease.expires)'
  BY <1>1, <1>2 DEF LeaseSound, Protected, OwnsRow, Row
<1> QED
  BY <1>1, <1>2, <1>3, OwnSound

-----------------------------------------------------------------------------
(* The steps of a session.                                                 *)

LEMMA AcquireLocalSound ==
  ASSUME IInv, OneSessionPerRun, NEW s \in Sessions, NEW mode \in Modes, AcquireLocal(s, mode)
  PROVE  IInv'
<1>1. now' = now /\ LeaseAvailable(s) /\ leases' = [leases EXCEPT ![Machine[s]] = AcquiredRow(s)]
  BY DEF AcquireLocal
<1>2. /\ AcquiredRow(s) \in LeaseRow /\ AcquiredRow(s).expires = now + Ttl
      /\ OthersProtected(s) /\ leases' \in [Machines -> LeaseRow \cup {Nobody}]
      /\ \A e \in Nat : e <= now + Ttl => Protected(s, e)'
  BY <1>1, Known, RowAcquired
<1>3. OthersBacked(s)
  BY Known, RemoteUnchanged DEF AcquireLocal, RemoteUntouched
<1>4. PICK lease \in LeaseRef :
        lease = [token |-> AcquiredRow(s).token, expires |-> AcquiredRow(s).expires,
                 epoch |-> AcquiredRow(s).epoch]
  BY <1>2 DEF LeaseRow, LeaseRef
<1>5. PICK step \in SessionSteps : step = IF mode = "personal" THEN "idle" ELSE "acquiring"
  BY DEF SessionSteps
<1>6. Turns(s, step, mode, now, lease, Nobody)
  BY <1>4, <1>5 DEF AcquireLocal
<1>7. /\ sessions' \in [Sessions -> Session]
      /\ \A t \in Sessions \ {s} : sessions'[t] = sessions[t]
      /\ sessions'[s].step = step /\ sessions'[s].asked = now
      /\ sessions'[s].lease = lease /\ sessions'[s].claim = Nobody
  BY <1>6, Known, SessionMoves
<1>8. lease.expires = now + Ttl /\ lease.expires \in Nat
  BY <1>2, <1>4 DEF LeaseRef
<1>9. SessionSound(s)'
  <2>1. Protected(s, lease.expires)' /\ lease.expires <= now' + Ttl /\ now <= now'
    BY <1>1, <1>2, <1>8, Known
  <2> QED
    BY <1>1, <1>4, <1>5, <1>7, <1>8, <2>1, NobodyIsNoRow, OwnSound
<1>10. epochs' \in Nat /\ crashed' \subseteq Claimants
  BY <1>2, Known DEF AcquireLocal, LeaseRow
<1> QED
  BY <1>1, <1>2, <1>3, <1>7, <1>9, <1>10, StepSound

LEMMA AcquireGrantedSound ==
  ASSUME IInv, OneSessionPerRun, NEW s \in Sessions, AcquireGranted(s)
  PROVE  IInv'
<1>1. now' = now /\ UNCHANGED <<leases, epochs, crashed>> /\ InStep(s, "acquiring") /\ RemoteGrants(s)
  BY DEF AcquireGranted
<1>2. /\ OthersBacked(s) /\ grants' = grants + 1 /\ remote' # Nobody
      /\ remote' = [owner |-> Owner[s], token |-> grants + 1, expires |-> sessions[s].asked + Ttl]
  BY <1>1, Known, RemoteGranted
<1>3. OthersProtected(s)
  BY <1>1, RowUntouched
<1>4. PICK lease \in LeaseRef : lease = sessions[s].lease /\ lease.expires = sessions[s].asked + Ttl
  BY <1>1, Known DEF SessionSound, CallSound
<1>5. PICK asked \in Nat : asked = sessions[s].asked /\ asked <= now
  BY Known
<1>6. PICK claim \in ClaimRef : claim = [token |-> grants + 1, expires |-> asked + Ttl]
  <2>1. grants + 1 \in Nat /\ asked + Ttl \in Nat
    BY <1>5, Known
  <2>2. [token |-> grants + 1, expires |-> asked + Ttl] \in ClaimRef
    BY <2>1 DEF ClaimRef
  <2> QED
    BY <2>2
<1>7. Keeps(s, "idle", lease, claim)
  BY <1>4, <1>5, <1>6 DEF AcquireGranted
<1>8. /\ sessions' \in [Sessions -> Session]
      /\ \A t \in Sessions \ {s} : sessions'[t] = sessions[t]
      /\ sessions'[s].step = "idle" /\ sessions'[s].asked = asked
      /\ sessions'[s].lease = lease /\ sessions'[s].claim = claim
  BY <1>5, <1>7, Known, SessionKeeps DEF SessionSteps
<1>9. Protected(s, lease.expires)' /\ Protected(s, claim.expires)'
  <2>1. Protected(s, lease.expires)
    BY <1>4, Known, NobodyIsNoRow DEF SessionSound, LeaseSound
  <2>2. claim.expires = lease.expires
    BY <1>4, <1>5, <1>6
  <2> QED
    BY <1>1, <2>1, <2>2 DEF Protected, OwnsRow, Row
<1>10. SessionSound(s)'
  <2>1. /\ lease.expires <= now' + Ttl /\ claim.expires <= now' + Ttl /\ asked <= now'
        /\ claim.token <= grants'
    BY <1>1, <1>2, <1>4, <1>5, <1>6, Known
  <2>2. /\ remote'.owner = Owner[s] /\ remote'.token = claim.token
        /\ remote'.expires >= claim.expires
    BY <1>2, <1>5, <1>6, Known
  <2> QED
    BY <1>2, <1>8, <1>9, <2>1, <2>2, NobodyIsNoRow, OwnSound
<1> QED
  BY <1>1, <1>2, <1>3, <1>8, <1>10, Known, StepSound

LEMMA WithoutClaimSound ==
  ASSUME IInv, OneSessionPerRun, NEW s \in Sessions, WithoutClaim(s), now' = now,
         UNCHANGED <<epochs, crashed>>, OthersBacked(s)
  PROVE  IInv'
<1>1. CASE sessions[s].mode = "advisory"
  <2>1. Keeps(s, "idle", sessions[s].lease, Nobody) /\ UNCHANGED leases
    BY <1>1 DEF WithoutClaim
  <2>2. /\ sessions' \in [Sessions -> Session]
        /\ \A t \in Sessions \ {s} : sessions'[t] = sessions[t]
        /\ sessions'[s].step = "idle" /\ sessions'[s].asked = sessions[s].asked
        /\ sessions'[s].lease = sessions[s].lease /\ sessions'[s].claim = Nobody
    BY <2>1, Known, SessionKeeps DEF SessionSteps
  <2>3. SessionSound(s)'
    BY <2>1, <2>2, LeaseKept
  <2>4. OthersProtected(s) /\ leases' \in [Machines -> LeaseRow \cup {Nobody}]
    BY <2>1, RowUntouched, Known
  <2> QED
    BY <2>2, <2>3, <2>4, Known, StepSound
<1>2. CASE sessions[s].mode # "advisory"
  <2>1. Keeps(s, "idle", Nobody, Nobody) /\ ReleaseRow(s)
    BY <1>2 DEF WithoutClaim
  <2>2. /\ sessions' \in [Sessions -> Session]
        /\ \A t \in Sessions \ {s} : sessions'[t] = sessions[t]
        /\ sessions'[s].step = "idle" /\ sessions'[s].asked = sessions[s].asked
        /\ sessions'[s].lease = Nobody /\ sessions'[s].claim = Nobody
    BY <2>1, Known, SessionKeeps DEF SessionSteps
  <2>3. SessionSound(s)'
    BY <2>2, Known, NothingHeld
  <2>4. OthersProtected(s) /\ leases' \in [Machines -> LeaseRow \cup {Nobody}]
    BY <2>1, RowReleased, Known
  <2> QED
    BY <2>2, <2>3, <2>4, Known, StepSound
<1> QED
  BY <1>1, <1>2

\* A step after which s holds nothing and its row is released.
LEMMA DropsAllSound ==
  ASSUME IInv, OneSessionPerRun, NEW s \in Sessions, Keeps(s, "idle", Nobody, Nobody), ReleaseRow(s),
         now' = now, UNCHANGED <<epochs, crashed>>, OthersBacked(s)
  PROVE  IInv'
<1>1. /\ sessions' \in [Sessions -> Session]
      /\ \A t \in Sessions \ {s} : sessions'[t] = sessions[t]
      /\ sessions'[s].step = "idle" /\ sessions'[s].asked = sessions[s].asked
      /\ sessions'[s].lease = Nobody /\ sessions'[s].claim = Nobody
  BY Known, SessionKeeps DEF SessionSteps
<1>2. SessionSound(s)'
  BY <1>1, Known, NothingHeld
<1>3. OthersProtected(s) /\ leases' \in [Machines -> LeaseRow \cup {Nobody}]
  BY RowReleased, Known
<1> QED
  BY <1>1, <1>2, <1>3, Known, StepSound

LEMMA AcquireEndsSound ==
  ASSUME IInv, OneSessionPerRun, NEW s \in Sessions,
         AcquireConflicts(s) \/ AcquireUnanswered(s) \/ AcquireInvalid(s)
  PROVE  IInv'
<1>1. now' = now /\ UNCHANGED <<epochs, crashed>> /\ (RemoteUntouched \/ RemoteGrants(s))
  BY DEF AcquireConflicts, AcquireUnanswered, AcquireInvalid
<1>2. OthersBacked(s)
  BY <1>1, Known, RemoteUnchanged, RemoteGranted
<1>3. WithoutClaim(s) \/ (Keeps(s, "idle", Nobody, Nobody) /\ ReleaseRow(s))
  BY DEF AcquireConflicts, AcquireUnanswered, AcquireInvalid
<1> QED
  BY <1>1, <1>2, <1>3, WithoutClaimSound, DropsAllSound

LEMMA HeartbeatLocalSound ==
  ASSUME IInv, OneSessionPerRun, NEW s \in Sessions, HeartbeatLocal(s)
  PROVE  IInv'
<1>1. /\ now' = now /\ UNCHANGED <<remote, epochs, grants, crashed>> /\ MayRenew(s)
      /\ leases' = [leases EXCEPT ![Machine[s]] = RenewedRow(s)]
  BY DEF HeartbeatLocal
<1>2. /\ OthersProtected(s) /\ leases' \in [Machines -> LeaseRow \cup {Nobody}]
      /\ \A e \in Nat : e <= now + Ttl => Protected(s, e)'
  BY <1>1, Known, RowRenewed
<1>3. OthersBacked(s)
  BY <1>1, Known, RemoteUnchanged DEF RemoteUntouched
<1>4. PICK lease \in LeaseRef : lease = [token |-> sessions[s].lease.token, expires |-> now + Ttl,
                                         epoch |-> sessions[s].lease.epoch]
  <2>1. sessions[s].lease \in LeaseRef /\ now + Ttl \in Nat
    BY Known DEF HeartbeatLocal
  <2>2. [token |-> sessions[s].lease.token, expires |-> now + Ttl,
         epoch |-> sessions[s].lease.epoch] \in LeaseRef
    BY <2>1 DEF LeaseRef
  <2> QED
    BY <2>2
<1>5. Keeps(s, "idle", lease, Nobody)
  BY <1>4 DEF HeartbeatLocal
<1>6. /\ sessions' \in [Sessions -> Session]
      /\ \A t \in Sessions \ {s} : sessions'[t] = sessions[t]
      /\ sessions'[s].step = "idle" /\ sessions'[s].asked = sessions[s].asked
      /\ sessions'[s].lease = lease /\ sessions'[s].claim = Nobody
  BY <1>5, Known, SessionKeeps DEF SessionSteps
<1>7. SessionSound(s)'
  <2>1. PICK asked \in Nat : asked = sessions[s].asked /\ asked <= now
    BY Known
  <2>2. lease.expires \in Nat /\ lease.expires <= now + Ttl
    BY <1>4, Known
  <2>3. Protected(s, lease.expires)' /\ lease.expires <= now' + Ttl /\ asked <= now'
    BY <1>1, <1>2, <2>1, <2>2
  <2> QED
    BY <1>6, <2>1, <2>3, OwnSound
<1> QED
  BY <1>1, <1>2, <1>3, <1>6, <1>7, Known, StepSound

\* The claim of s after a step that leaves the remote service alone.
LEMMA OwnClaimKept ==
  ASSUME IInv, NEW s \in Sessions, sessions[s].claim # Nobody, UNCHANGED <<now, remote, grants>>,
         NEW claim, claim = sessions[s].claim
  PROVE  /\ claim \in ClaimRef /\ sessions[s].lease # Nobody
         /\ claim.expires <= now' + Ttl /\ claim.token <= grants'
         /\ remote' # Nobody /\ remote'.token = claim.token => remote'.owner = Owner[s]
         /\ sessions[s].step \notin {"releasing", "uncertain"} /\ claim.expires > now' =>
              /\ remote' # Nobody /\ remote'.owner = Owner[s]
              /\ remote'.token = claim.token /\ remote'.expires >= claim.expires
BY Known DEF SessionSound, ClaimSound, RemoteHoldsClaim, HoldsClaim, Backed

LEMMA HeartbeatBeginsSound ==
  ASSUME IInv, OneSessionPerRun, NEW s \in Sessions, HeartbeatBegins(s)
  PROVE  IInv'
<1>1. /\ UNCHANGED <<now, remote, epochs, grants, crashed>> /\ MayRenew(s)
      /\ InStep(s, "idle") /\ sessions[s].claim # Nobody
      /\ leases' = [leases EXCEPT ![Machine[s]] = RenewedRow(s)]
  BY DEF HeartbeatBegins
<1>2. /\ OthersProtected(s) /\ leases' \in [Machines -> LeaseRow \cup {Nobody}]
      /\ \A e \in Nat : e <= now + Ttl => Protected(s, e)'
  BY <1>1, Known, RowRenewed
<1>3. OthersBacked(s)
  BY <1>1, Known, RemoteUnchanged DEF RemoteUntouched
<1>4. PICK lease \in LeaseRef : lease = sessions[s].lease
  BY <1>1, Known, OwnClaimKept
<1>5. PICK claim \in ClaimRef : claim = sessions[s].claim
  BY <1>1, Known
<1>a. PICK asked \in Nat : asked = now
  BY Known
<1>6. /\ sessions' \in [Sessions -> Session]
      /\ \A t \in Sessions \ {s} : sessions'[t] = sessions[t]
      /\ sessions'[s].step = "heartbeating" /\ sessions'[s].asked = asked
      /\ sessions'[s].lease = lease /\ sessions'[s].claim = claim
  <2>1. Turns(s, "heartbeating", sessions[s].mode, asked, lease, claim)
    BY <1>4, <1>5, <1>a DEF HeartbeatBegins
  <2> QED
    BY <2>1, Known, SessionMoves DEF SessionSteps
<1>7. /\ lease.expires \in Nat /\ claim.expires \in Nat /\ asked + Ttl \in Nat
      /\ lease.expires <= asked + Ttl /\ claim.expires <= asked + Ttl
  BY <1>4, <1>5, <1>a, Known, NobodyIsNoRow DEF SessionSound, LeaseSound, ClaimSound, LeaseRef, ClaimRef
<1>8. Protected(s, lease.expires)' /\ Protected(s, claim.expires)' /\ Protected(s, asked + Ttl)'
  BY <1>2, <1>7, <1>a
<1>9. /\ claim.token <= grants'
      /\ remote' # Nobody /\ remote'.token = claim.token => remote'.owner = Owner[s]
      /\ claim.expires > now' =>
           /\ remote' # Nobody /\ remote'.owner = Owner[s]
           /\ remote'.token = claim.token /\ remote'.expires >= claim.expires
  BY <1>1, <1>5, OwnClaimKept DEF InStep
<1>10. SessionSound(s)'
  BY <1>1, <1>4, <1>a, <1>6, <1>7, <1>8, <1>9, NobodyIsNoRow, OwnSound
<1> QED
  BY <1>1, <1>2, <1>3, <1>6, <1>10, Known, StepSound

\* A failed heartbeat may have renewed the claim it heard nothing about.
LEMMA HeartbeatEndsSound ==
  ASSUME IInv, OneSessionPerRun, NEW s \in Sessions, HeartbeatRenews(s) \/ HeartbeatFails(s)
  PROVE  IInv'
<1>1. /\ UNCHANGED <<now, leases, epochs, grants, crashed>> /\ InStep(s, "heartbeating")
      /\ RemoteRenewed(s) \/ UNCHANGED remote
      /\ HeartbeatRenews(s) => RemoteRenewed(s)
  BY DEF HeartbeatRenews, HeartbeatFails
<1>2. OthersProtected(s)
  BY <1>1, RowUntouched
<1>3. PICK asked \in Nat : asked = sessions[s].asked /\ asked <= now
  BY Known
<1>4. PICK old \in ClaimRef : old = sessions[s].claim /\ old.expires <= asked + Ttl
  BY <1>1, <1>3, Known DEF SessionSound, CallSound
<1>5. PICK lease \in LeaseRef : lease = sessions[s].lease
  <2>1. sessions[s].lease # Nobody
    BY <1>1, Known DEF SessionSound, ClaimSound, CallSound
  <2> QED
    BY <2>1, Known
<1>6. /\ sessions[s].claim # Nobody /\ sessions[s].step = "heartbeating"
      /\ old.token <= grants /\ old.expires <= now + Ttl
      /\ RemoteHoldsClaim(s) => remote.owner = Owner[s]
      /\ HoldsClaim(s) => Backed(s, old)
      /\ Protected(s, old.expires) /\ Protected(s, asked + Ttl) /\ Protected(s, lease.expires)
      /\ lease.expires <= now + Ttl
  BY <1>1, <1>3, <1>4, <1>5, Known, NobodyIsNoRow DEF SessionSound, LeaseSound, ClaimSound, CallSound, InStep
<1>7. RemoteRenewed(s) =>
        /\ RemoteHoldsClaim(s) /\ remote \in RemoteClaim
        /\ remote' = [owner |-> remote.owner, token |-> remote.token, expires |-> asked + Ttl]
        /\ remote' # Nobody /\ remote'.owner = Owner[s] /\ remote'.token = old.token
        /\ remote'.expires = asked + Ttl
  <2>1. SUFFICES ASSUME RemoteRenewed(s)
                 PROVE  /\ RemoteHoldsClaim(s) /\ remote \in RemoteClaim
                        /\ remote' = [owner |-> remote.owner, token |-> remote.token, expires |-> asked + Ttl]
                        /\ remote' # Nobody /\ remote'.owner = Owner[s] /\ remote'.token = old.token
                        /\ remote'.expires = asked + Ttl
    OBVIOUS
  <2>2. RemoteHoldsClaim(s) /\ remote \in RemoteClaim
    BY <2>1, Known DEF RemoteRenewed, RemoteHoldsClaim
  <2>3. remote' = [owner |-> remote.owner, token |-> remote.token, expires |-> asked + Ttl]
    BY <1>3, <2>1 DEF RemoteRenewed
  <2>4. remote' \in RemoteClaim
    BY <2>2, <2>3, Known DEF RemoteClaim
  <2> QED
    BY <1>4, <1>6, <2>2, <2>3, <2>4, NobodyIsNoRow DEF RemoteHoldsClaim
<1>8. OthersBacked(s)
  <2>1. CASE RemoteRenewed(s)
    BY <1>1, <1>3, <1>6, <1>7, <2>1, Known, RemoteOwnClaim
  <2>2. CASE UNCHANGED remote
    BY <1>1, <2>2, Known, RemoteUnchanged DEF RemoteUntouched
  <2> QED
    BY <1>1, <2>1, <2>2
<1>9. PICK claim \in ClaimRef :
        /\ claim.token = old.token
        /\ \/ claim = old /\ HeartbeatFails(s)
           \/ claim.expires = asked + Ttl /\ RemoteRenewed(s) /\ HeartbeatRenews(s)
        /\ Keeps(s, "idle", lease, claim)
  <2>1. CASE HeartbeatFails(s)
    BY <1>4, <1>5, <2>1 DEF HeartbeatFails
  <2>2. CASE HeartbeatRenews(s)
    <3>1. PICK new : new = [token |-> sessions[s].claim.token, expires |-> sessions[s].asked + Ttl]
      OBVIOUS
    <3>2. new \in ClaimRef /\ new.token = old.token /\ new.expires = asked + Ttl
      BY <1>3, <1>4, <3>1, Known DEF ClaimRef
    <3>3. Keeps(s, "idle", lease, new)
      BY <1>5, <2>2, <3>1 DEF HeartbeatRenews
    <3> QED
      BY <1>1, <2>2, <3>2, <3>3
  <2> QED
    BY <2>1, <2>2
<1>10. /\ sessions' \in [Sessions -> Session]
       /\ \A t \in Sessions \ {s} : sessions'[t] = sessions[t]
       /\ sessions'[s].step = "idle" /\ sessions'[s].asked = asked
       /\ sessions'[s].lease = lease /\ sessions'[s].claim = claim
  BY <1>3, <1>9, Known, SessionKeeps DEF SessionSteps
<1>11. /\ Protected(s, lease.expires)' /\ Protected(s, claim.expires)'
       /\ claim.expires <= now + Ttl /\ claim.expires <= asked + Ttl
  BY <1>1, <1>3, <1>4, <1>6, <1>9, Known DEF Protected, OwnsRow, Row
<1>12. remote' # Nobody /\ remote'.token = claim.token => remote'.owner = Owner[s]
  BY <1>1, <1>4, <1>6, <1>7, <1>9 DEF RemoteHoldsClaim
<1>13. claim.expires > now =>
         /\ remote' # Nobody /\ remote'.owner = Owner[s]
         /\ remote'.token = claim.token /\ remote'.expires >= claim.expires
  <2>1. CASE RemoteRenewed(s)
    BY <1>3, <1>7, <1>9, <1>11, <2>1, Known DEF ClaimRef
  <2>2. CASE UNCHANGED remote /\ ~RemoteRenewed(s)
    <3>1. claim = old
      BY <1>9, <2>2
    <3> QED
      BY <1>4, <1>6, <2>2, <3>1 DEF HoldsClaim, Backed
  <2> QED
    BY <1>1, <2>1, <2>2
<1>14. SessionSound(s)'
  BY <1>1, <1>3, <1>6, <1>9, <1>10, <1>11, <1>12, <1>13, NobodyIsNoRow, OwnSound
<1> QED
  BY <1>1, <1>2, <1>8, <1>10, <1>14, Known, StepSound

\* A step to a stage of the release, under which the claim is not worked.
LEMMA ReleaseStageSound ==
  ASSUME IInv, OneSessionPerRun, NEW s \in Sessions, sessions[s].claim # Nobody,
         NEW step \in {"releasing", "uncertain"},
         Keeps(s, step, sessions[s].lease, sessions[s].claim),
         UNCHANGED <<now, leases, epochs, grants, crashed>>,
         UNCHANGED remote \/ (RemoteHoldsClaim(s) /\ remote' = Nobody)
  PROVE  IInv'
<1>1. OthersProtected(s)
  BY RowUntouched
<1>2. RemoteHoldsClaim(s) => remote.owner = Owner[s]
  BY Known DEF SessionSound, ClaimSound
<1>3. OthersBacked(s)
  <2>1. CASE UNCHANGED remote
    BY <2>1, Known, RemoteUnchanged DEF RemoteUntouched
  <2>2. CASE RemoteHoldsClaim(s) /\ remote' = Nobody
    BY <1>2, <2>2, Known, RemoteOwnClaim
  <2> QED
    BY <2>1, <2>2
<1>4. PICK lease \in LeaseRef, claim \in ClaimRef, asked \in Nat :
        /\ lease = sessions[s].lease /\ claim = sessions[s].claim
        /\ asked = sessions[s].asked /\ asked <= now
  <2>1. sessions[s].lease # Nobody
    BY Known DEF SessionSound, ClaimSound
  <2> QED
    BY <2>1, Known
<1>5. /\ sessions' \in [Sessions -> Session]
      /\ \A t \in Sessions \ {s} : sessions'[t] = sessions[t]
      /\ sessions'[s].step = step /\ sessions'[s].asked = asked
      /\ sessions'[s].lease = lease /\ sessions'[s].claim = claim
  BY <1>4, Known, SessionKeeps DEF SessionSteps
<1>6. /\ lease.expires <= now + Ttl /\ claim.expires <= now + Ttl /\ claim.token <= grants
      /\ Protected(s, lease.expires) /\ Protected(s, claim.expires)
  BY <1>4, Known, NobodyIsNoRow DEF SessionSound, LeaseSound, ClaimSound
<1>7. Protected(s, lease.expires)' /\ Protected(s, claim.expires)'
  BY <1>6 DEF Protected, OwnsRow, Row
<1>8. remote' # Nobody /\ remote'.token = claim.token => remote'.owner = Owner[s]
  BY <1>2, <1>4 DEF RemoteHoldsClaim
<1>9. SessionSound(s)'
  BY <1>4, <1>5, <1>6, <1>7, <1>8, NobodyIsNoRow, OwnSound
<1> QED
  BY <1>1, <1>3, <1>5, <1>9, Known, StepSound

LEMMA ReleaseBeginsSound ==
  ASSUME IInv, OneSessionPerRun, NEW s \in Sessions, ReleaseBegins(s) \/ ReleaseUncertain(s)
  PROVE  IInv'
<1>1. CASE ReleaseBegins(s)
  BY <1>1, ReleaseStageSound DEF ReleaseBegins
<1>2. CASE ReleaseUncertain(s)
  <2>1. sessions[s].claim # Nobody
    BY <1>2, Known DEF ReleaseUncertain, SessionSound, CallSound
  <2> QED
    BY <1>2, <2>1, ReleaseStageSound DEF ReleaseUncertain
<1> QED
  BY <1>1, <1>2

LEMMA ReleaseConfirmedSound ==
  ASSUME IInv, OneSessionPerRun, NEW s \in Sessions, ReleaseConfirmed(s)
  PROVE  IInv'
<1>1. /\ UNCHANGED <<now, epochs, grants, crashed>> /\ ReleaseRow(s) /\ Keeps(s, "idle", Nobody, Nobody)
      /\ RemoteHoldsClaim(s) /\ remote' = Nobody /\ InStep(s, "releasing")
  BY DEF ReleaseConfirmed
<1>2. remote.owner = Owner[s]
  BY <1>1, Known DEF SessionSound, ClaimSound, CallSound
<1>3. OthersBacked(s)
  BY <1>1, <1>2, Known, RemoteOwnClaim
<1> QED
  BY <1>1, <1>3, DropsAllSound

LEMMA ReleaseRefusedSound ==
  ASSUME IInv, OneSessionPerRun, NEW s \in Sessions, ReleaseRefused(s)
  PROVE  IInv'
<1>1. UNCHANGED <<now, leases, remote, epochs, grants, crashed>> /\ Keeps(s, "idle", sessions[s].lease, Nobody)
  BY DEF ReleaseRefused
<1>2. /\ sessions' \in [Sessions -> Session]
      /\ \A t \in Sessions \ {s} : sessions'[t] = sessions[t]
      /\ sessions'[s].step = "idle" /\ sessions'[s].asked = sessions[s].asked
      /\ sessions'[s].lease = sessions[s].lease /\ sessions'[s].claim = Nobody
  BY <1>1, Known, SessionKeeps DEF SessionSteps
<1>3. SessionSound(s)'
  BY <1>1, <1>2, LeaseKept
<1>4. OthersProtected(s) /\ OthersBacked(s)
  BY <1>1, Known, RowUntouched, RemoteUnchanged DEF RemoteUntouched
<1> QED
  BY <1>1, <1>2, <1>3, <1>4, Known, StepSound

LEMMA ReleaseLocalSound ==
  ASSUME IInv, OneSessionPerRun, NEW s \in Sessions, ReleaseLocal(s)
  PROVE  IInv'
<1>1. OthersBacked(s)
  BY Known, RemoteUnchanged DEF ReleaseLocal, RemoteUntouched
<1> QED
  BY <1>1, DropsAllSound DEF ReleaseLocal

LEMMA CrashSound ==
  ASSUME IInv, OneSessionPerRun, NEW s \in Sessions, Crash(s)
  PROVE  IInv'
<1>1. UNCHANGED <<now, leases, remote, epochs, grants>> /\ sessions' = [sessions EXCEPT ![s] = Nothing]
  BY DEF Crash
<1>2. crashed' \subseteq Claimants
  BY Known DEF Crash
<1>3. Nothing \in Session
  BY DEF Nothing, Session, SessionSteps, Modes
<1>4. /\ sessions' \in [Sessions -> Session]
      /\ \A t \in Sessions \ {s} : sessions'[t] = sessions[t]
      /\ sessions'[s] = Nothing
  BY <1>1, <1>3, Known DEF Typed
<1>5. /\ sessions'[s].step = "idle" /\ sessions'[s].asked = 0
      /\ sessions'[s].lease = Nobody /\ sessions'[s].claim = Nobody
  BY <1>4 DEF Nothing
<1>6. SessionSound(s)'
  <2>1. sessions'[s].asked <= now'
    BY <1>1, <1>5, Known
  <2> QED
    BY <1>5, <2>1, NothingHeld
<1>7. OthersProtected(s) /\ OthersBacked(s)
  BY <1>1, Known, RowUntouched, RemoteUnchanged DEF RemoteUntouched
<1> QED
  BY <1>1, <1>2, <1>4, <1>6, <1>7, Known, StepSound

\* Time only weakens what is promised.
LEMMA TickSound ==
  ASSUME IInv, Tick
  PROVE  IInv'
<1>1. /\ now' = now + 1 /\ now \in Nat /\ Ttl \in Nat
      /\ UNCHANGED <<leases, remote, sessions, epochs, grants, crashed>>
  BY ClaimAssumption DEF Tick, IInv, Typed
<1>2. Typed' /\ (remote' # Nobody => remote'.token <= grants')
  BY <1>1 DEF IInv, Typed
<1>3. ASSUME NEW s \in Sessions
      PROVE  SessionSound(s)'
  <2>1. sessions[s] \in Session /\ SessionSound(s)
    BY <1>3 DEF IInv, Typed
  <2>2. \A e \in Nat : Protected(s, e) => Protected(s, e)'
    BY <1>1 DEF Protected, OwnsRow, Row
  <2>3. PICK lease, claim, asked, step :
          /\ lease = sessions[s].lease /\ claim = sessions[s].claim
          /\ asked = sessions[s].asked /\ step = sessions[s].step
    OBVIOUS
  <2>4. /\ lease \in LeaseRef \cup {Nobody} /\ claim \in ClaimRef \cup {Nobody} /\ asked \in Nat
        /\ asked + Ttl \in Nat
        /\ lease # Nobody => lease.expires \in Nat
        /\ claim # Nobody => claim.expires \in Nat
    BY <1>1, <2>1, <2>3 DEF Session, LeaseRef, ClaimRef
  <2>5. /\ lease # Nobody => lease.expires <= now + Ttl /\ Protected(s, lease.expires)'
        /\ claim # Nobody =>
             /\ lease # Nobody /\ claim.expires <= now + Ttl /\ Protected(s, claim.expires)'
             /\ claim.token <= grants
        /\ asked <= now
        /\ step = "acquiring" => claim = Nobody /\ lease # Nobody /\ lease.expires = asked + Ttl
        /\ step = "heartbeating" =>
             claim # Nobody /\ claim.expires <= asked + Ttl /\ Protected(s, asked + Ttl)'
        /\ step \in {"releasing", "uncertain"} => claim # Nobody
    BY <2>1, <2>2, <2>3, <2>4 DEF SessionSound, LeaseSound, ClaimSound, CallSound, InStep
  <2>6. claim # Nobody =>
          /\ remote # Nobody /\ remote.token = claim.token => remote.owner = Owner[s]
          /\ step \notin {"releasing", "uncertain"} /\ claim.expires > now =>
               /\ remote # Nobody /\ remote.owner = Owner[s]
               /\ remote.token = claim.token /\ remote.expires >= claim.expires
    BY <2>1, <2>3 DEF SessionSound, ClaimSound, RemoteHoldsClaim, HoldsClaim, Backed
  <2>7. claim # Nobody => (claim.expires > now' => claim.expires > now)
    BY <1>1, <2>4
  <2>8. /\ lease # Nobody => lease.expires <= now' + Ttl
        /\ claim # Nobody => claim.expires <= now' + Ttl
        /\ asked <= now'
    BY <1>1, <2>4, <2>5
  <2>9. /\ sessions'[s].step = step /\ sessions'[s].asked = asked
        /\ sessions'[s].lease = lease /\ sessions'[s].claim = claim
    BY <1>1, <2>3
  <2> QED
    BY <1>1, <2>5, <2>6, <2>7, <2>8, <2>9, OwnSound
<1> QED
  BY <1>2, <1>3 DEF IInv

-----------------------------------------------------------------------------
LEMMA InitSound == ClaimsInit => IInv
BY ClaimAssumption
   DEF ClaimsInit, IInv, Typed, SessionSound, LeaseSound, ClaimSound, CallSound, InStep, Nothing, Session,
       SessionSteps, Modes

LEMMA NextSound ==
  ASSUME IInv, OneSessionPerRun, [ClaimsNext]_claimVars
  PROVE  IInv'
<1>1. CASE Tick
  BY <1>1, TickSound
<1>2. ASSUME NEW s \in Sessions, Step(s)
      PROVE  IInv'
  BY <1>2, AcquireLocalSound, AcquireGrantedSound, AcquireEndsSound, HeartbeatLocalSound,
     HeartbeatBeginsSound, HeartbeatEndsSound, ReleaseBeginsSound, ReleaseConfirmedSound,
     ReleaseRefusedSound, ReleaseLocalSound, CrashSound
     DEF Step
<1>3. CASE UNCHANGED claimVars
  BY <1>3 DEF claimVars, IInv, Typed, SessionSound, LeaseSound, ClaimSound, CallSound, InStep, Protected,
     OwnsRow, Row, RemoteHoldsClaim, HoldsClaim, Backed
<1> QED
  BY <1>1, <1>2, <1>3 DEF ClaimsNext

\* Two live references to one row name the same owner.
LEMMA InvariantImplies ==
  ASSUME IInv
  PROVE  ClaimsTypeOK /\ OneLocalWriter /\ OneClaimant /\ ClaimsAreProtected
<1>1. ClaimsTypeOK
  BY DEF IInv, Typed, ClaimsTypeOK, SessionSound, ClaimSound, CallSound, InStep, Session, SessionSteps
<1>2. OneLocalWriter
  BY DEF IInv, OneLocalWriter, HoldsLease, SessionSound, LeaseSound, Protected, OwnsRow, Row
<1>3. OneClaimant
  BY DEF IInv, OneClaimant, HoldsClaim, SessionSound, ClaimSound, Backed
<1>4. ClaimsAreProtected
  BY DEF IInv, ClaimsAreProtected, SessionSound, ClaimSound, Protected
<1> QED
  BY <1>1, <1>2, <1>3, <1>4

\* The inductive invariant holds in every reachable state.
THEOREM Invariance ==
  ASSUME OneSessionPerRun
  PROVE  ClaimsSpec => []IInv
<1>1. IInv /\ [ClaimsNext]_claimVars => IInv'
  BY NextSound
<1> QED
  BY <1>1, InitSound, PTL DEF ClaimsSpec

\* Runs that share a machine never both hold an unexpired lease of its
\* workspace, and a process holds a lease whenever it counts on a claim.
THEOREM LocalWriterTheorem ==
  ASSUME OneSessionPerRun
  PROVE  ClaimsSpec => [](ClaimsTypeOK /\ OneLocalWriter)
<1>1. IInv => ClaimsTypeOK /\ OneLocalWriter
  BY InvariantImplies
<1> QED
  BY <1>1, Invariance, PTL

\* Different runs never work under unexpired claims at once, on any machines.
THEOREM ClaimantTheorem ==
  ASSUME OneSessionPerRun
  PROVE  ClaimsSpec => []OneClaimant
<1>1. IInv => OneClaimant
  BY InvariantImplies
<1> QED
  BY <1>1, Invariance, PTL

\* The lease row of a run outlives every claim it holds on that machine.
THEOREM ProtectionTheorem ==
  ASSUME OneSessionPerRun
  PROVE  ClaimsSpec => []ClaimsAreProtected
<1>1. IInv => ClaimsAreProtected
  BY InvariantImplies
<1> QED
  BY <1>1, Invariance, PTL

-----------------------------------------------------------------------------
(* The scheduler. *)

ScheduleTyped ==
  /\ deps \in [Tasks -> SUBSET Tasks]
  /\ scope \in [Tasks -> SUBSET Places]
  /\ limit \in Limits
  /\ status \in [Tasks -> Statuses]
  /\ settled \in [Tasks -> Ends]
  /\ aborted \in BOOLEAN /\ resolved \in BOOLEAN /\ halt \in BOOLEAN /\ cancelled \in BOOLEAN
  /\ report \in {"none", "completed", "failed", "cancelled"}

\* What a failure and an unreported schedule leave to be blocked.
Causes ==
  /\ InState(status, "failed") # {} => halt
  /\ InState(status, "blocked") # {} => report # "none"

\* A reported schedule launches nothing any more.
Reported ==
  /\ report # "none" => InState(status, "pending") \cup InState(status, "running") = {}
  /\ report = "completed" => InState(status, "completed") = Tasks

BlockedByHalt == InState(status, "blocked") # {} => halt

SchedInv ==
  /\ ScheduleTyped
  /\ ValidGraph(deps)
  /\ ScopesStayApart
  /\ DependenciesCameFirst
  /\ Causes
  /\ Reported
  /\ BlockedByHalt

-----------------------------------------------------------------------------
(* A round planned from the task states st. *)

\* The states a turn starts from, and what they keep of the invariant.
Plannable(st, h) ==
  /\ st \in [Tasks -> Statuses]
  /\ \A t, u \in InState(st, "running") : t # u => ~Conflict(t, u)
  /\ \A t \in Tasks, d \in Tasks :
       st[t] \in {"running", "completed", "failed"} /\ d \in deps[t] => st[d] = "completed"
  /\ InState(st, "blocked") = {}
  /\ InState(st, "failed") # {} => h

\* Two tasks of a round do not conflict, nor does one with a running task.
LEMMA ChosenApart ==
  ASSUME NEW st, NEW S, ScheduleTyped, Chosen(st, S),
         NEW t \in S, NEW u \in S \cup InState(st, "running"), t # u
  PROVE  ~Conflict(t, u)
<1>1. Tasks \subseteq Nat
  BY TasksAssumption
<1>2. S \subseteq Tasks
  BY DEF Chosen, Ready, InState
<1>3. CASE u \in InState(st, "running")
  BY <1>3 DEF Chosen
<1>4. CASE u \in S /\ u < t
  BY <1>4 DEF Chosen, Before
<1>5. CASE u \in S /\ t < u
  <2>1. ~Conflict(u, t)
    BY <1>5 DEF Chosen, Before
  <2> QED
    BY <2>1 DEF Conflict
<1> QED
  BY <1>1, <1>2, <1>3, <1>4, <1>5 DEF InState

\* Of a valid graph in which nothing failed and nothing runs, a task that is
\* pending always leaves one that can start.
LEMMA SomethingStarts ==
  ASSUME NEW st, ScheduleTyped, ValidGraph(deps), Plannable(st, FALSE), Chosen(st, {}),
         InState(st, "running") = {}
  PROVE  InState(st, "pending") = {}
<1> DEFINE P == InState(st, "pending")
<1>1. SUFFICES ASSUME P # {} PROVE FALSE
  OBVIOUS
<1>2. P \in (SUBSET Tasks) \ {{}}
  BY <1>1 DEF InState
<1>3. PICK t \in P : deps[t] \cap P = {}
  BY <1>2 DEF ValidGraph
<1>4. t \in Tasks /\ deps[t] \subseteq Tasks
  BY <1>2, <1>3 DEF ScheduleTyped
<1>5. \A d \in deps[t] : st[d] = "completed"
  <2> SUFFICES ASSUME NEW d \in deps[t] PROVE st[d] = "completed"
    OBVIOUS
  <2>1. d \in Tasks /\ st[d] \in Statuses
    BY <1>4 DEF Plannable
  <2>2. st[d] # "pending"
    BY <1>3, <2>1 DEF InState
  <2>3. st[d] # "running" /\ st[d] # "failed" /\ st[d] # "blocked"
    BY <2>1 DEF Plannable, InState
  <2> QED
    BY <2>1, <2>2, <2>3 DEF Statuses
<1>6. t \in Ready(st)
  BY <1>3, <1>5 DEF Ready
<1>7. limit \in Nat /\ limit > 0
  BY LimitsAssumption DEF ScheduleTyped
<1>8. Before(t, {}) = {}
  BY DEF Before
<1>9. Cardinality(Before(t, {})) = 0 /\ Cardinality(InState(st, "running")) = 0
  BY <1>8, FS_EmptySet
<1>10. Cardinality(Before(t, {})) < limit - Cardinality(InState(st, "running"))
  BY <1>7, <1>9
<1>11. \A u \in InState(st, "running") \cup Before(t, {}) : ~Conflict(t, u)
  BY <1>8
<1> QED
  BY <1>6, <1>10, <1>11 DEF Chosen

\* Every planned round keeps what the scheduler promises of the task states.
LEMMA RoundKeeps ==
  ASSUME NEW st, NEW h \in BOOLEAN, NEW c \in BOOLEAN,
         ScheduleTyped, ValidGraph(deps), Plannable(st, h), report = "none",
         PlanNextRound(st, h, c), UNCHANGED input
  PROVE  /\ status' \in [Tasks -> Statuses]
         /\ ScopesStayApart' /\ DependenciesCameFirst'
         /\ report' \in {"none", "completed", "failed", "cancelled"}
         /\ Reported'
         /\ InState(status', "failed") # {} => h
         /\ InState(status', "blocked") # {} => h /\ report' # "none"
<1>1. PICK S \in SUBSET Ready(st) :
        /\ IF h THEN S = {} ELSE Chosen(st, S)
        /\ IF S = {} /\ InState(st, "running") = {}
             THEN /\ status' = [t \in Tasks |-> IF st[t] = "pending" THEN "blocked" ELSE st[t]]
                  /\ report' = Verdict(status', c)
             ELSE /\ status' = [t \in Tasks |-> IF t \in S THEN "running" ELSE st[t]]
                  /\ UNCHANGED report
  BY DEF PlanNextRound
<1>2. st \in [Tasks -> Statuses] /\ S \subseteq Tasks
  BY <1>1 DEF Plannable, Ready, InState
<1>3. deps' = deps /\ scope' = scope
  BY DEF input
<1>4. CASE S = {} /\ InState(st, "running") = {}
  <2>1. status' = [t \in Tasks |-> IF st[t] = "pending" THEN "blocked" ELSE st[t]]
    BY <1>1, <1>4
  <2>2. report' = Verdict(status', c)
    BY <1>1, <1>4
  <2>3. status' \in [Tasks -> Statuses]
    BY <1>2, <2>1 DEF Statuses
  <2>4. InState(status', "running") = {} /\ InState(status', "pending") = {}
    BY <1>2, <1>4, <2>1 DEF InState, Statuses
  <2>5. ScopesStayApart'
    BY <2>4 DEF ScopesStayApart, InState
  <2>6. DependenciesCameFirst'
    <3> SUFFICES ASSUME NEW t \in Tasks, NEW d \in Tasks,
                        status'[t] \in {"running", "completed", "failed"}, d \in deps[t]
                 PROVE  status'[d] = "completed"
      BY <1>3 DEF DependenciesCameFirst
    <3>1. st[t] \in {"running", "completed", "failed"}
      BY <2>1
    <3>2. st[d] = "completed"
      BY <3>1 DEF Plannable
    <3> QED
      BY <2>1, <3>2
  <2>7. report' \in {"completed", "failed", "cancelled"}
    BY <2>2 DEF Verdict
  <2>8. report' = "completed" => InState(status', "completed") = Tasks
    BY <2>2 DEF Verdict, InState
  <2>9. InState(status', "failed") # {} => h
    BY <2>1 DEF Plannable, InState
  <2>10. InState(status', "blocked") # {} => h
    <3> SUFFICES ASSUME ~h PROVE InState(status', "blocked") = {}
      OBVIOUS
    <3>1. Chosen(st, {})
      BY <1>1, <1>4
    <3>2. Plannable(st, FALSE)
      BY DEF Plannable
    <3>3. InState(st, "pending") = {}
      BY <1>4, <3>1, <3>2, SomethingStarts
    <3>4. InState(st, "blocked") = {}
      BY DEF Plannable
    <3> QED
      BY <2>1, <3>3, <3>4 DEF InState
  <2> QED
    BY <2>3, <2>4, <2>5, <2>6, <2>7, <2>8, <2>9, <2>10 DEF Reported, InState
<1>5. CASE ~(S = {} /\ InState(st, "running") = {})
  <2>1. status' = [t \in Tasks |-> IF t \in S THEN "running" ELSE st[t]]
    BY <1>1, <1>5
  <2>2. report' = "none"
    BY <1>1, <1>5
  <2>3. status' \in [Tasks -> Statuses]
    BY <1>2, <2>1 DEF Statuses
  <2>4. InState(status', "running") = S \cup InState(st, "running")
    BY <1>2, <2>1 DEF InState
  <2>5. ScopesStayApart'
    <3> SUFFICES ASSUME NEW t \in S \cup InState(st, "running"),
                        NEW u \in S \cup InState(st, "running"), t # u
                 PROVE  scope[t] \cap scope[u] = {}
      BY <1>3, <2>4 DEF ScopesStayApart, Conflict, InState
    <3>1. CASE t \in InState(st, "running") /\ u \in InState(st, "running")
      BY <3>1 DEF Plannable, Conflict
    <3>2. CASE S # {} /\ t \in S
      <4>1. Chosen(st, S)
        BY <1>1, <3>2
      <4> QED
        BY <3>2, <4>1, ChosenApart DEF Conflict
    <3>3. CASE S # {} /\ u \in S
      <4>1. Chosen(st, S)
        BY <1>1, <3>3
      <4>2. ~Conflict(u, t)
        BY <3>3, <4>1, ChosenApart
      <4> QED
        BY <4>2 DEF Conflict
    <3> QED
      BY <3>1, <3>2, <3>3
  <2>6. DependenciesCameFirst'
    <3> SUFFICES ASSUME NEW t \in Tasks, NEW d \in Tasks,
                        status'[t] \in {"running", "completed", "failed"}, d \in deps[t]
                 PROVE  status'[d] = "completed"
      BY <1>3 DEF DependenciesCameFirst
    <3>1. st[d] = "completed"
      <4>1. CASE t \in S
        BY <1>1, <4>1 DEF Ready
      <4>2. CASE t \notin S
        BY <2>1, <4>2 DEF Plannable
      <4> QED
        BY <4>1, <4>2
    <3>2. d \notin S
      BY <1>1, <3>1 DEF Ready, InState
    <3> QED
      BY <2>1, <3>1, <3>2
  <2>7. InState(status', "failed") # {} => h
    BY <2>1 DEF Plannable, InState
  <2>8. InState(status', "blocked") = {}
    BY <2>1 DEF Plannable, InState
  <2> QED
    BY <2>2, <2>3, <2>5, <2>6, <2>7, <2>8 DEF Reported
<1> QED
  BY <1>4, <1>5

-----------------------------------------------------------------------------
(* The invariant. *)

LEMMA ScheduleInitKeeps == ScheduleInit => SchedInv
<1> SUFFICES ASSUME ScheduleInit PROVE SchedInv
  OBVIOUS
<1>1. ScheduleTyped
  BY DEF ScheduleInit, ScheduleTyped, Statuses, Ends
<1>2. \A t \in Tasks : status[t] = "pending"
  BY DEF ScheduleInit
<1>3. ScopesStayApart /\ DependenciesCameFirst
  BY <1>2 DEF ScopesStayApart, DependenciesCameFirst, InState
<1>4. Causes /\ BlockedByHalt
  BY <1>2 DEF Causes, BlockedByHalt, InState
<1>5. Reported /\ ValidGraph(deps)
  BY DEF ScheduleInit, Reported
<1> QED
  BY <1>1, <1>3, <1>4, <1>5 DEF SchedInv

LEMMA ScheduleNextKeeps == SchedInv /\ [ScheduleNext]_scheduleVars => SchedInv'
<1> SUFFICES ASSUME SchedInv, [ScheduleNext]_scheduleVars PROVE SchedInv'
  OBVIOUS
<1> USE DEF SchedInv
<1>1. CASE Begin
  <2>1. Plannable(status, FALSE)
    BY <1>1 DEF Begin, Unstarted, Plannable, ScheduleTyped, InState
  <2>2. UNCHANGED <<input, aborted, settled, resolved, halt, cancelled>>
    BY <1>1 DEF Begin
  <2>3. report = "none" /\ PlanNextRound(status, FALSE, FALSE)
    BY <1>1 DEF Begin, Unstarted
  <2>4. /\ status' \in [Tasks -> Statuses]
        /\ ScopesStayApart' /\ DependenciesCameFirst'
        /\ report' \in {"none", "completed", "failed", "cancelled"}
        /\ Reported'
        /\ InState(status', "failed") # {} => FALSE
        /\ InState(status', "blocked") # {} => FALSE /\ report' # "none"
    BY <2>1, <2>2, <2>3, RoundKeeps
  <2>5. ScheduleTyped'
    BY <2>2, <2>4 DEF ScheduleTyped, input
  <2>6. ValidGraph(deps)'
    BY <2>2 DEF ValidGraph, input
  <2>7. Causes' /\ BlockedByHalt'
    BY <2>4 DEF Causes, BlockedByHalt, InState
  <2> QED
    BY <2>4, <2>5, <2>6, <2>7
<1>2. ASSUME NEW t \in Tasks, NEW end \in Ends \ {"no"}, Settle(t, end) PROVE SchedInv'
  <2>1. UNCHANGED <<input, aborted, status, halt, cancelled, report>>
    BY <1>2 DEF Settle
  <2>2. settled' \in [Tasks -> Ends] /\ resolved' \in BOOLEAN
    BY <1>2 DEF Settle, ScheduleTyped
  <2> QED
    BY <2>1, <2>2 DEF input, ScheduleTyped, ValidGraph, ScopesStayApart, Conflict, DependenciesCameFirst,
       Causes, Reported, BlockedByHalt, InState
<1>3. CASE Abort
  <2>1. UNCHANGED <<input, status, settled, resolved, halt, cancelled, report>> /\ aborted' = TRUE
    BY <1>3 DEF Abort
  <2> QED
    BY <2>1 DEF input, ScheduleTyped, ValidGraph, ScopesStayApart, Conflict, DependenciesCameFirst,
       Causes, Reported, BlockedByHalt, InState
<1>4. CASE Turn
  <2> DEFINE st == StatusOnceDrained
  <2>1. /\ report = "none" /\ resolved' = FALSE /\ UNCHANGED <<input, aborted, settled>>
        /\ halt' = Halt /\ cancelled' = Cancelled
        /\ PlanNextRound(st, halt', cancelled')
    BY <1>4 DEF Turn
  <2>2. halt' \in BOOLEAN /\ cancelled' \in BOOLEAN
    BY <2>1 DEF Halt, Cancelled, ScheduleTyped
  <2>3. Plannable(st, halt')
    <3>1. st \in [Tasks -> Statuses]
      BY DEF StatusOnceDrained, ScheduleTyped, Statuses
    <3>2. InState(st, "running") \subseteq InState(status, "running")
      BY DEF StatusOnceDrained, InState, ScheduleTyped
    <3>3. \A t, u \in InState(st, "running") : t # u => ~Conflict(t, u)
      BY <3>2 DEF ScopesStayApart
    <3>4. ASSUME NEW t \in Tasks, NEW d \in Tasks,
                 st[t] \in {"running", "completed", "failed"}, d \in deps[t]
          PROVE  st[d] = "completed"
      <4>1. status[t] \in {"running", "completed", "failed"}
        BY <3>4 DEF StatusOnceDrained, Drained, InState
      <4>2. status[d] = "completed"
        BY <3>4, <4>1 DEF DependenciesCameFirst
      <4> QED
        BY <4>2 DEF StatusOnceDrained, Drained, InState
    <3>5. InState(st, "blocked") = {}
      BY <2>1 DEF StatusOnceDrained, InState, Causes
    <3>6. InState(st, "failed") # {} => halt'
      <4> SUFFICES ASSUME NEW t \in Tasks, st[t] = "failed" PROVE halt'
        BY DEF InState
      <4>1. CASE t \in Drained
        BY <2>1, <4>1 DEF StatusOnceDrained, Halt
      <4>2. CASE t \notin Drained
        BY <2>1, <4>2 DEF StatusOnceDrained, Halt, Causes, InState
      <4> QED
        BY <4>1, <4>2
    <3> QED
      BY <3>1, <3>3, <3>4, <3>5, <3>6 DEF Plannable
  <2>4. /\ status' \in [Tasks -> Statuses]
        /\ ScopesStayApart' /\ DependenciesCameFirst'
        /\ report' \in {"none", "completed", "failed", "cancelled"}
        /\ Reported'
        /\ InState(status', "failed") # {} => halt'
        /\ InState(status', "blocked") # {} => halt' /\ report' # "none"
    BY <2>1, <2>2, <2>3, RoundKeeps
  <2>5. ScheduleTyped'
    BY <2>1, <2>2, <2>4 DEF ScheduleTyped, input
  <2>6. ValidGraph(deps)'
    BY <2>1 DEF ValidGraph, input
  <2>7. Causes' /\ BlockedByHalt'
    BY <2>4 DEF Causes, BlockedByHalt, InState
  <2> QED
    BY <2>4, <2>5, <2>6, <2>7
<1>5. CASE UNCHANGED scheduleVars
  BY <1>5 DEF scheduleVars, input, ScheduleTyped, ValidGraph, ScopesStayApart, Conflict, DependenciesCameFirst,
     Causes, Reported, BlockedByHalt, InState
<1> QED
  BY <1>1, <1>2, <1>3, <1>4, <1>5 DEF ScheduleNext

\* The invariant of the scheduler holds in every reachable state.
THEOREM ScheduleInvariance == ScheduleSpec => []SchedInv
BY ScheduleInitKeeps, ScheduleNextKeeps, PTL DEF ScheduleSpec

\* Tasks whose change scopes overlap never run beside each other: the round
\* is checked against the running tasks and against itself.
THEOREM ScopeTheorem == ScheduleSpec => []ScopesStayApart
<1>1. SchedInv => ScopesStayApart
  BY DEF SchedInv
<1> QED
  BY <1>1, ScheduleInvariance, PTL

\* A task starts after everything it depends on completed.
THEOREM DependencyTheorem == ScheduleSpec => []DependenciesCameFirst
<1>1. SchedInv => DependenciesCameFirst
  BY DEF SchedInv
<1> QED
  BY <1>1, ScheduleInvariance, PTL

\* A finished schedule left a task out only because it was halted: the graphs
\* it accepts always leave it something to start.
THEOREM BlockedTheorem == ScheduleSpec => []BlockedTasksHaveACause
<1>1. SchedInv => BlockedTasksHaveACause
  BY DEF SchedInv, Reported, BlockedByHalt, BlockedTasksHaveACause
<1> QED
  BY <1>1, ScheduleInvariance, PTL
-----------------------------------------------------------------------------
(* The schedule comes to its end: until it reports something is left to      *)
(* happen, and what can still happen gets less with every step.  Fairness    *)
(* makes SchedulesEnd of the two.                                            *)

\* An unsettled execution is the only thing the loop may be waiting for.
NeverStuck ==
  report = "none" =>
    \/ Unstarted
    \/ resolved
    \/ \E t \in InState(status, "running") : settled[t] = "no"

\* What the loop knows of the executions whenever it waits.
WakeInv ==
  /\ \A t \in InState(status, "pending") : settled[t] = "no"
  /\ \A t \in InState(status, "running") : settled[t] # "no" => resolved
  /\ report = "none" /\ ~Unstarted => InState(status, "running") # {}

\* The executions that may still settle.
Unsettled == {t \in Tasks : settled[t] = "no"}

\* An execution that settles wakes the loop once; the first round and the abort
\* come once.
StepsLeft ==
  2 * Cardinality(Unsettled) + (IF Unstarted THEN 1 ELSE 0) + (IF resolved THEN 1 ELSE 0)
    + (IF aborted THEN 0 ELSE 1)

EndsInTime == StepsLeft \in Nat /\ [][StepsLeft' \in Nat /\ StepsLeft' < StepsLeft]_scheduleVars

\* A round that finds every waiting and every running task unsettled leaves
\* them so, and leaves a task running unless it reports.
LEMMA RoundWaits ==
  ASSUME NEW st \in [Tasks -> Statuses], NEW h, NEW c, SchedInv, report = "none",
         \A t \in InState(st, "pending") \cup InState(st, "running") : settled[t] = "no",
         PlanNextRound(st, h, c), UNCHANGED settled
  PROVE  /\ \A t \in InState(status', "pending") \cup InState(status', "running") : settled'[t] = "no"
         /\ report' = "none" => InState(status', "running") # {}
<1>1. PICK S \in SUBSET Ready(st) :
        IF S = {} /\ InState(st, "running") = {}
          THEN /\ status' = [t \in Tasks |-> IF st[t] = "pending" THEN "blocked" ELSE st[t]]
               /\ report' = Verdict(status', c)
          ELSE /\ status' = [t \in Tasks |-> IF t \in S THEN "running" ELSE st[t]]
               /\ UNCHANGED report
  BY DEF PlanNextRound
<1>2. S \subseteq InState(st, "pending") /\ S \subseteq Tasks
  BY <1>1 DEF Ready, InState
<1>3. CASE S = {} /\ InState(st, "running") = {}
  <2>1. /\ status' = [t \in Tasks |-> IF st[t] = "pending" THEN "blocked" ELSE st[t]]
        /\ report' = Verdict(status', c)
    BY <1>1, <1>3
  <2>2. InState(status', "pending") = {} /\ InState(status', "running") = {}
    BY <1>3, <2>1 DEF InState
  <2>3. report' # "none"
    BY <2>1 DEF Verdict
  <2> QED
    BY <2>2, <2>3
<1>4. CASE ~(S = {} /\ InState(st, "running") = {})
  <2>1. status' = [t \in Tasks |-> IF t \in S THEN "running" ELSE st[t]]
    BY <1>1, <1>4
  <2>2. InState(status', "pending") \subseteq InState(st, "pending")
    BY <1>2, <2>1 DEF InState
  <2>3. InState(status', "running") = S \cup InState(st, "running")
    BY <1>2, <2>1 DEF InState
  <2> QED
    BY <1>2, <1>4, <2>2, <2>3
<1> QED
  BY <1>3, <1>4

\* The first round and every later one leave the loop waiting for something,
\* or reported.
LEMMA RoundWakes ==
  ASSUME SchedInv, WakeInv, Begin \/ Turn
  PROVE  WakeInv' /\ ~Unstarted' /\ UNCHANGED settled
<1>1. CASE Begin
  <2>1. /\ report = "none" /\ InState(status, "pending") = Tasks
        /\ PlanNextRound(status, FALSE, FALSE) /\ UNCHANGED settled
    BY <1>1 DEF Begin, Unstarted
  <2>2. \A t \in InState(status, "pending") \cup InState(status, "running") : settled[t] = "no"
    BY <2>1 DEF WakeInv, InState
  <2>3. /\ \A t \in InState(status', "pending") \cup InState(status', "running") : settled'[t] = "no"
        /\ report' = "none" => InState(status', "running") # {}
    BY <2>1, <2>2, RoundWaits DEF SchedInv, ScheduleTyped
  <2> QED
    BY <2>1, <2>3 DEF WakeInv, Unstarted, InState
<1>2. CASE Turn
  <2> DEFINE st == StatusOnceDrained
  <2>1. /\ report = "none" /\ UNCHANGED settled
        /\ PlanNextRound(st, halt', cancelled')
    BY <1>2 DEF Turn
  <2>2. st \in [Tasks -> Statuses]
    BY DEF StatusOnceDrained, SchedInv, ScheduleTyped, Statuses
  <2>3. \A t \in InState(st, "pending") \cup InState(st, "running") : settled[t] = "no"
    BY DEF WakeInv, StatusOnceDrained, Drained, InState
  <2>4. /\ \A t \in InState(status', "pending") \cup InState(status', "running") : settled'[t] = "no"
        /\ report' = "none" => InState(status', "running") # {}
    BY <2>1, <2>2, <2>3, RoundWaits
  <2> QED
    BY <2>1, <2>4 DEF WakeInv, Unstarted, InState
<1> QED
  BY <1>1, <1>2

LEMMA WakeInitKeeps == ScheduleInit => WakeInv
BY DEF ScheduleInit, WakeInv, Unstarted, InState

LEMMA WakeNextKeeps == SchedInv /\ WakeInv /\ [ScheduleNext]_scheduleVars => WakeInv'
<1> SUFFICES ASSUME SchedInv, WakeInv, [ScheduleNext]_scheduleVars PROVE WakeInv'
  OBVIOUS
<1>1. ASSUME NEW t \in Tasks, NEW end \in Ends \ {"no"}, Settle(t, end) PROVE WakeInv'
  <2>1. /\ status[t] = "running" /\ resolved' = TRUE /\ UNCHANGED <<status, report>>
        /\ settled' = [settled EXCEPT ![t] = end]
    BY <1>1 DEF Settle
  <2>2. \A u \in InState(status, "pending") : settled'[u] = settled[u]
    BY <2>1 DEF InState, SchedInv, ScheduleTyped
  <2> QED
    BY <2>1, <2>2 DEF WakeInv, Unstarted, InState
<1>2. CASE Abort \/ UNCHANGED scheduleVars
  BY <1>2 DEF Abort, scheduleVars, WakeInv, Unstarted, InState
<1> QED
  BY <1>1, <1>2, RoundWakes DEF ScheduleNext

\* No settlement goes unnoticed: a schedule that has not reported is about to
\* start, has been woken, or waits for an execution that has yet to settle.
THEOREM WakeTheorem == ScheduleSpec => []NeverStuck
<1>1. SchedInv /\ WakeInv => NeverStuck
  BY DEF WakeInv, NeverStuck, Unstarted
<1>2. ScheduleSpec => []WakeInv
  BY ScheduleInvariance, WakeInitKeeps, WakeNextKeeps, PTL DEF ScheduleSpec
<1> QED
  BY <1>1, <1>2, ScheduleInvariance, PTL

LEMMA StepsAreCounted ==
  ASSUME SchedInv
  PROVE  Cardinality(Unsettled) \in Nat /\ StepsLeft \in Nat
<1>1. Unsettled \subseteq Tasks
  BY DEF Unsettled
<1>2. Cardinality(Unsettled) \in Nat
  BY <1>1, TasksAssumption, FS_Subset, FS_CardinalityType
<1> QED
  BY <1>2 DEF StepsLeft

\* A step that is no stutter uses one of the steps left.
LEMMA StepsGoDown ==
  ASSUME SchedInv, SchedInv', WakeInv, ScheduleNext
  PROVE  StepsLeft' \in Nat /\ StepsLeft' < StepsLeft
<1>1. Cardinality(Unsettled) \in Nat /\ Cardinality(Unsettled') \in Nat
  <2>1. Cardinality(Unsettled) \in Nat
    BY StepsAreCounted
  <2>2. Unsettled' \subseteq Tasks
    BY DEF Unsettled
  <2>3. Cardinality(Unsettled') \in Nat
    BY <2>2, TasksAssumption, FS_Subset, FS_CardinalityType
  <2> QED
    BY <2>1, <2>3
<1>2. ASSUME NEW t \in Tasks, NEW end \in Ends \ {"no"}, Settle(t, end)
      PROVE  StepsLeft' < StepsLeft
  <2>1. /\ settled[t] = "no" /\ settled' = [settled EXCEPT ![t] = end]
        /\ UNCHANGED <<status, report, aborted>>
    BY <1>2 DEF Settle
  <2>2. Unsettled' = Unsettled \ {t} /\ t \in Unsettled
    BY <2>1 DEF Unsettled, SchedInv, ScheduleTyped
  <2>3. IsFiniteSet(Unsettled)
    BY TasksAssumption, FS_Subset DEF Unsettled
  <2>4. Cardinality(Unsettled') = Cardinality(Unsettled) - 1
    BY <2>2, <2>3, FS_RemoveElement
  <2>5. (Unstarted <=> Unstarted') /\ aborted' = aborted
    BY <2>1 DEF Unstarted, InState
  <2> QED
    BY <1>1, <2>4, <2>5 DEF StepsLeft
<1>3. CASE Abort
  <2>1. ~aborted /\ aborted' = TRUE /\ UNCHANGED <<status, report, settled, resolved>>
    BY <1>3 DEF Abort
  <2>2. Unsettled' = Unsettled /\ (Unstarted <=> Unstarted')
    BY <2>1 DEF Unsettled, Unstarted, InState
  <2> QED
    BY <1>1, <2>1, <2>2 DEF StepsLeft
<1>4. CASE Begin
  <2>1. Unstarted /\ ~Unstarted' /\ UNCHANGED <<settled, resolved, aborted>>
    BY <1>4, RoundWakes DEF Begin
  <2>2. Unsettled' = Unsettled
    BY <2>1 DEF Unsettled
  <2> QED
    BY <1>1, <2>1, <2>2 DEF StepsLeft
<1>5. CASE Turn
  <2>1. resolved /\ ~resolved' /\ ~Unstarted' /\ UNCHANGED <<settled, aborted>>
    BY <1>5, RoundWakes DEF Turn
  <2>2. Unsettled' = Unsettled
    BY <2>1 DEF Unsettled
  <2> QED
    BY <1>1, <2>1, <2>2 DEF StepsLeft
<1>6. StepsLeft' \in Nat
  BY <1>1 DEF StepsLeft
<1> QED
  BY <1>2, <1>3, <1>4, <1>5, <1>6 DEF ScheduleNext

\* The loop does not spin: however executions settle and whenever the signal is
\* raised, each step uses one of the steps left, two for every task, one for the
\* first round and one for the abort (a turn answers a settlement).
THEOREM EndTheorem == ScheduleSpec => EndsInTime
<1>1. SchedInv => StepsLeft \in Nat
  BY StepsAreCounted
<1>2. SchedInv /\ SchedInv' /\ WakeInv /\ [ScheduleNext]_scheduleVars
        => [StepsLeft' \in Nat /\ StepsLeft' < StepsLeft]_scheduleVars
  BY StepsGoDown
<1>3. ScheduleSpec => []WakeInv
  BY ScheduleInvariance, WakeInitKeeps, WakeNextKeeps, PTL DEF ScheduleSpec
<1> QED
  BY <1>1, <1>2, <1>3, ScheduleInvariance, PTL DEF ScheduleSpec, EndsInTime
=============================================================================
