------------------------- MODULE TaskAuthorityProofs -------------------------
(***************************************************************************)
(* What the authority of a run keeps for any number of processes, any      *)
(* lifetimes, and any number of deaths, suspensions, revocations and       *)
(* policy changes.                                                         *)
(*                                                                         *)
(* Whatever a process read is either still so or can no longer be: a row   *)
(* that is revoked, lapsed or missing its policy stays that way, and one   *)
(* process drives the run.  So a check that began without authority is     *)
(* refused at the latest by its last reading, and the grant that is about  *)
(* to be marked follows the one the marker names.                          *)
(***************************************************************************)
EXTENDS TaskAuthority, TLAPS

Driving(p) == pc[p] \notin {"idle", "presented", "sealing", "recorded"}

Begun(p) == Driving(p) /\ pc[p] \notin {"revalidating", "beginning"}

OneDrives == \A p, q \in Processes : Driving(p) /\ Driving(q) => p = q

\* A grant with this life may come after the one the marker names.
Follows(expires, decided) ==
  marker.grant # 0 => grants[marker.grant].expires < expires /\ grants[marker.grant].revoked >= decided

Lasts(expires, p) == expires >= mem[p].deadline \/ expires = ApprovalExpiry

Covers(g, p) == grants[g].revoked # Never \/ Lasts(grants[g].expires, p)

\* What the step of a process says about the run and its approval.
KnowsRun(p) ==
  /\ pc[p] = "recorded" \/ Driving(p) => approval # "none"
  /\ Driving(p) => run \in {"AUTHORIZED", "IMPLEMENTING"}
  /\ Begun(p) => run = "IMPLEMENTING" /\ mem[p].deadline <= now + Duration

\* What it says about the grant that is decided on, marked or in use.
KnowsGrant(p) ==
  /\ Begun(p) /\ mem[p].first /\ marker.grant # 0 => Covers(marker.grant, p)
  /\ pc[p] \in {"proving", "issuing"} =>
       /\ mem[p].decided <= now /\ mem[p].expires <= ApprovalExpiry
       /\ Lasts(mem[p].expires, p) /\ Follows(mem[p].expires, mem[p].decided)
  /\ pc[p] = "marking" => Follows(grants[mem[p].grant].expires, grants[mem[p].grant].decided)
  /\ pc[p] \in InSession \cup {"marking"} =>
       /\ mem[p].grant # 0
       /\ mem[p].first \/ mem[p].armed => Covers(mem[p].grant, p)

\* A check that began without authority is on its way to a refusal.
KnowsDoubt(p) ==
  /\ pc[p] \in {"checking", "approved"} /\ ~mem[p].live => ~Approved(p) \/ ~GrantLive(mem[p].grant)
  /\ pc[p] \in {"granted", "gating", "gated"} /\ ~mem[p].live => ~Approved(p)
  /\ pc[p] \in {"permitted", "committing"} => mem[p].live

Knows(p) == KnowsRun(p) /\ KnowsGrant(p) /\ KnowsDoubt(p)

\* What the rows and the record say among themselves.
RecordsAgree ==
  /\ run # "AWAITING" => approval # "none"
  /\ run \in {"AWAITING", "AUTHORIZED"} => marker.grant = 0
  /\ ledger >= 0
  /\ \A g \in DOMAIN grants :
       /\ grants[g].decided <= now
       /\ grants[g].revoked = Never \/ grants[g].revoked <= now

AuthorityInv ==
  /\ TypeOK /\ RecordsAgree
  /\ GrantsAreApproved /\ MarkerNamesGrants /\ RevocationsStick
  /\ OneDrives
  /\ \A p \in Processes : Knows(p)

-----------------------------------------------------------------------------
(* A step of one process leaves the others as they are.                    *)

Outside == {"idle", "presented", "sealing", "recorded"}

Alone(p) == \A q \in Processes \ {p} : pc'[q] = pc[q] /\ mem'[q] = mem[q]

LEMMA Moves ==
  ASSUME TypeOK, NEW p \in Processes, NEW s \in Steps, Goto(p, s), UNCHANGED mem
  PROVE  Alone(p) /\ pc'[p] = s /\ mem'[p] = mem[p] /\ pc' \in [Processes -> Steps]
BY DEF TypeOK, Goto, Alone

LEMMA MovesWith ==
  ASSUME TypeOK, NEW p \in Processes, NEW s \in Steps, Goto(p, s),
         NEW m \in Memory, mem' = [mem EXCEPT ![p] = m]
  PROVE  /\ Alone(p) /\ pc'[p] = s /\ mem'[p] = m
         /\ pc' \in [Processes -> Steps] /\ mem' \in [Processes -> Memory]
BY DEF TypeOK, Goto, Alone

LEMMA FreshTyped == Fresh \in Memory
BY DEF Fresh, Memory

LEMMA OthersKnow ==
  ASSUME AuthorityInv, NEW p \in Processes, Alone(p), UNCHANGED <<now, rows, marker>>,
         run' = run \/ Driving(p) \/ run = "AWAITING"
  PROVE  \A q \in Processes \ {p} : Knows(q)'
<1> SUFFICES ASSUME NEW q \in Processes \ {p} PROVE Knows(q)'
  OBVIOUS
<1>1. /\ pc'[q] = pc[q] /\ mem'[q] = mem[q] /\ now' = now
      /\ approval' = approval /\ grants' = grants /\ marker' = marker
      /\ Knows(q) /\ (Driving(p) /\ Driving(q) => p = q)
  BY DEF Alone, rows, AuthorityInv, OneDrives
<1>2. KnowsRun(q)'
  BY <1>1 DEF Knows, KnowsRun, Driving, Begun
<1>3. KnowsGrant(q)'
  BY <1>1 DEF Knows, KnowsGrant, Driving, Begun, Covers, Lasts, Follows, InSession, Never
<1>4. KnowsDoubt(q)'
  BY <1>1 DEF Knows, KnowsDoubt, Approved, ApprovalLive, GrantLive, Expired, Never
<1>5. QED
  BY <1>2, <1>3, <1>4 DEF Knows

\* A step that leaves the rows, the marker and the clock alone is judged by
\* what its process knows afterwards.
LEMMA StepKeeps ==
  ASSUME AuthorityInv, NEW p \in Processes, Alone(p), UNCHANGED <<now, rows, marker>>,
         run' = run \/ Driving(p) \/ run = "AWAITING",
         TypeOK', Knows(p)',
         run' # "AWAITING" => approval # "none",
         run' \in {"AWAITING", "AUTHORIZED"} => marker.grant = 0,
         ledger' >= 0,
         Driving(p)' => Driving(p) \/ Drivers = {},
         orphans \subseteq orphans', pc[p] = "marking" => mem[p].grant \in orphans'
  PROVE  AuthorityInv'
<1>1. approval' = approval /\ grants' = grants /\ marker' = marker /\ now' = now
  BY DEF rows
<1>2. RecordsAgree'
  BY <1>1 DEF AuthorityInv, RecordsAgree, Never
<1>3. GrantsAreApproved' /\ RevocationsStick'
  BY <1>1 DEF AuthorityInv, GrantsAreApproved, RevocationsStick, Chain
<1>4. MarkerNamesGrants'
  BY <1>1 DEF AuthorityInv, MarkerNamesGrants, Chain, Alone, ToSet
<1>5. OneDrives'
  BY DEF AuthorityInv, OneDrives, Driving, Alone, Drivers
<1>6. QED
  BY <1>2, <1>3, <1>4, <1>5, OthersKnow DEF AuthorityInv

\* A process that does not drive knows only the approval it recorded.
LEMMA OutsiderKnows ==
  ASSUME NEW p \in Processes, pc[p] \in Outside, pc[p] = "recorded" => approval # "none"
  PROVE  Knows(p)
BY DEF Outside, Knows, KnowsRun, KnowsGrant, KnowsDoubt, Driving, Begun, InSession

-----------------------------------------------------------------------------
(* The steps of an approve, and those that end a command.                  *)

\* A step that takes a process out of the run.
LEMMA LeavingKeeps ==
  ASSUME AuthorityInv, NEW p \in Processes, NEW s \in Outside, Goto(p, s),
         UNCHANGED mem \/ Forgets(p),
         UNCHANGED <<world, rows, marker>>,
         run' = run \/ Driving(p) \/ run = "AWAITING",
         run' \in {"AWAITING", "AUTHORIZED", "IMPLEMENTING", "COMMITTED", "FAILED"},
         stage' \in {"none", "running", "suspended", "awaiting"},
         ledger' \in Int, ledger' >= 0, faults' \in 0..MaxFaults,
         orphans \subseteq orphans', orphans' \subseteq DOMAIN grants,
         pc[p] = "marking" => mem[p].grant \in orphans',
         run' # "AWAITING" => approval # "none",
         run' \in {"AWAITING", "AUTHORIZED"} => marker.grant = 0,
         s = "recorded" => approval # "none"
  PROVE  AuthorityInv'
<1>1. TypeOK /\ s \in Steps
  BY DEF AuthorityInv, Outside, Steps
<1>2. /\ Alone(p) /\ pc'[p] = s
      /\ pc' \in [Processes -> Steps] /\ mem' \in [Processes -> Memory]
      /\ mem'[p].grant <= Len(grants)
  <2>1. CASE UNCHANGED mem
    BY <1>1, <2>1, Moves DEF TypeOK
  <2>2. CASE Forgets(p)
    <3>1. Fresh.grant = 0 /\ Len(grants) >= 0
      BY <1>1 DEF Fresh, TypeOK
    <3>2. QED
      BY <1>1, <2>2, <3>1, MovesWith, FreshTyped DEF Forgets
  <2>3. QED
    BY <2>1, <2>2
<1>3. now' = now /\ policy' = policy /\ approval' = approval /\ grants' = grants /\ marker' = marker
  BY DEF world, rows
<1>4. TypeOK'
  <2>1. \A q \in Processes : mem'[q].grant <= Len(grants)
    BY <1>1, <1>2 DEF Alone, TypeOK
  <2>2. QED
    BY <1>1, <1>2, <1>3, <2>1 DEF TypeOK
<1>5. Knows(p)' /\ ~Driving(p)'
  BY <1>2, <1>3 DEF Outside, Knows, KnowsRun, KnowsGrant, KnowsDoubt, Driving, Begun, InSession
<1>6. QED
  BY <1>2, <1>3, <1>4, <1>5, StepKeeps DEF rows

\* A step that keeps a process in the run, or brings the first one in.
LEMMA DrivingKeeps ==
  ASSUME AuthorityInv, NEW p \in Processes, NEW s \in Steps, Goto(p, s),
         NEW m \in Memory, m.grant <= Len(grants), mem' = [mem EXCEPT ![p] = m],
         UNCHANGED <<world, rows, marker, history>>,
         Driving(p) \/ Drivers = {}, pc[p] # "marking",
         run' = run \/ Driving(p),
         run' \in {"AUTHORIZED", "IMPLEMENTING"},
         stage' \in {"none", "running", "suspended", "awaiting"},
         ledger' \in Int, ledger' >= 0,
         run' = "AUTHORIZED" => marker.grant = 0,
         run' # "AWAITING" => approval # "none",
         Knows(p)'
  PROVE  AuthorityInv'
<1>1. TypeOK
  BY DEF AuthorityInv
<1>2. /\ Alone(p) /\ pc'[p] = s /\ mem'[p] = m
      /\ pc' \in [Processes -> Steps] /\ mem' \in [Processes -> Memory]
  BY <1>1, MovesWith
<1>3. /\ now' = now /\ policy' = policy /\ approval' = approval /\ grants' = grants /\ marker' = marker
      /\ faults' = faults /\ orphans' = orphans
  BY DEF world, rows, history
<1>4. TypeOK'
  <2>1. \A q \in Processes : mem'[q].grant <= Len(grants)
    BY <1>1, <1>2 DEF Alone, TypeOK
  <2>2. QED
    BY <1>1, <1>2, <1>3, <2>1 DEF TypeOK
<1>5. QED
  BY <1>2, <1>3, <1>4, StepKeeps DEF rows

\* The same for a step that changes no memory.
LEMMA WalkingKeeps ==
  ASSUME AuthorityInv, NEW p \in Processes, NEW s \in Steps, Goto(p, s), UNCHANGED mem,
         UNCHANGED <<world, rows, run, marker, history>>,
         Driving(p), pc[p] # "marking",
         stage' \in {"none", "running", "suspended", "awaiting"},
         ledger' \in Int, ledger' >= 0,
         Knows(p)'
  PROVE  AuthorityInv'
<1>1. TypeOK
  BY DEF AuthorityInv
<1>2. mem[p] \in Memory /\ mem[p].grant <= Len(grants) /\ mem' = [mem EXCEPT ![p] = mem[p]]
  BY <1>1 DEF TypeOK
<1>3. /\ run \in {"AUTHORIZED", "IMPLEMENTING"} /\ approval # "none"
      /\ run = "AUTHORIZED" => marker.grant = 0
  BY DEF AuthorityInv, Knows, KnowsRun, RecordsAgree
<1>4. QED
  BY <1>2, <1>3, DrivingKeeps

\* What ends a command by ending its run.
LEMMA EndingKeeps ==
  ASSUME AuthorityInv, NEW p \in Processes, NEW state \in {"COMMITTED", "FAILED"},
         Driving(p), pc[p] # "marking", Ends(p, state),
         UNCHANGED <<world, rows, marker, stage, ledger, history>>
  PROVE  AuthorityInv'
<1>1. /\ Goto(p, "idle") /\ Forgets(p) /\ run' = state
      /\ faults' = faults /\ orphans' = orphans /\ stage' = stage /\ ledger' = ledger
  BY DEF Ends, history
<1>2. /\ faults \in 0..MaxFaults /\ orphans \subseteq DOMAIN grants
      /\ stage \in {"none", "running", "suspended", "awaiting"} /\ ledger \in Int /\ ledger >= 0
      /\ approval # "none"
  BY DEF AuthorityInv, TypeOK, RecordsAgree, Knows, KnowsRun
<1>3. QED
  BY <1>1, <1>2, LeavingKeeps DEF Outside

LEMMA RecordTyped ==
  ASSUME AuthorityInv
  PROVE  /\ faults \in 0..MaxFaults /\ orphans \subseteq DOMAIN grants
         /\ run \in {"AWAITING", "AUTHORIZED", "IMPLEMENTING", "COMMITTED", "FAILED"}
         /\ stage \in {"none", "running", "suspended", "awaiting"} /\ ledger \in Int /\ ledger >= 0
         /\ run # "AWAITING" => approval # "none"
         /\ run \in {"AWAITING", "AUTHORIZED"} => marker.grant = 0
BY DEF AuthorityInv, TypeOK, RecordsAgree

\* The ledger only records what was used.
LEMMA TimeIsUsed ==
  ASSUME AuthorityInv, NEW p \in Processes, Begun(p)
  PROVE  Used(p) \in Int /\ Used(p) >= 0
<1>1. mem[p].deadline <= now + Duration
  BY DEF AuthorityInv, Knows, KnowsRun
<1>2. mem[p] \in Memory /\ now \in 0..MaxTime
  BY DEF AuthorityInv, TypeOK
<1>3. mem[p].deadline \in Int /\ now \in Int
  BY <1>2, LifetimeAssumption DEF Memory
<1>4. QED
  BY <1>1, <1>3, LifetimeAssumption DEF Used

LEMMA PresentsKeeps == ASSUME AuthorityInv, NEW p \in Processes, Presents(p) PROVE AuthorityInv'
<1>1. Goto(p, "presented") /\ UNCHANGED <<mem, world, rows, marker, run, stage, ledger, faults, orphans>> /\ pc[p] # "marking"
  BY DEF Presents, record, history
<1>2. QED
  BY <1>1, RecordTyped, LeavingKeeps DEF Outside

LEMMA LooksUpKeeps == ASSUME AuthorityInv, NEW p \in Processes, LooksUp(p) PROVE AuthorityInv'
<1>1. PICK s \in {"idle", "sealing", "recorded"} : Goto(p, s) /\ (s = "recorded" => approval # "none")
  BY DEF LooksUp
<1>2. UNCHANGED <<mem, world, rows, marker, run, stage, ledger, faults, orphans>> /\ pc[p] # "marking"
  BY DEF LooksUp, record, history
<1>3. QED
  BY <1>1, <1>2, RecordTyped, LeavingKeeps DEF Outside

LEMMA AuthorizesKeeps == ASSUME AuthorityInv, NEW p \in Processes, Authorizes(p) PROVE AuthorityInv'
<1>1. Goto(p, "idle") /\ UNCHANGED <<mem, world, rows, marker, stage, ledger, faults, orphans>> /\ pc[p] # "marking"
  BY DEF Authorizes, history
<1>2. approval # "none" /\ run' = IF run = "AWAITING" THEN "AUTHORIZED" ELSE run
  BY DEF Authorizes, AuthorityInv, Knows, KnowsRun
<1>3. QED
  BY <1>1, <1>2, RecordTyped, LeavingKeeps DEF Outside

LEMMA SuspendsKeeps == ASSUME AuthorityInv, NEW p \in Processes, Suspends(p) PROVE AuthorityInv'
<1>1. /\ Goto(p, "idle") /\ Forgets(p) /\ UNCHANGED <<world, rows, marker, run, orphans>> /\ pc[p] = "driving"
      /\ stage' = "suspended" /\ ledger' = Used(p) /\ faults < MaxFaults /\ faults' = faults + 1
  BY DEF Suspends, Fault
<1>2. Begun(p)
  BY <1>1 DEF Begun, Driving
<1>3. Used(p) \in Int /\ Used(p) >= 0
  BY <1>2, TimeIsUsed
<1>4. faults' \in 0..MaxFaults
  BY <1>1, RecordTyped, LifetimeAssumption
<1>5. QED
  BY <1>1, <1>3, <1>4, RecordTyped, LeavingKeeps DEF Outside

LEMMA DieKeeps == ASSUME AuthorityInv, NEW p \in Processes, Die(p) PROVE AuthorityInv'
<1>1. /\ Goto(p, "idle") /\ Forgets(p) /\ UNCHANGED <<world, rows, marker, run, stage, ledger>>
      /\ faults < MaxFaults /\ faults' = faults + 1
      /\ orphans' = IF pc[p] = "marking" THEN orphans \cup {mem[p].grant} ELSE orphans
  BY DEF Die, Fault, record
<1>2. faults' \in 0..MaxFaults
  BY <1>1, RecordTyped, LifetimeAssumption
<1>3. orphans' \subseteq DOMAIN grants
  <2>1. pc[p] = "marking" => mem[p].grant \in DOMAIN grants
    BY DEF AuthorityInv, Knows, KnowsGrant, TypeOK, Memory
  <2>2. QED
    BY <1>1, <2>1, RecordTyped
<1>4. QED
  BY <1>1, <1>2, <1>3, RecordTyped, LeavingKeeps DEF Outside

-----------------------------------------------------------------------------
(* The steps of a start or a resume.                                       *)

LEMMA Driver ==
  ASSUME AuthorityInv, NEW p \in Processes, Driving(p)
  PROVE  /\ Drivers # {} /\ approval # "none" /\ run \in {"AUTHORIZED", "IMPLEMENTING"}
         /\ mem[p] \in Memory /\ mem[p].grant <= Len(grants) /\ Knows(p)
BY DEF AuthorityInv, Knows, KnowsRun, TypeOK, Drivers, Driving

LEMMA StartsKeeps == ASSUME AuthorityInv, NEW p \in Processes, Starts(p) PROVE AuthorityInv'
<1>1. PICK s \in {"revalidating", "beginning"} : Goto(p, s)
  BY DEF Starts
<1> DEFINE m == [Fresh EXCEPT !.view = policy]
<1>2. /\ pc[p] = "idle" /\ Drivers = {} /\ run \in {"AUTHORIZED", "IMPLEMENTING"}
      /\ mem' = [mem EXCEPT ![p] = m]
      /\ UNCHANGED <<world, rows, marker, history, run, stage, ledger>>
  BY DEF Starts, record
<1>3. m \in Memory /\ m.grant <= Len(grants)
  <2>1. policy \in {"planned", "changed"} /\ Len(grants) \in Nat
    BY DEF AuthorityInv, TypeOK
  <2>2. Fresh.grant = 0
    BY DEF Fresh
  <2>3. m \in Memory /\ m.grant = Fresh.grant
    BY <2>1, FreshTyped DEF Memory
  <2>4. QED
    BY <2>1, <2>2, <2>3
<1>4. TypeOK /\ s \in Steps
  BY DEF AuthorityInv, Steps
<1>5. pc'[p] = s /\ approval' = approval /\ approval # "none"
  BY <1>1, <1>2, <1>4 DEF TypeOK, Goto, rows, AuthorityInv, RecordsAgree
<1> HIDE DEF m
<1>6. Knows(p)'
  BY <1>2, <1>5 DEF Knows, KnowsRun, KnowsGrant, KnowsDoubt, Driving, Begun, InSession
<1>7. QED
  BY <1>1, <1>2, <1>3, <1>4, <1>5, <1>6, DrivingKeeps, RecordTyped

LEMMA RevalidatesKeeps == ASSUME AuthorityInv, NEW p \in Processes, Revalidates(p) PROVE AuthorityInv'
<1>1. pc[p] = "revalidating" /\ UNCHANGED <<world, rows, marker, history, run, stage, ledger>> /\ Driving(p)
  BY DEF Revalidates, record, Driving
<1>2. CASE ApprovalValid(p)
  <2> DEFINE m == [mem[p] EXCEPT !.armed = TRUE]
  <2>1. Goto(p, "beginning") /\ mem' = [mem EXCEPT ![p].armed = TRUE]
    BY <1>2 DEF Revalidates
  <2>2. m \in Memory /\ m.grant <= Len(grants)
    BY <1>1, Driver DEF Memory
  <2>3. mem' = [mem EXCEPT ![p] = m]
    BY <2>1
  <2>4. pc'[p] = "beginning" /\ approval' = approval
    BY <1>1, <2>1 DEF AuthorityInv, TypeOK, Goto, rows
  <2> HIDE DEF m
  <2>5. Knows(p)'
    BY <1>1, <2>4, Driver DEF Knows, KnowsRun, KnowsGrant, KnowsDoubt, Driving, Begun, InSession
  <2>6. QED
    BY <1>1, <2>1, <2>2, <2>3, <2>5, Driver, DrivingKeeps, RecordTyped DEF Steps
<1>3. CASE ~ApprovalValid(p)
  <2>1. Goto(p, "idle") /\ Forgets(p) /\ faults' = faults /\ orphans' = orphans
    BY <1>3 DEF Revalidates, history
  <2>2. QED
    BY <1>1, <2>1, RecordTyped, LeavingKeeps DEF Outside
<1>4. QED
  BY <1>2, <1>3

LEMMA BeginsKeeps == ASSUME AuthorityInv, NEW p \in Processes, Begins(p) PROVE AuthorityInv'
<1>1. pc[p] = "beginning" /\ UNCHANGED <<world, rows, marker, history, stage, ledger>> /\ Driving(p)
  BY DEF Begins, Driving
<1>2. CASE run = "AUTHORIZED" /\ mem[p].view # "planned"
  <2>1. Goto(p, "idle") /\ Forgets(p) /\ run' = "AWAITING" /\ faults' = faults /\ orphans' = orphans
    BY <1>2 DEF Begins, Ends, history
  <2>2. QED
    BY <1>1, <1>2, <2>1, RecordTyped, LeavingKeeps DEF Outside
<1>3. CASE ~(run = "AUTHORIZED" /\ mem[p].view # "planned")
  <2>0. PICK new \in BOOLEAN : new = (run = "AUTHORIZED")
    OBVIOUS
  <2>1. PICK s \in {"granting", "gating"}, b \in BOOLEAN :
          /\ Goto(p, s) /\ (s = "gating" /\ ~b => ~Approved(p))
          /\ mem' = [mem EXCEPT ![p].first = new, ![p].deadline = now + Duration - ledger, ![p].live = b]
    <3>1. PICK step \in {"granting", "gating"} :
            /\ Goto(p, step)
            /\ mem' = [mem EXCEPT ![p].first = (run = "AUTHORIZED"), ![p].deadline = now + Duration - ledger,
                                  ![p].live = (step = "gating" /\ Approved(p))]
      BY <1>3 DEF Begins
    <3>2. PICK b \in BOOLEAN : b = (step = "gating" /\ Approved(p))
      OBVIOUS
    <3>3. QED
      BY <2>0, <3>1, <3>2
  <2> DEFINE m == [mem[p] EXCEPT !.first = new, !.deadline = now + Duration - ledger, !.live = b]
  <2>2. run' = "IMPLEMENTING"
    BY <1>3 DEF Begins
  <2>3. now \in Int /\ ledger \in Int /\ ledger >= 0 /\ now + Duration - ledger \in Int
    BY RecordTyped, LifetimeAssumption DEF AuthorityInv, TypeOK
  <2>4. /\ m \in Memory /\ m.grant <= Len(grants) /\ m.deadline <= now + Duration /\ m.first = new
        /\ m.live = b /\ m.view = mem[p].view
    <3>1. mem[p] \in Memory /\ mem[p].grant <= Len(grants)
      BY <1>1, Driver
    <3>2. /\ m \in Memory /\ m.grant = mem[p].grant /\ m.deadline = now + Duration - ledger /\ m.first = new
          /\ m.live = b /\ m.view = mem[p].view
      BY <2>3, <3>1 DEF Memory
    <3>3. QED
      BY <2>3, <3>1, <3>2, LifetimeAssumption
  <2>5. mem' = [mem EXCEPT ![p] = m]
    BY <2>1
  <2>6. pc'[p] = s /\ approval' = approval /\ now' = now /\ marker' = marker /\ mem'[p] = m
    BY <1>1, <2>1, <2>5 DEF AuthorityInv, TypeOK, Goto, rows, world
  <2> HIDE DEF m
  <2>7. run = "AUTHORIZED" => marker.grant = 0
    BY RecordTyped
  <2>8. KnowsRun(p)'
    BY <1>1, <2>2, <2>4, <2>6, Driver DEF KnowsRun
  <2>9. KnowsGrant(p)' /\ KnowsDoubt(p)'
    <3>1. KnowsGrant(p)'
      BY <2>0, <2>4, <2>6, <2>7 DEF KnowsGrant, InSession
    <3>2. Approved(p)' = Approved(p)
      BY <2>4, <2>6 DEF Approved, ApprovalLive, Expired
    <3>3. QED
      BY <2>1, <2>4, <2>6, <3>1, <3>2 DEF KnowsDoubt
  <2>10. s \in Steps
    BY DEF Steps
  <2>11. QED
    BY <1>1, <2>1, <2>2, <2>4, <2>5, <2>8, <2>9, <2>10, Driver, DrivingKeeps, RecordTyped DEF Knows
<1>4. QED
  BY <1>2, <1>3

-----------------------------------------------------------------------------
(* The writer capability: what is decided on follows what was marked.      *)

\* What the memory and the step of a process say before and after a walk.
LEMMA Walks ==
  ASSUME AuthorityInv, NEW p \in Processes, NEW s \in Steps, Goto(p, s),
         UNCHANGED <<mem, world, rows, marker>>
  PROVE  /\ pc'[p] = s /\ mem'[p] = mem[p] /\ now' = now /\ approval' = approval
         /\ grants' = grants /\ marker' = marker
         /\ Approved(p)' = Approved(p)
         /\ \A g : GrantLive(g)' = GrantLive(g)
BY DEF AuthorityInv, TypeOK, Goto, world, rows, Approved, ApprovalLive, GrantLive, Expired, Never

\* A walk of the run's process into a step that asks for no knowledge of its own.
Unasking == {"proving", "issuing", "marking", "checking", "approved", "granted", "permitted",
             "gating", "gated", "committing"}

LEMMA WalkKnows ==
  ASSUME AuthorityInv, NEW p \in Processes, NEW s \in Steps \ (Outside \cup Unasking), Goto(p, s), Begun(p),
         UNCHANGED <<mem, world, rows, run, marker>>,
         s \in InSession => pc[p] \in InSession \cup {"marking"}
  PROVE  Knows(p)'
<1>1. /\ pc'[p] = s /\ mem'[p] = mem[p] /\ now' = now /\ approval' = approval
      /\ grants' = grants /\ marker' = marker /\ run' = run /\ Knows(p)
  BY Walks DEF AuthorityInv
<1>2. KnowsRun(p)'
  BY <1>1 DEF Knows, KnowsRun, Begun, Driving
<1>3. KnowsGrant(p)'
  BY <1>1 DEF Knows, KnowsGrant, Begun, Driving, Covers, Lasts, Never, InSession, Unasking
<1>4. KnowsDoubt(p)'
  BY <1>1 DEF KnowsDoubt, Unasking
<1>5. QED
  BY <1>2, <1>3, <1>4 DEF Knows

LEMMA GrantTyped ==
  ASSUME AuthorityInv, NEW g \in DOMAIN grants
  PROVE  grants[g] \in Grant /\ grants[g].expires \in Int /\ grants[g].revoked \in Nat /\ grants[g].decided \in Nat
<1>1. grants \in Seq(Grant)
  BY DEF AuthorityInv, TypeOK
<1>2. grants[g] \in Grant
  BY <1>1
<1>3. QED
  BY <1>2 DEF Grant

\* What bounds a new grant.
LEMMA ExpiryFits ==
  ASSUME AuthorityInv, NEW p \in Processes, Begun(p)
  PROVE  GrantExpiry \in Int /\ GrantExpiry <= ApprovalExpiry /\ Lasts(GrantExpiry, p)
<1>1. mem[p].deadline <= now + Duration /\ mem[p] \in Memory /\ now \in 0..MaxTime
  BY DEF AuthorityInv, Knows, KnowsRun, TypeOK
<1>2. mem[p].deadline \in Int /\ now \in Int
  BY <1>1, LifetimeAssumption DEF Memory
<1>3. QED
  BY <1>1, <1>2, LifetimeAssumption DEF GrantExpiry, Lasts

\* A grant that is not renewed covers the run, when it was looked at for that.
LEMMA KeptGrantCovers ==
  ASSUME AuthorityInv, NEW p \in Processes, Begun(p), marker.grant # 0,
         ~RenewsGrant(p), mem[p].first \/ mem[p].armed
  PROVE  Covers(marker.grant, p)
<1>1. CASE mem[p].first
  BY <1>1 DEF AuthorityInv, Knows, KnowsGrant
<1>2. CASE mem[p].armed
  <2>1. marker.grant \in DOMAIN grants
    BY DEF AuthorityInv, TypeOK
  <2> DEFINE expires == grants[marker.grant].expires
  <2>2. expires \in Int /\ expires <= ApprovalExpiry
    BY <2>1, GrantTyped DEF AuthorityInv, GrantsAreApproved
  <2>3. mem[p].deadline <= now + Duration /\ mem[p] \in Memory /\ now \in 0..MaxTime
    BY DEF AuthorityInv, Knows, KnowsRun, TypeOK
  <2>4. mem[p].deadline \in Int /\ now \in Int
    BY <2>3, LifetimeAssumption DEF Memory
  <2>5. grants[marker.grant].revoked # Never \/ expires - now >= Remaining(p) \/ GrantExpiry <= expires
    BY <1>2, <2>2, <2>4, LifetimeAssumption DEF RenewsGrant, GrantExpiry, Remaining
  <2>6. expires - now >= Remaining(p) => expires >= mem[p].deadline
    BY <2>2, <2>4 DEF Remaining
  <2>7. GrantExpiry <= expires => expires >= mem[p].deadline \/ expires = ApprovalExpiry
    BY <2>2, <2>3, <2>4, LifetimeAssumption DEF GrantExpiry
  <2>8. QED
    BY <2>5, <2>6, <2>7 DEF Covers, Lasts
<1>3. QED
  BY <1>1, <1>2

LEMMA DecidesKeeps == ASSUME AuthorityInv, NEW p \in Processes, Decides(p) PROVE AuthorityInv'
<1>1. /\ pc[p] = "granting" /\ Driving(p) /\ Begun(p)
      /\ UNCHANGED <<world, rows, marker, history, run, stage, ledger>>
  BY DEF Decides, record, Driving, Begun
<1>2. /\ mem[p] \in Memory /\ mem[p].grant <= Len(grants) /\ marker.grant \in 0..Len(grants) /\ Len(grants) \in Nat
      /\ now \in Nat /\ TypeOK
  BY LifetimeAssumption DEF AuthorityInv, TypeOK
<1>3. /\ now' = now /\ approval' = approval /\ grants' = grants /\ marker' = marker /\ run' = run
  BY <1>1 DEF rows, world
<1>4. Knows(p)
  BY DEF AuthorityInv
<1>5. CASE marker.grant # 0 /\ ~RenewsGrant(p)
  <2> DEFINE m == [mem[p] EXCEPT !.grant = marker.grant]
  <2>1. Goto(p, "executing") /\ mem' = [mem EXCEPT ![p].grant = marker.grant]
    BY <1>5 DEF Decides
  <2>2. m \in Memory /\ m.grant = marker.grant /\ m.first = mem[p].first /\ m.armed = mem[p].armed
        /\ m.deadline = mem[p].deadline
    BY <1>2 DEF Memory
  <2>3. mem' = [mem EXCEPT ![p] = m]
    BY <2>1
  <2>4. pc'[p] = "executing" /\ mem'[p] = m
    BY <1>2, <2>1, <2>3 DEF TypeOK, Goto
  <2> HIDE DEF m
  <2>5. mem[p].first \/ mem[p].armed => Covers(marker.grant, p)
    BY <1>1, <1>5, KeptGrantCovers
  <2>6. KnowsRun(p)'
    BY <1>1, <1>3, <1>4, <2>2, <2>4 DEF Knows, KnowsRun, Begun, Driving
  <2>7. KnowsGrant(p)'
    BY <1>3, <1>5, <2>2, <2>4, <2>5 DEF KnowsGrant, InSession, Covers, Lasts, Never
  <2>8. KnowsDoubt(p)'
    BY <2>4 DEF KnowsDoubt
  <2>9. Knows(p)' /\ m.grant <= Len(grants) /\ "executing" \in Steps
    BY <1>2, <2>2, <2>6, <2>7, <2>8 DEF Knows, Steps
  <2>10. run \in {"AUTHORIZED", "IMPLEMENTING"} /\ approval # "none" /\ (run = "AUTHORIZED" => marker.grant = 0)
    BY <1>1, Driver, RecordTyped
  <2>11. QED
    BY <1>1, <2>1, <2>2, <2>3, <2>9, <2>10, DrivingKeeps, RecordTyped
<1>6. CASE ~(marker.grant # 0 /\ ~RenewsGrant(p))
  <2> DEFINE m == [mem[p] EXCEPT !.decided = now, !.expires = GrantExpiry]
  <2>1. Goto(p, "proving") /\ mem' = [mem EXCEPT ![p].decided = now, ![p].expires = GrantExpiry]
    BY <1>6 DEF Decides
  <2>2. GrantExpiry \in Int /\ GrantExpiry <= ApprovalExpiry /\ Lasts(GrantExpiry, p)
    BY <1>1, ExpiryFits
  <2>3. /\ m \in Memory /\ m.grant = mem[p].grant /\ m.first = mem[p].first /\ m.armed = mem[p].armed
        /\ m.deadline = mem[p].deadline /\ m.decided = now /\ m.expires = GrantExpiry
    BY <1>2, <2>2 DEF Memory
  <2>4. mem' = [mem EXCEPT ![p] = m]
    BY <2>1
  <2>5. pc'[p] = "proving" /\ mem'[p] = m
    BY <1>2, <2>1, <2>4 DEF TypeOK, Goto
  <2> HIDE DEF m
  <2>6. Follows(GrantExpiry, now)
    BY <1>2, <1>6, LifetimeAssumption DEF RenewsGrant, Follows, Never, AuthorityInv, TypeOK
  <2>7. KnowsRun(p)'
    BY <1>1, <1>3, <1>4, <2>3, <2>5 DEF Knows, KnowsRun, Begun, Driving
  <2>8. KnowsGrant(p)'
    <3>1. marker.grant # 0 /\ mem[p].first => Covers(marker.grant, p)
      BY <1>1, <1>4 DEF Knows, KnowsGrant
    <3>2. QED
      BY <1>2, <1>3, <2>2, <2>3, <2>5, <2>6, <3>1 DEF KnowsGrant, InSession, Covers, Lasts, Follows, Never
  <2>9. KnowsDoubt(p)'
    BY <2>5 DEF KnowsDoubt
  <2>10. QED
    BY <1>1, <1>2, <2>1, <2>3, <2>4, <2>7, <2>8, <2>9, Driver, DrivingKeeps, RecordTyped DEF Knows, Steps
<1>7. QED
  BY <1>5, <1>6

LEMMA ProvesKeeps == ASSUME AuthorityInv, NEW p \in Processes, Proves(p) PROVE AuthorityInv'
<1>1. pc[p] = "proving" /\ UNCHANGED <<world, rows, marker, history, stage, ledger>> /\ Driving(p) /\ Begun(p)
  BY DEF Proves, Driving, Begun
<1>2. CASE ApprovalValid(p)
  <2>1. Goto(p, "issuing") /\ UNCHANGED <<run, mem>> /\ "issuing" \in Steps
    BY <1>2 DEF Proves, Proceeds, Steps
  <2>2. /\ pc'[p] = "issuing" /\ mem'[p] = mem[p] /\ now' = now /\ approval' = approval
        /\ grants' = grants /\ marker' = marker /\ run' = run /\ Knows(p)
    BY <1>1, <2>1, Walks DEF AuthorityInv
  <2>3. KnowsRun(p)'
    BY <1>1, <2>2 DEF Knows, KnowsRun, Begun, Driving
  <2>4. KnowsGrant(p)'
    BY <1>1, <2>2 DEF Knows, KnowsGrant, Begun, Driving, Covers, Lasts, Follows, Never, InSession
  <2>5. KnowsDoubt(p)'
    BY <2>2 DEF KnowsDoubt
  <2>6. QED
    BY <1>1, <2>1, <2>3, <2>4, <2>5, WalkingKeeps, RecordTyped DEF Knows
<1>3. CASE ~ApprovalValid(p)
  BY <1>1, <1>3, EndingKeeps DEF Proves, Proceeds
<1>4. QED
  BY <1>2, <1>3

\* While one process drives the run, no other one knows of its grants.
LEMMA OthersAreOutside ==
  ASSUME AuthorityInv, NEW p \in Processes, Driving(p), Alone(p), approval' # "none"
  PROVE  \A q \in Processes \ {p} : Knows(q)' /\ ~Driving(q)'
<1> SUFFICES ASSUME NEW q \in Processes \ {p} PROVE Knows(q)' /\ ~Driving(q)'
  OBVIOUS
<1>1. ~Driving(q) /\ pc'[q] = pc[q]
  BY DEF AuthorityInv, OneDrives, Alone
<1>2. QED
  BY <1>1 DEF Knows, KnowsRun, KnowsGrant, KnowsDoubt, Driving, Begun, InSession

LEMMA LongerSeq ==
  ASSUME NEW n \in Nat, NEW k \in Nat, n <= k, NEW seq \in Seq(1..n)
  PROVE  seq \in Seq(1..k)
OBVIOUS

LEMMA Appended ==
  ASSUME NEW S, NEW seq \in Seq(S), NEW e \in S
  PROVE  /\ Append(seq, e) \in Seq(S)
         /\ Len(Append(seq, e)) = Len(seq) + 1
         /\ DOMAIN Append(seq, e) = 1..(Len(seq) + 1)
         /\ DOMAIN seq = 1..Len(seq)
         /\ Len(seq) \in Nat
         /\ \A i \in 1..Len(seq) : Append(seq, e)[i] = seq[i]
         /\ Append(seq, e)[Len(seq) + 1] = e
OBVIOUS

LEMMA ChainTyped ==
  ASSUME AuthorityInv
  PROVE  Chain \in Seq(1..Len(grants)) /\ Len(grants) \in Nat
<1>1. marker.replaced \in Seq(1..Len(grants)) /\ marker.grant \in 0..Len(grants) /\ Len(grants) \in Nat
  BY DEF AuthorityInv, TypeOK
<1>2. CASE marker.grant = 0
  BY <1>1, <1>2 DEF Chain
<1>3. CASE marker.grant # 0
  BY <1>1, <1>3 DEF Chain
<1>4. QED
  BY <1>1, <1>2, <1>3

LEMMA IssuesKeeps == ASSUME AuthorityInv, NEW p \in Processes, Issues(p) PROVE AuthorityInv'
<1>1. /\ pc[p] = "issuing" /\ UNCHANGED <<world, approval, marker, history, stage, ledger>>
      /\ Driving(p) /\ Begun(p)
  BY DEF Issues, Driving, Begun
<1>2. CASE ~(ApprovalValid(p) /\ ~Expired(mem[p].expires))
  BY <1>1, <1>2, EndingKeeps DEF Issues, rows
<1>3. CASE ApprovalValid(p) /\ ~Expired(mem[p].expires)
  <2>2. TypeOK /\ mem[p] \in Memory /\ grants \in Seq(Grant) /\ Len(grants) \in Nat
    BY DEF AuthorityInv, TypeOK
  <2> DEFINE row == [expires |-> mem[p].expires, revoked |-> Never, view |-> mem[p].view, decided |-> mem[p].decided]
  <2>0. row \in Grant /\ row.view = "planned" /\ row.expires = mem[p].expires /\ row.decided = mem[p].decided
        /\ row.revoked = Never
    BY <1>3, <2>2, LifetimeAssumption DEF Memory, Grant, Never, ApprovalValid
  <2>3. PICK new \in Grant : new = row /\ new.view = "planned" /\ new.expires = mem[p].expires
                             /\ new.decided = mem[p].decided /\ new.revoked = Never
    BY <2>0
  <2>21. PICK n \in Nat : n = Len(grants) + 1
    BY <2>2
  <2>22. PICK zero \in Nat : zero = 0
    OBVIOUS
  <2>23. PICK m : m = [mem[p] EXCEPT !.grant = n, !.decided = zero, !.expires = zero]
    OBVIOUS
  <2>1. /\ grants' = Append(grants, new) /\ Goto(p, "marking") /\ UNCHANGED run
        /\ mem' = [mem EXCEPT ![p].grant = n, ![p].decided = zero, ![p].expires = zero]
    BY <1>3, <2>3, <2>21, <2>22 DEF Issues
  <2>4. m \in Memory /\ m.grant = n /\ m.first = mem[p].first /\ m.armed = mem[p].armed
        /\ m.deadline = mem[p].deadline
    <3>1. zero \in Int /\ mem[p] \in Memory
      BY <2>2
    <3>2. [mem[p] EXCEPT !.grant = n] \in Memory
      BY <3>1 DEF Memory
    <3>3. [[mem[p] EXCEPT !.grant = n] EXCEPT !.decided = zero] \in Memory
      BY <3>2 DEF Memory
    <3>4. [[[mem[p] EXCEPT !.grant = n] EXCEPT !.decided = zero] EXCEPT !.expires = zero] \in Memory
      BY <3>1, <3>3 DEF Memory
    <3>5. m = [[[mem[p] EXCEPT !.grant = n] EXCEPT !.decided = zero] EXCEPT !.expires = zero]
      BY <2>23, <3>1 DEF Memory
    <3>6. m.grant = n /\ m.first = mem[p].first /\ m.armed = mem[p].armed /\ m.deadline = mem[p].deadline
      BY <2>23, <3>1 DEF Memory
    <3>7. QED
      BY <3>4, <3>5, <3>6
  <2>5. mem' = [mem EXCEPT ![p] = m]
    BY <2>1, <2>23
  <2>6. /\ Alone(p) /\ pc'[p] = "marking" /\ mem'[p] = m
        /\ pc' \in [Processes -> Steps] /\ mem' \in [Processes -> Memory]
    BY <2>1, <2>2, <2>4, <2>5, MovesWith DEF Steps
  <2> HIDE DEF row
  <2>7. /\ grants' \in Seq(Grant) /\ Len(grants') = n
        /\ DOMAIN grants = 1..Len(grants) /\ DOMAIN grants' = 1..n
        /\ \A g \in 1..Len(grants) : grants'[g] = grants[g]
        /\ grants'[n] = new
    BY <2>1, <2>2, <2>21, <2>3, Appended
  <2>8. /\ now' = now /\ policy' = policy /\ approval' = approval /\ marker' = marker /\ run' = run
        /\ stage' = stage /\ ledger' = ledger /\ faults' = faults /\ orphans' = orphans
    BY <1>1, <2>1 DEF world, history
  <2>9. TypeOK'
    <3>1. ASSUME NEW q \in Processes PROVE mem'[q].grant <= Len(grants')
      <4>1. CASE q = p
        BY <2>2, <2>21, <2>4, <2>6, <2>7, <4>1
      <4>2. CASE q # p
        <5>1. mem'[q] = mem[q] /\ mem[q].grant \in Nat /\ mem[q].grant <= Len(grants)
          BY <2>2, <2>21, <2>6, <4>2 DEF Alone, TypeOK, Memory
        <5>2. QED
          BY <2>2, <2>21, <2>7, <5>1
      <4>3. QED
        BY <4>1, <4>2
    <3>2. marker.replaced \in Seq(1..Len(grants'))
      BY <2>2, <2>21, <2>7, LongerSeq DEF TypeOK
    <3>3. orphans' \subseteq 1..Len(grants') /\ marker.grant \in 0..Len(grants')
      BY <2>2, <2>21, <2>7, <2>8 DEF TypeOK
    <3>4. QED
      BY <2>2, <2>21, <2>6, <2>7, <2>8, <3>1, <3>2, <3>3 DEF TypeOK
  <2>10. /\ mem[p].decided <= now /\ mem[p].expires <= ApprovalExpiry /\ Lasts(mem[p].expires, p)
         /\ Follows(mem[p].expires, mem[p].decided) /\ approval # "none" /\ Knows(p)
    BY <1>1 DEF AuthorityInv, Knows, KnowsRun, KnowsGrant
  <2>11. RecordsAgree'
    <3>1. ASSUME NEW g \in 1..n
          PROVE /\ grants'[g].decided <= now
                /\ grants'[g].revoked = Never \/ grants'[g].revoked <= now
      <4>1. CASE g = n
        BY <2>3, <2>7, <2>10, <4>1
      <4>2. CASE g # n
        BY <2>2, <2>21, <2>7, <4>2 DEF AuthorityInv, RecordsAgree
      <4>3. QED
        BY <4>1, <4>2
    <3>2. QED
      BY <2>7, <2>8, <3>1 DEF AuthorityInv, RecordsAgree, Never
  <2>12. GrantsAreApproved'
    <3>1. ASSUME NEW g \in 1..n PROVE grants'[g].view = "planned" /\ grants'[g].expires <= ApprovalExpiry
      <4>1. CASE g = n
        BY <2>3, <2>7, <2>10, <4>1
      <4>2. CASE g # n
        BY <2>2, <2>21, <2>7, <4>2 DEF AuthorityInv, GrantsAreApproved
      <4>3. QED
        BY <4>1, <4>2
    <3>2. QED
      BY <2>7, <2>8, <2>10, <3>1 DEF GrantsAreApproved
  <2>13. MarkerNamesGrants'
    <3>1. Chain' = Chain
      BY <2>8 DEF Chain
    <3>2. ASSUME NEW g \in DOMAIN grants'
          PROVE g \in ToSet(Chain) \cup orphans' \/ \E q \in Processes : pc'[q] = "marking" /\ mem'[q].grant = g
      <4>1. CASE g = n
        BY <2>4, <2>6, <4>1
      <4>2. CASE g # n
        <5>1. g \in DOMAIN grants
          BY <2>2, <2>21, <2>7, <3>2, <4>2
        <5>2. \A q \in Processes : pc[q] = "marking" => Driving(q)
          BY DEF Driving
        <5>3. \A q \in Processes : pc[q] # "marking"
          BY <1>1, <5>2 DEF AuthorityInv, OneDrives
        <5>4. QED
          BY <2>8, <5>1, <5>3 DEF AuthorityInv, MarkerNamesGrants
      <4>3. QED
        BY <4>1, <4>2
    <3>3. QED
      BY <3>1, <3>2 DEF MarkerNamesGrants
  <2>14. RevocationsStick'
    <3>1. Chain' = Chain
      BY <2>8 DEF Chain
    <3>2. \A i \in DOMAIN Chain : grants'[Chain[i]] = grants[Chain[i]]
      BY <2>7, ChainTyped
    <3>3. \A i \in DOMAIN Chain : i > 1 => i - 1 \in DOMAIN Chain
      BY ChainTyped
    <3>4. QED
      BY <3>1, <3>2, <3>3 DEF AuthorityInv, RevocationsStick
  <2>15. \A q \in Processes \ {p} : Knows(q)' /\ ~Driving(q)'
    BY <1>1, <2>6, <2>8, <2>10, OthersAreOutside
  <2>16. KnowsRun(p)'
    BY <1>1, <2>4, <2>6, <2>8, <2>10 DEF Knows, KnowsRun, Begun, Driving
  <2>17. KnowsGrant(p)'
    <3>1. marker.grant # 0 => marker.grant \in 1..Len(grants)
      BY <2>2 DEF TypeOK
    <3>2. marker.grant # 0 => grants'[marker.grant] = grants[marker.grant]
      BY <2>7, <3>1
    <3>3. marker.grant # 0 /\ mem[p].first => Covers(marker.grant, p)
      BY <1>1, <2>10 DEF Knows, KnowsGrant
    <3>4. marker.grant # 0 /\ mem[p].first => Covers(marker.grant, p)'
      BY <2>4, <2>6, <2>8, <3>2, <3>3 DEF Covers, Lasts, Never
    <3>5. Follows(new.expires, new.decided)'
      BY <2>3, <2>8, <2>10, <3>2 DEF Follows
    <3>6. Covers(n, p)'
      BY <2>3, <2>4, <2>6, <2>7, <2>10 DEF Covers, Lasts
    <3>7. mem'[p].grant = n /\ mem'[p].grant # 0 /\ grants'[mem'[p].grant] = new
      BY <2>2, <2>21, <2>4, <2>6, <2>7
    <3>8. Covers(mem[p].grant, p)' /\ Follows(grants[mem[p].grant].expires, grants[mem[p].grant].decided)'
      BY <3>5, <3>6, <3>7 DEF Covers, Follows
    <3>9. QED
      BY <2>4, <2>6, <2>8, <3>4, <3>7, <3>8 DEF KnowsGrant
  <2>18. KnowsDoubt(p)'
    BY <2>6 DEF KnowsDoubt
  <2>19. OneDrives'
    BY <2>15 DEF OneDrives
  <2>20. QED
    BY <2>9, <2>11, <2>12, <2>13, <2>14, <2>15, <2>16, <2>17, <2>18, <2>19 DEF AuthorityInv, Knows
<1>4. QED
  BY <1>2, <1>3

\* The marked grant ends the chain that the marker names.
LEMMA MarksExtends ==
  ASSUME AuthorityInv, NEW p \in Processes, Marks(p)
  PROVE  /\ marker'.grant = mem[p].grant /\ marker'.replaced = Chain
         /\ Chain' = Append(Chain, mem[p].grant)
         /\ mem[p].grant \in 1..Len(grants)
<1>1. /\ mem[p].grant # 0 /\ mem[p].grant \in Nat /\ mem[p].grant <= Len(grants) /\ Len(grants) \in Nat
  BY DEF Marks, AuthorityInv, Knows, KnowsGrant, TypeOK, Memory
<1>2. marker'.grant = mem[p].grant
      /\ marker'.replaced = IF marker.grant = 0 THEN <<>> ELSE Append(marker.replaced, marker.grant)
  BY DEF Marks
<1>3. QED
  BY <1>1, <1>2 DEF Chain

LEMMA MarksKeeps == ASSUME AuthorityInv, NEW p \in Processes, Marks(p) PROVE AuthorityInv'
<1>1. /\ pc[p] = "marking" /\ Driving(p) /\ Begun(p) /\ Goto(p, "executing")
      /\ UNCHANGED <<world, rows, run, stage, ledger, mem, history>>
  BY DEF Marks, Driving, Begun
<1>2. PICK g \in 1..Len(grants) : g = mem[p].grant
  BY MarksExtends
<1>3. /\ marker'.grant = g /\ marker'.replaced = Chain /\ Chain' = Append(Chain, g)
  BY <1>2, MarksExtends
<1>4. TypeOK /\ Chain \in Seq(1..Len(grants)) /\ Len(grants) \in Nat /\ Knows(p) /\ "executing" \in Steps
  BY ChainTyped DEF AuthorityInv, Steps
<1>5. /\ Alone(p) /\ pc'[p] = "executing" /\ mem'[p] = mem[p] /\ pc' \in [Processes -> Steps]
  BY <1>1, <1>4, Moves
<1>6. /\ now' = now /\ policy' = policy /\ approval' = approval /\ grants' = grants /\ run' = run /\ mem' = mem
      /\ stage' = stage /\ ledger' = ledger /\ faults' = faults /\ orphans' = orphans
  BY <1>1 DEF world, rows, history
<1>7. /\ Append(Chain, g) \in Seq(1..Len(grants)) /\ DOMAIN Chain' = 1..(Len(Chain) + 1) /\ Len(Chain) \in Nat
      /\ DOMAIN Chain = 1..Len(Chain)
      /\ \A i \in 1..Len(Chain) : Chain'[i] = Chain[i]
      /\ Chain'[Len(Chain) + 1] = g
  BY <1>3, <1>4, Appended
<1>8. TypeOK'
  BY <1>3, <1>4, <1>5, <1>6 DEF TypeOK
<1>9. /\ approval # "none" /\ run = "IMPLEMENTING" /\ Follows(grants[g].expires, grants[g].decided)
      /\ mem[p].first \/ mem[p].armed => Covers(g, p)
  BY <1>1, <1>2, <1>4 DEF Knows, KnowsRun, KnowsGrant
<1>10. RecordsAgree' /\ GrantsAreApproved'
  BY <1>6, <1>9 DEF AuthorityInv, RecordsAgree, GrantsAreApproved, Never
<1>11. MarkerNamesGrants'
  <2>1. \A q \in Processes : pc[q] = "marking" => q = p
    BY <1>1 DEF AuthorityInv, OneDrives, Driving
  <2>2. ToSet(Chain) \subseteq ToSet(Chain)' /\ g \in ToSet(Chain)'
    BY <1>7 DEF ToSet
  <2>3. \A h \in DOMAIN grants : h \in ToSet(Chain) \cup orphans \/ h = g
    BY <1>2, <2>1 DEF AuthorityInv, MarkerNamesGrants
  <2>4. QED
    BY <1>6, <2>2, <2>3 DEF MarkerNamesGrants
<1>12. RevocationsStick'
  <2>1. ASSUME NEW i \in 1..(Len(Chain) + 1), i > 1
        PROVE /\ grants[Chain'[i - 1]].expires < grants[Chain'[i]].expires
              /\ grants[Chain'[i - 1]].revoked >= grants[Chain'[i]].decided
    <3>1. CASE i = Len(Chain) + 1
      <4>1. marker.grant # 0
        BY <1>7, <2>1, <3>1 DEF Chain
      <4>2. Chain'[i - 1] = marker.grant
        <5>1. Chain = Append(marker.replaced, marker.grant) /\ marker.replaced \in Seq(1..Len(grants))
          BY <1>4, <4>1 DEF Chain, TypeOK
        <5>2. Chain[Len(Chain)] = marker.grant
          BY <5>1
        <5>3. QED
          BY <1>7, <2>1, <3>1, <5>2
      <4>3. QED
        BY <1>7, <1>9, <3>1, <4>1, <4>2 DEF Follows
    <3>2. CASE i # Len(Chain) + 1
      <4>1. i \in DOMAIN Chain /\ i - 1 \in DOMAIN Chain
        BY <1>7, <2>1, <3>2
      <4>2. Chain'[i] = Chain[i] /\ Chain'[i - 1] = Chain[i - 1]
        BY <1>7, <4>1
      <4>3. QED
        BY <2>1, <4>1, <4>2 DEF AuthorityInv, RevocationsStick
    <3>3. QED
      BY <3>1, <3>2
  <2>2. QED
    BY <1>6, <1>7, <2>1 DEF RevocationsStick
<1>13. \A q \in Processes \ {p} : Knows(q)' /\ ~Driving(q)'
  BY <1>1, <1>5, <1>6, <1>9, OthersAreOutside
<1>14. Knows(p)'
  <2>1. KnowsRun(p)'
    BY <1>1, <1>4, <1>5, <1>6 DEF Knows, KnowsRun, Begun, Driving
  <2>2. Covers(g, p)' = Covers(g, p)
    BY <1>5, <1>6 DEF Covers, Lasts, Never
  <2>3. KnowsGrant(p)'
    BY <1>2, <1>3, <1>5, <1>9, <2>2 DEF KnowsGrant
  <2>4. KnowsDoubt(p)'
    BY <1>5 DEF KnowsDoubt
  <2>5. QED
    BY <2>1, <2>3, <2>4 DEF Knows
<1>15. OneDrives'
  BY <1>13 DEF OneDrives
<1>16. QED
  BY <1>8, <1>10, <1>11, <1>12, <1>13, <1>14, <1>15 DEF AuthorityInv

-----------------------------------------------------------------------------
(* An attempt.                                                             *)

LEMMA ExecutesKeeps == ASSUME AuthorityInv, NEW p \in Processes, Executes(p) PROVE AuthorityInv'
<1>1. pc[p] = "executing" /\ UNCHANGED <<world, rows, marker, history, stage, ledger>> /\ Driving(p) /\ Begun(p)
  BY DEF Executes, Driving, Begun
<1>2. CASE ApprovalValid(p)
  <2>1. Goto(p, "opening") /\ UNCHANGED <<run, mem>>
    BY <1>2 DEF Executes, Proceeds
  <2>2. "opening" \in Steps \ (Outside \cup Unasking) /\ pc[p] \in InSession
    BY <1>1 DEF Steps, Outside, Unasking, InSession
  <2>3. QED
    BY <1>1, <2>1, <2>2, WalkKnows, WalkingKeeps, RecordTyped
<1>3. CASE ~ApprovalValid(p)
  BY <1>1, <1>3, EndingKeeps DEF Executes, Proceeds
<1>4. QED
  BY <1>2, <1>3

LEMMA OpensKeeps == ASSUME AuthorityInv, NEW p \in Processes, Opens(p) PROVE AuthorityInv'
<1>1. /\ pc[p] = "opening" /\ Goto(p, "driving") /\ stage' = "running" /\ Driving(p) /\ Begun(p)
      /\ UNCHANGED <<world, rows, run, marker, ledger, mem, history>>
  BY DEF Opens, Driving, Begun
<1>2. "driving" \in Steps \ (Outside \cup Unasking) /\ pc[p] \in InSession
  BY <1>1 DEF Steps, Outside, Unasking, InSession
<1>3. QED
  BY <1>1, <1>2, WalkKnows, WalkingKeeps, RecordTyped

LEMMA SessionFailsKeeps == ASSUME AuthorityInv, NEW p \in Processes, SessionFails(p) PROVE AuthorityInv'
<1>1. Driving(p) /\ pc[p] # "marking" /\ Ends(p, "FAILED") /\ UNCHANGED <<world, rows, marker, stage, ledger, history>>
  BY DEF SessionFails, Driving
<1>2. QED
  BY <1>1, EndingKeeps

LEMMA CommitsKeeps == ASSUME AuthorityInv, NEW p \in Processes, Commits(p) PROVE AuthorityInv'
<1>1. Driving(p) /\ pc[p] # "marking" /\ Ends(p, "COMMITTED") /\ UNCHANGED <<world, rows, marker, stage, ledger, history>>
  BY DEF Commits, Driving
<1>2. QED
  BY <1>1, EndingKeeps

\* A step that settles whether a check began under authority.
LEMMA LiveKeeps ==
  ASSUME AuthorityInv, NEW p \in Processes, NEW b \in BOOLEAN,
         NEW s \in {"checking", "driving", "gating", "granting"},
         Goto(p, s), mem' = [mem EXCEPT ![p].live = b],
         Begun(p), pc[p] \in InSession \cup {"gated"}, s \in InSession => pc[p] \in InSession,
         UNCHANGED <<world, rows, run, marker, history>>,
         stage' \in {"none", "running", "suspended", "awaiting"}, ledger' \in Int, ledger' >= 0,
         s = "checking" /\ ~b => ~Approved(p) \/ ~GrantLive(mem[p].grant),
         s = "gating" /\ ~b => ~Approved(p)
  PROVE  AuthorityInv'
<1> DEFINE m == [mem[p] EXCEPT !.live = b]
<1>1. TypeOK /\ mem[p] \in Memory /\ mem[p].grant <= Len(grants) /\ s \in Steps /\ Driving(p) /\ pc[p] # "marking"
  BY DEF AuthorityInv, TypeOK, Steps, Begun, InSession
<1>2. /\ m \in Memory /\ m.grant = mem[p].grant /\ m.first = mem[p].first /\ m.armed = mem[p].armed
      /\ m.deadline = mem[p].deadline /\ m.view = mem[p].view /\ m.live = b
  BY <1>1 DEF Memory
<1>3. mem' = [mem EXCEPT ![p] = m]
  OBVIOUS
<1>4. pc'[p] = s /\ mem'[p] = m
  BY <1>1, <1>2, <1>3, MovesWith
<1> HIDE DEF m
<1>5. /\ now' = now /\ approval' = approval /\ grants' = grants /\ marker' = marker /\ run' = run
      /\ Knows(p)
  BY DEF world, rows, AuthorityInv
<1>6. KnowsRun(p)'
  BY <1>2, <1>4, <1>5 DEF Knows, KnowsRun, Begun, Driving
<1>7. KnowsGrant(p)'
  <2>1. \A g : Covers(g, p)' = Covers(g, p)
    BY <1>2, <1>4, <1>5 DEF Covers, Lasts, Never
  <2>2. Begun(p)' /\ (s \in InSession => pc[p] \in InSession)
    BY <1>4 DEF Begun, Driving, InSession
  <2>3. QED
    BY <1>2, <1>4, <1>5, <2>1, <2>2 DEF Knows, KnowsGrant, InSession
<1>8. KnowsDoubt(p)'
  <2>1. Approved(p)' = Approved(p) /\ GrantLive(mem[p].grant)' = GrantLive(mem[p].grant)
    BY <1>2, <1>4, <1>5 DEF Approved, ApprovalLive, GrantLive, Expired, Never
  <2>2. QED
    BY <1>2, <1>4, <2>1 DEF KnowsDoubt
<1>9. /\ run \in {"AUTHORIZED", "IMPLEMENTING"} /\ approval # "none"
      /\ run = "AUTHORIZED" => marker.grant = 0
  BY <1>1, Driver, RecordTyped
<1>10. QED
  BY <1>1, <1>2, <1>3, <1>5, <1>6, <1>7, <1>8, <1>9, DrivingKeeps, RecordTyped DEF Knows

LEMMA RequestsKeeps == ASSUME AuthorityInv, NEW p \in Processes, Requests(p) PROVE AuthorityInv'
<1>1. PICK b \in BOOLEAN : b = (Approved(p) /\ GrantLive(mem[p].grant))
  BY DEF Approved, ApprovalLive, GrantLive
<1>2. /\ Goto(p, "checking") /\ mem' = [mem EXCEPT ![p].live = b] /\ pc[p] = "driving"
      /\ UNCHANGED <<world, rows, record, history>>
  BY <1>1 DEF Requests
<1>3. Begun(p) /\ pc[p] \in InSession
  BY <1>2 DEF Begun, Driving, InSession
<1>4. ~b => ~Approved(p) \/ ~GrantLive(mem[p].grant)
  BY <1>1
<1>5. QED
  BY <1>2, <1>3, <1>4, RecordTyped, LiveKeeps DEF record

LEMMA EffectsKeeps == ASSUME AuthorityInv, NEW p \in Processes, Effects(p) PROVE AuthorityInv'
<1>1. /\ Goto(p, "driving") /\ mem' = [mem EXCEPT ![p].live = FALSE] /\ pc[p] = "permitted"
      /\ UNCHANGED <<world, rows, record, history>>
  BY DEF Effects
<1>2. Begun(p) /\ pc[p] \in InSession
  BY <1>1 DEF Begun, Driving, InSession
<1>3. QED
  BY <1>1, <1>2, RecordTyped, LiveKeeps DEF record

LEMMA CompletesKeeps == ASSUME AuthorityInv, NEW p \in Processes, Completes(p) PROVE AuthorityInv'
<1>1. PICK b \in BOOLEAN : b = Approved(p)
  BY DEF Approved, ApprovalLive
<1>2. /\ Goto(p, "gating") /\ mem' = [mem EXCEPT ![p].live = b] /\ pc[p] = "driving" /\ stage' = "awaiting"
      /\ UNCHANGED <<world, rows, run, marker, ledger, history>>
  BY <1>1 DEF Completes
<1>3. Begun(p) /\ pc[p] \in InSession /\ "gating" \notin InSession
  BY <1>2 DEF Begun, Driving, InSession
<1>4. QED
  BY <1>1, <1>2, <1>3, RecordTyped, LiveKeeps

LEMMA GatesFailKeeps == ASSUME AuthorityInv, NEW p \in Processes, GatesFail(p) PROVE AuthorityInv'
<1>1. pc[p] = "gated" /\ UNCHANGED <<world, rows, marker, history, stage>> /\ Driving(p) /\ Begun(p)
  BY DEF GatesFail, Driving, Begun
<1>2. CASE Expired(mem[p].deadline)
  BY <1>1, <1>2, EndingKeeps DEF GatesFail
<1>3. CASE ~Expired(mem[p].deadline)
  <2>1. Goto(p, "granting") /\ mem' = [mem EXCEPT ![p].live = FALSE] /\ run' = run /\ ledger' = Used(p)
    BY <1>3 DEF GatesFail
  <2>2. ledger' \in Int /\ ledger' >= 0
    BY <1>1, <2>1, TimeIsUsed
  <2>3. stage' \in {"none", "running", "suspended", "awaiting"} /\ "granting" \notin InSession
    BY <1>1, RecordTyped DEF InSession
  <2>4. QED
    BY <1>1, <2>1, <2>2, <2>3, LiveKeeps
<1>4. QED
  BY <1>2, <1>3

\* A passed verification of the approval carries the doubt on, or ends it.
LEMMA GateWalks ==
  ASSUME AuthorityInv, NEW p \in Processes, pc[p] \in {"gating", "gated"}, ApprovalValid(p),
         NEW s \in {"gated", "committing"}, Goto(p, s),
         UNCHANGED <<mem, world, rows, run, marker, stage, ledger, history>>
  PROVE  AuthorityInv'
<1>1. Driving(p) /\ Begun(p) /\ pc[p] # "marking" /\ s \in Steps
  BY DEF Driving, Begun, Steps
<1>2. /\ pc'[p] = s /\ mem'[p] = mem[p] /\ now' = now /\ approval' = approval
      /\ grants' = grants /\ marker' = marker /\ run' = run /\ Approved(p)' = Approved(p) /\ Knows(p)
  BY <1>1, Walks DEF AuthorityInv
<1>3. Approved(p) /\ mem[p].live
  BY <1>2 DEF ApprovalValid, Approved, Knows, KnowsDoubt
<1>4. KnowsRun(p)'
  BY <1>1, <1>2 DEF Knows, KnowsRun, Begun, Driving
<1>5. KnowsGrant(p)'
  <2>1. \A g : Covers(g, p)' = Covers(g, p)
    BY <1>2 DEF Covers, Lasts, Never
  <2>2. QED
    BY <1>1, <1>2, <2>1 DEF Knows, KnowsGrant, InSession
<1>6. KnowsDoubt(p)'
  BY <1>2, <1>3 DEF KnowsDoubt
<1>7. QED
  BY <1>1, <1>4, <1>5, <1>6, WalkingKeeps, RecordTyped DEF Knows

LEMMA GatesKeeps == ASSUME AuthorityInv, NEW p \in Processes, Gates(p) PROVE AuthorityInv'
<1>1. pc[p] = "gating" /\ UNCHANGED <<world, rows, marker, history, stage, ledger>> /\ Driving(p)
  BY DEF Gates, Driving
<1>2. CASE ApprovalValid(p)
  BY <1>1, <1>2, GateWalks DEF Gates
<1>3. CASE ~ApprovalValid(p)
  BY <1>1, <1>3, EndingKeeps DEF Gates
<1>4. QED
  BY <1>2, <1>3

LEMMA GatesPassKeeps == ASSUME AuthorityInv, NEW p \in Processes, GatesPass(p) PROVE AuthorityInv'
<1>1. pc[p] = "gated" /\ UNCHANGED <<world, rows, marker, history, stage, ledger>> /\ Driving(p)
  BY DEF GatesPass, Driving
<1>2. CASE ApprovalValid(p)
  BY <1>1, <1>2, GateWalks DEF GatesPass
<1>3. CASE ~ApprovalValid(p)
  BY <1>1, <1>3, EndingKeeps DEF GatesPass
<1>4. QED
  BY <1>2, <1>3

\* One reading of a check: what passes it is still as doubtful as it must be.
LEMMA ChecksKeep ==
  ASSUME AuthorityInv, NEW p \in Processes, NEW from \in {"checking", "approved", "granted"},
         NEW to \in {"approved", "granted", "permitted"}, NEW condition \in BOOLEAN,
         Checks(p, from, condition, to),
         condition /\ to = "approved" /\ ~mem[p].live => ~Approved(p) \/ ~GrantLive(mem[p].grant),
         condition /\ to = "granted" /\ ~mem[p].live => ~Approved(p),
         condition /\ to = "permitted" => mem[p].live
  PROVE  AuthorityInv'
<1>1. pc[p] = from /\ Begun(p) /\ Driving(p) /\ pc[p] \in InSession /\ UNCHANGED <<world, rows, record, history>>
  BY DEF Checks, Begun, Driving, InSession
<1>2. CASE condition
  <2>1. Goto(p, to) /\ UNCHANGED mem /\ to \in Steps
    BY <1>2 DEF Checks, Steps
  <2>2. /\ pc'[p] = to /\ mem'[p] = mem[p] /\ now' = now /\ approval' = approval
        /\ grants' = grants /\ marker' = marker /\ run' = run /\ stage' = stage /\ ledger' = ledger /\ Knows(p)
        /\ Approved(p)' = Approved(p) /\ \A g : GrantLive(g)' = GrantLive(g)
    <3>1. UNCHANGED <<mem, world, rows, marker>>
      BY <1>1, <2>1 DEF record
    <3>2. QED
      BY <1>1, <2>1, <3>1, Walks DEF AuthorityInv, record
  <2>3. KnowsRun(p)'
    BY <1>1, <2>2 DEF Knows, KnowsRun, Begun, Driving
  <2>4. KnowsGrant(p)'
    BY <1>1, <2>2 DEF Knows, KnowsGrant, Begun, Driving, Covers, Lasts, Never, InSession
  <2>5. KnowsDoubt(p)'
    <3>1. GrantLive(mem[p].grant)' = GrantLive(mem[p].grant)
      BY <2>2 DEF GrantLive, Never, Expired
    <3>2. QED
      BY <1>2, <2>2, <3>1 DEF KnowsDoubt
  <2>6. UNCHANGED <<world, rows, run, marker, history>> /\ pc[p] # "marking"
    BY <1>1, <2>2
  <2>7. QED
    BY <1>1, <2>1, <2>2, <2>3, <2>4, <2>5, <2>6, WalkingKeeps, RecordTyped DEF Knows
<1>3. CASE ~condition
  <2>1. Goto(p, "driving") /\ mem' = [mem EXCEPT ![p].live = FALSE]
    BY <1>3 DEF Checks
  <2>2. QED
    BY <1>1, <2>1, RecordTyped, LiveKeeps DEF record
<1>4. QED
  BY <1>2, <1>3

LEMMA ChecksApprovalKeeps == ASSUME AuthorityInv, NEW p \in Processes, ChecksApproval(p) PROVE AuthorityInv'
<1>1. PICK b \in BOOLEAN : b = ApprovalValid(p)
  BY DEF ApprovalValid, ApprovalLive
<1>2. Checks(p, "checking", b, "approved")
  BY <1>1 DEF ChecksApproval
<1>3. ~mem[p].live => ~Approved(p) \/ ~GrantLive(mem[p].grant)
  BY <1>2 DEF Checks, AuthorityInv, Knows, KnowsDoubt
<1>4. QED
  BY <1>2, <1>3, ChecksKeep

LEMMA ChecksGrantKeeps == ASSUME AuthorityInv, NEW p \in Processes, ChecksGrant(p) PROVE AuthorityInv'
<1>1. PICK b \in BOOLEAN : b = GrantUsable(mem[p].grant)
  BY DEF GrantUsable
<1>2. Checks(p, "approved", b, "granted")
  BY <1>1 DEF ChecksGrant
<1>3. ~mem[p].live => ~Approved(p) \/ ~GrantLive(mem[p].grant)
  BY <1>2 DEF Checks, AuthorityInv, Knows, KnowsDoubt
<1>4. b => GrantLive(mem[p].grant)
  BY <1>1 DEF GrantUsable, GrantLive
<1>5. QED
  BY <1>2, <1>3, <1>4, ChecksKeep

LEMMA ChecksBindingKeeps == ASSUME AuthorityInv, NEW p \in Processes, ChecksBinding(p) PROVE AuthorityInv'
<1>1. PICK b \in BOOLEAN : b = (ApprovalValid(p) /\ grants[mem[p].grant].view = mem[p].view)
  BY DEF ApprovalValid, ApprovalLive
<1>2. Checks(p, "granted", b, "permitted")
  BY <1>1 DEF ChecksBinding
<1>3. ~mem[p].live => ~Approved(p)
  BY <1>2 DEF Checks, AuthorityInv, Knows, KnowsDoubt
<1>4. b => Approved(p)
  BY <1>1 DEF ApprovalValid, Approved
<1>5. mem[p].live \in BOOLEAN
  BY DEF AuthorityInv, TypeOK, Memory
<1>6. QED
  BY <1>2, <1>3, <1>4, <1>5, ChecksKeep

-----------------------------------------------------------------------------
(* Time, revocations and the policy: what holds of the rows can only end.  *)

Fades ==
  /\ now' >= now
  /\ approval # "none" => approval' # "none"
  /\ approval' = "valid" => approval = "valid"
  /\ DOMAIN grants' = DOMAIN grants
  /\ \A g \in DOMAIN grants :
       /\ grants'[g].expires = grants[g].expires /\ grants'[g].view = grants[g].view
       /\ grants'[g].decided = grants[g].decided
       /\ grants'[g].revoked = grants[g].revoked \/ grants'[g].revoked = now

LEMMA FadingKeeps ==
  ASSUME AuthorityInv, TypeOK', Fades, UNCHANGED <<record, pc, mem, orphans>>
  PROVE  AuthorityInv'
<1>1. /\ run' = run /\ marker' = marker /\ stage' = stage /\ ledger' = ledger /\ pc' = pc /\ mem' = mem
      /\ orphans' = orphans /\ Chain' = Chain
  BY DEF record, Chain
<1>2. /\ now \in Nat /\ now' \in Nat /\ now < Never /\ now' < Never /\ now <= now' /\ Never \in Nat /\ Never' = Never
  BY LifetimeAssumption DEF AuthorityInv, TypeOK, Never, Fades
<1>3. \A g \in DOMAIN grants :
        /\ grants[g].expires \in Int /\ grants[g].revoked \in Nat /\ grants[g].decided \in Nat
        /\ grants[g].decided <= now /\ (grants[g].revoked = Never \/ grants[g].revoked <= now)
  BY GrantTyped DEF AuthorityInv, RecordsAgree
<1>4. RecordsAgree'
  BY <1>1, <1>2, <1>3 DEF AuthorityInv, RecordsAgree, Fades
<1>5. GrantsAreApproved'
  BY <1>1 DEF AuthorityInv, GrantsAreApproved, Fades
<1>6. MarkerNamesGrants'
  BY <1>1 DEF AuthorityInv, MarkerNamesGrants, Fades
<1>7. RevocationsStick'
  <2>1. \A i \in DOMAIN Chain : Chain[i] \in DOMAIN grants /\ (i > 1 => i - 1 \in DOMAIN Chain)
    BY ChainTyped
  <2>2. ASSUME NEW i \in DOMAIN Chain, i > 1
        PROVE /\ grants'[Chain[i - 1]].expires < grants'[Chain[i]].expires
              /\ grants'[Chain[i - 1]].revoked >= grants'[Chain[i]].decided
    <3>1. PICK a \in DOMAIN grants, b \in DOMAIN grants : a = Chain[i - 1] /\ b = Chain[i]
      BY <2>1, <2>2
    <3>2. grants[a].expires < grants[b].expires /\ grants[a].revoked >= grants[b].decided
      BY <2>2, <3>1 DEF AuthorityInv, RevocationsStick
    <3>3. QED
      BY <1>3, <3>1, <3>2 DEF Fades
  <2>3. QED
    BY <1>1, <2>2 DEF RevocationsStick
<1>8. OneDrives'
  BY <1>1 DEF AuthorityInv, OneDrives, Driving
<1>9. ASSUME NEW p \in Processes PROVE Knows(p)'
  <2>1. Knows(p) /\ mem[p] \in Memory /\ mem[p].grant <= Len(grants) /\ Len(grants) \in Nat
    BY DEF AuthorityInv, TypeOK
  <2>2. KnowsRun(p)'
    <3>1. mem[p].deadline \in Int
      BY <2>1 DEF Memory
    <3>2. QED
      BY <1>1, <1>2, <2>1, <3>1, LifetimeAssumption DEF Knows, KnowsRun, Begun, Driving, Fades
  <2> DEFINE Covering(g) == \/ grants'[g].revoked # Never
                            \/ grants'[g].expires >= mem[p].deadline
                            \/ grants'[g].expires = ApprovalExpiry
  <2>3. ASSUME NEW g \in DOMAIN grants, Covers(g, p) PROVE Covering(g)
    BY <1>2, <1>3, <2>3 DEF Covers, Lasts, Fades
  <2>4. ASSUME NEW e, NEW d \in Nat, d <= now, Follows(e, d)
        PROVE marker.grant # 0 => grants'[marker.grant].expires < e /\ grants'[marker.grant].revoked >= d
    <3>1. marker.grant # 0 => marker.grant \in DOMAIN grants
      BY DEF AuthorityInv, TypeOK
    <3>2. QED
      BY <1>2, <1>3, <2>4, <3>1 DEF Follows, Fades
  <2>5. KnowsGrant(p)'
    <3>1. pc[p] \in InSession \cup {"marking"} => mem[p].grant \in DOMAIN grants
      BY <2>1 DEF Knows, KnowsGrant, Memory, AuthorityInv, TypeOK
    <3>2. marker.grant # 0 => marker.grant \in DOMAIN grants
      BY DEF AuthorityInv, TypeOK
    <3>3. Begun(p)' = Begun(p)
      BY <1>1 DEF Begun, Driving
    <3>4. Begun(p) /\ mem[p].first /\ marker.grant # 0 => Covering(marker.grant)
      <4>1. Begun(p) /\ mem[p].first /\ marker.grant # 0 => Covers(marker.grant, p)
        BY <2>1 DEF Knows, KnowsGrant
      <4> HIDE DEF Covering
      <4>2. QED
        BY <2>3, <3>2, <4>1
    <3>5. ASSUME pc[p] \in {"proving", "issuing"}
          PROVE /\ mem[p].decided <= now' /\ mem[p].expires <= ApprovalExpiry
                /\ Lasts(mem[p].expires, p)' /\ Follows(mem[p].expires, mem[p].decided)'
      <4>1. /\ mem[p].decided <= now /\ mem[p].expires <= ApprovalExpiry /\ mem[p].decided \in Nat
            /\ Lasts(mem[p].expires, p) /\ Follows(mem[p].expires, mem[p].decided)
        BY <2>1, <3>5 DEF Knows, KnowsGrant, Memory
      <4>2. QED
        BY <1>1, <1>2, <2>4, <4>1 DEF Lasts, Follows
    <3>6. ASSUME pc[p] = "marking"
          PROVE  Follows(grants[mem[p].grant].expires, grants[mem[p].grant].decided)'
      <4>1. PICK g \in DOMAIN grants : g = mem[p].grant
        BY <3>1, <3>6
      <4>2. Follows(grants[g].expires, grants[g].decided)
        BY <2>1, <3>6, <4>1 DEF Knows, KnowsGrant
      <4>3. marker.grant # 0 => grants'[marker.grant].expires < grants[g].expires
                                 /\ grants'[marker.grant].revoked >= grants[g].decided
        BY <1>3, <2>4, <4>2
      <4>4. QED
        BY <1>1, <4>1, <4>3 DEF Follows, Fades
    <3>7. ASSUME pc[p] \in InSession \cup {"marking"}
          PROVE mem[p].grant # 0 /\ (mem[p].first \/ mem[p].armed => Covering(mem[p].grant))
      <4>1. mem[p].grant # 0 /\ (mem[p].first \/ mem[p].armed => Covers(mem[p].grant, p))
        BY <2>1, <3>7 DEF Knows, KnowsGrant
      <4> HIDE DEF Covering
      <4>2. QED
        BY <2>3, <3>1, <3>7, <4>1
    <3>8. QED
      BY <1>1, <1>2, <3>3, <3>4, <3>5, <3>6, <3>7 DEF KnowsGrant, InSession, Covers, Lasts
  <2>6. KnowsDoubt(p)'
    <3>1. Approved(p)' => Approved(p)
      BY <1>1, <1>2, LifetimeAssumption DEF Approved, ApprovalLive, Expired, Fades
    <3>2. ASSUME NEW g \in DOMAIN grants, grants'[g].revoked = Never, ~(grants'[g].expires <= now')
          PROVE  GrantLive(g)
      BY <1>2, <1>3, <3>2 DEF GrantLive, Expired, Fades
    <3>3. pc[p] \in {"checking", "approved"} => mem[p].grant \in DOMAIN grants
      BY <2>1 DEF Knows, KnowsGrant, InSession, Memory, AuthorityInv, TypeOK
    <3>4. pc[p] \in {"checking", "approved"} /\ GrantLive(mem[p].grant)' => GrantLive(mem[p].grant)
      BY <1>1, <1>2, <3>2, <3>3 DEF GrantLive, Expired
    <3>5. QED
      BY <1>1, <2>1, <3>1, <3>4 DEF Knows, KnowsDoubt
  <2>7. QED
    BY <2>2, <2>5, <2>6 DEF Knows
<1>10. QED
  BY <1>4, <1>5, <1>6, <1>7, <1>8, <1>9 DEF AuthorityInv

LEMMA TickKeeps == ASSUME AuthorityInv, Tick PROVE AuthorityInv'
<1>1. now < MaxTime /\ now' = now + 1 /\ UNCHANGED <<policy, approval, grants, record, pc, mem, faults, orphans>>
  BY DEF Tick, rows, history
<1>2. now' \in 0..MaxTime /\ now' >= now
  BY <1>1, LifetimeAssumption DEF AuthorityInv, TypeOK
<1>3. TypeOK'
  BY <1>1, <1>2 DEF AuthorityInv, TypeOK, record
<1>4. Fades
  BY <1>1, <1>2 DEF Fades
<1>5. QED
  BY <1>1, <1>3, <1>4, FadingKeeps

LEMMA FaultTyped == ASSUME AuthorityInv, Fault PROVE faults' \in 0..MaxFaults
BY LifetimeAssumption DEF Fault, AuthorityInv, TypeOK

LEMMA PolicyChangesKeeps == ASSUME AuthorityInv, PolicyChanges PROVE AuthorityInv'
<1>1. policy' \in {"planned", "changed"} /\ UNCHANGED <<now, approval, grants, record, pc, mem, orphans>>
  BY DEF PolicyChanges, rows
<1>2. faults' \in 0..MaxFaults /\ now \in Nat
  BY FaultTyped, LifetimeAssumption DEF PolicyChanges, AuthorityInv, TypeOK
<1>3. TypeOK'
  BY <1>1, <1>2 DEF AuthorityInv, TypeOK, record
<1>4. Fades
  BY <1>1, <1>2 DEF Fades
<1>5. QED
  BY <1>1, <1>3, <1>4, FadingKeeps

LEMMA RevokeApprovalKeeps == ASSUME AuthorityInv, RevokeApproval PROVE AuthorityInv'
<1>1. approval' = "revoked" /\ UNCHANGED <<now, policy, grants, record, pc, mem, orphans>>
  BY DEF RevokeApproval, world
<1>2. faults' \in 0..MaxFaults /\ now \in Nat
  BY FaultTyped, LifetimeAssumption DEF RevokeApproval, AuthorityInv, TypeOK
<1>3. TypeOK'
  BY <1>1, <1>2 DEF AuthorityInv, TypeOK, record
<1>4. Fades
  BY <1>1, <1>2 DEF Fades
<1>5. QED
  BY <1>1, <1>3, <1>4, FadingKeeps

LEMMA RevokeGrantKeeps == ASSUME AuthorityInv, NEW g \in DOMAIN grants, RevokeGrant(g) PROVE AuthorityInv'
<1>1. grants' = [grants EXCEPT ![g].revoked = now] /\ UNCHANGED <<now, policy, approval, record, pc, mem, orphans>>
  BY DEF RevokeGrant, world
<1>2. faults' \in 0..MaxFaults /\ now \in Nat /\ grants \in Seq(Grant)
  BY FaultTyped, LifetimeAssumption DEF RevokeGrant, AuthorityInv, TypeOK
<1> DEFINE row == [grants[g] EXCEPT !.revoked = now]
<1>3. /\ row \in Grant /\ row.revoked = now /\ row.expires = grants[g].expires
      /\ row.view = grants[g].view /\ row.decided = grants[g].decided
  BY <1>2, GrantTyped DEF Grant
<1>4. grants' = [grants EXCEPT ![g] = row]
  BY <1>1
<1> HIDE DEF row
<1>5. /\ grants' \in Seq(Grant) /\ Len(grants') = Len(grants) /\ DOMAIN grants' = DOMAIN grants
      /\ \A h \in DOMAIN grants : grants'[h] = IF h = g THEN row ELSE grants[h]
  BY <1>2, <1>3, <1>4
<1>6. TypeOK'
  BY <1>1, <1>2, <1>5 DEF AuthorityInv, TypeOK, record
<1>7. Fades
  BY <1>1, <1>2, <1>3, <1>5 DEF Fades
<1>8. QED
  BY <1>1, <1>6, <1>7, FadingKeeps

\* The first record of the approval: before it nobody knows of any grant.
LEMMA SealsKeeps == ASSUME AuthorityInv, NEW p \in Processes, Seals(p) PROVE AuthorityInv'
<1>1. pc[p] = "sealing" /\ UNCHANGED <<world, grants, record, mem, history>>
  BY DEF Seals
<1>2. CASE approval # "none"
  <2>1. Goto(p, "idle") /\ UNCHANGED <<rows, marker, run, stage, ledger, faults, orphans>>
    BY <1>1, <1>2 DEF Seals, rows, record, history
  <2>2. QED
    BY <1>1, <2>1, RecordTyped, LeavingKeeps DEF Outside
<1>3. CASE approval = "none"
  <2>1. approval' = "valid" /\ Goto(p, "recorded")
    BY <1>3 DEF Seals
  <2>2. /\ now' = now /\ policy' = policy /\ grants' = grants /\ marker' = marker /\ run' = run
        /\ stage' = stage /\ ledger' = ledger /\ mem' = mem /\ faults' = faults /\ orphans' = orphans
    BY <1>1 DEF world, record, history
  <2>3. TypeOK /\ "recorded" \in Steps
    BY DEF AuthorityInv, Steps
  <2>4. Alone(p) /\ pc'[p] = "recorded" /\ pc' \in [Processes -> Steps]
    BY <2>1, <2>2, <2>3, Moves
  <2>5. TypeOK'
    BY <2>1, <2>2, <2>3, <2>4 DEF TypeOK
  <2>6. RecordsAgree'
    BY <2>1, <2>2 DEF AuthorityInv, RecordsAgree, Never
  <2>7. GrantsAreApproved' /\ DOMAIN grants = {}
    BY <1>3, <2>1, <2>2 DEF AuthorityInv, GrantsAreApproved
  <2>8. MarkerNamesGrants'
    BY <2>2, <2>7 DEF MarkerNamesGrants
  <2>9. RevocationsStick'
    BY <2>2 DEF AuthorityInv, RevocationsStick, Chain
  <2>10. \A q \in Processes : ~Driving(q)'
    BY <1>1, <1>3, <2>4 DEF AuthorityInv, Knows, KnowsRun, Driving, Alone
  <2>11. \A q \in Processes : Knows(q)'
    BY <2>1, <2>10 DEF Knows, KnowsRun, KnowsGrant, KnowsDoubt, Driving, Begun, InSession
  <2>12. QED
    BY <2>5, <2>6, <2>7, <2>8, <2>9, <2>10, <2>11 DEF AuthorityInv, OneDrives
<1>4. QED
  BY <1>2, <1>3

-----------------------------------------------------------------------------
LEMMA InitAuthority == Init => AuthorityInv
<1> SUFFICES ASSUME Init PROVE AuthorityInv
  OBVIOUS
<1>1. grants = <<>> /\ Len(grants) = 0 /\ DOMAIN grants = {} /\ Chain = <<>> /\ marker.grant = 0 /\ marker.replaced = <<>>
  BY DEF Init, Chain
<1>2. TypeOK
  <2>1. mem \in [Processes -> Memory] /\ \A p \in Processes : mem[p].grant = 0
    <3>1. Fresh.grant = 0
      BY DEF Fresh
    <3>2. QED
      BY <3>1, FreshTyped DEF Init
  <2>2. QED
    BY <1>1, <2>1, LifetimeAssumption DEF Init, TypeOK, Steps
<1>3. RecordsAgree /\ GrantsAreApproved /\ MarkerNamesGrants /\ RevocationsStick
  BY <1>1 DEF Init, RecordsAgree, GrantsAreApproved, MarkerNamesGrants, RevocationsStick
<1>4. \A p \in Processes : pc[p] = "idle"
  BY DEF Init
<1>5. OneDrives /\ \A p \in Processes : Knows(p)
  BY <1>4, OutsiderKnows DEF OneDrives, Driving, Outside
<1>6. QED
  BY <1>2, <1>3, <1>5 DEF AuthorityInv

LEMMA StutterKeepsAuthority == ASSUME AuthorityInv, UNCHANGED vars PROVE AuthorityInv'
<1>1. UNCHANGED <<now, policy, approval, grants, record, pc, mem, faults, orphans>>
  BY DEF vars, world, rows, history
<1>2. TypeOK' /\ now \in Nat
  BY <1>1, LifetimeAssumption DEF AuthorityInv, TypeOK, record
<1>3. Fades
  BY <1>1, <1>2 DEF Fades
<1>4. QED
  BY <1>1, <1>2, <1>3, FadingKeeps

LEMMA NextKeepsAuthority == ASSUME AuthorityInv, [Next]_vars PROVE AuthorityInv'
<1>1. ASSUME NEW p \in Processes, Approves(p) PROVE AuthorityInv'
  BY <1>1, PresentsKeeps, LooksUpKeeps, SealsKeeps, AuthorizesKeeps DEF Approves
<1>2. ASSUME NEW p \in Processes, Drives(p) PROVE AuthorityInv'
  <2>1. CASE Starts(p) \/ Revalidates(p) \/ Begins(p)
    BY <2>1, StartsKeeps, RevalidatesKeeps, BeginsKeeps
  <2>2. CASE Decides(p) \/ Proves(p) \/ Issues(p) \/ Marks(p)
    BY <2>2, DecidesKeeps, ProvesKeeps, IssuesKeeps, MarksKeeps
  <2>3. CASE Executes(p) \/ Opens(p)
    BY <2>3, ExecutesKeeps, OpensKeeps
  <2>4. CASE Requests(p) \/ ChecksApproval(p) \/ ChecksGrant(p) \/ ChecksBinding(p) \/ Effects(p)
    BY <2>4, RequestsKeeps, ChecksApprovalKeeps, ChecksGrantKeeps, ChecksBindingKeeps, EffectsKeeps
  <2>5. CASE Completes(p) \/ SessionFails(p) \/ Gates(p) \/ GatesFail(p) \/ GatesPass(p) \/ Commits(p)
    BY <2>5, CompletesKeeps, SessionFailsKeeps, GatesKeeps, GatesFailKeeps, GatesPassKeeps, CommitsKeeps
  <2>6. QED
    BY <1>2, <2>1, <2>2, <2>3, <2>4, <2>5 DEF Drives
<1>3. ASSUME NEW p \in Processes, Suspends(p) \/ Die(p) PROVE AuthorityInv'
  BY <1>3, SuspendsKeeps, DieKeeps
<1>4. CASE Tick \/ PolicyChanges \/ RevokeApproval
  BY <1>4, TickKeeps, PolicyChangesKeeps, RevokeApprovalKeeps
<1>5. ASSUME NEW g \in DOMAIN grants, RevokeGrant(g) PROVE AuthorityInv'
  BY <1>5, RevokeGrantKeeps
<1>6. CASE UNCHANGED vars
  BY <1>6, StutterKeepsAuthority
<1>7. QED
  BY <1>1, <1>2, <1>3, <1>4, <1>5, <1>6 DEF Next, Revoke

LEMMA AuthorityInvHolds == Spec => []AuthorityInv
<1>1. AuthorityInv /\ [Next]_vars => AuthorityInv'
  BY NextKeepsAuthority
<1>2. QED
  BY InitAuthority, <1>1, PTL DEF Spec

\* Types hold for any number of processes and any lifetimes.
THEOREM AuthorityTyped == Spec => []TypeOK
<1>1. AuthorityInv => TypeOK
  BY DEF AuthorityInv
<1>2. QED
  BY AuthorityInvHolds, <1>1, PTL

\* No effect happens that was asked for without a live approval and a live
\* grant, and no commit whose gates were entered without a live approval,
\* under the policy the process read when it started, whatever is revoked or
\* lapses while it is checked (CapabilityBroker.invoke,
\* TaskGateCommitCoordinator.execute).
THEOREM EffectTheorem == Spec => []EffectsWereAuthorized
<1>1. AuthorityInv => EffectsWereAuthorized
  BY DEF AuthorityInv, Knows, KnowsDoubt, EffectsWereAuthorized
<1>2. QED
  BY AuthorityInvHolds, <1>1, PTL

\* The grants of a run are the marker's chain and the orphans of processes
\* that died before they marked theirs; each outlives the one it replaced, and
\* none replaces one that was revoked before it was decided on
\* (TaskRunComposition.#grant).
THEOREM ChainTheorem == Spec => []GrantsAreChained
<1>1. AuthorityInv => GrantsAreChained
  BY DEF AuthorityInv, GrantsAreChained
<1>2. QED
  BY AuthorityInvHolds, <1>1, PTL

\* Grants live within the approval they were issued under and, for a run that
\* was started or resumed from a suspension, as long as its time
\* (renewsGrant, grantExpiry).
THEOREM FitTheorem == Spec => []GrantsFitTheRun
<1>1. AuthorityInv => GrantsCoverTheRun
  BY DEF AuthorityInv, Knows, KnowsGrant, Covers, Lasts, GrantsCoverTheRun
<1>2. AuthorityInv => GrantsFitTheRun
  BY <1>1 DEF AuthorityInv, GrantsFitTheRun
<1>3. QED
  BY AuthorityInvHolds, <1>2, PTL

=============================================================================
