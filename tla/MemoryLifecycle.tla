--------------------------- MODULE MemoryLifecycle ---------------------------
(***************************************************************************)
(* The lifecycle of managed memory objects and of promoted memory          *)
(* (packages/memory/src/memory-lifecycle.ts): the rows of one SQLite       *)
(* database, the files of one object root, the keys of an external         *)
(* crypto-shred adapter and a canonical file in a Git owner's root.        *)
(*                                                                         *)
(* Each caller issues one call and repeats it until it is answered.  What  *)
(* a call does between two awaits is one step.  A step on the file system, *)
(* the database or the adapter may fail, and a caller may die between any  *)
(* two steps: both are faults, of which there are at most MaxFaults.       *)
(***************************************************************************)
EXTENDS Integers, Sequences, FiniteSetsExt, SequencesExt

CONSTANTS
  Objects,    \* managed objects of one Workspace: 1, 2, ... by age
  Callers,
  Scenes,     \* the objects' metadata and the callers' calls
  None,       \* no plan
  MaxFaults   \* bound: failures and deaths

Kinds == {"register", "refer", "hold", "collect", "invalidate", "forget", "promote"}

\* A call names an object, a second one (to refer to) and a quota.
Calls == [kind : Kinds, object : Objects, other : Objects, quota : Nat]

ASSUME ObjectsAssumption == Objects \subseteq Nat

ASSUME ScenesAssumption ==
  Scenes \subseteq [call : [Callers -> Calls],
                    stored : SUBSET Objects,    \* registered before
                    roots : SUBSET Objects,     \* canonical or required evidence
                    expired : SUBSET Objects,   \* whose retention ended
                    keyed : SUBSET Objects,     \* with an encryption key
                    flaky : BOOLEAN]            \* whether destroying a key may fail

ASSUME BoundAssumption == MaxFaults \in Nat

VARIABLES
  scene,       \* what is being played
  row,         \* object -> state of its row, or "none"
  reason,      \* object -> why its row is quarantined
  key,         \* objects whose row names an encryption key
  holds,       \* objects under a legal hold
  references,  \* pairs of objects
  receipts,    \* plans whose collection is recorded
  home,        \* objects whose bytes are at their path
  shelf,       \* objects whose bytes are in quarantine
  late,        \* objects whose bytes a registration wrote after their row
  destroyed,   \* objects whose key the adapter destroyed
  target,      \* content of the promotion's canonical path
  promoted,    \* whether the promotion is recorded
  pc,          \* what each caller does next
  mem,         \* each caller's memory
  faults,      \* failures and deaths so far
  torn         \* objects left between two places by a fault

rows == <<row, reason, key>>
graph == <<holds, references>>
files == <<home, shelf, late>>
promotion == <<target, promoted>>
control == <<scene, faults, torn>>
vars == <<rows, graph, receipts, files, destroyed, promotion, pc, mem, control>>

-----------------------------------------------------------------------------
Idle == [plan |-> None, queue |-> {}, moved |-> <<>>, guarded |-> {}]

Init ==
  /\ scene \in Scenes
  /\ row = [o \in Objects |-> IF o \in scene.stored THEN "active" ELSE "none"]
  /\ reason = [o \in Objects |-> "none"]
  /\ key = scene.stored \cap scene.keyed
  /\ holds = {}
  /\ references = {}
  /\ receipts = {}
  /\ home = scene.stored
  /\ shelf = {}
  /\ late = {}
  /\ destroyed = {}
  /\ target = "absent"
  /\ promoted = FALSE
  /\ pc = [c \in Callers |-> "idle"]
  /\ mem = [c \in Callers |-> Idle]
  /\ faults = 0
  /\ torn = {}

Call(c) == scene.call[c]

Object(c) == Call(c).object

Goto(c, step) == pc' = [pc EXCEPT ![c] = step]

\* A call of one of these kinds that has not begun, or begins again.
Begins(c, kinds) == pc[c] = "idle" /\ Call(c).kind \in kinds

Fault == faults < MaxFaults /\ faults' = faults + 1 /\ UNCHANGED scene

-----------------------------------------------------------------------------
(* Registration, references and holds *)

\* A row answers the call, or refuses it; without one the bytes are looked for.
Registers(c) ==
  /\ Begins(c, {"register"})
  /\ Goto(c, IF row[Object(c)] # "none" THEN "done" ELSE "looking")
  /\ UNCHANGED <<rows, graph, receipts, files, destroyed, promotion, mem, control>>

FindsBytes(c) ==
  /\ pc[c] = "looking"
  /\ Goto(c, IF Object(c) \in home THEN "filed" ELSE "writing")
  /\ UNCHANGED <<rows, graph, receipts, files, destroyed, promotion, mem, control>>

\* The bytes are written where there are none, whatever became of the object
\* since its row was looked for; a file that has appeared fails the call.
Writes(c) ==
  /\ pc[c] = "writing"
  /\ IF Object(c) \in home
     THEN Goto(c, "idle") /\ UNCHANGED <<home, late>>
     ELSE /\ Goto(c, "filed")
          /\ home' = home \cup {Object(c)}
          /\ late' = IF row[Object(c)] # "none" THEN late \cup {Object(c)} ELSE late
  /\ UNCHANGED <<rows, graph, receipts, shelf, destroyed, promotion, mem, control>>

Inserts(c) ==
  /\ pc[c] = "filed"
  /\ Goto(c, "done")
  /\ IF row[Object(c)] # "none"
     THEN UNCHANGED <<row, key>>
     ELSE /\ row' = [row EXCEPT ![Object(c)] = "active"]
          /\ key' = key \cup ({Object(c)} \cap scene.keyed)
  /\ UNCHANGED <<reason, graph, receipts, files, destroyed, promotion, mem, control>>

Refers(c) ==
  /\ Begins(c, {"refer"})
  /\ Goto(c, "done")
  /\ references' = IF row[Object(c)] = "none" \/ row[Call(c).other] = "none"
                   THEN references
                   ELSE references \cup {<<Object(c), Call(c).other>>}
  /\ UNCHANGED <<rows, holds, receipts, files, destroyed, promotion, mem, control>>

Holds(c) ==
  /\ Begins(c, {"hold"})
  /\ Goto(c, "done")
  /\ holds' = IF row[Object(c)] = "none" THEN holds ELSE holds \cup {Object(c)}
  /\ UNCHANGED <<rows, references, receipts, files, destroyed, promotion, mem, control>>

-----------------------------------------------------------------------------
(* Plans *)

Active == {o \in Objects : row[o] = "active"}

\* What the roots reach over the references.
Closed(S) == \A edge \in references : edge[1] \in S => edge[2] \in S

Protected ==
  LET roots == (Active \cap scene.roots) \cup holds
  IN  {o \in Objects : \A S \in SUBSET Objects : roots \subseteq S /\ Closed(S) => o \in S}

Expired == (Active \cap scene.expired) \ Protected

\* The oldest of the rest, until what remains fits the quota.
OverQuota(quota) ==
  LET eligible == Active \ (Protected \cup Expired)
      excess == Cardinality(Active \ Expired) - quota
  IN  {o \in eligible : Cardinality({older \in eligible : older < o}) < excess}

PlanFor(quota) == [quota |-> quota, expired |-> Expired, over |-> OverQuota(quota),
                   protected |-> Protected, held |-> holds]

Candidates(plan) == plan.expired \cup plan.over

Plans(c) ==
  /\ Begins(c, {"collect"})
  /\ Goto(c, "planned")
  /\ mem' = [mem EXCEPT ![c].plan = PlanFor(Call(c).quota)]
  /\ UNCHANGED <<rows, graph, receipts, files, destroyed, promotion, control>>

\* Mutant: a plan is applied however old it is.
AnyPlan(plan) == TRUE

IsCurrent(plan) == PlanFor(plan.quota) = plan

\* A recorded plan is answered from its receipt, a stale one is refused.
Applies(c) ==
  LET plan == mem[c].plan IN
  /\ pc[c] = "planned"
  /\ IF plan \in receipts \/ ~IsCurrent(plan)
     THEN Goto(c, "done") /\ UNCHANGED mem
     ELSE /\ Goto(c, "moving")
          /\ mem' = [mem EXCEPT ![c].queue = Candidates(plan), ![c].guarded = Protected]
  /\ UNCHANGED <<rows, graph, receipts, files, destroyed, promotion, control>>

-----------------------------------------------------------------------------
(* One object: invalidation and forgetting *)

\* Mutant: what is in quarantine counts as forgotten.
NotResumable(c) == FALSE

\* A forget that was cut short is finished by the next one.
Resumable(c) ==
  /\ Call(c).kind = "forget"
  /\ row[Object(c)] = "quarantined"
  /\ reason[Object(c)] = "forget"
  /\ Object(c) \in key

Takes(c) ==
  /\ Begins(c, {"invalidate", "forget"})
  /\ mem' = [mem EXCEPT ![c].queue = {Object(c)}, ![c].guarded = Protected]
  /\ IF row[Object(c)] = "active" /\ Object(c) \notin Protected
     THEN Goto(c, "moving")
     ELSE Goto(c, IF Resumable(c) THEN "resuming" ELSE "done")
  /\ UNCHANGED <<rows, graph, receipts, files, destroyed, promotion, control>>

\* The expired candidates come first, each kind by age.
NextCandidate(c) ==
  LET expired == IF mem[c].plan = None THEN {} ELSE mem[c].queue \cap mem[c].plan.expired
  IN  Min(IF expired # {} THEN expired ELSE mem[c].queue)

\* Mutant: of several objects moved, only the last is remembered.
RemembersLast(moved, object) == <<object>>

Remembers(moved, object) == Append(moved, object)

\* Mutant: an object without bytes counts as moved.
MovesLeniently(c) ==
  LET object == NextCandidate(c) IN
  /\ pc[c] = "moving"
  /\ mem[c].queue # {}
  /\ home' = home \ {object}
  /\ shelf' = shelf \cup {object}
  /\ mem' = [mem EXCEPT ![c].queue = @ \ {object}, ![c].moved = Append(@, object)]
  /\ UNCHANGED <<pc, rows, graph, receipts, late, destroyed, promotion, control>>

\* The next object's bytes go to quarantine; without bytes the call fails.
Moves(c) ==
  LET object == NextCandidate(c) IN
  /\ pc[c] = "moving"
  /\ mem[c].queue # {}
  /\ IF object \in home
     THEN /\ home' = home \ {object}
          /\ shelf' = shelf \cup {object}
          /\ mem' = [mem EXCEPT ![c].queue = @ \ {object}, ![c].moved = Remembers(@, object)]
          /\ UNCHANGED pc
     ELSE Goto(c, "restoring") /\ UNCHANGED <<home, shelf, mem>>
  /\ UNCHANGED <<rows, graph, receipts, late, destroyed, promotion, control>>

MoveFails(c) ==
  /\ pc[c] = "moving"
  /\ Fault
  /\ Goto(c, "restoring")
  /\ UNCHANGED <<rows, graph, receipts, files, destroyed, promotion, mem, torn>>

Quarantine(S, why) ==
  /\ row' = [o \in Objects |-> IF o \in S /\ row[o] = "active" THEN "quarantined" ELSE row[o]]
  /\ reason' = [o \in Objects |-> IF o \in S /\ row[o] = "active" THEN why ELSE reason[o]]

\* The rows follow the bytes.  A collection's receipt is one transaction with
\* them, and a plan has one receipt.
Marks(c) ==
  LET kind == Call(c).kind
      plan == mem[c].plan
  IN
  /\ pc[c] = "moving"
  /\ mem[c].queue = {}
  /\ IF kind = "collect" /\ plan \in receipts
     THEN Goto(c, "restoring") /\ UNCHANGED <<row, reason, receipts, mem>>
     ELSE /\ Quarantine(ToSet(mem[c].moved), kind)
          /\ receipts' = IF kind = "collect" THEN receipts \cup {plan} ELSE receipts
          /\ mem' = [mem EXCEPT ![c].moved = <<>>]
          /\ Goto(c, IF kind = "forget" /\ Object(c) \in key THEN "shredding" ELSE "done")
  /\ UNCHANGED <<key, graph, files, destroyed, promotion, control>>

\* What has moved goes back, the last object first.  A collection keeps its plan.
Restores(c) ==
  LET object == Last(mem[c].moved) IN
  /\ pc[c] = "restoring"
  /\ IF mem[c].moved = <<>>
     THEN /\ Goto(c, IF Call(c).kind = "collect" THEN "planned" ELSE "idle")
          /\ UNCHANGED <<home, shelf, mem>>
     ELSE /\ mem' = [mem EXCEPT ![c].moved = Front(@)]
          /\ IF object \in shelf \ home
             THEN home' = home \cup {object} /\ shelf' = shelf \ {object}
             ELSE UNCHANGED <<home, shelf>>
          /\ UNCHANGED pc
  /\ UNCHANGED <<rows, graph, receipts, late, destroyed, promotion, control>>

\* A failure to restore, and a death, leave what has moved where it is.
Loses(c) ==
  LET returning == IF pc[c] = "reinstating" THEN {Object(c)} ELSE {}
  IN  torn' = torn \cup ToSet(mem[c].moved) \cup returning

RestoreFails(c) ==
  /\ pc[c] = "restoring"
  /\ mem[c].moved # <<>>
  /\ Fault
  /\ Loses(c)
  /\ Goto(c, IF Call(c).kind = "collect" THEN "planned" ELSE "idle")
  /\ mem' = [mem EXCEPT ![c].moved = <<>>]
  /\ UNCHANGED <<rows, graph, receipts, files, destroyed, promotion>>

-----------------------------------------------------------------------------
(* The key of a forgotten object *)

Shreds(c) ==
  /\ pc[c] \in {"shredding", "resuming"}
  /\ Goto(c, "clearing")
  /\ destroyed' = destroyed \cup {Object(c)}
  /\ UNCHANGED <<rows, graph, receipts, files, promotion, mem, control>>

\* The first forget takes the object back; one that resumes leaves it.
ShredFails(c) ==
  /\ pc[c] \in {"shredding", "resuming"}
  /\ scene.flaky
  /\ Fault
  /\ IF pc[c] = "resuming"
     THEN Goto(c, "idle") /\ UNCHANGED <<row, reason>>
     ELSE /\ Goto(c, "reinstating")
          /\ row' = [row EXCEPT ![Object(c)] = "active"]
          /\ reason' = [reason EXCEPT ![Object(c)] = "none"]
  /\ UNCHANGED <<key, graph, receipts, files, destroyed, promotion, mem, torn>>

Reinstates(c) ==
  /\ pc[c] = "reinstating"
  /\ Goto(c, "idle")
  /\ IF Object(c) \in shelf
     THEN home' = home \cup {Object(c)} /\ shelf' = shelf \ {Object(c)}
     ELSE UNCHANGED <<home, shelf>>
  /\ UNCHANGED <<rows, graph, receipts, late, destroyed, promotion, mem, control>>

ReinstateFails(c) ==
  /\ pc[c] = "reinstating"
  /\ Fault
  /\ Loses(c)
  /\ Goto(c, "idle")
  /\ UNCHANGED <<rows, graph, receipts, files, destroyed, promotion, mem>>

Clears(c) ==
  /\ pc[c] = "clearing"
  /\ Goto(c, "done")
  /\ key' = IF row[Object(c)] = "quarantined" THEN key \ {Object(c)} ELSE key
  /\ UNCHANGED <<row, reason, graph, receipts, files, destroyed, promotion, mem, control>>

ClearFails(c) ==
  /\ pc[c] = "clearing"
  /\ Fault
  /\ Goto(c, "idle")
  /\ UNCHANGED <<rows, graph, receipts, files, destroyed, promotion, mem, torn>>

-----------------------------------------------------------------------------
(* Promotion of an artifact to its canonical path *)

\* A file with other content is a conflict; the artifact itself is recorded.
Inspects(c) ==
  /\ Begins(c, {"promote"})
  /\ Goto(c, CASE target = "absent" -> "staged" [] target = "ours" -> "published" [] target = "theirs" -> "done")
  /\ UNCHANGED <<rows, graph, receipts, files, destroyed, promotion, mem, control>>

\* The second look, before the rename.
InspectsAgain(c) ==
  /\ pc[c] = "staged"
  /\ Goto(c, IF target = "absent" THEN "publishing" ELSE "idle")
  /\ UNCHANGED <<rows, graph, receipts, files, destroyed, promotion, mem, control>>

\* The rename replaces whatever appeared since.
Publishes(c) ==
  /\ pc[c] = "publishing"
  /\ Goto(c, "published")
  /\ target' = "ours"
  /\ UNCHANGED <<rows, graph, receipts, files, destroyed, promoted, mem, control>>

Records(c) ==
  /\ pc[c] = "published"
  /\ Goto(c, "done")
  /\ promoted' = TRUE
  /\ UNCHANGED <<rows, graph, receipts, files, destroyed, target, mem, control>>

\* Somebody writes the canonical file by hand.
Edit ==
  /\ target # "theirs"
  /\ Fault
  /\ target' = "theirs"
  /\ UNCHANGED <<rows, graph, receipts, files, destroyed, promoted, pc, mem, torn>>

-----------------------------------------------------------------------------
Dies(c) ==
  /\ pc[c] \notin {"idle", "done"}
  /\ Fault
  /\ Loses(c)
  /\ Goto(c, IF mem[c].plan = None THEN "idle" ELSE "planned")
  /\ mem' = [mem EXCEPT ![c] = [Idle EXCEPT !.plan = mem[c].plan]]
  /\ UNCHANGED <<rows, graph, receipts, files, destroyed, promotion>>

Works(c) ==
  \/ Registers(c) \/ FindsBytes(c) \/ Writes(c) \/ Inserts(c) \/ Refers(c) \/ Holds(c)
  \/ Plans(c) \/ Applies(c) \/ Takes(c)
  \/ Moves(c) \/ Marks(c) \/ Restores(c)
  \/ Shreds(c) \/ Reinstates(c) \/ Clears(c)
  \/ Inspects(c) \/ InspectsAgain(c) \/ Publishes(c) \/ Records(c)

Fails(c) == MoveFails(c) \/ RestoreFails(c) \/ ShredFails(c) \/ ReinstateFails(c) \/ ClearFails(c) \/ Dies(c)

Next == (\E c \in Callers : Works(c) \/ Fails(c)) \/ Edit

Spec == Init /\ [][Next]_vars

FairSpec == Spec /\ \A c \in Callers : WF_vars(Works(c))

-----------------------------------------------------------------------------
Plan == [quota : Nat, expired : SUBSET Objects, over : SUBSET Objects,
         protected : SUBSET Objects, held : SUBSET Objects]

Steps == {"idle", "looking", "writing", "filed", "planned", "moving", "restoring", "resuming", "shredding",
          "clearing", "reinstating", "staged", "publishing", "published", "done"}

\* The type of the variables.
TypeOK ==
  /\ scene \in Scenes
  /\ row \in [Objects -> {"none", "active", "quarantined"}]
  /\ reason \in [Objects -> Kinds \cup {"none"}]
  /\ holds \subseteq Objects
  /\ references \subseteq Objects \X Objects
  /\ receipts \subseteq Plan
  /\ key \cup home \cup shelf \cup late \cup destroyed \cup torn \subseteq Objects
  /\ target \in {"absent", "ours", "theirs"}
  /\ promoted \in BOOLEAN
  /\ pc \in [Callers -> Steps]
  /\ mem \in [Callers -> [plan : Plan \cup {None}, queue : SUBSET Objects, moved : Seq(Objects),
                          guarded : SUBSET Objects]]
  /\ faults \in 0..MaxFaults

InHand(c) == ToSet(mem[c].moved) \cup (IF pc[c] = "reinstating" THEN {Object(c)} ELSE {})

\* The bytes of a registered object are never lost, and those of an active one
\* are at its path unless a call is moving them now or a fault stopped one that
\* did: whatever a collection, an invalidation or a forget has moved when it
\* fails goes back, whoever else works on the object.  They are in one place
\* only, in quarantine when the row says so, but for an object that a second
\* registration of the same content wrote late.
BytesFollowRows ==
  \A o \in Objects : row[o] # "none" =>
    /\ o \in home \cup shelf
    /\ row[o] = "active" /\ o \notin home => o \in torn \/ \E c \in Callers : o \in InHand(c)
    /\ o \notin late => o \notin home \cap shelf /\ (row[o] = "quarantined" => o \in shelf)

\* A row gives up its key only when the key is destroyed.
KeysFollowRows ==
  \A o \in Objects : o \in scene.keyed /\ row[o] # "none" /\ o \notin key => o \in destroyed

RowsAreTrue == BytesFollowRows /\ KeysFollowRows

\* A recorded collection quarantined every candidate of its plan, for good (but
\* for an object whose bytes a second registration wrote late).
ReceiptsAreTrue ==
  \A plan \in receipts : \A o \in Candidates(plan) \ late :
    row[o] = "quarantined" /\ reason[o] = "collect" /\ o \in shelf

\* An object whose key is destroyed stays forgotten: "pre-destruction failure
\* restores bytes and active metadata" (docs/qualification/t53-validation.md:58).
ForgottenStayForgotten == \A o \in destroyed : row[o] = "quarantined" /\ reason[o] = "forget"

\* Nothing protected when a call was allowed to begin is taken away by it: a
\* plan issued before a hold, a reference or a root is refused.
ProtectedObjectsStay ==
  [][\A c \in Callers, o \in shelf' \ shelf : mem'[c].moved # mem[c].moved => o \notin mem[c].guarded]_vars

\* What a call that was answered leaves behind.
Answered(c) ==
  /\ pc[c] = "done"
  /\ Call(c).kind = "forget" /\ reason[Object(c)] = "forget" => Object(c) \notin key
  /\ Call(c).kind = "promote" => promoted \/ target = "theirs"

\* Calls that are repeated until they are answered converge, whatever failed
\* on the way: a forget leaves no key behind at an object it took, and a
\* promotion is recorded or gave way to a file of somebody else.  Only objects
\* that a fault tore from their bytes keep them from it.
CallsConverge == <>[](torn = {} => \A c \in Callers : Answered(c))
=============================================================================
