------------------------- MODULE MemoryLifecycleProofs -------------------------
(***************************************************************************)
(* Proofs about the lifecycle of memory objects, for any number of         *)
(* callers, objects, scenes and faults.                                    *)
(*                                                                         *)
(* The bytes of an object are where its row says, or in the hands of the   *)
(* callers that are moving them.  What is in a hand is active and in       *)
(* quarantine, so no other caller finds its bytes, nor marks its row.  A   *)
(* failure gives the hand back or leaves it torn.                          *)
(*                                                                         *)
(* A registration that writes its bytes late, after another one's row and  *)
(* after somebody moved the bytes away, lets two hands hold one object.    *)
(* What the invariant says of hands and rows is said of the other objects; *)
(* that no bytes are lost, and that an active object has its bytes at      *)
(* their path or in a hand, is said of all.                                *)
(***************************************************************************)
EXTENDS MemoryLifecycle, WellFoundedInduction, TLAPS

-----------------------------------------------------------------------------
(* Sets and sequences of objects. *)

\* Every set of natural numbers that is not empty has a least member.
LEMMA LeastIn ==
  ASSUME NEW S, S \subseteq Nat, S # {}
  PROVE  \E x \in S : \A y \in S : x <= y
<1> DEFINE Less == {p \in Nat \X Nat : p[1] < p[2]}
<1>1. IsWellFoundedOn(Less, Nat)
  BY NatLessThanWellFounded DEF OpToRel
<1>2. PICK x \in S : \A y \in S : <<y, x>> \notin Less
  <2> HIDE DEF Less
  <2> QED
    BY <1>1, WFMin
<1>3. \A y \in S : ~(y < x)
  BY <1>2
<1> QED
  BY <1>3

\* The oldest of some objects is one of them.
LEMMA MinIn ==
  ASSUME NEW S, S \subseteq Objects, S # {}
  PROVE  Min(S) \in S
BY ObjectsAssumption, LeastIn DEF Min

\* What is taken in hand joins what is held, once.
LEMMA Appended ==
  ASSUME NEW s \in Seq(Objects), NEW o \in Objects
  PROVE  /\ Append(s, o) \in Seq(Objects)
         /\ ToSet(Append(s, o)) = ToSet(s) \cup {o}
         /\ IsInjective(s) /\ o \notin ToSet(s) => IsInjective(Append(s, o))
<1>1. Append(s, o) \in Seq(Objects)
  OBVIOUS
<1>2. ToSet(Append(s, o)) = ToSet(s) \cup {o}
  <2>1. /\ DOMAIN Append(s, o) = 1..(Len(s) + 1) /\ DOMAIN s = 1..Len(s) /\ Len(s) \in Nat
        /\ \A i \in 1..Len(s) : Append(s, o)[i] = s[i]
        /\ Append(s, o)[Len(s) + 1] = o
    OBVIOUS
  <2>2. \A i \in 1..(Len(s) + 1) : i \in 1..Len(s) \/ i = Len(s) + 1
    BY <2>1
  <2>3. 1..Len(s) \subseteq 1..(Len(s) + 1) /\ Len(s) + 1 \in 1..(Len(s) + 1)
    BY <2>1
  <2>4. ToSet(Append(s, o)) \subseteq ToSet(s) \cup {o}
    BY <2>1, <2>2 DEF ToSet
  <2>5. ToSet(s) \cup {o} \subseteq ToSet(Append(s, o))
    BY <2>1, <2>3 DEF ToSet
  <2> QED
    BY <2>4, <2>5
<1>3. ASSUME IsInjective(s), o \notin ToSet(s) PROVE IsInjective(Append(s, o))
  <2> SUFFICES ASSUME NEW i \in 1..(Len(s) + 1), NEW j \in 1..(Len(s) + 1),
                      Append(s, o)[i] = Append(s, o)[j]
               PROVE  i = j
    BY DEF IsInjective
  <2>1. \A k \in 1..Len(s) : s[k] # o
    BY <1>3 DEF ToSet
  <2> QED
    BY <1>3, <2>1 DEF IsInjective
<1> QED
  BY <1>1, <1>2, <1>3

\* What is put back leaves the hand, and the rest stays in it.
LEMMA Shortened ==
  ASSUME NEW s \in Seq(Objects), s # <<>>
  PROVE  /\ Front(s) \in Seq(Objects)
         /\ Last(s) \in ToSet(s)
         /\ IsInjective(s) => /\ ToSet(Front(s)) = ToSet(s) \ {Last(s)}
                              /\ IsInjective(Front(s))
<1>1. Front(s) \in Seq(Objects) /\ Len(s) \in Nat /\ Len(s) > 0
  BY DEF Front
<1>2. Last(s) \in ToSet(s)
  BY <1>1 DEF ToSet, Last
<1>3. DOMAIN Front(s) = 1..(Len(s) - 1) /\ \A i \in 1..(Len(s) - 1) : Front(s)[i] = s[i]
  BY <1>1 DEF Front
<1>4. ASSUME IsInjective(s) PROVE ToSet(Front(s)) = ToSet(s) \ {Last(s)}
  BY <1>1, <1>3, <1>4 DEF ToSet, Last, IsInjective
<1>5. ASSUME IsInjective(s) PROVE IsInjective(Front(s))
  BY <1>1, <1>3, <1>5 DEF IsInjective
<1> QED
  BY <1>1, <1>2, <1>4, <1>5

\* What is in a hand are objects; a hand with nothing in it is empty.
LEMMA EmptySet ==
  ASSUME NEW s \in Seq(Objects)
  PROVE  /\ ToSet(s) \subseteq Objects
         /\ ToSet(s) = {} <=> s = <<>>
BY DEF ToSet

\* A hand that has just been emptied.
LEMMA EmptyMoved == ToSet(<<>>) = {} /\ IsInjective(<<>>)
BY DEF ToSet, IsInjective

-----------------------------------------------------------------------------
(* The invariant. *)

Moved(c) == ToSet(mem[c].moved)

\* The steps of a caller are those of its call.
StepsFit ==
  \A c \in Callers :
    /\ pc[c] \in {"looking", "writing", "filed"} => Call(c).kind = "register"
    /\ pc[c] = "planned" => Call(c).kind = "collect"
    /\ pc[c] \in {"moving", "restoring"} => Call(c).kind \in {"collect", "invalidate", "forget"}
    /\ pc[c] \in {"resuming", "shredding", "clearing", "reinstating"} => Call(c).kind = "forget"
    /\ mem[c].plan # None => Call(c).kind = "collect"
    /\ Call(c).kind = "collect" /\ pc[c] \in {"planned", "moving", "restoring"} => mem[c].plan \in Plan
    /\ mem[c].moved # <<>> => pc[c] \in {"moving", "restoring"}

\* What a caller has in hand is active and in quarantine, and in no other hand.
Hands ==
  /\ \A c \in Callers : IsInjective(mem[c].moved)
  /\ \A c \in Callers : \A o \in InHand(c) :
       /\ row[o] # "none"
       /\ o \notin late => row[o] = "active" /\ o \in shelf /\ o \notin home
  /\ \A c, d \in Callers : \A o \in InHand(c) : c # d /\ o \notin late => o \notin InHand(d)

\* The bytes are where the row says, but for what is in hand or torn.
Places ==
  /\ \A o \in Objects :
       /\ row[o] = "none" => o \notin shelf /\ o \notin late
       /\ row[o] # "none" => o \in home \/ o \in shelf
       /\ row[o] # "none" /\ o \notin late => ~(o \in home /\ o \in shelf)
       /\ row[o] = "quarantined" /\ o \notin late => o \in shelf
       /\ row[o] = "active" /\ o \notin home => o \in torn \/ \E c \in Callers : o \in InHand(c)
  /\ \A c \in Callers : pc[c] = "filed" /\ row[Object(c)] = "none" => Object(c) \in home

\* A caller at work moves what it took, and nothing that was protected then.
Targets ==
  \A c \in Callers : pc[c] = "moving" =>
    /\ Moved(c) \cup mem[c].queue = IF Call(c).kind = "collect" THEN Candidates(mem[c].plan) ELSE {Object(c)}
    /\ mem[c].queue \cap mem[c].guarded = {}
    /\ \A o \in mem[c].queue : row[o] # "none" /\ o \notin Moved(c)

\* Only one caller is about to destroy the key of an object it has taken.
Shredding ==
  \A c \in Callers : pc[c] = "shredding" =>
    /\ row[Object(c)] # "none"
    /\ Object(c) \notin late => row[Object(c)] = "quarantined" /\ reason[Object(c)] = "forget"
    /\ \A d \in Callers : pc[d] = "shredding" /\ Object(d) = Object(c) /\ Object(c) \notin late => d = c

\* A recorded plan's candidates stay what its collection made of them.
Receipts ==
  \A plan \in receipts : \A o \in Candidates(plan) \ late : row[o] = "quarantined" /\ reason[o] = "collect"

LifeInv == TypeOK /\ StepsFit /\ Hands /\ Places /\ Targets /\ Shredding /\ Receipts

\* A key is destroyed before its row gives it up.
Keys ==
  /\ \A o \in Objects : o \in scene.keyed /\ row[o] # "none" /\ o \notin key => o \in destroyed
  /\ \A c \in Callers : pc[c] = "clearing" => Object(c) \in destroyed

-----------------------------------------------------------------------------
(* What a step leaves alone. *)

\* What a caller remembers.
Memory == [plan : Plan \cup {None}, queue : SUBSET Objects, moved : Seq(Objects), guarded : SUBSET Objects]

\* Faults stay within their bound.
LEMMA FaultCounts ==
  ASSUME TypeOK, Fault
  PROVE  faults' \in 0..MaxFaults
BY BoundAssumption DEF TypeOK, Fault

\* The calls are those of the scene.
LEMMA CallsStay ==
  ASSUME TypeOK, scene' = scene
  PROVE  \A d \in Callers :
           /\ Call(d)' = Call(d) /\ Object(d)' = Object(d) /\ Object(d) \in Objects
           /\ Call(d).kind \in Kinds /\ Call(d).quota \in Nat
BY ScenesAssumption DEF TypeOK, Call, Object, Calls

\* The second object of a call is an object.
LEMMA OtherKnown == TypeOK => \A c \in Callers : Call(c).other \in Objects
BY ScenesAssumption DEF TypeOK, Call, Calls

\* Hands that nobody touches stay as they are.
LEMMA QuietHands ==
  ASSUME TypeOK, scene' = scene,
         \A d \in Callers : mem'[d].moved = mem[d].moved /\ (pc'[d] = "reinstating" <=> pc[d] = "reinstating")
  PROVE  \A d \in Callers : InHand(d)' = InHand(d) /\ Moved(d)' = Moved(d) /\ mem'[d].moved = mem[d].moved
BY DEF InHand, Moved, Object, Call

\* What one caller does leaves the hands of the others alone.
LEMMA OtherHands ==
  ASSUME TypeOK, scene' = scene, NEW c \in Callers,
         \A d \in Callers \ {c} : mem'[d] = mem[d] /\ pc'[d] = pc[d]
  PROVE  \A d \in Callers \ {c} : InHand(d)' = InHand(d) /\ Moved(d)' = Moved(d) /\ mem'[d] = mem[d] /\ pc'[d] = pc[d]
BY DEF InHand, Moved, Object, Call

\* A plan names objects.
LEMMA PlanKnown ==
  ASSUME NEW quota \in Nat, TypeOK
  PROVE  PlanFor(quota) \in Plan /\ Protected \subseteq Objects
BY DEF PlanFor, Plan, Expired, OverQuota, Protected, Active, TypeOK

\* The type of what callers remember.
LEMMA MemoryTyped == TypeOK => mem \in [Callers -> Memory]
BY DEF TypeOK, Memory

\* The candidates of a plan are objects.
LEMMA CandidatesKnown ==
  ASSUME NEW plan \in Plan
  PROVE  Candidates(plan) \subseteq Objects
BY DEF Candidates, Plan

\* Receipts stay true while what they name stays where it was put.
LEMMA ReceiptsKept ==
  ASSUME TypeOK, Receipts, receipts' = receipts, late \subseteq late',
         \A o \in Objects : row[o] = "quarantined" /\ reason[o] = "collect" /\ o \notin late =>
                           row'[o] = "quarantined" /\ reason'[o] = "collect"
  PROVE  Receipts'
<1>1. \A plan \in receipts : Candidates(plan) \subseteq Objects
  BY CandidatesKnown DEF TypeOK
<1> QED
  BY <1>1 DEF Receipts, Candidates

\* A caller's next candidate is one of those it has left.
LEMMA NextIsLeft ==
  ASSUME TypeOK, NEW c \in Callers, mem[c].queue # {}
  PROVE  NextCandidate(c) \in mem[c].queue
<1> DEFINE expired == IF mem[c].plan = None THEN {} ELSE mem[c].queue \cap mem[c].plan.expired
<1>1. mem[c].queue \subseteq Objects /\ expired \subseteq mem[c].queue
  BY DEF TypeOK
<1> HIDE DEF expired
<1>2. (IF expired # {} THEN expired ELSE mem[c].queue) \subseteq mem[c].queue
  BY <1>1
<1>3. Min(IF expired # {} THEN expired ELSE mem[c].queue) \in (IF expired # {} THEN expired ELSE mem[c].queue)
  BY <1>1, MinIn
<1> QED
  BY <1>2, <1>3 DEF NextCandidate, expired

-----------------------------------------------------------------------------
(* The invariant is inductive: the steps that move no bytes. *)

\* A step that writes no row and moves no bytes, of a caller that has nothing
\* in hand.
LEMMA QuietStep ==
  ASSUME LifeInv, TypeOK', scene' = scene, UNCHANGED <<row, reason, receipts, home, shelf, late, mem, torn>>,
         NEW c \in Callers, \A d \in Callers \ {c} : pc'[d] = pc[d],
         pc[c] \notin {"moving", "restoring", "reinstating"},
         \/ pc'[c] \in {"idle", "done", "staged", "publishing", "published"}
         \/ pc'[c] = "clearing" /\ Call(c).kind = "forget"
         \/ pc'[c] \in {"looking", "writing"} /\ Call(c).kind = "register"
         \/ pc'[c] = "filed" /\ Call(c).kind = "register" /\ Object(c) \in home
  PROVE  LifeInv'
<1>1. \A d \in Callers : Call(d)' = Call(d) /\ Object(d)' = Object(d)
  BY CallsStay DEF LifeInv
<1>2. \A d \in Callers : InHand(d)' = InHand(d) /\ Moved(d)' = Moved(d)
  BY QuietHands DEF LifeInv
<1>3. mem[c].moved = <<>>
  BY DEF LifeInv, StepsFit
<1>4. StepsFit'
  BY <1>1, <1>3 DEF LifeInv, StepsFit
<1>5. Hands'
  BY <1>2 DEF LifeInv, Hands
<1>6. Places'
  BY <1>1, <1>2 DEF LifeInv, Places
<1>7. Targets'
  BY <1>1, <1>2 DEF LifeInv, Targets
<1>8. Shredding'
  BY <1>1 DEF LifeInv, Shredding
<1>9. Receipts'
  BY ReceiptsKept DEF LifeInv
<1> QED
  BY <1>4, <1>5, <1>6, <1>7, <1>8, <1>9 DEF LifeInv

\* References, holds, keys and promotions, and what a registration looks at.
LEMMA QuietSound ==
  ASSUME LifeInv, NEW c \in Callers,
         \/ Registers(c) \/ FindsBytes(c) \/ Refers(c) \/ Holds(c) \/ Shreds(c) \/ Clears(c) \/ ClearFails(c)
         \/ Inspects(c) \/ InspectsAgain(c) \/ Publishes(c) \/ Records(c)
  PROVE  LifeInv'
<1>1. scene' = scene /\ UNCHANGED <<row, reason, receipts, home, shelf, late, mem, torn>>
  BY DEF Registers, FindsBytes, Refers, Holds, Shreds, Clears, ClearFails, Inspects, InspectsAgain, Publishes,
     Records,
         rows, graph, files, control, Fault
<1>2. /\ pc[c] \notin {"moving", "restoring", "reinstating"}
      /\ \A d \in Callers \ {c} : pc'[d] = pc[d]
      /\ \/ pc'[c] \in {"idle", "done", "staged", "publishing", "published"}
         \/ pc'[c] = "clearing" /\ Call(c).kind = "forget"
         \/ pc'[c] \in {"looking", "writing"} /\ Call(c).kind = "register"
         \/ pc'[c] = "filed" /\ Call(c).kind = "register" /\ Object(c) \in home
  BY DEF Registers, FindsBytes, Refers, Holds, Shreds, Clears, ClearFails, Inspects, InspectsAgain, Publishes,
     Records,
         Begins, Goto, LifeInv, TypeOK, StepsFit
<1>3. pc' \in [Callers -> Steps]
  <2>1. pc' \in [Callers -> {pc'[d] : d \in Callers}]
    BY DEF Registers, FindsBytes, Refers, Holds, Shreds, Clears, ClearFails, Inspects, InspectsAgain,
       Publishes, Records,
           Goto, LifeInv, TypeOK
  <2>2. \A d \in Callers : pc'[d] \in Steps
    BY <1>2 DEF LifeInv, TypeOK, Steps
  <2> QED
    BY <2>1, <2>2
<1>4. faults' \in 0..MaxFaults
  BY FaultCounts DEF Registers, FindsBytes, Refers, Holds, Shreds, Clears, ClearFails, Inspects, InspectsAgain,
     Publishes, Records,
                     control, LifeInv, TypeOK
<1>5. /\ holds' \subseteq Objects
      /\ references' \subseteq Objects \X Objects
      /\ key' \subseteq Objects
      /\ destroyed' \subseteq Objects
  BY <1>1, CallsStay, OtherKnown
     DEF Registers, FindsBytes, Refers, Holds, Shreds, Clears, ClearFails, Inspects, InspectsAgain, Publishes,
     Records,
         rows, graph, LifeInv, TypeOK
<1>6. target' \in {"absent", "ours", "theirs"} /\ promoted' \in BOOLEAN
  BY DEF Registers, FindsBytes, Refers, Holds, Shreds, Clears, ClearFails, Inspects, InspectsAgain, Publishes,
     Records,
         promotion, LifeInv, TypeOK
<1>7. TypeOK'
  BY <1>1, <1>3, <1>4, <1>5, <1>6 DEF LifeInv, TypeOK
<1> QED
  BY <1>1, <1>2, <1>7, QuietStep

\* Bytes are written where there are none, late when the object has a row.
LEMMA WritesSound ==
  ASSUME LifeInv, NEW c \in Callers, Writes(c)
  PROVE  LifeInv'
<1> USE DEF LifeInv
<1>1. scene' = scene /\ UNCHANGED <<row, reason, key, receipts, shelf, mem, faults, torn, destroyed, target, promoted>>
  BY DEF Writes, rows, promotion, control
<1>2. \A d \in Callers : Call(d)' = Call(d) /\ Object(d)' = Object(d) /\ Object(d) \in Objects
  BY <1>1, CallsStay
<1>3. /\ pc[c] = "writing" /\ Call(c).kind = "register"
      /\ \/ pc' = [pc EXCEPT ![c] = "idle"] /\ home' = home /\ late' = late
         \/ /\ pc' = [pc EXCEPT ![c] = "filed"]
            /\ home' = home \cup {Object(c)} /\ Object(c) \notin home
            /\ late' = IF row[Object(c)] # "none" THEN late \cup {Object(c)} ELSE late
  BY DEF Writes, Goto, StepsFit
<1>4. \A d \in Callers : InHand(d)' = InHand(d) /\ Moved(d)' = Moved(d)
  BY <1>1, <1>3, QuietHands DEF TypeOK
<1>5. \A d \in Callers : \A o \in InHand(d) : row[o] # "none" /\ (o \notin late => row[o] = "active")
  BY DEF Hands
<1>6. /\ pc' \in [Callers -> Steps] /\ pc'[c] \in {"filed", "idle"}
      /\ \A d \in Callers \ {c} : pc'[d] = pc[d]
      /\ late \subseteq late' /\ late' \subseteq late \cup {Object(c)}
      /\ home \subseteq home' /\ home' \subseteq home \cup {Object(c)}
      /\ pc'[c] = "filed" => Object(c) \in home'
      /\ Object(c) \in home' \ home /\ row[Object(c)] # "none" => Object(c) \in late'
      /\ row[Object(c)] = "none" => late' = late
  BY <1>3 DEF TypeOK, Steps
<1>7. TypeOK'
  <2>1. home' \subseteq Objects /\ late' \subseteq Objects /\ UNCHANGED <<holds, references>>
    BY <1>2, <1>3 DEF Writes, graph, TypeOK
  <2> QED
    BY <1>1, <1>6, <2>1 DEF TypeOK
<1>8. StepsFit'
  BY <1>1, <1>2, <1>3, <1>6 DEF StepsFit
<1>9. Hands'
  BY <1>1, <1>4, <1>5, <1>6 DEF Hands
<1>10. Places'
  <2>1. \A o \in Objects : o \in home' => o \in home \/ o = Object(c)
    BY <1>6
  <2> QED
    BY <1>1, <1>2, <1>4, <1>6, <2>1 DEF Places, TypeOK
<1>11. Targets'
  BY <1>1, <1>2, <1>4, <1>6 DEF Targets, Candidates
<1>12. Shredding'
  BY <1>1, <1>2, <1>6 DEF Shredding
<1>13. Receipts'
  BY <1>1, <1>6, ReceiptsKept
<1> QED
  BY <1>7, <1>8, <1>9, <1>10, <1>11, <1>12, <1>13

\* The row of the bytes that were filed.
LEMMA InsertsSound ==
  ASSUME LifeInv, NEW c \in Callers, Inserts(c)
  PROVE  LifeInv'
<1>1. scene' = scene /\ UNCHANGED <<reason, receipts, home, shelf, late, mem, faults, torn, destroyed, target, promoted>>
  BY DEF Inserts, files, promotion, control
<1>2. \A d \in Callers : Call(d)' = Call(d) /\ Object(d)' = Object(d) /\ Object(d) \in Objects
  BY <1>1, CallsStay DEF LifeInv
<1>3. /\ pc[c] = "filed" /\ pc' = [pc EXCEPT ![c] = "done"]
      /\ \/ row' = row /\ key' = key
         \/ /\ row[Object(c)] = "none" /\ row' = [row EXCEPT ![Object(c)] = "active"]
            /\ key' \subseteq key \cup {Object(c)}
  BY DEF Inserts, Goto
<1>4. \A d \in Callers : InHand(d)' = InHand(d) /\ Moved(d)' = Moved(d)
  BY <1>1, <1>3, QuietHands DEF LifeInv, TypeOK
<1>5. \A o \in Objects : row[o] # "none" => row'[o] = row[o]
  BY <1>3 DEF LifeInv, TypeOK
<1>6. \A d \in Callers : InHand(d) \subseteq Objects
  BY <1>2 DEF LifeInv, TypeOK, InHand, ToSet
<1>7. TypeOK'
  BY <1>1, <1>2, <1>3 DEF Inserts, graph, LifeInv, TypeOK, Steps
<1>8. StepsFit'
  BY <1>1, <1>2, <1>3 DEF LifeInv, StepsFit, TypeOK
<1>9. Hands'
  BY <1>1, <1>4, <1>5, <1>6 DEF LifeInv, Hands
<1>10. Places'
  BY <1>1, <1>2, <1>3, <1>4 DEF LifeInv, Places, TypeOK
<1>11. Targets'
  <2>1. \A d \in Callers : pc'[d] = "moving" => pc[d] = "moving" /\ mem[d].queue \subseteq Objects
    BY <1>3 DEF LifeInv, TypeOK
  <2> QED
    BY <1>1, <1>2, <1>4, <1>5, <2>1 DEF LifeInv, Targets
<1>12. Shredding'
  BY <1>1, <1>2, <1>3, <1>5 DEF LifeInv, Shredding, TypeOK
<1>13. Receipts'
  BY <1>1, <1>5, ReceiptsKept DEF LifeInv
<1> QED
  BY <1>7, <1>8, <1>9, <1>10, <1>11, <1>12, <1>13 DEF LifeInv

\* A failure on the way begins the restoring of what has moved.
LEMMA MoveFailsSound ==
  ASSUME LifeInv, NEW c \in Callers, MoveFails(c)
  PROVE  LifeInv'
<1>1. scene' = scene /\ UNCHANGED <<row, reason, key, receipts, home, shelf, late, mem, torn, destroyed, target, promoted>>
  BY DEF MoveFails, rows, files, promotion, Fault
<1>2. \A d \in Callers : Call(d)' = Call(d) /\ Object(d)' = Object(d)
  BY <1>1, CallsStay DEF LifeInv
<1>3. pc[c] = "moving" /\ pc' = [pc EXCEPT ![c] = "restoring"] /\ faults' \in 0..MaxFaults
  BY FaultCounts DEF MoveFails, Goto, LifeInv
<1>4. \A d \in Callers : InHand(d)' = InHand(d) /\ Moved(d)' = Moved(d)
  BY <1>1, <1>3, QuietHands DEF LifeInv, TypeOK
<1>5. TypeOK'
  BY <1>1, <1>3 DEF MoveFails, graph, LifeInv, TypeOK, Steps
<1>6. StepsFit'
  BY <1>1, <1>2, <1>3 DEF LifeInv, StepsFit, TypeOK
<1>7. Hands' /\ Places'
  BY <1>1, <1>2, <1>3, <1>4 DEF LifeInv, Hands, Places, TypeOK
<1>8. Targets' /\ Shredding'
  BY <1>1, <1>2, <1>3, <1>4 DEF LifeInv, Targets, Shredding, TypeOK
<1>9. Receipts'
  BY <1>1, ReceiptsKept DEF LifeInv
<1> QED
  BY <1>5, <1>6, <1>7, <1>8, <1>9 DEF LifeInv

\* A caller plans a collection.
LEMMA PlansSound ==
  ASSUME LifeInv, NEW c \in Callers, Plans(c)
  PROVE  LifeInv'
<1> USE DEF LifeInv
<1>a. scene' = scene
  BY DEF Plans, control
<1>b. \A d \in Callers :
        /\ Call(d)' = Call(d) /\ Object(d)' = Object(d) /\ Object(d) \in Objects
        /\ Call(d).kind \in Kinds /\ Call(d).quota \in Nat
  BY <1>a, CallsStay
<1>c. UNCHANGED <<row, reason, key, holds, references, receipts, home, shelf, late, destroyed, target, promoted, faults, torn>>
  BY DEF Plans, rows, graph, files, promotion, control
<1>d. pc' = [pc EXCEPT ![c] = "planned"] /\ pc[c] = "idle" /\ Call(c).kind = "collect"
  BY DEF Plans, Goto, Begins
<1>e. PlanFor(Call(c).quota) \in Plan
  BY <1>b, PlanKnown
<1>f. mem' = [mem EXCEPT ![c].plan = PlanFor(Call(c).quota)]
  BY DEF Plans
<1>g. /\ mem' \in [Callers -> Memory]
      /\ mem'[c].plan \in Plan
      /\ \A d \in Callers : mem'[d].moved = mem[d].moved /\ mem'[d].queue = mem[d].queue
      /\ \A d \in Callers \ {c} : mem'[d] = mem[d]
  BY <1>e, <1>f, MemoryTyped DEF Memory
<1>h. \A d \in Callers : InHand(d)' = InHand(d) /\ Moved(d)' = Moved(d) /\ mem'[d].moved = mem[d].moved
  BY <1>a, <1>d, <1>g, QuietHands DEF TypeOK
<1>1. TypeOK'
  BY <1>a, <1>c, <1>d, <1>g DEF TypeOK, Memory, Steps
<1>2. StepsFit'
  BY <1>b, <1>d, <1>g DEF StepsFit, TypeOK
<1>3. Hands'
  BY <1>c, <1>g, <1>h DEF Hands
<1>4. Places'
  BY <1>b, <1>c, <1>d, <1>h DEF Places, TypeOK
<1>5. Targets'
  BY <1>b, <1>c, <1>d, <1>g, <1>h DEF Targets, TypeOK
<1>6. Shredding'
  BY <1>b, <1>c, <1>d DEF Shredding, TypeOK
<1>7. Receipts'
  BY <1>c, ReceiptsKept
<1> QED
  BY <1>1, <1>2, <1>3, <1>4, <1>5, <1>6, <1>7

\* A plan that is still current names nothing that is protected now.
LEMMA CurrentPlan ==
  ASSUME TypeOK, NEW plan \in Plan, IsCurrent(plan)
  PROVE  /\ Candidates(plan) \cap Protected = {}
         /\ \A o \in Candidates(plan) : row[o] = "active"
<1>1. plan.expired = Expired /\ plan.over = OverQuota(plan.quota)
  BY DEF IsCurrent, PlanFor
<1> QED
  BY <1>1 DEF Candidates, Expired, OverQuota, Active

\* A plan that is current is begun, any other is answered or refused.
LEMMA AppliesSound ==
  ASSUME LifeInv, NEW c \in Callers, Applies(c)
  PROVE  LifeInv'
<1> USE DEF LifeInv
<1>a. scene' = scene
  BY DEF Applies, control
<1>b. \A d \in Callers :
        /\ Call(d)' = Call(d) /\ Object(d)' = Object(d) /\ Object(d) \in Objects
        /\ Call(d).kind \in Kinds /\ Call(d).quota \in Nat
  BY <1>a, CallsStay
<1>c. UNCHANGED <<row, reason, key, holds, references, receipts, home, shelf, late, destroyed, target, promoted, faults, torn>>
  BY DEF Applies, rows, graph, files, promotion, control
<1>d. pc[c] = "planned" /\ Call(c).kind = "collect" /\ mem[c].plan \in Plan
  BY DEF Applies, StepsFit
<1>e. \/ pc' = [pc EXCEPT ![c] = "done"] /\ mem' = mem
      \/ /\ pc' = [pc EXCEPT ![c] = "moving"]
         /\ mem' = [mem EXCEPT ![c].queue = Candidates(mem[c].plan), ![c].guarded = Protected]
         /\ IsCurrent(mem[c].plan)
  BY DEF Applies, Goto
<1>f. Candidates(mem[c].plan) \subseteq Objects /\ Protected \subseteq Objects
  BY <1>b, <1>d, CandidatesKnown, PlanKnown
<1>g. /\ mem' \in [Callers -> Memory]
      /\ \A d \in Callers : mem'[d].moved = mem[d].moved /\ mem'[d].plan = mem[d].plan
      /\ \A d \in Callers \ {c} : mem'[d] = mem[d]
      /\ pc'[c] = "moving" => mem'[c].queue = Candidates(mem[c].plan) /\ mem'[c].guarded = Protected
  <2>1. mem \in [Callers -> Memory] /\ pc \in [Callers -> Steps]
    BY MemoryTyped DEF TypeOK
  <2>2. CASE mem' = mem /\ pc' = [pc EXCEPT ![c] = "done"]
    BY <2>1, <2>2
  <2>3. CASE mem' = [mem EXCEPT ![c].queue = Candidates(mem[c].plan), ![c].guarded = Protected]
    BY <1>f, <2>1, <2>3 DEF Memory
  <2> QED
    BY <1>e, <2>2, <2>3
<1>h. \A d \in Callers : InHand(d)' = InHand(d) /\ Moved(d)' = Moved(d) /\ mem'[d].moved = mem[d].moved
  BY <1>a, <1>d, <1>e, <1>g, QuietHands DEF TypeOK
<1>i. pc'[c] \in {"moving", "done"} /\ \A d \in Callers \ {c} : pc'[d] = pc[d]
  BY <1>e DEF TypeOK
<1>1. TypeOK'
  <2>1. pc' \in [Callers -> Steps]
    BY <1>e DEF TypeOK, Steps
  <2> QED
    BY <1>a, <1>c, <1>g, <2>1 DEF TypeOK, Memory
<1>2. StepsFit'
  BY <1>b, <1>d, <1>g, <1>i DEF StepsFit
<1>3. Hands'
  BY <1>c, <1>g, <1>h DEF Hands
<1>4. Places'
  BY <1>b, <1>c, <1>h, <1>i DEF Places
<1>5. Targets'
  <2>1. Moved(c) = {}
    BY <1>d, EmptyMoved DEF StepsFit, Moved
  <2>2. CASE pc'[c] = "moving"
    <3>1. Candidates(mem[c].plan) \cap Protected = {} /\ \A o \in Candidates(mem[c].plan) : row[o] = "active"
      <4>1. IsCurrent(mem[c].plan)
        BY <1>e, <2>2 DEF TypeOK
      <4> QED
        BY <1>d, <4>1, CurrentPlan
    <3>2. mem'[c].queue = Candidates(mem[c].plan) /\ mem'[c].guarded = Protected /\ mem'[c].plan = mem[c].plan
      BY <1>g, <2>2
    <3>3. \A d \in Callers \ {c} : pc[d] = "moving" =>
            /\ Moved(d) \cup mem[d].queue = IF Call(d).kind = "collect" THEN Candidates(mem[d].plan) ELSE {Object(d)}
            /\ mem[d].queue \cap mem[d].guarded = {}
            /\ \A o \in mem[d].queue : row[o] # "none" /\ o \notin Moved(d)
      BY DEF Targets
    <3>4. \A d \in Callers : Candidates(mem[d].plan)' = Candidates(mem[d].plan)
      BY <1>g DEF Candidates
    <3> QED
      BY <1>b, <1>c, <1>d, <1>g, <1>h, <1>i, <2>1, <3>1, <3>2, <3>3, <3>4 DEF Targets
  <2>3. CASE pc'[c] # "moving"
    BY <1>b, <1>c, <1>g, <1>h, <1>i, <2>3 DEF Targets, Candidates
  <2> QED
    BY <2>2, <2>3
<1>6. Shredding'
  BY <1>b, <1>c, <1>i DEF Shredding
<1>7. Receipts'
  BY <1>c, ReceiptsKept
<1> QED
  BY <1>1, <1>2, <1>3, <1>4, <1>5, <1>6, <1>7

\* An invalidation or a forget begins, resumes or is refused.
LEMMA TakesSound ==
  ASSUME LifeInv, NEW c \in Callers, Takes(c)
  PROVE  LifeInv'
<1> USE DEF LifeInv
<1>a. scene' = scene
  BY DEF Takes, control
<1>b. \A d \in Callers :
        /\ Call(d)' = Call(d) /\ Object(d)' = Object(d) /\ Object(d) \in Objects
        /\ Call(d).kind \in Kinds /\ Call(d).quota \in Nat
  BY <1>a, CallsStay
<1>c. UNCHANGED <<row, reason, key, holds, references, receipts, home, shelf, late, destroyed, target, promoted, faults, torn>>
  BY DEF Takes, rows, graph, files, promotion, control
<1>d. pc[c] = "idle" /\ Call(c).kind \in {"invalidate", "forget"}
  BY DEF Takes, Begins
<1>e. /\ pc'[c] \in {"moving", "resuming", "done"}
      /\ pc' \in [Callers -> Steps]
      /\ \A d \in Callers \ {c} : pc'[d] = pc[d]
      /\ pc'[c] = "moving" => row[Object(c)] = "active" /\ Object(c) \notin Protected
      /\ pc'[c] = "resuming" => Call(c).kind = "forget"
  BY DEF Takes, Goto, Resumable, TypeOK, Steps
<1>f. mem' = [mem EXCEPT ![c].queue = {Object(c)}, ![c].guarded = Protected]
  BY DEF Takes
<1>g. /\ mem' \in [Callers -> Memory]
      /\ \A d \in Callers : mem'[d].moved = mem[d].moved /\ mem'[d].plan = mem[d].plan
      /\ \A d \in Callers \ {c} : mem'[d] = mem[d]
      /\ mem'[c].queue = {Object(c)} /\ mem'[c].guarded = Protected
  <2>1. Object(c) \in Objects /\ Protected \subseteq Objects
    BY <1>b, PlanKnown
  <2> QED
    BY <1>f, <2>1, MemoryTyped DEF Memory
<1>h. \A d \in Callers : InHand(d)' = InHand(d) /\ Moved(d)' = Moved(d) /\ mem'[d].moved = mem[d].moved
  BY <1>a, <1>d, <1>e, <1>g, QuietHands
<1>1. TypeOK'
  BY <1>a, <1>c, <1>e, <1>g DEF TypeOK, Memory
<1>2. StepsFit'
  BY <1>b, <1>d, <1>e, <1>g DEF StepsFit
<1>3. Hands'
  BY <1>c, <1>g, <1>h DEF Hands
<1>4. Places'
  BY <1>b, <1>c, <1>e, <1>h DEF Places
<1>5. Targets'
  <2>1. Moved(c) = {}
    BY <1>d, EmptyMoved DEF StepsFit, Moved
  <2>2. \A d \in Callers : Candidates(mem[d].plan)' = Candidates(mem[d].plan)
    BY <1>g DEF Candidates
  <2> QED
    BY <1>b, <1>c, <1>d, <1>e, <1>g, <1>h, <2>1, <2>2 DEF Targets
<1>6. Shredding'
  BY <1>b, <1>c, <1>e DEF Shredding
<1>7. Receipts'
  BY <1>c, ReceiptsKept
<1> QED
  BY <1>1, <1>2, <1>3, <1>4, <1>5, <1>6, <1>7

\* The bytes of the next object are taken in hand.
LEMMA MovesOneSound ==
  ASSUME LifeInv, NEW c \in Callers, Moves(c), NextCandidate(c) \in home
  PROVE  LifeInv'
<1> USE DEF LifeInv
<1> DEFINE o == NextCandidate(c)
<1>a. scene' = scene
  BY DEF Moves, control
<1>b. \A d \in Callers :
        /\ Call(d)' = Call(d) /\ Object(d)' = Object(d) /\ Object(d) \in Objects
        /\ Call(d).kind \in Kinds /\ Call(d).quota \in Nat
  BY <1>a, CallsStay
<1>c. /\ UNCHANGED <<row, reason, key, holds, references, receipts, destroyed, target, promoted, faults, torn>>
      /\ pc' = pc /\ pc[c] = "moving" /\ mem[c].queue # {}
      /\ home' = home \ {o} /\ shelf' = shelf \cup {o} /\ late' = late
      /\ mem' = [mem EXCEPT ![c].queue = @ \ {o}, ![c].moved = Append(@, o)]
  BY DEF Moves, rows, graph, promotion, control, Remembers
<1>d. o \in mem[c].queue
  BY <1>c, NextIsLeft
<1>e. /\ o \in Objects /\ row[o] # "none" /\ o \in home /\ o \notin Moved(c)
      /\ o \notin late => row[o] = "active" /\ o \notin shelf
  <2>1. o \in Objects /\ row[o] # "none" /\ o \in home /\ o \notin Moved(c)
    BY <1>c, <1>d DEF TypeOK, Targets
  <2> QED
    BY <2>1 DEF TypeOK, Places
<1>f. o \notin late => \A d \in Callers : o \notin InHand(d)
  BY <1>e DEF Hands
<1>g. mem[c].moved \in Seq(Objects) /\ IsInjective(mem[c].moved) /\ o \notin ToSet(mem[c].moved)
  BY <1>e DEF TypeOK, Hands, Moved
<1>h. /\ mem' \in [Callers -> Memory]
      /\ \A d \in Callers \ {c} : mem'[d] = mem[d] /\ pc'[d] = pc[d]
      /\ mem'[c].moved = Append(mem[c].moved, o)
      /\ mem'[c].queue = mem[c].queue \ {o}
      /\ mem'[c].plan = mem[c].plan /\ mem'[c].guarded = mem[c].guarded
  <2>1. Append(mem[c].moved, o) \in Seq(Objects)
    BY <1>e, <1>g, Appended
  <2>2. mem \in [Callers -> Memory] /\ mem[c].queue \ {o} \subseteq Objects
    BY MemoryTyped DEF TypeOK
  <2> HIDE DEF o
  <2> QED
    BY <1>c, <2>1, <2>2 DEF Memory
<1> HIDE DEF o
<1>i. Moved(c)' = Moved(c) \cup {o} /\ InHand(c)' = InHand(c) \cup {o} /\ IsInjective(mem'[c].moved)
  BY <1>c, <1>e, <1>g, <1>h, Appended DEF Moved, InHand
<1>j. \A d \in Callers \ {c} : InHand(d)' = InHand(d) /\ Moved(d)' = Moved(d)
  BY <1>a, <1>h, OtherHands
<1>1. TypeOK'
  <2>1. home' \subseteq Objects /\ shelf' \subseteq Objects
    BY <1>c, <1>e DEF TypeOK
  <2> QED
    BY <1>a, <1>c, <1>h, <2>1 DEF TypeOK, Memory
<1>2. StepsFit'
  BY <1>b, <1>c, <1>h DEF StepsFit
<1>3. Hands'
  BY <1>c, <1>e, <1>f, <1>h, <1>i, <1>j DEF Hands
<1>4. Places'
  BY <1>b, <1>c, <1>e, <1>i, <1>j DEF Places
<1>5. Targets'
  <2>1. \A d \in Callers : Candidates(mem[d].plan)' = Candidates(mem[d].plan)
    BY <1>h DEF Candidates
  <2> QED
    BY <1>b, <1>c, <1>d, <1>h, <1>i, <1>j, <2>1 DEF Targets
<1>6. Shredding'
  BY <1>b, <1>c DEF Shredding
<1>7. Receipts'
  BY <1>c, ReceiptsKept
<1> QED
  BY <1>1, <1>2, <1>3, <1>4, <1>5, <1>6, <1>7

\* A caller that finds no bytes goes back.
LEMMA MovesNothingSound ==
  ASSUME LifeInv, NEW c \in Callers, Moves(c), NextCandidate(c) \notin home
  PROVE  LifeInv'
<1> USE DEF LifeInv
<1>a. scene' = scene
  BY DEF Moves, control
<1>b. \A d \in Callers :
        /\ Call(d)' = Call(d) /\ Object(d)' = Object(d) /\ Object(d) \in Objects
        /\ Call(d).kind \in Kinds /\ Call(d).quota \in Nat
  BY <1>a, CallsStay
<1>c. /\ UNCHANGED <<rows, graph, receipts, files, mem, destroyed, promotion, faults, torn>>
      /\ pc[c] = "moving" /\ pc' = [pc EXCEPT ![c] = "restoring"]
  BY DEF Moves, Goto, control, files
<1>h. \A d \in Callers : InHand(d)' = InHand(d) /\ Moved(d)' = Moved(d) /\ mem'[d].moved = mem[d].moved
  BY <1>a, <1>c, QuietHands DEF TypeOK
<1> USE DEF rows, graph, files, promotion
<1>1. TypeOK'
  BY <1>a, <1>c DEF TypeOK, Steps
<1>2. StepsFit'
  BY <1>b, <1>c DEF StepsFit, TypeOK
<1>3. Hands'
  BY <1>c, <1>h DEF Hands
<1>4. Places'
  BY <1>b, <1>c, <1>h DEF Places, TypeOK
<1>5. Targets'
  BY <1>b, <1>c, <1>h DEF Targets, TypeOK
<1>6. Shredding'
  BY <1>b, <1>c DEF Shredding, TypeOK
<1>7. Receipts'
  BY <1>c, ReceiptsKept
<1> QED
  BY <1>1, <1>2, <1>3, <1>4, <1>5, <1>6, <1>7

\* The last object of a hand goes back, or the hand is empty.
LEMMA RestoresSound ==
  ASSUME LifeInv, NEW c \in Callers, Restores(c)
  PROVE  LifeInv'
<1> USE DEF LifeInv
<1> DEFINE o == Last(mem[c].moved)
<1>a. scene' = scene
  BY DEF Restores, control
<1>b. \A d \in Callers :
        /\ Call(d)' = Call(d) /\ Object(d)' = Object(d) /\ Object(d) \in Objects
        /\ Call(d).kind \in Kinds /\ Call(d).quota \in Nat
  BY <1>a, CallsStay
<1>c. /\ UNCHANGED <<row, reason, key, holds, references, receipts, late, destroyed, target, promoted, faults, torn>>
      /\ pc[c] = "restoring"
  BY DEF Restores, rows, graph, promotion, control
<1>d. CASE mem[c].moved = <<>>
  <2>1. /\ UNCHANGED <<home, shelf, late, mem>>
        /\ pc' = [pc EXCEPT ![c] = IF Call(c).kind = "collect" THEN "planned" ELSE "idle"]
    BY <1>d DEF Restores, Goto, files
  <2>2. /\ pc' \in [Callers -> Steps] /\ pc'[c] \in {"planned", "idle"}
        /\ pc'[c] = "planned" => Call(c).kind = "collect"
        /\ \A d \in Callers \ {c} : pc'[d] = pc[d]
    BY <2>1 DEF TypeOK, Steps
  <2>h. \A d \in Callers : InHand(d)' = InHand(d) /\ Moved(d)' = Moved(d) /\ mem'[d].moved = mem[d].moved
    BY <1>a, <1>c, <2>1, <2>2, QuietHands
  <2>3. TypeOK'
    BY <1>a, <1>c, <2>1, <2>2 DEF TypeOK
  <2>4. StepsFit'
    BY <1>b, <1>c, <1>d, <2>1, <2>2 DEF StepsFit
  <2>5. Hands'
    BY <1>c, <2>1, <2>h DEF Hands
  <2>6. Places'
    BY <1>b, <1>c, <2>1, <2>2, <2>h DEF Places
  <2>7. Targets'
    BY <1>b, <1>c, <2>1, <2>2, <2>h DEF Targets
  <2>8. Shredding'
    BY <1>b, <1>c, <2>2 DEF Shredding
  <2>9. Receipts'
    BY <1>c, ReceiptsKept
  <2> QED
    BY <2>3, <2>4, <2>5, <2>6, <2>7, <2>8, <2>9
<1>e. CASE mem[c].moved # <<>>
  <2>1. /\ mem' = [mem EXCEPT ![c].moved = Front(@)] /\ pc' = pc
        /\ IF o \in shelf \ home THEN home' = home \cup {o} /\ shelf' = shelf \ {o} ELSE UNCHANGED <<home, shelf>>
    BY <1>e DEF Restores
  <2>2. mem[c].moved \in Seq(Objects) /\ IsInjective(mem[c].moved)
    BY DEF TypeOK, Hands
  <2>3. /\ Front(mem[c].moved) \in Seq(Objects) /\ o \in Moved(c)
        /\ ToSet(Front(mem[c].moved)) = Moved(c) \ {o} /\ IsInjective(Front(mem[c].moved))
    BY <1>e, <2>2, Shortened DEF Moved
  <2>4. o \in InHand(c)
    BY <2>3 DEF InHand, Moved
  <2> HIDE DEF o
  <2>5. /\ o \in Objects /\ row[o] # "none"
        /\ o \notin late => row[o] = "active" /\ o \in shelf /\ o \notin home
    BY <2>3, <2>4, EmptySet, <2>2 DEF Hands, Moved
  <2>6. /\ home' = home \cup {o} /\ shelf \ {o} \subseteq shelf' /\ shelf' \subseteq shelf
        /\ o \notin late => shelf' = shelf \ {o}
    BY <2>1, <2>5 DEF Places
  <2>7. /\ mem' \in [Callers -> Memory]
        /\ \A d \in Callers \ {c} : mem'[d] = mem[d] /\ pc'[d] = pc[d]
        /\ mem'[c].moved = Front(mem[c].moved)
        /\ mem'[c].queue = mem[c].queue /\ mem'[c].plan = mem[c].plan
    BY <2>1, <2>3, MemoryTyped DEF Memory
  <2>8. Moved(c)' = Moved(c) \ {o} /\ InHand(c)' = InHand(c) \ {o} /\ IsInjective(mem'[c].moved)
    BY <1>c, <2>1, <2>3, <2>7 DEF Moved, InHand
  <2>9. \A d \in Callers \ {c} : InHand(d)' = InHand(d) /\ Moved(d)' = Moved(d)
    BY <1>a, <2>7, OtherHands
  <2>10. TypeOK'
    BY <1>a, <1>c, <2>1, <2>5, <2>6, <2>7 DEF TypeOK, Memory
  <2>11. StepsFit'
    BY <1>b, <1>c, <2>1, <2>7 DEF StepsFit
  <2>12. Hands'
    BY <1>c, <2>4, <2>6, <2>7, <2>8, <2>9 DEF Hands
  <2>13. Places'
    BY <1>b, <1>c, <2>1, <2>5, <2>6, <2>8, <2>9 DEF Places
  <2>14. Targets'
    BY <1>b, <1>c, <2>1, <2>7, <2>9 DEF Targets, Candidates
  <2>15. Shredding'
    BY <1>b, <1>c, <2>1 DEF Shredding
  <2>16. Receipts'
    BY <1>c, ReceiptsKept
  <2> QED
    BY <2>10, <2>11, <2>12, <2>13, <2>14, <2>15, <2>16
<1> QED
  BY <1>d, <1>e

\* What a caller loses is torn: it is in no hand any more.
LEMMA LosesAll ==
  ASSUME LifeInv, NEW c \in Callers, Loses(c)
  PROVE  /\ torn' = torn \cup InHand(c)
         /\ InHand(c) \subseteq Objects
<1>1. ToSet(mem[c].moved) \subseteq Objects
  BY EmptySet DEF LifeInv, TypeOK
<1>2. Object(c) \in Objects
  BY ScenesAssumption DEF LifeInv, TypeOK, Object, Call, Calls
<1> QED
  BY <1>1, <1>2 DEF Loses, InHand

\* What could not be restored is torn.
LEMMA RestoreFailsSound ==
  ASSUME LifeInv, NEW c \in Callers, RestoreFails(c)
  PROVE  LifeInv'
<1> USE DEF LifeInv
<1>a. scene' = scene
  BY DEF RestoreFails, Fault
<1>b. \A d \in Callers :
        /\ Call(d)' = Call(d) /\ Object(d)' = Object(d) /\ Object(d) \in Objects
        /\ Call(d).kind \in Kinds /\ Call(d).quota \in Nat
  BY <1>a, CallsStay
<1>c. /\ UNCHANGED <<row, reason, key, holds, references, receipts, home, shelf, late, destroyed, target, promoted>>
      /\ pc[c] = "restoring" /\ faults' \in 0..MaxFaults
  BY FaultCounts DEF RestoreFails, rows, graph, files, promotion
<1>d. torn' = torn \cup InHand(c) /\ InHand(c) \subseteq Objects
  BY LosesAll DEF RestoreFails
<1>e. /\ mem' = [mem EXCEPT ![c].moved = <<>>]
      /\ pc' = [pc EXCEPT ![c] = IF Call(c).kind = "collect" THEN "planned" ELSE "idle"]
  BY DEF RestoreFails, Goto
<1>f. /\ pc' \in [Callers -> Steps] /\ pc'[c] \in {"planned", "idle"}
      /\ pc'[c] = "planned" => Call(c).kind = "collect"
      /\ \A d \in Callers \ {c} : mem'[d] = mem[d] /\ pc'[d] = pc[d]
  BY <1>e DEF TypeOK, Steps
<1>g. /\ mem' \in [Callers -> Memory]
      /\ mem'[c].moved = <<>>
      /\ mem'[c].queue = mem[c].queue /\ mem'[c].plan = mem[c].plan
  <2>1. <<>> \in Seq(Objects)
    OBVIOUS
  <2> QED
    BY <1>e, <2>1, MemoryTyped DEF Memory
<1>h. InHand(c)' = {} /\ Moved(c)' = {} /\ IsInjective(mem'[c].moved)
  BY <1>f, <1>g, EmptyMoved DEF InHand, Moved
<1>i. \A d \in Callers \ {c} : InHand(d)' = InHand(d) /\ Moved(d)' = Moved(d)
  BY <1>a, <1>f, OtherHands
<1>1. TypeOK'
  BY <1>a, <1>c, <1>d, <1>f, <1>g DEF TypeOK, Memory
<1>2. StepsFit'
  BY <1>b, <1>c, <1>f, <1>g DEF StepsFit
<1>3. Hands'
  BY <1>c, <1>f, <1>h, <1>i DEF Hands
<1>4. Places'
  BY <1>b, <1>c, <1>d, <1>f, <1>i DEF Places
<1>5. Targets'
  BY <1>b, <1>c, <1>f, <1>i DEF Targets
<1>6. Shredding'
  BY <1>b, <1>c, <1>f DEF Shredding
<1>7. Receipts'
  BY <1>c, ReceiptsKept
<1> QED
  BY <1>1, <1>2, <1>3, <1>4, <1>5, <1>6, <1>7

\* What a caller held when it died is torn.
LEMMA DiesSound ==
  ASSUME LifeInv, NEW c \in Callers, Dies(c)
  PROVE  LifeInv'
<1> USE DEF LifeInv
<1>a. scene' = scene
  BY DEF Dies, Fault
<1>b. \A d \in Callers :
        /\ Call(d)' = Call(d) /\ Object(d)' = Object(d) /\ Object(d) \in Objects
        /\ Call(d).kind \in Kinds /\ Call(d).quota \in Nat
  BY <1>a, CallsStay
<1>c. /\ UNCHANGED <<row, reason, key, holds, references, receipts, home, shelf, late, destroyed, target, promoted>>
      /\ faults' \in 0..MaxFaults
  BY FaultCounts DEF Dies, rows, graph, files, promotion
<1>d. torn' = torn \cup InHand(c) /\ InHand(c) \subseteq Objects
  BY LosesAll DEF Dies
<1>e. /\ mem' = [mem EXCEPT ![c] = [Idle EXCEPT !.plan = mem[c].plan]]
      /\ pc' = [pc EXCEPT ![c] = IF mem[c].plan = None THEN "idle" ELSE "planned"]
  BY DEF Dies, Goto
<1>f. /\ pc' \in [Callers -> Steps] /\ pc'[c] \in {"planned", "idle"}
      /\ pc'[c] = "planned" => Call(c).kind = "collect" /\ mem[c].plan # None
      /\ \A d \in Callers \ {c} : mem'[d] = mem[d] /\ pc'[d] = pc[d]
  BY <1>e DEF TypeOK, Steps, StepsFit
<1>g. /\ mem' \in [Callers -> Memory]
      /\ mem'[c].moved = <<>>
      /\ mem'[c].plan = mem[c].plan
  <2> DEFINE m == [Idle EXCEPT !.plan = mem[c].plan]
  <2>1. mem[c].plan \in Plan \cup {None} /\ <<>> \in Seq(Objects)
    BY DEF TypeOK
  <2>2. Idle \in Memory /\ Idle.moved = <<>>
    BY <2>1 DEF Idle, Memory
  <2>3. m \in Memory /\ m.moved = <<>> /\ m.plan = mem[c].plan
    BY <2>1, <2>2 DEF Memory
  <2> HIDE DEF m
  <2>4. mem' = [mem EXCEPT ![c] = m]
    BY <1>e DEF m
  <2> QED
    BY <2>3, <2>4, MemoryTyped
<1>h. InHand(c)' = {} /\ Moved(c)' = {} /\ IsInjective(mem'[c].moved)
  BY <1>f, <1>g, EmptyMoved DEF InHand, Moved
<1>i. \A d \in Callers \ {c} : InHand(d)' = InHand(d) /\ Moved(d)' = Moved(d)
  BY <1>a, <1>f, OtherHands
<1>1. TypeOK'
  BY <1>a, <1>c, <1>d, <1>f, <1>g DEF TypeOK, Memory
<1>2. StepsFit'
  <2>1. pc'[c] = "planned" => mem'[c].plan \in Plan
    BY <1>f, <1>g DEF TypeOK
  <2> QED
    BY <1>b, <1>c, <1>f, <1>g, <2>1 DEF StepsFit
<1>3. Hands'
  BY <1>c, <1>f, <1>h, <1>i DEF Hands
<1>4. Places'
  BY <1>b, <1>c, <1>d, <1>f, <1>i DEF Places
<1>5. Targets'
  BY <1>b, <1>c, <1>f, <1>i DEF Targets
<1>6. Shredding'
  BY <1>b, <1>c, <1>f DEF Shredding
<1>7. Receipts'
  BY <1>c, ReceiptsKept
<1> QED
  BY <1>1, <1>2, <1>3, <1>4, <1>5, <1>6, <1>7

\* The object that could not be taken back is torn.
LEMMA ReinstateFailsSound ==
  ASSUME LifeInv, NEW c \in Callers, ReinstateFails(c)
  PROVE  LifeInv'
<1> USE DEF LifeInv
<1>a. scene' = scene
  BY DEF ReinstateFails, Fault
<1>b. \A d \in Callers :
        /\ Call(d)' = Call(d) /\ Object(d)' = Object(d) /\ Object(d) \in Objects
        /\ Call(d).kind \in Kinds /\ Call(d).quota \in Nat
  BY <1>a, CallsStay
<1>c. /\ UNCHANGED <<row, reason, key, holds, references, receipts, home, shelf, late, destroyed, target, promoted, mem>>
      /\ faults' \in 0..MaxFaults /\ pc[c] = "reinstating"
  BY FaultCounts DEF ReinstateFails, rows, graph, files, promotion
<1>d. torn' = torn \cup InHand(c) /\ InHand(c) \subseteq Objects
  BY LosesAll DEF ReinstateFails
<1>e. /\ pc' \in [Callers -> Steps] /\ pc'[c] = "idle"
      /\ \A d \in Callers \ {c} : pc'[d] = pc[d]
  BY DEF ReinstateFails, Goto, TypeOK, Steps
<1>h. InHand(c)' = {} /\ Moved(c)' = Moved(c)
  <2>1. mem[c].moved = <<>>
    BY <1>c DEF StepsFit
  <2> QED
    BY <1>c, <1>e, <2>1, EmptyMoved DEF InHand, Moved
<1>i. \A d \in Callers \ {c} : InHand(d)' = InHand(d) /\ Moved(d)' = Moved(d)
  BY <1>a, <1>c, <1>e, OtherHands
<1>1. TypeOK'
  BY <1>a, <1>c, <1>d, <1>e DEF TypeOK
<1>2. StepsFit'
  BY <1>b, <1>c, <1>e DEF StepsFit
<1>3. Hands'
  BY <1>c, <1>e, <1>h, <1>i DEF Hands
<1>4. Places'
  BY <1>b, <1>c, <1>d, <1>e, <1>i DEF Places
<1>5. Targets'
  BY <1>b, <1>c, <1>e, <1>h, <1>i DEF Targets
<1>6. Shredding'
  BY <1>b, <1>c, <1>e DEF Shredding
<1>7. Receipts'
  BY <1>c, ReceiptsKept
<1> QED
  BY <1>1, <1>2, <1>3, <1>4, <1>5, <1>6, <1>7

\* The object whose key could not be destroyed goes back.
LEMMA ReinstatesSound ==
  ASSUME LifeInv, NEW c \in Callers, Reinstates(c)
  PROVE  LifeInv'
<1> USE DEF LifeInv
<1>a. scene' = scene
  BY DEF Reinstates, control
<1>b. \A d \in Callers :
        /\ Call(d)' = Call(d) /\ Object(d)' = Object(d) /\ Object(d) \in Objects
        /\ Call(d).kind \in Kinds /\ Call(d).quota \in Nat
  BY <1>a, CallsStay
<1>c. /\ UNCHANGED <<row, reason, key, holds, references, receipts, late, destroyed, target, promoted, mem, faults, torn>>
      /\ pc[c] = "reinstating"
  BY DEF Reinstates, rows, graph, promotion, control
<1>d. InHand(c) = {Object(c)} /\ mem[c].moved = <<>>
  <2>1. mem[c].moved = <<>>
    BY <1>c DEF StepsFit
  <2> QED
    BY <1>c, <2>1, EmptyMoved DEF InHand
<1>e. /\ row[Object(c)] # "none"
      /\ Object(c) \notin late => row[Object(c)] = "active" /\ Object(c) \in shelf /\ Object(c) \notin home
  BY <1>d DEF Hands
<1>f. /\ pc' \in [Callers -> Steps] /\ pc'[c] = "idle"
      /\ \A d \in Callers \ {c} : pc'[d] = pc[d]
      /\ home' = home \cup {Object(c)} /\ shelf' = shelf \ {Object(c)}
  <2>1. Object(c) \in home \/ Object(c) \in shelf
    BY <1>b, <1>e DEF Places
  <2> QED
    BY <1>e, <2>1 DEF Reinstates, Goto, TypeOK, Steps
<1>h. InHand(c)' = {} /\ Moved(c)' = Moved(c)
  BY <1>c, <1>d, <1>f, EmptyMoved DEF InHand, Moved
<1>i. \A d \in Callers \ {c} : InHand(d)' = InHand(d) /\ Moved(d)' = Moved(d)
                               /\ (Object(c) \notin late => Object(c) \notin InHand(d))
  BY <1>a, <1>c, <1>d, <1>f, OtherHands DEF Hands
<1>1. TypeOK'
  BY <1>a, <1>b, <1>c, <1>f DEF TypeOK
<1>2. StepsFit'
  BY <1>b, <1>c, <1>f DEF StepsFit
<1>3. Hands'
  BY <1>c, <1>f, <1>h, <1>i DEF Hands
<1>4. Places'
  BY <1>b, <1>c, <1>d, <1>e, <1>f, <1>i DEF Places
<1>5. Targets'
  BY <1>b, <1>c, <1>f, <1>h, <1>i DEF Targets
<1>6. Shredding'
  BY <1>b, <1>c, <1>f DEF Shredding
<1>7. Receipts'
  BY <1>c, ReceiptsKept
<1> QED
  BY <1>1, <1>2, <1>3, <1>4, <1>5, <1>6, <1>7

\* A first forget takes its row back; a resumed one leaves it.
LEMMA ShredFailsSound ==
  ASSUME LifeInv, NEW c \in Callers, ShredFails(c)
  PROVE  LifeInv'
<1> USE DEF LifeInv
<1>a. scene' = scene
  BY DEF ShredFails, Fault
<1>b. \A d \in Callers :
        /\ Call(d)' = Call(d) /\ Object(d)' = Object(d) /\ Object(d) \in Objects
        /\ Call(d).kind \in Kinds /\ Call(d).quota \in Nat
  BY <1>a, CallsStay
<1>c. /\ UNCHANGED <<key, holds, references, receipts, home, shelf, late, destroyed, target, promoted, mem, torn>>
      /\ faults' \in 0..MaxFaults /\ pc[c] \in {"shredding", "resuming"}
  BY FaultCounts DEF ShredFails, graph, files, promotion
<1>d. mem[c].moved = <<>> /\ Call(c).kind = "forget"
  BY <1>c DEF StepsFit
<1>e. CASE pc[c] = "resuming"
  <2>1. UNCHANGED <<row, reason>> /\ pc' = [pc EXCEPT ![c] = "idle"]
    BY <1>e DEF ShredFails, Goto
  <2>2. pc' \in [Callers -> Steps] /\ pc'[c] = "idle" /\ \A d \in Callers \ {c} : pc'[d] = pc[d]
    BY <2>1 DEF TypeOK, Steps
  <2>h. \A d \in Callers : InHand(d)' = InHand(d) /\ Moved(d)' = Moved(d) /\ mem'[d].moved = mem[d].moved
    BY <1>a, <1>c, <1>e, <2>2, QuietHands
  <2>3. TypeOK'
    BY <1>a, <1>c, <2>1, <2>2 DEF TypeOK
  <2>4. StepsFit'
    BY <1>b, <1>c, <2>2 DEF StepsFit
  <2>5. Hands'
    BY <1>c, <2>1, <2>h DEF Hands
  <2>6. Places'
    BY <1>b, <1>c, <2>1, <2>2, <2>h DEF Places
  <2>7. Targets'
    BY <1>b, <1>c, <2>1, <2>2, <2>h DEF Targets
  <2>8. Shredding'
    BY <1>b, <1>c, <2>1, <2>2 DEF Shredding
  <2>9. Receipts'
    BY <1>c, <2>1, ReceiptsKept
  <2> QED
    BY <2>3, <2>4, <2>5, <2>6, <2>7, <2>8, <2>9
<1>f. CASE pc[c] = "shredding"
  <2>1. /\ row' = [row EXCEPT ![Object(c)] = "active"]
        /\ reason' = [reason EXCEPT ![Object(c)] = "none"]
        /\ pc' = [pc EXCEPT ![c] = "reinstating"]
    BY <1>f DEF ShredFails, Goto
  <2>2. pc' \in [Callers -> Steps] /\ pc'[c] = "reinstating" /\ \A d \in Callers \ {c} : pc'[d] = pc[d]
    BY <2>1 DEF TypeOK, Steps
  <2>3. /\ row[Object(c)] # "none"
        /\ Object(c) \notin late => /\ row[Object(c)] = "quarantined" /\ reason[Object(c)] = "forget"
                                   /\ Object(c) \in shelf /\ Object(c) \notin home
    BY <1>b, <1>f DEF Shredding, Places
  <2>4. /\ row' \in [Objects -> {"none", "active", "quarantined"}] /\ reason' \in [Objects -> Kinds \cup {"none"}]
        /\ row'[Object(c)] = "active"
        /\ \A o \in Objects \ {Object(c)} : row'[o] = row[o] /\ reason'[o] = reason[o]
    BY <1>b, <2>1 DEF TypeOK
  <2>5. \A d \in Callers : (Object(c) \notin late => Object(c) \notin InHand(d)) /\ InHand(d) \subseteq Objects
    BY <1>b, <2>3, EmptySet DEF Hands, InHand, TypeOK
  <2>6. InHand(c)' = InHand(c) \cup {Object(c)} /\ Moved(c)' = Moved(c)
    BY <1>b, <1>c, <1>f, <2>2 DEF InHand, Moved
  <2>7. \A d \in Callers \ {c} : InHand(d)' = InHand(d) /\ Moved(d)' = Moved(d)
    BY <1>a, <1>c, <2>2, OtherHands
  <2>8. TypeOK'
    BY <1>a, <1>c, <2>2, <2>4 DEF TypeOK
  <2>9. StepsFit'
    BY <1>b, <1>c, <1>d, <2>2 DEF StepsFit
  <2>10. Hands'
    BY <1>c, <2>3, <2>4, <2>5, <2>6, <2>7 DEF Hands
  <2>11. Places'
    BY <1>b, <1>c, <2>2, <2>3, <2>4, <2>6, <2>7 DEF Places
  <2>12. Targets'
    <3>1. \A d \in Callers : mem[d].queue \subseteq Objects
      BY DEF TypeOK
    <3>2. \A o \in Objects : row[o] # "none" => row'[o] # "none"
      BY <2>4
    <3> QED
      BY <1>b, <1>c, <2>2, <2>6, <2>7, <3>1, <3>2 DEF Targets
  <2>13. Shredding'
    BY <1>b, <1>c, <1>f, <2>2, <2>4 DEF Shredding
  <2>14. Receipts'
    BY <1>c, <2>3, <2>4, ReceiptsKept
  <2> QED
    BY <2>8, <2>9, <2>10, <2>11, <2>12, <2>13, <2>14
<1> QED
  BY <1>c, <1>e, <1>f

\* The rows follow the bytes in hand, unless the plan has a receipt already.
LEMMA MarksSound ==
  ASSUME LifeInv, NEW c \in Callers, Marks(c)
  PROVE  LifeInv'
<1> USE DEF LifeInv
<1>a. scene' = scene
  BY DEF Marks, control
<1>b. \A d \in Callers :
        /\ Call(d)' = Call(d) /\ Object(d)' = Object(d) /\ Object(d) \in Objects
        /\ Call(d).kind \in Kinds /\ Call(d).quota \in Nat
  BY <1>a, CallsStay
<1>c. /\ UNCHANGED <<key, holds, references, home, shelf, late, destroyed, target, promoted, faults, torn>>
      /\ pc[c] = "moving" /\ mem[c].queue = {}
  BY DEF Marks, graph, files, promotion, control
<1>d. CASE Call(c).kind = "collect" /\ mem[c].plan \in receipts
  <2>1. UNCHANGED <<row, reason, receipts, mem>> /\ pc' = [pc EXCEPT ![c] = "restoring"]
    BY <1>d DEF Marks, Goto
  <2>2. pc' \in [Callers -> Steps] /\ pc'[c] = "restoring" /\ \A d \in Callers \ {c} : pc'[d] = pc[d]
    BY <2>1 DEF TypeOK, Steps
  <2>h. \A d \in Callers : InHand(d)' = InHand(d) /\ Moved(d)' = Moved(d) /\ mem'[d].moved = mem[d].moved
    BY <1>a, <1>c, <2>1, <2>2, QuietHands
  <2>3. TypeOK'
    BY <1>a, <1>c, <2>1, <2>2 DEF TypeOK
  <2>4. StepsFit'
    BY <1>b, <1>c, <2>1, <2>2 DEF StepsFit
  <2>5. Hands'
    BY <1>c, <2>1, <2>h DEF Hands
  <2>6. Places'
    BY <1>b, <1>c, <2>1, <2>2, <2>h DEF Places
  <2>7. Targets'
    BY <1>b, <1>c, <2>1, <2>2, <2>h DEF Targets
  <2>8. Shredding'
    BY <1>b, <1>c, <2>1, <2>2 DEF Shredding
  <2>9. Receipts'
    BY <1>c, <2>1, ReceiptsKept
  <2> QED
    BY <2>3, <2>4, <2>5, <2>6, <2>7, <2>8, <2>9
<1>e. CASE ~(Call(c).kind = "collect" /\ mem[c].plan \in receipts)
  <2> DEFINE kind == Call(c).kind
  <2>1. /\ Quarantine(Moved(c), kind)
        /\ receipts' = IF kind = "collect" THEN receipts \cup {mem[c].plan} ELSE receipts
        /\ mem' = [mem EXCEPT ![c].moved = <<>>]
        /\ pc' = [pc EXCEPT ![c] = IF kind = "forget" /\ Object(c) \in key THEN "shredding" ELSE "done"]
    BY <1>e DEF Marks, Goto, Moved
  <2>2. /\ pc' \in [Callers -> Steps] /\ pc'[c] \in {"shredding", "done"}
        /\ pc'[c] = "shredding" => kind = "forget"
        /\ \A d \in Callers \ {c} : mem'[d] = mem[d] /\ pc'[d] = pc[d]
    BY <2>1 DEF TypeOK, Steps
  <2>3. \A o \in Moved(c) :
          /\ o \in Objects /\ row[o] # "none"
          /\ o \notin late => row[o] = "active" /\ o \in shelf /\ o \notin home
    BY EmptySet DEF Hands, InHand, Moved, TypeOK
  <2>4. /\ row' \in [Objects -> {"none", "active", "quarantined"}] /\ reason' \in [Objects -> Kinds \cup {"none"}]
        /\ \A o \in Moved(c) : row'[o] = "quarantined" /\ (row[o] = "active" => reason'[o] = kind)
        /\ \A o \in Objects \ Moved(c) : row'[o] = row[o] /\ reason'[o] = reason[o]
    BY <1>b, <2>1, <2>3 DEF Quarantine, TypeOK
  <2>5. mem' \in [Callers -> Memory] /\ mem'[c].moved = <<>> /\ mem'[c].plan = mem[c].plan
    <3>1. <<>> \in Seq(Objects)
      OBVIOUS
    <3> QED
      BY <2>1, <3>1, MemoryTyped DEF Memory
  <2>6. InHand(c)' = {} /\ Moved(c)' = {} /\ IsInjective(mem'[c].moved) /\ InHand(c) = Moved(c)
    BY <1>c, <2>2, <2>5, EmptyMoved DEF InHand, Moved
  <2>7. \A d \in Callers \ {c} : InHand(d)' = InHand(d) /\ Moved(d)' = Moved(d)
                                 /\ \A o \in InHand(d) : o \notin late => o \notin Moved(c)
    BY <1>a, <2>2, <2>6, OtherHands DEF Hands
  <2>8. Moved(c) = IF kind = "collect" THEN Candidates(mem[c].plan) ELSE {Object(c)}
    BY <1>c DEF Targets
  <2>9. kind = "collect" => mem[c].plan \in Plan
    BY <1>c DEF StepsFit
  <2>10. \A o \in Objects : row[o] # "active" => row'[o] = row[o] /\ reason'[o] = reason[o]
    BY <2>1 DEF Quarantine
  <2>11. TypeOK'
    <3>1. receipts' \subseteq Plan
      BY <2>1, <2>9 DEF TypeOK
    <3> QED
      BY <1>a, <1>c, <2>2, <2>4, <2>5, <3>1 DEF TypeOK, Memory
  <2>12. StepsFit'
    BY <1>b, <1>c, <2>2, <2>5 DEF StepsFit
  <2>13. Hands'
    <3>1. \A d \in Callers : InHand(d) \subseteq Objects
      BY <1>b, EmptySet DEF InHand, TypeOK
    <3> QED
      BY <1>c, <2>2, <2>4, <2>6, <2>7, <3>1 DEF Hands
  <2>14. Places'
    BY <1>b, <1>c, <2>2, <2>3, <2>4, <2>6, <2>7 DEF Places
  <2>15. Targets'
    <3>1. \A d \in Callers : mem[d].queue \subseteq Objects
      BY DEF TypeOK
    <3>2. \A o \in Objects : row[o] # "none" => row'[o] # "none"
      BY <2>4
    <3> QED
      BY <1>b, <1>c, <2>2, <2>7, <3>1, <3>2 DEF Targets
  <2>16. Shredding'
    <3>1. pc'[c] = "shredding" =>
            /\ row'[Object(c)] = "quarantined"
            /\ Object(c) \notin late => row[Object(c)] = "active" /\ reason'[Object(c)] = "forget"
      BY <2>2, <2>3, <2>4, <2>8
    <3>2. \A o \in Objects : row[o] # "none" => row'[o] # "none"
      BY <2>4
    <3> QED
      BY <1>b, <1>c, <2>2, <2>10, <3>1, <3>2 DEF Shredding
  <2>17. Receipts'
    <3>1. \A plan \in receipts : Candidates(plan) \subseteq Objects
      BY CandidatesKnown DEF TypeOK
    <3>2. \A plan \in receipts : \A o \in Candidates(plan) \ late : row'[o] = "quarantined" /\ reason'[o] = "collect"
      BY <2>10, <3>1 DEF Receipts
    <3>3. kind = "collect" =>
            \A o \in Candidates(mem[c].plan) \ late : row'[o] = "quarantined" /\ reason'[o] = "collect"
      BY <2>3, <2>4, <2>8
    <3>4. \A plan : Candidates(plan)' = Candidates(plan)
      BY DEF Candidates
    <3> QED
      BY <1>c, <2>1, <3>2, <3>3, <3>4 DEF Receipts
  <2> QED
    BY <2>11, <2>12, <2>13, <2>14, <2>15, <2>16, <2>17
<1> QED
  BY <1>d, <1>e

\* An edit by hand changes the canonical file alone.
LEMMA EditSound ==
  ASSUME LifeInv, Edit
  PROVE  LifeInv'
<1> USE DEF LifeInv
<1>a. scene' = scene
  BY DEF Edit, Fault
<1>b. \A d \in Callers : Call(d)' = Call(d) /\ Object(d)' = Object(d)
  BY <1>a, CallsStay
<1>c. /\ UNCHANGED <<row, reason, key, holds, references, receipts, home, shelf, late, destroyed, promoted, pc, mem, torn>>
      /\ faults' \in 0..MaxFaults /\ target' = "theirs"
  BY FaultCounts DEF Edit, rows, graph, files
<1>h. \A d \in Callers : InHand(d)' = InHand(d) /\ Moved(d)' = Moved(d)
  BY <1>a, <1>c, QuietHands
<1>1. TypeOK'
  BY <1>a, <1>c DEF TypeOK
<1>2. StepsFit' /\ Hands' /\ Places' /\ Targets' /\ Shredding'
  BY <1>b, <1>c, <1>h DEF StepsFit, Hands, Places, Targets, Shredding
<1>3. Receipts'
  BY <1>c, ReceiptsKept
<1> QED
  BY <1>1, <1>2, <1>3

-----------------------------------------------------------------------------
(* The keys. *)

\* A step that leaves rows and keys alone, and begins nothing with a key.
LEMMA KeysKept ==
  ASSUME TypeOK, Keys, scene' = scene, UNCHANGED <<row, key, destroyed>>,
         \A d \in Callers : pc'[d] # pc[d] => pc'[d] # "clearing"
  PROVE  Keys'
<1>1. \A d \in Callers : Object(d)' = Object(d)
  BY CallsStay
<1> QED
  BY <1>1 DEF Keys

\* The steps that no key is about.
LEMMA WorksKeepKeys ==
  ASSUME LifeInv, Keys, NEW c \in Callers,
         \/ Registers(c) \/ FindsBytes(c) \/ Writes(c) \/ Refers(c) \/ Holds(c) \/ Plans(c) \/ Applies(c)
         \/ Takes(c) \/ Moves(c) \/ Restores(c) \/ Reinstates(c)
         \/ Inspects(c) \/ InspectsAgain(c) \/ Publishes(c) \/ Records(c)
  PROVE  Keys'
<1>1. scene' = scene /\ UNCHANGED <<row, key, destroyed>>
  BY DEF Registers, FindsBytes, Writes, Refers, Holds, Plans, Applies, Takes, Moves, Restores, Reinstates,
         Inspects, InspectsAgain, Publishes, Records, rows, control
<1>2. \A d \in Callers : pc'[d] # pc[d] => pc'[d] # "clearing"
  BY DEF Registers, FindsBytes, Writes, Refers, Holds, Plans, Applies, Takes, Moves, Restores, Reinstates,
         Inspects, InspectsAgain, Publishes, Records, Goto, LifeInv, TypeOK
<1> QED
  BY <1>1, <1>2, KeysKept DEF LifeInv

\* The faults that no key is about.
LEMMA FaultsKeepKeys ==
  ASSUME LifeInv, Keys, NEW c \in Callers,
         MoveFails(c) \/ RestoreFails(c) \/ ReinstateFails(c) \/ ClearFails(c) \/ Dies(c)
  PROVE  Keys'
<1>1. scene' = scene /\ UNCHANGED <<row, key, destroyed>>
  BY DEF MoveFails, RestoreFails, ReinstateFails, ClearFails, Dies, rows, Fault
<1>2. \A d \in Callers : pc'[d] # pc[d] => pc'[d] # "clearing"
  BY DEF MoveFails, RestoreFails, ReinstateFails, ClearFails, Dies, Goto, LifeInv, TypeOK
<1> QED
  BY <1>1, <1>2, KeysKept DEF LifeInv

\* A new row of a keyed object comes with its key.
LEMMA InsertsKeys ==
  ASSUME LifeInv, Keys, NEW c \in Callers, Inserts(c)
  PROVE  Keys'
<1>1. scene' = scene /\ UNCHANGED <<reason, destroyed>>
  BY DEF Inserts, control
<1>2. \A d \in Callers : Object(d)' = Object(d) /\ Object(d) \in Objects
  BY <1>1, CallsStay DEF LifeInv
<1>3. \A d \in Callers : pc'[d] # pc[d] => pc'[d] = "done"
  BY DEF Inserts, Goto, LifeInv, TypeOK
<1>4. /\ \A o \in Objects : row[o] # "none" => row'[o] = row[o]
      /\ \A o \in Objects : row'[o] # "none" => row[o] # "none" \/ o \notin scene.keyed \/ o \in key'
      /\ key \subseteq key'
  BY DEF Inserts, LifeInv, TypeOK
<1> QED
  BY <1>1, <1>2, <1>3, <1>4 DEF Keys

\* No step of a forget makes a row of nothing, or takes a key from its row.
LEMMA RowsKeepKeys ==
  ASSUME LifeInv, Keys, NEW c \in Callers, Marks(c) \/ ShredFails(c)
  PROVE  Keys'
<1>1. scene' = scene /\ UNCHANGED <<key, destroyed>>
  BY DEF Marks, ShredFails, control, Fault
<1>2. \A d \in Callers : Object(d)' = Object(d) /\ Object(d) \in Objects
  BY <1>1, CallsStay DEF LifeInv
<1>3. \A d \in Callers : pc'[d] # pc[d] => pc'[d] # "clearing"
  BY DEF Marks, ShredFails, Goto, LifeInv, TypeOK
<1>4. ASSUME NEW o \in Objects, row'[o] # "none", row[o] = "none" PROVE o \notin scene.keyed \/ o \in key
  <2>1. CASE Marks(c)
    BY <1>4, <2>1 DEF Marks, Quarantine
  <2>2. CASE ShredFails(c)
    <3>1. row' = row \/ (pc[c] = "shredding" /\ row' = [row EXCEPT ![Object(c)] = "active"])
      BY <2>2 DEF ShredFails
    <3>2. pc[c] = "shredding" => row[Object(c)] # "none"
      BY DEF LifeInv, Shredding
    <3> QED
      BY <1>2, <1>4, <3>1, <3>2 DEF LifeInv, TypeOK
  <2> QED
    BY <2>1, <2>2
<1> QED
  BY <1>1, <1>2, <1>3, <1>4 DEF Keys

\* What is about to give up its key has no key left to destroy.
LEMMA ShredsKeys ==
  ASSUME LifeInv, Keys, NEW c \in Callers, Shreds(c)
  PROVE  Keys'
<1>1. scene' = scene /\ UNCHANGED <<row, key>> /\ destroyed' = destroyed \cup {Object(c)}
  BY DEF Shreds, control, rows
<1>2. \A d \in Callers : Object(d)' = Object(d)
  BY <1>1, CallsStay DEF LifeInv
<1>3. \A d \in Callers \ {c} : pc'[d] = pc[d]
  BY DEF Shreds, Goto, LifeInv, TypeOK
<1> QED
  BY <1>1, <1>2, <1>3 DEF Keys

\* A row gives up its key once the key is destroyed.
LEMMA ClearsKeys ==
  ASSUME LifeInv, Keys, NEW c \in Callers, Clears(c)
  PROVE  Keys'
<1>1. scene' = scene /\ UNCHANGED <<row, destroyed>> /\ key \ {Object(c)} \subseteq key'
  BY DEF Clears, control
<1>2. \A d \in Callers : Object(d)' = Object(d)
  BY <1>1, CallsStay DEF LifeInv
<1>3. \A d \in Callers : pc'[d] # pc[d] => pc'[d] = "done"
  BY DEF Clears, Goto, LifeInv, TypeOK
<1>4. Object(c) \in destroyed
  BY DEF Clears, Keys
<1> QED
  BY <1>1, <1>2, <1>3, <1>4 DEF Keys

\* An edit by hand leaves rows and keys alone.
LEMMA EditKeys ==
  ASSUME LifeInv, Keys, Edit
  PROVE  Keys'
<1>1. scene' = scene
  BY DEF Edit, Fault
<1>2. \A d \in Callers : Call(d)' = Call(d) /\ Object(d)' = Object(d)
  BY <1>1, CallsStay DEF LifeInv
<1> QED
  BY <1>1, <1>2 DEF Keys, Edit, rows

-----------------------------------------------------------------------------
(* The theorems. *)

\* The invariant holds at first.
LEMMA InitSound == Init => LifeInv /\ Keys
<1> SUFFICES ASSUME Init PROVE LifeInv /\ Keys
  OBVIOUS
<1>a. /\ scene \in Scenes /\ scene.stored \subseteq Objects /\ scene.keyed \subseteq Objects
  BY ScenesAssumption DEF Init
<1>b. /\ pc \in [Callers -> Steps] /\ mem \in [Callers -> Memory]
      /\ \A c \in Callers : pc[c] = "idle" /\ mem[c] = Idle
  <2>1. Idle \in Memory
    <3>1. <<>> \in Seq(Objects)
      OBVIOUS
    <3> QED
      BY <3>1 DEF Idle, Memory
  <2> QED
    BY <2>1 DEF Init, Steps
<1>c. \A c \in Callers : /\ mem[c].moved = <<>> /\ mem[c].plan = None
                          /\ InHand(c) = {} /\ IsInjective(mem[c].moved)
  BY <1>b, EmptyMoved DEF Idle, InHand
<1>1. TypeOK
  <2>1. /\ row \in [Objects -> {"none", "active", "quarantined"}]
        /\ reason \in [Objects -> Kinds \cup {"none"}]
        /\ faults \in 0..MaxFaults
    BY BoundAssumption DEF Init
  <2>2. /\ holds = {} /\ references = {} /\ receipts = {} /\ shelf = {} /\ late = {} /\ destroyed = {} /\ torn = {}
        /\ home = scene.stored /\ key = scene.stored \cap scene.keyed
        /\ target = "absent" /\ promoted = FALSE
    BY DEF Init
  <2> QED
    BY <1>a, <1>b, <2>1, <2>2 DEF TypeOK, Memory
<1>2. StepsFit
  BY <1>b, <1>c DEF StepsFit
<1>3. Hands
  BY <1>c DEF Hands
<1>4. Places
  BY <1>a, <1>b DEF Init, Places
<1>5. Targets /\ Shredding
  BY <1>b DEF Targets, Shredding
<1>6. Receipts
  BY DEF Init, Receipts
<1>7. Keys
  BY <1>a, <1>b DEF Init, Keys
<1> QED
  BY <1>1, <1>2, <1>3, <1>4, <1>5, <1>6, <1>7 DEF LifeInv

\* The invariant is about the variables only.
LEMMA StutterSound ==
  ASSUME LifeInv, UNCHANGED vars
  PROVE  LifeInv' /\ (Keys => Keys')
<1>1. /\ UNCHANGED <<row, reason, key, holds, references, receipts, home, shelf, late, destroyed, target, promoted>>
      /\ UNCHANGED <<pc, mem, scene, faults, torn>>
  BY DEF vars, rows, graph, files, promotion, control
<1>2. \A d \in Callers : /\ Call(d)' = Call(d) /\ Object(d)' = Object(d)
                          /\ InHand(d)' = InHand(d) /\ Moved(d)' = Moved(d)
  BY <1>1 DEF Call, Object, InHand, Moved
<1>3. Receipts'
  BY <1>1, ReceiptsKept DEF LifeInv
<1> QED
  BY <1>1, <1>2, <1>3 DEF LifeInv, TypeOK, StepsFit, Hands, Places, Targets, Shredding, Keys

\* Every step keeps the invariant.
LEMMA NextSound == LifeInv /\ [Next]_vars => LifeInv'
<1> SUFFICES ASSUME LifeInv, [Next]_vars PROVE LifeInv'
  OBVIOUS
<1>1. ASSUME NEW c \in Callers, Works(c) PROVE LifeInv'
  BY <1>1, WritesSound, InsertsSound, PlansSound, AppliesSound, TakesSound, MovesOneSound,
     MovesNothingSound, MarksSound, RestoresSound, ReinstatesSound, QuietSound DEF Works
<1>2. ASSUME NEW c \in Callers, Fails(c) PROVE LifeInv'
  BY <1>2, MoveFailsSound, RestoreFailsSound, ShredFailsSound, ReinstateFailsSound, DiesSound, QuietSound
     DEF Fails
<1> QED
  BY <1>1, <1>2, EditSound, StutterSound DEF Next

\* Every step keeps rows and keys together.
LEMMA NextKeys == LifeInv /\ Keys /\ [Next]_vars => Keys'
<1> SUFFICES ASSUME LifeInv, Keys, [Next]_vars PROVE Keys'
  OBVIOUS
<1>1. ASSUME NEW c \in Callers, Works(c) PROVE Keys'
  BY <1>1, InsertsKeys, RowsKeepKeys, ShredsKeys, ClearsKeys, WorksKeepKeys DEF Works
<1>2. ASSUME NEW c \in Callers, Fails(c) PROVE Keys'
  BY <1>2, RowsKeepKeys, FaultsKeepKeys DEF Fails
<1> QED
  BY <1>1, <1>2, EditKeys, StutterSound DEF Next

\* The invariant holds in every reachable state.
THEOREM Invariance == Spec => []LifeInv
BY InitSound, NextSound, PTL DEF Spec

\* The bytes of a registered object are never lost, and those of an active one
\* are at its path or in a hand, whatever fails and whoever else is at work.
THEOREM BytesTheorem == Spec => []BytesFollowRows
<1>1. LifeInv => BytesFollowRows
  BY DEF LifeInv, Places, Hands, TypeOK, BytesFollowRows
<1> QED
  BY <1>1, Invariance, PTL

\* What a collection recorded stays true.
THEOREM ReceiptsTheorem == Spec => []ReceiptsAreTrue
<1>1. LifeInv => ReceiptsAreTrue
  <2> SUFFICES ASSUME LifeInv PROVE ReceiptsAreTrue
    OBVIOUS
  <2>1. \A plan \in receipts : Candidates(plan) \subseteq Objects
    BY CandidatesKnown DEF LifeInv, TypeOK
  <2> QED
    BY <2>1 DEF LifeInv, Receipts, Places, ReceiptsAreTrue
<1> QED
  BY <1>1, Invariance, PTL

\* Rows, bytes and keys agree.
THEOREM RowsTheorem == Spec => []RowsAreTrue
<1>1. LifeInv /\ Keys => RowsAreTrue
  BY DEF LifeInv, Keys, Places, Hands, TypeOK, BytesFollowRows, KeysFollowRows, RowsAreTrue
<1> QED
  BY <1>1, InitSound, NextSound, NextKeys, PTL DEF Spec

\* Only a move brings bytes to quarantine.
LEMMA OnlyMovesTake ==
  ASSUME LifeInv, [Next]_vars, NEW o \in shelf' \ shelf
  PROVE  \E d \in Callers : Moves(d) /\ o = NextCandidate(d)
<1>1. ASSUME NEW d \in Callers, Moves(d) PROVE o = NextCandidate(d)
  BY <1>1 DEF Moves, files
<1>2. ASSUME NEW d \in Callers, Restores(d) PROVE FALSE
  BY <1>2 DEF Restores, files
<1>3. ASSUME NEW d \in Callers, Reinstates(d) PROVE FALSE
  BY <1>3 DEF Reinstates, files
<1>4. ASSUME NEW d \in Callers, Works(d) PROVE Moves(d)
  BY <1>2, <1>3, <1>4 DEF Works, Registers, FindsBytes, Writes, Inserts, Refers, Holds, Plans, Applies, Takes,
     Marks, Shreds,
     Clears, Inspects, InspectsAgain, Publishes, Records, files
<1>5. ASSUME NEW d \in Callers, Fails(d) PROVE FALSE
  BY <1>5 DEF Fails, MoveFails, RestoreFails, ShredFails, ReinstateFails, ClearFails, Dies, files
<1>6. ~Edit /\ ~UNCHANGED vars
  BY DEF Edit, vars, files
<1> QED
  BY <1>1, <1>4, <1>5, <1>6 DEF Next

\* Nothing protected when a call was allowed to begin is taken away by it.
THEOREM ProtectionTheorem == Spec => ProtectedObjectsStay
<1> DEFINE Stays == \A c \in Callers, o \in shelf' \ shelf : mem'[c].moved # mem[c].moved => o \notin mem[c].guarded
<1>1. LifeInv /\ [Next]_vars => Stays
  <2> SUFFICES ASSUME LifeInv, [Next]_vars, NEW c \in Callers, NEW o \in shelf' \ shelf,
                      mem'[c].moved # mem[c].moved
               PROVE  o \notin mem[c].guarded
    OBVIOUS
  <2>1. PICK d \in Callers : Moves(d) /\ o = NextCandidate(d)
    BY OnlyMovesTake
  <2>2. c = d
    BY <2>1 DEF Moves, LifeInv, TypeOK
  <2>3. pc[d] = "moving" /\ mem[d].queue # {}
    BY <2>1 DEF Moves
  <2>4. o \in mem[d].queue
    BY <2>1, <2>3, NextIsLeft DEF LifeInv
  <2> QED
    BY <2>2, <2>3, <2>4 DEF LifeInv, Targets
<1> QED
  BY <1>1, Invariance, PTL DEF Spec, ProtectedObjectsStay

=============================================================================
