---------------------------- MODULE ActivationProofs ----------------------------
(***************************************************************************)
(* What the order of an activation's, a rollback's and a removal's steps   *)
(* keeps, for any number of processes and releases and whichever of them   *)
(* die or fail at any step.  The lock is an assumption, []OneOwner: with   *)
(* four commands and a death it can be lost (the run activation_owners),   *)
(* and nothing is claimed of what happens then.                            *)
(*                                                                         *)
(* Files: under the lock only one process acts on the files, so what it    *)
(* found or made in an earlier step still holds at the next one.           *)
(*                                                                         *)
(* Retries: while all commands are about one release, whatever one of them *)
(* leaves behind is what the next one can begin with.                      *)
(***************************************************************************)
EXTENDS Activation, TLAPS

JournalStates == {"none", "PREPARED", "PUBLISHED", "COMMITTED"}

Typed ==
  /\ command \in [Issuers -> [kind : Kinds, release : Releases, bound : BOOLEAN, safe : BOOLEAN]]
  /\ step \in [Issuers -> Steps]
  /\ mode \in [Issuers -> Kinds]
  /\ active \in Releases \cup {Nil}
  /\ journal \in [state : JournalStates, target : Releases \cup {Nil}]
  /\ tx \in [Releases -> {"none", "partial", "copied", "sealed"}]
  /\ content \in [Releases -> {"none", "partial", "copied", "sealed", "torn"}]
  /\ verified \in [releases : SUBSET Releases, latest : Releases \cup {Nil}]

\* The release a command may point to.
Trusted(p) == command[p].bound => Recorded(Release(p))

\* What the holder of the lock knows at its next step.
StageIsTrue(p) ==
  /\ step[p] \in {"copying", "filling", "probing", "sealing"} => mode[p] # "rollback"
  /\ step[p] = "preparing" =>
       IF mode[p] = "rollback" THEN Installed(Release(p)) /\ Trusted(p) ELSE tx[Release(p)] = "sealed"
  /\ step[p] = "publishing" => tx[Release(p)] = "sealed"
  /\ step[p] = "reprobing" => Installed(Release(p)) /\ (mode[p] = "rollback" => Trusted(p))
  /\ step[p] \in {"noting", "recording"} => Installed(Release(p))
  /\ step[p] = "switching" => Installed(Release(p)) /\ Trusted(p)
  /\ step[p] \in Removing \ {"deselecting"} => active = Nil
  /\ step[p] \in Held \ ({"opening"} \cup Removing) => ~Foreign(p)

StagesAreTrue == \A p \in Issuers : step[p] \in Held => StageIsTrue(p)

Inv == Typed /\ ActiveIsWhole /\ StagesAreTrue

USE DEF At, Goes, Release, Installed, Recorded

LEMMA InitInv == Init => Inv
<1> SUFFICES ASSUME Init PROVE Inv
  OBVIOUS
<1>1. command \in [Issuers -> [kind : Kinds, release : Releases, bound : BOOLEAN, safe : BOOLEAN]]
  BY ScriptsAssumption DEF Init
<1>2. mode \in [Issuers -> Kinds]
  BY <1>1 DEF Init, Kinds
<1>3. Typed
  BY <1>1, <1>2 DEF Init, Typed, Steps, NoJournal, NoRecord, JournalStates
<1>4. ActiveIsWhole
  BY DEF Init, ActiveIsWhole
<1>5. StagesAreTrue
  BY DEF Init, StagesAreTrue, Held, Opening, Switching, Clearing, Removing
<1>6. QED
  BY <1>3, <1>4, <1>5 DEF Inv

\* A step of the holder: nobody else holds the lock, before or after.
LEMMA HolderSteps ==
  ASSUME Inv, OneOwner, NEW p \in Issuers, step[p] \in Held, NEW s \in Steps, Goes(p, s),
         s \in Held => StageIsTrue(p)'
  PROVE  step' \in [Issuers -> Steps] /\ StagesAreTrue'
<1>1. step \in [Issuers -> Steps]
  BY DEF Inv, Typed
<1>2. step'[p] = s /\ \A q \in Issuers : q # p => step'[q] = step[q] /\ step[q] \notin Held
  BY <1>1 DEF OneOwner
<1>3. QED
  BY <1>1, <1>2 DEF StagesAreTrue

\* A step that leaves the files alone, of a process that does not come to hold
\* the lock or is at the first step with it.
LEMMA OtherSteps ==
  ASSUME Inv, UNCHANGED <<command, files>>, NEW p \in Issuers, NEW s \in Steps, Goes(p, s),
         s \notin Held \/ s \in {"opening", "deselecting"},
         mode' \in [Issuers -> Kinds], \A q \in Issuers : q # p => mode'[q] = mode[q]
  PROVE  Inv'
<1>1. /\ step \in [Issuers -> Steps] /\ step' \in [Issuers -> Steps]
      /\ step'[p] = s /\ \A q \in Issuers : q # p => step'[q] = step[q]
  BY DEF Inv, Typed
<1>2. Typed'
  BY <1>1 DEF Inv, Typed, files
<1>3. ActiveIsWhole'
  BY DEF Inv, ActiveIsWhole, files
<1>4. ASSUME NEW q \in Issuers, step'[q] \in Held
      PROVE  StageIsTrue(q)'
  <2>1. CASE q = p
    BY <1>1, <1>4, <2>1 DEF StageIsTrue, Removing
  <2>2. CASE q # p
    BY <1>1, <1>4, <2>2 DEF Inv, StagesAreTrue, StageIsTrue, Trusted, Foreign, files
  <2>3. QED
    BY <2>1, <2>2
<1>5. QED
  BY <1>2, <1>3, <1>4 DEF Inv, StagesAreTrue

LEMMA UnheldSteps ==
  ASSUME Inv, NEW p \in Issuers, Begin(p) \/ Look(p) \/ Lock(p) \/ Fault(p) \/ Die(p)
  PROVE  Inv'
<1>0. mode \in [Issuers -> Kinds]
  BY DEF Inv, Typed
<1>1. CASE Look(p)
  <2>1. /\ UNCHANGED <<command, files>> /\ Goes(p, "acquiring")
        /\ \E m \in {"activate", "rollback"} : mode' = [mode EXCEPT ![p] = m]
    BY <1>1 DEF Look
  <2>2. mode' \in [Issuers -> Kinds] /\ \A q \in Issuers : q # p => mode'[q] = mode[q]
    BY <1>0, <2>1 DEF Kinds
  <2>3. "acquiring" \in Steps /\ "acquiring" \notin Held
    BY DEF Steps, Locking, Held, Opening, Switching, Clearing, Removing
  <2>4. QED
    BY <2>1, <2>2, <2>3, OtherSteps
<1>2. CASE Begin(p) \/ Lock(p) \/ Fault(p) \/ Die(p)
  <2>1. UNCHANGED <<command, files, mode>>
    BY <1>2 DEF Begin, Lock, Fault, Die, orders, Acquire, WriteLock, ReadLock, MoveLock, CompareLock,
       RestoreLock, ReleaseLock, Unlock
  <2>2. PICK s \in {"looking", "acquiring", "writing", "reading", "moving", "comparing", "restoring",
                    "releasing", "unlocking", "done", "dead", "opening", "deselecting"} : Goes(p, s)
    BY <1>2 DEF Begin, Lock, Fault, Die, Acquire, WriteLock, ReadLock, MoveLock, CompareLock,
       RestoreLock, ReleaseLock, Unlock, Busy, FirstHeld
  <2>3. s \in Steps /\ (s \notin Held \/ s \in {"opening", "deselecting"})
    BY <2>2 DEF Steps, Locking, Held, Opening, Switching, Clearing, Removing
  <2>4. QED
    BY <1>0, <2>1, <2>2, <2>3, OtherSteps
<1>3. QED
  BY <1>1, <1>2

\* A step of the holder that leaves the files alone.
LEMMA HolderReads ==
  ASSUME Inv, OneOwner, NEW p \in Issuers, step[p] \in Held, NEW s \in Steps, Goes(p, s),
         UNCHANGED <<orders, files>>, s \in Held => StageIsTrue(p)'
  PROVE  Inv'
<1>1. step' \in [Issuers -> Steps] /\ StagesAreTrue'
  BY HolderSteps
<1>2. Typed' /\ ActiveIsWhole'
  BY <1>1 DEF Inv, Typed, ActiveIsWhole, files, orders
<1>3. QED
  BY <1>1, <1>2 DEF Inv

LEMMA OpeningSteps ==
  ASSUME Inv, OneOwner, NEW p \in Issuers, Open(p) \/ Probe(p) \/ Reprobe(p)
  PROVE  Inv'
<1> USE DEF Held, Opening, Switching, Clearing, Removing
<1>1. CASE Open(p)
  <2>1. PICK s \in {"releasing", "confirming", "reprobing", "copying"} : Goes(p, s)
    BY <1>1 DEF Open, Under, ActivationPlan
  <2>2. /\ step[p] = "opening" /\ UNCHANGED <<orders, files>> /\ step'[p] = s /\ s \in Steps
    BY <1>1, <2>1 DEF Open, Under, Inv, Typed, Steps
  <2>3. s # "releasing" => ~Foreign(p)
    BY <1>1, <2>2 DEF Open, Under, Inv, Typed
  <2>4. s = "reprobing" => Installed(Release(p)) /\ (mode[p] = "rollback" => Trusted(p))
    BY <1>1, <2>2 DEF Open, Under, Inv, Typed, ActivationPlan, MayRollBack, Trusted
  <2>5. s = "copying" => mode[p] # "rollback"
    BY <1>1, <2>2 DEF Open, Under, Inv, Typed
  <2>6. s \in Held => StageIsTrue(p)'
    BY <2>2, <2>3, <2>4, <2>5 DEF StageIsTrue, Trusted, Foreign, orders, files
  <2>7. QED
    BY <2>1, <2>2, <2>6, HolderReads
<1>2. CASE Probe(p)
  <2>1. step[p] = "probing" /\ Goes(p, "sealing") /\ UNCHANGED <<orders, files>> /\ step'[p] = "sealing"
    BY <1>2 DEF Probe, Under, Inv, Typed
  <2>2. StageIsTrue(p)'
    BY <2>1 DEF Inv, StagesAreTrue, StageIsTrue, Foreign, orders, files
  <2>3. QED
    BY <2>1, <2>2, HolderReads DEF Steps
<1>3. CASE Reprobe(p)
  <2>1. PICK s \in {"preparing", "recording", "switching"} : s = AfterReprobe(p) /\ Goes(p, s)
    BY <1>3 DEF Reprobe, Under, AfterReprobe
  <2>2. step[p] = "reprobing" /\ UNCHANGED <<orders, files>> /\ step'[p] = s /\ s \in Steps
    BY <1>3, <2>1 DEF Reprobe, Under, Inv, Typed, Steps
  <2>3. Installed(Release(p)) /\ (mode[p] = "rollback" => Trusted(p)) /\ ~Foreign(p)
    BY <2>2 DEF Inv, StagesAreTrue, StageIsTrue
  <2>4. StageIsTrue(p)'
    BY <2>1, <2>2, <2>3 DEF AfterReprobe, StageIsTrue, Trusted, Foreign, orders, files
  <2>5. QED
    BY <2>1, <2>2, <2>4, HolderReads
<1>4. QED
  BY <1>1, <1>2, <1>3

\* The copy: the transaction of the holder's release.
LEMMA CopyingSteps ==
  ASSUME Inv, OneOwner, NEW p \in Issuers, BeginCopy(p) \/ EndCopy(p) \/ Seal(p) \/ Sweep(p)
  PROVE  Inv'
<1> USE DEF Held, Opening, Switching, Clearing, Removing
<1>1. PICK v \in {"none", "partial", "copied", "sealed"} :
        Stages(p, v) /\ (step[p] = "sealing" => v = "sealed")
  BY DEF BeginCopy, EndCopy, Seal, Sweep, Under
<1>2. /\ step[p] \in {"copying", "filling", "sealing", "sweeping"} /\ UNCHANGED orders
      /\ Goes(p, IF step[p] = "copying" THEN "filling" ELSE IF step[p] = "filling" THEN "probing"
                 ELSE IF step[p] = "sealing" THEN "preparing" ELSE "clearing")
  BY DEF BeginCopy, EndCopy, Seal, Sweep, Under
<1>3. /\ command[p].release \in Releases
      /\ UNCHANGED <<active, journal, content, verified, orders>>
      /\ tx' \in [Releases -> {"none", "partial", "copied", "sealed"}]
      /\ tx'[command[p].release] = v
  BY <1>1, <1>2 DEF Stages, Inv, Typed
<1>4. PICK s \in {"filling", "probing", "preparing", "clearing"} :
        /\ Goes(p, s) /\ step'[p] = s
        /\ s = "preparing" <=> step[p] = "sealing"
        /\ s = "clearing" <=> step[p] = "sweeping"
  BY <1>2 DEF Inv, Typed
<1>5. StageIsTrue(p)
  BY <1>2 DEF Inv, StagesAreTrue
<1>6. step[p] # "sweeping" => mode[p] # "rollback"
  BY <1>2, <1>5 DEF StageIsTrue
<1>7. ~Foreign(p)
  BY <1>2, <1>5 DEF StageIsTrue
<1>8. StageIsTrue(p)'
  BY <1>1, <1>3, <1>4, <1>6, <1>7 DEF StageIsTrue, Foreign, orders
<1>9. s \in Steps
  BY <1>4 DEF Steps
<1>10. step' \in [Issuers -> Steps] /\ StagesAreTrue'
  BY <1>2, <1>4, <1>8, <1>9, HolderSteps
<1>11. Typed' /\ ActiveIsWhole'
  BY <1>3, <1>10 DEF Inv, Typed, ActiveIsWhole, orders
<1>12. QED
  BY <1>10, <1>11 DEF Inv

\* The journal: the holder's own, or none.
LEMMA JournalSteps ==
  ASSUME Inv, OneOwner, NEW p \in Issuers,
         Prepare(p) \/ NotePublished(p) \/ Commit(p) \/ ClearJournal(p) \/ Forget(p)
  PROVE  Inv'
<1> USE DEF Held, Opening, Switching, Clearing, Removing
<1>1. /\ step[p] \in {"preparing", "noting", "committing", "clearing", "forgetting"}
      /\ UNCHANGED <<active, tx, content, verified, orders>>
      /\ command[p].release \in Releases
      /\ journal' = NoJournal \/ \E t \in JournalStates : journal' = [state |-> t, target |-> Release(p)]
  BY DEF Prepare, NotePublished, Commit, ClearJournal, Forget, Under, Journalled, Journals, JournalStates,
     Inv, Typed
<1>2. PICK s \in {"switching", "publishing", "recording", "sweeping", "clearing", "emptying", "releasing"} :
        Goes(p, s)
  BY DEF Prepare, NotePublished, Commit, ClearJournal, Forget, Under
<1>3. step'[p] = s /\ s \in Steps
  BY <1>1, <1>2 DEF Inv, Typed, Steps
<1>4. StageIsTrue(p)
  BY <1>1 DEF Inv, StagesAreTrue
<1>5. ~Foreign(p)'
  BY <1>1 DEF Foreign, orders
<1>6. /\ s = "switching" => Installed(Release(p)) /\ Trusted(p)
      /\ s = "publishing" => tx[Release(p)] = "sealed"
      /\ s = "recording" => Installed(Release(p))
      /\ s = "emptying" => active = Nil
  BY <1>2, <1>3, <1>4
     DEF Prepare, NotePublished, Commit, ClearJournal, Forget, Under, StageIsTrue, Trusted
<1>7. StageIsTrue(p)'
  BY <1>1, <1>2, <1>3, <1>5, <1>6 DEF StageIsTrue, Trusted, orders
<1>8. step' \in [Issuers -> Steps] /\ StagesAreTrue'
  BY <1>1, <1>2, <1>3, <1>7, HolderSteps
<1>9. journal' \in [state : JournalStates, target : Releases \cup {Nil}]
  BY <1>1 DEF NoJournal, JournalStates
<1>10. Typed' /\ ActiveIsWhole'
  BY <1>1, <1>8, <1>9 DEF Inv, Typed, ActiveIsWhole, orders
<1>11. QED
  BY <1>8, <1>10 DEF Inv

\* The release and its record: only a place that is empty is taken, so the
\* active release is never written over.
LEMMA PublishingSteps ==
  ASSUME Inv, OneOwner, NEW p \in Issuers, Publish(p) \/ Record(p) \/ Confirm(p)
  PROVE  Inv'
<1> USE DEF Held, Opening, Switching, Clearing, Removing
<1>1. /\ step[p] \in {"publishing", "recording", "confirming"} /\ UNCHANGED <<orders, active, journal>>
      /\ command[p].release \in Releases
  BY DEF Publish, Record, Confirm, Under, RecordedLast, files, Inv, Typed
<1>2. StageIsTrue(p) /\ ~Foreign(p)
  BY <1>1 DEF Inv, StagesAreTrue, StageIsTrue
<1>3. CASE Publish(p)
  <2>1. CASE tx[Release(p)] # "none" /\ content[Release(p)] = "none"
    <3>1. /\ content' = [content EXCEPT ![Release(p)] = "sealed"] /\ tx' = [tx EXCEPT ![Release(p)] = "none"]
          /\ Goes(p, "noting") /\ verified' = verified
      BY <1>2, <1>3, <2>1 DEF Publish, StageIsTrue
    <3>2. step'[p] = "noting" /\ content'[Release(p)] = "sealed"
      BY <1>1, <3>1 DEF Inv, Typed
    <3>3. StageIsTrue(p)'
      BY <1>1, <1>2, <3>2 DEF StageIsTrue, Foreign, orders
    <3>4. step' \in [Issuers -> Steps] /\ StagesAreTrue'
      BY <1>1, <3>1, <3>3, HolderSteps DEF Steps
    <3>5. Typed'
      BY <1>1, <3>1, <3>4 DEF Inv, Typed, orders
    <3>6. ActiveIsWhole'
      BY <1>1, <2>1, <3>1 DEF Inv, Typed, ActiveIsWhole, orders
    <3>7. QED
      BY <3>4, <3>5, <3>6 DEF Inv
  <2>2. CASE ~(tx[Release(p)] # "none" /\ content[Release(p)] = "none")
    <3>1. Goes(p, "releasing") /\ UNCHANGED <<orders, files>>
      BY <1>1, <1>3, <2>2 DEF Publish, files
    <3>2. QED
      BY <1>1, <3>1, HolderReads DEF Steps
  <2>3. QED
    BY <2>1, <2>2
<1>4. CASE Record(p) \/ Confirm(p)
  <2>1. PICK s \in {"switching", "clearing"} : Goes(p, s) /\ (s = "switching" <=> step[p] = "recording")
    BY <1>4 DEF Record, Confirm, Under
  <2>2. step'[p] = s /\ s \in Steps /\ UNCHANGED <<tx, content>>
    BY <1>4, <2>1 DEF Record, Confirm, Under, Inv, Typed, RecordedLast, files, Steps
  <2>3. /\ verified' \in [releases : SUBSET Releases, latest : Releases \cup {Nil}]
        /\ verified.releases \subseteq verified'.releases
        /\ s = "switching" => Release(p) \in verified'.releases
    BY <1>1, <1>4, <2>1 DEF Record, Confirm, Under, Inv, Typed, RecordedLast, files
  <2>4. StageIsTrue(p)'
    BY <1>1, <1>2, <2>1, <2>2, <2>3 DEF StageIsTrue, Foreign, Trusted, orders
  <2>5. step' \in [Issuers -> Steps] /\ StagesAreTrue'
    BY <1>1, <2>1, <2>2, <2>4, HolderSteps
  <2>6. Typed'
    BY <1>1, <2>2, <2>3, <2>5 DEF Inv, Typed, orders
  <2>7. ActiveIsWhole'
    BY <1>1, <2>2, <2>3 DEF Inv, ActiveIsWhole, orders
  <2>8. QED
    BY <2>5, <2>6, <2>7 DEF Inv
<1>5. QED
  BY <1>3, <1>4

\* The pointer: what is selected is in place, and trusted.
LEMMA PointerSteps ==
  ASSUME Inv, OneOwner, NEW p \in Issuers, SwitchPointer(p) \/ Deselect(p)
  PROVE  Inv'
<1> USE DEF Held, Opening, Switching, Clearing, Removing
<1>1. /\ step[p] \in {"switching", "deselecting"}
      /\ UNCHANGED <<journal, tx, content, verified, orders>>
      /\ command[p].release \in Releases
  BY DEF SwitchPointer, Deselect, Under, Points, Inv, Typed
<1>2. PICK s \in {"committing", "forgetting"} : Goes(p, s) /\ (s = "committing" <=> step[p] = "switching")
  BY DEF SwitchPointer, Deselect, Under
<1>3. step'[p] = s /\ s \in Steps /\ active' = (IF s = "committing" THEN Release(p) ELSE Nil)
  BY <1>1, <1>2 DEF SwitchPointer, Deselect, Under, Points, Inv, Typed, Steps
<1>4. StageIsTrue(p)
  BY <1>1 DEF Inv, StagesAreTrue
<1>5. s = "committing" => Installed(Release(p)) /\ Trusted(p) /\ ~Foreign(p)
  BY <1>1, <1>2, <1>4 DEF StageIsTrue
<1>6. StageIsTrue(p)'
  BY <1>1, <1>2, <1>3, <1>5 DEF StageIsTrue, Foreign, orders
<1>7. step' \in [Issuers -> Steps] /\ StagesAreTrue'
  BY <1>1, <1>2, <1>3, <1>6, HolderSteps
<1>8. Typed'
  BY <1>1, <1>3, <1>7 DEF Inv, Typed, orders
<1>9. ActiveIsWhole'
  BY <1>1, <1>2, <1>3, <1>5 DEF ActiveIsWhole, Trusted, orders
<1>10. QED
  BY <1>7, <1>8, <1>9 DEF Inv

\* The removal: nothing is selected any more.
LEMMA RemovalSteps ==
  ASSUME Inv, OneOwner, NEW p \in Issuers,
         EmptyTransactions(p) \/ Tear(p) \/ Raze(p) \/ Unrecord(p)
  PROVE  Inv'
<1> USE DEF Held, Opening, Switching, Clearing, Removing
<1>1. step[p] \in {"emptying", "tearing", "razing", "unrecording"} /\ UNCHANGED <<orders, active, journal>>
  BY DEF EmptyTransactions, Tear, Raze, Unrecord, Under
<1>2. PICK s \in {"tearing", "razing", "unrecording", "releasing"} : Goes(p, s)
  BY DEF EmptyTransactions, Tear, Raze, Unrecord, Under
<1>3. step'[p] = s /\ s \in Steps
  BY <1>1, <1>2 DEF Inv, Typed, Steps
<1>4. active = Nil
  BY <1>1 DEF Inv, StagesAreTrue, StageIsTrue
<1>5. StageIsTrue(p)'
  BY <1>1, <1>2, <1>3, <1>4 DEF StageIsTrue
<1>6. step' \in [Issuers -> Steps] /\ StagesAreTrue'
  BY <1>1, <1>2, <1>3, <1>5, HolderSteps
<1>7. tx' \in [Releases -> {"none", "partial", "copied", "sealed"}]
  BY DEF EmptyTransactions, Tear, Raze, Unrecord, Inv, Typed
<1>8. content' \in [Releases -> {"none", "partial", "copied", "sealed", "torn"}]
  BY DEF EmptyTransactions, Tear, Raze, Unrecord, Inv, Typed
<1>9. verified' \in [releases : SUBSET Releases, latest : Releases \cup {Nil}]
  BY DEF EmptyTransactions, Tear, Raze, Unrecord, Inv, Typed, NoRecord
<1>10. Typed' /\ ActiveIsWhole'
  BY <1>1, <1>4, <1>6, <1>7, <1>8, <1>9 DEF Inv, Typed, ActiveIsWhole, orders
<1>11. QED
  BY <1>6, <1>10 DEF Inv

LEMMA NextInv == Inv /\ OneOwner /\ [Next]_vars => Inv'
<1> SUFFICES ASSUME Inv, OneOwner, [Next]_vars PROVE Inv'
  OBVIOUS
<1>1. CASE UNCHANGED vars
  BY <1>1 DEF Inv, Typed, ActiveIsWhole, StagesAreTrue, StageIsTrue, Trusted, Foreign, vars, orders, locks, files
<1>2. ASSUME NEW p \in Issuers,
             Begin(p) \/ Look(p) \/ Lock(p) \/ Activate(p) \/ Uninstall(p) \/ Fault(p) \/ Die(p)
      PROVE  Inv'
  BY <1>2, UnheldSteps, OpeningSteps, CopyingSteps, JournalSteps, PublishingSteps, PointerSteps, RemovalSteps
     DEF Activate, Uninstall
<1>3. QED
  BY <1>1, <1>2 DEF Next

-----------------------------------------------------------------------------
\* While one command at a time holds the lock, the pointer names a release that
\* is whole, and recorded when all commands are bound: for any number of
\* commands, each of which may die or fail at any step, and any releases.
THEOREM WholeTheorem == Spec /\ []OneOwner => []ActiveIsWhole
<1>1. Inv => ActiveIsWhole
  BY DEF Inv
<1>2. QED
  BY <1>1, InitInv, NextInv, PTL DEF Spec

\* Only the switch of the holder selects a release, and the holder found no
\* journal of another release before it began, or wrote its own since.
LEMMA SelectionSteps ==
  ASSUME Inv, NEW p \in Issuers,
         Begin(p) \/ Look(p) \/ Lock(p) \/ Activate(p) \/ Uninstall(p) \/ Fault(p) \/ Die(p),
         active' # Nil, active' # active
  PROVE  SwitchPointer(p)
<1>1. ~(Begin(p) \/ Look(p) \/ Fault(p) \/ Die(p))
  BY DEF Begin, Look, Fault, Die, files
<1>2. ~Lock(p)
  BY DEF Lock, Acquire, WriteLock, ReadLock, MoveLock, CompareLock, RestoreLock, ReleaseLock, Unlock, files
<1>3. ~Uninstall(p)
  BY DEF Uninstall, Deselect, Forget, EmptyTransactions, Tear, Raze, Unrecord, Points, Journals
<1>4. ~(Open(p) \/ BeginCopy(p) \/ EndCopy(p) \/ Probe(p) \/ Reprobe(p) \/ Seal(p) \/ Sweep(p))
  BY DEF Open, BeginCopy, EndCopy, Probe, Reprobe, Seal, Sweep, Stages, files
<1>5. ~(Prepare(p) \/ NotePublished(p) \/ Commit(p) \/ ClearJournal(p))
  BY DEF Prepare, NotePublished, Commit, ClearJournal, Journalled, Journals
<1>6. ~(Publish(p) \/ Record(p) \/ Confirm(p))
  BY DEF Publish, Record, Confirm, RecordedLast, files
<1>7. QED
  BY <1>1, <1>2, <1>3, <1>4, <1>5, <1>6 DEF Activate

\* While one command at a time holds the lock, the journal of an interrupted
\* command keeps every other release from being selected.
THEOREM GuardTheorem == Spec /\ []OneOwner => JournalsGuardThePointer
<1>1. ASSUME Inv, [Next]_vars
      PROVE  [active' \notin {active, Nil} /\ journal # NoJournal => active' = journal.target]_vars
  <2>1. CASE UNCHANGED vars
    BY <2>1
  <2>2. ASSUME NEW p \in Issuers,
               Begin(p) \/ Look(p) \/ Lock(p) \/ Activate(p) \/ Uninstall(p) \/ Fault(p) \/ Die(p),
               active' \notin {active, Nil}, journal # NoJournal
        PROVE  active' = journal.target
    <3>1. SwitchPointer(p)
      BY <1>1, <2>2, SelectionSteps
    <3>2. step[p] = "switching" /\ active' = Release(p)
      BY <3>1 DEF SwitchPointer, Under, Points
    <3>3. ~Foreign(p)
      BY <1>1, <3>2 DEF Inv, StagesAreTrue, StageIsTrue, Held, Opening, Switching, Removing
    <3>4. QED
      BY <2>2, <3>2, <3>3 DEF Foreign
  <2>3. QED
    BY <1>1, <2>1, <2>2 DEF Next
<1>2. QED
  BY <1>1, InitInv, NextInv, PTL DEF Spec, JournalsGuardThePointer

-----------------------------------------------------------------------------
(* Retries.                                                                *)

\* What all commands leave of a release that they are all about and none
\* removes: nothing but its whole, and no journal but its own.
Shared(p) ==
  /\ content[Release(p)] \in {"none", "sealed"}
  /\ journal = NoJournal \/ journal.target = Release(p)
  /\ mode[p] \in {"activate", "rollback"}
  /\ mode[p] = "rollback" => Recorded(Release(p)) /\ Installed(Release(p))
  /\ \A q \in Issuers : mode[q] \notin {"uninstall", "purge"} /\ step[q] \notin Removing

\* How far a retry got.
Progress(p) ==
  /\ step[p] \in {"copying", "filling", "probing", "sealing", "publishing"} => content[Release(p)] = "none"
  /\ step[p] = "preparing" /\ mode[p] # "rollback" => content[Release(p)] = "none"
  /\ step[p] \in {"committing", "confirming", "sweeping", "clearing", "releasing", "unlocking"} =>
       active = Release(p)
  /\ step[p] = "done" /\ p \in written => active = Release(p)
  /\ p \in written => step[p] \in {"done", "unlocking", "releasing"} \cup Held

RetryInv == \A p \in Issuers : Retries(p) => Shared(p) /\ Progress(p)

LEMMA InitRetry == Init => RetryInv
<1> SUFFICES ASSUME Init, NEW p \in Issuers, Retries(p) PROVE Shared(p) /\ Progress(p)
  BY DEF RetryInv
<1>1. command \in [Issuers -> [kind : Kinds, release : Releases, bound : BOOLEAN, safe : BOOLEAN]]
  BY ScriptsAssumption DEF Init
<1>2. content[Release(p)] \in {"none", "sealed"} /\ journal = NoJournal
  BY <1>1 DEF Init
<1>3. /\ mode[p] = "activate"
      /\ \A q \in Issuers : mode[q] \notin {"uninstall", "purge"} /\ step[q] \notin Removing
  BY <1>1 DEF Init, Retries, Removing
<1>4. step[p] = "ready" /\ p \notin written
  BY DEF Init
<1>5. QED
  BY <1>2, <1>3, <1>4 DEF Shared, Progress

\* A step of any command keeps what is shared, and the release selected.
LEMMA SharedSteps ==
  ASSUME Inv, NEW p \in Issuers, Retries(p), Shared(p), NEW q \in Issuers,
         Begin(q) \/ Look(q) \/ Lock(q) \/ Activate(q) \/ Uninstall(q) \/ Fault(q) \/ Die(q)
  PROVE  Shared(p)' /\ (active = Release(p) => active' = Release(p))
<1> USE DEF Held, Opening, Switching, Clearing, Removing
<1>0. /\ command[q].release = command[p].release /\ command[p].release \in Releases
      /\ mode \in [Issuers -> Kinds] /\ step \in [Issuers -> Steps]
      /\ content \in [Releases -> {"none", "partial", "copied", "sealed", "torn"}]
      /\ mode[q] \notin {"uninstall", "purge"} /\ step[q] \notin Removing
  BY DEF Inv, Typed, Retries, Shared
<1>1. CASE Begin(q) \/ Lock(q) \/ Fault(q) \/ Die(q)
  <2>1. UNCHANGED <<command, mode, files>>
    BY <1>1 DEF Begin, Lock, Acquire, WriteLock, ReadLock, MoveLock, CompareLock, RestoreLock, ReleaseLock,
       Unlock, Fault, Die, orders
  <2>2. PICK s \in {"looking", "acquiring", "writing", "reading", "moving", "comparing", "restoring",
                    "releasing", "unlocking", "done", "dead", "opening"} : Goes(q, s)
    BY <1>0, <1>1 DEF Begin, Lock, Acquire, WriteLock, ReadLock, MoveLock, CompareLock, RestoreLock, ReleaseLock,
       Unlock, Fault, Die, Busy, FirstHeld
  <2>3. QED
    BY <1>0, <2>1, <2>2 DEF Shared, files
<1>2. CASE Look(q)
  <2>1. PICK m \in {"activate", "rollback"} :
          /\ m = "rollback" => Retained(command[p].release)
          /\ mode' = [mode EXCEPT ![q] = m]
    BY <1>0, <1>2 DEF Look
  <2>2. UNCHANGED <<command, files>> /\ Goes(q, "acquiring")
    BY <1>2 DEF Look
  <2>3. Retained(command[p].release) => content[command[p].release] = "sealed" /\ Recorded(command[p].release)
    BY DEF Retained, Shared
  <2>4. QED
    BY <1>0, <2>1, <2>2, <2>3 DEF Shared, files
<1>3. CASE Activate(q)
  <2>1. step[q] \in Held /\ UNCHANGED <<command, mode>>
    BY <1>3 DEF Activate, Open, BeginCopy, EndCopy, Probe, Reprobe, Seal, Prepare, Publish,
       NotePublished, Record, SwitchPointer, Commit, Confirm, Sweep, ClearJournal, Under, orders
  <2>2. PICK s \in Opening \cup Switching \cup Clearing \cup {"releasing"} : Goes(q, s)
    <3>1. CASE Open(q) \/ BeginCopy(q) \/ EndCopy(q) \/ Probe(q) \/ Reprobe(q) \/ Seal(q) \/ Prepare(q)
      BY <3>1 DEF Open, ActivationPlan, BeginCopy, EndCopy, Probe, Reprobe, AfterReprobe, Seal, Prepare, Under
    <3>2. CASE Publish(q) \/ NotePublished(q) \/ Record(q) \/ SwitchPointer(q) \/ Commit(q) \/ Confirm(q)
               \/ Sweep(q) \/ ClearJournal(q)
      BY <3>2 DEF Publish, NotePublished, Record, SwitchPointer, Commit, Confirm, Sweep, ClearJournal, Under
    <3>3. QED
      BY <1>3, <3>1, <3>2 DEF Activate
  <2>3. /\ journal' \in {journal, NoJournal} \/ journal'.target = command[p].release
        /\ active' \in {active, command[p].release}
        /\ verified' = verified \/ verified.releases \subseteq verified'.releases
    BY <1>0, <1>3 DEF Activate, Open, BeginCopy, EndCopy, Probe, Reprobe, Seal, Prepare, Publish,
       NotePublished, Record, SwitchPointer, Commit, Confirm, Sweep, ClearJournal, Journals, Journalled, Stages, Points,
       RecordedLast, files
  <2>4. content'[command[p].release] \in {content[command[p].release], "sealed"}
    <3>1. CASE Publish(q)
      <4>1. tx[command[p].release] = "sealed"
        BY <1>0, <2>1, <3>1 DEF Publish, Inv, StagesAreTrue, StageIsTrue
      <4>2. QED
        BY <1>0, <3>1, <4>1 DEF Publish
    <3>2. CASE ~Publish(q)
      BY <1>3, <3>2 DEF Activate, Open, BeginCopy, EndCopy, Probe, Reprobe, Seal, Prepare, NotePublished, Record,
         SwitchPointer, Commit, Confirm, Sweep, ClearJournal, Journals, Journalled, Stages, Points, RecordedLast, files
    <3>3. QED
      BY <3>1, <3>2
  <2>5. QED
    BY <1>0, <2>1, <2>2, <2>3, <2>4 DEF Shared
<1>4. ~Uninstall(q)
  BY <1>0 DEF Uninstall, Deselect, Forget, EmptyTransactions, Tear, Raze, Unrecord, Under
<1>5. QED
  BY <1>1, <1>2, <1>3, <1>4

\* The steps of the retry itself never end it early.
LEMMA ProgressSteps ==
  ASSUME Inv, NEW p \in Issuers, Retries(p), Shared(p), Progress(p), Shared(p)',
         active = Release(p) => active' = Release(p),
         Begin(p) \/ Look(p) \/ Lock(p) \/ Activate(p)
  PROVE  Progress(p)'
<1> USE DEF Held, Opening, Switching, Clearing, Removing
<1>0. /\ command[p].release \in Releases /\ step \in [Issuers -> Steps] /\ UNCHANGED command
      /\ tx \in [Releases -> {"none", "partial", "copied", "sealed"}]
      /\ content \in [Releases -> {"none", "partial", "copied", "sealed", "torn"}]
  BY DEF Inv, Typed, Begin, Look, Lock, Acquire, WriteLock, ReadLock, MoveLock, CompareLock, RestoreLock,
     ReleaseLock, Unlock, Activate, Open, BeginCopy, EndCopy, Probe, Reprobe, Seal, Prepare, Publish,
     NotePublished, Record, SwitchPointer, Commit, Confirm, Sweep, ClearJournal, Under, orders
<1>1. CASE Begin(p) \/ Look(p) \/ Lock(p)
  <2>1. CASE WriteLock(p)
    <3>1. step'[p] = "opening"
      BY <1>0, <2>1 DEF WriteLock, FirstHeld, Shared
    <3>2. QED
      BY <3>1 DEF Progress
  <2>2. CASE ~WriteLock(p)
    <3>1. PICK s \in {"looking", "acquiring", "writing", "reading", "moving", "comparing", "restoring",
                      "unlocking", "done"} :
            /\ Goes(p, s) /\ written' = written
            /\ s = "unlocking" => step[p] = "releasing"
            /\ step[p] \in {"ready", "looking", "acquiring", "reading", "moving", "comparing", "restoring",
                            "releasing", "unlocking"}
      BY <1>1, <2>2 DEF Begin, Look, Lock, Acquire, ReadLock, MoveLock, CompareLock, RestoreLock, ReleaseLock,
         Unlock, Busy, locks
    <3>2. step'[p] = s
      BY <1>0, <3>1
    <3>3. step[p] \in {"ready", "looking", "acquiring", "reading", "moving", "comparing", "restoring"} => p \notin written
      BY DEF Progress
    <3>4. step[p] \in {"releasing", "unlocking"} => active = Release(p) /\ s \in {"unlocking", "done"}
      BY <1>0, <1>1, <2>2, <3>1, <3>2 DEF Progress, Begin, Look, Lock, Acquire, ReadLock, MoveLock, CompareLock,
         RestoreLock, ReleaseLock, Unlock
    <3>5. QED
      BY <1>0, <3>1, <3>2, <3>3, <3>4 DEF Progress
  <2>3. QED
    BY <2>1, <2>2
<1>2. CASE Activate(p)
  <2>1. PICK s \in Held \cup {"releasing"} : Goes(p, s)
    <3>1. CASE Open(p) \/ BeginCopy(p) \/ EndCopy(p) \/ Probe(p) \/ Reprobe(p) \/ Seal(p) \/ Prepare(p)
      BY <3>1 DEF Open, ActivationPlan, BeginCopy, EndCopy, Probe, Reprobe, AfterReprobe, Seal, Prepare, Under
    <3>2. CASE Publish(p) \/ NotePublished(p) \/ Record(p) \/ SwitchPointer(p) \/ Commit(p) \/ Confirm(p)
               \/ Sweep(p) \/ ClearJournal(p)
      BY <3>2 DEF Publish, NotePublished, Record, SwitchPointer, Commit, Confirm, Sweep, ClearJournal, Under
    <3>3. QED
      BY <1>2, <3>1, <3>2 DEF Activate
  <2>2. step'[p] = s /\ s # "done"
    BY <1>0, <2>1
  <2>3. CASE Open(p)
    <3>1. ~Foreign(p) /\ UNCHANGED <<files, mode>>
      BY <2>3 DEF Shared, Foreign, Open, Under, orders
    <3>2. mode[p] = "rollback" => s = "reprobing"
      BY <1>0, <2>2, <2>3, <3>1 DEF Open, Under, MayRollBack, Shared
    <3>3. mode[p] = "activate" => s = ActivationPlan(p)
      BY <1>0, <2>2, <2>3, <3>1 DEF Open, Under
    <3>4. active = Release(p) => Installed(Release(p))
      BY <1>0, NilAssumption DEF Inv, ActiveIsWhole
    <3>5. /\ ActivationPlan(p) \in {"confirming", "reprobing", "copying"}
          /\ ActivationPlan(p) = "confirming" => active = Release(p)
          /\ ActivationPlan(p) = "copying" => content[Release(p)] = "none"
      BY <3>4 DEF ActivationPlan, Shared
    <3>6. QED
      BY <1>0, <2>2, <3>1, <3>2, <3>3, <3>5 DEF Progress, Shared, files
  <2>4. CASE Publish(p)
    <3>1. content[Release(p)] = "none" /\ tx[Release(p)] = "sealed"
      BY <2>4 DEF Publish, Progress, Inv, StagesAreTrue, StageIsTrue
    <3>2. s = "noting"
      BY <1>0, <2>2, <2>4, <3>1 DEF Publish
    <3>3. QED
      BY <2>2, <3>2 DEF Progress
  <2>5. CASE BeginCopy(p) \/ EndCopy(p) \/ Probe(p) \/ Seal(p) \/ Prepare(p)
    <3>1. /\ UNCHANGED <<content, active, mode>>
          /\ step[p] \in {"copying", "filling", "probing", "sealing", "preparing"}
          /\ s \in {"filling", "probing", "sealing", "preparing", "switching", "publishing"}
          /\ s = "publishing" => step[p] = "preparing" /\ mode[p] # "rollback"
          /\ s \in {"filling", "probing", "sealing", "preparing"} => step[p] # "preparing"
      BY <1>0, <2>2, <2>5 DEF BeginCopy, EndCopy, Probe, Seal, Prepare, Under, Stages, Journalled, Journals, orders, files
    <3>2. QED
      BY <1>0, <2>2, <3>1 DEF Progress
  <2>6. CASE Reprobe(p)
    <3>1. s = AfterReprobe(p) /\ UNCHANGED mode
      BY <1>0, <2>2, <2>6 DEF Reprobe, Under, orders
    <3>2. QED
      BY <2>2, <3>1 DEF AfterReprobe, Progress
  <2>7. CASE NotePublished(p) \/ Record(p)
    <3>1. s \in {"recording", "switching"}
      BY <1>0, <2>2, <2>7 DEF NotePublished, Record, Under
    <3>2. QED
      BY <2>2, <3>1 DEF Progress
  <2>8. CASE SwitchPointer(p) \/ Commit(p) \/ Confirm(p) \/ Sweep(p) \/ ClearJournal(p)
    <3>1. /\ s \in {"committing", "sweeping", "clearing", "releasing"}
          /\ active' = Release(p) \/ step[p] \in {"committing", "confirming", "sweeping", "clearing"}
      BY <1>0, <2>2, <2>8 DEF SwitchPointer, Commit, Confirm, Sweep, ClearJournal, Under, Points
    <3>2. QED
      BY <1>0, <2>2, <3>1 DEF Progress
  <2>9. QED
    BY <1>2, <2>3, <2>4, <2>5, <2>6, <2>7, <2>8 DEF Activate
<1>3. QED
  BY <1>1, <1>2

\* A step of another command: it holds no lock while the retry does.
LEMMA RivalSteps ==
  ASSUME Inv, OneOwner, NEW p \in Issuers, Progress(p), NEW q \in Issuers, q # p,
         active = Release(p) => active' = Release(p),
         Begin(q) \/ Look(q) \/ Lock(q) \/ Activate(q) \/ Uninstall(q) \/ Fault(q) \/ Die(q)
  PROVE  Progress(p)'
<1>1. /\ UNCHANGED command /\ (p \in written' <=> p \in written)
      /\ mode'[p] = mode[p] /\ step'[p] = step[p]
      /\ content' = content \/ step[q] \in Held
  <2>0. step \in [Issuers -> Steps] /\ mode \in [Issuers -> Kinds]
    BY DEF Inv, Typed
  <2>1. CASE Begin(q) \/ Look(q) \/ Lock(q) \/ Fault(q) \/ Die(q)
    BY <2>0, <2>1 DEF Begin, Look, Lock, Acquire, WriteLock, ReadLock, MoveLock, CompareLock, RestoreLock,
       ReleaseLock, Unlock, Fault, Die, Busy, locks, orders, files
  <2>2. CASE Activate(q) \/ Uninstall(q)
    <3>1. step[q] \in Held /\ UNCHANGED <<command, mode, written>>
      BY <2>2 DEF Activate, Open, BeginCopy, EndCopy, Probe, Reprobe, Seal, Prepare, Publish,
         NotePublished, Record, SwitchPointer, Commit, Confirm, Sweep, ClearJournal, Uninstall, Deselect, Forget,
         EmptyTransactions, Tear, Raze, Unrecord, Under, orders, locks, Held, Opening, Switching, Clearing, Removing
    <3>2. step'[p] = step[p]
      BY <2>0, <2>2 DEF Activate, Open, BeginCopy, EndCopy, Probe, Reprobe, Seal, Prepare, Publish,
         NotePublished, Record, SwitchPointer, Commit, Confirm, Sweep, ClearJournal, Uninstall, Deselect, Forget,
         EmptyTransactions, Tear, Raze, Unrecord, Under
    <3>3. QED
      BY <3>1, <3>2
  <2>3. QED
    BY <2>1, <2>2
<1>2. step[p] \in Held => content' = content
  BY <1>1 DEF OneOwner
<1>3. QED
  BY <1>1, <1>2 DEF Progress, Held, Opening, Switching, Clearing

LEMMA NextRetry == Inv /\ OneOwner /\ RetryInv /\ [Next]_vars => RetryInv'
<1> SUFFICES ASSUME Inv, OneOwner, RetryInv, [Next]_vars, NEW p \in Issuers, Retries(p)'
             PROVE  Shared(p)' /\ Progress(p)'
  BY DEF RetryInv
<1>1. CASE UNCHANGED vars
  BY <1>1 DEF RetryInv, Retries, Shared, Progress, vars, orders, locks, files
<1>2. ASSUME NEW q \in Issuers,
             Begin(q) \/ Look(q) \/ Lock(q) \/ Activate(q) \/ Uninstall(q) \/ Fault(q) \/ Die(q)
      PROVE  Shared(p)' /\ Progress(p)'
  <2>1. UNCHANGED command
    BY <1>2 DEF Begin, Look, Lock, Acquire, WriteLock, ReadLock, MoveLock, CompareLock, RestoreLock, ReleaseLock, Unlock,
       Fault, Die, Activate, Open, BeginCopy, EndCopy, Probe, Reprobe, Seal, Prepare, Publish, NotePublished, Record,
       SwitchPointer, Commit, Confirm, Sweep, ClearJournal, Uninstall, Deselect, Forget, EmptyTransactions, Tear,
       Raze, Unrecord, Under, orders
  <2>2. Retries(p) /\ Shared(p) /\ Progress(p)
    BY <2>1 DEF Retries, RetryInv
  <2>3. Shared(p)' /\ (active = Release(p) => active' = Release(p))
    BY <1>2, <2>2, SharedSteps
  <2>4. CASE q = p
    <3>1. ~Fault(p) /\ ~Die(p)
      BY <2>2 DEF Fault, Die, Retries
    <3>2. ~Uninstall(p)
      BY <2>2 DEF Uninstall, Deselect, Forget, EmptyTransactions, Tear, Raze, Unrecord, Under, Shared, Removing
    <3>3. QED
      BY <1>2, <2>2, <2>3, <2>4, <3>1, <3>2, ProgressSteps
  <2>5. CASE q # p
    BY <1>2, <2>2, <2>3, <2>5, RivalSteps
  <2>6. QED
    BY <2>3, <2>4, <2>5
<1>3. QED
  BY <1>1, <1>2 DEF Next

\* While the lock excludes, an activation or a launch that neither fails nor
\* dies selects its release, at whatever steps any number of earlier commands
\* for the release were interrupted.
THEOREM RetryTheorem == Spec /\ []OneOwner => []RetriesConverge
<1>1. RetryInv => RetriesConverge
  BY DEF RetryInv, RetriesConverge, Progress
<1>2. QED
  BY <1>1, InitInv, NextInv, InitRetry, NextRetry, PTL DEF Spec

=============================================================================
