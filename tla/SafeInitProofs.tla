--------------------------- MODULE SafeInitProofs ---------------------------
(***************************************************************************)
(* Proofs about the initialisation of a workspace, for any number of       *)
(* canonical files and any number of deaths, failures and edits.           *)
(*                                                                         *)
(* A step replaces a target only when its content is one that is kept:     *)
(* the new file knows what it was made from, and the old one has a backup  *)
(* for as long as something may still be undone.                           *)
(***************************************************************************)
EXTENDS SafeInit, WellFoundedInduction, TLAPS

-----------------------------------------------------------------------------
(* The first and the last of a set of targets. *)

\* A set of natural numbers has a least element.
LEMMA LeastIn ==
  ASSUME NEW S, S \subseteq Nat, S # {}
  PROVE  \E x \in S : \A y \in S : x <= y
<1> DEFINE Less == {p \in Nat \X Nat : p[1] < p[2]}
<1>1. IsWellFoundedOn(Less, Nat)
  BY NatLessThanWellFounded DEF OpToRel
<1>2. PICK x \in S : \A y \in S : <<y, x>> \notin Less
  <2> HIDE DEF Less
  <2> QED
    BY <1>1, WFMin
<1>3. \A y \in S : ~(y < x)
  BY <1>2
<1> QED
  BY <1>3

\* Min and Max of targets are among them.
LEMMA MinIn ==
  ASSUME NEW S, S \subseteq Targets, S # {}
  PROVE  Min(S) \in S
<1>1. S \subseteq Nat
  BY DEF Targets
<1> QED
  BY <1>1, LeastIn DEF Min

LEMMA MaxIn ==
  ASSUME NEW S, S \subseteq Targets, S # {}
  PROVE  Max(S) \in S
<1> DEFINE Distance == {TargetCount - x : x \in S}
<1>1. S \subseteq Nat /\ \A x \in S : TargetCount - x \in Nat
  BY TargetsAssumption DEF Targets
<1>2. PICK d \in Distance : \A e \in Distance : d <= e
  <2>1. Distance \subseteq Nat /\ Distance # {}
    BY <1>1
  <2> QED
    BY <2>1, LeastIn
<1>3. PICK x \in S : d = TargetCount - x
  BY <1>2
<1>4. \A y \in S : y <= x
  <2> SUFFICES ASSUME NEW y \in S PROVE y <= x
    OBVIOUS
  <2>1. TargetCount - x <= TargetCount - y
    BY <1>2, <1>3
  <2> QED
    BY <2>1, <1>1, TargetsAssumption
<1> QED
  BY <1>4 DEF Max

-----------------------------------------------------------------------------
(* What a person left at a target. *)

\* The targets of which nothing is claimed.
Uncared == exposed \cup failed

Written(t) == human[t] \in {"old", "edited"}

\* It is there, or the new file was made from it.
Safe(t) == Written(t) => file[t] = human[t] \/ (file[t] = "new" /\ base[t] = human[t])

\* It is in the backup from which the journal restores it.
Shelved(t) == staging /\ journaled /\ t \in backup /\ plan[t] = human[t]

-----------------------------------------------------------------------------
(* The invariant. *)

\* What the staging directory holds at every step of the process.
Directory ==
  /\ staged \subseteq Changes
  /\ backup \subseteq Existed
  /\ ~staging => staged = {} /\ backup = {} /\ ~journaled
  /\ pc \in {"staging", "publishing", "renaming", "rolling", "undoing", "cleaning"} => staging
  /\ pc = "previewed" => ~staging
  /\ pc = "staging" => ~journaled /\ backup = staged \cap Existed
  /\ pc \in {"publishing", "renaming"} => journaled /\ Existed \subseteq backup
  /\ pc = "renaming" => staged # {}
  /\ pc \notin {"rolling", "undoing"} => undo = NothingUndone
  /\ \A t \in Targets : undo[t] # "none" => t \in Changes /\ journaled

\* A new file at a target that the plan changes was made from what the plan
\* expected there.
Bases == pc = "previewed" \/ staging => \A t \in Changes : file[t] = "new" => base[t] = plan[t]

\* A target under publication is new once it left the staging directory, and
\* what the plan expected just before it is replaced.
Publishing ==
  \A t \in Changes \ Uncared :
    /\ pc \in {"publishing", "renaming"} /\ t \notin staged => file[t] = "new"
    /\ pc = "renaming" /\ t = Min(staged) => file[t] = plan[t]

\* Nothing is removed for good that a person wrote.
Undoings ==
  \A t \in Targets \ Uncared :
    undo[t] # "none" /\ Written(t) => undo[t] # "remove" /\ Shelved(t)

\* Of a target in care, what a person wrote is safe, except while it is being
\* undone or waits for a recovery: then it is shelved.
Cares ==
  \A t \in Targets \ Uncared :
    /\ Safe(t) \/ Shelved(t)
    /\ pc \in {"previewed", "staging", "publishing", "renaming", "cleaning"} => Safe(t)
    /\ pc \in {"rolling", "undoing"} /\ undo[t] = "none" => Safe(t)

HumanInv == FilesTypeOK /\ Directory /\ Bases /\ Publishing /\ Undoings /\ Cares

-----------------------------------------------------------------------------
(* The shape of the directory. *)

LEMMA DirectoryInit == FilesInit => FilesTypeOK /\ Directory
<1> SUFFICES ASSUME FilesInit PROVE FilesTypeOK /\ Directory
  OBVIOUS
<1>1. file \in [Targets -> Contents] /\ undo = [t \in Targets |-> "none"]
  BY DEF FilesInit, Contents, NothingUndone
<1>2. FilesTypeOK
  <2>1. undo \in [Targets -> {"none", "remove", "restore", "rename"}]
    BY <1>1
  <2>2. staging \in BOOLEAN /\ journaled \in BOOLEAN
    BY Zenon DEF FilesInit
  <2>3. faults \in 0..MaxFaults
    BY BoundAssumption DEF FilesInit
  <2>4. /\ human = file /\ base = file /\ plan = file /\ pc = "idle"
        /\ staged = {} /\ backup = {} /\ edited = {} /\ exposed = {} /\ failed = {}
    BY DEF FilesInit
  <2> QED
    BY <1>1, <2>1, <2>2, <2>3, <2>4 DEF FilesTypeOK
<1>3. Directory
  BY <1>1 DEF FilesInit, Directory, NothingUndone
<1> QED
  BY <1>2, <1>3

\* Every fault is counted.
LEMMA FaultCounts ==
  ASSUME FilesTypeOK, FaultHappens
  PROVE  faults' \in 0..MaxFaults
BY BoundAssumption DEF FilesTypeOK, FaultHappens

LEMMA DirectoryNext ==
  ASSUME FilesTypeOK, Directory, [FilesNext]_fileVars
  PROVE  FilesTypeOK' /\ Directory'
<1> USE DEF FilesTypeOK, Directory, Changes, Existed, NothingUndone, Contents, Goto, directory, history
<1>1. CASE Preview
  BY <1>1 DEF Preview
<1>2. CASE BeginApply
  BY <1>2 DEF BeginApply
<1>3. CASE Stage
  BY <1>3, MinIn DEF Stage, Fail
<1>4. CASE WriteJournal
  BY <1>4 DEF WriteJournal
<1>5. CASE CheckTarget
  BY <1>5 DEF CheckTarget, Fail
<1>6. CASE PublishTarget
  BY <1>6, MinIn DEF PublishTarget
<1>7. CASE Complete
  BY <1>7 DEF Complete
<1>8. CASE ApplyFails
  BY <1>8, FaultCounts DEF ApplyFails, Fail, FaultHappens
<1>9. CASE Recover
  BY <1>9 DEF Recover, RecoveryAction
<1>10. CASE RemoveTarget
  BY <1>10, MaxIn DEF RemoveTarget, Undone, Undoing
<1>11. CASE RestoreTarget
  BY <1>11, MaxIn DEF RestoreTarget, Undone, Undoing
<1>12. CASE Finish
  <2>1. \A t \in Targets : undo[t] = "none"
    BY <1>12 DEF Finish, Undone
  <2>2. undo = NothingUndone
    BY <2>1
  <2> QED
    BY <1>12, <2>2 DEF Finish
<1>13. CASE Clean
  <2> USE <1>13 DEF Clean
  <2>1. CASE \E t \in staged : staged' = staged \ {t} /\ UNCHANGED <<staging, backup, journaled, pc>>
    BY <2>1
  <2>2. CASE \E t \in backup : backup' = backup \ {t} /\ UNCHANGED <<staging, staged, journaled, pc>>
    BY <2>2
  <2>3. CASE journaled' = FALSE /\ UNCHANGED <<staging, staged, backup, pc>>
    BY <2>3
  <2>4. CASE staged = {} /\ backup = {} /\ ~journaled /\ staging' = FALSE /\ pc' = "idle" /\ UNCHANGED <<staged, backup, journaled>>
    BY <2>4
  <2> QED
    BY <2>1, <2>2, <2>3, <2>4
<1>14. CASE UndoFails
  BY <1>14, FaultCounts DEF UndoFails, FaultHappens, Undone, Undoing
<1>15. CASE Terminate
  BY <1>15, FaultCounts DEF Terminate, FaultHappens
<1>16. ASSUME NEW t \in Targets, Edit(t) PROVE FilesTypeOK' /\ Directory'
  BY <1>16, FaultCounts DEF Edit, FaultHappens
<1>17. CASE UNCHANGED fileVars
  BY <1>17 DEF fileVars
<1> QED
  BY <1>1, <1>2, <1>3, <1>4, <1>5, <1>6, <1>7, <1>8, <1>9, <1>10, <1>11, <1>12, <1>13, <1>14, <1>15, <1>16,
     <1>17 DEF FilesNext, Works, Applies

-----------------------------------------------------------------------------
(* What a person wrote. *)

LEMMA PreviewKeeps ==
  ASSUME HumanInv, Preview, FilesTypeOK', Directory'
  PROVE  Bases' /\ Publishing' /\ Undoings' /\ Cares'
<1>1. Bases'
  BY DEF Preview, Bases, Changes
<1>2. Publishing'
  BY DEF Preview, Publishing, Uncared, Goto
<1>3. Undoings'
  BY DEF Preview, HumanInv, Directory, Undoings, Uncared
<1>4. Cares'
  BY DEF Preview, HumanInv, Cares, Uncared, history, Written, Safe, Shelved
<1> QED
  BY <1>1, <1>2, <1>3, <1>4

LEMMA BeginKeeps ==
  ASSUME HumanInv, BeginApply, FilesTypeOK', Directory'
  PROVE  Bases' /\ Publishing' /\ Undoings' /\ Cares'
<1>1. Bases'
  BY DEF BeginApply, HumanInv, Bases, Changes, history
<1>2. Publishing'
  BY DEF BeginApply, HumanInv, Directory, Publishing, Uncared
<1>3. Undoings'
  BY DEF BeginApply, HumanInv, Directory, Undoings, Uncared
<1>4. Cares'
  BY DEF BeginApply, HumanInv, Cares, Uncared, history, Written, Safe
<1> QED
  BY <1>1, <1>2, <1>3, <1>4

LEMMA StageKeeps ==
  ASSUME HumanInv, Stage, FilesTypeOK', Directory'
  PROVE  Bases' /\ Publishing' /\ Undoings' /\ Cares'
<1>1. Bases'
  BY DEF Stage, HumanInv, Directory, Bases, Changes, history
<1>2. Publishing'
  BY DEF Stage, HumanInv, Directory, Publishing, Uncared
<1>3. Undoings'
  BY DEF Stage, HumanInv, Directory, Undoings, Uncared
<1>4. Cares'
  BY DEF Stage, HumanInv, Cares, Uncared, history, Written, Safe
<1> QED
  BY <1>1, <1>2, <1>3, <1>4

LEMMA WriteJournalKeeps ==
  ASSUME HumanInv, WriteJournal, FilesTypeOK', Directory'
  PROVE  Bases' /\ Publishing' /\ Undoings' /\ Cares'
<1>1. Bases'
  BY DEF WriteJournal, HumanInv, Directory, Bases, Changes, history
<1>2. Publishing'
  BY DEF WriteJournal, Publishing, Uncared, Changes, Goto
<1>3. Undoings'
  BY DEF WriteJournal, HumanInv, Directory, Undoings, Uncared
<1>4. Cares'
  BY DEF WriteJournal, HumanInv, Cares, Uncared, history, Written, Safe
<1> QED
  BY <1>1, <1>2, <1>3, <1>4

LEMMA CheckTargetKeeps ==
  ASSUME HumanInv, CheckTarget, FilesTypeOK', Directory'
  PROVE  Bases' /\ Publishing' /\ Undoings' /\ Cares'
<1>1. Bases'
  BY DEF CheckTarget, HumanInv, Directory, Bases, Changes, history
<1>2. Publishing'
  BY DEF CheckTarget, HumanInv, Publishing, Uncared, Changes, Goto, directory, history, Fail
<1>3. Undoings'
  BY DEF CheckTarget, HumanInv, Directory, Bases, Publishing, Uncared, Undoings, Cares, Existed,
     directory, history, Written, Safe, Shelved, Fail
<1>4. Cares'
  BY DEF CheckTarget, HumanInv, Cares, Uncared, history, Written, Safe
<1> QED
  BY <1>1, <1>2, <1>3, <1>4

LEMMA PublishKeeps ==
  ASSUME HumanInv, PublishTarget, FilesTypeOK', Directory'
  PROVE  Bases' /\ Publishing' /\ Undoings' /\ Cares'
<1>1. Bases'
  BY DEF PublishTarget, HumanInv, FilesTypeOK, Directory, Bases, Changes
<1>2. Publishing'
  BY DEF PublishTarget, HumanInv, FilesTypeOK, Publishing, Uncared, Changes, Goto
<1>3. Undoings'
  BY DEF PublishTarget, HumanInv, Directory, Undoings, Uncared, NothingUndone
<1>4. Cares'
  BY MinIn DEF PublishTarget, HumanInv, FilesTypeOK, Directory, Bases, Publishing, Uncared, Cares, Written, Safe
<1> QED
  BY <1>1, <1>2, <1>3, <1>4

LEMMA CompleteKeeps ==
  ASSUME HumanInv, Complete, FilesTypeOK', Directory'
  PROVE  Bases' /\ Publishing' /\ Undoings' /\ Cares'
<1>1. Bases'
  BY DEF Complete, HumanInv, Directory, Bases, Changes, history
<1>2. Publishing'
  BY DEF Complete, Publishing, Uncared, Goto
<1>3. Undoings'
  BY DEF Complete, HumanInv, Directory, Undoings, Uncared, NothingUndone
<1>4. Cares'
  BY DEF Complete, HumanInv, Cares, Uncared, history, Written, Safe
<1> QED
  BY <1>1, <1>2, <1>3, <1>4

LEMMA ApplyFailsKeeps ==
  ASSUME HumanInv, ApplyFails, FilesTypeOK', Directory'
  PROVE  Bases' /\ Publishing' /\ Undoings' /\ Cares'
<1>1. Bases'
  BY DEF ApplyFails, HumanInv, Directory, Bases, Changes, history
<1>2. Publishing'
  BY DEF ApplyFails, Publishing, Uncared, Goto, Fail
<1>3. Undoings'
  BY DEF ApplyFails, HumanInv, Directory, Bases, Publishing, Uncared, Undoings, Cares, Existed,
     directory, history, Written, Safe, Shelved, Fail
<1>4. Cares'
  BY DEF ApplyFails, HumanInv, Cares, Uncared, history, Written, Safe
<1> QED
  BY <1>1, <1>2, <1>3, <1>4

LEMMA RecoverKeeps ==
  ASSUME HumanInv, Recover, FilesTypeOK', Directory'
  PROVE  Bases' /\ Publishing' /\ Undoings' /\ Cares'
<1>1. Bases'
  BY DEF Recover, HumanInv, Bases, Changes, history
<1>2. Publishing'
  BY DEF Recover, Publishing, Uncared, Goto
<1>3. Undoings'
  BY DEF Recover, HumanInv, Bases, Undoings, Uncared, Cares, Existed, directory, history, Written, Safe,
     Shelved, RecoveryAction
<1>4. Cares'
  BY DEF Recover, HumanInv, Directory, Cares, Uncared, Changes, NothingUndone, directory, history, Written,
     Safe, Shelved, RecoveryAction
<1> QED
  BY <1>1, <1>2, <1>3, <1>4

LEMMA RemoveTargetKeeps ==
  ASSUME HumanInv, RemoveTarget, FilesTypeOK', Directory'
  PROVE  Bases' /\ Publishing' /\ Undoings' /\ Cares'
<1>1. Bases'
  BY DEF RemoveTarget, HumanInv, Bases, Changes, directory, history
<1>2. Publishing'
  BY DEF RemoveTarget, Publishing, Uncared, Undoing
<1>3. Undoings'
  BY DEF RemoveTarget, HumanInv, Undoings, Uncared, directory, history, Written, Shelved
<1> DEFINE target == Max(Undone)
<1>4. target \in Targets /\ undo[target] \in {"remove", "restore"} /\ pc \in {"rolling", "undoing"}
  BY MaxIn DEF RemoveTarget, HumanInv, FilesTypeOK, Undone, Undoing
<1>5. /\ \A t \in Targets \ {target} : file'[t] = file[t] /\ undo'[t] = undo[t]
      /\ undo[target] = "restore" => undo'[target] = "rename"
  BY <1>4 DEF RemoveTarget, HumanInv, FilesTypeOK
<1>6. ASSUME NEW t \in Targets \ Uncared
      PROVE  /\ Safe(t)' \/ Shelved(t)'
             /\ undo'[t] = "none" => Safe(t)'
  <2>1. Written(t)' = Written(t) /\ Shelved(t)' = Shelved(t)
    BY DEF RemoveTarget, directory, history, Written, Shelved
  <2>2. CASE t = target
    <3>1. Written(t) => undo[t] # "remove" /\ Shelved(t)
      BY <1>4, <2>2 DEF HumanInv, Undoings
    <3>2. Written(t) => undo'[t] = "rename"
      BY <1>4, <1>5, <2>2, <3>1
    <3> QED
      BY <2>1, <3>1, <3>2 DEF Safe, Written
  <2>3. CASE t # target
    BY <1>4, <1>5, <2>1, <2>3 DEF RemoveTarget, HumanInv, Cares, history, Safe
  <2> QED
    BY <2>2, <2>3
<1>7. Cares'
  BY <1>4, <1>6 DEF RemoveTarget, Cares, Uncared, history
<1> QED
  BY <1>1, <1>2, <1>3, <1>7

LEMMA RestoreTargetKeeps ==
  ASSUME HumanInv, RestoreTarget, FilesTypeOK', Directory'
  PROVE  Bases' /\ Publishing' /\ Undoings' /\ Cares'
<1>1. Bases'
  BY DEF RestoreTarget, HumanInv, Bases, Changes, history
<1>2. Publishing'
  BY DEF RestoreTarget, HumanInv, FilesTypeOK, Directory, Publishing, Uncared
<1>3. Undoings'
  BY DEF RestoreTarget, HumanInv, FilesTypeOK, Undoings, Uncared, history, Written, Shelved
<1>4. Cares'
  BY DEF RestoreTarget, HumanInv, FilesTypeOK, Undoings, Uncared, Cares, history, Written, Safe, Shelved
<1> QED
  BY <1>1, <1>2, <1>3, <1>4

LEMMA FinishKeeps ==
  ASSUME HumanInv, Finish, FilesTypeOK', Directory'
  PROVE  Bases' /\ Publishing' /\ Undoings' /\ Cares'
<1>1. Bases'
  BY DEF Finish, HumanInv, Directory, Bases, Changes, history
<1>2. Publishing'
  BY DEF Finish, Publishing, Uncared, Goto
<1>3. Undoings'
  BY DEF Finish, Directory, Undoings, Uncared, NothingUndone, Goto
<1>4. Cares'
  BY DEF Finish, HumanInv, Directory, Cares, Uncared, NothingUndone, Goto, history, Written, Safe
<1> QED
  BY <1>1, <1>2, <1>3, <1>4

LEMMA CleanKeeps ==
  ASSUME HumanInv, Clean, FilesTypeOK', Directory'
  PROVE  Bases' /\ Publishing' /\ Undoings' /\ Cares'
<1>1. Bases'
  BY DEF Clean, HumanInv, Directory, Bases, Changes, history
<1>2. Publishing'
  BY DEF Clean, Directory, Publishing, Uncared
<1>3. Undoings'
  BY DEF Clean, Directory, Undoings, Uncared, NothingUndone
<1>4. Cares'
  BY DEF Clean, HumanInv, Cares, Uncared, history, Written, Safe
<1> QED
  BY <1>1, <1>2, <1>3, <1>4

LEMMA UndoFailsKeeps ==
  ASSUME HumanInv, UndoFails, FilesTypeOK', Directory'
  PROVE  Bases' /\ Publishing' /\ Undoings' /\ Cares'
<1>1. Bases'
  BY DEF UndoFails, HumanInv, Bases, Changes, Goto, directory
<1>2. Publishing'
  BY DEF UndoFails, Publishing, Uncared, Goto
<1>3. Undoings'
  BY DEF UndoFails, Undoings, Uncared, NothingUndone
<1>4. Cares'
  BY DEF UndoFails, HumanInv, Cares, Uncared, Goto, directory, Written, Safe, Shelved, Undone
<1> QED
  BY <1>1, <1>2, <1>3, <1>4

LEMMA DieKeeps ==
  ASSUME HumanInv, Terminate, FilesTypeOK', Directory'
  PROVE  Bases' /\ Publishing' /\ Undoings' /\ Cares'
<1>1. Bases'
  BY DEF Terminate, HumanInv, FilesTypeOK, Directory, Bases, Changes, directory, history
<1>2. Publishing'
  BY DEF Terminate, Publishing, Uncared, Goto
<1>3. Undoings'
  BY DEF Terminate, Undoings, Uncared, NothingUndone
<1>4. Cares'
  BY DEF Terminate, HumanInv, Cares, Uncared, Goto, directory, history, Written, Safe, Shelved
<1> QED
  BY <1>1, <1>2, <1>3, <1>4

LEMMA EditKeeps ==
  ASSUME HumanInv, NEW t \in Targets, Edit(t), FilesTypeOK', Directory'
  PROVE  Bases' /\ Publishing' /\ Undoings' /\ Cares'
<1>1. Bases'
  BY DEF Edit, HumanInv, Bases, Changes, directory
<1>2. Publishing'
  BY DEF Edit, HumanInv, Publishing, Uncared, Changes, directory, Unwatched
<1>3. Undoings'
  BY DEF Edit, HumanInv, Undoings, Uncared, directory, Written, Shelved, Unwatched
<1>4. Cares'
  BY DEF Edit, HumanInv, FilesTypeOK, Cares, Uncared, directory, Written, Safe, Shelved
<1> QED
  BY <1>1, <1>2, <1>3, <1>4

-----------------------------------------------------------------------------
(* All or nothing. *)

\* All the files are as a person left them, or all are new.
Whole == file = human \/ \A t \in Targets : file[t] = "new"

\* How far a transaction that nobody disturbed has come.
Together == edited = {} /\ failed = {} =>
  /\ \A t \in Targets : human[t] # "new"
  /\ staging => plan = human
  /\ pc = "previewed" => plan = file
  /\ pc \in {"idle", "previewed"} /\ ~staging => Whole
  /\ pc = "staging" => file = plan
  /\ pc \in {"publishing", "renaming"} => \A t \in staged : file[t] = plan[t]
  /\ pc \in {"rolling", "undoing"} => \A t \in Targets :
       /\ undo[t] = "none" => file[t] = plan[t]
       /\ undo[t] = "remove" => plan[t] = "absent"
  /\ pc = "cleaning" \/ (pc = "idle" /\ staging /\ ~journaled) => Whole

LEMMA PreviewTogether ==
  ASSUME HumanInv, Together, Preview, HumanInv'
  PROVE  Together'
BY DEF Preview, HumanInv, Directory, Goto, history, Together, Whole

LEMMA BeginTogether ==
  ASSUME HumanInv, Together, BeginApply, HumanInv'
  PROVE  Together'
BY DEF BeginApply, HumanInv, Directory, Changes, history, Together, Whole

LEMMA StageTogether ==
  ASSUME HumanInv, Together, Stage, HumanInv'
  PROVE  Together'
BY DEF Stage, history, Together

LEMMA WriteJournalTogether ==
  ASSUME HumanInv, Together, WriteJournal, HumanInv'
  PROVE  Together'
BY DEF WriteJournal, Goto, history, Together

LEMMA CheckTargetTogether ==
  ASSUME HumanInv, Together, CheckTarget, HumanInv'
  PROVE  Together'
BY MinIn DEF CheckTarget, HumanInv, FilesTypeOK, Goto, directory, history, Together

LEMMA PublishTogether ==
  ASSUME HumanInv, Together, PublishTarget, HumanInv'
  PROVE  Together'
BY DEF PublishTarget, Goto, Together

LEMMA CompleteTogether ==
  ASSUME HumanInv, Together, Complete, HumanInv'
  PROVE  Together'
BY DEF Complete, HumanInv, FilesTypeOK, Directory, Publishing, Uncared, Changes, Goto, history, Together, Whole

LEMMA ApplyFailsTogether ==
  ASSUME HumanInv, Together, ApplyFails, HumanInv'
  PROVE  Together'
BY DEF ApplyFails, HumanInv, Directory, Changes, Existed, Goto, history, Together, Fail

LEMMA RecoverTogether ==
  ASSUME HumanInv, Together, Recover, HumanInv'
  PROVE  Together'
BY DEF Recover, Changes, Existed, Goto, history, Together, Whole, RecoveryAction

LEMMA RemoveTargetTogether ==
  ASSUME HumanInv, Together, RemoveTarget, HumanInv'
  PROVE  Together'
BY MaxIn DEF RemoveTarget, HumanInv, FilesTypeOK, Directory, history, Together, Undone, Undoing

LEMMA RestoreTargetTogether ==
  ASSUME HumanInv, Together, RestoreTarget, HumanInv'
  PROVE  Together'
BY DEF RestoreTarget, HumanInv, FilesTypeOK, Directory, history, Together

LEMMA FinishTogether ==
  ASSUME HumanInv, Together, Finish, HumanInv'
  PROVE  Together'
BY DEF Finish, HumanInv, FilesTypeOK, Directory, NothingUndone, history, Together, Whole

LEMMA CleanTogether ==
  ASSUME HumanInv, Together, Clean, HumanInv'
  PROVE  Together'
BY DEF Clean, Goto, history, Together, Whole

LEMMA UndoFailsTogether ==
  ASSUME HumanInv, Together, UndoFails, HumanInv'
  PROVE  Together'
BY DEF UndoFails, HumanInv, FilesTypeOK, Directory, Goto, directory, Together, Whole, Undone

LEMMA DieTogether ==
  ASSUME HumanInv, Together, Terminate, HumanInv'
  PROVE  Together'
BY DEF Terminate, HumanInv, FilesTypeOK, Directory, Goto, directory, history, Together, Whole

LEMMA EditTogether ==
  ASSUME HumanInv, Together, NEW t \in Targets, Edit(t), HumanInv'
  PROVE  Together'
BY DEF Edit, Together

-----------------------------------------------------------------------------
(* Recovery stays open. *)

Open(t) == RecoveryAction(t) # "conflict"

\* With a journal, recovery can act on every target of a transaction nobody
\* disturbed, or all of them are new; what is being undone left the staging
\* directory, and its backup is still there.
Opens == edited = {} /\ failed = {} =>
  /\ pc \in {"publishing", "renaming", "rolling", "undoing"} /\ journaled => \A t \in Changes : Open(t)
  /\ pc \in {"cleaning", "idle"} /\ staging /\ journaled => (\A t \in Changes : Open(t)) \/ AllNew
  /\ \A t \in Targets : undo[t] # "none" =>
       /\ t \notin staged
       /\ t \in Existed => t \in backup
       /\ undo[t] = "rename" => file[t] = "absent"
       /\ undo[t] \in {"restore", "rename"} => t \in Existed

LEMMA PreviewOpens ==
  ASSUME HumanInv, Together, Opens, Preview, HumanInv', Together'
  PROVE  Opens'
BY DEF Preview, Directory, HumanInv, Opens, Goto

LEMMA BeginOpens ==
  ASSUME HumanInv, Together, Opens, BeginApply, HumanInv', Together'
  PROVE  Opens'
BY DEF BeginApply, HumanInv, Directory, Opens

LEMMA StageOpens ==
  ASSUME HumanInv, Together, Opens, Stage, HumanInv', Together'
  PROVE  Opens'
BY DEF Stage, HumanInv, Directory, Opens, Fail, Goto, Changes

LEMMA WriteJournalOpens ==
  ASSUME HumanInv, Together, Opens, WriteJournal, HumanInv', Together'
  PROVE  Opens'
BY DEF WriteJournal, Goto, Opens, Open, RecoveryAction, Changes, Together, Directory, HumanInv, history

LEMMA CheckTargetOpens ==
  ASSUME HumanInv, Together, Opens, CheckTarget, HumanInv', Together'
  PROVE  Opens'
BY MinIn DEF CheckTarget, HumanInv, Directory, Opens, Open, RecoveryAction, Changes, Existed, Fail, Goto,
   directory, history

LEMMA PublishOpens ==
  ASSUME HumanInv, Together, Opens, PublishTarget, HumanInv', Together'
  PROVE  Opens'
BY MinIn DEF PublishTarget, HumanInv, FilesTypeOK, Directory, Together, Opens, Open, RecoveryAction, Changes, Existed, Goto

LEMMA CompleteOpens ==
  ASSUME HumanInv, Together, Opens, Complete, HumanInv', Together'
  PROVE  Opens'
BY DEF Complete, HumanInv, Directory, Goto, directory, history, Opens, Open, RecoveryAction, Changes, Existed

LEMMA ApplyFailsOpens ==
  ASSUME HumanInv, Together, Opens, ApplyFails, HumanInv', Together'
  PROVE  Opens'
BY DEF ApplyFails, HumanInv, Directory, Opens, Open, RecoveryAction, Changes, Existed, Fail, Goto, directory,
   history

LEMMA RecoverOpens ==
  ASSUME HumanInv, Together, Opens, Recover, HumanInv', Together'
  PROVE  Opens'
BY DEF Recover, HumanInv, Directory, Opens, Open, RecoveryAction, Changes, Existed, Goto, directory, history

LEMMA RemoveTargetOpens ==
  ASSUME HumanInv, Together, Opens, RemoveTarget, HumanInv', Together'
  PROVE  Opens'
BY MaxIn DEF RemoveTarget, HumanInv, FilesTypeOK, Directory, Together, Opens, Open, RecoveryAction, Changes,
   Existed, Undone, Undoing, directory, history

LEMMA RestoreTargetOpens ==
  ASSUME HumanInv, Together, Opens, RestoreTarget, HumanInv', Together'
  PROVE  Opens'
BY MaxIn DEF RestoreTarget, HumanInv, FilesTypeOK, Directory, Opens, Open, RecoveryAction, Changes, Existed, Undone,
   Undoing, history

LEMMA FinishOpens ==
  ASSUME HumanInv, Together, Opens, Finish, HumanInv', Together'
  PROVE  Opens'
BY DEF Finish, Opens, Open, RecoveryAction, Changes, Existed, Goto, directory, history

LEMMA CleanOpens ==
  ASSUME HumanInv, Together, Opens, Clean, HumanInv', Together'
  PROVE  Opens'
<1> SUFFICES ASSUME edited = {}, failed = {} PROVE Opens'
  BY DEF Clean, Opens, history
<1>1. UNCHANGED <<file, plan, undo>> /\ undo = NothingUndone /\ pc = "cleaning"
  BY DEF Clean, HumanInv, Directory
<1>2. pc' \in {"cleaning", "idle"}
  BY <1>1 DEF Clean, Goto
<1>3. staging
  BY <1>1 DEF HumanInv, Directory
<1>4. CASE AllNew
  BY <1>1, <1>2, <1>4 DEF Opens, AllNew, NothingUndone
<1>5. CASE \A t \in Targets : file[t] = plan[t]
  <2>1. \A t \in Changes' : Open(t)'
    BY <1>1, <1>5 DEF Changes, Open, RecoveryAction
  <2> QED
    BY <1>1, <1>2, <2>1 DEF Opens, NothingUndone
<1> QED
  BY <1>1, <1>3, <1>4, <1>5 DEF Together, Whole, AllNew

LEMMA UndoFailsOpens ==
  ASSUME HumanInv, Together, Opens, UndoFails, HumanInv', Together'
  PROVE  Opens'
BY DEF UndoFails, NothingUndone, Undoing, Undone, Opens, Open, RecoveryAction, Changes, Existed, Goto, directory

LEMMA DieOpens ==
  ASSUME HumanInv, Together, Opens, Terminate, HumanInv', Together'
  PROVE  Opens'
<1> SUFFICES ASSUME edited = {}, failed = {}, staging, journaled
             PROVE  (\A t \in Changes : Open(t)) \/ AllNew
  BY DEF Terminate, NothingUndone, Opens, Open, AllNew, RecoveryAction, Changes, Existed, Goto, directory, history
<1>1. pc \in {"publishing", "renaming", "rolling", "undoing", "cleaning"}
  BY DEF Terminate, HumanInv, FilesTypeOK, Directory
<1> QED
  BY <1>1 DEF Opens

LEMMA EditOpens ==
  ASSUME Opens, NEW t \in Targets, Edit(t)
  PROVE  Opens'
BY DEF Edit, Opens

-----------------------------------------------------------------------------
(* The theorems. *)

LEMMA InitHolds == FilesInit => HumanInv /\ Together /\ Opens
<1> SUFFICES ASSUME FilesInit PROVE HumanInv /\ Together /\ Opens
  OBVIOUS
<1>1. FilesTypeOK /\ Directory
  BY DirectoryInit
<1>2. /\ file \in [Targets -> {"absent", "old"}] /\ human = file /\ plan = file
      /\ staging = FALSE /\ pc = "idle" /\ undo = [t \in Targets |-> "none"]
  BY DEF FilesInit, NothingUndone
<1>3. Bases /\ Publishing /\ Undoings
  BY <1>2 DEF Bases, Publishing, Uncared, Undoings
<1>4. Cares
  BY <1>2 DEF Cares, Uncared, Safe
<1>5. Together
  BY <1>2 DEF Together, Whole
<1>6. Opens
  BY <1>2 DEF Opens
<1> QED
  BY <1>1, <1>3, <1>4, <1>5, <1>6 DEF HumanInv

LEMMA StutterKeeps ==
  ASSUME HumanInv, UNCHANGED fileVars
  PROVE  HumanInv' /\ (Together => Together') /\ (Opens => Opens')
<1>1. FilesTypeOK' /\ Directory'
  BY DirectoryNext DEF HumanInv
<1>2. /\ UNCHANGED <<file, human, base, plan, staging, staged, backup, journaled>>
      /\ UNCHANGED <<pc, undo, edited, exposed, failed>>
  BY DEF fileVars, directory, history
<1>3. Bases' /\ Publishing' /\ Undoings' /\ Cares'
  BY <1>2 DEF HumanInv, Bases, Publishing, Uncared, Undoings, Cares, Changes, Written, Safe, Shelved
<1>4. Together => Together'
  BY <1>2 DEF Together, Whole
<1>5. Opens => Opens'
  BY <1>2 DEF Opens, Open, AllNew, RecoveryAction, Changes, Existed
<1> QED
  BY <1>1, <1>3, <1>4, <1>5 DEF HumanInv

LEMMA HumanNext == HumanInv /\ [FilesNext]_fileVars => HumanInv'
<1> SUFFICES ASSUME HumanInv, [FilesNext]_fileVars PROVE HumanInv'
  OBVIOUS
<1>1. FilesTypeOK' /\ Directory'
  BY DirectoryNext DEF HumanInv
<1>2. CASE Works
  BY <1>1, <1>2, PreviewKeeps, BeginKeeps, StageKeeps, WriteJournalKeeps, CheckTargetKeeps, PublishKeeps,
     CompleteKeeps, RecoverKeeps, RemoveTargetKeeps, RestoreTargetKeeps, FinishKeeps, CleanKeeps
     DEF Works, Applies, HumanInv
<1>3. CASE ApplyFails \/ UndoFails \/ Terminate
  BY <1>1, <1>3, ApplyFailsKeeps, UndoFailsKeeps, DieKeeps DEF HumanInv
<1>4. ASSUME NEW t \in Targets, Edit(t) PROVE HumanInv'
  BY <1>1, <1>4, EditKeeps DEF HumanInv
<1> QED
  BY <1>2, <1>3, <1>4, StutterKeeps DEF FilesNext

LEMMA TogetherNext == HumanInv /\ Together /\ [FilesNext]_fileVars => Together'
<1> SUFFICES ASSUME HumanInv, Together, [FilesNext]_fileVars PROVE Together'
  OBVIOUS
<1>1. HumanInv'
  BY HumanNext
<1>2. CASE Works
  BY <1>1, <1>2, PreviewTogether, BeginTogether, StageTogether, WriteJournalTogether, CheckTargetTogether,
     PublishTogether, CompleteTogether, RecoverTogether, RemoveTargetTogether, RestoreTargetTogether,
     FinishTogether, CleanTogether DEF Works, Applies
<1>3. CASE ApplyFails \/ UndoFails \/ Terminate
  BY <1>1, <1>3, ApplyFailsTogether, UndoFailsTogether, DieTogether
<1>4. ASSUME NEW t \in Targets, Edit(t) PROVE Together'
  BY <1>1, <1>4, EditTogether
<1> QED
  BY <1>2, <1>3, <1>4, StutterKeeps DEF FilesNext

LEMMA OpensNext == HumanInv /\ Together /\ Opens /\ [FilesNext]_fileVars => Opens'
<1> SUFFICES ASSUME HumanInv, Together, Opens, [FilesNext]_fileVars PROVE Opens'
  OBVIOUS
<1>1. HumanInv' /\ Together'
  BY HumanNext, TogetherNext
<1>2. CASE Works
  BY <1>1, <1>2, PreviewOpens, BeginOpens, StageOpens, WriteJournalOpens, CheckTargetOpens, PublishOpens,
     CompleteOpens, RecoverOpens, RemoveTargetOpens, RestoreTargetOpens, FinishOpens, CleanOpens
     DEF Works, Applies
<1>3. CASE ApplyFails \/ UndoFails \/ Terminate
  BY <1>1, <1>3, ApplyFailsOpens, UndoFailsOpens, DieOpens
<1>4. ASSUME NEW t \in Targets, Edit(t) PROVE Opens'
  BY <1>4, EditOpens
<1> QED
  BY <1>2, <1>3, <1>4, StutterKeeps DEF FilesNext

\* The three invariants hold in every reachable state.
THEOREM Invariance == FilesSpec => [](HumanInv /\ Together /\ Opens)
<1>1. HumanInv /\ Together /\ Opens /\ [FilesNext]_fileVars => (HumanInv /\ Together /\ Opens)'
  BY HumanNext, TogetherNext, OpensNext
<1> QED
  BY <1>1, InitHolds, PTL DEF FilesSpec

\* What a person left at a canonical file survives every preview, apply,
\* rollback and recovery, wherever they are cut short, but for a file edited
\* where the code does not look again and the files of a failed rollback.
THEOREM HumanTheorem == FilesSpec => []HumanContentSurvives
<1>1. HumanInv => HumanContentSurvives
  BY DEF HumanInv, Cares, Uncared, Written, Safe, Shelved, HumanContentSurvives
<1> QED
  BY <1>1, Invariance, PTL

\* Once the staging directory is gone, every canonical file was changed or none,
\* if nobody edited one and no rollback failed.
THEOREM WholeTheorem == FilesSpec => []AllOrNothing
<1>1. Together => AllOrNothing
  BY DEF Together, Whole, AllOrNothing, AllNew
<1> QED
  BY <1>1, Invariance, PTL

\* However often an incomplete transaction and its recoveries are cut short,
\* recovery can act on every target, if nobody edited one and no rollback failed.
THEOREM OpenTheorem == FilesSpec => []RecoveryIsOpen
<1>1. Opens => RecoveryIsOpen
  BY DEF Opens, Open, RecoveryIsOpen
<1> QED
  BY <1>1, Invariance, PTL
=============================================================================
