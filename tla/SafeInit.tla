------------------------------ MODULE SafeInit ------------------------------
(***************************************************************************)
(* Initialisation of a workspace as a transaction over its canonical files *)
(* (packages/workspace/src/init/safe-init.ts): preview, apply and recover, *)
(* with the staging directory that holds the new files, the backups and    *)
(* the recovery journal.                                                   *)
(*                                                                         *)
(* One process at a time works on the control root.  It may die between    *)
(* any two file operations, an operation may fail, and a person may write  *)
(* or delete a target at any moment: these are faults, at most MaxFaults.  *)
(***************************************************************************)
EXTENDS Integers, FiniteSetsExt

CONSTANTS
  TargetCount,  \* number of canonical files
  Updatable,    \* those that may exist before: .gitignore and the manifest
  MaxFaults     \* bound: deaths, failures and edits

ASSUME TargetsAssumption == TargetCount \in Nat /\ Updatable \subseteq 1..TargetCount

ASSUME BoundAssumption == MaxFaults \in Nat

VARIABLES
  file,      \* target -> what it holds; "new" is what init writes
  human,     \* target -> what a person left there last
  base,      \* target -> what its new file was made from
  staging,   \* whether the staging directory exists
  staged,    \* targets whose new file is in it
  backup,    \* targets whose previous file is in it
  journaled, \* whether its journal is complete
  plan,      \* target -> its expected content; "new" when there is no change
  pc,        \* what the process does next
  undo,      \* target -> what the rollback or the recovery does to it
  faults,    \* deaths, failures and edits so far
  edited,    \* targets a person edited
  exposed,   \* targets edited where the code does not look again
  failed     \* targets that a failed rollback left as they were

directory == <<staging, staged, backup, journaled>>
history == <<human, base, edited, exposed, failed>>
fileVars == <<file, directory, plan, pc, undo, faults, history>>

\* The canonical files, in the order of their paths.
Targets == 1..TargetCount

NothingUndone == [t \in Targets |-> "none"]

FilesInit ==
  /\ file \in [Targets -> {"absent", "old"}]
  /\ \A t \in Targets : file[t] = "old" => t \in Updatable
  /\ human = file
  /\ base = file
  /\ staging = FALSE
  /\ staged = {}
  /\ backup = {}
  /\ journaled = FALSE
  /\ plan = file
  /\ pc = "idle"
  /\ undo = NothingUndone
  /\ faults = 0
  /\ edited = {}
  /\ exposed = {}
  /\ failed = {}

FaultHappens == faults < MaxFaults /\ faults' = faults + 1

Goto(step) == pc' = step

Changes == {t \in Targets : plan[t] # "new"}

Existed == {t \in Changes : plan[t] # "absent"}

-----------------------------------------------------------------------------
(* Preview and apply *)

\* A file of somebody else at a target that init only creates is a conflict.
Preview ==
  /\ pc = "idle"
  /\ ~staging
  /\ \A t \in Targets \ Updatable : file[t] \in {"absent", "new"}
  /\ Goto("previewed")
  /\ plan' = file
  /\ UNCHANGED <<file, directory, undo, faults, history>>

IsCurrent == \A t \in Changes : file[t] = plan[t]

BeginApply ==
  /\ pc = "previewed"
  /\ IF IsCurrent /\ Changes # {}
     THEN Goto("staging") /\ staging' = TRUE
     ELSE Goto("idle") /\ UNCHANGED staging
  /\ UNCHANGED <<file, staged, backup, journaled, plan, undo, faults, history>>

\* The failure of an apply: what was published is undone.
Fail ==
  LET applied == IF journaled THEN Changes \ staged ELSE {} IN
  /\ Goto("rolling")
  /\ undo' = [t \in Targets |-> IF t \notin applied THEN "none"
                                ELSE IF t \in Existed THEN "restore" ELSE "remove"]

Stage ==
  LET target == Min(Changes \ staged) IN
  /\ pc = "staging"
  /\ Changes \ staged # {}
  /\ staged' = staged \cup {target}
  /\ IF target \in Existed /\ file[target] # plan[target]
     THEN Fail /\ UNCHANGED backup
     ELSE backup' = backup \cup ({target} \cap Existed) /\ UNCHANGED <<pc, undo>>
  /\ UNCHANGED <<file, staging, journaled, plan, faults, history>>

\* Mutant: files are published before the journal is.
WriteJournalLate ==
  /\ pc = "staging"
  /\ Changes \subseteq staged
  /\ Goto("publishing")
  /\ UNCHANGED <<file, directory, plan, undo, faults, history>>

WriteJournal ==
  /\ pc = "staging"
  /\ Changes \subseteq staged
  /\ journaled' = TRUE
  /\ Goto("publishing")
  /\ UNCHANGED <<file, staging, staged, backup, plan, undo, faults, history>>

\* Mutant: what was staged is published without another look.
CheckNothing ==
  /\ pc = "publishing"
  /\ staged # {}
  /\ Goto("renaming")
  /\ UNCHANGED <<file, directory, plan, undo, faults, history>>

\* The check at the publication boundary, and the rename that follows it.
CheckTarget ==
  /\ pc = "publishing"
  /\ staged # {}
  /\ IF file[Min(staged)] = plan[Min(staged)]
     THEN Goto("renaming") /\ UNCHANGED undo
     ELSE Fail
  /\ UNCHANGED <<file, directory, plan, faults, history>>

PublishTarget ==
  LET target == Min(staged) IN
  /\ pc = "renaming"
  /\ file' = [file EXCEPT ![target] = "new"]
  /\ base' = [base EXCEPT ![target] = plan[target]]
  /\ staged' = staged \ {target}
  /\ Goto("publishing")
  /\ UNCHANGED <<staging, backup, journaled, plan, undo, faults, human, edited, exposed, failed>>

Complete ==
  /\ pc = "publishing"
  /\ staged = {}
  /\ Goto("cleaning")
  /\ UNCHANGED <<file, directory, plan, undo, faults, history>>

ApplyFails ==
  /\ pc \in {"staging", "publishing", "renaming"}
  /\ FaultHappens
  /\ Fail
  /\ UNCHANGED <<file, directory, plan, history>>

-----------------------------------------------------------------------------
(* Recovery *)

\* Mutant: a target that a recovery removed and did not restore is a conflict.
RecoveryActionOnce(t) ==
  CASE file[t] = plan[t] -> "none"
    [] t \notin staged /\ file[t] = "new" /\ t \notin Existed -> "remove"
    [] t \notin staged /\ file[t] = "new" /\ t \in backup -> "restore"
    [] OTHER -> "conflict"

\* What recovery does to one target of the journal.
RecoveryAction(t) ==
  CASE t \in staged /\ file[t] = plan[t] -> "none"
    [] t \notin staged /\ file[t] = "new" /\ t \notin Existed -> "remove"
    [] t \notin staged /\ file[t] = "new" /\ t \in backup -> "restore"
    [] t \notin staged /\ file[t] = plan[t] -> "none"
    [] t \notin staged /\ file[t] = "absent" /\ t \in backup -> "restore"
    [] OTHER -> "conflict"

\* Without a journal nothing was published.  Recovery acts on no target
\* before it has judged all of them.
Recover ==
  LET Action(t) == IF t \in Changes THEN RecoveryAction(t) ELSE "none" IN
  /\ pc = "idle"
  /\ staging
  /\ IF journaled
     THEN /\ \A t \in Targets : Action(t) # "conflict"
          /\ Goto("undoing")
          /\ undo' = [t \in Targets |-> Action(t)]
     ELSE Goto("cleaning") /\ UNCHANGED undo
  /\ UNCHANGED <<file, directory, plan, faults, history>>

-----------------------------------------------------------------------------
(* Undoing, for a rollback and for a recovery *)

Undone == {t \in Targets : undo[t] # "none"}

Undoing == pc \in {"rolling", "undoing"} /\ Undone # {}

RemoveTarget ==
  LET target == Max(Undone) IN
  /\ Undoing
  /\ undo[target] # "rename"
  /\ file' = [file EXCEPT ![target] = "absent"]
  /\ undo' = [undo EXCEPT ![target] = IF @ = "restore" THEN "rename" ELSE "none"]
  /\ UNCHANGED <<directory, plan, pc, faults, history>>

RestoreTarget ==
  LET target == Max(Undone) IN
  /\ Undoing
  /\ undo[target] = "rename"
  /\ file' = [file EXCEPT ![target] = plan[target]]
  /\ backup' = backup \ {target}
  /\ undo' = [undo EXCEPT ![target] = "none"]
  /\ UNCHANGED <<staging, staged, journaled, plan, pc, faults, history>>

Finish ==
  /\ pc \in {"rolling", "undoing"}
  /\ Undone = {}
  /\ Goto("cleaning")
  /\ UNCHANGED <<file, directory, plan, undo, faults, history>>

\* A rollback that fails still cleans; a recovery that fails leaves everything.
UndoFails ==
  /\ Undoing
  /\ FaultHappens
  /\ undo' = NothingUndone
  /\ IF pc = "rolling"
     THEN Goto("cleaning") /\ failed' = failed \cup Undone
     ELSE Goto("idle") /\ UNCHANGED failed
  /\ UNCHANGED <<file, directory, plan, human, base, edited, exposed>>

\* The staging directory goes entry by entry, in no order of the code's.
Clean ==
  /\ pc = "cleaning"
  /\ \/ \E t \in staged : staged' = staged \ {t} /\ UNCHANGED <<staging, backup, journaled, pc>>
     \/ \E t \in backup : backup' = backup \ {t} /\ UNCHANGED <<staging, staged, journaled, pc>>
     \/ journaled /\ journaled' = FALSE /\ UNCHANGED <<staging, staged, backup, pc>>
     \/ /\ staged = {} /\ backup = {} /\ ~journaled
        /\ staging' = FALSE
        /\ Goto("idle")
        /\ UNCHANGED <<staged, backup, journaled>>
  /\ UNCHANGED <<file, plan, undo, faults, history>>

-----------------------------------------------------------------------------
\* A death keeps what is on disk.
Terminate ==
  /\ pc # "idle"
  /\ FaultHappens
  /\ Goto("idle")
  /\ undo' = NothingUndone
  /\ UNCHANGED <<file, directory, plan, history>>

\* What the process replaces without a further look: the target it has checked,
\* those it undoes, and those a rollback would undo.
Unwatched(t) ==
  \/ pc = "renaming" /\ t = Min(staged)
  \/ undo[t] # "none"
  \/ pc \in {"publishing", "renaming"} /\ t \in Changes \ staged

Edit(t) ==
  /\ FaultHappens
  /\ \E value \in {"edited", "absent"} \ {file[t]} :
       file' = [file EXCEPT ![t] = value] /\ human' = [human EXCEPT ![t] = value]
  /\ edited' = edited \cup {t}
  /\ exposed' = IF Unwatched(t) THEN exposed \cup {t} ELSE exposed
  /\ UNCHANGED <<directory, plan, pc, undo, base, failed>>

Applies == Preview \/ BeginApply \/ Stage \/ WriteJournal \/ CheckTarget \/ PublishTarget \/ Complete

Works == Applies \/ Recover \/ RemoveTarget \/ RestoreTarget \/ Finish \/ Clean

FilesNext == Works \/ ApplyFails \/ UndoFails \/ Terminate \/ (\E t \in Targets : Edit(t))

FilesSpec == FilesInit /\ [][FilesNext]_fileVars

-----------------------------------------------------------------------------
Contents == {"absent", "old", "edited", "new"}

\* The type of the variables.
FilesTypeOK ==
  /\ file \in [Targets -> Contents]
  /\ human \in [Targets -> Contents]
  /\ base \in [Targets -> Contents]
  /\ plan \in [Targets -> Contents]
  /\ staging \in BOOLEAN /\ journaled \in BOOLEAN
  /\ staged \subseteq Targets /\ backup \subseteq Targets
  /\ pc \in {"idle", "previewed", "staging", "publishing", "renaming", "rolling", "undoing", "cleaning"}
  /\ undo \in [Targets -> {"none", "remove", "restore", "rename"}]
  /\ faults \in 0..MaxFaults
  /\ edited \subseteq Targets /\ exposed \subseteq edited /\ failed \subseteq Targets

\* What a person left at a target is there, or is what the new file was made
\* from, or is kept beside the journal that restores it.  Two cases are not
\* claimed: an edit where the code does not look again, and a target that a
\* failed rollback had still to undo, of which the code keeps no copy.
HumanContentSurvives ==
  \A t \in Targets \ (exposed \cup failed) :
    human[t] \in {"old", "edited"} =>
      \/ file[t] = human[t]
      \/ file[t] = "new" /\ base[t] = human[t]
      \/ staging /\ journaled /\ t \in backup /\ plan[t] = human[t]

AllNew == \A t \in Targets : file[t] = "new"

\* Between transactions the canonical files are all as they were or all new,
\* if nobody edited one and no rollback failed: deaths anywhere, failed applies
\* and failed recoveries, any number of them, do not leave a mix.
AllOrNothing == pc = "idle" /\ ~staging /\ edited = {} /\ failed = {} => file = human \/ AllNew

\* A transaction cut short before it was complete can be recovered, and still
\* can after recoveries that were cut short too ("Recovery is itself
\* crash-idempotent", docs t20-validation.md:41), if nobody edited a target and
\* no rollback failed.  Once all files are new it is not claimed: a death while
\* the directory of a complete transaction is removed may leave the journal
\* without its backups, and recovery refuses it for good.
RecoveryIsOpen ==
  pc = "idle" /\ staging /\ journaled /\ edited = {} /\ failed = {} =>
    (\A t \in Changes : RecoveryAction(t) # "conflict") \/ AllNew

\* "Before-stage, before-publish, and partial-publish failures preserve prior
\* state" (t20-validation.md:38): a failed apply leaves the files as they were.
\* It does not when its rollback fails too.
FailuresPreserveState == pc = "idle" /\ ~staging /\ edited = {} => file = human \/ AllNew
=============================================================================
