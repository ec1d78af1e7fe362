------------------------------ MODULE Activation ------------------------------
(***************************************************************************)
(* Activation, rollback and removal of installed releases                  *)
(* (packages/distribution/src/transactional-activation.ts): processes that *)
(* share one install root, its lock file, its journal, its releases and    *)
(* the pointer to the active one.  Each process issues one command; any of *)
(* them may die, or an operation of it may fail, between two steps.        *)
(*                                                                         *)
(* A release stands for its digest.  Staged inputs are taken as verified;  *)
(* one trust root has verified all of them.                                *)
(***************************************************************************)
EXTENDS Integers

CONSTANTS
  Releases,    \* the releases staged for this host
  Issuers,     \* one per command
  Scripts,     \* the ways commands are given to the processes
  Nil          \* no release, no process

Kinds == {"activate", "rollback", "launch", "uninstall", "purge"}

\* A bound command names the trust root that verified its release; a command
\* that is safe neither fails nor dies.
ASSUME ScriptsAssumption ==
  Scripts \subseteq [Issuers -> [kind : Kinds, release : Releases, bound : BOOLEAN, safe : BOOLEAN]]

ASSUME NilAssumption == Nil \notin Releases \cup Issuers

VARIABLES
  command,   \* process -> its command
  lock,      \* whose activation.lock is at its path, or Nil
  written,   \* processes that wrote their pid into their lock file
  aside,     \* whose lock file a process renamed aside, or Nil
  observed,  \* the owner a process read in the lock it judges
  tries,     \* attempts of a process to acquire the lock
  step,      \* what each process does next
  mode,      \* what a process does: for a launch, what it decided
  active,    \* active.json: the selected release, or Nil
  journal,   \* activation-journal.json, or NoJournal
  tx,        \* transactions/<release>
  content,   \* releases/<release>
  verified   \* the record of TUF-verified releases, and the latest of them

locks == <<lock, written, aside, observed, tries>>
orders == <<command, mode>>
files == <<active, journal, tx, content, verified>>
vars == <<orders, locks, step, files>>

Attempts == 3

NoJournal == [state |-> "none", target |-> Nil]

NoRecord == [releases |-> {}, latest |-> Nil]

\* Steps that hold the lock.
Opening == {"opening", "copying", "filling", "probing", "sealing", "reprobing"}
Switching == {"preparing", "publishing", "noting", "recording", "switching", "committing"}
Clearing == {"confirming", "sweeping", "clearing"}
Removing == {"deselecting", "forgetting", "emptying", "tearing", "razing", "unrecording"}
Held == Opening \cup Switching \cup Clearing \cup Removing

Locking == {"acquiring", "writing", "reading", "moving", "comparing", "restoring"}

Steps == {"ready", "looking", "releasing", "unlocking", "done", "dead"} \cup Locking \cup Held

Release(p) == command[p].release

At(p, s) == step[p] = s

Goes(p, s) == step' = [step EXCEPT ![p] = s]

Alive(p) == step[p] \notin {"ready", "done", "dead"}

\* A release directory that is there and passes installedBundle.
Installed(r) == content[r] = "sealed"

Recorded(r) == r \in verified.releases

-----------------------------------------------------------------------------
(* A command begins. *)

Begin(p) ==
  /\ At(p, "ready")
  /\ Goes(p, IF command[p].kind = "launch" THEN "looking" ELSE "acquiring")
  /\ UNCHANGED <<locks, orders, files>>

\* The launcher looks for its pinned release before it takes the lock: it is
\* retained when it is recorded, not the latest one, and its manifest is there,
\* which a torn release may have lost.
Retained(r) == Recorded(r) /\ verified.latest # r /\ content[r] # "none"

Look(p) ==
  /\ At(p, "looking")
  /\ \E m \in {"activate", "rollback"} :
       /\ m = "rollback" => Retained(Release(p))
       /\ m = "activate" => ~(Retained(Release(p)) /\ Installed(Release(p)))
       /\ mode' = [mode EXCEPT ![p] = m]
  /\ Goes(p, "acquiring")
  /\ UNCHANGED <<command, locks, files>>

-----------------------------------------------------------------------------
(* The lock. *)

Busy(p) == Goes(p, "done")

\* open(O_CREAT | O_EXCL): after three attempts the command gives up.
Acquire(p) ==
  /\ At(p, "acquiring")
  /\ IF tries[p] = Attempts
       THEN Busy(p) /\ UNCHANGED <<lock, tries>>
       ELSE /\ tries' = [tries EXCEPT ![p] = @ + 1]
            /\ IF lock = Nil THEN lock' = p /\ Goes(p, "writing")
                              ELSE UNCHANGED lock /\ Goes(p, "reading")
  /\ UNCHANGED <<written, aside, observed, orders, files>>

\* Mutant: a purge begins with the releases.
FirstHeldTearing(p) ==
  IF mode[p] = "purge" THEN "tearing" ELSE IF mode[p] = "uninstall" THEN "deselecting" ELSE "opening"

FirstHeld(p) == IF mode[p] \in {"uninstall", "purge"} THEN "deselecting" ELSE "opening"

\* The pid reaches the file that was opened, wherever it is by now.
WriteLock(p) ==
  /\ At(p, "writing")
  /\ written' = written \cup {p}
  /\ Goes(p, FirstHeld(p))
  /\ UNCHANGED <<lock, aside, observed, tries, orders, files>>

\* lockOwner names a process, and that process is gone.
Stale(q) == q \in written /\ ~Alive(q)

\* reclaimStaleLock: a missing or unwritten lock has no owner to judge.
ReadLock(p) ==
  /\ At(p, "reading")
  /\ IF lock # Nil /\ Stale(lock)
       THEN observed' = [observed EXCEPT ![p] = lock] /\ Goes(p, "moving")
       ELSE UNCHANGED observed /\ Busy(p)
  /\ UNCHANGED <<lock, written, aside, tries, orders, files>>

\* rename(path, stale): whatever is at the path by now; ENOENT is retried.
MoveLock(p) ==
  /\ At(p, "moving")
  /\ aside' = [aside EXCEPT ![p] = lock]
  /\ lock' = Nil
  /\ Goes(p, IF lock = Nil THEN "acquiring" ELSE "comparing")
  /\ UNCHANGED <<written, observed, tries, orders, files>>

\* The file that was moved is removed if it holds the bytes judged stale.
CompareLock(p) ==
  /\ At(p, "comparing")
  /\ IF aside[p] = observed[p]
       THEN aside' = [aside EXCEPT ![p] = Nil] /\ Goes(p, "acquiring")
       ELSE UNCHANGED aside /\ Goes(p, "restoring")
  /\ UNCHANGED <<lock, written, observed, tries, orders, files>>

\* rename(stale, path) replaces what is there.
RestoreLock(p) ==
  /\ At(p, "restoring")
  /\ lock' = aside[p]
  /\ aside' = [aside EXCEPT ![p] = Nil]
  /\ Busy(p)
  /\ UNCHANGED <<written, observed, tries, orders, files>>

\* The owner reads the lock back, and removes the file at the path.
ReleaseLock(p) ==
  /\ At(p, "releasing")
  /\ Goes(p, IF lock = p THEN "unlocking" ELSE "done")
  /\ UNCHANGED <<locks, orders, files>>

Unlock(p) ==
  /\ At(p, "unlocking")
  /\ lock' = Nil
  /\ Goes(p, "done")
  /\ UNCHANGED <<written, aside, observed, tries, orders, files>>

-----------------------------------------------------------------------------
(* Activation and rollback, under the lock. *)

\* A step of the process that holds the lock.
Under(p, from, to) == At(p, from) /\ Goes(p, to) /\ UNCHANGED <<locks, orders>>

\* Mutant: an activation does not look for a journal.
ForeignForRollback(p) ==
  mode[p] = "rollback" /\ journal # NoJournal /\ journal.target # Release(p)

\* assertNoForeignJournal: the journal of another release must be settled first.
Foreign(p) == journal # NoJournal /\ journal.target # Release(p)

MayRollBack(p) ==
  Installed(Release(p)) /\ (command[p].bound => Recorded(Release(p)))

\* Mutant: what an interrupted activation left is in the way of the next one.
ActivationPlanOnce(p) ==
  CASE active = Release(p) /\ Installed(Release(p))          -> "confirming"
    [] active # Release(p) /\ Installed(Release(p))          -> "reprobing"
    [] active # Release(p) /\ content[Release(p)] = "none" /\ tx[Release(p)] = "none" -> "copying"
    [] OTHER                                                 -> "releasing"

\* What an opened activation does: confirm the release that is active, reuse
\* one that is installed, or copy the staged closure.
ActivationPlan(p) ==
  CASE active = Release(p) /\ Installed(Release(p))          -> "confirming"
    [] active # Release(p) /\ Installed(Release(p))          -> "reprobing"
    [] active # Release(p) /\ content[Release(p)] = "none"   -> "copying"
    [] OTHER                                                 -> "releasing"

Open(p) ==
  /\ Under(p, "opening", IF Foreign(p) THEN "releasing"
             ELSE IF mode[p] = "activate" THEN ActivationPlan(p)
             ELSE IF MayRollBack(p) THEN "reprobing" ELSE "releasing")
  /\ UNCHANGED files

Stages(p, s) ==
  /\ tx' = [tx EXCEPT ![Release(p)] = s]
  /\ UNCHANGED <<active, journal, content, verified>>

Points(r) == active' = r /\ UNCHANGED <<journal, tx, content, verified>>

\* copyClosure: what an earlier transaction left is removed first.
BeginCopy(p) == Under(p, "copying", "filling") /\ Stages(p, "partial")

EndCopy(p) == Under(p, "filling", "probing") /\ Stages(p, "copied")

\* The health gate runs on the copy; a gate that fails is a Fault.
Probe(p) == Under(p, "probing", "sealing") /\ UNCHANGED files

\* The next step once the health gate passed on an installed release.
AfterReprobe(p) ==
  IF mode[p] = "rollback" THEN "preparing"
  ELSE IF command[p].bound THEN "recording" ELSE "switching"

\* The health gate runs on the release that is installed.
Reprobe(p) == Under(p, "reprobing", AfterReprobe(p)) /\ UNCHANGED files

\* release.json joins the copy.
Seal(p) == Under(p, "sealing", "preparing") /\ Stages(p, "sealed")

Journals(j) == journal' = j /\ UNCHANGED <<active, tx, content, verified>>

Journalled(p, state) == Journals([state |-> state, target |-> Release(p)])

Prepare(p) ==
  Under(p, "preparing", IF mode[p] = "rollback" THEN "switching" ELSE "publishing") /\ Journalled(p, "PREPARED")

\* The copy is renamed to its place; a directory that is not there, or is in
\* the way, refuses the rename.
Publish(p) ==
  /\ At(p, "publishing")
  /\ IF tx[Release(p)] # "none" /\ content[Release(p)] = "none"
       THEN /\ content' = [content EXCEPT ![Release(p)] = tx[Release(p)]]
            /\ tx' = [tx EXCEPT ![Release(p)] = "none"]
            /\ Goes(p, "noting")
       ELSE UNCHANGED <<content, tx>> /\ Goes(p, "releasing")
  /\ UNCHANGED <<locks, orders, active, journal, verified>>

NotePublished(p) ==
  Under(p, "noting", IF command[p].bound THEN "recording" ELSE "switching") /\ Journalled(p, "PUBLISHED")

\* recordVerified: the release moves to the end of the record, the rest stays.
RecordedLast(r) ==
  /\ verified' = [releases |-> verified.releases \cup {r}, latest |-> r]
  /\ UNCHANGED <<active, journal, tx, content>>

Record(p) == Under(p, "recording", "switching") /\ RecordedLast(Release(p))

SwitchPointer(p) == Under(p, "switching", "committing") /\ Points(Release(p))

Commit(p) ==
  Under(p, "committing", IF mode[p] = "rollback" THEN "clearing" ELSE "sweeping") /\ Journalled(p, "COMMITTED")

\* An activation of the active release records it again.
Confirm(p) ==
  /\ Under(p, "confirming", "clearing")
  /\ IF command[p].bound THEN RecordedLast(Release(p)) ELSE UNCHANGED files

Sweep(p) == Under(p, "sweeping", "clearing") /\ Stages(p, "none")

ClearJournal(p) == Under(p, "clearing", "releasing") /\ Journals(NoJournal)

-----------------------------------------------------------------------------
(* Removal, under the lock. *)

Deselect(p) == Under(p, "deselecting", "forgetting") /\ Points(Nil)

Forget(p) == Under(p, "forgetting", "emptying") /\ Journals(NoJournal)

EmptyTransactions(p) ==
  /\ Under(p, "emptying", IF mode[p] = "purge" THEN "tearing" ELSE "releasing")
  /\ tx' = [r \in Releases |-> "none"]
  /\ UNCHANGED <<active, journal, content, verified>>

\* The removal of the releases, which a death may interrupt at any file.
Tear(p) ==
  /\ Under(p, "tearing", "razing")
  /\ \E torn \in SUBSET {r \in Releases : content[r] # "none"} :
       content' = [r \in Releases |-> IF r \in torn THEN "torn" ELSE content[r]]
  /\ UNCHANGED <<active, journal, tx, verified>>

Raze(p) ==
  /\ Under(p, "razing", "unrecording")
  /\ content' = [r \in Releases |-> "none"]
  /\ UNCHANGED <<active, journal, tx, verified>>

Unrecord(p) ==
  /\ Under(p, "unrecording", "releasing")
  /\ verified' = NoRecord
  /\ UNCHANGED <<active, journal, tx, content>>

-----------------------------------------------------------------------------
(* Failures. *)

\* An operation under the lock fails: the command ends and frees the lock.
Fault(p) ==
  /\ step[p] \in Held /\ ~command[p].safe
  /\ Goes(p, "releasing")
  /\ UNCHANGED <<locks, orders, files>>

\* The process dies.
Die(p) ==
  /\ Alive(p) /\ ~command[p].safe
  /\ Goes(p, "dead")
  /\ UNCHANGED <<locks, orders, files>>

-----------------------------------------------------------------------------
TypeOK ==
  /\ command \in Scripts
  /\ lock \in Issuers \cup {Nil}
  /\ written \subseteq Issuers
  /\ aside \in [Issuers -> Issuers \cup {Nil}]
  /\ observed \in [Issuers -> Issuers \cup {Nil}]
  /\ tries \in [Issuers -> 0..Attempts]
  /\ step \in [Issuers -> Steps]
  /\ mode \in [Issuers -> Kinds \ {"launch"}]
  /\ active \in Releases \cup {Nil}
  /\ journal \in [state : {"none", "PREPARED", "PUBLISHED", "COMMITTED"}, target : Releases \cup {Nil}]
  /\ tx \in [Releases -> {"none", "partial", "copied", "sealed"}]
  /\ content \in [Releases -> {"none", "partial", "copied", "sealed", "torn"}]
  /\ verified \in [releases : SUBSET Releases, latest : Releases \cup {Nil}]

\* An install root on which some releases were activated, one after the other,
\* or none, and one of them may be active.
Init ==
  /\ command \in Scripts
  /\ lock = Nil /\ written = {}
  /\ aside = [p \in Issuers |-> Nil] /\ observed = [p \in Issuers |-> Nil]
  /\ tries = [p \in Issuers |-> 0]
  /\ step = [p \in Issuers |-> "ready"]
  /\ mode = [p \in Issuers |-> IF command[p].kind = "launch" THEN "activate" ELSE command[p].kind]
  /\ verified \in {NoRecord} \cup {[releases |-> s, latest |-> r] : s \in SUBSET Releases, r \in Releases}
  /\ verified # NoRecord => verified.latest \in verified.releases
  /\ active \in {Nil} \cup {r \in Releases : Recorded(r)}
  /\ content = [r \in Releases |-> IF Recorded(r) THEN "sealed" ELSE "none"]
  /\ journal = NoJournal
  /\ tx = [r \in Releases |-> "none"]

Lock(p) ==
  Acquire(p) \/ WriteLock(p) \/ ReadLock(p) \/ MoveLock(p) \/ CompareLock(p) \/ RestoreLock(p)
  \/ ReleaseLock(p) \/ Unlock(p)

Activate(p) ==
  Open(p) \/ BeginCopy(p) \/ EndCopy(p) \/ Probe(p) \/ Reprobe(p) \/ Seal(p) \/ Prepare(p)
  \/ Publish(p) \/ NotePublished(p) \/ Record(p) \/ SwitchPointer(p) \/ Commit(p) \/ Confirm(p)
  \/ Sweep(p) \/ ClearJournal(p)

Uninstall(p) ==
  Deselect(p) \/ Forget(p) \/ EmptyTransactions(p) \/ Tear(p) \/ Raze(p) \/ Unrecord(p)

Next ==
  \E p \in Issuers :
    Begin(p) \/ Look(p) \/ Lock(p) \/ Activate(p) \/ Uninstall(p) \/ Fault(p) \/ Die(p)

Spec == Init /\ [][Next]_vars

-----------------------------------------------------------------------------
(* Properties *)

\* One command at a time changes the install root, whoever died with the lock
\* and whoever reclaims it ("single files inside the install root are
\* serialized by the activation lock", transactional-activation.ts:30).
OneOwner == \A p, q \in Issuers : step[p] \in Held /\ step[q] \in Held => p = q

\* The pointer names a release whose every byte is in place and was found
\* healthy, whatever was interrupted before: no launcher is resolved from a
\* release that is being copied, torn down, or was never published.  When every
\* command is bound to the trust root, that release is recorded under it: the
\* record is written before the switch and removed after the pointer.
ActiveIsWhole ==
  active # Nil =>
    /\ Installed(active)
    /\ (\A p \in Issuers : command[p].bound) => Recorded(active)

\* While the journal of an interrupted command is there, no other release is
\* selected (VES_ACTIVATION_RECOVERY_REQUIRED).
JournalsGuardThePointer ==
  [][active' \notin {active, Nil} /\ journal # NoJournal => active' = journal.target]_vars

\* An activation or a launch that neither fails nor dies, of a release that all
\* commands are about and none removes.
Retries(p) ==
  /\ command[p].safe /\ command[p].kind \in {"activate", "launch"}
  /\ \A q \in Issuers : Release(q) = Release(p) /\ command[q].kind \notin {"uninstall", "purge"}

\* Once it got the lock it ends with its release active, wherever earlier
\* commands for the release were interrupted
\* ("crash at ... converges on retry without losing last-known-good").
RetriesConverge ==
  \A p \in Issuers : Retries(p) /\ At(p, "done") /\ p \in written => active = Release(p)
=============================================================================
