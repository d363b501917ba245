---------------------------- MODULE UpdateInstall ----------------------------
(***************************************************************************)
(* The update installer (tool/p9_update_install.py): an update is verified *)
(* against signed metadata, extracted beside the installation, and swapped *)
(* in by two renames, under a journal that says how far it got.  The       *)
(* replaced version stays beside it until it is accepted or rolled back.   *)
(*                                                                         *)
(* One action is one durable step of a command: a journal write (fsync and *)
(* rename, so never torn), a rename of a directory, a recursive removal.   *)
(* Any of them may throw, and the process may die between any two of them  *)
(* or in the middle of a removal, which leaves part of a directory.        *)
(*                                                                         *)
(* One command runs at a time: the tool takes no lock.  Directories left   *)
(* aside by a crash under a random name are never read again and are not   *)
(* kept in the state.                                                      *)
(***************************************************************************)
EXTENDS SignedManifest

CONSTANTS
    Versions,       \* a set of naturals
    Offers,         \* envelopes of update metadata, with the artifact they come with
    Keyring,        \* the trust store
    Now,            \* the time of every command
    Absent,         \* no such path
    NoJournal,
    MaxCrashes,     \* bound on process deaths
    MaxFaults,      \* bound on steps that throw
    MaxTampers      \* bound on changes someone else makes to an installed tree

VARIABLES
    root,        \* the directory install_root
    previous,    \* the backup, .<name>.previous
    stage,       \* the extracted update, .<name>.stage-<id>
    journal,     \* .<name>.update-journal.json
    aside,       \* what a rollback or an uninstall moved aside
    at,          \* where the running command is
    work,        \* its local variables
    result,      \* what the last command that ended reported
    owned,       \* history: an installation was committed and is not being uninstalled
    tampered,    \* history: someone else changed an installed tree
    crashes, faults, tampers

disk == <<root, previous, stage, journal, aside>>
bounds == <<crashes, faults, tampers>>
vars == <<disk, at, work, result, owned, tampered, bounds>>

-----------------------------------------------------------------------------
\* An installation: its version, and whether its manifest is there and its
\* files are the ones the manifest lists.
Trees == [version : Versions, is : {"whole", "damaged", "unmanaged"}]

Paths == Trees \cup {Absent}

Phases == {"PREPARING", "STAGED", "BACKED_UP", "ACTIVATED", "COMMITTED"}

Journals == [phase : Phases, version : Versions, hadPrevious : BOOLEAN]

ASSUME UpdateAssumption ==
    /\ Versions \subseteq Nat /\ Versions # {} /\ Offers # {}
    /\ \A o \in Offers : o.payload.version \in Versions /\ o.payload.files \in {"whole", "damaged"}
    /\ MaxCrashes \in Nat /\ MaxFaults \in Nat /\ MaxTampers \in Nat
    /\ Absent \notin Trees /\ NoJournal \notin Journals

\* The offer in hand, the version verified against, and the in-memory copy of
\* the journal, whose phase is set before it is written.
Works == [offer : Offers, current : Versions, had : BOOLEAN, phase : Phases]

Steps == {"idle",
          "begin", "prepare", "extract", "staged", "back_up", "backed_up",
          "activate", "activated", "verify", "commit", "finish",
          "undo_stage", "undo_root", "undo_replace", "undo_journal",
          "accept_remove",
          "rollback_aside", "rollback_replace", "rollback_drop",
          "recover_stage", "recover_root", "recover_replace", "recover_journal",
          "uninstall_aside", "uninstall_remove", "uninstall_previous"}

Results == {"none", "failed", "crashed", "installed", "accepted", "rolled_back",
            "not_required", "finalized", "restored", "not_installed", "cleaned",
            "uninstalled"}

Whole(p) == p # Absent /\ p.is = "whole"

\* _require_managed_install without verify_tree: the manifest is there.
Managed(p) == p # Absent /\ p.is # "unmanaged"

\* What is left of a tree when its removal stops half way.
Partial(p) == {[p EXCEPT !.is = "damaged"], [p EXCEPT !.is = "unmanaged"]}

-----------------------------------------------------------------------------
\* verify_update: the metadata is authentic and for this product, the update
\* is newer than the installed version and declared compatible with it, and
\* the artifact is the one the metadata names.
VerifyUpdate(o, current) ==
    /\ VerifyManifest(o, Keyring, Now, "update", "release")
    /\ o.payload.platform
    /\ o.payload.compatible # {}
    /\ \A v \in o.payload.compatible : v < o.payload.version
    /\ current \in o.payload.compatible
    /\ current < o.payload.version
    /\ o.payload.digest

-----------------------------------------------------------------------------
Init ==
    /\ root = Absent /\ previous = Absent /\ stage = Absent /\ aside = Absent
    /\ journal = NoJournal
    /\ at = "idle"
    /\ work = [offer |-> CHOOSE o \in Offers : TRUE, current |-> CHOOSE v \in Versions : TRUE,
               had |-> FALSE, phase |-> "PREPARING"]
    /\ result = "none"
    /\ owned = FALSE /\ tampered = FALSE
    /\ crashes = 0 /\ faults = 0 /\ tampers = 0

\* A step of the running command that keeps the bounds and the histories.
Goto(step) == at' = step /\ UNCHANGED <<result, owned, tampered, bounds>>

End(r) ==
    /\ at' = "idle" /\ result' = r
    /\ UNCHANGED <<owned, tampered, bounds>>

\* A command's first checks, all of which raise before anything is changed.
Refuse(step) ==
    /\ at = step /\ End("failed")
    /\ UNCHANGED <<disk, work>>

\* main, install: verify_update, then install_verified_update's checks.
Install(o, current) ==
    /\ at = "idle"
    /\ IF VerifyUpdate(o, current)
       THEN /\ Goto("begin")
            /\ work' = [work EXCEPT !.offer = o, !.current = current]
       ELSE End("failed") /\ UNCHANGED work
    /\ UNCHANGED disk

\* Mutant: the installed version is not compared with the one verified against.
InstallAllowed_AnyVersion ==
    /\ journal = NoJournal /\ previous = Absent
    /\ root # Absent => Whole(root)

InstallAllowed ==
    /\ journal = NoJournal
    /\ previous = Absent
    /\ root # Absent => /\ Whole(root)
                        /\ root.version = work.current
                        /\ root.version < work.offer.payload.version

InstallRefused == ~InstallAllowed /\ Refuse("begin")

Begin ==
    /\ at = "begin" /\ InstallAllowed
    /\ work' = [work EXCEPT !.had = (root # Absent), !.phase = "PREPARING"]
    /\ Goto("prepare")
    /\ UNCHANGED disk

\* Mutant: everything in memory is written.
WriteJournal_AllState(step, next) ==
    /\ at = step
    /\ journal' = work
    /\ Goto(next)
    /\ UNCHANGED <<root, previous, stage, aside, work>>

\* _write_atomic of the in-memory journal.
WriteJournal(step, next) ==
    /\ at = step
    /\ journal' = [phase |-> work.phase, version |-> work.offer.payload.version,
                   hadPrevious |-> work.had]
    /\ Goto(next)
    /\ UNCHANGED <<root, previous, stage, aside, work>>

\* _extract_bundle: the archive must name the version and the platform of the
\* metadata; whether its files are those of its manifest is not looked at yet.
Extract ==
    /\ at = "extract"
    /\ stage' = [version |-> work.offer.payload.version, is |-> work.offer.payload.files]
    /\ work' = [work EXCEPT !.phase = "STAGED"]
    /\ Goto("staged")
    /\ UNCHANGED <<root, previous, journal, aside>>

BackUp ==
    /\ at = "back_up" /\ work.had /\ root # Absent
    /\ previous' = root /\ root' = Absent
    /\ work' = [work EXCEPT !.phase = "BACKED_UP"]
    /\ Goto("backed_up")
    /\ UNCHANGED <<stage, journal, aside>>

NothingToBackUp ==
    /\ at = "back_up" /\ ~work.had
    /\ Goto("activate")
    /\ UNCHANGED <<disk, work>>

Activate ==
    /\ at = "activate" /\ root = Absent
    /\ root' = stage /\ stage' = Absent
    /\ work' = [work EXCEPT !.phase = "ACTIVATED"]
    /\ Goto("activated")
    /\ UNCHANGED <<previous, journal, aside>>

\* Mutant: the swapped-in tree is taken as it is.
VerifyInstalled_Unverified ==
    /\ at = "verify"
    /\ Goto("commit") /\ work' = [work EXCEPT !.phase = "COMMITTED"]
    /\ UNCHANGED disk

VerifyInstalled ==
    /\ at = "verify"
    /\ IF Whole(root)
       THEN Goto("commit") /\ work' = [work EXCEPT !.phase = "COMMITTED"]
       ELSE Goto("undo_stage") /\ UNCHANGED work
    /\ UNCHANGED disk

Finish ==
    /\ at = "finish"
    /\ journal' = NoJournal
    /\ at' = "idle" /\ result' = "installed" /\ owned' = TRUE
    /\ UNCHANGED <<root, previous, stage, aside, work, tampered, bounds>>

\* The except clause of install_verified_update.
UndoStage ==
    /\ at = "undo_stage"
    /\ stage' = Absent
    /\ Goto(CASE previous # Absent -> "undo_root"
              [] previous = Absent /\ ~work.had
                   /\ work.phase \in {"ACTIVATED", "COMMITTED"} -> "undo_root"
              [] OTHER -> "undo_journal")
    /\ UNCHANGED <<root, previous, journal, aside, work>>

UndoRoot ==
    /\ at = "undo_root"
    /\ root' = Absent
    /\ Goto(IF previous # Absent THEN "undo_replace" ELSE "undo_journal")
    /\ UNCHANGED <<previous, stage, journal, aside, work>>

\* os.replace(previous, install_root), in the three places that restore.
Restore(step, next) ==
    /\ at = step /\ root = Absent
    /\ root' = previous /\ previous' = Absent
    /\ Goto(next)
    /\ UNCHANGED <<stage, journal, aside, work>>

UndoJournal ==
    /\ at = "undo_journal"
    /\ journal' = NoJournal
    /\ End("failed")
    /\ UNCHANGED <<root, previous, stage, aside, work>>

InstallStep ==
    \/ InstallRefused \/ Begin
    \/ WriteJournal("prepare", "extract")
    \/ Extract
    \/ WriteJournal("staged", "back_up")
    \/ BackUp \/ NothingToBackUp
    \/ WriteJournal("backed_up", "activate")
    \/ Activate
    \/ WriteJournal("activated", "verify")
    \/ VerifyInstalled
    \/ WriteJournal("commit", "finish")
    \/ Finish
    \/ UndoStage \/ UndoRoot \/ Restore("undo_replace", "undo_journal") \/ UndoJournal

-----------------------------------------------------------------------------
\* accept_update: both trees are verified before the backup is dropped.
AcceptAllowed ==
    /\ journal = NoJournal
    /\ Whole(root)
    /\ previous # Absent => Whole(previous)

Accept ==
    /\ at = "idle"
    /\ IF ~AcceptAllowed THEN End("failed")
       ELSE IF previous = Absent THEN End("accepted") ELSE Goto("accept_remove")
    /\ UNCHANGED <<disk, work>>

AcceptRemove ==
    /\ at = "accept_remove"
    /\ previous' = Absent
    /\ End("accepted")
    /\ UNCHANGED <<root, stage, journal, aside, work>>

-----------------------------------------------------------------------------
\* Mutant: the backup's files are not verified.
RollbackAllowed_AnyBackup == Managed(previous) /\ (root # Absent => Managed(root))

\* rollback: it looks at the two directories and not at the journal.
RollbackAllowed ==
    /\ Whole(previous)
    /\ root # Absent => Managed(root)

Rollback ==
    /\ at = "idle"
    /\ IF ~RollbackAllowed THEN End("failed")
       ELSE Goto(IF root = Absent THEN "rollback_replace" ELSE "rollback_aside")
    /\ UNCHANGED <<disk, work>>

RollbackAside ==
    /\ at = "rollback_aside"
    /\ aside' = root /\ root' = Absent
    /\ Goto("rollback_replace")
    /\ UNCHANGED <<previous, stage, journal, work>>

RollbackReplace == Restore("rollback_replace", "rollback_drop")

RollbackDrop ==
    /\ at = "rollback_drop"
    /\ aside' = Absent
    /\ at' = "idle" /\ result' = "rolled_back" /\ owned' = TRUE
    /\ UNCHANGED <<root, previous, stage, journal, work, tampered, bounds>>

RollbackStep == RollbackAside \/ RollbackReplace \/ RollbackDrop

-----------------------------------------------------------------------------
\* The journal of a committed update agrees with the installation.
CommitHolds == Whole(root) /\ root.version = journal.version

\* Mutant: the interrupted installation has to be whole to be replaced.
MayReplaceRoot_WholeRoot == Whole(previous) /\ (root # Absent => Whole(root))

\* Before the backup replaces it, the installation is removed if it is ours.
MayReplaceRoot == Whole(previous) /\ (root # Absent => Managed(root))

\* recover_interrupted, when the journal says COMMITTED: finalize, or take the
\* update back and raise, which keeps the journal.
RecoverCommitted ==
    /\ IF CommitHolds THEN Goto("recover_journal")
       ELSE IF previous # Absent /\ MayReplaceRoot THEN Goto("recover_root")
       ELSE IF previous = Absent /\ ~journal.hadPrevious /\ Managed(root)
            THEN Goto("recover_root")
       ELSE End("failed")

Recover ==
    /\ at = "idle"
    /\ IF journal = NoJournal THEN End("not_required")
       ELSE IF journal.phase = "COMMITTED" THEN RecoverCommitted
       ELSE Goto("recover_stage")
    /\ UNCHANGED <<disk, work>>

\* The stage is removed, and what the journal says was swapped in goes.
RecoverStage ==
    /\ at = "recover_stage"
    /\ stage' = Absent
    /\ IF journal.phase \in {"PREPARING", "STAGED"} THEN Goto("recover_journal")
       ELSE IF journal.hadPrevious
            THEN IF MayReplaceRoot THEN Goto("recover_root") ELSE End("failed")
       ELSE IF journal.phase = "BACKED_UP" \/ root = Absent THEN Goto("recover_journal")
       ELSE IF Managed(root) THEN Goto("recover_root") ELSE End("failed")
    /\ UNCHANGED <<root, previous, journal, aside, work>>

RecoverRoot ==
    /\ at = "recover_root"
    /\ root' = Absent
    /\ IF previous # Absent THEN Goto("recover_replace")
       ELSE IF journal.phase = "COMMITTED" THEN End("failed")
       ELSE Goto("recover_journal")
    /\ UNCHANGED <<previous, stage, journal, aside, work>>

RecoverReplace ==
    /\ at = "recover_replace"
    /\ root' = previous /\ previous' = Absent
    /\ IF journal.phase = "COMMITTED" THEN End("failed") ELSE Goto("recover_journal")
    /\ UNCHANGED <<stage, journal, aside, work>>

RecoverJournal ==
    /\ at = "recover_journal"
    /\ journal' = NoJournal
    /\ at' = "idle"
    /\ result' = CASE journal.phase = "COMMITTED" -> "finalized"
                   [] journal.phase \in {"PREPARING", "STAGED"} -> "cleaned"
                   [] journal.phase \in {"BACKED_UP", "ACTIVATED"} ->
                        IF journal.hadPrevious THEN "restored" ELSE "not_installed"
    /\ owned' = (owned \/ journal.phase = "COMMITTED")
    /\ UNCHANGED <<root, previous, stage, aside, work, tampered, bounds>>

RecoverStep == RecoverStage \/ RecoverRoot \/ RecoverReplace \/ RecoverJournal

-----------------------------------------------------------------------------
UninstallAllowed ==
    /\ journal = NoJournal
    /\ Whole(root)
    /\ previous # Absent => Whole(previous)

Uninstall ==
    /\ at = "idle"
    /\ IF journal = NoJournal /\ root = Absent THEN End("not_installed")
       ELSE IF ~UninstallAllowed THEN End("failed")
       ELSE /\ at' = "uninstall_aside" /\ owned' = FALSE
            /\ UNCHANGED <<result, tampered, bounds>>
    /\ UNCHANGED <<disk, work>>

UninstallAside ==
    /\ at = "uninstall_aside"
    /\ aside' = root /\ root' = Absent
    /\ Goto("uninstall_remove")
    /\ UNCHANGED <<previous, stage, journal, work>>

UninstallRemove ==
    /\ at = "uninstall_remove"
    /\ aside' = Absent
    /\ Goto("uninstall_previous")
    /\ UNCHANGED <<root, previous, stage, journal, work>>

UninstallPrevious ==
    /\ at = "uninstall_previous"
    /\ previous' = Absent
    /\ End("uninstalled")
    /\ UNCHANGED <<root, stage, journal, aside, work>>

UninstallStep == UninstallAside \/ UninstallRemove \/ UninstallPrevious

-----------------------------------------------------------------------------
\* The steps inside the try block of install_verified_update.
InTry == {"extract", "staged", "back_up", "backed_up", "activate", "activated",
          "verify", "commit", "finish"}

\* A removal that stops half way, of the directory the step removes.
HalfRemoved(step, p, removing) ==
    IF p # Absent /\ step \in removing THEN Partial(p) \cup {p} ELSE {p}

Disturbed ==
    /\ root' \in HalfRemoved(at, root, {"undo_root", "recover_root"})
    /\ previous' \in HalfRemoved(at, previous, {"accept_remove", "uninstall_previous"})

\* A step throws: the install's handler undoes it, a rollback and an uninstall
\* move back what they moved aside, and every other command just ends.
Throw ==
    /\ at \notin {"idle", "begin"} /\ faults < MaxFaults
    /\ faults' = faults + 1
    /\ IF at \in InTry THEN at' = "undo_stage" /\ UNCHANGED result
       ELSE at' = "idle" /\ result' = "failed"
    /\ aside' = Absent
    /\ CASE at = "rollback_replace" /\ aside # Absent ->
              root' = aside /\ UNCHANGED previous
         [] at = "uninstall_remove" ->
              root' \in Partial(aside) \cup {aside} /\ UNCHANGED previous
         [] OTHER -> Disturbed
    /\ UNCHANGED <<stage, journal, work, owned, tampered, crashes, tampers>>

Crash ==
    /\ at # "idle" /\ crashes < MaxCrashes
    /\ crashes' = crashes + 1
    /\ at' = "idle" /\ result' = "crashed"
    /\ aside' = Absent
    /\ Disturbed
    /\ UNCHANGED <<stage, journal, work, owned, tampered, faults, tampers>>

\* Someone else edits or removes files of an installed tree.
Tamper ==
    /\ tampers < MaxTampers
    /\ \/ root # Absent /\ root' \in Partial(root) /\ UNCHANGED previous
       \/ previous # Absent /\ previous' \in Partial(previous) /\ UNCHANGED root
    /\ tampers' = tampers + 1 /\ tampered' = TRUE
    /\ UNCHANGED <<stage, journal, aside, at, work, result, owned, crashes, faults>>

-----------------------------------------------------------------------------
Command ==
    \/ \E o \in Offers, v \in Versions : Install(o, v)
    \/ Accept \/ Rollback \/ Recover \/ Uninstall

Running == InstallStep \/ AcceptRemove \/ RollbackStep \/ RecoverStep \/ UninstallStep

Next == Command \/ Running \/ Throw \/ Crash \/ Tamper

\* A command that runs goes on until it ends; an operator left without a working
\* installation tries recover and rollback again and again.
Fairness ==
    /\ WF_vars(Running)
    /\ SF_vars(~Whole(root) /\ Recover)
    /\ SF_vars(~Whole(root) /\ journal = NoJournal /\ Rollback)

Spec == Init /\ [][Next]_vars

FairSpec == Spec /\ Fairness

-----------------------------------------------------------------------------
(***************************************************************************)
(* Properties.                                                             *)
(***************************************************************************)

\* Every path holds an installation or nothing, and a command is at one step.
TypeOK ==
    /\ root \in Paths /\ previous \in Paths /\ stage \in Paths /\ aside \in Paths
    /\ journal \in Journals \cup {NoJournal}
    /\ at \in Steps
    /\ work \in Works
    /\ result \in Results
    /\ owned \in BOOLEAN /\ tampered \in BOOLEAN
    /\ crashes \in 0 .. MaxCrashes /\ faults \in 0 .. MaxFaults
    /\ tampers \in 0 .. MaxTampers

\* Once a version was installed, a working version is on disk at every moment
\* until it is uninstalled, whichever step of an install, a rollback, an accept
\* or a recovery throws or is cut short (install_verified_update,
\* recover_interrupted, rollback, accept_update).
NeverLost ==
    owned /\ ~tampered => Whole(root) \/ Whole(previous)

\* The backup is older than what replaced it, so that a rollback goes back
\* (the version checks of verify_update and install_verified_update, across
\* interrupted commands).
BackupIsOlder ==
    root # Absent /\ previous # Absent => previous.version < root.version

\* There is always something to go back to, and it lies behind: a working version on disk, and
\* a backup that is older than what replaced it.
SafetyNet == NeverLost /\ BackupIsOlder

\* A command that reports success leaves the working installation it reports:
\* an install, a finalized or restored recovery, a rollback and an accept.
ReportsWorking ==
    at = "idle" /\ ~tampered
    /\ result \in {"installed", "finalized", "restored", "rolled_back", "accepted"}
        => Whole(root)

\* An operator who retries recover and rollback gets a working version back,
\* unless a removal cut short has left a directory without its manifest, which
\* every command refuses to touch.
WorkingVersionReturns ==
    (owned /\ ~Whole(root)) ~>
        (Whole(root) \/ (root # Absent /\ ~Managed(root)) \/ ~owned \/ tampered)

\* docs/roadmap/MASTER.md, P9-009: an injected failure at every stage returns
\* to a working version.  A recovery that reports success should leave one.
RecoveryReturnsWorking ==
    at = "idle" /\ owned /\ ~tampered /\ result \in {"cleaned", "restored", "finalized"}
        => Whole(root)
=============================================================================
