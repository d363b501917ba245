------------------------- MODULE UpdateInstallProofs -------------------------
(***************************************************************************)
(* The update installer for any set of versions and offers, and any number *)
(* of crashes, throwing steps and changes by others: a working version is  *)
(* always on disk, the backup is older than what replaced it, and success  *)
(* is only reported of a working installation.                             *)
(***************************************************************************)
EXTENDS UpdateInstall, TLAPS

(* A directory that is there holds a working version, unless others changed it. *)
Working(p) == p # Absent /\ (tampered \/ p.is = "whole")

Offered == work.offer.payload.version

Forward == {"prepare", "extract", "staged", "back_up"}

Swapping == {"backed_up", "activate", "activated", "verify", "commit", "finish"}

Undoing == {"undo_stage", "undo_root", "undo_replace", "undo_journal"}

(* An install in progress: the journal it wrote speaks of it, what it backed *)
(* up works and is older, and when there was nothing to back up nothing was  *)
(* installed before.                                                         *)
InstallInv ==
    /\ at \in Forward \cup Swapping \cup Undoing =>
          /\ journal # NoJournal => journal.hadPrevious = work.had
          /\ ~work.had => previous = Absent /\ (tampered \/ ~owned)
          /\ previous # Absent => Working(previous)
    /\ at \in Forward =>
          /\ previous = Absent /\ (work.had <=> root # Absent)
          /\ root # Absent => Working(root) /\ root.version < Offered
          /\ work.phase \in {"PREPARING", "STAGED"}
    /\ at \in Swapping /\ previous # Absent => previous.version < Offered
    /\ at \in {"staged", "back_up", "backed_up", "activate"} =>
          stage # Absent /\ stage.version = Offered
    /\ at \in {"commit", "finish"} => Working(root)
    /\ at = "undo_root" => previous # Absent \/ ~work.had
    /\ at = "undo_replace" => previous # Absent

(* The other commands: what a removal is about to lose is not needed. *)
CommandInv ==
    /\ at = "accept_remove" => Working(root)
    /\ at \in {"rollback_aside", "rollback_replace"} => Working(previous)
    /\ at = "rollback_drop" =>
          /\ Working(root) /\ previous = Absent
          /\ journal # NoJournal => journal.hadPrevious
    /\ at \in {"recover_stage", "recover_root", "recover_replace", "recover_journal"} =>
          journal # NoJournal
    /\ at = "recover_stage" => journal.phase # "COMMITTED"
    /\ at = "recover_root" => IF previous = Absent THEN ~journal.hadPrevious ELSE Working(previous)
    /\ at = "recover_replace" => Working(previous)
    /\ at = "recover_journal" /\ journal.phase = "COMMITTED" => Working(root)
    /\ at = "recover_journal" /\ journal.hadPrevious /\ journal.phase \in {"BACKED_UP", "ACTIVATED"}
          => Working(root)
    /\ at \in {"uninstall_aside", "uninstall_remove", "uninstall_previous"} => ~owned
    /\ at = "uninstall_aside" => root # Absent
    /\ at = "uninstall_remove" => aside # Absent

(* A journal of a first installation: nothing was installed yet. *)
JournalInv ==
    journal # NoJournal /\ ~journal.hadPrevious => previous = Absent /\ (tampered \/ ~owned)

(* Only a rollback or an uninstall moves the installation aside, and it is *)
(* newer than the backup.                                                  *)
AsideInv ==
    /\ aside # Absent => at \in {"rollback_replace", "rollback_drop", "uninstall_remove"}
    /\ aside # Absent /\ previous # Absent => previous.version < aside.version

UpdateInv ==
    /\ TypeOK
    /\ InstallInv /\ CommandInv /\ JournalInv /\ AsideInv
    /\ SafetyNet /\ ReportsWorking
-----------------------------------------------------------------------------
(* What a type says of a path. *)
LEMMA PathFacts ==
    ASSUME NEW p \in Paths, p # Absent
    PROVE  p \in Trees /\ p.version \in Versions /\ p.is \in {"whole", "damaged", "unmanaged"}
BY DEF Paths, Trees

(* A removal that stops half way leaves a tree of the same version. *)
LEMMA HalfRemovedFacts ==
    ASSUME NEW p \in Paths, NEW step, NEW removing, NEW q \in HalfRemoved(step, p, removing)
    PROVE  /\ q \in Paths
           /\ q = Absent <=> p = Absent
           /\ p # Absent => q.version = p.version
           /\ step \notin removing => q = p
BY UpdateAssumption DEF HalfRemoved, Partial, Paths, Trees

LEMMA PartialFacts ==
    ASSUME NEW p \in Paths, p # Absent, NEW q \in Partial(p)
    PROVE  q \in Paths /\ q # Absent /\ q.version = p.version
BY UpdateAssumption DEF Partial, Paths, Trees

(* No installation and no command at the start. *)
LEMMA InitUpdate == Init => UpdateInv
<1> USE UpdateAssumption
        DEF InstallInv, CommandInv, JournalInv, AsideInv, SafetyNet, NeverLost, BackupIsOlder,
            ReportsWorking, Working, Whole, Offered, Forward, Swapping, Undoing
<1> SUFFICES ASSUME Init PROVE UpdateInv
  OBVIOUS
<1>1. work \in Works
  BY DEF Init, Works, Phases
<1>2. /\ root = Absent /\ previous = Absent /\ stage = Absent /\ aside = Absent
      /\ journal = NoJournal /\ at = "idle" /\ result = "none" /\ owned = FALSE /\ tampered = FALSE
      /\ crashes = 0 /\ faults = 0 /\ tampers = 0
  BY DEF Init
<1>3. 0 \in 0 .. MaxCrashes /\ 0 \in 0 .. MaxFaults /\ 0 \in 0 .. MaxTampers
  OBVIOUS
<1>4. TypeOK
  BY ONLY <1>1, <1>2, <1>3 DEF TypeOK, Paths, Steps, Results
<1>5. InstallInv /\ CommandInv /\ JournalInv /\ AsideInv /\ SafetyNet /\ ReportsWorking
  BY <1>2
<1> QED BY <1>4, <1>5 DEF UpdateInv

(* A step of an install, or of undoing one, keeps the invariant. *)
LEMMA StepInstall ==
    ASSUME UpdateInv, InstallStep
    PROVE  UpdateInv'
<1> USE UpdateAssumption
        DEF InstallInv, CommandInv, JournalInv, AsideInv, SafetyNet, NeverLost, BackupIsOlder,
            ReportsWorking, Working, Whole, Offered, Forward, Swapping, Undoing
<1>1. CASE InstallRefused
  BY <1>1 DEF InstallRefused, Refuse, End, UpdateInv, TypeOK, Steps, Results, Journals, Phases, Works, Paths, disk, bounds
<1>2. CASE Begin
  <2>1. /\ work' \in Works /\ work'.offer = work.offer
        /\ (work'.had <=> root # Absent) /\ work'.phase = "PREPARING"
    BY <1>2 DEF Begin, UpdateInv, TypeOK, Works, Phases
  <2>2. TypeOK'
    BY <1>2, <2>1 DEF Begin, UpdateInv, TypeOK, Steps, Results, Journals, Phases, Works, Paths, disk, bounds, Goto
  <2>3. InstallInv' /\ CommandInv' /\ JournalInv'
    BY <1>2, <2>1 DEF Begin, InstallAllowed, UpdateInv, disk, bounds, Goto
  <2>4. AsideInv' /\ SafetyNet' /\ ReportsWorking'
    BY <1>2, <2>1 DEF Begin, UpdateInv, disk, bounds, Goto
  <2> QED BY <2>2, <2>3, <2>4 DEF UpdateInv
<1>3. CASE WriteJournal("prepare", "extract")
  BY <1>3 DEF WriteJournal, Goto, UpdateInv, TypeOK, Steps, Results, Journals, Phases, Works, Paths, disk, bounds
<1>4. CASE Extract
  <2>1. work' \in Works /\ work'.offer = work.offer /\ work'.had = work.had /\ work'.phase = "STAGED"
    BY <1>4 DEF Extract, UpdateInv, TypeOK, Works, Phases
  <2>2. stage' \in Trees /\ stage' # Absent /\ stage'.version = Offered'
    BY <1>4, <2>1 DEF Extract, UpdateInv, TypeOK, Works, Trees
  <2>3. /\ root' = root /\ previous' = previous /\ aside' = aside /\ journal' = journal
        /\ at = "extract" /\ at' = "staged" /\ UNCHANGED <<result, owned, tampered, bounds>>
    BY <1>4 DEF Extract, Goto
  <2>4. TypeOK'
    BY <2>1, <2>2, <2>3 DEF UpdateInv, TypeOK, Steps, Results, Journals, Phases, Works, Paths, bounds
  <2>5. InstallInv' /\ CommandInv' /\ JournalInv'
    BY <2>1, <2>2, <2>3 DEF UpdateInv
  <2>6. AsideInv' /\ SafetyNet' /\ ReportsWorking'
    BY <2>1, <2>2, <2>3 DEF UpdateInv
  <2> QED BY <2>4, <2>5, <2>6 DEF UpdateInv
<1>5. CASE WriteJournal("staged", "back_up")
  BY <1>5 DEF WriteJournal, Goto, UpdateInv, TypeOK, Steps, Results, Journals, Phases, Works, Paths, disk, bounds
<1>6. CASE BackUp
  <2>1. /\ work' \in Works /\ work'.offer = work.offer
        /\ work'.had = work.had /\ work'.phase = "BACKED_UP"
    BY <1>6 DEF BackUp, UpdateInv, TypeOK, Works, Phases
  <2>2. /\ root # Absent /\ root' = Absent /\ previous' = root
        /\ stage' = stage /\ aside' = aside /\ journal' = journal /\ work.had
        /\ at = "back_up" /\ at' = "backed_up" /\ UNCHANGED <<result, owned, tampered, bounds>>
    BY <1>6 DEF BackUp, Goto
  <2>3. TypeOK'
    BY <2>1, <2>2 DEF UpdateInv, TypeOK, Steps, Results, Journals, Phases, Works, Paths, bounds
  <2>4. Working(root) /\ root.version < Offered
    BY <2>2 DEF UpdateInv
  <2>5. InstallInv'
    BY <2>1, <2>2, <2>4 DEF UpdateInv
  <2>6. CommandInv' /\ JournalInv' /\ AsideInv' /\ SafetyNet' /\ ReportsWorking'
    BY <2>1, <2>2, <2>4 DEF UpdateInv
  <2> QED BY <2>3, <2>5, <2>6 DEF UpdateInv
<1>7. CASE NothingToBackUp
  BY <1>7 DEF NothingToBackUp, Goto, UpdateInv, TypeOK, Steps, Results, Journals, Phases, Works, Paths, disk, bounds
<1>8. CASE WriteJournal("backed_up", "activate")
  BY <1>8 DEF WriteJournal, Goto, UpdateInv, TypeOK, Steps, Results, Journals, Phases, Works, Paths, disk, bounds
<1>9. CASE Activate
  BY <1>9 DEF Activate, Goto, UpdateInv, TypeOK, Steps, Results, Journals, Phases, Works, Paths, disk, bounds
<1>10. CASE WriteJournal("activated", "verify")
  BY <1>10 DEF WriteJournal, Goto, UpdateInv, TypeOK, Steps, Results, Journals, Phases, Works, Paths, disk, bounds
<1>11. CASE VerifyInstalled
  BY <1>11 DEF VerifyInstalled, Goto, UpdateInv, TypeOK, Steps, Results, Journals, Phases, Works, Paths, disk, bounds
<1>12. CASE WriteJournal("commit", "finish")
  BY <1>12 DEF WriteJournal, Goto, UpdateInv, TypeOK, Steps, Results, Journals, Phases, Works, Paths, disk, bounds
<1>13. CASE Finish
  BY <1>13 DEF Finish, UpdateInv, TypeOK, Steps, Results, Journals, Phases, Works, Paths, disk, bounds
<1>14. CASE UndoStage
  BY <1>14 DEF UndoStage, Goto, UpdateInv, TypeOK, Steps, Results, Journals, Phases, Works, Paths, disk, bounds
<1>15. CASE UndoRoot
  BY <1>15 DEF UndoRoot, Goto, UpdateInv, TypeOK, Steps, Results, Journals, Phases, Works, Paths, disk, bounds
<1>16. CASE Restore("undo_replace", "undo_journal")
  BY <1>16 DEF Restore, Goto, UpdateInv, TypeOK, Steps, Results, Journals, Phases, Works, Paths, disk, bounds
<1>17. CASE UndoJournal
  BY <1>17 DEF UndoJournal, End, UpdateInv, TypeOK, Steps, Results, Journals, Phases, Works, Paths, disk, bounds
<1> QED BY <1>1, <1>2, <1>3, <1>4, <1>5, <1>6, <1>7, <1>8, <1>9, <1>10, <1>11, <1>12, <1>13, <1>14, <1>15, <1>16, <1>17 DEF InstallStep

(* A step of a rollback keeps the invariant. *)
LEMMA StepRollback ==
    ASSUME UpdateInv, RollbackStep
    PROVE  UpdateInv'
<1> USE UpdateAssumption
        DEF InstallInv, CommandInv, JournalInv, AsideInv, SafetyNet, NeverLost, BackupIsOlder,
            ReportsWorking, Working, Whole, Offered, Forward, Swapping, Undoing
<1>1. CASE RollbackAside
  BY <1>1 DEF RollbackAside, Goto, UpdateInv, TypeOK, Steps, Results, Journals, Phases, Works, Paths, disk, bounds
<1>2. CASE RollbackReplace
  BY <1>2 DEF RollbackReplace, Restore, Goto, UpdateInv, TypeOK, Steps, Results, Journals, Phases, Works, Paths, disk, bounds
<1>3. CASE RollbackDrop
  BY <1>3 DEF RollbackDrop, UpdateInv, TypeOK, Steps, Results, Journals, Phases, Works, Paths, disk, bounds
<1> QED BY <1>1, <1>2, <1>3 DEF RollbackStep

(* A step of a recovery keeps the invariant. *)
LEMMA StepRecover ==
    ASSUME UpdateInv, RecoverStep
    PROVE  UpdateInv'
<1> USE UpdateAssumption
        DEF InstallInv, CommandInv, JournalInv, AsideInv, SafetyNet, NeverLost, BackupIsOlder,
            ReportsWorking, Working, Whole, Offered, Forward, Swapping, Undoing
<1>1. CASE RecoverStage
  BY <1>1 DEF RecoverStage, MayReplaceRoot, Managed, Goto, End, UpdateInv, TypeOK, Steps, Results, Journals, Phases, Works, Paths, disk, bounds
<1>2. CASE RecoverRoot
  BY <1>2 DEF RecoverRoot, Goto, End, UpdateInv, TypeOK, Steps, Results, Journals, Phases, Works, Paths, disk, bounds
<1>3. CASE RecoverReplace
  BY <1>3 DEF RecoverReplace, Goto, End, UpdateInv, TypeOK, Steps, Results, Journals, Phases, Works, Paths, disk, bounds
<1>4. CASE RecoverJournal
  BY <1>4 DEF RecoverJournal, UpdateInv, TypeOK, Steps, Results, Journals, Phases, Works, Paths, disk, bounds
<1> QED BY <1>1, <1>2, <1>3, <1>4 DEF RecoverStep

(* A step of an uninstall keeps the invariant. *)
LEMMA StepUninstall ==
    ASSUME UpdateInv, UninstallStep
    PROVE  UpdateInv'
<1> USE UpdateAssumption
        DEF InstallInv, CommandInv, JournalInv, AsideInv, SafetyNet, NeverLost, BackupIsOlder,
            ReportsWorking, Working, Whole, Offered, Forward, Swapping, Undoing
<1>1. CASE UninstallAside
  BY <1>1 DEF UninstallAside, Goto, UpdateInv, TypeOK, Steps, Results, Journals, Phases, Works, Paths, disk, bounds
<1>2. CASE UninstallRemove
  BY <1>2 DEF UninstallRemove, Goto, UpdateInv, TypeOK, Steps, Results, Journals, Phases, Works, Paths, disk, bounds
<1>3. CASE UninstallPrevious
  BY <1>3 DEF UninstallPrevious, End, UpdateInv, TypeOK, Steps, Results, Journals, Phases, Works, Paths, disk, bounds
<1> QED BY <1>1, <1>2, <1>3 DEF UninstallStep

(* The start of a command, or its refusal, keeps the invariant. *)
LEMMA StepCommand ==
    ASSUME UpdateInv, Command
    PROVE  UpdateInv'
<1> USE UpdateAssumption
        DEF InstallInv, CommandInv, JournalInv, AsideInv, SafetyNet, NeverLost, BackupIsOlder,
            ReportsWorking, Working, Whole, Offered, Forward, Swapping, Undoing
<1>1. CASE \E o \in Offers, v \in Versions : Install(o, v)
  <2>1. PICK o \in Offers, v \in Versions : Install(o, v)
    BY <1>1
  <2>2. UNCHANGED <<disk, owned, tampered, bounds>> /\ at = "idle"
    BY <2>1 DEF Install, Goto, End
  <2>3. CASE VerifyUpdate(o, v)
    <3>1. work' \in Works /\ at' = "begin" /\ result' = result
      BY <2>1, <2>3 DEF Install, Goto, UpdateInv, TypeOK, Works
    <3>2. TypeOK'
      BY <2>2, <3>1 DEF UpdateInv, TypeOK, Steps, disk, bounds
    <3> QED BY <2>2, <3>1, <3>2 DEF UpdateInv, disk, bounds
  <2>4. CASE ~VerifyUpdate(o, v)
    <3>1. work' = work /\ at' = "idle" /\ result' = "failed"
      BY <2>1, <2>4 DEF Install, End
    <3> QED BY <2>2, <3>1 DEF UpdateInv, TypeOK, Steps, Results, disk, bounds
  <2> QED BY <2>3, <2>4
<1>2. CASE Accept
  BY <1>2 DEF Accept, AcceptAllowed, Goto, End, UpdateInv, TypeOK, Steps, Results, Journals, Phases, Works, Paths, disk, bounds
<1>3. CASE Rollback
  BY <1>3 DEF Rollback, RollbackAllowed, Managed, Goto, End, UpdateInv, TypeOK, Steps, Results, Journals, Phases, Works, Paths, disk, bounds
<1>4. CASE Recover
  <2>1. at = "idle" /\ UNCHANGED <<disk, work, owned, tampered, bounds>>
    BY <1>4 DEF Recover, RecoverCommitted, Goto, End
  <2>2. CASE journal = NoJournal
    BY <1>4, <2>1, <2>2 DEF Recover, End, UpdateInv, TypeOK, Steps, Results, disk, bounds
  <2>3. CASE journal # NoJournal /\ journal.phase # "COMMITTED"
    BY <1>4, <2>1, <2>3 DEF Recover, Goto, UpdateInv, TypeOK, Steps, disk, bounds
  <2>4. CASE journal # NoJournal /\ journal.phase = "COMMITTED"
    <3>1. \/ CommitHolds /\ at' = "recover_journal" /\ result' = result
          \/ previous # Absent /\ MayReplaceRoot /\ at' = "recover_root" /\ result' = result
          \/ previous = Absent /\ ~journal.hadPrevious /\ at' = "recover_root" /\ result' = result
          \/ at' = "idle" /\ result' = "failed"
      BY <1>4, <2>4 DEF Recover, RecoverCommitted, Goto, End
    <3> QED BY <2>1, <2>4, <3>1 DEF CommitHolds, MayReplaceRoot, UpdateInv, TypeOK, Steps, Results, disk, bounds
  <2> QED BY <2>2, <2>3, <2>4
<1>5. CASE Uninstall
  <2>1. at = "idle" /\ UNCHANGED <<disk, work, tampered, bounds>>
    BY <1>5 DEF Uninstall, End
  <2>2. \/ at' = "idle" /\ result' \in {"not_installed", "failed"} /\ owned' = owned
        \/ UninstallAllowed /\ at' = "uninstall_aside" /\ result' = result /\ owned' = FALSE
    BY <1>5 DEF Uninstall, End
  <2>3. TypeOK'
    BY <2>1, <2>2 DEF UpdateInv, TypeOK, Steps, Results, disk, bounds
  <2>4. InstallInv' /\ CommandInv'
    BY <2>1, <2>2 DEF UninstallAllowed, UpdateInv, disk, bounds
  <2>5. JournalInv' /\ AsideInv' /\ SafetyNet' /\ ReportsWorking'
    BY <2>1, <2>2 DEF UpdateInv, disk, bounds
  <2> QED BY <2>3, <2>4, <2>5 DEF UpdateInv
<1> QED BY <1>1, <1>2, <1>3, <1>4, <1>5 DEF Command

(* A removal that stops half way only loses what the invariant does not need. *)
LEMMA StepDisturbed ==
    ASSUME UpdateInv, Disturbed, at # "idle",
           UNCHANGED <<stage, journal, work, owned, tampered>>, aside' = Absent,
           crashes' \in 0 .. MaxCrashes, faults' \in 0 .. MaxFaults, tampers' = tampers,
           \/ at' = "idle" /\ result' \in {"failed", "crashed"}
           \/ at' = "undo_stage" /\ result' = result /\ at \in InTry
    PROVE  UpdateInv'
<1> USE UpdateAssumption
        DEF InstallInv, CommandInv, JournalInv, AsideInv, SafetyNet, NeverLost, BackupIsOlder,
            ReportsWorking, Working, Whole, Offered, Forward, Swapping, Undoing
<1>1. root \in Paths /\ previous \in Paths
  BY DEF UpdateInv, TypeOK
<1>2. /\ root' \in Paths /\ (root' = Absent <=> root = Absent)
      /\ root # Absent => root'.version = root.version
      /\ at \notin {"undo_root", "recover_root"} => root' = root
  BY <1>1, HalfRemovedFacts DEF Disturbed
<1>3. /\ previous' \in Paths /\ (previous' = Absent <=> previous = Absent)
      /\ previous # Absent => previous'.version = previous.version
      /\ at \notin {"accept_remove", "uninstall_previous"} => previous' = previous
  BY <1>1, HalfRemovedFacts DEF Disturbed
<1>4. TypeOK'
  BY <1>2, <1>3 DEF UpdateInv, TypeOK, Steps, Results, Journals, Phases, Works, Paths
<1>5. InstallInv'
  BY <1>2, <1>3 DEF UpdateInv, InTry
<1>6. CommandInv' /\ JournalInv' /\ AsideInv' /\ SafetyNet' /\ ReportsWorking'
  BY <1>2, <1>3 DEF UpdateInv
<1> QED BY <1>4, <1>5, <1>6 DEF UpdateInv

(* A step that throws keeps the invariant: its handler knows what was changed. *)
LEMMA StepThrow ==
    ASSUME UpdateInv, Throw
    PROVE  UpdateInv'
<1> USE UpdateAssumption
        DEF InstallInv, CommandInv, JournalInv, AsideInv, SafetyNet, NeverLost, BackupIsOlder,
            ReportsWorking, Working, Whole, Offered, Forward, Swapping, Undoing
<1>1. CASE at = "rollback_replace" /\ aside # Absent
  BY <1>1 DEF Throw, UpdateInv, TypeOK, Steps, Results, Journals, Phases, Works, Paths, InTry
<1>2. CASE at = "uninstall_remove"
  <2>1. root' \in Paths /\ root' # Absent /\ root'.version = aside.version
    BY <1>2, PartialFacts DEF Throw, UpdateInv, TypeOK, Paths
  <2> QED BY <1>2, <2>1 DEF Throw, UpdateInv, TypeOK, Steps, Results, Journals, Phases, Works, Paths, InTry
<1>3. CASE ~(at = "rollback_replace" /\ aside # Absent) /\ at # "uninstall_remove"
  <2>1. Disturbed /\ UNCHANGED <<stage, journal, work, owned, tampered, crashes, tampers>>
    BY <1>3 DEF Throw
  <2>2. crashes' \in 0 .. MaxCrashes /\ faults' \in 0 .. MaxFaults
    BY <2>1 DEF Throw, UpdateInv, TypeOK
  <2>3. at # "idle" /\ aside' = Absent
    BY DEF Throw
  <2>4. \/ at' = "idle" /\ result' \in {"failed", "crashed"}
        \/ at' = "undo_stage" /\ result' = result /\ at \in InTry
    BY DEF Throw
  <2> QED BY ONLY UpdateInv, <2>1, <2>2, <2>3, <2>4, StepDisturbed
<1> QED BY <1>1, <1>2, <1>3

(* The death of the process keeps the invariant. *)
LEMMA StepCrash ==
    ASSUME UpdateInv, Crash
    PROVE  UpdateInv'
<1>1. crashes' \in 0 .. MaxCrashes /\ faults' \in 0 .. MaxFaults
  BY UpdateAssumption DEF Crash, UpdateInv, TypeOK
<1>2. /\ Disturbed /\ UNCHANGED <<stage, journal, work, owned, tampered>> /\ tampers' = tampers
      /\ at # "idle" /\ aside' = Absent /\ at' = "idle" /\ result' \in {"failed", "crashed"}
  BY DEF Crash
<1> QED BY <1>1, <1>2, StepDisturbed

(* What others change is a tree's content, never its version. *)
LEMMA StepTamper ==
    ASSUME UpdateInv, Tamper
    PROVE  UpdateInv'
<1> USE UpdateAssumption
        DEF InstallInv, CommandInv, JournalInv, AsideInv, SafetyNet, NeverLost, BackupIsOlder,
            ReportsWorking, Working, Whole, Offered, Forward, Swapping, Undoing
<1>1. root \in Paths /\ previous \in Paths
  BY DEF UpdateInv, TypeOK
<1>2. /\ root' \in Paths /\ (root' = Absent <=> root = Absent)
      /\ root # Absent => root'.version = root.version
  BY <1>1, PartialFacts DEF Tamper
<1>3. /\ previous' \in Paths /\ (previous' = Absent <=> previous = Absent)
      /\ previous # Absent => previous'.version = previous.version
  BY <1>1, PartialFacts DEF Tamper
<1> QED BY <1>2, <1>3 DEF Tamper, UpdateInv, TypeOK, Steps, Results, Journals, Phases, Works, Paths

(* Every step of the installer keeps the invariant. *)
LEMMA StepUpdate == UpdateInv /\ [Next]_vars => UpdateInv'
<1> SUFFICES ASSUME UpdateInv, [Next]_vars PROVE UpdateInv'
  OBVIOUS
<1>1. CASE AcceptRemove
  BY <1>1, UpdateAssumption DEF AcceptRemove, End, UpdateInv, TypeOK, Steps, Results, Journals, Phases, Works, Paths, bounds, InstallInv, CommandInv,
     JournalInv, AsideInv, SafetyNet, NeverLost, BackupIsOlder, ReportsWorking, Working, Whole, Offered,
     Forward, Swapping, Undoing
<1>2. CASE UNCHANGED vars
  BY <1>2 DEF vars, disk, bounds, UpdateInv, TypeOK, Steps, Results, Journals, Phases, Works, Paths, InstallInv, CommandInv,
     JournalInv, AsideInv, SafetyNet, NeverLost, BackupIsOlder, ReportsWorking, Working, Whole, Offered
<1> QED BY <1>1, <1>2, StepCommand, StepInstall, StepRollback, StepRecover, StepUninstall, StepThrow,
           StepCrash, StepTamper DEF Next, Running

(* Every state of the installer satisfies the invariant. *)
THEOREM UpdateInvariant == Spec => []UpdateInv
BY InitUpdate, StepUpdate, PTL DEF Spec

(* Every path, the journal and the running command keep their types. *)
THEOREM TypeCorrect == Spec => []TypeOK
<1>1. UpdateInv => TypeOK
  BY DEF UpdateInv
<1> QED BY UpdateInvariant, <1>1, PTL

(* Whatever is installed, interrupted, recovered or rolled back, a working version *)
(* stays on disk and the backup stays older (SafetyNet).                            *)
THEOREM WorkingVersionKept == Spec => []SafetyNet
<1>1. UpdateInv => SafetyNet
  BY DEF UpdateInv
<1> QED BY UpdateInvariant, <1>1, PTL

(* A command that reports success leaves a working installation (ReportsWorking). *)
THEOREM SuccessIsWorking == Spec => []ReportsWorking
<1>1. UpdateInv => ReportsWorking
  BY DEF UpdateInv
<1> QED BY UpdateInvariant, <1>1, PTL
=============================================================================
