----------------------------- MODULE EffectService -----------------------------
(***************************************************************************)
(* The P2 reference runtime (tool/p2_reference_runtime.py): an effect      *)
(* boundary that consumes a grant's use under a lock, a receipt journal,   *)
(* file effects with backups, and commands run in a process group.         *)
(*                                                                         *)
(* Effects run in threads of one process and meet on one path; anything    *)
(* may throw, and someone else may edit the path.  An action is one call   *)
(* to the operating system, or what the lock makes one.                    *)
(***************************************************************************)
EXTENDS Integers, FiniteSets

CONSTANTS
    Effects,        \* effect ids; each stands for one call of a service
    EffectCalls,    \* what is called: operation, decision, grant and binding
    OwnerProfiles,
    NoCall,
    NoContent,      \* no file at the path
    Original,       \* what the path holds at first
    Foreign,        \* what someone else writes there
    MaxEffectTime,
    MaxEffectFaults,
    MaxEdits

VARIABLES
    useCount,       \* UseLedger: grant id -> uses consumed
    revokedGrants,  \* UseLedger: revoked grant ids
    effectCall,     \* effect -> its call
    effectAt,       \* effect -> its step
    receipt,        \* effect -> "none", "backup", "created" or "quarantine": how to undo it
    lines,          \* the journal: <<effect, status>>
    content,        \* what the path holds
    saved,          \* effect -> its backup or quarantined file
    group,          \* effect -> the processes alive in its group
    before,         \* history: effect -> what the path held when it was changed
    clean,          \* history: effects since whose backup nobody else changed the path
    acted,          \* history: effects that changed the path or spawned a process
    effectTime, effectFaults, edits

effectVars ==
    <<useCount, revokedGrants, effectCall, effectAt, receipt, lines, content, saved, group,
      before, clean, acted, effectTime, effectFaults, edits>>

ASSUME EffectsAssumption ==
    /\ \A c \in EffectCalls :
          c.op \in {"write", "delete", "read", "command"} /\ c.grant.maxUses \in Nat
    /\ MaxEffectFaults \in Nat /\ MaxEdits \in Nat

GrantsUsed == {c.grant.id : c \in EffectCalls}
Members == {"child", "descendant"}
Contents == Effects \cup {NoContent, Original, Foreign}

EffectSteps ==
    {"new", "begin", "target", "backup", "tmp", "replace", "check", "succeed", "undo",
     "undone", "quarantine", "read", "spawn", "wait", "term", "kill", "finish",
     "timed_out", "done", "raised", "refused"}

-----------------------------------------------------------------------------
\* EffectBoundary.authorize up to the ledger.
Authorizes(c) ==
    /\ c.decision.status = "allow"
    /\ c.grant.shape /\ c.grant.issuer = "desktop_host"
    /\ c.grant.binding = c.binding
    /\ c.decision.binding = c.binding /\ c.decision.capability = c.capability
    /\ c.binding.profile \in OwnerProfiles
    /\ c.decision.action = c.op
    /\ c.grant.notBefore <= effectTime /\ effectTime < c.grant.expires
    /\ c.grant.maxUses >= 1
    /\ ~c.grant.rawReveal

EffectsInit ==
    /\ useCount = [g \in GrantsUsed |-> 0] /\ revokedGrants = {}
    /\ effectCall = [e \in Effects |-> NoCall]
    /\ effectAt = [e \in Effects |-> "new"]
    /\ receipt = [e \in Effects |-> "none"]
    /\ lines = {}
    /\ content \in {NoContent, Original}
    /\ saved = [e \in Effects |-> NoContent]
    /\ group = [e \in Effects |-> {}]
    /\ before = [e \in Effects |-> NoContent]
    /\ clean = {} /\ acted = {}
    /\ effectTime = 0 /\ effectFaults = 0 /\ edits = 0

ledger == <<useCount, revokedGrants, effectCall>>
files == <<receipt, content, saved, before, clean>>
others == <<effectTime, effectFaults, edits>>

At(e, from, to) ==
    /\ effectAt[e] = from
    /\ effectAt' = [effectAt EXCEPT ![e] = to]

Quiet == UNCHANGED <<ledger, files, lines, group, acted, others>>

\* Mutant: the count is not compared with the grant's limit.
UseAllowed_Unlimited(c) == c.grant.id \notin revokedGrants

\* UseLedger.consume, under its lock.
UseAllowed(c) ==
    /\ c.grant.id \notin revokedGrants
    /\ useCount[c.grant.id] < c.grant.maxUses

AuthorizeEffect(e, c) ==
    /\ At(e, "new", IF ~(Authorizes(c) /\ UseAllowed(c)) THEN "refused"
                    ELSE IF c.op = "command" /\ ~c.spec THEN "raised" ELSE "begin")
    /\ effectCall' = [effectCall EXCEPT ![e] = c]
    /\ useCount' = IF Authorizes(c) /\ UseAllowed(c)
                   THEN [useCount EXCEPT ![c.grant.id] = @ + 1] ELSE useCount
    /\ UNCHANGED <<revokedGrants, files, lines, group, acted, others>>

RevokeGrant(g) ==
    /\ revokedGrants' = revokedGrants \cup {g}
    /\ UNCHANGED <<useCount, effectCall, effectAt, files, lines, group, acted, others>>

AppendLine(e, status, from, to) ==
    /\ At(e, from, to)
    /\ lines' = lines \cup {<<e, status>>}
    /\ UNCHANGED <<ledger, files, group, acted, others>>

\* _begin: the started receipt is durable before anything else happens.
BeginEffect(e) ==
    AppendLine(e, "started", "begin",
               IF effectCall[e].op = "command" THEN "spawn" ELSE "target")

\* PathGuard: a relative path, a symbolic link to be written, or a missing file
\* to be deleted or read raises, and leaves the started line as the last one.
GuardTarget(e) ==
    LET c == effectCall[e] IN
    /\ At(e, "target",
          IF ~c.path \/ (content = NoContent /\ c.op # "write") THEN "raised"
          ELSE CASE c.op = "write" -> "backup" [] c.op = "delete" -> "quarantine"
                 [] c.op = "read" -> "read")
    /\ Quiet

\* A thread changes the path: only its own undo is still clean.
Change(e, value) ==
    /\ content' = value
    /\ clean' = clean \cap {e}
    /\ acted' = acted \cup {e}

\* Mutant: the backup is not named after the effect, and one that is there is kept.
TakeBackup_Once(e) ==
    /\ At(e, "backup", "tmp")
    /\ saved' = [saved EXCEPT ![e] =
          IF \E f \in Effects : saved[f] # NoContent
          THEN saved[CHOOSE f \in Effects : saved[f] # NoContent] ELSE content]
    /\ receipt' = [receipt EXCEPT ![e] = IF content = NoContent THEN "created" ELSE "backup"]
    /\ before' = [before EXCEPT ![e] = content]
    /\ clean' = clean \cup {e}
    /\ UNCHANGED <<ledger, lines, content, group, acted, others>>

\* write_bytes: an existing file is copied to the backup root.
TakeBackup(e) ==
    /\ At(e, "backup", "tmp")
    /\ saved' = [saved EXCEPT ![e] = content]
    /\ receipt' = [receipt EXCEPT ![e] = IF content = NoContent THEN "created" ELSE "backup"]
    /\ before' = [before EXCEPT ![e] = content]
    /\ clean' = clean \cup {e}
    /\ UNCHANGED <<ledger, lines, content, group, acted, others>>

WriteTemporary(e) == At(e, "tmp", "replace") /\ Quiet

ReplaceTarget(e) ==
    /\ At(e, "replace", "check")
    /\ Change(e, e)
    /\ UNCHANGED <<ledger, receipt, saved, before, lines, group, others>>

\* The path must still resolve where it did; otherwise the write is undone.
CheckTarget(e, moved) == At(e, "check", IF moved THEN "undo" ELSE "succeed") /\ Quiet

Succeed(e) == AppendLine(e, "succeeded", "succeed", "done")

\* What the path is given back by a failed write and by restore.
Restored(e) == IF receipt[e] = "created" THEN NoContent ELSE saved[e]

\* The except clause of write_bytes.
UndoWrite(e) ==
    /\ At(e, "undo", "undone")
    /\ Change(e, Restored(e))
    /\ UNCHANGED <<ledger, receipt, saved, before, lines, group, others>>

JournalUndo(e) == AppendLine(e, "rolled_back", "undone", "raised")

\* delete moves the file to the quarantine.
Quarantine(e) ==
    /\ At(e, "quarantine", IF content = NoContent THEN "raised" ELSE "succeed")
    /\ IF content = NoContent
       THEN UNCHANGED <<files, acted>>
       ELSE /\ saved' = [saved EXCEPT ![e] = content]
            /\ before' = [before EXCEPT ![e] = content]
            /\ receipt' = [receipt EXCEPT ![e] = "quarantine"]
            /\ content' = NoContent
            /\ clean' = {e}
            /\ acted' = acted \cup {e}
    /\ UNCHANGED <<ledger, lines, group, others>>

\* read_bytes: over the budget, changed meanwhile, or read.
ReadTarget(e, status) ==
    AppendLine(e, status, "read", IF status = "succeeded" THEN "done" ELSE "raised")

\* restore, by whoever holds the receipt; what the path holds now is not looked at.
RestoreEffect(e) ==
    /\ effectAt[e] = "done" /\ receipt[e] # "none"
    /\ receipt[e] = "quarantine" => saved[e] # NoContent
    /\ Change(e, Restored(e))
    /\ saved' = IF receipt[e] = "quarantine" THEN [saved EXCEPT ![e] = NoContent] ELSE saved
    /\ UNCHANGED <<ledger, effectAt, receipt, before, lines, group, others>>

FileStep(e) ==
    \/ BeginEffect(e) \/ GuardTarget(e)
    \/ TakeBackup(e) \/ WriteTemporary(e) \/ ReplaceTarget(e)
    \/ \E moved \in BOOLEAN : CheckTarget(e, moved)
    \/ Succeed(e) \/ UndoWrite(e) \/ JournalUndo(e)
    \/ Quarantine(e)
    \/ \E status \in {"denied", "unknown", "succeeded"} : ReadTarget(e, status)
    \/ RestoreEffect(e)

-----------------------------------------------------------------------------
\* CommandService.run: the child leads a group of its own.
Spawn(e) ==
    /\ At(e, "spawn", "wait")
    /\ group' = [group EXCEPT ![e] = {"child"}]
    /\ acted' = acted \cup {e}
    /\ UNCHANGED <<ledger, files, lines, others>>

\* The child starts another process, or a process of the group ends.
GroupStep(e) ==
    /\ \/ "child" \in group[e] /\ group' = [group EXCEPT ![e] = Members]
       \/ \E m \in group[e] : group' = [group EXCEPT ![e] = @ \ {m}]
    /\ UNCHANGED <<ledger, effectAt, files, lines, acted, others>>

\* communicate returns when the child and every holder of its pipes ended; a
\* descendant that holds none of them may go on ...
Communicated(e) == "child" \notin group[e] /\ At(e, "wait", "finish") /\ Quiet

\* ... or runs into the time limit.
CommandTimeout(e) == At(e, "wait", "term") /\ Quiet

\* terminate_group: SIGTERM, which a process may ignore, then SIGKILL.
Terminate(e) ==
    /\ At(e, "term", "kill")
    /\ \E kept \in SUBSET group[e] : group' = [group EXCEPT ![e] = kept]
    /\ UNCHANGED <<ledger, files, lines, acted, others>>

KillGroup(e) ==
    /\ At(e, "kill", "timed_out")
    /\ group' = [group EXCEPT ![e] = {}]
    /\ UNCHANGED <<ledger, files, lines, acted, others>>

\* The second communicate, and the receipt.
FinishCommand(e) ==
    \/ AppendLine(e, "timed_out", "timed_out", "done")
    \/ \E status \in {"output_budget_exceeded", "succeeded", "failed"} :
          AppendLine(e, status, "finish", "done")

CommandStep(e) ==
    \/ Spawn(e) \/ GroupStep(e) \/ Communicated(e) \/ CommandTimeout(e)
    \/ Terminate(e) \/ KillGroup(e) \/ FinishCommand(e)

-----------------------------------------------------------------------------
\* A call throws: inside write_bytes' try it is undone, elsewhere it propagates.
EffectThrows(e) ==
    /\ effectAt[e] \notin {"new", "done", "raised", "refused"} /\ effectFaults < MaxEffectFaults
    /\ effectFaults' = effectFaults + 1
    /\ effectAt' = [effectAt EXCEPT ![e] =
          IF @ \in {"tmp", "replace", "check"} \/ (@ = "succeed" /\ effectCall[e].op = "write")
          THEN "undo" ELSE "raised"]
    /\ UNCHANGED <<ledger, files, lines, group, acted, effectTime, edits>>

EditPath ==
    /\ edits < MaxEdits
    /\ edits' = edits + 1
    /\ content' = Foreign
    /\ clean' = {}
    /\ UNCHANGED <<ledger, effectAt, receipt, saved, before, lines, group, acted,
                   effectTime, effectFaults>>

EffectTick ==
    /\ effectTime < MaxEffectTime
    /\ effectTime' = effectTime + 1
    /\ UNCHANGED <<ledger, effectAt, files, lines, group, acted, effectFaults, edits>>

EffectsNext ==
    \/ \E e \in Effects :
          \/ \E c \in EffectCalls : AuthorizeEffect(e, c)
          \/ FileStep(e) \/ CommandStep(e) \/ EffectThrows(e)
    \/ \E g \in GrantsUsed : RevokeGrant(g)
    \/ EditPath \/ EffectTick

EffectsSpec == EffectsInit /\ [][EffectsNext]_effectVars

-----------------------------------------------------------------------------
EffectsTypeOK ==
    /\ useCount \in [GrantsUsed -> Nat] /\ revokedGrants \subseteq GrantsUsed
    /\ effectCall \in [Effects -> EffectCalls \cup {NoCall}]
    /\ effectAt \in [Effects -> EffectSteps]
    /\ receipt \in [Effects -> {"none", "backup", "created", "quarantine"}]
    /\ content \in Contents /\ saved \in [Effects -> Contents]
    /\ group \in [Effects -> SUBSET Members]
    /\ before \in [Effects -> Contents]
    /\ clean \subseteq Effects /\ acted \subseteq Effects
    /\ effectFaults \in 0 .. MaxEffectFaults /\ edits \in 0 .. MaxEdits

Authorized(e) == effectAt[e] \notin {"new", "refused"}

\* Threads that share grants never get more effects out of one than it allows, and
\* every effect was journaled as started before it touched the path or spawned a
\* process, so that a crash leaves a trace of it (authorize, UseLedger.consume,
\* _begin, run).
EffectsWithinGrant ==
    /\ \A c \in EffectCalls :
          Cardinality({e \in Effects : Authorized(e) /\ effectCall[e].grant = c.grant})
              <= c.grant.maxUses
    /\ \A e \in acted : <<e, "started">> \in lines

\* Undoing an effect, after a failed write or by restore, gives the path back what
\* it held before the effect, when nobody else changed it since the backup
\* (write_bytes, delete, restore).
UndoReturnsBefore ==
    [][\A e \in clean \cap clean' :
          content' # content /\ effectAt[e] \in {"undo", "done"}
              => content' = before[e]]_effectVars
=============================================================================
