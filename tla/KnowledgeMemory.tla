---------------------------- MODULE KnowledgeMemory ----------------------------
(***************************************************************************)
(* Knowledge, memory and skills (tool/knowledge_memory_v2.py).  Objects    *)
(* are written under their digest by processes that do not lock each       *)
(* other; a run's episode may enter memory, become a candidate skill and   *)
(* be published.                                                           *)
(***************************************************************************)
EXTENDS Integers, FiniteSets, Sequences

CONSTANTS
    Writers,        \* processes that put objects
    Blobs, Extensions,
    Episodes,       \* finished runs
    FreshDays, AgingDays, SourceAges,
    Nothing, MaxWriterDeaths

VARIABLES
    files,          \* what is on disk: <<blob, suffix>> -> "part", "blob" or "manifest"
    writers,        \* writer -> [at, blob, extension]
    writerDeaths,
    memory,         \* episode -> decision
    skill,          \* [candidate, published]
    freshness

memoryVars == <<files, writers, writerDeaths, memory, skill, freshness>>

-----------------------------------------------------------------------------
(* ObjectStore.put_bytes.                                                   *)

\* The manifest has the target's name and ".json": next to an object without extension
\* it has the name of the same object with the extension "json".
Target(w) == <<writers[w].blob, writers[w].extension>>
ManifestOf(w) ==
    <<writers[w].blob, IF writers[w].extension = "" THEN "json" ELSE writers[w].extension \o ".json">>

Idle == [at |-> "idle", blob |-> Nothing, extension |-> ""]
OtherMemory == UNCHANGED <<memory, skill, freshness>>

BeginPut(w, blob, extension) ==
    /\ writers[w].at = "idle"
    /\ writers' = [writers EXCEPT ![w] = [at |-> "look", blob |-> blob, extension |-> extension]]
    /\ UNCHANGED <<files, writerDeaths>> /\ OtherMemory

\* The target is written when it was not there: opening it truncates what is.
LookForTarget(w) ==
    /\ writers[w].at = "look"
    /\ writers' = [writers EXCEPT ![w].at = IF Target(w) \in DOMAIN files THEN "manifest" ELSE "open"]
    /\ UNCHANGED <<files, writerDeaths>> /\ OtherMemory

Stored(file, content) == [f \in DOMAIN files \cup {file} |-> IF f = file THEN content ELSE files[f]]

OpenTarget(w) ==
    /\ writers[w].at = "open"
    /\ files' = Stored(Target(w), "part")
    /\ writers' = [writers EXCEPT ![w].at = "write"]
    /\ UNCHANGED writerDeaths /\ OtherMemory

WriteTarget(w) ==
    /\ writers[w].at = "write"
    /\ files' = Stored(Target(w), "blob")
    /\ writers' = [writers EXCEPT ![w].at = "manifest"]
    /\ UNCHANGED writerDeaths /\ OtherMemory

\* The caller has its StoredObject whatever was found.
WriteManifest(w) ==
    /\ writers[w].at = "manifest"
    /\ files' = IF ManifestOf(w) \in DOMAIN files THEN files ELSE Stored(ManifestOf(w), "manifest")
    /\ writers' = [writers EXCEPT ![w] = Idle]
    /\ UNCHANGED writerDeaths /\ OtherMemory

WriterDies(w) ==
    /\ writerDeaths < MaxWriterDeaths /\ writers[w].at # "idle"
    /\ writerDeaths' = writerDeaths + 1
    /\ writers' = [writers EXCEPT ![w] = Idle]
    /\ UNCHANGED files /\ OtherMemory

-----------------------------------------------------------------------------
(* Memory admission and skills.                                            *)

Useful(e) == e.changed \/ e.completed

\* MemoryAdmissionPolicy.evaluate, with the defaults of the policy.
Admission(e) ==
    LET Decided(status, candidate) == [status |-> status, retrieval |-> status = "admitted", candidate |-> candidate]
    IN IF e.pinned THEN Decided("admitted", FALSE)
       ELSE IF ~e.evidence \/ (e.conversational /\ ~Useful(e)) THEN Decided("rejected", FALSE)
       ELSE IF e.outcome = "succeeded"
            THEN Decided("admitted", Useful(e) /\ (e.mutations > 0 \/ e.toolCalls >= 2))
       ELSE Decided("quarantined", FALSE)

AllowedSkillTools == {"read_file", "inspect_file", "write_file", "run_command", "verify_project"}

\* extract_skill_candidate
SkillOf(e) ==
    [episode |-> e, tools |-> {"read_file", "inspect_file", "verify_project"}
        \cup (IF e.mutations > 0 THEN {"write_file"} ELSE {})
        \cup (IF e.toolCalls >= 2 THEN {"run_command"} ELSE {})]

\* evaluate_skill_candidate
SkillIssues(c, replayed) ==
    (IF c.episode.evidence THEN {} ELSE {"candidate_missing_evidence"})
    \cup (IF c.tools \subseteq AllowedSkillTools THEN {} ELSE {"candidate_permission_expansion"})
    \cup (IF replayed THEN {} ELSE {"candidate_replay_required"})
    \cup {"candidate_requires_approval"}

UnchangedStore == UNCHANGED <<files, writers, writerDeaths>>

Admit(e) ==
    /\ e \notin DOMAIN memory
    /\ memory' = [f \in DOMAIN memory \cup {e} |-> IF f = e THEN Admission(e) ELSE memory[f]]
    /\ UNCHANGED <<skill, freshness>> /\ UnchangedStore

Extract(e) ==
    /\ e \in DOMAIN memory /\ memory[e].candidate /\ skill.candidate = Nothing
    /\ skill' = [skill EXCEPT !.candidate = SkillOf(e)]
    /\ UNCHANGED <<memory, freshness>> /\ UnchangedStore

Evaluate(replayed) ==
    /\ skill.candidate # Nothing
    /\ skill' = [skill EXCEPT !.issues = SkillIssues(skill.candidate, replayed)]
    /\ UNCHANGED <<memory, freshness>> /\ UnchangedStore

\* publish_skill does not ask for an evaluation: the caller says that the replay passed
\* and why the skill is approved.
Publish(replayed, note) ==
    /\ skill.candidate # Nothing /\ skill.published < 2
    /\ replayed /\ note # "" /\ skill.candidate.tools \subseteq AllowedSkillTools
    /\ skill' = [skill EXCEPT !.published = @ + 1]
    /\ UNCHANGED <<memory, freshness>> /\ UnchangedStore

\* ResearchFreshnessPolicy.evaluate; a source from the future is fresh.
AssessFreshness(age) ==
    /\ freshness' = IF age <= FreshDays THEN "fresh" ELSE IF age <= AgingDays THEN "aging" ELSE "stale"
    /\ UNCHANGED <<memory, skill>> /\ UnchangedStore

-----------------------------------------------------------------------------
MemoryInit ==
    /\ files = <<>> /\ writerDeaths = 0
    /\ writers = [w \in Writers |-> Idle]
    /\ memory = <<>>
    /\ skill = [candidate |-> Nothing, published |-> 0, issues |-> {}]
    /\ freshness = "fresh"

StoreNext ==
    \E w \in Writers :
        \/ \E blob \in Blobs, extension \in Extensions : BeginPut(w, blob, extension)
        \/ LookForTarget(w) \/ OpenTarget(w) \/ WriteTarget(w) \/ WriteManifest(w)
        \/ WriterDies(w)

SkillNext ==
    \/ \E e \in Episodes : Admit(e) \/ Extract(e)
    \/ \E replayed \in BOOLEAN : Evaluate(replayed) \/ \E note \in {"", "reviewed"} : Publish(replayed, note)
    \/ \E age \in SourceAges : AssessFreshness(age)

MemoryNext == StoreNext \/ SkillNext

MemorySpec == MemoryInit /\ [][MemoryNext]_memoryVars

-----------------------------------------------------------------------------
MemoryTypeOK ==
    /\ \A f \in DOMAIN files : f[1] \in Blobs /\ files[f] \in {"part", "blob", "manifest"}
    /\ \A w \in Writers : writers[w].at \in {"idle", "look", "open", "write", "manifest"}
    /\ DOMAIN memory \subseteq Episodes
    /\ freshness \in {"fresh", "aging", "stale"}
=============================================================================
