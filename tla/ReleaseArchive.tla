---------------------------- MODULE ReleaseArchive ----------------------------
(***************************************************************************)
(* The source release (tool/release.py): validate, collect the tree, write   *)
(* the archive in place, check it, and only then publish its checksum; and   *)
(* the release operations of tool/release_ops_v19.py: signed envelopes, an   *)
(* audit chain with signed checkpoints, policies, updates and rollbacks.     *)
(***************************************************************************)
EXTENDS Integers, FiniteSets, SequencesExt

CONSTANTS
    SourceTrees,         \* what the tree may hold: path -> [content, kind]
    NoArchive,           \* no archive, checksum or report yet
    OperationRequests,   \* [kind, ...], questions put to release_ops_v19
    OpsPayloads,         \* what a record of the audit says
    OpsKeys,             \* the registered signing keys: key id -> secret
    MaxReleases, MaxTreeChanges, MaxOpsRecords, MaxOpsAlterations

VARIABLES
    sourceTree,          \* path -> [content, kind]
    validation,          \* release/validation_report.json: [passed, compiled, tree]
    archive,             \* the archive at its final path
    sums,                \* the archive named by the checksum file
    packageMetadata,     \* the archive and classification named by the metadata file
    releaseCommand,
    releases, treeChanges,
    opsRecords,          \* the audit chain
    opsCheckpoint,       \* the last signed checkpoint: [envelope, taken]
    opsAnswer,           \* the last answered question: [request, verdict]
    opsAlterations

ASSUME ReleaseAssumption ==
    /\ \A keyId \in DOMAIN OpsKeys : OpsKeys[keyId] # "guess"   \* a key is not guessed
    /\ {MaxReleases, MaxTreeChanges, MaxOpsRecords, MaxOpsAlterations} \subseteq Nat

archiveVars == <<sourceTree, validation, archive, sums, packageMetadata, releaseCommand, releases, treeChanges>>
opsVars == <<opsRecords, opsCheckpoint, opsAnswer, opsAlterations>>
releaseVars == <<archiveVars, opsVars>>

NoRelease == [at |-> "idle"]

-----------------------------------------------------------------------------
(* release                                                                 *)

\* allowed: generated and excluded paths, secrets and logs are left out; a symlink that is
\* not left out ends the command.
Collected(held) == {f \in DOMAIN held : held[f].kind = "source"}
HoldsSymlink(held) == \E f \in DOMAIN held : held[f].kind = "symlink"

StartRelease(skipValidation) ==
    /\ releaseCommand = NoRelease /\ releases < MaxReleases /\ releases' = releases + 1
    /\ releaseCommand' = [at |-> IF skipValidation THEN "report" ELSE "validate"]
    /\ UNCHANGED <<sourceTree, validation, archive, sums, packageMetadata, treeChanges, opsVars>>

CommandKeeps == UNCHANGED <<sourceTree, releases, treeChanges, opsVars>>

\* validate_release in a process of its own writes the report.
Validate(passed, compiled) ==
    /\ releaseCommand.at = "validate"
    /\ validation' = [passed |-> passed, compiled |-> compiled, held |-> sourceTree]
    /\ releaseCommand' = IF passed THEN [at |-> "report"] ELSE NoRelease
    /\ CommandKeeps /\ UNCHANGED <<archive, sums, packageMetadata>>

\* The report that lies there decides, whenever it was written.
ReadReport ==
    /\ releaseCommand.at = "report"
    /\ releaseCommand' =
          IF validation # NoArchive /\ validation.passed
          THEN [at |-> "collect", payloads |-> <<>>,
                classification |-> IF validation.compiled THEN "compiled-release" ELSE "source-release"]
          ELSE NoRelease
    /\ CommandKeeps /\ UNCHANGED <<validation, archive, sums, packageMetadata>>

Packed(payloads, f, content) ==
    [g \in DOMAIN payloads \cup {f} |-> IF g = f THEN content ELSE payloads[g]]

CollectFile(f) ==
    /\ releaseCommand.at = "collect" /\ f \in Collected(sourceTree) \ DOMAIN releaseCommand.payloads
    /\ releaseCommand' = [releaseCommand EXCEPT !.payloads = Packed(@, f, sourceTree[f].content)]
    /\ CommandKeeps /\ UNCHANGED <<validation, archive, sums, packageMetadata>>

\* RELEASE.json and then the manifest of everything else are added to what was collected.
WithMetadata(command) ==
    LET members == Packed(command.payloads, "RELEASE.json", command.classification) IN
    [members |-> members, manifest |-> members, classification |-> command.classification, damage |-> "none"]

\* The archive is written at its final path; the disk may damage it.
WriteReleaseArchive(damage) ==
    /\ releaseCommand.at = "collect" /\ Collected(sourceTree) \subseteq DOMAIN releaseCommand.payloads
    /\ IF HoldsSymlink(sourceTree)
       THEN releaseCommand' = NoRelease /\ UNCHANGED archive
       ELSE /\ archive' = [WithMetadata(releaseCommand) EXCEPT !.damage = damage]
            /\ releaseCommand' = [at |-> "check", classification |-> releaseCommand.classification]
    /\ CommandKeeps /\ UNCHANGED <<validation, sums, packageMetadata>>

\* The process ends while it writes: the archive has no directory.
WriteTorn ==
    /\ releaseCommand.at = "collect" /\ releaseCommand.payloads # <<>>
    /\ archive' = [WithMetadata(releaseCommand) EXCEPT !.damage = "torn"]
    /\ releaseCommand' = NoRelease
    /\ CommandKeeps /\ UNCHANGED <<validation, sums, packageMetadata>>

\* Mutant: the members are listed but not read.
ArchiveSound_Listed(a) ==
    /\ a.damage # "torn"
    /\ DOMAIN a.manifest = DOMAIN a.members /\ a.manifest = a.members

\* validate_zip: every member is read, listed once and as the manifest says.
ArchiveSound(a) ==
    /\ a.damage = "none"
    /\ DOMAIN a.manifest = DOMAIN a.members /\ a.manifest = a.members

CheckArchive ==
    /\ releaseCommand.at = "check"
    /\ releaseCommand' = IF ArchiveSound(archive) THEN [releaseCommand EXCEPT !.at = "sums"] ELSE NoRelease
    /\ CommandKeeps /\ UNCHANGED <<validation, archive, sums, packageMetadata>>

WriteSums ==
    /\ releaseCommand.at = "sums"
    /\ sums' = archive
    /\ releaseCommand' = [releaseCommand EXCEPT !.at = "metadata"]
    /\ CommandKeeps /\ UNCHANGED <<validation, archive, packageMetadata>>

WriteMetadata ==
    /\ releaseCommand.at = "metadata"
    /\ packageMetadata' = [archive |-> archive, classification |-> releaseCommand.classification]
    /\ releaseCommand' = NoRelease
    /\ CommandKeeps /\ UNCHANGED <<validation, archive, sums>>

ReleaseStops ==
    /\ releaseCommand # NoRelease /\ releaseCommand' = NoRelease
    /\ CommandKeeps /\ UNCHANGED <<validation, archive, sums, packageMetadata>>

ChangeTree(held) ==
    /\ treeChanges < MaxTreeChanges /\ treeChanges' = treeChanges + 1
    /\ held # sourceTree /\ sourceTree' = held
    /\ UNCHANGED <<validation, archive, sums, packageMetadata, releaseCommand, releases, opsVars>>

ArchiveNext ==
    \/ \E skip \in BOOLEAN : StartRelease(skip)
    \/ \E passed, compiled \in BOOLEAN : Validate(passed, compiled)
    \/ ReadReport
    \/ \E f \in DOMAIN sourceTree : CollectFile(f)
    \/ \E damage \in {"none", "bits"} : WriteReleaseArchive(damage)
    \/ WriteTorn
    \/ CheckArchive
    \/ WriteSums
    \/ WriteMetadata
    \/ ReleaseStops
    \/ \E held \in SourceTrees : ChangeTree(held)

-----------------------------------------------------------------------------
(* release_ops_v19: a hash is the value it is of                             *)

SignatureOver(type, body, keyId, signedAt) ==
    [algorithm |-> "hmac", keyId |-> keyId, type |-> type, hash |-> body, signedAt |-> signedAt]

Signed(type, body, keyId, secret) ==
    [type |-> type, manifest |-> body,
     signature |-> [algorithm |-> "hmac", keyId |-> keyId, signedAt |-> "now", hash |-> body,
                    secret |-> secret, over |-> SignatureOver(type, body, keyId, "now")]]

\* verify_signed_manifest
EnvelopeError(e) ==
    LET s == e.signature IN
    IF s.algorithm # "hmac" THEN "signature_algorithm_invalid"
    ELSE IF s.hash # e.manifest THEN "manifest_sha256_mismatch"
    ELSE IF s.keyId \notin DOMAIN OpsKeys THEN "unknown_signer"
    ELSE IF s.secret # OpsKeys[s.keyId] \/ s.over # SignatureOver(e.type, e.manifest, s.keyId, s.signedAt)
         THEN "signature_mismatch"
    ELSE "none"

\* PolicyProfile.from_json and merge_policy_profiles: the overlay's switches replace the
\* base's and the channels are joined, so that an overlay may also widen.
ProfileError(p) ==
    IF ~p.complete THEN "policy_profile_missing"
    ELSE IF p.boundary \notin {"local_only", "brokered_https", "enterprise_managed"}
         THEN "policy_profile_boundary_invalid"
    ELSE IF p.network \notin {"none", "broker_https"} THEN "policy_profile_network_invalid"
    ELSE "none"

MergedProfile(base, overlay) ==
    [overlay EXCEPT !.channels = @ \cup base.channels, !.plugins = @ \cup base.plugins]

PolicyOf(fleet, project) ==
    IF project \in DOMAIN fleet.projects THEN fleet.projects[project] ELSE fleet.default

\* SupportLifecyclePolicy: a version is [number, label], compared by its number.
AllowsUpgradeFrom(support, v) == support.upgradeFrom <= v.number /\ v.number <= support.current.number
AllowsRollbackTo(support, v) == support.rollbackTo <= v.number /\ v.number <= support.current.number

\* verify_signed_update_manifest looks at the first compatible version only.
UpdateError(e, support) ==
    IF EnvelopeError(e) # "none" THEN EnvelopeError(e)
    ELSE IF e.manifest.channel \notin support.channels THEN "update_channel_unsupported"
    ELSE IF ~AllowsUpgradeFrom(support, e.manifest.compatibleFrom[1]) THEN "update_upgrade_path_unsupported"
    ELSE "none"

\* plan_rollback: the highest candidate, or the next one when that is the current version.
Highest(versions, indices) ==
    CHOOSE i \in indices : \A j \in indices \ {i} :
        \/ versions[j].number < versions[i].number
        \/ versions[j].number = versions[i].number /\ i < j

RollbackTarget(current, versions, support) ==
    LET candidates == {i \in DOMAIN versions :
                          versions[i].number <= current.number /\ AllowsRollbackTo(support, versions[i])}
        first == Highest(versions, candidates)
        others == candidates \ {first}
    IN IF candidates = {} THEN "no_supported_rollback_candidate"
       ELSE IF versions[first] # current THEN versions[first]
       ELSE IF others = {} \/ versions[Highest(versions, others)] = current THEN "current_version_only"
       ELSE versions[Highest(versions, others)]

Answer(q) ==
    CASE q.kind = "envelope" -> EnvelopeError(q.envelope)
      [] q.kind = "profile" -> ProfileError(q.profile)
      [] q.kind = "merge" -> MergedProfile(q.base, q.overlay)
      [] q.kind = "policy" -> PolicyOf(q.fleet, q.project)
      [] q.kind = "update" -> UpdateError(q.envelope, q.support)
      [] q.kind = "rollback" -> RollbackTarget(q.current, q.versions, q.support)

Ask(q) ==
    /\ opsAnswer' = [request |-> q, verdict |-> Answer(q)]
    /\ UNCHANGED <<archiveVars, opsRecords, opsCheckpoint, opsAlterations>>

\* append_audit_record and verify_audit_chain
RecordHash(r) == [sequence |-> r.sequence, payload |-> r.payload, previous |-> r.previous]
Head0(records) == IF records = <<>> THEN "none" ELSE Last(records).hash

OpsRecord(records, payload) ==
    LET body == [sequence |-> Len(records) + 1, payload |-> payload, previous |-> Head0(records)] IN
    [sequence |-> body.sequence, payload |-> payload, previous |-> body.previous, hash |-> RecordHash(body)]

OpsChainVerified(records) ==
    \A i \in DOMAIN records :
        /\ records[i].sequence = i
        /\ records[i].previous = IF i = 1 THEN "none" ELSE records[i - 1].hash
        /\ records[i].hash = RecordHash(records[i])

AppendOps(payload) ==
    /\ Len(opsRecords) < MaxOpsRecords
    /\ opsRecords' = Append(opsRecords, OpsRecord(opsRecords, payload))
    /\ UNCHANGED <<archiveVars, opsCheckpoint, opsAnswer, opsAlterations>>

\* create_signed_audit_checkpoint
TakeOpsCheckpoint(keyId) ==
    /\ OpsChainVerified(opsRecords)
    /\ opsCheckpoint' =
          [envelope |-> Signed("audit_checkpoint", [count |-> Len(opsRecords), head |-> Head0(opsRecords)],
                               keyId, OpsKeys[keyId]),
           taken |-> opsRecords]
    /\ UNCHANGED <<archiveVars, opsRecords, opsAnswer, opsAlterations>>

\* Mutant: only the number of records is compared.
CheckpointHolds_Count(envelope, records) ==
    /\ EnvelopeError(envelope) = "none" /\ OpsChainVerified(records)
    /\ envelope.manifest.count = Len(records)

\* verify_signed_audit_checkpoint: the checkpoint must name the chain as it is now.
CheckpointHolds(envelope, records) ==
    /\ EnvelopeError(envelope) = "none" /\ OpsChainVerified(records)
    /\ envelope.manifest.count = Len(records) /\ envelope.manifest.head = Head0(records)

\* Somebody without a key rewrites the audit and the hashes, or the checkpoint.
Rewritten(payloads) ==
    LET hashes[i \in 0 .. Len(payloads)] ==
            IF i = 0 THEN "none" ELSE [sequence |-> i, payload |-> payloads[i], previous |-> hashes[i - 1]]
    IN [i \in 1 .. Len(payloads) |->
           [sequence |-> i, payload |-> payloads[i], previous |-> hashes[i - 1], hash |-> hashes[i]]]

AlterOps(payloads) ==
    /\ opsAlterations < MaxOpsAlterations /\ opsAlterations' = opsAlterations + 1
    /\ opsRecords' = Rewritten(payloads)
    /\ UNCHANGED <<archiveVars, opsCheckpoint, opsAnswer>>

ForgeCheckpoint(keyId) ==
    /\ opsAlterations < MaxOpsAlterations /\ opsAlterations' = opsAlterations + 1
    /\ opsCheckpoint # NoArchive
    /\ opsCheckpoint' = [opsCheckpoint EXCEPT !.envelope =
          Signed("audit_checkpoint", [count |-> Len(opsRecords), head |-> Head0(opsRecords)], keyId, "guess")]
    /\ UNCHANGED <<archiveVars, opsRecords, opsAnswer>>

QuestionsNext == \E q \in OperationRequests : Ask(q)

CheckpointsNext ==
    \/ \E payload \in OpsPayloads : AppendOps(payload)
    \/ \E keyId \in DOMAIN OpsKeys : TakeOpsCheckpoint(keyId)
    \/ \E keyId \in DOMAIN OpsKeys : ForgeCheckpoint(keyId)
    \/ \E n \in 0 .. MaxOpsRecords : \E payloads \in [1 .. n -> OpsPayloads] : AlterOps(payloads)

ReleaseInit ==
    /\ sourceTree \in SourceTrees /\ validation = NoArchive /\ archive = NoArchive
    /\ sums = NoArchive /\ packageMetadata = NoArchive
    /\ releaseCommand = NoRelease /\ releases = 0 /\ treeChanges = 0
    /\ opsRecords = <<>> /\ opsCheckpoint = NoArchive /\ opsAnswer = NoArchive /\ opsAlterations = 0

ReleaseSpec == ReleaseInit /\ [][ArchiveNext \/ QuestionsNext \/ CheckpointsNext]_releaseVars

-----------------------------------------------------------------------------
ReleaseTypeOK ==
    /\ sourceTree \in SourceTrees
    /\ releaseCommand.at \in {"idle", "validate", "report", "collect", "check", "sums", "metadata"}
    /\ archive # NoArchive => archive.damage \in {"none", "bits", "torn"}
    /\ Len(opsRecords) \in 0 .. MaxOpsRecords /\ opsAlterations \in 0 .. MaxOpsAlterations
    /\ releases \in 0 .. MaxReleases /\ treeChanges \in 0 .. MaxTreeChanges

\* The published checksum only ever names an archive whose every member was read back and
\* matched its manifest, made of files that are allowed to leave, wherever a command stopped;
\* a torn archive is never vouched for (release.main, write_zip, validate_zip).
ArchiveVouched ==
    sums # NoArchive =>
        /\ sums.damage = "none" /\ sums.manifest = sums.members
        /\ \A f \in DOMAIN sums.members \ {"RELEASE.json"} :
              \E held \in SourceTrees : f \in Collected(held) /\ held[f].content = sums.members[f]

\* A signed checkpoint only verifies against the very records it was taken of, however
\* consistently the chain is rewritten without a key (verify_signed_audit_checkpoint).
CheckpointBinds ==
    opsCheckpoint # NoArchive /\ CheckpointHolds(opsCheckpoint.envelope, opsRecords) =>
        opsRecords = opsCheckpoint.taken

\* What a release publishes about itself is true of what was published.
ReleaseVouched == ArchiveVouched /\ CheckpointBinds
=============================================================================
