----------------------------- MODULE ReleaseProofs -----------------------------
(***************************************************************************)
(* Proofs about the tools that a release goes through: bundle, archive,     *)
(* source gate, evidence, repository, roadmap and gates.                    *)
(***************************************************************************)
EXTENDS AgentToolProofs, ReleaseBundle, ReleaseArchive, ExactSourceGate, PhaseEvidence,
        RepositoryGovernance, RoadmapControl, ReleaseGates

-----------------------------------------------------------------------------
(* ReleaseBundle.  Only a verification says that a bundle is signed, and it   *)
(* compares every field a row of a manifest has.                            *)

RowsShaped(rows) ==
    rows = [p \in DOMAIN rows |-> [type |-> rows[p].type, data |-> rows[p].data, mode |-> rows[p].mode]]

BundleShaped(b) ==
    /\ b = [payload |-> b.payload, extra |-> b.extra, collides |-> b.collides, manifest |-> b.manifest,
            sbom |-> b.sbom]
    /\ b.manifest = [platform |-> b.manifest.platform, version |-> b.manifest.version,
                     commit |-> b.manifest.commit, tree |-> b.manifest.tree, files |-> b.manifest.files,
                     signed |-> b.manifest.signed]
    /\ RowsShaped(b.payload) /\ RowsShaped(b.manifest.files)

BundleInv ==
    /\ packaging.at # "idle" => RowsShaped(packaging.rows)
    /\ bundle # NoBundle => BundleShaped(bundle)
    /\ SignedBundleIntact

LEMMA RowsAreShaped == ASSUME NEW t PROVE RowsShaped(Rows(t))
  BY DEF Rows, RowsShaped

(* An alteration of a bundle is one of what it holds.                        *)
LEMMA AlteredShaped ==
    ASSUME BundleShaped(bundle), NEW b \in AlteredBundles
    PROVE  BundleShaped(b)
<1>1. CASE b = [bundle EXCEPT !.extra = TRUE] \/ b = [bundle EXCEPT !.collides = TRUE]
  BY <1>1 DEF BundleShaped
<1>2. ASSUME NEW p \in DOMAIN bundle.payload,
             \/ b = [bundle EXCEPT !.payload[p].data = "altered"]
             \/ b = [bundle EXCEPT !.payload[p].mode = "altered"]
      PROVE  BundleShaped(b)
  <2>1. RowsShaped(b.payload)
    BY <1>2 DEF BundleShaped, RowsShaped
  <2>. QED BY <1>2, <2>1 DEF BundleShaped
<1>3. ASSUME NEW p \in DOMAIN bundle.payload \cap DOMAIN bundle.manifest.files,
             b = [bundle EXCEPT !.manifest.files[p].data = "altered", !.payload[p].data = "altered"]
      PROVE  BundleShaped(b)
  <2>1. RowsShaped(b.payload)
    BY <1>3 DEF BundleShaped, RowsShaped
  <2>2. RowsShaped(b.manifest.files)
    <3>1. b.manifest.files = [bundle.manifest.files EXCEPT ![p].data = "altered"]
      BY <1>3 DEF BundleShaped
    <3>. QED BY <3>1 DEF BundleShaped, RowsShaped
  <2>. QED BY <1>3, <2>1, <2>2 DEF BundleShaped
<1>. QED BY <1>1, <1>2, <1>3 DEF AlteredBundles

(* What is listed is what is there, when a payload raises no error.          *)
LEMMA PayloadMatches ==
    ASSUME NEW b, BundleShaped(b), PayloadError(b) = "none"
    PROVE  b.payload = b.manifest.tree /\ ~b.extra /\ ~b.collides
<1>. DEFINE listed == b.manifest.files
<1>1. /\ ~b.collides /\ ~b.extra /\ DOMAIN b.payload = DOMAIN listed /\ b.manifest.tree = listed
      /\ \A p \in DOMAIN listed : /\ b.payload[p].mode = listed[p].mode
                                  /\ b.payload[p].type = listed[p].type
                                  /\ b.payload[p].data = listed[p].data
  BY DEF PayloadError
<1>2. b.payload = listed
  BY <1>1 DEF BundleShaped, RowsShaped
<1>. QED BY <1>1, <1>2

LEMMA NoErrorIsAVerdict ==
    /\ \A t : TreeError(t) # "verified signed"
    /\ \A l : LockError(l) # "verified signed"
    /\ \A b : PayloadError(b) # "verified signed"
    /\ \A b, v : BindingError(b, v) # "verified signed"
    /\ \A p, e, s : SigningError(p, e, s) # "verified signed"
<1>1. \A t : TreeError(t) # "verified signed"
  BY DEF TreeError
<1>2. \A l : LockError(l) # "verified signed"
  BY DEF LockError
<1>3. \A b : PayloadError(b) # "verified signed"
  BY DEF PayloadError
<1>4. \A b, v : BindingError(b, v) # "verified signed"
  BY DEF BindingError
<1>5. \A p, e, s : SigningError(p, e, s) # "verified signed"
  BY DEF SigningError
<1>. QED BY <1>1, <1>2, <1>3, <1>4, <1>5

LEMMA VerifiedIsIntact ==
    ASSUME BundleInv, NEW requireSigned \in BOOLEAN, VerifyBundle(requireSigned)
    PROVE  SignedBundleIntact'
<1>. SUFFICES ASSUME verification' = "verified signed" PROVE SignedBundleIntact'
  BY DEF SignedBundleIntact
<1>1. VerificationError(requireSigned) # "verified signed"
  BY NoErrorIsAVerdict DEF VerificationError
<1>2. VerificationError(requireSigned) = "none" /\ provenance.signing # NoEvidence
  BY <1>1 DEF VerifyBundle
<1>3. /\ bundle # NoBundle /\ provenance.lock = lock /\ provenance.configuration = configuration
      /\ PayloadError(bundle) = "none" /\ BindingError(bundle, provenance) = "none"
      /\ SigningError(provenance.platform, provenance.signing, bundle.manifest.tree) = "none"
  BY <1>2 DEF VerificationError
<1>4. bundle.payload = bundle.manifest.tree /\ ~bundle.extra /\ ~bundle.collides
  BY <1>3, PayloadMatches DEF BundleInv
<1>5. bundle.manifest.platform = provenance.platform
  BY <1>3 DEF BindingError
<1>6. /\ provenance.signing.scheme = SchemeOf(provenance.platform) /\ provenance.signing.verified
      /\ provenance.signing.subject = bundle.manifest.tree
  BY <1>3 DEF SigningError
<1>. QED BY <1>3, <1>4, <1>5, <1>6 DEF SignedBundleIntact, VerifyBundle

LEMMA BundleInvInit == BundleInit => BundleInv
  BY DEF BundleInit, BundleInv, SignedBundleIntact, IdlePackaging

LEMMA BundleInvNext == BundleInv /\ [BundleNext]_bundleVars => BundleInv'
<1>. SUFFICES ASSUME BundleInv, [BundleNext]_bundleVars PROVE BundleInv'
  OBVIOUS
<1>1. ASSUME NEW platform \in Platforms, NEW evidence \in Evidence \cup {NoEvidence}, NEW commit \in Commits,
             BeginPackage(platform, evidence, commit)
      PROVE  BundleInv'
  <2>1. PackagingError(platform, evidence, commit) # "verified signed"
    BY NoErrorIsAVerdict DEF PackagingError
  <2>2. verification' # "verified signed" /\ UNCHANGED bundle
    BY <1>1, <2>1 DEF BeginPackage
  <2>3. packaging' = packaging \/ RowsShaped(packaging'.rows)
    BY <1>1, RowsAreShaped DEF BeginPackage
  <2>. QED BY <2>2, <2>3 DEF BundleInv, SignedBundleIntact
<1>2. CASE WriteArchive
  <2>1. verification' # "verified signed"
    BY <1>2, NoErrorIsAVerdict DEF WriteArchive
  <2>2. bundle' # NoBundle => BundleShaped(bundle')
    <3>1. CASE bundle' = bundle
      BY <3>1 DEF BundleInv
    <3>2. CASE bundle' = [payload |-> Rows(artifact), extra |-> FALSE, collides |-> FALSE,
                          manifest |-> ReleaseManifest(packaging), sbom |-> packaging.sbom]
      BY <3>2, <1>2, RowsAreShaped DEF BundleShaped, ReleaseManifest, BundleInv, WriteArchive
    <3>. QED BY <3>1, <3>2, <1>2 DEF WriteArchive
  <2>3. packaging'.at # "idle" => RowsShaped(packaging'.rows)
    <3>1. CASE packaging' = [packaging EXCEPT !.at = "archived"]
      BY <3>1, <1>2 DEF WriteArchive, BundleInv
    <3>. QED BY <3>1, <1>2 DEF WriteArchive, IdlePackaging
  <2>. QED BY <2>1, <2>2, <2>3 DEF BundleInv, SignedBundleIntact
<1>3. CASE WriteProvenance \/ PackagerDies
  <2>1. packaging'.at = "idle" /\ bundle' = bundle /\ verification' # "verified signed"
    <3>1. CASE WriteProvenance
      BY <3>1 DEF WriteProvenance, IdlePackaging
    <3>2. CASE PackagerDies
      BY <3>2 DEF PackagerDies, IdlePackaging
    <3>. QED BY <1>3, <3>1, <3>2
  <2>. QED BY <2>1 DEF BundleInv, SignedBundleIntact
<1>4. ASSUME NEW requireSigned \in BOOLEAN, VerifyBundle(requireSigned) PROVE BundleInv'
  <2>1. SignedBundleIntact'
    BY <1>4, VerifiedIsIntact
  <2>2. UNCHANGED <<packaging, bundle>>
    BY <1>4 DEF VerifyBundle
  <2>. QED BY <2>1, <2>2 DEF BundleInv
<1>5. ASSUME NEW built \in ArtifactTrees, NEW platform \in Platforms, NEW returnCode \in {0, 1},
             Build(built, platform, returnCode)
      PROVE  BundleInv'
  BY <1>5 DEF Build, BundleInv, SignedBundleIntact
<1>6. ASSUME NEW l \in Locks, NEW c \in Configurations, EditInputs(l, c) PROVE BundleInv'
  BY <1>6 DEF EditInputs, BundleInv, SignedBundleIntact
<1>7. ASSUME bundle # NoBundle, NEW altered \in AlteredBundles, NEW rebound \in BOOLEAN,
             AlterBundle(altered, rebound)
      PROVE  BundleInv'
  BY <1>7, AlteredShaped DEF AlterBundle, BundleInv, SignedBundleIntact
<1>8. CASE UNCHANGED bundleVars
  BY <1>8 DEF bundleVars, BundleInv, SignedBundleIntact
<1>. QED BY <1>1, <1>2, <1>3, <1>4, <1>5, <1>6, <1>7, <1>8 DEF BundleNext

(* However the build output changes between the hash and the archive, a       *)
(* bundle that verifies as signed holds exactly the files its signature was   *)
(* made for (verify_release_bundle).                                         *)
THEOREM SignedBundlesAreIntact == BundleSpec => []SignedBundleIntact
<1>1. BundleInv => SignedBundleIntact
  BY DEF BundleInv
<1>. QED BY <1>1, BundleInvInit, BundleInvNext, PTL DEF BundleSpec

(* The values of the packaging tool's state.                                  *)
PackagingShaped ==
    \/ packaging = IdlePackaging
    \/ \E a \in {"hashed", "archived"} : \E c, p, v, r, l, b, s :
          packaging = [at |-> a, commit |-> c, platform |-> p, version |-> v, rows |-> r, lock |-> l,
                       sbom |-> b, signing |-> s]

BundleTyped ==
    /\ PackagingShaped
    /\ artifact \in ArtifactTrees /\ lock \in Locks /\ configuration \in Configurations
    /\ packagings \in 0 .. MaxPackagings /\ changes \in 0 .. MaxChanges

LEMMA BundleStaysTyped == BundleTyped /\ [BundleNext]_bundleVars => BundleTyped'
<1>. SUFFICES ASSUME BundleTyped, [BundleNext]_bundleVars PROVE BundleTyped'
  OBVIOUS
<1>. USE BundleAssumption DEF BundleAssumption, BundleTyped
<1>1. ASSUME NEW platform, NEW evidence, NEW commit, BeginPackage(platform, evidence, commit)
      PROVE  BundleTyped'
  <2>1. \/ packaging' = packaging
        \/ packaging' = [at |-> "hashed", commit |-> commit, platform |-> platform,
                         version |-> configuration.productVersion, rows |-> Rows(artifact),
                         lock |-> lock, sbom |-> Sbom(lock, configuration.productVersion),
                         signing |-> evidence]
    BY <1>1 DEF BeginPackage
  <2>2. PackagingShaped'
    BY <2>1 DEF PackagingShaped
  <2>. QED BY <1>1, <2>2 DEF BeginPackage
<1>2. CASE WriteArchive
  <2>1. \/ packaging' = IdlePackaging
        \/ packaging.at = "hashed" /\ packaging' = [packaging EXCEPT !.at = "archived"]
    BY <1>2 DEF WriteArchive
  <2>2. PackagingShaped'
    BY <2>1 DEF PackagingShaped, IdlePackaging
  <2>. QED BY <1>2, <2>2 DEF WriteArchive
<1>3. CASE WriteProvenance \/ PackagerDies
  BY <1>3 DEF WriteProvenance, PackagerDies, PackagingShaped
<1>4. ASSUME NEW requireSigned, VerifyBundle(requireSigned) PROVE BundleTyped'
  BY <1>4 DEF VerifyBundle, PackagingShaped
<1>5. ASSUME NEW built \in ArtifactTrees, NEW platform, NEW returnCode, Build(built, platform, returnCode)
      PROVE  BundleTyped'
  BY <1>5 DEF Build, PackagingShaped
<1>6. ASSUME NEW l \in Locks, NEW c \in Configurations, EditInputs(l, c) PROVE BundleTyped'
  BY <1>6 DEF EditInputs, PackagingShaped
<1>7. ASSUME NEW altered, NEW rebound, AlterBundle(altered, rebound) PROVE BundleTyped'
  BY <1>7 DEF AlterBundle, PackagingShaped
<1>8. CASE UNCHANGED bundleVars
  BY <1>8 DEF bundleVars, PackagingShaped
<1>. QED BY <1>1, <1>2, <1>3, <1>4, <1>5, <1>6, <1>7, <1>8 DEF BundleNext

(* The values of the packaging tool's state, for every tree, lock, target and *)
(* number of packagings and changes.                                          *)
THEOREM BundleTypeCorrect == BundleSpec => []BundleTypeOK
<1>1. BundleInit => BundleTyped
  BY BundleAssumption DEF BundleAssumption, BundleInit, BundleTyped, PackagingShaped
<1>2. BundleTyped => BundleTypeOK
  BY DEF BundleTyped, BundleTypeOK, PackagingShaped, IdlePackaging
<1>. QED BY <1>1, <1>2, BundleStaysTyped, PTL DEF BundleSpec

-----------------------------------------------------------------------------
(* Chains of records, each of which names the hash of the one before it.     *)

(* What holds at n and, with every number but 1, at the one before it, holds  *)
(* at 1 .. n.                                                                *)
LEMMA HoldsDownwards ==
    ASSUME NEW n \in Nat, NEW S, n \in S, \A i \in 2 .. n : i \in S => i - 1 \in S
    PROVE  1 .. n \subseteq S
<1>. SUFFICES ASSUME NEW k \in 1 .. n, k \notin S PROVE FALSE
  OBVIOUS
<1>. DEFINE T == {d \in Nat : d < n /\ n - d \notin S}
<1>1. n - k \in T
  OBVIOUS
<1>2. PICK d \in T : \A e \in T : d <= e
  BY <1>1, LeastNumber
<1>3. d # 0
  BY <1>2
<1>4. d - 1 \notin T /\ d - 1 \in Nat
  BY <1>2, <1>3
<1>5. n - (d - 1) \in S /\ n - (d - 1) \in 2 .. n
  BY <1>2, <1>4
<1>6. n - (d - 1) - 1 \in S
  BY <1>5
<1>. QED BY <1>2, <1>6

-----------------------------------------------------------------------------
(* ReleaseArchive.  The checksum is written last, of an archive that was read *)
(* back and is not written again before; what it holds was collected file by  *)
(* file from trees in which each file may leave.                             *)

MembersAllowed(members) ==
    \A f \in DOMAIN members \ {"RELEASE.json"} :
        \E held \in SourceTrees : f \in Collected(held) /\ held[f].content = members[f]

ArchiveInv ==
    /\ sourceTree \in SourceTrees
    /\ releaseCommand.at = "collect" => MembersAllowed(releaseCommand.payloads)
    /\ releaseCommand.at \in {"check", "sums"} => MembersAllowed(archive.members)
    /\ releaseCommand.at = "sums" => ArchiveSound(archive)
    /\ ArchiveVouched

LEMMA WithMetadataAllowed ==
    ASSUME NEW command, MembersAllowed(command.payloads)
    PROVE  MembersAllowed(WithMetadata(command).members)
  BY DEF MembersAllowed, WithMetadata, Packed

LEMMA ArchiveStep == ArchiveInv /\ [ArchiveNext]_archiveVars => ArchiveInv'
<1>. SUFFICES ASSUME ArchiveInv, [ArchiveNext]_archiveVars PROVE ArchiveInv'
  OBVIOUS
<1>. USE DEF ArchiveInv, CommandKeeps
<1>1. ASSUME NEW skip \in BOOLEAN, StartRelease(skip) PROVE ArchiveInv'
  BY <1>1 DEF StartRelease, ArchiveVouched
<1>2. ASSUME NEW passed \in BOOLEAN, NEW compiled \in BOOLEAN, Validate(passed, compiled) PROVE ArchiveInv'
  BY <1>2 DEF Validate, NoRelease, ArchiveVouched
<1>3. CASE ReadReport
  BY <1>3 DEF ReadReport, NoRelease, ArchiveVouched, MembersAllowed
<1>4. ASSUME NEW f \in DOMAIN sourceTree, CollectFile(f) PROVE ArchiveInv'
  <2>1. releaseCommand'.at = "collect" /\ UNCHANGED <<sourceTree, archive, sums>>
    BY <1>4 DEF CollectFile
  <2>2. MembersAllowed(releaseCommand'.payloads)
    <3>1. releaseCommand'.payloads = Packed(releaseCommand.payloads, f, sourceTree[f].content)
      BY <1>4 DEF CollectFile
    <3>2. MembersAllowed(Packed(releaseCommand.payloads, f, sourceTree[f].content))
      BY <1>4 DEF CollectFile, MembersAllowed, Packed
    <3>. QED BY <3>1, <3>2
  <2>. QED BY <2>1, <2>2 DEF ArchiveVouched
<1>5. ASSUME NEW damage \in {"none", "bits"}, WriteReleaseArchive(damage) PROVE ArchiveInv'
  <2>1. CASE HoldsSymlink(sourceTree)
    BY <1>5, <2>1 DEF WriteReleaseArchive, NoRelease, ArchiveVouched
  <2>2. CASE ~HoldsSymlink(sourceTree)
    <3>1. releaseCommand'.at = "check" /\ UNCHANGED <<sourceTree, sums>>
      BY <1>5, <2>2 DEF WriteReleaseArchive
    <3>2. archive'.members = WithMetadata(releaseCommand).members
      BY <1>5, <2>2 DEF WriteReleaseArchive, WithMetadata
    <3>3. MembersAllowed(archive'.members)
      BY <1>5, <3>2, WithMetadataAllowed DEF WriteReleaseArchive
    <3>. QED BY <3>1, <3>3 DEF ArchiveVouched
  <2>. QED BY <2>1, <2>2
<1>6. CASE WriteTorn
  BY <1>6 DEF WriteTorn, NoRelease, ArchiveVouched
<1>7. CASE CheckArchive
  BY <1>7 DEF CheckArchive, NoRelease, ArchiveVouched
<1>8. CASE WriteSums
  <2>1. releaseCommand'.at = "metadata" /\ sums' = archive /\ sourceTree' = sourceTree
    BY <1>8 DEF WriteSums
  <2>2. MembersAllowed(archive.members) /\ ArchiveSound(archive)
    BY <1>8 DEF WriteSums
  <2>. QED BY <2>1, <2>2 DEF ArchiveVouched, MembersAllowed, ArchiveSound
<1>9. CASE WriteMetadata \/ ReleaseStops
  BY <1>9 DEF WriteMetadata, ReleaseStops, NoRelease, ArchiveVouched
<1>10. ASSUME NEW held \in SourceTrees, ChangeTree(held) PROVE ArchiveInv'
  BY <1>10 DEF ChangeTree, ArchiveVouched
<1>11. CASE UNCHANGED archiveVars
  BY <1>11 DEF archiveVars, ArchiveVouched
<1>. QED BY <1>1, <1>2, <1>3, <1>4, <1>5, <1>6, <1>7, <1>8, <1>9, <1>10, <1>11 DEF ArchiveNext

(* A chain of the audit is told by its length and its head, since each record *)
(* carries the hash of the one before it.                                    *)
RecordsShaped(records) ==
    /\ records \in Seq({records[i] : i \in DOMAIN records})
    /\ \A i \in DOMAIN records :
          records[i] = [sequence |-> records[i].sequence, payload |-> records[i].payload,
                        previous |-> records[i].previous, hash |-> records[i].hash]

LEMMA OpsChainTold ==
    ASSUME NEW a, NEW b, RecordsShaped(a), RecordsShaped(b), OpsChainVerified(a), OpsChainVerified(b),
           Len(a) = Len(b), Head0(a) = Head0(b)
    PROVE  a = b
<1>. DEFINE n == Len(a)
            Same == {i \in 1 .. n : a[i].hash = b[i].hash}
<1>1. n \in Nat /\ DOMAIN a = 1 .. n /\ DOMAIN b = 1 .. n
  BY DEF RecordsShaped
<1>2. CASE n = 0
  BY <1>1, <1>2 DEF RecordsShaped
<1>3. CASE n # 0
  <2>1. n \in Same
    BY <1>1, <1>3 DEF Head0, Last
  <2>2. ASSUME NEW i \in 1 .. n, i \in Same
        PROVE  a[i].sequence = b[i].sequence /\ a[i].payload = b[i].payload /\ a[i].previous = b[i].previous
    <3>1. RecordHash(a[i]) = RecordHash(b[i])
      BY <1>1, <2>2 DEF OpsChainVerified
    <3>. QED BY <3>1 DEF RecordHash
  <2>3. ASSUME NEW i \in 2 .. n, i \in Same PROVE i - 1 \in Same
    BY <1>1, <2>2, <2>3 DEF OpsChainVerified
  <2>4. 1 .. n \subseteq Same
    <3>1. \A i \in 2 .. n : i \in Same => i - 1 \in Same
      BY <2>3
    <3>. HIDE DEF n, Same
    <3>. QED BY <1>1, <2>1, <3>1, HoldsDownwards
  <2>5. \A i \in 1 .. n : a[i] = b[i]
    BY <1>1, <2>2, <2>4 DEF RecordsShaped
  <2>. QED BY <1>1, <2>5 DEF RecordsShaped
<1>. QED BY <1>2, <1>3

(* What the last checkpoint says, when its envelope verifies, is the count and *)
(* the head of the verified records it was taken of.                         *)
CheckpointTold ==
    opsCheckpoint # NoArchive =>
        /\ opsCheckpoint = [envelope |-> opsCheckpoint.envelope, taken |-> opsCheckpoint.taken]
        /\ RecordsShaped(opsCheckpoint.taken)
        /\ EnvelopeError(opsCheckpoint.envelope) = "none" =>
              /\ OpsChainVerified(opsCheckpoint.taken)
              /\ opsCheckpoint.envelope.manifest.count = Len(opsCheckpoint.taken)
              /\ opsCheckpoint.envelope.manifest.head = Head0(opsCheckpoint.taken)

OpsInv == RecordsShaped(opsRecords) /\ CheckpointTold

LEMMA OpsInvBinds == OpsInv => CheckpointBinds
<1>. SUFFICES ASSUME OpsInv, opsCheckpoint # NoArchive, CheckpointHolds(opsCheckpoint.envelope, opsRecords)
              PROVE  opsRecords = opsCheckpoint.taken
  BY DEF CheckpointBinds
<1>1. /\ RecordsShaped(opsRecords) /\ RecordsShaped(opsCheckpoint.taken)
      /\ OpsChainVerified(opsRecords) /\ OpsChainVerified(opsCheckpoint.taken)
      /\ Len(opsRecords) = Len(opsCheckpoint.taken) /\ Head0(opsRecords) = Head0(opsCheckpoint.taken)
  BY DEF OpsInv, CheckpointTold, CheckpointHolds
<1>. QED BY <1>1, OpsChainTold

LEMMA RewrittenShaped ==
    ASSUME NEW n \in Nat, NEW payloads \in [1 .. n -> OpsPayloads]
    PROVE  RecordsShaped(Rewritten(payloads))
<1>. DEFINE r == Rewritten(payloads)
            S == {r[i] : i \in DOMAIN r}
<1>1. Len(payloads) = n
  OBVIOUS
<1>2. DOMAIN r = 1 .. n /\ r = [i \in 1 .. n |-> r[i]]
  BY <1>1 DEF Rewritten
<1>3. \A i \in 1 .. n : r[i] = [sequence |-> r[i].sequence, payload |-> r[i].payload,
                                previous |-> r[i].previous, hash |-> r[i].hash]
  BY <1>1 DEF Rewritten
<1>4. r \in Seq(S)
  <2>1. r \in [1 .. n -> S]
    <3>. HIDE DEF r
    <3>. QED BY <1>2
  <2>. HIDE DEF r, S
  <2>. QED BY <2>1
<1>. HIDE DEF r
<1>5. RecordsShaped(r)
  BY <1>2, <1>3, <1>4 DEF RecordsShaped
<1>. QED BY <1>5 DEF r

LEMMA AppendShaped ==
    ASSUME NEW records, RecordsShaped(records), NEW payload
    PROVE  RecordsShaped(Append(records, OpsRecord(records, payload)))
<1>. DEFINE r == OpsRecord(records, payload)
            new == Append(records, r)
            S == {records[i] : i \in DOMAIN records} \cup {r}
            T == {new[i] : i \in DOMAIN new}
            n == Len(records)
<1>1. r = [sequence |-> r.sequence, payload |-> r.payload, previous |-> r.previous, hash |-> r.hash]
  BY DEF OpsRecord
<1>2. records \in Seq(S)
  <2>1. {records[i] : i \in DOMAIN records} \subseteq S
    OBVIOUS
  <2>2. records \in Seq({records[i] : i \in DOMAIN records})
    BY DEF RecordsShaped
  <2>. HIDE DEF S
  <2>. QED BY <2>1, <2>2
<1>3. r \in S
  OBVIOUS
<1>4. /\ new \in Seq(S) /\ n \in Nat /\ Len(new) = n + 1
      /\ \A i \in 1 .. n : new[i] = records[i]
      /\ new[n + 1] = r
      /\ DOMAIN records = 1 .. n /\ DOMAIN new = 1 .. n + 1
  <2>. HIDE DEF r, S
  <2>. QED BY <1>2, <1>3
<1>5. new \in Seq(T)
  <2>. HIDE DEF new, S
  <2>1. new \in [1 .. n + 1 -> T]
    BY <1>4
  <2>. HIDE DEF T, n
  <2>. QED BY <1>4, <2>1
<1>6. \A i \in DOMAIN new :
        new[i] = [sequence |-> new[i].sequence, payload |-> new[i].payload,
                  previous |-> new[i].previous, hash |-> new[i].hash]
  <2>1. \A i \in 1 .. n : new[i] = [sequence |-> new[i].sequence, payload |-> new[i].payload,
                                    previous |-> new[i].previous, hash |-> new[i].hash]
    <3>. HIDE DEF new, n, r
    <3>. QED BY <1>4 DEF RecordsShaped
  <2>2. new[n + 1] = [sequence |-> new[n + 1].sequence, payload |-> new[n + 1].payload,
                      previous |-> new[n + 1].previous, hash |-> new[n + 1].hash]
    <3>. HIDE DEF new, n, r
    <3>. QED BY <1>1, <1>4
  <2>3. \A i \in 1 .. n + 1 : i \in 1 .. n \/ i = n + 1
    <3>. HIDE DEF n
    <3>. QED BY <1>4
  <2>. HIDE DEF new, n
  <2>. QED BY <1>4, <2>1, <2>2, <2>3
<1>. HIDE DEF new
<1>7. RecordsShaped(new)
  BY <1>5, <1>6 DEF RecordsShaped
<1>. QED BY <1>7 DEF new, r

LEMMA ForgedEnvelopeFails ==
    ASSUME NEW type, NEW body, NEW keyId \in DOMAIN OpsKeys
    PROVE  EnvelopeError(Signed(type, body, keyId, "guess")) # "none"
  BY ReleaseAssumption DEF EnvelopeError, Signed, ReleaseAssumption

LEMMA OpsStep == OpsInv /\ [CheckpointsNext]_opsVars => OpsInv'
<1>. SUFFICES ASSUME OpsInv, [CheckpointsNext]_opsVars PROVE OpsInv'
  OBVIOUS
<1>. USE DEF OpsInv
<1>1. ASSUME NEW payload \in OpsPayloads, AppendOps(payload) PROVE OpsInv'
  <2>1. opsRecords' = Append(opsRecords, OpsRecord(opsRecords, payload)) /\ opsCheckpoint' = opsCheckpoint
    BY <1>1 DEF AppendOps
  <2>2. RecordsShaped(opsRecords')
    BY <2>1, AppendShaped
  <2>. QED BY <2>1, <2>2 DEF CheckpointTold
<1>2. ASSUME NEW keyId \in DOMAIN OpsKeys, TakeOpsCheckpoint(keyId) PROVE OpsInv'
  <2>. DEFINE body == [count |-> Len(opsRecords), head |-> Head0(opsRecords)]
              envelope == Signed("audit_checkpoint", body, keyId, OpsKeys[keyId])
  <2>1. OpsChainVerified(opsRecords) /\ opsRecords' = opsRecords
        /\ opsCheckpoint' = [envelope |-> envelope, taken |-> opsRecords]
    BY <1>2 DEF TakeOpsCheckpoint
  <2>2. envelope.manifest.count = Len(opsRecords) /\ envelope.manifest.head = Head0(opsRecords)
    BY DEF Signed
  <2>. HIDE DEF envelope, body
  <2>3. opsCheckpoint'.envelope = envelope /\ opsCheckpoint'.taken = opsRecords
    BY <2>1
  <2>. QED BY <2>1, <2>2, <2>3 DEF CheckpointTold
<1>3. ASSUME NEW keyId \in DOMAIN OpsKeys, ForgeCheckpoint(keyId) PROVE OpsInv'
  <2>. DEFINE body == [count |-> Len(opsRecords), head |-> Head0(opsRecords)]
              envelope == Signed("audit_checkpoint", body, keyId, "guess")
  <2>1. EnvelopeError(envelope) # "none"
    BY ForgedEnvelopeFails
  <2>. HIDE DEF envelope, body
  <2>2. opsRecords' = opsRecords /\ opsCheckpoint # NoArchive
        /\ opsCheckpoint' = [opsCheckpoint EXCEPT !.envelope = envelope]
    BY <1>3 DEF ForgeCheckpoint, envelope, body
  <2>3. opsCheckpoint' = [envelope |-> envelope, taken |-> opsCheckpoint.taken]
    BY <2>2 DEF CheckpointTold
  <2>. QED BY <2>1, <2>2, <2>3 DEF CheckpointTold
<1>4. ASSUME NEW n \in 0 .. MaxOpsRecords, NEW payloads \in [1 .. n -> OpsPayloads], AlterOps(payloads)
      PROVE  OpsInv'
  <2>1. opsRecords' = Rewritten(payloads) /\ opsCheckpoint' = opsCheckpoint
    BY <1>4 DEF AlterOps
  <2>2. n \in Nat
    BY ReleaseAssumption DEF ReleaseAssumption
  <2>3. RecordsShaped(opsRecords')
    BY <2>1, <2>2, RewrittenShaped
  <2>. QED BY <2>1, <2>3 DEF CheckpointTold
<1>5. CASE UNCHANGED opsVars
  BY <1>5 DEF opsVars, CheckpointTold
<1>. QED BY <1>1, <1>2, <1>3, <1>4, <1>5 DEF CheckpointsNext

LEMMA ReleaseInvariant == ReleaseSpec => [](ArchiveInv /\ OpsInv)
<1>1. ReleaseInit => ArchiveInv /\ OpsInv
  <2>1. ReleaseInit => ArchiveInv
    BY DEF ReleaseInit, ArchiveInv, ArchiveVouched, NoRelease
  <2>2. ReleaseInit => OpsInv
    BY DEF ReleaseInit, OpsInv, CheckpointTold, RecordsShaped
  <2>. QED BY <2>1, <2>2
<1>2. ArchiveInv /\ OpsInv /\ [ArchiveNext \/ QuestionsNext \/ CheckpointsNext]_releaseVars
         => ArchiveInv' /\ OpsInv'
  <2>1. ArchiveNext => UNCHANGED opsVars
    BY DEF ArchiveNext, StartRelease, Validate, ReadReport, CollectFile, WriteReleaseArchive, WriteTorn, CheckArchive,
           WriteSums, WriteMetadata, ReleaseStops, ChangeTree, CommandKeeps, opsVars
  <2>2. CheckpointsNext => UNCHANGED archiveVars
    BY DEF CheckpointsNext, AppendOps, TakeOpsCheckpoint, ForgeCheckpoint, AlterOps
  <2>3. QuestionsNext => UNCHANGED archiveVars /\ UNCHANGED <<opsRecords, opsCheckpoint>>
    BY DEF QuestionsNext, Ask
  <2>4. OpsInv /\ UNCHANGED <<opsRecords, opsCheckpoint>> => OpsInv'
    BY DEF OpsInv, CheckpointTold
  <2>5. UNCHANGED opsVars => UNCHANGED <<opsRecords, opsCheckpoint>>
    BY DEF opsVars
  <2>6. UNCHANGED releaseVars => UNCHANGED archiveVars /\ UNCHANGED opsVars
    BY DEF releaseVars
  <2>. QED BY <2>1, <2>2, <2>3, <2>4, <2>5, <2>6, ArchiveStep, OpsStep
<1>. QED BY <1>1, <1>2, PTL DEF ReleaseSpec

\* The checksum of a release names an archive that was read back whole, of files that may
\* leave, and a signed checkpoint verifies against the records it was taken of and no others,
\* for every tree, every set of keys and every number of releases and alterations.
THEOREM ReleasesAreVouched == ReleaseSpec => []ReleaseVouched
<1>1. ArchiveInv /\ OpsInv => ReleaseVouched
  BY OpsInvBinds DEF ReleaseVouched, ArchiveInv
<1>. QED BY <1>1, ReleaseInvariant, PTL

(* The values of the state of release and of the audit of its operations.     *)
ReleaseSteps == {"idle", "validate", "report", "collect", "check", "sums", "metadata"}

ReleaseCounted ==
    /\ releases \in 0 .. MaxReleases /\ treeChanges \in 0 .. MaxTreeChanges
    /\ opsAlterations \in 0 .. MaxOpsAlterations

ArchiveTyped ==
    /\ "at" \in DOMAIN releaseCommand /\ releaseCommand.at \in ReleaseSteps
    /\ archive # NoArchive => archive.damage \in {"none", "bits", "torn"}

ReleaseTyped == ArchiveTyped /\ ReleaseCounted /\ Len(opsRecords) \in 0 .. MaxOpsRecords

LEMMA ReleaseBounds ==
    MaxReleases \in Nat /\ MaxTreeChanges \in Nat /\ MaxOpsRecords \in Nat /\ MaxOpsAlterations \in Nat
  BY ReleaseAssumption DEF ReleaseAssumption

LEMMA WrittenDamage ==
    ASSUME NEW command, NEW damage
    PROVE  [WithMetadata(command) EXCEPT !.damage = damage].damage = damage
  BY DEF WithMetadata

LEMMA ArchiveStaysTyped == ArchiveTyped /\ ArchiveNext => ArchiveTyped'
<1>. SUFFICES ASSUME ArchiveTyped, ArchiveNext PROVE ArchiveTyped'
  OBVIOUS
<1>0. ASSUME NEW to \in ReleaseSteps, "at" \in DOMAIN releaseCommand', releaseCommand'.at = to, UNCHANGED archive
      PROVE  ArchiveTyped'
  BY <1>0 DEF ArchiveTyped
<1>1. ASSUME NEW skip, StartRelease(skip) PROVE ArchiveTyped'
  BY <1>1 DEF StartRelease, ArchiveTyped, ReleaseSteps
<1>2. ASSUME NEW passed, NEW compiled, Validate(passed, compiled) PROVE ArchiveTyped'
  BY <1>2 DEF Validate, NoRelease, ArchiveTyped, ReleaseSteps
<1>3. CASE ReadReport
  BY <1>3 DEF ReadReport, NoRelease, ArchiveTyped, ReleaseSteps
<1>4. ASSUME NEW f, CollectFile(f) PROVE ArchiveTyped'
  BY <1>4 DEF CollectFile, ArchiveTyped, ReleaseSteps
<1>5. ASSUME NEW damage \in {"none", "bits"}, WriteReleaseArchive(damage) PROVE ArchiveTyped'
  <2>1. CASE HoldsSymlink(sourceTree)
    BY <1>5, <2>1 DEF WriteReleaseArchive, NoRelease, ArchiveTyped, ReleaseSteps
  <2>2. CASE ~HoldsSymlink(sourceTree)
    <3>1. archive'.damage = damage
      BY <1>5, <2>2, WrittenDamage DEF WriteReleaseArchive
    <3>2. "at" \in DOMAIN releaseCommand' /\ releaseCommand'.at = "check"
      BY <1>5, <2>2 DEF WriteReleaseArchive
    <3>. QED BY <3>1, <3>2 DEF ArchiveTyped, ReleaseSteps
  <2>. QED BY <2>1, <2>2
<1>6. CASE WriteTorn
  <2>1. archive'.damage = "torn"
    BY <1>6, WrittenDamage DEF WriteTorn
  <2>2. releaseCommand' = NoRelease
    BY <1>6 DEF WriteTorn
  <2>. QED BY <2>1, <2>2 DEF NoRelease, ArchiveTyped, ReleaseSteps
<1>7. CASE CheckArchive
  BY <1>7 DEF CheckArchive, NoRelease, ArchiveTyped, ReleaseSteps
<1>8. CASE WriteSums
  BY <1>8 DEF WriteSums, ArchiveTyped, ReleaseSteps
<1>9. CASE WriteMetadata \/ ReleaseStops
  BY <1>9 DEF WriteMetadata, ReleaseStops, NoRelease, ArchiveTyped, ReleaseSteps
<1>10. ASSUME NEW held, ChangeTree(held) PROVE ArchiveTyped'
  BY <1>10 DEF ChangeTree, ArchiveTyped
<1>. QED BY <1>1, <1>2, <1>3, <1>4, <1>5, <1>6, <1>7, <1>8, <1>9, <1>10 DEF ArchiveNext

LEMMA AuditStaysShort ==
    OpsInv /\ Len(opsRecords) \in 0 .. MaxOpsRecords /\ CheckpointsNext => Len(opsRecords)' \in 0 .. MaxOpsRecords
<1>. SUFFICES ASSUME OpsInv, Len(opsRecords) \in 0 .. MaxOpsRecords, CheckpointsNext
              PROVE  Len(opsRecords)' \in 0 .. MaxOpsRecords
  OBVIOUS
<1>1. ASSUME NEW payload \in OpsPayloads, AppendOps(payload) PROVE Len(opsRecords)' \in 0 .. MaxOpsRecords
  <2>. DEFINE r == OpsRecord(opsRecords, payload)
              S == {opsRecords[i] : i \in DOMAIN opsRecords}
  <2>1. opsRecords' = Append(opsRecords, r) /\ Len(opsRecords) < MaxOpsRecords
    BY <1>1 DEF AppendOps
  <2>2. opsRecords \in Seq(S)
    BY DEF OpsInv, RecordsShaped
  <2>3. S \subseteq S \cup {r} /\ r \in S \cup {r}
    OBVIOUS
  <2>. HIDE DEF r, S
  <2>4. opsRecords \in Seq(S \cup {r})
    BY <2>2, <2>3
  <2>5. Len(Append(opsRecords, r)) = Len(opsRecords) + 1
    BY <2>3, <2>4
  <2>. QED BY <2>1, <2>5, ReleaseBounds
<1>2. ASSUME NEW n \in 0 .. MaxOpsRecords, NEW payloads \in [1 .. n -> OpsPayloads], AlterOps(payloads)
      PROVE  Len(opsRecords)' \in 0 .. MaxOpsRecords
  <2>1. n \in Nat
    BY ReleaseBounds
  <2>2. Len(payloads) = n
    BY <2>1
  <2>3. DOMAIN Rewritten(payloads) = 1 .. n
    BY <2>2 DEF Rewritten
  <2>4. RecordsShaped(Rewritten(payloads))
    BY <2>1, RewrittenShaped
  <2>5. Len(Rewritten(payloads)) = n
    BY <2>1, <2>3, <2>4 DEF RecordsShaped
  <2>6. opsRecords' = Rewritten(payloads)
    BY <1>2 DEF AlterOps
  <2>. QED BY <2>5, <2>6
<1>3. ASSUME NEW keyId, TakeOpsCheckpoint(keyId) \/ ForgeCheckpoint(keyId)
      PROVE  Len(opsRecords)' \in 0 .. MaxOpsRecords
  BY <1>3 DEF TakeOpsCheckpoint, ForgeCheckpoint
<1>. QED BY <1>1, <1>2, <1>3 DEF CheckpointsNext

(* Release and its operations keep to their steps, for every tree, set of keys *)
(* and number of releases, changes, records and alterations.                  *)
THEOREM ReleaseTypeCorrect == ReleaseSpec => []ReleaseTypeOK
<1>1. ReleaseInit => ReleaseTyped
  BY ReleaseBounds
  DEF ReleaseInit, ReleaseTyped, ArchiveTyped, ReleaseCounted, ReleaseSteps, NoRelease
<1>2. OpsInv /\ ReleaseTyped /\ [ArchiveNext \/ QuestionsNext \/ CheckpointsNext]_releaseVars => ReleaseTyped'
  <2>. SUFFICES ASSUME OpsInv, ReleaseTyped, [ArchiveNext \/ QuestionsNext \/ CheckpointsNext]_releaseVars
                PROVE  ReleaseTyped'
    OBVIOUS
  <2>1. CASE ArchiveNext
    <3>1. /\ UNCHANGED opsVars
          /\ releases' = releases \/ (releases < MaxReleases /\ releases' = releases + 1)
          /\ treeChanges' = treeChanges \/ (treeChanges < MaxTreeChanges /\ treeChanges' = treeChanges + 1)
      <4>1. UNCHANGED opsVars
        BY <2>1 DEF ArchiveNext, StartRelease, Validate, ReadReport, CollectFile, WriteReleaseArchive, WriteTorn,
           CheckArchive, WriteSums, WriteMetadata, ReleaseStops, ChangeTree, CommandKeeps, opsVars
      <4>2. releases' = releases \/ (releases < MaxReleases /\ releases' = releases + 1)
        <5>1. ASSUME NEW skip, StartRelease(skip) PROVE releases < MaxReleases /\ releases' = releases + 1
          BY <5>1 DEF StartRelease
        <5>2. CASE ~\E skip \in BOOLEAN : StartRelease(skip)
          <6>1. releases' = releases
            BY <2>1, <5>2 DEF ArchiveNext, Validate, ReadReport, CollectFile, WriteReleaseArchive, WriteTorn, CheckArchive,
             WriteSums, WriteMetadata, ReleaseStops, ChangeTree, CommandKeeps
          <6>. QED BY <6>1
        <5>. QED BY <5>1, <5>2
      <4>3. treeChanges' = treeChanges \/ (treeChanges < MaxTreeChanges /\ treeChanges' = treeChanges + 1)
        <5>1. ASSUME NEW held, ChangeTree(held) PROVE treeChanges < MaxTreeChanges /\ treeChanges' = treeChanges + 1
          BY <5>1 DEF ChangeTree
        <5>2. CASE ~\E held \in SourceTrees : ChangeTree(held)
          <6>1. treeChanges' = treeChanges
            BY <2>1, <5>2 DEF ArchiveNext, StartRelease, Validate, ReadReport, CollectFile, WriteReleaseArchive, WriteTorn,
             CheckArchive, WriteSums, WriteMetadata, ReleaseStops, CommandKeeps
          <6>. QED BY <6>1
        <5>. QED BY <5>1, <5>2
      <4>. QED BY <4>1, <4>2, <4>3
    <3>2. ReleaseCounted' /\ Len(opsRecords)' = Len(opsRecords)
      BY <3>1, ReleaseBounds DEF ReleaseTyped, ReleaseCounted, opsVars
    <3>3. ArchiveTyped'
      BY <2>1, ArchiveStaysTyped DEF ReleaseTyped
    <3>. QED BY <3>2, <3>3 DEF ReleaseTyped
  <2>2. CASE QuestionsNext
    BY <2>2 DEF QuestionsNext, Ask, archiveVars, ReleaseTyped, ArchiveTyped, ReleaseCounted
  <2>3. CASE CheckpointsNext
    <3>1. /\ UNCHANGED archiveVars
          /\ \/ UNCHANGED opsAlterations
             \/ opsAlterations < MaxOpsAlterations /\ opsAlterations' = opsAlterations + 1
      BY <2>3 DEF CheckpointsNext, AppendOps, TakeOpsCheckpoint, ForgeCheckpoint, AlterOps
    <3>2. ReleaseCounted' /\ ArchiveTyped'
      BY <3>1, ReleaseBounds DEF ReleaseTyped, ReleaseCounted, ArchiveTyped, archiveVars
    <3>3. Len(opsRecords)' \in 0 .. MaxOpsRecords
      BY <2>3, AuditStaysShort DEF ReleaseTyped
    <3>. QED BY <3>2, <3>3 DEF ReleaseTyped
  <2>4. CASE UNCHANGED releaseVars
    BY <2>4 DEF releaseVars, archiveVars, opsVars, ReleaseTyped, ArchiveTyped, ReleaseCounted
  <2>. QED BY <2>1, <2>2, <2>3, <2>4
<1>3. ArchiveInv /\ ReleaseTyped => ReleaseTypeOK
  BY DEF ArchiveInv, ReleaseTyped, ArchiveTyped, ReleaseCounted, ReleaseSteps, ReleaseTypeOK
<1>. QED BY <1>1, <1>2, <1>3, ReleaseInvariant, PTL DEF ReleaseSpec

-----------------------------------------------------------------------------
(* The two tools share no variable: each keeps its promise beside the other.  *)

-----------------------------------------------------------------------------
(* ExactSourceGate.                                                          *)

GateShaped ==
    gate = [at |-> gate.at, before |-> gate.before, normalized |-> gate.normalized,
            seen |-> gate.seen, held |-> gate.held, written |-> gate.written, differing |-> gate.differing]

JudgedSteps ==
    {"tasks", "r3", "r4", "generators", "drift", "renormalize", "renormalized", "recheck", "bytes",
     "write", "before", "clean", "sdk", "after", "final"}

\* The evidence was judged; unless somebody writes to it, it can only pass as HEAD has it.
EvidenceRead ==
    gate.at \in JudgedSteps /\ EvidencePath \notin dirtied /\ checkout[EvidencePath].text = "head" =>
        EvidenceJudged(headCommit.evidence)

\* A source that is written over was nobody's work when it was read.
RepairHarmless ==
    /\ gate.at \notin {"bytes", "write"} => gate.seen = {}
    /\ gate.held \cap unsaved = {}

\* The bytes were repaired, file by file, and then found to be present.
BytesRepaired ==
    /\ gate.at \in {"bytes", "write"} =>
          \A p \in gate.seen \ lately :
             p \notin gate.differing /\ checkout[p].text # "absent" => checkout[p] = File("head", "lf")
    /\ gate.at \in {"before", "clean"} =>
          \A p \in DartSources \ lately : checkout[p].text # "absent" => checkout[p] = File("head", "lf")
    /\ TestedAsCommitted

\* The manifest was read: since then nobody can give a file HEAD's text.
ManifestRead ==
    gate.at = "final" =>
        /\ \A p \in TrackedPaths : checkout[p].text = "head" => p \in DOMAIN manifestRows /\ manifestRows[p] = "head"
        /\ otherFiles \ lately \subseteq DOMAIN manifestRows

Vouched ==
    /\ \A p \in TrackedPaths : p \in DOMAIN headCommit.rows /\ headCommit.rows[p] = "head"
    /\ EvidencePath \notin dirtied => EvidenceJudged(headCommit.evidence)
    /\ ManifestPath \notin lately => manifestRows = headCommit.rows
    /\ \A p \in TrackedPaths \ lately : checkout[p].text = "head" /\ staged[p] = "head"
    /\ otherFiles \ lately \subseteq DOMAIN headCommit.rows

ExactInv ==
    /\ ExactTypeOK /\ GateShaped /\ unsaved \subseteq TrackedPaths
    /\ WorkIsKept /\ RepairHarmless /\ EvidenceRead /\ BytesRepaired /\ ManifestRead
    /\ gateReceipt.run <= gateRuns /\ (gate # NoGateRun => gateReceipt.run < gateRuns)
    /\ gate.at = "idle" => gate = NoGateRun
    /\ gate.at = "report" => Vouched
    /\ gate = NoGateRun /\ gateReceipt.status = "passed" /\ gateReceipt.run = gateRuns => Vouched

LEMMA ExactInit0 == ExactInit => ExactInv
<1>. SUFFICES ASSUME ExactInit PROVE ExactInv
  OBVIOUS
<1>. USE ExactAssumption DEF ExactAssumption
<1>1. ExactTypeOK
  BY DEF ExactInit, ExactTypeOK, File, NoGateRun
<1>2. GateShaped /\ gate.at = "idle" /\ gate.seen = {} /\ unsaved = {}
  BY DEF ExactInit, GateShaped, NoGateRun
<1>3. WorkIsKept
  BY DEF ExactInit, WorkIsKept
<1>4. gateReceipt.status = "none" /\ gateReceipt.run = 0 /\ gateRuns = 0 /\ gate = NoGateRun
  BY DEF ExactInit
<1>. QED BY <1>1, <1>2, <1>3, <1>4 DEF ExactInv, RepairHarmless, EvidenceRead, BytesRepaired, TestedAsCommitted, ManifestRead, JudgedSteps

\* Whatever ends a run without a report, or with a failed one, leaves nothing to be vouched for.
RunOver(run) == gate' = NoGateRun /\ (gateReceipt' = [status |-> "failed", run |-> run] \/ UNCHANGED gateReceipt)

LEMMA RunOverKeeps ==
    ASSUME ExactInv, gate # NoGateRun, RunOver(gateRuns), UNCHANGED gateRuns, ExactTypeOK', WorkIsKept',
           unsaved' \subseteq TrackedPaths
    PROVE  ExactInv'
<1>1. gate'.at = "idle" /\ GateShaped' /\ gate' = NoGateRun /\ gate'.seen = {} /\ gate'.held = {}
  BY DEF RunOver, NoGateRun, GateShaped
<1>2. gateReceipt.run < gateRuns /\ gateRuns \in Nat /\ gateReceipt.run \in Nat
  BY ExactAssumption DEF ExactInv, ExactTypeOK, ExactAssumption
<1>3. /\ gateReceipt'.run <= gateRuns'
      /\ gateReceipt'.status = "passed" => gateReceipt'.run # gateRuns'
  BY <1>2 DEF RunOver
<1>. QED BY <1>1, <1>3 DEF ExactInv, RepairHarmless, EvidenceRead, BytesRepaired, TestedAsCommitted, ManifestRead, JudgedSteps

LEMMA FailsKeeps ==
    ASSUME ExactInv, gate # NoGateRun, Fails, gate.at = "renormalized" => StagedDiff(gate.normalized) = {}
    PROVE  ExactInv'
<1>1. RunOver(gateRuns) /\ UNCHANGED gateRuns /\ gate'.at = "idle" /\ gate'.normalized = {} /\ gate'.seen = {} /\ gate'.held = {}
  BY DEF RunOver, Fails, Ends, Keeps, NoGateRun
<1>2. ExactTypeOK'
  BY <1>1 DEF ExactInv, ExactTypeOK, Fails, Ends, Keeps, treeVars, peopleVars
<1>3. WorkIsKept'
  <2>1. UNCHANGED <<checkout, staged, unsaved, stagedOutside>>
    BY DEF Fails, Keeps, treeVars, peopleVars
  <2>. QED BY <1>1, <2>1 DEF ExactInv, WorkIsKept, StagedDiff
<1>. QED BY <1>1, <1>2, <1>3, RunOverKeeps DEF ExactInv, Fails, Keeps, peopleVars

\* A clean status: every file has HEAD's text, in the tree and in the index.
LEMMA CleanIsCommitted ==
    ASSUME ExactInv, TrackedStatus = {}
    PROVE  /\ manifestRows = headCommit.rows
           /\ \A p \in TrackedPaths : checkout[p].text = "head" /\ staged[p] = "head"
<1>1. UnstagedDiff(TrackedPaths) = {} /\ StagedDiff(TrackedPaths) = {}
  BY DEF TrackedStatus
<1>2. manifestRows = headCommit.rows
  BY DEF TrackedStatus
<1>. QED BY <1>1, <1>2 DEF UnstagedDiff, StagedDiff

PlainSteps ==
    {"patchers", "diagnosis", "evidence", "tasks", "r3", "r4", "generators", "drift", "recheck",
     "bytes", "sdk", "after", "report"}

LEMMA GoesToKeeps ==
    ASSUME ExactInv, gate.at \notin {"idle", "bytes", "write"}, NEW to \in PlainSteps, GoesTo(to),
           gate.at = "renormalized" => StagedDiff(gate.normalized) = {},
           \/ to \notin JudgedSteps \/ gate.at \in JudgedSteps
           \/ checkout[EvidencePath].text = "head" => EvidenceJudged(headCommit.evidence),
           to = "sdk" => gate.at = "clean" /\ TrackedStatus = {},
           to = "report" => gate.at = "final" /\ TrackedStatus = {}
    PROVE  ExactInv'
<1>1. /\ gate'.at = to /\ gate'.normalized = gate.normalized /\ gate'.seen = gate.seen /\ gate'.held = gate.held /\ GateShaped'
      /\ to \notin {"idle", "renormalize", "renormalized", "write", "before", "clean", "final"}
  BY DEF GoesTo, ExactInv, GateShaped, PlainSteps
<1>2. /\ UNCHANGED <<headCommit, checkout, staged, restat, otherFiles, manifestRows, gateReceipt, gateRuns, lately>>
      /\ UNCHANGED <<treeWrites, dirtied, unsaved, stagedOutside>>
  BY DEF GoesTo, Keeps, treeVars, peopleVars
<1>3. ExactTypeOK'
  BY <1>1, <1>2 DEF ExactInv, ExactTypeOK, PlainSteps
<1>4. WorkIsKept'
  BY <1>1, <1>2 DEF ExactInv, WorkIsKept, StagedDiff
<1>5. RepairHarmless' /\ EvidenceRead' /\ ManifestRead'
  BY <1>1, <1>2 DEF ExactInv, RepairHarmless, EvidenceRead, ManifestRead, EvidenceJudged, Unfinished
<1>6. BytesRepaired'
  BY <1>1, <1>2, CleanIsCommitted, ExactAssumption DEF ExactInv, RepairHarmless, BytesRepaired, TestedAsCommitted, ExactAssumption
<1>7. to = "report" => Vouched'
  <2>. SUFFICES ASSUME to = "report" PROVE Vouched'
    OBVIOUS
  <2>1. EvidenceJudged(headCommit.evidence) \/ EvidencePath \in dirtied
    BY CleanIsCommitted, ExactAssumption DEF ExactInv, EvidenceRead, JudgedSteps, ExactAssumption
  <2>2. Vouched
    BY <2>1, CleanIsCommitted DEF Vouched, ExactInv, ManifestRead
  <2>. QED BY <1>2, <2>2 DEF Vouched, EvidenceJudged, Unfinished
<1>. QED BY <1>1, <1>2, <1>3, <1>4, <1>5, <1>6, <1>7 DEF ExactInv, NoGateRun

LEMMA PlainGateSteps ==
    ASSUME ExactInv,
           \/ Diagnose \/ JudgeEvidence \/ ReportPassed \/ CheckClean("clean", "sdk") \/ CheckClean("final", "report")
           \/ RunCommands("contracts", "patchers") \/ RunCommands("tasks", "r3") \/ AuditR4
           \/ RunCommands("generators", "drift") \/ RunCommands("recheck", "bytes") \/ RunCommands("sdk", "after")
    PROVE  ExactInv'
<1>. USE DEF PlainSteps, JudgedSteps
<1>1. CASE ReportPassed
  <2>1. Vouched /\ gate # NoGateRun
    BY <1>1 DEF ReportPassed, ExactInv, NoGateRun
  <2>2. UNCHANGED <<headCommit, checkout, staged, restat, otherFiles, manifestRows, gateRuns, lately, treeWrites, dirtied, unsaved, stagedOutside>>
    BY <1>1 DEF ReportPassed, Keeps, treeVars, peopleVars
  <2>3. gate' = NoGateRun /\ gateReceipt' = [status |-> "passed", run |-> gateRuns]
    BY <1>1 DEF ReportPassed, Ends
  <2>4. Vouched'
    BY <2>1, <2>2 DEF Vouched, EvidenceJudged, Unfinished
  <2>5. ExactTypeOK'
    BY <2>2, <2>3, ExactAssumption DEF ExactInv, ExactTypeOK, NoGateRun, ExactAssumption
  <2>6. WorkIsKept'
    BY <1>1, <2>2, <2>3 DEF ExactInv, WorkIsKept, ReportPassed, NoGateRun
  <2>7. GateShaped' /\ gate'.at = "idle" /\ gate'.seen = {} /\ gate'.held = {}
    BY <2>3 DEF GateShaped, NoGateRun
  <2>8. gateReceipt'.run = gateRuns /\ gateRuns \in Nat
    BY <2>3, ExactAssumption DEF ExactInv, ExactTypeOK, ExactAssumption
  <2>9. RepairHarmless' /\ EvidenceRead' /\ BytesRepaired' /\ ManifestRead'
    BY <2>7 DEF RepairHarmless, EvidenceRead, BytesRepaired, TestedAsCommitted, ManifestRead
  <2>. QED BY <2>2, <2>3, <2>4, <2>5, <2>6, <2>7, <2>8, <2>9 DEF ExactInv
<1>2. CASE Diagnose
  <2>1. gate.at = "diagnosis" /\ (GoesTo("evidence") \/ Fails)
    BY <1>2 DEF Diagnose
  <2>. QED BY <2>1, GoesToKeeps, FailsKeeps DEF NoGateRun
<1>3. CASE JudgeEvidence
  <2>1. PICK e \in {c.evidence : c \in Heads} :
           /\ checkout[EvidencePath].text = "head" => e = headCommit.evidence
           /\ IF EvidenceJudged(e) THEN GoesTo("tasks") ELSE Fails
    BY <1>3 DEF JudgeEvidence
  <2>2. gate.at = "evidence"
    BY <1>3 DEF JudgeEvidence
  <2>3. CASE EvidenceJudged(e)
    <3>1. GoesTo("tasks")
      BY <2>1, <2>3
    <3>2. checkout[EvidencePath].text = "head" => EvidenceJudged(headCommit.evidence)
      BY <2>1, <2>3
    <3>. QED BY <2>2, <3>1, <3>2, GoesToKeeps
  <2>4. CASE ~EvidenceJudged(e)
    BY <2>1, <2>2, <2>4, FailsKeeps DEF NoGateRun
  <2>. QED BY <2>3, <2>4
<1>4. ASSUME NEW at, NEW next, RunCommands(at, next),
             <<at, next>> \in {<<"contracts", "patchers">>, <<"tasks", "r3">>, <<"generators", "drift">>,
                               <<"recheck", "bytes">>, <<"sdk", "after">>}
      PROVE  ExactInv'
  <2>1. gate.at = at /\ (Fails \/ GoesTo(next))
    BY <1>4 DEF RunCommands
  <2>. QED BY <1>4, <2>1, GoesToKeeps, FailsKeeps DEF NoGateRun
<1>5. CASE CheckClean("clean", "sdk")
  BY <1>5, GoesToKeeps, FailsKeeps DEF CheckClean, NoGateRun
<1>6. CASE CheckClean("final", "report")
  BY <1>6, GoesToKeeps, FailsKeeps DEF CheckClean, NoGateRun
<1>7. CASE AuditR4
  BY <1>7, GoesToKeeps, FailsKeeps DEF AuditR4, NoGateRun
<1>. QED BY <1>1, <1>2, <1>3, <1>4, <1>5, <1>6, <1>7

LEMMA RunPatchersKeeps ==
    ASSUME ExactInv, RunPatchers("patchers", "diagnosis") \/ RunPatchers("r3", "r4")
    PROVE  ExactInv'
<1>1. PICK at \in {"patchers", "r3"}, next \in {"diagnosis", "r4"} : 
          RunPatchers(at, next) /\ (at = "patchers" => next = "diagnosis")
  OBVIOUS
<1>2. gate.at = at
  BY <1>1 DEF RunPatchers
<1>3. CASE Fails \/ GoesTo(next)
  BY <1>1, <1>2, <1>3, GoesToKeeps, FailsKeeps DEF NoGateRun, PlainSteps, JudgedSteps
<1>4. ASSUME Ends("failed") \/ Dies, NEW p \in Present,
             checkout' = [checkout EXCEPT ![p] = File("other", "lf")],
             unsaved' = unsaved \ {p} /\ lately' = lately \cup {p} /\ dirtied' = dirtied \cup {p},
             UNCHANGED <<headCommit, staged, restat, otherFiles, manifestRows, gateRuns, treeWrites, stagedOutside>>
      PROVE  ExactInv'
  <2>1. RunOver(gateRuns) /\ gate # NoGateRun /\ gate'.at = "idle" /\ gate'.normalized = {} /\ gate'.seen = {} /\ gate'.held = {}
    BY <1>1, <1>2, <1>4 DEF RunOver, Ends, Dies, NoGateRun
  <2>2. p \in TrackedPaths
    BY DEF Present
  <2>3. ExactTypeOK'
    BY <1>4, <2>1, <2>2 DEF ExactInv, ExactTypeOK, File, Ends, Dies
  <2>4. WorkIsKept' /\ unsaved' \subseteq TrackedPaths
    BY <1>1, <1>2, <1>4, <2>1, <2>2 DEF ExactInv, ExactTypeOK, WorkIsKept
  <2>. QED BY <1>4, <2>1, <2>3, <2>4, RunOverKeeps
<1>. QED BY <1>1, <1>3, <1>4 DEF RunPatchers

LEMMA StartGateKeeps == ASSUME ExactInv, StartGate PROVE ExactInv'
<1>1. /\ gate' = [NoGateRun EXCEPT !.at = "contracts"] /\ gateRuns' = gateRuns + 1 /\ gateRuns < MaxGateRuns
      /\ gate = NoGateRun /\ dirtied' = {}
      /\ UNCHANGED <<headCommit, checkout, staged, restat, otherFiles, manifestRows, gateReceipt, lately, treeWrites, unsaved, stagedOutside>>
  BY DEF StartGate, treeVars
<1>2. gate'.at = "contracts" /\ gate'.normalized = {} /\ gate'.seen = {} /\ gate'.held = {} /\ GateShaped'
  BY <1>1 DEF NoGateRun, GateShaped
<1>3. ExactTypeOK'
  BY <1>1, <1>2, ExactAssumption DEF ExactInv, ExactTypeOK, ExactAssumption
<1>4. gateReceipt.run \in Nat /\ gateRuns \in Nat
  BY ExactAssumption DEF ExactInv, ExactTypeOK, ExactAssumption
<1>5. WorkIsKept'
  BY <1>1 DEF ExactInv, WorkIsKept, NoGateRun
<1>. QED BY <1>1, <1>2, <1>3, <1>4, <1>5
        DEF ExactInv, RepairHarmless, EvidenceRead, BytesRepaired, TestedAsCommitted, ManifestRead, JudgedSteps, NoGateRun

LEMMA RenormalizationKeeps ==
    ASSUME ExactInv, InspectDrift \/ Renormalize \/ Renormalized
    PROVE  ExactInv'
<1>. USE DEF PlainSteps, JudgedSteps
<1>1. CASE InspectDrift
  <2>1. CASE TrackedStatus = {}
    BY <1>1, <2>1, GoesToKeeps DEF InspectDrift
  <2>2. CASE TrackedStatus # {} /\ Fails
    BY <1>1, <2>2, FailsKeeps DEF InspectDrift, NoGateRun
  <2>3. CASE TrackedStatus # {} /\ ~Fails
    <3>1. /\ TrackedStatus \subseteq GeneratedContracts
          /\ gate' = [gate EXCEPT !.at = "renormalize", !.normalized = TrackedStatus]
          /\ UNCHANGED gateReceipt /\ Keeps /\ gate.at = "drift"
      BY <1>1, <2>3 DEF InspectDrift
    <3>2. gate'.at = "renormalize" /\ gate'.normalized = TrackedStatus /\ GateShaped'
      BY <3>1 DEF ExactInv, GateShaped
    <3>3. /\ UNCHANGED <<headCommit, checkout, staged, restat, otherFiles, manifestRows, gateReceipt, gateRuns, lately>>
          /\ UNCHANGED <<treeWrites, dirtied, unsaved, stagedOutside>>
      BY <3>1 DEF Keeps, treeVars, peopleVars
    <3>4. ExactTypeOK' /\ WorkIsKept'
      BY <3>1, <3>2, <3>3 DEF ExactInv, ExactTypeOK, WorkIsKept
    <3>5. RepairHarmless' /\ EvidenceRead' /\ BytesRepaired' /\ ManifestRead'
      BY <3>1, <3>2, <3>3 DEF ExactInv, RepairHarmless, EvidenceRead, BytesRepaired, TestedAsCommitted, ManifestRead,
                              EvidenceJudged, Unfinished
    <3>6. gate # NoGateRun /\ gate' # NoGateRun
      <4>1. gate.at = "drift"
        BY <3>1
      <4>. QED BY <4>1, <3>2 DEF NoGateRun
    <3>. QED BY <3>3, <3>4, <3>5, <3>6, <3>2 DEF ExactInv
  <2>. QED BY <2>1, <2>2, <2>3
<1>2. CASE Renormalize
  <2>1. CASE Fails
    BY <1>2, <2>1, FailsKeeps DEF Renormalize, NoGateRun
  <2>2. CASE ~Fails
    <3>. DEFINE text == [p \in TrackedPaths |-> checkout[p].text]
    <3>1. /\ gate.at = "renormalize" /\ gate' = [gate EXCEPT !.at = "renormalized"]
          /\ staged' = Restaged(gate.normalized, text) /\ restat' = restat \ gate.normalized
          /\ UNCHANGED <<headCommit, checkout, otherFiles, manifestRows, gateReceipt, gateRuns, lately>>
          /\ UNCHANGED <<treeWrites, dirtied, unsaved, stagedOutside>>
      BY <1>2, <2>2 DEF Renormalize, peopleVars
    <3>2. gate'.at = "renormalized" /\ gate'.normalized = gate.normalized /\ gate'.seen = gate.seen /\ gate'.held = gate.held /\ GateShaped'
      BY <3>1 DEF ExactInv, GateShaped
    <3>3. \A p \in TrackedPaths : text[p] \in {"head", "other", "mine", "absent"}
      BY DEF ExactInv, ExactTypeOK
    <3>4. ExactTypeOK' /\ WorkIsKept'
      <4>. HIDE DEF text
      <4>. QED BY <3>1, <3>2, <3>3 DEF ExactInv, ExactTypeOK, WorkIsKept, Restaged
    <3>5. RepairHarmless' /\ EvidenceRead' /\ BytesRepaired' /\ ManifestRead'
      BY <3>1, <3>2 DEF ExactInv, RepairHarmless, EvidenceRead, BytesRepaired, TestedAsCommitted, ManifestRead,
                              EvidenceJudged, Unfinished
    <3>. QED BY <3>1, <3>2, <3>4, <3>5 DEF ExactInv, NoGateRun
  <2>. QED BY <2>1, <2>2
<1>3. CASE Renormalized
  <2>1. CASE StagedDiff(gate.normalized) = {}
    BY <1>3, <2>1, GoesToKeeps, FailsKeeps DEF Renormalized, NoGateRun
  <2>2. CASE StagedDiff(gate.normalized) # {}
    <3>1. /\ gate.at = "renormalized" /\ Ends("failed")
          /\ staged' = [p \in TrackedPaths |-> IF p \in gate.normalized THEN "head" ELSE staged[p]]
          /\ UNCHANGED <<headCommit, checkout, restat, otherFiles, manifestRows, gateRuns, lately>>
          /\ UNCHANGED <<treeWrites, dirtied, unsaved, stagedOutside>>
      BY <1>3, <2>2 DEF Renormalized, Restaged, peopleVars, ExactInv, ExactTypeOK, ExactAssumption
    <3>2. RunOver(gateRuns) /\ gate # NoGateRun /\ gate'.at = "idle" /\ gate'.normalized = {} /\ gate'.seen = {} /\ gate'.held = {}
      BY <3>1 DEF RunOver, Ends, NoGateRun
    <3>3. ExactTypeOK'
      BY <3>1, <3>2 DEF ExactInv, ExactTypeOK, Ends
    <3>4. WorkIsKept' /\ unsaved' \subseteq TrackedPaths
      BY <3>1, <3>2 DEF ExactInv, WorkIsKept
    <3>. QED BY <3>1, <3>2, <3>3, <3>4, RunOverKeeps
  <2>. QED BY <2>1, <2>2
<1>. QED BY <1>1, <1>2, <1>3

LEMMA GateDiesKeeps == ASSUME ExactInv, GateDies PROVE ExactInv'
<1>1. /\ RunOver(gateRuns) /\ gate # NoGateRun /\ gate'.at = "idle" /\ gate'.normalized = {} /\ gate'.seen = {} /\ gate'.held = {}
      /\ UNCHANGED <<headCommit, checkout, staged, restat, otherFiles, manifestRows, gateReceipt, gateRuns, lately, treeWrites, dirtied, unsaved>>
  BY DEF GateDies, Dies, RunOver, treeVars, NoGateRun
<1>2. ExactTypeOK'
  BY <1>1 DEF ExactInv, ExactTypeOK
<1>3. WorkIsKept'
  BY <1>1 DEF GateDies, ExactInv, WorkIsKept, StagedDiff
<1>. QED BY <1>1, <1>2, <1>3, RunOverKeeps DEF ExactInv

LEMMA RepairKeeps ==
    ASSUME ExactInv, (\E p \in DartSources : CompareSource(p)) \/ RepairSource \/ SourcesCompared
    PROVE  ExactInv'
<1>. USE DEF JudgedSteps
<1>1. ASSUME NEW p \in DartSources, CompareSource(p) PROVE ExactInv'
  <2>1. /\ gate.at = "bytes" /\ p \in TrackedPaths
        /\ UNCHANGED <<headCommit, checkout, staged, restat, otherFiles, manifestRows, gateReceipt, gateRuns>>
        /\ UNCHANGED <<treeWrites, dirtied, unsaved, stagedOutside>>
    BY <1>1, ExactAssumption DEF CompareSource, treeVars, peopleVars, ExactAssumption
  <2>2. CASE Normalizable(p)
    <3>1. gate' = [gate EXCEPT !.at = "write", !.held = {p}] /\ lately' = lately
      BY <1>1, <2>2 DEF CompareSource
    <3>2. /\ gate'.at = "write" /\ gate'.held = {p} /\ gate'.seen = gate.seen /\ gate'.normalized = gate.normalized
          /\ gate'.differing = gate.differing /\ GateShaped'
      BY <3>1 DEF ExactInv, GateShaped
    <3>3. ExactTypeOK' /\ WorkIsKept'
      BY <2>1, <3>1, <3>2 DEF ExactInv, ExactTypeOK, WorkIsKept
    <3>4. RepairHarmless'
      BY <2>1, <2>2, <3>2 DEF ExactInv, RepairHarmless, WorkIsKept, Normalizable
    <3>5. EvidenceRead' /\ BytesRepaired' /\ ManifestRead'
      BY <2>1, <3>1, <3>2 DEF ExactInv, EvidenceRead, BytesRepaired, TestedAsCommitted, ManifestRead,
                              EvidenceJudged, Unfinished
    <3>6. gate # NoGateRun /\ gate' # NoGateRun
      BY <2>1, <3>2 DEF NoGateRun
    <3>. QED BY <2>1, <3>1, <3>2, <3>3, <3>4, <3>5, <3>6 DEF ExactInv
  <2>3. CASE ~Normalizable(p)
    <3>. DEFINE left == IF p \in Present /\ checkout[p].text # "head" THEN gate.differing \cup {p} ELSE gate.differing
    <3>1. gate' = [gate EXCEPT !.seen = @ \cup {p}, !.differing = left] /\ lately' = lately \ {p}
      BY <1>1, <2>3 DEF CompareSource
    <3>2. /\ gate'.at = "bytes" /\ gate'.held = gate.held /\ gate'.seen = gate.seen \cup {p}
          /\ gate'.normalized = gate.normalized /\ gate'.differing = left /\ GateShaped'
      <4>. HIDE DEF left
      <4>. QED BY <2>1, <3>1 DEF ExactInv, GateShaped
    <3>3. ExactTypeOK' /\ WorkIsKept'
      <4>. HIDE DEF left
      <4>. QED BY <2>1, <3>1, <3>2 DEF ExactInv, ExactTypeOK, WorkIsKept
    <3>4. RepairHarmless' /\ EvidenceRead' /\ ManifestRead'
      <4>. HIDE DEF left
      <4>. QED BY <2>1, <3>2 DEF ExactInv, RepairHarmless, EvidenceRead, ManifestRead, EvidenceJudged, Unfinished
    <3>5. p \notin left /\ checkout[p].text # "absent" => checkout[p] = File("head", "lf")
      <4>1. checkout[p] \in [text : {"head", "other", "mine", "absent"}, eol : {"lf", "crlf"}]
        BY <2>1 DEF ExactInv, ExactTypeOK
      <4>2. ASSUME p \notin left, checkout[p].text # "absent" PROVE checkout[p].text = "head" /\ checkout[p].eol = "lf"
        BY <2>1, <2>3, <4>1, <4>2 DEF Normalizable, Present
      <4>. QED BY <4>1, <4>2 DEF File
    <3>6. gate.differing \subseteq left
      OBVIOUS
    <3>7. BytesRepaired'
      <4>. HIDE DEF left
      <4>. QED BY <2>1, <3>1, <3>2, <3>5, <3>6 DEF ExactInv, BytesRepaired, TestedAsCommitted
    <3>8. gate # NoGateRun /\ gate' # NoGateRun
      <4>. HIDE DEF left
      <4>. QED BY <2>1, <3>2 DEF NoGateRun
    <3>. HIDE DEF left
    <3>. QED BY <2>1, <3>1, <3>2, <3>3, <3>4, <3>7, <3>8 DEF ExactInv
  <2>. QED BY <2>2, <2>3
<1>2. CASE RepairSource
  <2>1. /\ gate.at = "write" /\ restat' = restat \ gate.held /\ lately' = lately \ gate.held
        /\ checkout' = [p \in TrackedPaths |-> IF p \in gate.held THEN File("head", "lf") ELSE checkout[p]]
        /\ gate' = [gate EXCEPT !.at = "bytes", !.seen = @ \cup gate.held, !.held = {},
                                !.written = @ \cup gate.held]
        /\ UNCHANGED <<headCommit, staged, otherFiles, manifestRows, gateReceipt, gateRuns>>
        /\ UNCHANGED <<treeWrites, dirtied, unsaved, stagedOutside>>
    BY <1>2 DEF RepairSource, peopleVars
  <2>2. /\ gate'.at = "bytes" /\ gate'.held = {} /\ gate'.seen = gate.seen \cup gate.held
        /\ gate'.normalized = gate.normalized /\ gate'.differing = gate.differing /\ GateShaped'
    BY <2>1 DEF ExactInv, GateShaped
  <2>3. gate.held \subseteq TrackedPaths /\ EvidencePath \in TrackedPaths \ gate.held /\ gate.seen \subseteq TrackedPaths
    BY ExactAssumption DEF ExactInv, ExactTypeOK, ExactAssumption
  <2>4. /\ \A p \in gate.held : checkout'[p] = File("head", "lf")
        /\ \A p \in TrackedPaths \ gate.held : checkout'[p] = checkout[p]
    BY <2>1, <2>3
  <2>5. ExactTypeOK'
    BY <2>1, <2>2, <2>3 DEF ExactInv, ExactTypeOK, File
  <2>6. WorkIsKept' /\ RepairHarmless'
    BY <2>1, <2>2, <2>4 DEF ExactInv, WorkIsKept, RepairHarmless
  <2>7. EvidenceRead' /\ ManifestRead'
    BY <2>1, <2>2, <2>3, <2>4 DEF ExactInv, EvidenceRead, ManifestRead, EvidenceJudged, Unfinished
  <2>8. BytesRepaired'
    BY <2>1, <2>2, <2>3, <2>4 DEF ExactInv, BytesRepaired, TestedAsCommitted
  <2>9. gate # NoGateRun /\ gate' # NoGateRun
    <3>1. gate.at = "write" /\ gate'.at = "bytes"
      BY <2>1, <2>2
    <3>. QED BY <3>1 DEF NoGateRun
  <2>. QED BY <2>1, <2>2, <2>5, <2>6, <2>7, <2>8, <2>9 DEF ExactInv
<1>3. CASE SourcesCompared
  <2>1. gate.at = "bytes" /\ gate.seen = DartSources
    BY <1>3 DEF SourcesCompared
  <2>2. CASE Fails
    BY <2>1, <2>2, FailsKeeps DEF NoGateRun
  <2>3. CASE ~Fails
    <3>1. /\ gate.differing = {} /\ gate' = [gate EXCEPT !.at = "before", !.seen = {}, !.written = {}]
          /\ UNCHANGED <<headCommit, checkout, staged, restat, otherFiles, manifestRows, gateReceipt, gateRuns, lately>>
          /\ UNCHANGED <<treeWrites, dirtied, unsaved, stagedOutside>>
      BY <1>3, <2>3 DEF SourcesCompared, Keeps, treeVars, peopleVars
    <3>2. /\ gate'.at = "before" /\ gate'.seen = {} /\ gate'.held = gate.held
          /\ gate'.normalized = gate.normalized /\ GateShaped'
      BY <3>1 DEF ExactInv, GateShaped
    <3>3. ExactTypeOK' /\ WorkIsKept'
      <4>1. /\ UNCHANGED <<checkout, staged, restat, otherFiles, gateReceipt, gateRuns>>
            /\ UNCHANGED <<treeWrites, unsaved, stagedOutside>>
        BY <3>1
      <4>. QED BY <2>1, <4>1, <3>2 DEF ExactInv, ExactTypeOK, WorkIsKept
    <3>4. RepairHarmless' /\ EvidenceRead' /\ BytesRepaired' /\ ManifestRead'
      BY <2>1, <3>1, <3>2 DEF ExactInv, RepairHarmless, EvidenceRead, BytesRepaired, TestedAsCommitted, ManifestRead,
                              EvidenceJudged, Unfinished
    <3>5. gate # NoGateRun /\ gate' # NoGateRun
      BY <2>1, <3>2 DEF NoGateRun
    <3>. QED BY <3>1, <3>2, <3>3, <3>4, <3>5 DEF ExactInv
  <2>. QED BY <2>2, <2>3
<1>. QED BY <1>1, <1>2, <1>3

LEMMA ReadBeforeKeeps == ASSUME ExactInv, ReadBefore PROVE ExactInv'
<1>1. CASE ~ManifestExact
  BY <1>1, FailsKeeps DEF ReadBefore, NoGateRun
<1>2. CASE ManifestExact
  <2>1. /\ gate.at = "before" /\ gate' = [gate EXCEPT !.at = "clean", !.before = manifestRows]
        /\ UNCHANGED <<headCommit, checkout, staged, restat, otherFiles, manifestRows, gateReceipt, gateRuns, lately>>
        /\ UNCHANGED <<treeWrites, dirtied, unsaved, stagedOutside>>
    BY <1>2 DEF ReadBefore, Keeps, treeVars, peopleVars
  <2>2. gate'.at = "clean" /\ gate'.normalized = gate.normalized /\ gate'.seen = gate.seen /\ gate'.held = gate.held /\ GateShaped'
    BY <2>1 DEF ExactInv, GateShaped
  <2>3. ExactTypeOK' /\ WorkIsKept'
    BY <2>1, <2>2 DEF ExactInv, ExactTypeOK, WorkIsKept
  <2>4. RepairHarmless' /\ EvidenceRead' /\ BytesRepaired' /\ ManifestRead'
    BY <2>1, <2>2 DEF ExactInv, RepairHarmless, EvidenceRead, BytesRepaired, TestedAsCommitted, ManifestRead,
                      EvidenceJudged, Unfinished, JudgedSteps
  <2>5. gate # NoGateRun /\ gate' # NoGateRun
    <3>1. gate.at = "before"
      BY <2>1
    <3>. QED BY <3>1, <2>2 DEF NoGateRun
  <2>. QED BY <2>1, <2>2, <2>3, <2>4, <2>5 DEF ExactInv
<1>. QED BY <1>1, <1>2

LEMMA ReadAfterKeeps == ASSUME ExactInv, ReadAfter PROVE ExactInv'
<1>1. CASE ~StillExact
  BY <1>1, FailsKeeps DEF ReadAfter, NoGateRun
<1>2. CASE StillExact
  <2>1. /\ gate.at = "after" /\ gate' = [gate EXCEPT !.at = "final"] /\ lately' = {}
        /\ UNCHANGED <<headCommit, checkout, staged, restat, otherFiles, manifestRows, gateReceipt, gateRuns>>
        /\ UNCHANGED <<treeWrites, dirtied, unsaved, stagedOutside>>
    BY <1>2 DEF ReadAfter, treeVars, peopleVars
  <2>2. gate'.at = "final" /\ gate'.normalized = gate.normalized /\ gate'.seen = gate.seen /\ gate'.held = gate.held /\ GateShaped'
    BY <2>1 DEF ExactInv, GateShaped
  <2>3. ExactTypeOK' /\ WorkIsKept'
    BY <2>1, <2>2 DEF ExactInv, ExactTypeOK, WorkIsKept
  <2>4. RepairHarmless' /\ EvidenceRead' /\ BytesRepaired'
    BY <2>1, <2>2 DEF ExactInv, RepairHarmless, EvidenceRead, BytesRepaired, TestedAsCommitted,
                      EvidenceJudged, Unfinished, JudgedSteps
  <2>5. ManifestRead'
    BY <1>2, <2>1, ExactAssumption DEF ManifestRead, StillExact, ManifestExact, SourcePaths, SourceText, Present, ExactAssumption
  <2>6. gate # NoGateRun /\ gate' # NoGateRun
    BY <2>1, <2>2 DEF NoGateRun
  <2>. QED BY <2>1, <2>2, <2>3, <2>4, <2>5, <2>6 DEF ExactInv
<1>. QED BY <1>1, <1>2

\* A write that changes nothing but its own path, and says so.
LEMMA TouchKeeps ==
    ASSUME ExactInv, NEW p, Touches(p), ExactTypeOK', WorkIsKept', RepairHarmless', ManifestRead', unsaved' \subseteq TrackedPaths,
           \A q \in TrackedPaths \ {p} : checkout'[q] = checkout[q] /\ staged'[q] = staged[q],
           otherFiles' \subseteq otherFiles \cup {p}, p = ManifestPath \/ manifestRows' = manifestRows
    PROVE  ExactInv'
<1>1. /\ UNCHANGED <<headCommit, gate, gateReceipt, gateRuns>>
      /\ dirtied' = dirtied \cup {p} /\ lately' = lately \cup {p}
  BY DEF Touches
<1>2. EvidenceRead'
  BY <1>1, ExactAssumption DEF ExactInv, EvidenceRead, EvidenceJudged, Unfinished, ExactAssumption
<1>3. BytesRepaired'
  BY <1>1, ExactAssumption DEF ExactInv, ExactTypeOK, BytesRepaired, TestedAsCommitted, ExactAssumption
<1>4. Vouched => Vouched'
  BY <1>1 DEF Vouched, EvidenceJudged, Unfinished
<1>. QED BY <1>1, <1>2, <1>3, <1>4 DEF ExactInv, GateShaped

LEMMA TreeWrittenKeeps == ASSUME ExactInv, TreeWritten PROVE ExactInv'
<1>1. ASSUME NEW p \in TrackedPaths, NEW file, CommandWrites(p, file),
             file \in {File("head", "lf"), File("head", "crlf"), File("other", "lf"), File("absent", "lf")}
      PROVE  ExactInv'
  <2>1. /\ Touches(p) /\ gate.at # "final" /\ checkout' = [checkout EXCEPT ![p] = file]
        /\ unsaved' = unsaved \ {p} /\ UNCHANGED <<staged, otherFiles, manifestRows, stagedOutside>>
        /\ restat' = restat \ {p} \/ (p \in GeneratedContracts /\ restat' = restat \cup {p})
        /\ treeWrites < MaxTreeWrites /\ treeWrites' = treeWrites + 1
        /\ UNCHANGED <<gate, gateReceipt, gateRuns>>
    BY <1>1 DEF CommandWrites, Touches
  <2>2. ExactTypeOK'
    BY <1>1, <2>1, ExactAssumption DEF ExactInv, ExactTypeOK, ExactAssumption, File
  <2>3. WorkIsKept' /\ RepairHarmless' /\ unsaved' \subseteq TrackedPaths /\ ManifestRead'
    BY <1>1, <2>1 DEF ExactInv, ExactTypeOK, WorkIsKept, RepairHarmless, ManifestRead
  <2>4. \A q \in TrackedPaths \ {p} : checkout'[q] = checkout[q] /\ staged'[q] = staged[q]
    BY <1>1, <2>1 DEF ExactInv, ExactTypeOK
  <2>. QED BY <2>1, <2>2, <2>3, <2>4, TouchKeeps
<1>2. ASSUME NEW p \in TrackedPaths, NEW eol \in {"lf", "crlf"}, SomebodySaves(p, eol) PROVE ExactInv'
  <2>1. /\ Touches(p) /\ checkout' = [checkout EXCEPT ![p] = File("mine", eol)] /\ restat' = restat \ {p}
        /\ unsaved' = unsaved \cup ({p} \ gate.held) /\ UNCHANGED <<staged, otherFiles, manifestRows, stagedOutside>>
        /\ treeWrites < MaxTreeWrites /\ treeWrites' = treeWrites + 1
        /\ UNCHANGED <<gate, gateReceipt, gateRuns>> /\ lately' = lately \cup {p}
    BY <1>2 DEF SomebodySaves, Touches
  <2>2. ExactTypeOK'
    BY <1>2, <2>1, ExactAssumption DEF ExactInv, ExactTypeOK, ExactAssumption, File
  <2>3. WorkIsKept' /\ RepairHarmless' /\ unsaved' \subseteq TrackedPaths /\ ManifestRead'
    BY <1>2, <2>1 DEF ExactInv, ExactTypeOK, WorkIsKept, RepairHarmless, ManifestRead, File
  <2>4. \A q \in TrackedPaths \ {p} : checkout'[q] = checkout[q] /\ staged'[q] = staged[q]
    BY <1>2, <2>1 DEF ExactInv, ExactTypeOK
  <2>. QED BY <2>1, <2>2, <2>3, <2>4, TouchKeeps
<1>3. ASSUME NEW p \in TrackedPaths, SomebodyStages(p) PROVE ExactInv'
  <2>1. /\ Touches(p) /\ staged' = [staged EXCEPT ![p] = checkout[p].text]
        /\ stagedOutside' = stagedOutside \cup {p} /\ UNCHANGED <<checkout, restat, otherFiles, manifestRows, unsaved>>
        /\ treeWrites < MaxTreeWrites /\ treeWrites' = treeWrites + 1
        /\ UNCHANGED <<gate, gateReceipt, gateRuns>> /\ lately' = lately \cup {p}
    BY <1>3 DEF SomebodyStages, Touches
  <2>2. ExactTypeOK'
    BY <1>3, <2>1, ExactAssumption DEF ExactInv, ExactTypeOK, ExactAssumption
  <2>3. WorkIsKept' /\ RepairHarmless' /\ unsaved' \subseteq TrackedPaths /\ ManifestRead'
    BY <1>3, <2>1 DEF ExactInv, ExactTypeOK, WorkIsKept, RepairHarmless, ManifestRead
  <2>4. \A q \in TrackedPaths \ {p} : checkout'[q] = checkout[q] /\ staged'[q] = staged[q]
    BY <1>3, <2>1 DEF ExactInv, ExactTypeOK
  <2>. QED BY <2>1, <2>2, <2>3, <2>4, TouchKeeps
<1>4. ASSUME NEW p \in OtherPaths, OtherAppears(p) PROVE ExactInv'
  <2>1. /\ Touches(p) /\ otherFiles' = otherFiles \cup {p}
        /\ UNCHANGED <<checkout, staged, restat, manifestRows, unsaved, stagedOutside>>
        /\ treeWrites < MaxTreeWrites /\ treeWrites' = treeWrites + 1
        /\ UNCHANGED <<gate, gateReceipt, gateRuns>> /\ lately' = lately \cup {p}
    BY <1>4 DEF OtherAppears, Touches
  <2>2. ExactTypeOK'
    BY <1>4, <2>1, ExactAssumption DEF ExactInv, ExactTypeOK, ExactAssumption
  <2>3. WorkIsKept' /\ RepairHarmless' /\ unsaved' \subseteq TrackedPaths /\ ManifestRead'
    BY <1>4, <2>1 DEF ExactInv, WorkIsKept, RepairHarmless, ManifestRead
  <2>. QED BY <2>1, <2>2, <2>3, TouchKeeps
<1>5. CASE ManifestRemade
  <2>1. /\ Touches(ManifestPath) /\ manifestRows' = [p \in SourcePaths |-> SourceText(p)]
        /\ UNCHANGED <<checkout, staged, restat, otherFiles, unsaved, stagedOutside>>
        /\ treeWrites < MaxTreeWrites /\ treeWrites' = treeWrites + 1
        /\ UNCHANGED <<gate, gateReceipt, gateRuns>>
    BY <1>5 DEF ManifestRemade, Touches
  <2>2. ExactTypeOK'
    BY <2>1, ExactAssumption DEF ExactInv, ExactTypeOK, ExactAssumption
  <2>3. WorkIsKept' /\ RepairHarmless' /\ unsaved' \subseteq TrackedPaths
    BY <2>1 DEF ExactInv, WorkIsKept, RepairHarmless
  <2>4. ManifestRead'
    <3>1. DOMAIN manifestRows' = SourcePaths /\ \A p \in SourcePaths : manifestRows'[p] = SourceText(p)
      BY <2>1
    <3>2. \A p \in TrackedPaths : checkout'[p].text = "head" => p \in SourcePaths /\ SourceText(p) = "head"
      BY <2>1 DEF SourcePaths, SourceText, Present
    <3>3. otherFiles' \subseteq SourcePaths
      BY <2>1 DEF SourcePaths
    <3>. QED BY <3>1, <3>2, <3>3 DEF ManifestRead
  <2>. QED BY <2>1, <2>2, <2>3, <2>4, TouchKeeps
<1>. QED BY <1>1, <1>2, <1>3, <1>4, <1>5 DEF TreeWritten

LEMMA ExactStep == ASSUME ExactInv, [ExactNext]_exactVars PROVE ExactInv'
<1>1. CASE GateSteps
  BY <1>1, StartGateKeeps, PlainGateSteps, RunPatchersKeeps, RenormalizationKeeps, RepairKeeps,
     ReadBeforeKeeps, ReadAfterKeeps, GateDiesKeeps DEF GateSteps
<1>2. CASE TreeWritten
  BY <1>2, TreeWrittenKeeps
<1>3. CASE UNCHANGED exactVars
  BY <1>3 DEF exactVars, treeVars, peopleVars, ExactInv, ExactTypeOK, GateShaped, WorkIsKept, RepairHarmless, EvidenceRead,
              BytesRepaired, TestedAsCommitted, ManifestRead, Vouched, EvidenceJudged, Unfinished
<1>. QED BY <1>1, <1>2, <1>3 DEF ExactNext

\* A commit that the gate lets through is pushed as it is committed: no run costs anybody's work,
\* the SDK's tools read HEAD's bytes, and the report of the last run vouches for HEAD
\* (v71r12_exact_source_gate.py).
THEOREM PushedIsAsCommitted == ExactSpec => []PushedAsCommitted
<1>1. ExactInv => PushedAsCommitted
  BY DEF ExactInv, PushedAsCommitted, BytesRepaired, PassedIsExact, Vouched
<1>. QED BY <1>1, ExactInit0, ExactStep, PTL DEF ExactSpec

(* What the exact-source gate keeps, of every commit, checkout and run.       *)
THEOREM ExactTypeCorrect == ExactSpec => []ExactTypeOK
<1>1. ExactInv => ExactTypeOK
  BY DEF ExactInv
<1>. QED BY <1>1, ExactInit0, ExactStep, PTL DEF ExactSpec

-----------------------------------------------------------------------------
(* PhaseEvidence.  finalize judges its arguments before it writes, and of the *)
(* three files of a task the packet is the last; prepare removes every packet *)
(* before it takes a manifest back.                                          *)

ReferencesBacked(references, commit) ==
    /\ {r.platform : r \in references} = EvidencePlatforms
    /\ \A r \in references :
          /\ r.commit = commit /\ ~r.synthetic
          /\ \A t \in TasksOfPhase : RequiredAssertions[t] \subseteq r.assertions[t]

Finalizing == evidenceCommand.at \in {"gates", "manifest", "note", "packet"}

CommandShaped ==
    /\ evidenceCommand.at \in {"idle", "packets", "describe", "described", "gates", "manifest", "note", "packet"}
    /\ evidenceCommand.at = "describe" =>
          evidenceCommand.task \in Nat \ {0}
          /\ evidenceCommand = [at |-> "describe", task |-> evidenceCommand.task]
    /\ evidenceCommand.at = "described" =>
          /\ evidenceCommand.task \in 1 .. Len(PhaseTasks)
          /\ evidenceCommand.status \in {"failed", "source_only"}
    /\ Finalizing =>
          /\ evidenceCommand.task \in Nat \ {0}
          /\ evidenceCommand = [at |-> evidenceCommand.at, request |-> evidenceCommand.request,
                                task |-> evidenceCommand.task]

ManifestsShaped ==
    manifests = [t \in TasksOfPhase |->
        [status |-> manifests[t].status, commit |-> manifests[t].commit,
         receipts |-> manifests[t].receipts, annotated |-> manifests[t].annotated]]

ManifestBacked(t) ==
    manifests[t].status = "passed" => ReferencesBacked(manifests[t].receipts, manifests[t].commit)

PacketsBehindManifests ==
    /\ packets = [t \in TasksOfPhase |-> packets[t]]
    /\ \A t \in TasksOfPhase : packets[t] # NoPacket => manifests[t].status = "passed"
    /\ evidenceCommand.at \in {"describe", "described"} => \A t \in TasksOfPhase : packets[t] = NoPacket
    /\ evidenceCommand.at \in {"note", "packet"} =>
          /\ evidenceCommand.task <= Len(PhaseTasks)
          /\ manifests[PhaseTasks[evidenceCommand.task]].status = "passed"

CompletionInv ==
    /\ CommandShaped /\ ManifestsShaped /\ PacketsBehindManifests
    /\ Finalizing => ReferencesBacked(evidenceCommand.request.references, evidenceCommand.request.commit)
    /\ \A t \in TasksOfPhase : ManifestBacked(t)

LEMMA CompletionInvBacks == CompletionInv => CompletionBacked
  BY DEF CompletionInv, CompletionBacked, ManifestBacked, ReferencesBacked, PacketsBehindManifests

(* What finalize keeps of receipts it accepts backs every task of the phase.  *)
LEMMA AcceptedReceiptsBack ==
    ASSUME NEW q, FinalizeError(q) = "none"
    PROVE  ReferencesBacked(References(q.receipts), q.commit)
<1>1. /\ \A i \in DOMAIN q.receipts : PlatformReceiptAccepted(q.receipts[i], q.commit)
      /\ ReceiptPlatforms(q.receipts) = EvidencePlatforms
  BY DEF FinalizeError
<1>2. {r.platform : r \in References(q.receipts)} = EvidencePlatforms
  <2>1. ASSUME NEW r \in References(q.receipts) PROVE r.platform \in ReceiptPlatforms(q.receipts)
    BY DEF References, ReceiptSet, ReceiptPlatforms
  <2>2. ASSUME NEW i \in DOMAIN q.receipts
        PROVE  \E r \in References(q.receipts) : r.platform = q.receipts[i].platform
    <3>. DEFINE kept(x) == [platform |-> x.platform, commit |-> x.commit, synthetic |-> x.synthetic,
                            assertions |-> [t \in TasksOfPhase |-> {y.id : y \in x.tasks[t].assertions}]]
    <3>1. kept(q.receipts[i]) \in References(q.receipts)
      BY DEF References, ReceiptSet
    <3>. QED BY <3>1
  <2>. QED BY <1>1, <2>1, <2>2 DEF ReceiptPlatforms
<1>3. ASSUME NEW i \in DOMAIN q.receipts, NEW t \in TasksOfPhase
      PROVE  /\ q.receipts[i].commit = q.commit /\ ~q.receipts[i].synthetic
             /\ {x.id : x \in q.receipts[i].tasks[t].assertions} = RequiredAssertions[t]
  <2>1. PlatformReceiptAccepted(q.receipts[i], q.commit)
    BY <1>1
  <2>2. t \in DOMAIN q.receipts[i].tasks
    BY <2>1 DEF PlatformReceiptAccepted, TasksOfPhase
  <2>3. TaskAccepted(q.receipts[i], t)
    BY <2>1, <2>2 DEF PlatformReceiptAccepted
  <2>4. q.receipts[i].commit = q.commit /\ ~q.receipts[i].synthetic
    BY <2>1 DEF PlatformReceiptAccepted
  <2>. QED BY <2>3, <2>4 DEF TaskAccepted
<1>4. ASSUME NEW r \in References(q.receipts)
      PROVE  /\ r.commit = q.commit /\ ~r.synthetic
             /\ \A t \in TasksOfPhase : RequiredAssertions[t] \subseteq r.assertions[t]
  <2>1. PICK i \in DOMAIN q.receipts :
           r = [platform |-> q.receipts[i].platform, commit |-> q.receipts[i].commit,
                synthetic |-> q.receipts[i].synthetic,
                assertions |-> [t \in TasksOfPhase |-> {x.id : x \in q.receipts[i].tasks[t].assertions}]]
    BY DEF References, ReceiptSet
  <2>2. q.receipts[i].commit = q.commit /\ ~q.receipts[i].synthetic
    BY <1>1 DEF PlatformReceiptAccepted
  <2>. QED BY <1>3, <2>1, <2>2
<1>. QED BY <1>2, <1>4 DEF ReferencesBacked

LEMMA TasksAreNamed ==
    /\ Len(PhaseTasks) \in Nat /\ DOMAIN PhaseTasks = 1 .. Len(PhaseTasks)
    /\ \A i \in 1 .. Len(PhaseTasks) : PhaseTasks[i] \in TasksOfPhase
  BY PhaseAssumption DEF PhaseAssumption, TasksOfPhase

LEMMA CompletionInit == EvidenceInit => CompletionInv
  BY DEF EvidenceInit, CompletionInv, CommandShaped, ManifestsShaped, PacketsBehindManifests, Finalizing,
         ManifestBacked, NoCommand, SourceOnly

LEMMA CompletionStep == CompletionInv /\ [EvidenceStateNext]_evidenceVars => CompletionInv'
<1>. SUFFICES ASSUME CompletionInv, [EvidenceStateNext]_evidenceVars PROVE CompletionInv'
  OBVIOUS
<1>. USE DEF TreeStill, StartCommand, EndCommand, NoCommand
<1>a. ASSUME UNCHANGED <<manifests, packets>>, evidenceCommand'.at \in {"idle", "packets"}
      PROVE  CompletionInv'
  BY <1>a DEF CompletionInv, CommandShaped, ManifestsShaped, PacketsBehindManifests, Finalizing, ManifestBacked
<1>b. ASSUME UNCHANGED <<manifests, packets, evidenceCommand>> PROVE CompletionInv'
  BY <1>b DEF CompletionInv, CommandShaped, ManifestsShaped, PacketsBehindManifests, Finalizing, ManifestBacked
<1>1. CASE StartPrepare
  BY <1>1, <1>a DEF StartPrepare
<1>2. ASSUME NEW t \in TasksOfPhase, RemovePacket(t) PROVE CompletionInv'
  <2>1. /\ packets' = [packets EXCEPT ![t] = NoPacket] /\ UNCHANGED <<manifests, evidenceCommand>>
        /\ evidenceCommand.at = "packets"
    BY <1>2 DEF RemovePacket
  <2>2. PacketsBehindManifests'
    BY <2>1 DEF CompletionInv, PacketsBehindManifests
  <2>. QED BY <2>1, <2>2 DEF CompletionInv, CommandShaped, ManifestsShaped, Finalizing, ManifestBacked
<1>3. CASE PacketsRemoved
  BY <1>3 DEF PacketsRemoved, CompletionInv, CommandShaped, ManifestsShaped, PacketsBehindManifests, Finalizing,
              ManifestBacked
<1>4. CASE DescribeTask
  <2>1. CASE PhaseTasks[evidenceCommand.task] \in missing
    BY <1>4, <2>1, <1>a DEF DescribeTask
  <2>2. CASE PhaseTasks[evidenceCommand.task] \notin missing
    <3>1. /\ UNCHANGED <<manifests, packets>>
          /\ evidenceCommand'.at = "described" /\ evidenceCommand'.task = evidenceCommand.task
          /\ evidenceCommand'.status \in {"failed", "source_only"}
      BY <1>4, <2>2 DEF DescribeTask
    <3>2. evidenceCommand.at = "describe" /\ evidenceCommand.task \in 1 .. Len(PhaseTasks)
      BY <1>4, TasksAreNamed DEF DescribeTask, CompletionInv, CommandShaped
    <3>. QED BY <3>1, <3>2 DEF CompletionInv, CommandShaped, ManifestsShaped, PacketsBehindManifests, Finalizing,
                               ManifestBacked
  <2>. QED BY <2>1, <2>2
<1>15. CASE DescribeManifest
  <2>. DEFINE i == evidenceCommand.task
              t == PhaseTasks[i]
  <2>0. i \in 1 .. Len(PhaseTasks) /\ t \in TasksOfPhase
    BY <1>15, TasksAreNamed DEF DescribeManifest, CompletionInv, CommandShaped
  <2>1. /\ manifests' = [manifests EXCEPT ![t] =
              [status |-> evidenceCommand.status, commit |-> NoPacket, receipts |-> {}, annotated |-> FALSE]]
        /\ evidenceCommand.status # "passed"
    BY <1>15 DEF DescribeManifest, CompletionInv, CommandShaped
  <2>2. packets' = packets /\ evidenceCommand' = [at |-> "describe", task |-> i + 1]
    BY <1>15 DEF DescribeManifest
  <2>3. evidenceCommand.at = "described"
    BY <1>15 DEF DescribeManifest
  <2>4. CommandShaped'
    BY <2>0, <2>2 DEF CommandShaped, Finalizing
  <2>5. ManifestsShaped'
    BY <2>0, <2>1 DEF CompletionInv, ManifestsShaped
  <2>6. \A u \in TasksOfPhase : ManifestBacked(u)'
    BY <2>0, <2>1 DEF CompletionInv, ManifestBacked, ManifestsShaped
  <2>. QED BY <2>2, <2>3, <2>4, <2>5, <2>6 DEF CompletionInv, Finalizing, PacketsBehindManifests
<1>5. CASE DescribePhase \/ CommandStops
  BY <1>5, <1>a DEF DescribePhase, CommandStops
<1>6. ASSUME NEW judged \in JudgedRequests, StartFinalize(judged) PROVE CompletionInv'
  <2>1. CASE judged.error = "none"
    <3>1. PICK q \in FinalizeRequests :
             judged = [error |-> FinalizeError(q), commit |-> q.commit,
                       references |-> IF FinalizeError(q) = "none" THEN References(q.receipts) ELSE {}]
      BY DEF JudgedRequests
    <3>2. ReferencesBacked(judged.references, judged.commit)
      BY <2>1, <3>1, AcceptedReceiptsBack
    <3>3. evidenceCommand' = [at |-> "gates", request |-> judged, task |-> 1] /\ UNCHANGED <<manifests, packets>>
      BY <1>6, <2>1 DEF StartFinalize
    <3>. QED BY <3>2, <3>3 DEF CompletionInv, CommandShaped, ManifestsShaped, PacketsBehindManifests, Finalizing,
                               ManifestBacked
  <2>2. CASE judged.error # "none"
    BY <1>6, <2>2, <1>a DEF StartFinalize
  <2>. QED BY <2>1, <2>2
<1>7. CASE RunGate
  <2>1. CASE GateError(PhaseTasks[evidenceCommand.task]) = "none"
    <3>1. evidenceCommand' = [at |-> "gates", request |-> evidenceCommand.request, task |-> evidenceCommand.task + 1]
      BY <1>7, <2>1 DEF RunGate, CompletionInv, CommandShaped, Finalizing
    <3>2. evidenceCommand.at = "gates" /\ UNCHANGED <<manifests, packets>>
      BY <1>7 DEF RunGate
    <3>. QED BY <3>1, <3>2 DEF CompletionInv, CommandShaped, ManifestsShaped, PacketsBehindManifests, Finalizing,
                      ManifestBacked
  <2>2. CASE GateError(PhaseTasks[evidenceCommand.task]) # "none"
    BY <1>7, <2>2, <1>a DEF RunGate
  <2>. QED BY <2>1, <2>2
<1>8. CASE AcceptDecision
  <2>1. evidenceCommand' = [at |-> "manifest", request |-> evidenceCommand.request, task |-> 1]
    BY <1>8 DEF AcceptDecision, CompletionInv, CommandShaped, Finalizing
  <2>2. evidenceCommand.at = "gates" /\ UNCHANGED <<manifests, packets>>
    BY <1>8 DEF AcceptDecision
  <2>. QED BY <2>1, <2>2 DEF CompletionInv, CommandShaped, ManifestsShaped, PacketsBehindManifests, Finalizing,
                             ManifestBacked
<1>9. CASE FinalizeTask
  <2>. DEFINE at == evidenceCommand.at
              i == evidenceCommand.task
              t == PhaseTasks[i]
              request == evidenceCommand.request
  <2>1. /\ at \in {"manifest", "note", "packet"} /\ i \in 1 .. Len(PhaseTasks) /\ t \in TasksOfPhase
        /\ evidenceCommand = [at |-> at, request |-> request, task |-> i]
        /\ ReferencesBacked(request.references, request.commit)
        /\ evidenceCommand' = NextStep(evidenceCommand)
        /\ RecordTask(at, t)
    BY <1>9, TasksAreNamed DEF FinalizeTask, CompletionInv, CommandShaped, Finalizing
  <2>2. evidenceCommand' = [at |-> CASE at = "manifest" -> "note" [] at = "note" -> "packet" [] at = "packet" -> "manifest",
                            request |-> request, task |-> IF at = "packet" THEN i + 1 ELSE i]
    BY <2>1 DEF NextStep
  <2>3. CommandShaped' /\ (Finalizing => ReferencesBacked(evidenceCommand.request.references, evidenceCommand.request.commit))'
    <3>1. evidenceCommand'.request = request
      BY <2>2
    <3>. QED BY <2>1, <2>2, <3>1 DEF CommandShaped, Finalizing
  <2>4. CASE at = "manifest"
    <3>1. PassManifest(t) /\ packets' = packets
      BY <2>1, <2>4 DEF RecordTask
    <3>2. /\ manifests'[t] = [status |-> "passed", commit |-> request.commit, receipts |-> request.references,
                              annotated |-> manifests[t].annotated]
          /\ \A u \in TasksOfPhase \ {t} : manifests'[u] = manifests[u]
          /\ DOMAIN manifests' = TasksOfPhase
          /\ manifests' = [u \in TasksOfPhase |-> manifests'[u]]
      <4>1. manifests[t] = [status |-> manifests[t].status, commit |-> manifests[t].commit,
                            receipts |-> manifests[t].receipts, annotated |-> manifests[t].annotated]
            /\ DOMAIN manifests = TasksOfPhase /\ manifests = [u \in TasksOfPhase |-> manifests[u]]
        BY <2>1 DEF CompletionInv, ManifestsShaped
      <4>2. manifests' = [manifests EXCEPT ![t] = [status |-> "passed", commit |-> request.commit,
                              receipts |-> request.references, annotated |-> manifests[t].annotated]]
        BY <2>1, <3>1, <4>1 DEF PassManifest
      <4>. QED BY <2>1, <4>1, <4>2
    <3>3. ManifestsShaped'
      BY <3>2 DEF CompletionInv, ManifestsShaped
    <3>4. \A u \in TasksOfPhase : ManifestBacked(u)'
      BY <2>1, <3>2 DEF CompletionInv, ManifestBacked
    <3>5. PacketsBehindManifests'
      BY <2>1, <2>2, <2>4, <3>1, <3>2 DEF CompletionInv, PacketsBehindManifests
    <3>. QED BY <2>3, <3>3, <3>4, <3>5 DEF CompletionInv
  <2>5. CASE at = "note"
    <3>1. UNCHANGED <<manifests, packets>>
      BY <2>1, <2>5 DEF RecordTask
    <3>2. PacketsBehindManifests'
      BY <2>1, <2>2, <2>5, <3>1 DEF CompletionInv, PacketsBehindManifests
    <3>. QED BY <2>3, <3>1, <3>2 DEF CompletionInv, ManifestsShaped, ManifestBacked
  <2>6. CASE at = "packet"
    <3>1. manifests' = manifests /\ packets' = [packets EXCEPT ![t] = request.commit]
      BY <2>1, <2>6 DEF RecordTask, WritePacket
    <3>2. PacketsBehindManifests'
      BY <2>1, <2>2, <2>6, <3>1 DEF CompletionInv, PacketsBehindManifests
    <3>. QED BY <2>3, <3>1, <3>2 DEF CompletionInv, ManifestsShaped, ManifestBacked
  <2>. QED BY <2>1, <2>4, <2>5, <2>6
<1>10. CASE FinalizePhase
  BY <1>10, <1>a DEF FinalizePhase
<1>11. CASE CheckState
  BY <1>11, <1>b DEF CheckState
<1>12. ASSUME NEW t \in TasksOfPhase, NEW tested \in {"passed", "failed", "absent"}, NEW present \in BOOLEAN,
              EditTree(t, tested, present)
       PROVE  CompletionInv'
  BY <1>12, <1>b DEF EditTree
<1>13. ASSUME NEW d \in DeclaredStates, DeclareState(d) PROVE CompletionInv'
  BY <1>13, <1>b DEF DeclareState
<1>14. CASE UNCHANGED evidenceVars
  BY <1>14, <1>b DEF evidenceVars
<1>. QED
  BY <1>1, <1>2, <1>3, <1>4, <1>5, <1>6, <1>7, <1>8, <1>9, <1>10, <1>11, <1>12, <1>13, <1>14, <1>15
  DEF EvidenceStateNext

(* A task is listed as completed only beside a manifest that passed, and one  *)
(* passes only on the receipts of every platform, wherever prepare or         *)
(* finalize stops, for any phase, any platforms and any number of commands.   *)
THEOREM CompletionIsBacked == EvidenceSpec => []CompletionBacked
<1>. QED BY CompletionInit, CompletionStep, CompletionInvBacks, PTL DEF EvidenceSpec

(* The values of the records of a phase.                                      *)
ManifestStatuses == {"passed", "failed", "source_only"}

RecordsTyped ==
    /\ \A t \in TasksOfPhase : manifests[t].status \in ManifestStatuses
    /\ notes \in [TasksOfPhase -> {"pending", "approved"}]
    /\ phase.status \in {"passed", "source_only_not_complete"}

TreeTyped ==
    /\ localResults \in [TasksOfPhase -> {"passed", "failed", "absent"}]
    /\ missing \subseteq TasksOfPhase /\ declared \in DeclaredStates
    /\ treeEdits \in 0 .. MaxTreeEdits

PhaseTyped == RecordsTyped /\ TreeTyped /\ commandsRun \in 0 .. MaxCommands

LEMMA ManifestPut ==
    ASSUME RecordsTyped, ManifestsShaped, NEW t \in TasksOfPhase, NEW m, m.status \in ManifestStatuses,
           manifests' = [manifests EXCEPT ![t] = m]
    PROVE  \A x \in TasksOfPhase : manifests'[x].status \in ManifestStatuses
<1>1. DOMAIN manifests = TasksOfPhase
  BY DEF ManifestsShaped
<1>. QED BY <1>1 DEF RecordsTyped

LEMMA RecordsStayTyped == CompletionInv /\ RecordsTyped /\ EvidenceStateNext => RecordsTyped'
<1>. SUFFICES ASSUME CompletionInv, RecordsTyped, EvidenceStateNext PROVE RecordsTyped'
  OBVIOUS
<1>0. ManifestsShaped /\ CommandShaped
  BY DEF CompletionInv
<1>a. ASSUME UNCHANGED <<manifests, notes, phase>> PROVE RecordsTyped'
  BY <1>a DEF RecordsTyped
<1>1. CASE StartPrepare \/ \E t \in TasksOfPhase : RemovePacket(t)
  BY <1>1, <1>a DEF StartPrepare, RemovePacket
<1>2. CASE DescribeTask
  <2>. DEFINE t == PhaseTasks[evidenceCommand.task]
  <2>1. t \in TasksOfPhase
    BY <1>0, <1>2, TasksAreNamed DEF DescribeTask, CommandShaped
  <2>2. notes' \in {notes, [notes EXCEPT ![t] = "pending"]} /\ UNCHANGED <<manifests, phase>>
    BY <1>2 DEF DescribeTask
  <2>. HIDE DEF t
  <2>. QED BY <2>1, <2>2 DEF RecordsTyped
<1>7. CASE DescribeManifest
  <2>. DEFINE t == PhaseTasks[evidenceCommand.task]
              m == [status |-> evidenceCommand.status, commit |-> NoPacket, receipts |-> {}, annotated |-> FALSE]
  <2>1. t \in TasksOfPhase
    BY <1>0, <1>7, TasksAreNamed DEF DescribeManifest, CommandShaped
  <2>2. m.status \in ManifestStatuses
    BY <1>0, <1>7 DEF DescribeManifest, CommandShaped, ManifestStatuses
  <2>3. manifests' = [manifests EXCEPT ![t] = m] /\ UNCHANGED <<notes, phase>>
    BY <1>7 DEF DescribeManifest
  <2>. HIDE DEF t, m
  <2>4. \A x \in TasksOfPhase : manifests'[x].status \in ManifestStatuses
    BY <1>0, <2>1, <2>2, <2>3, ManifestPut
  <2>. QED BY <2>3, <2>4 DEF RecordsTyped
<1>3. CASE DescribePhase \/ FinalizePhase
  <2>1. phase'.status \in {"passed", "source_only_not_complete"} /\ UNCHANGED <<manifests, notes>>
    BY <1>3 DEF DescribePhase, FinalizePhase
  <2>. QED BY <2>1 DEF RecordsTyped
<1>4. CASE FinalizeTask
  <2>. DEFINE t == PhaseTasks[evidenceCommand.task]
              m == [status |-> "passed", commit |-> evidenceCommand.request.commit,
                    receipts |-> evidenceCommand.request.references, annotated |-> manifests[t].annotated]
  <2>1. t \in TasksOfPhase
    BY <1>0, <1>4, TasksAreNamed DEF FinalizeTask, CommandShaped, Finalizing
  <2>2. m.status \in ManifestStatuses
    BY DEF ManifestStatuses
  <2>3. /\ UNCHANGED phase
        /\ \/ manifests' = [manifests EXCEPT ![t] = m] /\ UNCHANGED notes
           \/ notes' = [notes EXCEPT ![t] = "approved"] /\ UNCHANGED manifests
           \/ UNCHANGED <<manifests, notes>>
    BY <1>4 DEF FinalizeTask, RecordTask, PassManifest, WritePacket
  <2>. HIDE DEF t, m
  <2>4. CASE manifests' = [manifests EXCEPT ![t] = m] /\ UNCHANGED notes
    <3>1. \A x \in TasksOfPhase : manifests'[x].status \in ManifestStatuses
      BY <1>0, <2>1, <2>2, <2>4, ManifestPut
    <3>. QED BY <2>3, <2>4, <3>1 DEF RecordsTyped
  <2>5. CASE notes' = [notes EXCEPT ![t] = "approved"] /\ UNCHANGED manifests
    BY <2>1, <2>3, <2>5 DEF RecordsTyped
  <2>. QED BY <1>a, <2>3, <2>4, <2>5
<1>5. CASE PacketsRemoved \/ RunGate \/ AcceptDecision \/ CommandStops \/ CheckState
           \/ (\E judged \in JudgedRequests : StartFinalize(judged))
  BY <1>5, <1>a DEF PacketsRemoved, RunGate, AcceptDecision, CommandStops, CheckState, StartFinalize
<1>6. CASE (\E t \in TasksOfPhase, tested \in {"passed", "failed", "absent"}, present \in BOOLEAN :
               EditTree(t, tested, present)) \/ \E d \in DeclaredStates : DeclareState(d)
  BY <1>6, <1>a DEF EditTree, DeclareState
<1>. QED BY <1>1, <1>2, <1>3, <1>4, <1>5, <1>6, <1>7 DEF EvidenceStateNext

LEMMA TreeStaysTyped == TreeTyped /\ EvidenceStateNext => TreeTyped'
<1>. SUFFICES ASSUME TreeTyped, EvidenceStateNext PROVE TreeTyped'
  OBVIOUS
<1>0. MaxTreeEdits \in Nat
  BY PhaseAssumption DEF PhaseAssumption
<1>1. ASSUME NEW t \in TasksOfPhase, NEW tested \in {"passed", "failed", "absent"}, NEW present,
             EditTree(t, tested, present)
      PROVE  TreeTyped'
  BY <1>0, <1>1 DEF EditTree, TreeTyped
<1>2. ASSUME NEW d \in DeclaredStates, DeclareState(d) PROVE TreeTyped'
  BY <1>0, <1>2 DEF DeclareState, TreeTyped
<1>3. CASE TreeStill
  BY <1>3 DEF TreeStill, TreeTyped
<1>4. TreeStill \/ (\E t \in TasksOfPhase, tested \in {"passed", "failed", "absent"}, present \in BOOLEAN :
               EditTree(t, tested, present)) \/ \E d \in DeclaredStates : DeclareState(d)
  BY DEF EvidenceStateNext, StartPrepare, RemovePacket, PacketsRemoved, DescribeTask, DescribeManifest, DescribePhase, StartFinalize,
         RunGate, AcceptDecision, FinalizeTask, FinalizePhase, CommandStops, CheckState
<1>. QED BY <1>1, <1>2, <1>3, <1>4

(* The records of a phase have the values their readers expect, for any tasks,  *)
(* platforms and number of commands and edits of the tree.                    *)
THEOREM PhaseTypeCorrect == EvidenceSpec => []PhaseEvidenceTypeOK
<1>1. EvidenceInit => PhaseTyped
  <2>. SUFFICES ASSUME EvidenceInit PROVE PhaseTyped
    OBVIOUS
  <2>1. RecordsTyped
    BY DEF EvidenceInit, RecordsTyped, ManifestStatuses, SourceOnly
  <2>2. TreeTyped /\ commandsRun \in 0 .. MaxCommands
    BY PhaseAssumption DEF PhaseAssumption, EvidenceInit, TreeTyped
  <2>. QED BY <2>1, <2>2 DEF PhaseTyped
<1>2. CompletionInv /\ PhaseTyped /\ [EvidenceStateNext]_evidenceVars => PhaseTyped'
  <2>. SUFFICES ASSUME CompletionInv, PhaseTyped, [EvidenceStateNext]_evidenceVars PROVE PhaseTyped'
    OBVIOUS
  <2>1. CASE UNCHANGED evidenceVars
    BY <2>1 DEF evidenceVars, PhaseTyped, RecordsTyped, TreeTyped
  <2>2. CASE EvidenceStateNext
    <3>0. MaxCommands \in Nat
      BY PhaseAssumption DEF PhaseAssumption
    <3>1. \/ UNCHANGED commandsRun
          \/ commandsRun < MaxCommands /\ commandsRun' = commandsRun + 1
      BY <2>2 DEF EvidenceStateNext, StartPrepare, RemovePacket, PacketsRemoved, DescribeTask, DescribeManifest, DescribePhase,
             StartFinalize, RunGate, AcceptDecision, FinalizeTask, FinalizePhase, CommandStops, CheckState,
             EditTree, DeclareState, StartCommand
    <3>2. commandsRun' \in 0 .. MaxCommands
      BY <3>0, <3>1 DEF PhaseTyped
    <3>. QED BY <2>2, <3>2, RecordsStayTyped, TreeStaysTyped DEF PhaseTyped
  <2>. QED BY <2>1, <2>2
<1>3. PhaseTyped => PhaseEvidenceTypeOK
  BY DEF PhaseTyped, RecordsTyped, TreeTyped, ManifestStatuses, PhaseEvidenceTypeOK
<1>. QED BY <1>1, <1>2, <1>3, CompletionInit, CompletionStep, PTL DEF EvidenceSpec

-----------------------------------------------------------------------------
(* RepositoryGovernance.  A branch that is deleted is still at the commit a   *)
(* listing of the same command saw, or somebody pushed to it meanwhile.       *)

BranchesShaped ==
    \A b \in DOMAIN branches : branches[b] = [sha |-> branches[b].sha, protected |-> branches[b].protected]

HygieneShaped ==
    hygiene # NoWork =>
        /\ hygiene.at \in {"repository", "listing", "heads", "delete", "after", "settle"}
        /\ hygiene = [at |-> hygiene.at, policy |-> hygiene.policy, execute |-> hygiene.execute,
                      page |-> hygiene.page, listing |-> hygiene.listing, plan |-> hygiene.plan,
                      results |-> hygiene.results]
        /\ hygiene.policy \in HygienePolicies /\ PolicyAccepted(hygiene.policy)
        /\ hygiene.results \in Seq({hygiene.results[i] : i \in DOMAIN hygiene.results})

\* Since it was listed, a branch was not moved but by a push.
ListedAsIs ==
    hygiene # NoWork =>
        \A b \in DOMAIN hygiene.listing \cap DOMAIN branches :
            \/ branches[b].sha = hygiene.listing[b].sha
            \/ [name |-> b, sha |-> branches[b].sha] \in pushedMeanwhile

PlanReviewed ==
    hygiene.at = "delete" =>
        /\ hygiene.plan = DeletionPlan(hygiene.policy, hygiene.listing)
        /\ \A i \in DOMAIN hygiene.policy.delete :
              hygiene.policy.delete[i].name \in DOMAIN hygiene.listing =>
                  hygiene.listing[hygiene.policy.delete[i].name].sha = hygiene.policy.delete[i].sha

LossInv == BranchesShaped /\ HygieneShaped /\ ListedAsIs /\ PlanReviewed /\ ReviewedLoss

LEMMA LossInit == GovernanceInit => LossInv
  BY GovernanceAssumption
  DEF GovernanceAssumption, GovernanceInit, LossInv, BranchesShaped, HygieneShaped, ListedAsIs, PlanReviewed,
      ReviewedLoss, NoWork

LEMMA DeletionIsReviewed ==
    ASSUME LossInv, NEW answer \in DeleteAnswers, DeleteNext(answer)
    PROVE  LossInv'
<1>. DEFINE p == hygiene.policy
            k == Len(hygiene.results) + 1
            entry == hygiene.plan[k]
            b == entry.name
            asked == entry.preflight = "delete" /\ answer # "unreachable"
            removed == asked /\ b \in DOMAIN branches /\ ~branches[b].protected
            x == [name |-> b, sha |-> branches[b].sha]
<1>0. hygiene # NoWork
  BY DEF DeleteNext, NoWork
<1>1. /\ p \in HygienePolicies /\ PolicyAccepted(p) /\ hygiene.at = "delete"
      /\ hygiene.plan = DeletionPlan(p, hygiene.listing)
      /\ Len(hygiene.results) \in Nat
  BY <1>0 DEF DeleteNext, LossInv, HygieneShaped, PlanReviewed
<1>2. k \in DOMAIN p.delete
  <2>1. p.delete \in Seq({p.delete[i] : i \in DOMAIN p.delete})
    BY <1>1, GovernanceAssumption DEF GovernanceAssumption
  <2>2. hygiene.plan \in Seq({hygiene.plan[i] : i \in DOMAIN hygiene.plan}) /\ DOMAIN hygiene.plan = DOMAIN p.delete
    <3>1. hygiene.plan = [i \in DOMAIN p.delete |-> hygiene.plan[i]]
      BY <1>1 DEF DeletionPlan
    <3>2. DOMAIN p.delete = 1 .. Len(p.delete) /\ Len(p.delete) \in Nat
      BY <2>1
    <3>. QED BY <3>1, <3>2
  <2>3. Len(hygiene.results) < Len(hygiene.plan)
    BY DEF DeleteNext
  <2>. QED BY <1>1, <2>2, <2>3
<1>3. entry = [name |-> p.delete[k].name,
               preflight |-> IF p.delete[k].name \in DOMAIN hygiene.listing THEN "delete" ELSE "already_absent"]
  BY <1>1, <1>2 DEF DeletionPlan
<1>4. /\ branches' = IF removed THEN Restrict(branches, DOMAIN branches \ {b}) ELSE branches
      /\ lost' = IF removed THEN lost \cup {x} ELSE lost
      /\ pushedMeanwhile' = pushedMeanwhile
  BY DEF DeleteNext
<1>5. PICK outcome : hygiene' = [hygiene EXCEPT !.results = Append(@, [name |-> b, result |-> outcome])]
  BY DEF DeleteNext
<1>6. ASSUME removed, x \notin pushedMeanwhile
      PROVE  x.name \notin ToSet(p.keep) /\ p.delete[k] = x
  <2>1. b = p.delete[k].name /\ b \in DOMAIN hygiene.listing /\ b \in DOMAIN branches
    BY <1>3, <1>6
  <2>2. branches[b].sha = p.delete[k].sha
    BY <1>0, <1>1, <1>2, <1>6, <2>1 DEF LossInv, ListedAsIs, PlanReviewed
  <2>3. p.delete[k] = [name |-> p.delete[k].name, sha |-> p.delete[k].sha]
    BY <1>1, <1>2, GovernanceAssumption DEF GovernanceAssumption
  <2>4. b \notin ToSet(p.keep)
    BY <1>1, <1>2, <2>1 DEF PolicyAccepted, Names
  <2>. QED BY <2>1, <2>2, <2>3, <2>4
<1>7. ReviewedLoss'
  <2>. HIDE DEF k
  <2>1. CASE ~removed
    BY <1>4, <2>1 DEF LossInv, ReviewedLoss
  <2>2. CASE removed
    <3>1. lost' = lost \cup {x} /\ pushedMeanwhile' = pushedMeanwhile
      BY <1>4, <2>2
    <3>2. x \in pushedMeanwhile
          \/ (x.name \notin ToSet(p.keep) /\ k \in DOMAIN p.delete /\ p.delete[k] = x)
      BY <1>2, <1>6, <2>2
    <3>. HIDE DEF x, p
    <3>. QED BY <1>1, <3>1, <3>2 DEF LossInv, ReviewedLoss, p
  <2>. QED BY <2>1, <2>2
<1>8. /\ hygiene'.at = hygiene.at /\ hygiene'.policy = p /\ hygiene'.listing = hygiene.listing
      /\ hygiene'.plan = hygiene.plan
      /\ hygiene' = [at |-> hygiene'.at, policy |-> hygiene'.policy, execute |-> hygiene'.execute,
                     page |-> hygiene'.page, listing |-> hygiene'.listing, plan |-> hygiene'.plan,
                     results |-> hygiene'.results]
      /\ hygiene'.results = Append(hygiene.results, [name |-> b, result |-> outcome])
  BY <1>0, <1>5 DEF LossInv, HygieneShaped
<1>9. hygiene'.results \in Seq({hygiene'.results[i] : i \in DOMAIN hygiene'.results})
  <2>. DEFINE S == {hygiene.results[i] : i \in DOMAIN hygiene.results} \cup {[name |-> b, result |-> outcome]}
  <2>1. hygiene.results \in Seq(S)
    <3>1. {hygiene.results[i] : i \in DOMAIN hygiene.results} \subseteq S
      OBVIOUS
    <3>2. hygiene.results \in Seq({hygiene.results[i] : i \in DOMAIN hygiene.results})
      BY <1>0 DEF LossInv, HygieneShaped
    <3>. HIDE DEF S
    <3>. QED BY <3>1, <3>2
  <2>2. hygiene'.results \in Seq(S)
    BY <1>8, <2>1
  <2>. HIDE DEF S
  <2>3. DOMAIN hygiene'.results = 1 .. Len(hygiene'.results) /\ Len(hygiene'.results) \in Nat
        /\ hygiene'.results = [i \in 1 .. Len(hygiene'.results) |-> hygiene'.results[i]]
    BY <2>2
  <2>. QED BY <2>3
<1>10. BranchesShaped' /\ DOMAIN branches' \subseteq DOMAIN branches
       /\ \A c \in DOMAIN branches' : branches'[c] = branches[c]
  BY <1>4 DEF LossInv, BranchesShaped, Restrict
<1>11. HygieneShaped'
  BY <1>0, <1>8, <1>9 DEF LossInv, HygieneShaped
<1>12. ListedAsIs'
  BY <1>0, <1>4, <1>8, <1>10 DEF LossInv, ListedAsIs
<1>13. PlanReviewed'
  BY <1>8 DEF LossInv, PlanReviewed
<1>. QED BY <1>7, <1>10, <1>11, <1>12, <1>13 DEF LossInv

LEMMA LossStep == LossInv /\ [HygieneNext]_hygieneVars => LossInv'
<1>. SUFFICES ASSUME LossInv, [HygieneNext]_hygieneVars PROVE LossInv'
  OBVIOUS
<1>. USE DEF HygieneStill
<1>a. ASSUME UNCHANGED <<branches, lost, pushedMeanwhile>>, hygiene' = NoWork PROVE LossInv'
  BY <1>a DEF LossInv, BranchesShaped, HygieneShaped, ListedAsIs, PlanReviewed, ReviewedLoss, NoWork
<1>1. ASSUME NEW p \in HygienePolicies, NEW execute \in BOOLEAN, StartHygiene(p, execute) PROVE LossInv'
  <2>1. CASE PolicyAccepted(p)
    <3>1. hygiene' = [at |-> "repository", policy |-> p, execute |-> execute, page |-> 1,
                      listing |-> <<>>, plan |-> <<>>, results |-> <<>>]
          /\ UNCHANGED <<branches, lost, pushedMeanwhile>>
      BY <1>1, <2>1 DEF StartHygiene
    <3>. QED BY <2>1, <3>1 DEF LossInv, BranchesShaped, HygieneShaped, ListedAsIs, PlanReviewed, ReviewedLoss, NoWork
  <2>2. CASE ~PolicyAccepted(p)
    BY <1>1, <2>2, <1>a DEF StartHygiene
  <2>. QED BY <2>1, <2>2
<1>2. ASSUME NEW b \in ToSet(BranchOrder), ReadRepository(b) PROVE LossInv'
  <2>1. CASE hygiene' = NoWork
    BY <1>2, <2>1, <1>a DEF ReadRepository
  <2>2. CASE hygiene' = [hygiene EXCEPT !.at = "listing"]
    BY <1>2, <2>2 DEF ReadRepository, LossInv, BranchesShaped, HygieneShaped, ListedAsIs, PlanReviewed, ReviewedLoss,
                      NoWork
  <2>. QED BY <1>2, <2>1, <2>2 DEF ReadRepository
<1>3. CASE ListPage
  <2>. DEFINE names == Page(hygiene.page)
              listing == WithPage(hygiene.listing, names)
  <2>1. /\ hygiene.at \in {"listing", "after"} /\ UNCHANGED <<branches, lost, pushedMeanwhile>>
        /\ hygiene # NoWork
    BY <1>3 DEF ListPage, NoWork
  <2>2. /\ hygiene'.at \in {"listing", "heads", "after", "settle"}
        /\ hygiene' = [at |-> hygiene'.at, policy |-> hygiene.policy, execute |-> hygiene.execute,
                       page |-> hygiene'.page, listing |-> listing, plan |-> hygiene.plan,
                       results |-> hygiene.results]
    <3>. HIDE DEF listing, names
    <3>. QED BY <1>3, <2>1 DEF ListPage, LossInv, HygieneShaped, listing, names
  <2>3. \A b \in DOMAIN listing \cap DOMAIN branches :
            \/ branches[b].sha = listing[b].sha
            \/ [name |-> b, sha |-> branches[b].sha] \in pushedMeanwhile
    <3>. HIDE DEF names
    <3>. QED BY <2>1 DEF LossInv, ListedAsIs, WithPage
  <2>. HIDE DEF listing
  <2>. QED BY <2>1, <2>2, <2>3 DEF LossInv, BranchesShaped, HygieneShaped, ListedAsIs, PlanReviewed, ReviewedLoss,
                                   NoWork
<1>4. CASE ReadHeads
  <2>. DEFINE p == hygiene.policy
              plan == DeletionPlan(p, hygiene.listing)
  <2>1. CASE hygiene' = NoWork
    BY <1>4, <2>1, <1>a DEF ReadHeads
  <2>2. CASE hygiene' # NoWork
    <3>1. /\ ~Blocked(p, hygiene.listing, openHeads)
          /\ hygiene' = [hygiene EXCEPT !.at = "delete", !.plan = plan]
      BY <1>4, <2>2 DEF ReadHeads
    <3>2. hygiene # NoWork /\ UNCHANGED <<branches, lost, pushedMeanwhile>>
      BY <1>4 DEF ReadHeads, NoWork
    <3>. HIDE DEF plan
    <3>3. hygiene' = [at |-> "delete", policy |-> p, execute |-> hygiene.execute, page |-> hygiene.page,
                      listing |-> hygiene.listing, plan |-> plan, results |-> hygiene.results]
      BY <3>1, <3>2 DEF LossInv, HygieneShaped
    <3>4. \A i \in DOMAIN p.delete :
              p.delete[i].name \in DOMAIN hygiene.listing =>
                  hygiene.listing[p.delete[i].name].sha = p.delete[i].sha
      BY <3>1 DEF Blocked, CandidateBlocked
    <3>5. PlanReviewed'
      BY <3>3, <3>4 DEF PlanReviewed, plan
    <3>. QED BY <3>2, <3>3, <3>5 DEF LossInv, BranchesShaped, HygieneShaped, ListedAsIs, ReviewedLoss
  <2>. QED BY <2>1, <2>2
<1>5. ASSUME NEW answer \in DeleteAnswers, DeleteNext(answer) PROVE LossInv'
  BY <1>5, DeletionIsReviewed
<1>6. CASE DeletionsDone
  <2>1. hygiene # NoWork /\ UNCHANGED <<branches, lost, pushedMeanwhile>>
        /\ hygiene' = [hygiene EXCEPT !.at = "after", !.page = 1, !.listing = <<>>]
    BY <1>6 DEF DeletionsDone, NoWork
  <2>2. hygiene' = [at |-> "after", policy |-> hygiene.policy, execute |-> hygiene.execute, page |-> 1,
                    listing |-> <<>>, plan |-> hygiene.plan, results |-> hygiene.results]
    BY <2>1 DEF LossInv, HygieneShaped
  <2>0. /\ hygiene.policy \in HygienePolicies /\ PolicyAccepted(hygiene.policy)
        /\ hygiene.results \in Seq({hygiene.results[i] : i \in DOMAIN hygiene.results})
    BY <2>1 DEF LossInv, HygieneShaped
  <2>3. HygieneShaped'
    BY <2>0, <2>2 DEF HygieneShaped
  <2>4. ListedAsIs' /\ PlanReviewed'
    BY <2>2 DEF ListedAsIs, PlanReviewed
  <2>. QED BY <2>1, <2>3, <2>4 DEF LossInv, BranchesShaped, ReviewedLoss
<1>7. CASE Settle \/ HygieneStops
  BY <1>7, <1>a DEF Settle, HygieneStops
<1>8. ASSUME NEW b \in ToSet(BranchOrder), NEW s \in PushedShas, Push(b, s) PROVE LossInv'
  <2>1. /\ DOMAIN branches' = DOMAIN branches \cup {b}
        /\ \A n \in DOMAIN branches' : n # b => n \in DOMAIN branches /\ branches'[n] = branches[n]
        /\ branches'[b].sha = s
        /\ branches'[b] = [sha |-> s, protected |-> branches'[b].protected]
    BY <1>8 DEF Push
  <2>2. UNCHANGED <<hygiene, lost>> /\ pushedMeanwhile \subseteq pushedMeanwhile'
        /\ (hygiene # NoWork => [name |-> b, sha |-> s] \in pushedMeanwhile')
    BY <1>8 DEF Push
  <2>3. BranchesShaped'
    BY <2>1 DEF LossInv, BranchesShaped
  <2>4. ListedAsIs'
    BY <2>1, <2>2 DEF LossInv, ListedAsIs
  <2>5. ReviewedLoss'
    BY <2>2 DEF LossInv, ReviewedLoss
  <2>. QED BY <2>2, <2>3, <2>4, <2>5 DEF LossInv, HygieneShaped, PlanReviewed
<1>9. ASSUME NEW b \in ToSet(BranchOrder), OpenPullRequest(b) PROVE LossInv'
  BY <1>9 DEF OpenPullRequest, LossInv, BranchesShaped, HygieneShaped, ListedAsIs, PlanReviewed, ReviewedLoss
<1>10. ASSUME NEW b \in ToSet(BranchOrder), Protect(b) PROVE LossInv'
  <2>1. /\ DOMAIN branches' = DOMAIN branches
        /\ \A n \in DOMAIN branches : branches'[n].sha = branches[n].sha
        /\ \A n \in DOMAIN branches : branches'[n] = [sha |-> branches'[n].sha, protected |-> branches'[n].protected]
    BY <1>10 DEF Protect, LossInv, BranchesShaped
  <2>2. UNCHANGED <<hygiene, lost, pushedMeanwhile>>
    BY <1>10 DEF Protect
  <2>. QED BY <2>1, <2>2 DEF LossInv, BranchesShaped, HygieneShaped, ListedAsIs, PlanReviewed, ReviewedLoss
<1>11. CASE UNCHANGED hygieneVars
  BY <1>11 DEF hygieneVars, LossInv, BranchesShaped, HygieneShaped, ListedAsIs, PlanReviewed, ReviewedLoss
<1>. QED BY <1>1, <1>2, <1>3, <1>4, <1>5, <1>6, <1>7, <1>8, <1>9, <1>10, <1>11 DEF HygieneNext

(* A receipt is of a command no other command has followed; while nobody else *)
(* changes the repository, what a verification found matching still matches.  *)
RulesetHolds(c) ==
    /\ Len(hosted.rulesets) = 1
    /\ RulesetMatches(hosted.rulesets[1], BuiltRuleset(c))

GovernanceShaped ==
    governance # NoWork =>
        /\ governance.at \in {"find", "ruleset", "settings", "labels", "label", "verify", "verify settings",
                              "verify labels"}
        /\ governance = [at |-> governance.at, config |-> governance.config, found |-> governance.found,
                         known |-> governance.known, label |-> governance.label, matched |-> governance.matched]
        /\ governance.matched \in BOOLEAN

ReceiptIsOfTheLast ==
    /\ governanceCommands \in Nat
    /\ governed.status = "passed" =>
          /\ governed.command \in Nat /\ governed.command <= governanceCommands
          /\ governance # NoWork => governed.command < governanceCommands

MatchedSoFar ==
    undisturbed =>
        /\ governance.at = "verify settings" /\ governance.matched => RulesetHolds(governance.config)
        /\ governance.at = "verify labels" /\ governance.matched =>
              RulesetHolds(governance.config) /\ hosted.settings = governance.config.settings
        /\ governance.at \in {"verify settings", "verify labels"} => Len(hosted.rulesets) = 1

RulesInv == GovernanceShaped /\ ReceiptIsOfTheLast /\ MatchedSoFar /\ ReceiptHolds

LEMMA RulesInit == GovernanceInit => RulesInv
  BY DEF GovernanceInit, RulesInv, GovernanceShaped, ReceiptIsOfTheLast, MatchedSoFar, ReceiptHolds, NoWork, NoReceipt

LEMMA ReceiptsKept ==
    ASSUME RulesInv, governed' = governed,
           governanceCommands' \in {governanceCommands, governanceCommands + 1},
           governance' # NoWork /\ governanceCommands' = governanceCommands => governance # NoWork,
           \/ governanceCommands' = governanceCommands + 1
           \/ governance # NoWork
           \/ ~undisturbed'
           \/ UNCHANGED <<hosted, undisturbed>>
    PROVE  ReceiptIsOfTheLast' /\ ReceiptHolds'
<1>1. ReceiptIsOfTheLast'
  BY DEF RulesInv, ReceiptIsOfTheLast
<1>2. CASE governed.status = "passed" /\ governed.command = governanceCommands' /\ undisturbed'
  <2>2. governanceCommands' # governanceCommands + 1 /\ ~(governance # NoWork)
    <3>1. governed.status = "passed" /\ governed.command = governanceCommands'
      BY <1>2
    <3>2. /\ governanceCommands \in Nat /\ governed.command \in Nat /\ governed.command <= governanceCommands
          /\ governance # NoWork => governed.command < governanceCommands
      BY <3>1 DEF RulesInv, ReceiptIsOfTheLast
    <3>. QED BY <3>1, <3>2
  <2>1. governanceCommands' = governanceCommands /\ governance = NoWork /\ UNCHANGED <<hosted, undisturbed>>
    BY <1>2, <2>2, Zenon
  <2>. QED BY <1>1, <2>1 DEF RulesInv, ReceiptHolds
<1>3. CASE ~(governed.status = "passed" /\ governed.command = governanceCommands' /\ undisturbed')
  BY <1>1, <1>3 DEF ReceiptHolds
<1>. QED BY <1>2, <1>3

LEMMA RulesStep == RulesInv /\ RulesNext => RulesInv'
<1>. SUFFICES ASSUME RulesInv, RulesNext PROVE RulesInv'
  OBVIOUS
<1>. USE DEF RulesStill
<1>a. ASSUME governance' = NoWork, UNCHANGED <<hosted, governed, undisturbed, governanceCommands>> PROVE RulesInv'
  <2>1. ReceiptIsOfTheLast' /\ ReceiptHolds'
    BY <1>a, ReceiptsKept DEF RulesInv, ReceiptIsOfTheLast
  <2>. QED BY <1>a, <2>1 DEF RulesInv, GovernanceShaped, MatchedSoFar, NoWork
<1>b. ASSUME governance # NoWork, UNCHANGED <<governed, undisturbed, governanceCommands>>,
             governance'.at \in {"ruleset", "settings", "labels", "label", "verify"},
             governance' = [at |-> governance'.at, config |-> governance.config, found |-> governance'.found,
                            known |-> governance'.known, label |-> governance'.label,
                            matched |-> governance.matched]
      PROVE  RulesInv'
  <2>1. ReceiptIsOfTheLast' /\ ReceiptHolds'
    BY <1>b, ReceiptsKept DEF RulesInv, ReceiptIsOfTheLast
  <2>2. GovernanceShaped'
    <3>1. governance'.at \in {"find", "ruleset", "settings", "labels", "label", "verify", "verify settings",
                              "verify labels"}
      BY <1>b, Zenon
    <3>2. governance.matched \in BOOLEAN
      BY <1>b DEF RulesInv, GovernanceShaped
    <3>3. /\ governance'.config = governance.config /\ governance'.matched = governance.matched
          /\ governance' = [at |-> governance'.at, config |-> governance'.config, found |-> governance'.found,
                            known |-> governance'.known, label |-> governance'.label,
                            matched |-> governance'.matched]
      BY <1>b
    <3>. QED BY <3>1, <3>2, <3>3, Zenon DEF GovernanceShaped
  <2>3. governance'.at \notin {"verify settings", "verify labels"}
    BY <1>b, Zenon
  <2>4. MatchedSoFar'
    BY <2>3, Zenon DEF MatchedSoFar
  <2>. QED BY <2>1, <2>2, <2>4 DEF RulesInv
<1>c. ASSUME governance' = NoWork, UNCHANGED <<governed, undisturbed, governanceCommands>>, governance # NoWork
      PROVE  RulesInv'
  <2>1. ReceiptIsOfTheLast' /\ ReceiptHolds'
    BY <1>c, ReceiptsKept DEF RulesInv, ReceiptIsOfTheLast
  <2>. QED BY <1>c, <2>1 DEF RulesInv, GovernanceShaped, MatchedSoFar, NoWork
<1>1. ASSUME NEW mode \in {"plan", "apply", "verify"}, NEW confirmed \in BOOLEAN, NEW token \in BOOLEAN,
             NEW c \in GovernanceConfigs, NEW m \in MatrixReceipts,
             StartGovernance(mode, confirmed, token, c, m)
      PROVE  RulesInv'
  <2>1. /\ UNCHANGED <<hosted, governed>> /\ governanceCommands' = governanceCommands + 1
        /\ \/ governance' = NoWork
           \/ governance' = [at |-> IF mode = "apply" THEN "find" ELSE "verify", config |-> c, found |-> FALSE,
                             known |-> {}, label |-> 1, matched |-> TRUE]
    BY <1>1 DEF StartGovernance, BeginCommand
  <2>2. ReceiptIsOfTheLast' /\ ReceiptHolds'
    BY <2>1, ReceiptsKept DEF RulesInv, ReceiptIsOfTheLast
  <2>3. CASE governance' = NoWork
    BY <2>2, <2>3 DEF RulesInv, GovernanceShaped, MatchedSoFar, NoWork
  <2>4. CASE governance' = [at |-> IF mode = "apply" THEN "find" ELSE "verify", config |-> c, found |-> FALSE,
                            known |-> {}, label |-> 1, matched |-> TRUE]
    BY <2>2, <2>4 DEF RulesInv, GovernanceShaped, MatchedSoFar, NoWork
  <2>. QED BY <2>1, <2>3, <2>4
<1>2. CASE FindRuleset
  <2>1. governance # NoWork /\ UNCHANGED <<hosted, governed, undisturbed, governanceCommands>>
    BY <1>2 DEF FindRuleset, NoWork
  <2>2. CASE governance' = NoWork
    BY <2>1, <2>2, <1>a
  <2>3. CASE governance' # NoWork
    <3>1. governance' = [governance EXCEPT !.at = "ruleset", !.found = hosted.rulesets # <<>>]
      BY <1>2, <2>3 DEF FindRuleset
    <3>. QED BY <2>1, <3>1, <1>b DEF RulesInv, GovernanceShaped
  <2>. QED BY <2>2, <2>3
<1>3. CASE WriteRuleset
  <2>1. governance # NoWork /\ UNCHANGED <<governed, undisturbed, governanceCommands>>
    BY <1>3 DEF WriteRuleset, NoWork
  <2>2. governance' = NoWork \/ governance' = [governance EXCEPT !.at = "settings"]
    BY <1>3 DEF WriteRuleset
  <2>. QED BY <2>1, <2>2, <1>b, <1>c DEF RulesInv, GovernanceShaped
<1>4. CASE WriteSettings
  <2>1. governance # NoWork /\ UNCHANGED <<governed, undisturbed, governanceCommands>>
        /\ governance' = [governance EXCEPT !.at = "labels"]
    BY <1>4 DEF WriteSettings, NoWork
  <2>. QED BY <2>1, <1>b DEF RulesInv, GovernanceShaped
<1>5. CASE ListLabels
  <2>1. governance # NoWork /\ UNCHANGED <<governed, undisturbed, governanceCommands>>
        /\ governance' = [governance EXCEPT !.at = "label", !.known = DOMAIN hosted.labels]
    BY <1>5 DEF ListLabels, NoWork
  <2>. QED BY <2>1, <1>b DEF RulesInv, GovernanceShaped
<1>6. CASE WriteLabel
  <2>. DEFINE l == governance.config.labels[governance.label]
  <2>1. governance # NoWork /\ UNCHANGED <<governed, undisturbed, governanceCommands>>
    BY <1>6 DEF WriteLabel, NoWork
  <2>2. CASE governance' = NoWork
    BY <2>1, <2>2, <1>c
  <2>3. CASE governance' # NoWork
    <3>1. governance' = [governance EXCEPT !.label = @ + 1, !.known = @ \cup {l.key}] /\ governance.at = "label"
      BY <1>6, <2>3 DEF WriteLabel
    <3>. HIDE DEF l
    <3>. QED BY <2>1, <3>1, <1>b DEF RulesInv, GovernanceShaped
  <2>. QED BY <2>2, <2>3
<1>7. CASE LabelsWritten
  <2>1. governance # NoWork /\ UNCHANGED <<governed, undisturbed, governanceCommands>>
        /\ governance' = [governance EXCEPT !.at = "verify"]
    BY <1>7 DEF LabelsWritten, NoWork
  <2>. QED BY <2>1, <1>b DEF RulesInv, GovernanceShaped
<1>8. CASE VerifyRuleset
  <2>1. governance # NoWork /\ UNCHANGED <<hosted, governed, undisturbed, governanceCommands>>
    BY <1>8 DEF VerifyRuleset, NoWork
  <2>2. CASE Len(hosted.rulesets) # 1
    BY <1>8, <2>1, <2>2, <1>a DEF VerifyRuleset
  <2>3. CASE Len(hosted.rulesets) = 1
    <3>. DEFINE matches == RulesetMatches(hosted.rulesets[1], BuiltRuleset(governance.config))
    <3>1. governance' = [governance EXCEPT !.at = "verify settings", !.matched = matches]
      BY <1>8, <2>3 DEF VerifyRuleset
    <3>2. matches \in BOOLEAN
      BY DEF RulesetMatches
    <3>. HIDE DEF matches
    <3>3. governance' = [at |-> "verify settings", config |-> governance.config, found |-> governance.found,
                         known |-> governance.known, label |-> governance.label, matched |-> matches]
      BY <2>1, <3>1 DEF RulesInv, GovernanceShaped
    <3>4. MatchedSoFar'
      BY <2>1, <2>3, <3>3 DEF MatchedSoFar, RulesetHolds, matches
    <3>5. ReceiptIsOfTheLast' /\ ReceiptHolds'
      BY <2>1, ReceiptsKept DEF RulesInv, ReceiptIsOfTheLast
    <3>. QED BY <3>2, <3>3, <3>4, <3>5 DEF RulesInv, GovernanceShaped
  <2>. QED BY <2>2, <2>3
<1>9. CASE VerifySettings
  <2>. DEFINE same == hosted.settings = governance.config.settings
  <2>0. /\ UNCHANGED <<hosted, governed, undisturbed, governanceCommands>>
        /\ governance.at = "verify settings"
        /\ governance' = [governance EXCEPT !.at = "verify labels", !.matched = @ /\ same]
    BY <1>9 DEF VerifySettings
  <2>. HIDE DEF same
  <2>a. governance.at # "idle"
    BY <2>0, Zenon
  <2>b. governance # NoWork
    BY <2>a DEF NoWork
  <2>1. governance # NoWork /\ UNCHANGED <<hosted, governed, undisturbed, governanceCommands>>
        /\ governance.at = "verify settings"
        /\ governance' = [governance EXCEPT !.at = "verify labels", !.matched = @ /\ same]
    BY <2>0, <2>b, Zenon
  <2>2. governance' = [at |-> "verify labels", config |-> governance.config, found |-> governance.found,
                       known |-> governance.known, label |-> governance.label,
                       matched |-> governance.matched /\ same]
    BY <2>1 DEF RulesInv, GovernanceShaped
  <2>3. governance'.at = "verify labels" /\ governance'.config = governance.config
        /\ governance'.matched = (governance.matched /\ same)
    BY <2>2
  <2>4. MatchedSoFar'
    BY <2>1, <2>3 DEF RulesInv, MatchedSoFar, RulesetHolds, same
  <2>5. ReceiptIsOfTheLast' /\ ReceiptHolds'
    BY <2>1, ReceiptsKept DEF RulesInv, ReceiptIsOfTheLast
  <2>6. governance'.matched \in BOOLEAN
    BY <2>3
  <2>. QED BY <2>2, <2>4, <2>5, <2>6 DEF RulesInv, GovernanceShaped
<1>10. CASE VerifyLabels
  <2>1. /\ governance.at = "verify labels" /\ governance # NoWork /\ governance' = NoWork
        /\ UNCHANGED <<hosted, undisturbed, governanceCommands>>
    <3>1. governance.at = "verify labels" /\ governance' = NoWork
          /\ UNCHANGED <<hosted, undisturbed, governanceCommands>>
      BY <1>10 DEF VerifyLabels
    <3>2. governance # NoWork
      <4>1. governance.at # "idle"
        BY <3>1, Zenon
      <4>. QED BY <4>1 DEF NoWork
    <3>. QED BY <3>1, <3>2, Zenon
  <2>2. CASE governed' = governed
    BY <2>1, <2>2, <1>a
  <2>3. CASE governed' # governed
    <3>1. /\ governance.matched /\ LabelsMatch(hosted.labels, governance.config)
          /\ governed' = [status |-> "passed", config |-> governance.config, command |-> governanceCommands]
      BY <1>10, <2>3 DEF VerifyLabels
    <3>2. ReceiptHolds'
      BY <2>1, <3>1 DEF RulesInv, MatchedSoFar, RulesetHolds, ReceiptHolds
    <3>3. ReceiptIsOfTheLast'
      <4>1. governed'.command = governanceCommands /\ governanceCommands' = governanceCommands
            /\ governance' = NoWork
        BY <2>1, <3>1
      <4>2. governanceCommands \in Nat
        BY DEF RulesInv, ReceiptIsOfTheLast
      <4>. QED BY <4>1, <4>2 DEF ReceiptIsOfTheLast
    <3>4. GovernanceShaped' /\ MatchedSoFar'
      BY <2>1 DEF GovernanceShaped, MatchedSoFar, NoWork
    <3>. QED BY <3>2, <3>3, <3>4 DEF RulesInv
  <2>. QED BY <2>2, <2>3
<1>11. CASE GovernanceStops
  BY <1>11, <1>a DEF GovernanceStops
<1>12. ASSUME NEW changed, Administer(changed) PROVE RulesInv'
  BY <1>12 DEF Administer, Outside, RulesInv, GovernanceShaped, ReceiptIsOfTheLast, MatchedSoFar, ReceiptHolds
<1>. QED BY <1>1, <1>2, <1>3, <1>4, <1>5, <1>6, <1>7, <1>8, <1>9, <1>10, <1>11, <1>12 DEF RulesNext

(* Both invariants are kept, each command beside the other.                    *)
LEMMA GovernanceInvariant == GovernanceSpec => [](LossInv /\ RulesInv)
<1>1. LossInv /\ RulesInv /\ [HygieneNext \/ RulesNext]_governanceVars => LossInv' /\ RulesInv'
  <2>1. RulesNext => UNCHANGED hygieneVars
    BY DEF RulesNext, StartGovernance, FindRuleset, WriteRuleset, WriteSettings, ListLabels, WriteLabel, LabelsWritten,
           VerifyRuleset, VerifySettings, VerifyLabels, GovernanceStops, Administer, RulesStill
  <2>2. HygieneNext => UNCHANGED rulesVars /\ governanceCommands' \in {governanceCommands, governanceCommands + 1}
    BY DEF HygieneNext, StartHygiene, BeginCommand, HygieneStill, ReadRepository, ListPage, ReadHeads, DeleteNext,
           DeletionsDone, Settle, HygieneStops, Push, OpenPullRequest, Protect
  <2>3. RulesInv /\ UNCHANGED rulesVars /\ governanceCommands' \in {governanceCommands, governanceCommands + 1}
           => RulesInv'
    <3>. SUFFICES ASSUME RulesInv, UNCHANGED rulesVars,
                         governanceCommands' \in {governanceCommands, governanceCommands + 1}
                  PROVE  RulesInv'
      OBVIOUS
    <3>1. UNCHANGED <<hosted, governance, governed, undisturbed>>
      BY DEF rulesVars
    <3>2. ReceiptIsOfTheLast' /\ ReceiptHolds'
      BY <3>1, ReceiptsKept
    <3>. QED BY <3>1, <3>2 DEF RulesInv, GovernanceShaped, MatchedSoFar, RulesetHolds
  <2>4. UNCHANGED governanceVars => UNCHANGED hygieneVars /\ UNCHANGED <<rulesVars, governanceCommands>>
    BY DEF governanceVars
  <2>. QED BY <2>1, <2>2, <2>3, <2>4, LossStep, RulesStep
<1>. QED BY <1>1, LossInit, RulesInit, PTL DEF GovernanceSpec

(* What a command deleted of the repository was reviewed, or pushed while it  *)
(* ran, and a passed receipt describes the repository until somebody changes  *)
(* it, for all branches, policies, configurations and numbers of commands.    *)
THEOREM RemoteIsAsReviewed == GovernanceSpec => []RemoteAsReviewed
<1>1. LossInv /\ RulesInv => RemoteAsReviewed
  BY DEF LossInv, RulesInv, RemoteAsReviewed
<1>. QED BY <1>1, GovernanceInvariant, PTL

(* The values of the repository and of what is said of it.                    *)
RemoteTyped ==
    /\ DOMAIN branches \subseteq ToSet(BranchOrder) /\ openHeads \subseteq ToSet(BranchOrder)
    /\ hygieneReceipt.status \in {"none", "blocked", "ready", "success", "partial_failure"}
    /\ outsideChanges \in 0 .. MaxOutsideChanges

RulesTyped == governed.status \in {"none", "passed"} /\ undisturbed \in BOOLEAN

CommandsCounted == governanceCommands \in 0 .. MaxGovernanceCommands

LEMMA GovernanceBounds == MaxGovernanceCommands \in Nat /\ MaxOutsideChanges \in Nat
  BY GovernanceAssumption DEF GovernanceAssumption

LEMMA HygieneStaysTyped == RemoteTyped /\ HygieneNext => RemoteTyped'
<1>. SUFFICES ASSUME RemoteTyped, HygieneNext PROVE RemoteTyped'
  OBVIOUS
<1>a. ASSUME UNCHANGED <<branches, openHeads, outsideChanges>>,
             hygieneReceipt'.status \in {"none", "blocked", "ready", "success", "partial_failure"}
      PROVE  RemoteTyped'
  BY <1>a DEF RemoteTyped
<1>1. ASSUME NEW p, NEW execute, StartHygiene(p, execute) PROVE RemoteTyped'
  BY <1>1 DEF StartHygiene, RemoteTyped
<1>2. ASSUME NEW b, ReadRepository(b) PROVE RemoteTyped'
  BY <1>2 DEF ReadRepository, HygieneStill, RemoteTyped
<1>3. CASE ListPage \/ DeletionsDone \/ HygieneStops
  BY <1>3 DEF ListPage, DeletionsDone, HygieneStops, HygieneStill, RemoteTyped
<1>4. CASE ReadHeads
  <2>1. UNCHANGED <<branches, openHeads, outsideChanges>>
    BY <1>4 DEF ReadHeads, HygieneStill
  <2>2. hygieneReceipt' \in {hygieneReceipt, [status |-> "blocked"], [status |-> "ready"]}
    BY <1>4 DEF ReadHeads
  <2>. QED BY <1>a, <2>1, <2>2 DEF RemoteTyped
<1>5. CASE Settle
  <2>1. UNCHANGED <<branches, openHeads, outsideChanges>>
    BY <1>5 DEF Settle, HygieneStill
  <2>2. hygieneReceipt'.status \in {"success", "partial_failure"}
    BY <1>5 DEF Settle
  <2>. QED BY <1>a, <2>1, <2>2
<1>6. ASSUME NEW answer, DeleteNext(answer) PROVE RemoteTyped'
  <2>1. branches' = branches \/ \E b : branches' = Restrict(branches, DOMAIN branches \ {b})
    BY <1>6 DEF DeleteNext
  <2>2. DOMAIN branches' \subseteq DOMAIN branches
    BY <2>1 DEF Restrict
  <2>3. UNCHANGED <<openHeads, outsideChanges, hygieneReceipt>>
    BY <1>6 DEF DeleteNext
  <2>. QED BY <2>2, <2>3 DEF RemoteTyped
<1>7. ASSUME NEW b \in ToSet(BranchOrder), NEW s, Push(b, s) \/ OpenPullRequest(b) \/ Protect(b)
      PROVE  RemoteTyped'
  <2>1. outsideChanges' \in 0 .. MaxOutsideChanges
    BY <1>7, GovernanceBounds DEF Push, OpenPullRequest, Protect, Outside, RemoteTyped
  <2>2. DOMAIN branches' \subseteq DOMAIN branches \cup {b}
    BY <1>7 DEF Push, OpenPullRequest, Protect
  <2>3. openHeads' \subseteq openHeads \cup {b} /\ UNCHANGED hygieneReceipt
    BY <1>7 DEF Push, OpenPullRequest, Protect
  <2>. QED BY <2>1, <2>2, <2>3 DEF RemoteTyped
<1>. QED BY <1>1, <1>2, <1>3, <1>4, <1>5, <1>6, <1>7 DEF HygieneNext

LEMMA RulesStayTyped ==
    RulesTyped /\ outsideChanges \in 0 .. MaxOutsideChanges /\ RulesNext =>
        /\ RulesTyped' /\ outsideChanges' \in 0 .. MaxOutsideChanges
        /\ UNCHANGED <<branches, openHeads, hygiene, hygieneReceipt>>
<1>. SUFFICES ASSUME RulesTyped, outsideChanges \in 0 .. MaxOutsideChanges, RulesNext
              PROVE  /\ RulesTyped' /\ outsideChanges' \in 0 .. MaxOutsideChanges
                     /\ UNCHANGED <<branches, openHeads, hygiene, hygieneReceipt>>
  OBVIOUS
<1>1. UNCHANGED hygieneVars
  BY DEF RulesNext, StartGovernance, FindRuleset, WriteRuleset, WriteSettings, ListLabels, WriteLabel, LabelsWritten,
         VerifyRuleset, VerifySettings, VerifyLabels, GovernanceStops, Administer, RulesStill
<1>2. /\ undisturbed' \in {undisturbed, TRUE, FALSE}
      /\ \/ outsideChanges' = outsideChanges
         \/ outsideChanges < MaxOutsideChanges /\ outsideChanges' = outsideChanges + 1
  BY DEF RulesNext, StartGovernance, FindRuleset, WriteRuleset, WriteSettings, ListLabels, WriteLabel, LabelsWritten,
         VerifyRuleset, VerifySettings, VerifyLabels, GovernanceStops, Administer, RulesStill, Outside
<1>3. governed' = governed \/ governed'.status = "passed"
  <2>1. CASE VerifyLabels
    BY <2>1 DEF VerifyLabels
  <2>2. CASE ~VerifyLabels
    BY <2>2 DEF RulesNext, StartGovernance, FindRuleset, WriteRuleset, WriteSettings, ListLabels, WriteLabel,
         LabelsWritten, VerifyRuleset, VerifySettings, GovernanceStops, Administer
  <2>. QED BY <2>1, <2>2
<1>4. outsideChanges' \in 0 .. MaxOutsideChanges
  BY <1>2, GovernanceBounds
<1>5. RulesTyped'
  BY <1>2, <1>3 DEF RulesTyped
<1>. QED BY <1>1, <1>4, <1>5 DEF hygieneVars

(* The values of both commands' state, for all branches, policies,            *)
(* configurations and numbers of commands.                                    *)
THEOREM GovernanceTypeCorrect == GovernanceSpec => []GovernanceTypeOK
<1>. DEFINE Typed == RemoteTyped /\ RulesTyped /\ CommandsCounted
<1>1. GovernanceInit => Typed
  BY GovernanceAssumption, GovernanceBounds
  DEF GovernanceAssumption, GovernanceInit, RemoteTyped, RulesTyped, CommandsCounted, NoReceipt
<1>2. Typed /\ [HygieneNext \/ RulesNext]_governanceVars => Typed'
  <2>. SUFFICES ASSUME Typed, [HygieneNext \/ RulesNext]_governanceVars PROVE Typed'
    OBVIOUS
  <2>1. CASE UNCHANGED governanceVars
    BY <2>1 DEF governanceVars, hygieneVars, rulesVars, RemoteTyped, RulesTyped, CommandsCounted
  <2>2. CASE HygieneNext
    <3>1. UNCHANGED rulesVars
      BY <2>2 DEF HygieneNext, StartHygiene, HygieneStill, ReadRepository, ListPage, ReadHeads, DeleteNext,
           DeletionsDone, Settle, HygieneStops, Push, OpenPullRequest, Protect
    <3>2. UNCHANGED governanceCommands \/ BeginCommand
      BY <2>2 DEF HygieneNext, StartHygiene, HygieneStill, ReadRepository, ListPage, ReadHeads, DeleteNext,
           DeletionsDone, Settle, HygieneStops, Push, OpenPullRequest, Protect
    <3>3. CommandsCounted'
      BY <3>2, GovernanceBounds DEF CommandsCounted, BeginCommand
    <3>. QED BY <2>2, <3>1, <3>3, HygieneStaysTyped DEF RulesTyped, rulesVars
  <2>3. CASE RulesNext
    <3>1. UNCHANGED governanceCommands \/ BeginCommand
      BY <2>3 DEF RulesNext, StartGovernance, FindRuleset, WriteRuleset, WriteSettings, ListLabels, WriteLabel,
         LabelsWritten, VerifyRuleset, VerifySettings, VerifyLabels, GovernanceStops, Administer, RulesStill
    <3>2. CommandsCounted'
      BY <3>1, GovernanceBounds DEF CommandsCounted, BeginCommand
    <3>3. /\ RulesTyped' /\ outsideChanges' \in 0 .. MaxOutsideChanges
          /\ UNCHANGED <<branches, openHeads, hygiene, hygieneReceipt>>
      BY <2>3, RulesStayTyped DEF RemoteTyped
    <3>. QED BY <3>2, <3>3 DEF RemoteTyped
  <2>. QED BY <2>1, <2>2, <2>3
<1>3. LossInv /\ RulesInv /\ Typed => GovernanceTypeOK
  <2>. SUFFICES ASSUME LossInv, RulesInv, Typed PROVE GovernanceTypeOK
    OBVIOUS
  <2>1. hygiene.at \in {"idle", "repository", "listing", "heads", "delete", "after", "settle"}
    BY DEF LossInv, HygieneShaped, NoWork
  <2>2. governance.at \in {"idle", "find", "ruleset", "settings", "labels", "label", "verify",
                          "verify settings", "verify labels"}
    <3>1. CASE governance = NoWork
      <4>1. governance.at = "idle"
        BY <3>1 DEF NoWork
      <4>. QED BY <4>1, Zenon
    <3>2. CASE governance # NoWork
      <4>1. governance.at \in {"find", "ruleset", "settings", "labels", "label", "verify", "verify settings",
                               "verify labels"}
        BY <3>2, Zenon DEF RulesInv, GovernanceShaped
      <4>. QED BY <4>1, Zenon
    <3>. QED BY <3>1, <3>2
  <2>3. /\ DOMAIN branches \subseteq ToSet(BranchOrder) /\ openHeads \subseteq ToSet(BranchOrder)
        /\ hygieneReceipt.status \in {"none", "blocked", "ready", "success", "partial_failure"}
        /\ outsideChanges \in 0 .. MaxOutsideChanges
    BY DEF RemoteTyped
  <2>4. governed.status \in {"none", "passed"} /\ undisturbed \in BOOLEAN
    BY DEF RulesTyped
  <2>5. governanceCommands \in 0 .. MaxGovernanceCommands
    BY DEF CommandsCounted
  <2>. HIDE DEF Typed
  <2>. QED BY <2>1, <2>2, <2>3, <2>4, <2>5, Zenon DEF GovernanceTypeOK
<1>. QED BY <1>1, <1>2, <1>3, GovernanceInvariant, PTL DEF GovernanceSpec

-----------------------------------------------------------------------------
(* RoadmapControl.  What a consistent manifest lets a started task rest on is *)
(* done with its evidence, however far back; a passed validation is of a      *)
(* consistent manifest, and next offers what the one it validated lists.      *)

Started(m, t) == m.tasks[t].status \in {"READY", "IN_PROGRESS", "REVIEW", "DONE"}
DoneWithEvidence(m, d) == d \in TaskIds(m) /\ m.tasks[d].status = "DONE" /\ m.tasks[d].evidence # {}

LEMMA ReachedUnfolds ==
    ASSUME NEW m, \A t \in TaskIds(m) : m.tasks[t].dependsOn \subseteq TaskIds(m)
    PROVE  /\ ReachedIn(m)[0] = DependsOn(m)
           /\ \A n \in Nat : ReachedIn(m)[n + 1] =
                 [t \in TaskIds(m) |-> ReachedIn(m)[n][t] \cup
                     UNION {ReachedIn(m)[n][d] : d \in ReachedIn(m)[n][t] \cap TaskIds(m)}]
<1>. DEFINE ids == TaskIds(m)
            X == [ids -> SUBSET ids]
            Wider(x) == [t \in ids |-> x[t] \cup UNION {x[d] : d \in x[t] \cap ids}]
            G == [n \in Nat |-> [x \in X |-> Wider(x)]]
<1>1. DependsOn(m) \in X
  BY DEF DependsOn
<1>2. G \in [Nat -> [X -> X]]
  <2>1. ASSUME NEW x \in X PROVE Wider(x) \in X
    OBVIOUS
  <2>. HIDE DEF Wider, X
  <2>. QED BY <2>1
<1>3. PICK f \in [Nat -> X] : f[0] = DependsOn(m) /\ \A n \in Nat : f[n + 1] = G[n][f[n]]
  <2>1. Stepwise(X, DependsOn(m), G)
    BY <1>1, <1>2, RecursionOnNat, Zenon
  <2>. QED BY <2>1, Zenon DEF Stepwise
<1>4. \A n \in Nat : f[n + 1] = Wider(f[n])
  <2>. HIDE DEF Wider, X
  <2>. QED BY <1>3
<1>5. f = [n \in Nat |-> IF n = 0 THEN DependsOn(m) ELSE Wider(f[n - 1])]
  <2>1. ASSUME NEW n \in Nat, n # 0 PROVE f[n] = Wider(f[n - 1])
    <3>1. n - 1 \in Nat /\ (n - 1) + 1 = n
      BY <2>1
    <3>. HIDE DEF Wider
    <3>. QED BY <1>4, <3>1
  <2>. HIDE DEF Wider
  <2>. QED BY <1>3, <2>1
<1>6. ReachedIn(m) = [n \in Nat |-> IF n = 0 THEN DependsOn(m) ELSE Wider(ReachedIn(m)[n - 1])]
  BY <1>5, Zenon DEF ReachedIn
<1>. HIDE DEF Wider
<1>7. ASSUME NEW n \in Nat PROVE ReachedIn(m)[n + 1] = Wider(ReachedIn(m)[n])
  <2>1. n + 1 \in Nat /\ n + 1 # 0 /\ (n + 1) - 1 = n
    OBVIOUS
  <2>2. ReachedIn(m)[n + 1] = Wider(ReachedIn(m)[(n + 1) - 1])
    BY <1>6, <2>1, Zenon
  <2>. QED BY <2>1, <2>2, Zenon
<1>8. ReachedIn(m)[0] = DependsOn(m)
  BY <1>6
<1>. QED BY <1>7, <1>8 DEF Wider

LEMMA ConsistentManifestsReachDone ==
    ASSUME NEW m \in Roadmaps, NEW strict, ManifestConsistent(m, strict), NEW t \in TaskIds(m), Started(m, t),
           NEW d \in Reached(m)[t]
    PROVE  d # t /\ DoneWithEvidence(m, d)
<1>1. \A u \in TaskIds(m) : /\ m.tasks[u].dependsOn \subseteq TaskIds(m)
                            /\ Started(m, u) => DependenciesDone(m, u)
                            /\ m.tasks[u].status = "DONE" => m.tasks[u].evidence # {}
  BY DEF ManifestConsistent, StatusJustified, Started
<1>. DEFINE reach == ReachedIn(m)
            S == {n \in Nat : \A u \in TaskIds(m) : Started(m, u) => \A e \in reach[n][u] : DoneWithEvidence(m, e)}
<1>2. 0 \in S
  <2>1. reach[0] = [u \in TaskIds(m) |-> m.tasks[u].dependsOn]
    BY <1>1, ReachedUnfolds DEF DependsOn
  <2>. HIDE DEF reach
  <2>. QED BY <1>1, <2>1 DEF DoneWithEvidence, DependenciesDone
<1>3. ASSUME NEW n \in Nat, n \in S PROVE n + 1 \in S
  <2>1. reach[n + 1] = [u \in TaskIds(m) |-> reach[n][u] \cup UNION {reach[n][e] : e \in reach[n][u] \cap TaskIds(m)}]
    BY <1>1, ReachedUnfolds
  <2>2. \A e : DoneWithEvidence(m, e) => e \in TaskIds(m) /\ Started(m, e)
    BY DEF DoneWithEvidence, Started
  <2>. HIDE DEF reach
  <2>. QED BY <1>3, <2>1, <2>2
<1>4. Nat \subseteq S
  <2>. HIDE DEF S
  <2>. QED BY <1>2, <1>3, CountingUp
<1>5. Cardinality(TaskIds(m)) \in Nat
  BY RoadmapAssumption, FS_CardinalityType DEF RoadmapAssumption, TaskIds
<1>6. DoneWithEvidence(m, d)
  BY <1>4, <1>5 DEF Reached
<1>7. d # t
  BY DEF ManifestConsistent, Acyclic
<1>. QED BY <1>6, <1>7

(* Ordering a set adds nothing to it.                                        *)
LEMMA OrderedHolds ==
    ASSUME NEW tasks
    PROVE  ToSet(Ordered(tasks)) \subseteq tasks
<1>. DEFINE Values == {TaskOrder[n] : n \in Nat}
            X == Seq(Values)
            With(n, x) == IF TaskOrder[n] \in tasks THEN Append(x, TaskOrder[n]) ELSE x
            G == [n \in Nat |-> [x \in X |-> With(n + 1, x)]]
            none == <<>>
            upTo == CHOOSE f : f = [n \in Nat |-> IF n = 0 THEN <<>> ELSE With(n, f[n - 1])]
<1>1. none \in X
  OBVIOUS
<1>2. G \in [Nat -> [X -> X]]
  <2>1. ASSUME NEW n \in Nat, NEW x \in X PROVE With(n + 1, x) \in X
    <3>1. TaskOrder[n + 1] \in Values
      OBVIOUS
    <3>. HIDE DEF Values
    <3>. QED BY <3>1
  <2>. HIDE DEF With, X
  <2>. QED BY <2>1
<1>3. PICK f \in [Nat -> X] : f[0] = none /\ \A n \in Nat : f[n + 1] = G[n][f[n]]
  <2>. HIDE DEF G, X, none
  <2>1. Stepwise(X, none, G)
    BY <1>1, <1>2, RecursionOnNat, Zenon
  <2>. QED BY <2>1, Zenon DEF Stepwise
<1>4. f = [n \in Nat |-> IF n = 0 THEN none ELSE With(n, f[n - 1])]
  <2>0. \A n \in Nat : f[n + 1] = With(n + 1, f[n])
    <3>. HIDE DEF With, X, none
    <3>. QED BY <1>3
  <2>. HIDE DEF With, X, G, none
  <2>1. ASSUME NEW n \in Nat, n # 0 PROVE f[n] = With(n, f[n - 1])
    <3>1. n - 1 \in Nat /\ (n - 1) + 1 = n
      BY <2>1
    <3>2. f[(n - 1) + 1] = With((n - 1) + 1, f[n - 1])
      BY <2>0, <3>1
    <3>. QED BY <3>1, <3>2
  <2>. QED BY <1>3, <2>1
<1>5. upTo = [n \in Nat |-> IF n = 0 THEN <<>> ELSE With(n, upTo[n - 1])]
  BY <1>4, Zenon
<1>6. Ordered(tasks) = upTo[Len(TaskOrder)]
  BY DEF Ordered
<1>. HIDE DEF upTo
<1>. DEFINE S == {n \in Nat : upTo[n] \in Seq(tasks)}
<1>7. 0 \in S
  BY <1>5
<1>8. ASSUME NEW n \in Nat, n \in S PROVE n + 1 \in S
  <2>. HIDE DEF With
  <2>1. n + 1 \in Nat /\ n + 1 # 0 /\ (n + 1) - 1 = n
    OBVIOUS
  <2>2. upTo[n + 1] = With(n + 1, upTo[(n + 1) - 1])
    BY <1>5, <2>1, Zenon
  <2>3. upTo[n + 1] = With(n + 1, upTo[n])
    BY <2>1, <2>2, Zenon
  <2>4. upTo[n] \in Seq(tasks)
    BY <1>8
  <2>5. \A x \in Seq(tasks), v \in tasks : Append(x, v) \in Seq(tasks)
    OBVIOUS
  <2>6. With(n + 1, upTo[n]) \in Seq(tasks)
    BY <2>4, <2>5, Zenon DEF With
  <2>. QED BY <2>1, <2>3, <2>6
<1>9. Nat \subseteq S
  <2>. HIDE DEF S
  <2>. QED BY <1>7, <1>8, CountingUp
<1>10. Len(TaskOrder) \in Nat
  BY RoadmapAssumption DEF RoadmapAssumption
<1>11. Ordered(tasks) \in Seq(tasks)
  BY <1>6, <1>9, <1>10
<1>. QED BY <1>11 DEF ToSet

RoadmapInv ==
    /\ roadmap \in Roadmaps
    /\ roadmapCommand.at \in {"master", "status", "files", "reload"} =>
          /\ roadmapCommand.manifest \in Roadmaps
          /\ roadmapCommand = [at |-> roadmapCommand.at, purpose |-> roadmapCommand.purpose,
                               strict |-> roadmapCommand.strict, manifest |-> roadmapCommand.manifest,
                               agrees |-> roadmapCommand.agrees]
    /\ "at" \in DOMAIN roadmapCommand
    /\ roadmapCommand.at = "reload" => ManifestConsistent(roadmapCommand.manifest, roadmapCommand.strict)
    /\ roadmapReport.passed =>
          roadmapReport.manifest \in Roadmaps /\ ManifestConsistent(roadmapReport.manifest, roadmapReport.strict)
    /\ offered.reloaded = offered.manifest => offered.tasks \subseteq Ready(offered.manifest)

LEMMA RoadmapInvOffers == RoadmapInv => OfferedWorkIsReady
<1>. SUFFICES ASSUME RoadmapInv PROVE OfferedWorkIsReady
  OBVIOUS
<1>1. ASSUME roadmapReport.passed, NEW t \in TaskIds(roadmapReport.manifest), Started(roadmapReport.manifest, t),
             NEW d \in Reached(roadmapReport.manifest)[t]
      PROVE  d # t /\ DoneWithEvidence(roadmapReport.manifest, d)
  <2>1. roadmapReport.manifest \in Roadmaps /\ ManifestConsistent(roadmapReport.manifest, roadmapReport.strict)
    BY <1>1 DEF RoadmapInv
  <2>. QED BY <1>1, <2>1, ConsistentManifestsReachDone
<1>. QED BY <1>1 DEF OfferedWorkIsReady, RoadmapInv, Started, DoneWithEvidence

LEMMA RoadmapInvStep == RoadmapInv /\ [RoadmapNext]_roadmapVars => RoadmapInv'
<1>. SUFFICES ASSUME RoadmapInv, [RoadmapNext]_roadmapVars PROVE RoadmapInv'
  OBVIOUS
<1>. USE DEF BeginRoadmapCommand, CommandStill, BeginRoadmapEdit, EditStill, NoRoadmapCommand
<1>1. ASSUME NEW purpose \in {"validate", "next", "explain"}, NEW strict \in BOOLEAN, StartValidate(purpose, strict)
      PROVE  RoadmapInv'
  <2>1. CASE roadmap.parses
    BY <1>1, <2>1 DEF StartValidate, RoadmapInv
  <2>2. CASE ~roadmap.parses
    BY <1>1, <2>2 DEF StartValidate, RoadmapInv
  <2>. QED BY <2>1, <2>2
<1>2. CASE ReadMaster
  <2>1. PICK agrees : roadmapCommand' = [roadmapCommand EXCEPT !.at = "status", !.agrees = agrees]
    BY <1>2 DEF ReadMaster
  <2>. QED BY <1>2, <2>1 DEF ReadMaster, RoadmapInv
<1>3. CASE ReadStatus
  <2>1. PICK agrees : roadmapCommand' = [roadmapCommand EXCEPT !.at = "files", !.agrees = agrees]
    BY <1>3 DEF ReadStatus
  <2>. QED BY <1>3, <2>1 DEF ReadStatus, RoadmapInv
<1>4. CASE ReportRoadmap
  <2>. DEFINE m == roadmapCommand.manifest
              passed == /\ roadmapCommand.agrees /\ FilesPresent(m) /\ AuthorityClear
                        /\ ManifestConsistent(m, roadmapCommand.strict)
  <2>1. /\ roadmapCommand.at = "files" /\ m \in Roadmaps /\ UNCHANGED <<roadmap, offered>>
        /\ roadmapReport' = [passed |-> passed, strict |-> roadmapCommand.strict, manifest |-> m]
        /\ roadmapCommand' = NoRoadmapCommand
           \/ (passed /\ roadmapCommand' = [roadmapCommand EXCEPT !.at = "reload"])
    BY <1>4 DEF ReportRoadmap, RoadmapInv
  <2>2. passed => ManifestConsistent(m, roadmapCommand.strict)
    OBVIOUS
  <2>. HIDE DEF passed
  <2>3. roadmapReport'.passed =>
          roadmapReport'.manifest \in Roadmaps /\ ManifestConsistent(roadmapReport'.manifest, roadmapReport'.strict)
    BY <2>1, <2>2
  <2>4. CASE roadmapCommand' = NoRoadmapCommand
    BY <2>1, <2>3, <2>4 DEF RoadmapInv
  <2>5. CASE passed /\ roadmapCommand' = [roadmapCommand EXCEPT !.at = "reload"]
    BY <2>1, <2>2, <2>3, <2>5 DEF RoadmapInv
  <2>. QED BY <2>1, <2>4, <2>5
<1>5. CASE Reload
  <2>1. /\ roadmapCommand' = NoRoadmapCommand /\ UNCHANGED <<roadmap, roadmapReport>>
        /\ ManifestConsistent(roadmapCommand.manifest, roadmapCommand.strict)
    BY <1>5 DEF Reload, RoadmapInv
  <2>2. offered'.reloaded = offered'.manifest => offered'.tasks \subseteq Ready(offered'.manifest)
    <3>1. CASE offered' = offered
      BY <3>1 DEF RoadmapInv
    <3>2. CASE offered' # offered
      <4>1. offered' = [tasks |-> ToSet(roadmap.nextReady), manifest |-> roadmapCommand.manifest,
                        reloaded |-> roadmap]
        BY <1>5, <3>2 DEF Reload
      <4>2. roadmapCommand.manifest.nextReady = Ordered(Ready(roadmapCommand.manifest))
        BY <2>1 DEF ManifestConsistent
      <4>3. ToSet(roadmapCommand.manifest.nextReady) \subseteq Ready(roadmapCommand.manifest)
        BY <4>2, OrderedHolds
      <4>. QED BY <4>1, <4>3
    <3>. QED BY <3>1, <3>2
  <2>. QED BY <2>1, <2>2 DEF RoadmapInv
<1>6. CASE StartRender
  BY <1>6 DEF StartRender, RoadmapInv
<1>7. CASE WriteStatus
  <2>1. /\ roadmapCommand'.at = "write handoff" /\ DOMAIN roadmapCommand' = DOMAIN roadmapCommand
        /\ UNCHANGED <<roadmap, roadmapReport, offered>>
    BY <1>7 DEF WriteStatus, RoadmapInv
  <2>. QED BY <2>1 DEF RoadmapInv
<1>8. CASE WriteHandoff
  BY <1>8 DEF WriteHandoff, RoadmapInv
<1>9. CASE RoadmapCommandStops
  BY <1>9 DEF RoadmapCommandStops, RoadmapInv
<1>10. ASSUME NEW m \in Roadmaps, EditRoadmap(m) PROVE RoadmapInv'
  BY <1>10 DEF EditRoadmap, RoadmapInv
<1>11. CASE \/ \E text \in Masters : EditMaster(text)
            \/ \E path \in RoadmapPaths : RemoveFile(path)
            \/ ClaimAuthority("docs/roadmap/OLD.md")
  BY <1>11 DEF EditMaster, RemoveFile, ClaimAuthority, RoadmapInv
<1>12. CASE UNCHANGED roadmapVars
  BY <1>12 DEF roadmapVars, RoadmapInv
<1>. QED BY <1>1, <1>2, <1>3, <1>4, <1>5, <1>6, <1>7, <1>8, <1>9, <1>10, <1>11, <1>12 DEF RoadmapNext

(* A validation that passes vouches for everything a started task rests on,   *)
(* however long the chain of its dependencies, and next offers ready tasks,   *)
(* for every manifest, constitution and number of commands and edits.         *)
THEOREM OfferedIsReady == RoadmapSpec => []OfferedWorkIsReady
<1>1. RoadmapInit => RoadmapInv
  BY DEF RoadmapInit, RoadmapInv, NoRoadmapCommand
<1>. QED BY <1>1, RoadmapInvStep, RoadmapInvOffers, PTL DEF RoadmapSpec

(* The values of the control plane's state.                                   *)
RenderShaped ==
    roadmapCommand.at \in {"write status", "write handoff"} =>
        roadmapCommand \in [at : {"write status", "write handoff"}, manifest : Roadmaps]

TextsTyped ==
    /\ roadmapFiles \subseteq RoadmapPaths
    /\ DOMAIN statusText.statuses \subseteq ToSet(TaskOrder)
    /\ handoffText.underReview \subseteq ToSet(TaskOrder)

RoadmapCounted ==
    roadmapCommands \in 0 .. MaxRoadmapCommands /\ roadmapEdits \in 0 .. MaxRoadmapEdits

CommandTyped ==
    roadmapCommand.at \in {"idle", "master", "status", "files", "reload", "write status", "write handoff"}

RoadmapTyped ==
    RenderShaped /\ TextsTyped /\ RoadmapCounted /\ CommandTyped /\ roadmapReport.passed \in BOOLEAN

LEMMA RenderedTyped ==
    ASSUME NEW m \in Roadmaps
    PROVE  /\ DOMAIN RenderedStatus(m).statuses \subseteq ToSet(TaskOrder)
           /\ RenderedHandoff(m).underReview \subseteq ToSet(TaskOrder)
  BY RoadmapAssumption DEF RoadmapAssumption, RenderedStatus, RenderedHandoff, TaskIds

LEMMA CommandMovesTyped ==
    ASSUME RoadmapInv, RoadmapTyped, RoadmapNext
    PROVE  RenderShaped' /\ CommandTyped'
<1>1. ASSUME NEW purpose, NEW strict, StartValidate(purpose, strict) PROVE RenderShaped' /\ CommandTyped'
  <2>1. \/ roadmapCommand' = roadmapCommand
        \/ roadmapCommand' = [at |-> "master", purpose |-> purpose, strict |-> strict,
                              manifest |-> roadmap, agrees |-> TRUE]
    BY <1>1 DEF StartValidate
  <2>2. CASE roadmapCommand' = roadmapCommand
    BY <2>2 DEF RoadmapTyped, RenderShaped, CommandTyped
  <2>3. CASE roadmapCommand' = [at |-> "master", purpose |-> purpose, strict |-> strict,
                                manifest |-> roadmap, agrees |-> TRUE]
    <3>1. roadmapCommand'.at = "master"
      BY <2>3
    <3>. QED BY <3>1 DEF RenderShaped, CommandTyped
  <2>. QED BY <2>1, <2>2, <2>3
<1>2. CASE ReadMaster \/ ReadStatus \/ ReportRoadmap
  <2>1. "at" \in DOMAIN roadmapCommand
    BY DEF RoadmapInv
  <2>2. CASE ReadMaster
    <3>1. roadmapCommand'.at = "status"
      BY <2>1, <2>2 DEF ReadMaster
    <3>. QED BY <3>1 DEF RenderShaped, CommandTyped
  <2>3. CASE ReadStatus
    <3>1. roadmapCommand'.at = "files"
      BY <2>1, <2>3 DEF ReadStatus
    <3>. QED BY <3>1 DEF RenderShaped, CommandTyped
  <2>4. CASE ReportRoadmap
    <3>1. roadmapCommand' = NoRoadmapCommand \/ roadmapCommand' = [roadmapCommand EXCEPT !.at = "reload"]
      BY <2>4, Zenon DEF ReportRoadmap
    <3>2. CASE roadmapCommand' = NoRoadmapCommand
      BY <3>2 DEF NoRoadmapCommand, RenderShaped, CommandTyped
    <3>3. CASE roadmapCommand' = [roadmapCommand EXCEPT !.at = "reload"]
      <4>1. roadmapCommand'.at = "reload"
        BY <2>1, <3>3
      <4>. QED BY <4>1 DEF RenderShaped, CommandTyped
    <3>. QED BY <3>1, <3>2, <3>3
  <2>. QED BY <1>2, <2>2, <2>3, <2>4
<1>4. CASE Reload \/ WriteHandoff \/ RoadmapCommandStops
  <2>1. roadmapCommand' = NoRoadmapCommand
    BY <1>4, Zenon DEF Reload, WriteHandoff, RoadmapCommandStops
  <2>. QED BY <2>1 DEF NoRoadmapCommand, RenderShaped, CommandTyped
<1>5. CASE StartRender
  <2>1. roadmapCommand' = NoRoadmapCommand \/ roadmapCommand' = [at |-> "write status", manifest |-> roadmap]
    BY <1>5, Zenon DEF StartRender
  <2>2. CASE roadmapCommand' = NoRoadmapCommand
    BY <2>2 DEF NoRoadmapCommand, RenderShaped, CommandTyped
  <2>3. CASE roadmapCommand' = [at |-> "write status", manifest |-> roadmap]
    BY <2>3 DEF RenderShaped, CommandTyped, RoadmapInv
  <2>. QED BY <2>1, <2>2, <2>3
<1>6. CASE WriteStatus
  <2>1. /\ roadmapCommand \in [at : {"write status", "write handoff"}, manifest : Roadmaps]
        /\ roadmapCommand' = [roadmapCommand EXCEPT !.at = "write handoff"]
    BY <1>6 DEF WriteStatus, RoadmapTyped, RenderShaped
  <2>2. roadmapCommand' \in [at : {"write status", "write handoff"}, manifest : Roadmaps]
    BY <2>1
  <2>. QED BY <2>2 DEF RenderShaped, CommandTyped
<1>7. CASE UNCHANGED roadmapCommand
  BY <1>7 DEF RoadmapTyped, RenderShaped, CommandTyped
<1>. QED BY <1>1, <1>2, <1>4, <1>5, <1>6, <1>7
     DEF RoadmapNext, EditRoadmap, EditMaster, RemoveFile, ClaimAuthority, EditStill

LEMMA TextsStayTyped ==
    ASSUME RoadmapInv, RoadmapTyped, RoadmapNext
    PROVE  TextsTyped'
<1>1. CASE WriteStatus
  <2>1. statusText' = RenderedStatus(roadmapCommand.manifest) /\ roadmapCommand.manifest \in Roadmaps
    BY <1>1 DEF WriteStatus, RoadmapTyped, RenderShaped
  <2>2. UNCHANGED <<roadmapFiles, handoffText>>
    BY <1>1 DEF WriteStatus
  <2>. QED BY <2>1, <2>2, RenderedTyped DEF RoadmapTyped, TextsTyped
<1>2. CASE WriteHandoff
  <2>1. handoffText' = RenderedHandoff(roadmapCommand.manifest) /\ roadmapCommand.manifest \in Roadmaps
    BY <1>2 DEF WriteHandoff, RoadmapTyped, RenderShaped
  <2>2. UNCHANGED <<roadmapFiles, statusText>>
    BY <1>2 DEF WriteHandoff
  <2>. QED BY <2>1, <2>2, RenderedTyped DEF RoadmapTyped, TextsTyped
<1>3. CASE ~WriteStatus /\ ~WriteHandoff
  <2>1. roadmapFiles' \subseteq roadmapFiles /\ UNCHANGED <<statusText, handoffText>>
    BY <1>3 DEF RoadmapNext, StartValidate, ReadMaster, ReadStatus, ReportRoadmap, Reload, StartRender,
         RoadmapCommandStops, EditRoadmap, EditMaster, RemoveFile, ClaimAuthority, EditStill, CommandStill, roadmapTexts
  <2>. QED BY <2>1 DEF RoadmapTyped, TextsTyped
<1>. QED BY <1>1, <1>2, <1>3

LEMMA RoadmapStaysTyped == RoadmapInv /\ RoadmapTyped /\ [RoadmapNext]_roadmapVars => RoadmapTyped'
<1>. SUFFICES ASSUME RoadmapInv, RoadmapTyped, [RoadmapNext]_roadmapVars PROVE RoadmapTyped'
  OBVIOUS
<1>1. CASE UNCHANGED roadmapVars
  BY <1>1 DEF roadmapVars, roadmapTexts, RoadmapTyped, RenderShaped, TextsTyped, RoadmapCounted, CommandTyped
<1>2. CASE RoadmapNext
  <2>1. /\ UNCHANGED roadmapCommands \/ BeginRoadmapCommand
        /\ UNCHANGED roadmapEdits \/ BeginRoadmapEdit
    BY <1>2 DEF RoadmapNext, StartValidate, ReadMaster, ReadStatus, ReportRoadmap, Reload, StartRender, WriteStatus,
         WriteHandoff, RoadmapCommandStops, EditRoadmap, EditMaster, RemoveFile, ClaimAuthority, EditStill,
         CommandStill
  <2>2. RoadmapCounted'
    BY <2>1, RoadmapAssumption
    DEF RoadmapAssumption, BeginRoadmapCommand, BeginRoadmapEdit, RoadmapTyped, RoadmapCounted
  <2>3. roadmapReport' = roadmapReport \/ roadmapReport'.passed \in BOOLEAN
    <3>1. CASE ReportRoadmap
      <4>. DEFINE m == roadmapCommand.manifest
                  passed == /\ roadmapCommand.agrees /\ FilesPresent(m) /\ AuthorityClear
                            /\ ManifestConsistent(m, roadmapCommand.strict)
      <4>1. roadmapReport'.passed = passed
        BY <3>1 DEF ReportRoadmap
      <4>2. passed \in BOOLEAN
        BY Zenon
      <4>. HIDE DEF passed
      <4>. QED BY <4>1, <4>2
    <3>2. CASE ~ReportRoadmap
      <4>1. ASSUME NEW purpose, NEW strict, StartValidate(purpose, strict)
            PROVE  roadmapReport' = roadmapReport \/ roadmapReport'.passed \in BOOLEAN
        <5>1. \/ roadmapReport' = roadmapReport
              \/ roadmapReport' = [passed |-> FALSE, strict |-> strict, manifest |-> roadmap]
          BY <4>1, Zenon DEF StartValidate
        <5>2. CASE roadmapReport' = [passed |-> FALSE, strict |-> strict, manifest |-> roadmap]
          <6>1. roadmapReport'.passed = FALSE
            BY <5>2
          <6>. QED BY <6>1
        <5>. QED BY <5>1, <5>2
      <4>2. CASE ReadMaster \/ ReadStatus \/ Reload \/ RoadmapCommandStops
        BY <4>2, Zenon DEF ReadMaster, ReadStatus, Reload, RoadmapCommandStops
      <4>3. CASE StartRender \/ WriteStatus \/ WriteHandoff
        BY <4>3 DEF StartRender, WriteStatus, WriteHandoff
      <4>4. CASE EditStill
        BY <4>4 DEF EditStill
      <4>. QED BY <1>2, <3>2, <4>1, <4>2, <4>3, <4>4
           DEF RoadmapNext, EditRoadmap, EditMaster, RemoveFile, ClaimAuthority
    <3>. QED BY <3>1, <3>2
  <2>4. roadmapReport'.passed \in BOOLEAN
    BY <2>3 DEF RoadmapTyped
  <2>. QED BY <1>2, <2>2, <2>4, CommandMovesTyped, TextsStayTyped, Zenon DEF RoadmapTyped
<1>. QED BY <1>1, <1>2

(* What validate, next and render keep and write is of tasks the control plane   *)
(* knows, for every manifest, constitution and number of commands and edits.  *)
THEOREM RoadmapTypeCorrect == RoadmapSpec => []RoadmapTypeOK
<1>1. RoadmapInit => RoadmapInv /\ RoadmapTyped
  <2>. SUFFICES ASSUME RoadmapInit PROVE RoadmapInv /\ RoadmapTyped
    OBVIOUS
  <2>1. RoadmapInv
    BY DEF RoadmapInit, RoadmapInv, NoRoadmapCommand
  <2>2. TextsTyped
    BY RenderedTyped DEF RoadmapInit, TextsTyped
  <2>3. RenderShaped /\ CommandTyped /\ roadmapReport.passed \in BOOLEAN
    BY DEF RoadmapInit, NoRoadmapCommand, RenderShaped, CommandTyped
  <2>4. RoadmapCounted
    BY RoadmapAssumption DEF RoadmapAssumption, RoadmapInit, RoadmapCounted
  <2>. QED BY <2>1, <2>2, <2>3, <2>4, Zenon DEF RoadmapTyped
<1>2. RoadmapInv /\ RoadmapTyped => RoadmapTypeOK
  BY Zenon DEF RoadmapInv, RoadmapTyped, TextsTyped, RoadmapCounted, CommandTyped, RoadmapTypeOK
<1>. QED BY <1>1, <1>2, RoadmapInvStep, RoadmapStaysTyped, PTL DEF RoadmapSpec

-----------------------------------------------------------------------------
(* The gates.  A name that is counted once for each place in a list is in it   *)
(* at each of them; a sample's place in the order is the number before it.     *)

LEMMA EachIsNamed ==
    ASSUME NEW n \in Nat, NEW S, NEW list \in [1 .. n -> S], NEW Named,
           Cardinality({list[i] : i \in 1 .. n} \cap Named) = n
    PROVE  \A i \in 1 .. n : list[i] \in Named
<1>. DEFINE T == {list[i] : i \in 1 .. n}
<1>1. IsFiniteSet(1 .. n) /\ Cardinality(1 .. n) = n
  BY FS_Interval
<1>2. list \in Surjection(1 .. n, T)
  BY DEF Surjection
<1>3. IsFiniteSet(T) /\ Cardinality(T) <= n
  <2>. HIDE DEF T
  <2>. QED BY <1>1, <1>2, FS_Surjection
<1>4. T \cap Named = T
  <2>1. T \cap Named \in SUBSET T
    OBVIOUS
  <2>. HIDE DEF T
  <2>2. Cardinality(T \cap Named) <= Cardinality(T) /\ (Cardinality(T) = Cardinality(T \cap Named) => T = T \cap Named)
    BY <1>3, <2>1, FS_Subset
  <2>3. Cardinality(T) \in Nat
    BY <1>3, FS_CardinalityType
  <2>4. Cardinality(T \cap Named) = n
    BY DEF T
  <2>. QED BY <1>3, <2>2, <2>3, <2>4
<1>. QED BY <1>4

LEMMA LadderIsHonest ==
    ASSUME NEW d \in ReadinessInputs, AskReadiness(d)
    PROVE  LadderHonest'
<1>1. CASE ~d.parses
  <2>1. gateReport' = [kind |-> "input_invalid"]
    BY <1>1 DEF AskReadiness
  <2>. QED BY <2>1 DEF LadderHonest
<1>2. CASE d.parses
  <2>. DEFINE answer == [p9 |-> P9Blockers(d) \cup GlobalBlockers(d) = {},
                         beta |-> BetaBlockers(d) = {}, rc |-> RcBlockers(d) = {}, ga |-> GaBlockers(d) = {},
                         supported |-> {p \in NamedPlatforms(d) : PlatformBlockers(d, p) = {}}]
  <2>1. gateReport' = [kind |-> "readiness", input |-> d, answer |-> answer]
    BY <1>2 DEF AskReadiness
  <2>2. ASSUME answer.beta PROVE answer.p9 /\ d.platforms # <<>> /\ PlatformListValid(d)
    <3>1. BetaBlockers(d) = {}
      BY <2>2
    <3>2. GlobalBlockers(d) = {} /\ P9Blockers(d) = {}
      BY <3>1 DEF BetaBlockers
    <3>3. PlatformListValid(d)
      BY <3>2 DEF GlobalBlockers
    <3>4. answer.p9
      BY <3>2
    <3>. QED BY <3>3, <3>4 DEF PlatformListValid
  <2>3. ASSUME answer.rc PROVE answer.beta
    <3>1. RcBlockers(d) = {}
      BY <2>3
    <3>. QED BY <3>1 DEF RcBlockers
  <2>4. ASSUME answer.ga
        PROVE  answer.rc /\ \A i \in DOMAIN d.platforms : d.platforms[i] \in answer.supported
    <3>1. GaBlockers(d) = {}
      BY <2>4
    <3>2. RcBlockers(d) = {} /\ \A p \in NamedPlatforms(d) : PlatformBlockers(d, p) = {}
      BY <3>1 DEF GaBlockers
    <3>3. answer.rc
      BY <3>2
    <3>4. PlatformListValid(d)
      BY <2>2, <2>3, <3>3
    <3>5. d.platforms \in Seq(STRING) /\ DOMAIN d.platforms = 1 .. Len(d.platforms) /\ Len(d.platforms) \in Nat
          /\ d.platforms \in [1 .. Len(d.platforms) -> STRING]
      BY GatesAssumption DEF GatesAssumption
    <3>6. \A i \in DOMAIN d.platforms : d.platforms[i] \in ReleasePlatforms
      <4>1. Cardinality({d.platforms[i] : i \in 1 .. Len(d.platforms)} \cap ReleasePlatforms) = Len(d.platforms)
        BY <3>4, <3>5 DEF PlatformListValid, NamedPlatforms
      <4>. HIDE DEF answer
      <4>. QED BY <3>5, <4>1, EachIsNamed
    <3>7. \A i \in DOMAIN d.platforms : d.platforms[i] \in NamedPlatforms(d)
      BY <3>6 DEF NamedPlatforms
    <3>. QED BY <3>2, <3>3, <3>7
  <2>. HIDE DEF answer
  <2>5. gateReport'.answer = answer /\ gateReport'.input = d
    BY <2>1
  <2>. QED BY <2>2, <2>3, <2>4, <2>5 DEF LadderHonest
<1>. QED BY <1>1, <1>2

(* Of a list of numbers one is the largest.                                   *)
LEMMA LargestOfList ==
    ASSUME NEW n \in Nat, n >= 1, NEW f \in [1 .. n -> Nat]
    PROVE  \E m \in {f[i] : i \in DOMAIN f} : \A i \in DOMAIN f : f[i] <= m
<1>. DEFINE P(k) == \E m \in 1 .. n : \A i \in 1 .. n : i <= k => f[i] <= f[m]
            S == {k \in Nat : P(k)}
<1>1. 0 \in S
  BY DEF P
<1>2. ASSUME NEW k \in Nat, k \in S PROVE k + 1 \in S
  <2>1. PICK m \in 1 .. n : \A i \in 1 .. n : i <= k => f[i] <= f[m]
    BY <1>2
  <2>2. CASE k + 1 \in 1 .. n /\ f[k + 1] > f[m]
    <3>1. \A i \in 1 .. n : i <= k + 1 => f[i] <= f[k + 1]
      <4>. SUFFICES ASSUME NEW i \in 1 .. n, i <= k + 1 PROVE f[i] <= f[k + 1]
        OBVIOUS
      <4>1. f[i] \in Nat /\ f[m] \in Nat /\ f[k + 1] \in Nat
        BY <2>2
      <4>2. i = k + 1 \/ i <= k
        OBVIOUS
      <4>. QED BY <2>1, <2>2, <4>1, <4>2
    <3>. QED BY <2>2, <3>1
  <2>3. CASE ~(k + 1 \in 1 .. n /\ f[k + 1] > f[m])
    <3>1. \A i \in 1 .. n : i <= k + 1 => f[i] <= f[m]
      <4>. SUFFICES ASSUME NEW i \in 1 .. n, i <= k + 1 PROVE f[i] <= f[m]
        OBVIOUS
      <4>1. f[i] \in Nat /\ f[m] \in Nat
        OBVIOUS
      <4>2. i = k + 1 \/ i <= k
        OBVIOUS
      <4>. QED BY <2>1, <2>3, <4>1, <4>2
    <3>. QED BY <3>1
  <2>. QED BY <2>2, <2>3
<1>3. Nat \subseteq S
  <2>. HIDE DEF S
  <2>. QED BY <1>1, <1>2, CountingUp
<1>4. P(n)
  BY <1>3
<1>5. PICK m \in 1 .. n : \A i \in 1 .. n : f[i] <= f[m]
  BY <1>4
<1>6. f[m] \in {f[i] : i \in DOMAIN f}
  OBVIOUS
<1>. QED BY <1>5, <1>6

LEMMA NothingObserved ==
    ASSUME NEW n \in Nat, n >= 1, NEW f \in [1 .. n -> Nat], MostOf(f) = 0
    PROVE  \A i \in 1 .. n : f[i] = 0
<1>1. \E m \in {f[i] : i \in DOMAIN f} : \A i \in DOMAIN f : f[i] <= m
  BY LargestOfList
<1>2. \A i \in DOMAIN f : f[i] <= MostOf(f)
  BY <1>1 DEF MostOf
<1>. QED BY <1>2

(* Of samples at different times, each is at the place that the number of those  *)
(* before it says, and every place is taken.                                   *)
SampledApart(file, n) ==
    /\ DOMAIN file = 1 .. n
    /\ \A i \in 1 .. n : file[i].time \in Nat
    /\ Cardinality({file[i].time : i \in 1 .. n}) = n

PlacedBy(file, n, P) ==
    /\ \A k \in 1 .. n : LoadedSamples(file)[k] = file[P[k]]
    /\ \A i \in 1 .. n : \E k \in 1 .. n : P[k] = i
    /\ \A k, l \in 1 .. n : k # l => file[P[k]].time # file[P[l]].time

LEMMA SamplesInOrder ==
    ASSUME NEW file, NEW n \in Nat, SampledApart(file, n)
    PROVE  \E P \in [1 .. n -> 1 .. n] : PlacedBy(file, n, P)
<1>0. /\ DOMAIN file = 1 .. n
      /\ \A i \in 1 .. n : file[i].time \in Nat
      /\ Cardinality({file[i].time : i \in 1 .. n}) = n
  BY DEF SampledApart
<1>. DEFINE at == [i \in 1 .. n |-> file[i].time]
            T == {file[i].time : i \in 1 .. n}
            E(i) == EarlierSamples(file, i)
            place == [i \in 1 .. n |-> Cardinality(E(i)) + 1]
            P == [k \in 1 .. n |-> CHOOSE i \in 1 .. n : Cardinality(E(i)) = k - 1]
<1>1. IsFiniteSet(1 .. n) /\ Cardinality(1 .. n) = n
  BY FS_Interval
<1>2. \A i, j \in 1 .. n : i # j => file[i].time # file[j].time
  <2>1. at \in Surjection(1 .. n, T)
    BY DEF Surjection
  <2>2. at \in Injection(1 .. n, T)
    <3>. HIDE DEF at, T
    <3>1. Cardinality(T) = Cardinality(1 .. n)
      BY <1>0, <1>1 DEF T
    <3>. QED BY <1>1, <2>1, <3>1, FS_Surjection
  <2>. QED BY <2>2 DEF Injection, IsInjective
<1>3. \A i \in 1 .. n :
          /\ E(i) \in SUBSET (1 .. n) /\ IsFiniteSet(E(i)) /\ Cardinality(E(i)) \in Nat
          /\ Cardinality(E(i)) < n
  <2>. SUFFICES ASSUME NEW i \in 1 .. n
                PROVE  /\ E(i) \in SUBSET (1 .. n) /\ IsFiniteSet(E(i)) /\ Cardinality(E(i)) \in Nat
                       /\ Cardinality(E(i)) < n
    OBVIOUS
  <2>1. E(i) \in SUBSET (1 .. n) /\ i \notin E(i)
    BY <1>0 DEF EarlierSamples
  <2>. HIDE DEF E
  <2>2. /\ IsFiniteSet(E(i)) /\ Cardinality(E(i)) <= Cardinality(1 .. n)
        /\ (Cardinality(1 .. n) = Cardinality(E(i)) => 1 .. n = E(i))
    BY <1>1, <2>1, FS_Subset
  <2>3. Cardinality(E(i)) \in Nat
    BY <2>2, FS_CardinalityType
  <2>. QED BY <1>1, <2>1, <2>2, <2>3
<1>4. \A i, j \in 1 .. n : file[i].time < file[j].time => Cardinality(E(i)) < Cardinality(E(j))
  <2>. SUFFICES ASSUME NEW i \in 1 .. n, NEW j \in 1 .. n, file[i].time < file[j].time
                PROVE  Cardinality(E(i)) < Cardinality(E(j))
    OBVIOUS
  <2>1. E(i) \in SUBSET E(j) /\ i \in E(j) /\ i \notin E(i)
    BY <1>0 DEF EarlierSamples
  <2>. HIDE DEF E
  <2>2. /\ Cardinality(E(i)) <= Cardinality(E(j))
        /\ (Cardinality(E(j)) = Cardinality(E(i)) => E(j) = E(i))
    BY <1>3, <2>1, FS_Subset
  <2>. QED BY <1>3, <2>1, <2>2
<1>5. \A i, j \in 1 .. n : Cardinality(E(i)) = Cardinality(E(j)) => i = j
  <2>. SUFFICES ASSUME NEW i \in 1 .. n, NEW j \in 1 .. n, Cardinality(E(i)) = Cardinality(E(j)), i # j
                PROVE  FALSE
    OBVIOUS
  <2>1. file[i].time < file[j].time \/ file[j].time < file[i].time
    BY <1>0, <1>2
  <2>. HIDE DEF E
  <2>. QED BY <1>3, <1>4, <2>1
<1>6. place \in Injection(1 .. n, 1 .. n)
  <2>1. place \in [1 .. n -> 1 .. n]
    <3>. HIDE DEF E
    <3>. QED BY <1>3
  <2>2. \A i, j \in 1 .. n : place[i] = place[j] => i = j
    <3>1. \A i \in 1 .. n : place[i] = Cardinality(E(i)) + 1 /\ Cardinality(E(i)) \in Nat
      BY <1>3
    <3>. HIDE DEF E, place
    <3>. QED BY <1>5, <3>1
  <2>. HIDE DEF place
  <2>. QED BY <2>1, <2>2 DEF Injection, IsInjective
<1>7. place \in Surjection(1 .. n, 1 .. n)
  <2>. HIDE DEF place
  <2>. QED BY <1>1, <1>6, FS_Injection
<1>8. \A k \in 1 .. n : \E i \in 1 .. n : Cardinality(E(i)) = k - 1
  <2>1. \A k \in 1 .. n : \E i \in 1 .. n : place[i] = k
    <3>. HIDE DEF place
    <3>. QED BY <1>7 DEF Surjection
  <2>2. \A i \in 1 .. n : place[i] = Cardinality(E(i)) + 1 /\ Cardinality(E(i)) \in Nat
    BY <1>3
  <2>. SUFFICES ASSUME NEW k \in 1 .. n PROVE \E i \in 1 .. n : Cardinality(E(i)) = k - 1
    OBVIOUS
  <2>. HIDE DEF E, place
  <2>3. PICK i \in 1 .. n : place[i] = k
    BY <2>1
  <2>4. Cardinality(E(i)) + 1 = k /\ Cardinality(E(i)) \in Nat
    BY <2>2, <2>3
  <2>5. Cardinality(E(i)) = k - 1
    BY <2>4
  <2>. QED BY <2>5
<1>. HIDE DEF E, place, at, T
<1>9. \A k \in 1 .. n : P[k] \in 1 .. n /\ Cardinality(E(P[k])) = k - 1
  <2>. SUFFICES ASSUME NEW k \in 1 .. n PROVE P[k] \in 1 .. n /\ Cardinality(E(P[k])) = k - 1
    OBVIOUS
  <2>1. P[k] = CHOOSE i \in 1 .. n : Cardinality(E(i)) = k - 1
    OBVIOUS
  <2>. HIDE DEF P
  <2>. QED BY <1>8, <2>1
<1>10. P \in [1 .. n -> 1 .. n]
  BY <1>9
<1>11. \A k \in 1 .. n : LoadedSamples(file)[k] = file[P[k]]
  BY <1>0 DEF LoadedSamples, E
<1>. HIDE DEF P
<1>12. \A i \in 1 .. n : \E k \in 1 .. n : P[k] = i
  <2>. SUFFICES ASSUME NEW i \in 1 .. n PROVE \E k \in 1 .. n : P[k] = i
    OBVIOUS
  <2>. DEFINE k == Cardinality(E(i)) + 1
  <2>1. k \in 1 .. n /\ k - 1 = Cardinality(E(i))
    BY <1>3
  <2>2. Cardinality(E(P[k])) = Cardinality(E(i)) /\ P[k] \in 1 .. n
    <3>. HIDE DEF k
    <3>. QED BY <1>9, <2>1
  <2>3. P[k] = i
    BY <1>5, <2>2
  <2>. HIDE DEF k
  <2>. QED BY <2>1, <2>3
<1>13. \A k, l \in 1 .. n : k # l => file[P[k]].time # file[P[l]].time
  <2>1. \A k, l \in 1 .. n : k # l => P[k] # P[l]
    BY <1>9
  <2>. QED BY <1>2, <1>9, <2>1
<1>. QED BY <1>10, <1>11, <1>12, <1>13 DEF PlacedBy

SoakTold(s) ==
    /\ \A i \in DOMAIN s : s[i].crashes = 0 /\ s[i].unauthorized = 0
    /\ \E i, j \in DOMAIN s : s[j].time - s[i].time >= SoakBudget.hours
    /\ \A rate \in 0 .. 8 :
          (\A i, j \in DOMAIN s : s[j].rss - s[i].rss = rate * (s[j].time - s[i].time)) =>
             rate <= SoakBudget.rss

LEMMA PassedSoakIsTold ==
    ASSUME NEW file \in Seq(SoakSamples), SamplesValid(file), SoakPasses(LoadedSamples(file), SoakBudget)
    PROVE  SoakTold(file)
<1>. DEFINE n == Len(file)
            s == LoadedSamples(file)
<1>1. n \in Nat /\ DOMAIN file = 1 .. n /\ \A i \in 1 .. n : file[i] \in SoakSamples
  OBVIOUS
<1>2. \A i \in 1 .. n : /\ file[i].time \in Nat /\ file[i].rss \in Nat
                       /\ file[i].crashes \in Nat /\ file[i].unauthorized \in Nat
  BY <1>1, GatesAssumption DEF SamplesValid, GatesAssumption
<1>30. PICK P \in [1 .. n -> 1 .. n] : PlacedBy(file, n, P)
  <2>1. Cardinality({file[i].time : i \in 1 .. n}) = n
    BY <1>1 DEF SamplesValid
  <2>2. SampledApart(file, n)
    BY <1>1, <1>2, <2>1 DEF SampledApart
  <2>. HIDE DEF n
  <2>. QED BY <1>1, <2>2, SamplesInOrder
<1>3. /\ \A k \in 1 .. n : s[k] = file[P[k]]
      /\ \A i \in 1 .. n : \E k \in 1 .. n : P[k] = i
      /\ \A k, l \in 1 .. n : k # l => file[P[k]].time # file[P[l]].time
  BY <1>30 DEF PlacedBy
<1>4. s \in Seq(SoakSamples) /\ Len(s) = n /\ DOMAIN s = 1 .. n
  <2>1. DOMAIN s = 1 .. n /\ s = [k \in 1 .. n |-> s[k]]
    BY <1>1 DEF LoadedSamples
  <2>2. s \in [1 .. n -> SoakSamples]
    <3>. HIDE DEF s, n
    <3>. QED BY <1>1, <1>3, <2>1
  <2>. HIDE DEF s, n
  <2>. QED BY <1>1, <2>1, <2>2
<1>5. /\ n >= 2
      /\ s[n].time - s[1].time >= SoakBudget.hours
      /\ SlopeAtMost(s, "rss", SoakBudget.rss)
      /\ ObservedMost(s, "crashes") = 0 /\ ObservedMost(s, "unauthorized") = 0
  <2>. HIDE DEF s, n
  <2>1. SoakPasses(s, SoakBudget)
    BY DEF s
  <2>2. SlopeAtMost(s, "rss", SoakBudget.rss)
    BY <2>1 DEF SoakPasses
  <2>3. n >= 2
    BY <1>4, <2>2 DEF SlopeAtMost
  <2>. QED BY <1>1, <1>4, <2>1, <2>2, <2>3 DEF SoakPasses
<1>. HIDE DEF s, n
<1>6. \A k \in 1 .. n : /\ s[k].time \in Nat /\ s[k].rss \in Nat
                       /\ s[k].crashes \in Nat /\ s[k].unauthorized \in Nat
  <2>1. ASSUME NEW k \in 1 .. n
        PROVE  s[k].time \in Nat /\ s[k].rss \in Nat /\ s[k].crashes \in Nat /\ s[k].unauthorized \in Nat
    <3>1. P[k] \in 1 .. n /\ s[k] = file[P[k]]
      BY <1>3
    <3>. QED BY <1>2, <3>1
  <2>. QED BY <2>1
<1>7. \A k \in 1 .. n : s[k].crashes = 0 /\ s[k].unauthorized = 0
  <2>1. s # <<>> /\ n >= 1
    BY <1>1, <1>4, <1>5
  <2>. DEFINE c == [i \in 1 .. n |-> s[i].crashes]
              u == [i \in 1 .. n |-> s[i].unauthorized]
  <2>2. MostOf(c) = 0 /\ MostOf(u) = 0
    BY <1>4, <1>5, <2>1 DEF ObservedMost
  <2>3. c \in [1 .. n -> Nat] /\ u \in [1 .. n -> Nat]
    BY <1>6
  <2>4. (\A i \in 1 .. n : c[i] = 0) /\ (\A i \in 1 .. n : u[i] = 0)
    <3>. HIDE DEF c, u
    <3>. QED BY <1>1, <2>1, <2>2, <2>3, NothingObserved
  <2>. QED BY <2>4
<1>8. \A i \in 1 .. n : file[i].crashes = 0 /\ file[i].unauthorized = 0
  <2>1. ASSUME NEW i \in 1 .. n PROVE file[i].crashes = 0 /\ file[i].unauthorized = 0
    <3>1. PICK k \in 1 .. n : P[k] = i
      BY <1>3
    <3>2. s[k] = file[i]
      BY <1>3, <3>1
    <3>. QED BY <1>7, <3>2
  <2>. QED BY <2>1
<1>9. \E i, j \in 1 .. n : file[j].time - file[i].time >= SoakBudget.hours
  <2>1. 1 \in 1 .. n /\ n \in 1 .. n
    BY <1>1, <1>5
  <2>2. P[1] \in 1 .. n /\ P[n] \in 1 .. n /\ s[1] = file[P[1]] /\ s[n] = file[P[n]]
    BY <1>3, <2>1
  <2>3. file[P[n]].time - file[P[1]].time >= SoakBudget.hours
    BY <1>5, <2>2
  <2>. QED BY <2>2, <2>3
<1>10. ASSUME NEW rate \in 0 .. 8,
              \A i, j \in 1 .. n : file[j].rss - file[i].rss = rate * (file[j].time - file[i].time)
       PROVE  rate <= SoakBudget.rss
  <2>. DEFINE x == [i \in DOMAIN s |-> s[i].time - s[1].time]
              y == [i \in DOMAIN s |-> s[i].rss]
              b == s[1].rss
  <2>1. n * SumOf([i \in DOMAIN s |-> x[i] * y[i]]) - SumOf(x) * SumOf(y)
        <= SoakBudget.rss * (n * SumOf([i \in DOMAIN s |-> x[i] * x[i]]) - SumOf(x) * SumOf(x))
    BY <1>4, <1>5 DEF SlopeAtMost
  <2>2. 1 \in 1 .. n /\ 2 \in 1 .. n
    BY <1>1, <1>5
  <2>3. x \in [1 .. n -> Int] /\ b \in Int /\ x[1] # x[2]
    <3>0. s[1] = file[P[1]] /\ s[2] = file[P[2]] /\ file[P[1]].time # file[P[2]].time
      <4>1. 1 # 2
        OBVIOUS
      <4>2. \A k \in 1 .. n : s[k] = file[P[k]]
        BY <1>3
      <4>3. \A k, l \in 1 .. n : k # l => file[P[k]].time # file[P[l]].time
        BY <1>3
      <4>. HIDE DEF x, y, b
      <4>. QED BY <2>2, <4>1, <4>2, <4>3, Zenon
    <3>1. s[1].time # s[2].time
      BY <3>0
    <3>2. DOMAIN s = 1 .. n /\ s[1].time \in Nat /\ s[2].time \in Nat /\ s[1].rss \in Nat
      BY <1>4, <1>6, <2>2
    <3>3. \A i \in 1 .. n : s[i].time - s[1].time \in Int
      BY <1>6, <3>2
    <3>4. x \in [1 .. n -> Int]
      BY <3>2, <3>3
    <3>5. x[1] = s[1].time - s[1].time /\ x[2] = s[2].time - s[1].time
      BY <2>2, <3>2
    <3>6. x[1] # x[2]
      <4>. HIDE DEF x
      <4>. QED BY <3>1, <3>2, <3>5
    <3>. QED BY <3>2, <3>4, <3>6
  <2>4. y = [i \in 1 .. n |-> b + rate * x[i]]
    <3>1. ASSUME NEW i \in 1 .. n PROVE s[i].rss = b + rate * x[i]
      <4>1. s[i].rss - s[1].rss = rate * (s[i].time - s[1].time)
        <5>1. P[i] \in 1 .. n /\ P[1] \in 1 .. n /\ s[i] = file[P[i]] /\ s[1] = file[P[1]]
          BY <1>3, <2>2
        <5>. QED BY <1>10, <5>1
      <4>2. x[i] = s[i].time - s[1].time
        BY <1>4
      <4>3. x[i] \in Int /\ s[i].rss \in Int /\ b \in Int
        BY <1>6, <2>3
      <4>. HIDE DEF x
      <4>4. s[i].rss - b = rate * x[i]
        BY <4>1, <4>2
      <4>5. rate * x[i] \in Int
        BY <4>3
      <4>. HIDE DEF b
      <4>. QED BY <4>3, <4>4, <4>5
    <3>. HIDE DEF x, b
    <3>. QED BY <1>4, <3>1
  <2>5. rate \in Int /\ SoakBudget.rss \in Int
    BY GatesAssumption DEF GatesAssumption
  <2>. HIDE DEF x, y, b
  <2>6. LET z == [i \in 1 .. n |-> b + rate * x[i]]
            spread == n * SumOf([i \in 1 .. n |-> x[i] * x[i]]) - SumOf(x) * SumOf(x)
            growth == n * SumOf([i \in 1 .. n |-> x[i] * z[i]]) - SumOf(x) * SumOf(z)
        IN growth <= SoakBudget.rss * spread
    BY <1>4, <2>1, <2>4, Zenon
  <2>. QED BY <1>1, <1>5, <2>3, <2>5, <2>6, SlopeOfLine
<1>. QED BY <1>1, <1>8, <1>9, <1>10 DEF SoakTold

(* A snapshot of the tree at HEAD lists what differs from HEAD; while HEAD stays,  *)
(* a file off that list is HEAD's, in the tree and in the index.              *)
DirtyOf(held, index, head) ==
    {p \in GuardedPaths \ GeneratedPaths :
        \/ index[p] # Absent /\ held[p] # index[p]
        \/ index[p] # head[p]
        \/ p \notin IgnoredPaths /\ index[p] = Absent /\ held[p] # Absent}

SnapshotTrue ==
    cleanSnapshot # NoGate /\ ~headMoved =>
        cleanSnapshot.dirty = DirtyOf(cleanSnapshot.tree, cleanSnapshot.index, gitHead)

(* The harness drains a program it no longer waits for only when that is over.  *)
ProgramDrained ==
    /\ alive \subseteq {"main", "child"}
    /\ harness.at \in {"idle", "wait", "grace", "drain"}
    /\ harness.at # "idle" =>
          harness = [at |-> harness.at, kind |-> harness.kind, launched |-> harness.launched,
                     termed |-> harness.termed, timedOut |-> harness.timedOut, strategy |-> harness.strategy]
    /\ harness.at # "idle" => harness.kind \in {"files", "pipes"}
    /\ harness.at = "drain" /\ harness.kind = "files" => "main" \notin alive

GatesInv ==
    /\ soakFile \in Seq(SoakSamples)
    /\ SnapshotTrue
    /\ ProgramDrained
    /\ LadderHonest
    /\ soakReport # NoGate => soakReport.passed = FALSE \/ SoakTold(soakReport.samples)
    /\ CleanTestsLeaveSource
    /\ HarnessEndsProgram
    /\ FixtureHonest

LEMMA GatesStart == GatesInit => GatesInv
  BY DEF GatesInit, GatesInv, SnapshotTrue, ProgramDrained, LadderHonest, CleanTestsLeaveSource,
         HarnessEndsProgram, FixtureHonest

LEMMA AskStep == GatesInv /\ AskNext => GatesInv'
<1>. SUFFICES ASSUME GatesInv, AskNext PROVE GatesInv'
  OBVIOUS
<1>. USE DEF GatesInv
<1>1. UNCHANGED <<soakVars, guardVars, harnessVars>>
  BY DEF AskNext, AskEvidenceGate, AskReadiness
<1>2. LadderHonest'
  <2>1. ASSUME NEW e \in GateEvidence, AskEvidenceGate(e) PROVE LadderHonest'
    <3>1. gateReport'.kind = "evidence"
      BY <2>1 DEF AskEvidenceGate
    <3>. QED BY <3>1 DEF LadderHonest
  <2>. QED BY <2>1, LadderIsHonest DEF AskNext
<1>. QED BY <1>1, <1>2 DEF soakVars, guardVars, harnessVars, SnapshotTrue, ProgramDrained,
            CleanTestsLeaveSource, HarnessEndsProgram, FixtureHonest

LEMMA SoakStep == GatesInv /\ SoakNext => GatesInv'
<1>. SUFFICES ASSUME GatesInv, SoakNext PROVE GatesInv'
  OBVIOUS
<1>. USE DEF GatesInv
<1>1. UNCHANGED <<askVars, guardVars, harnessVars>>
  BY DEF SoakNext, AppendSample, EvaluateSoak
<1>2. /\ soakFile' \in Seq(SoakSamples)
      /\ soakReport' # NoGate => soakReport'.passed = FALSE \/ SoakTold(soakReport'.samples)
  <2>1. ASSUME NEW sample \in SoakSamples, AppendSample(sample)
        PROVE  soakFile' \in Seq(SoakSamples) /\ soakReport' = soakReport
    BY <2>1 DEF AppendSample
  <2>2. CASE EvaluateSoak
    <3>1. soakFile' = soakFile /\ SamplesValid(soakFile)
          /\ soakReport'.passed = SoakPasses(LoadedSamples(soakFile), SoakBudget) /\ soakReport'.samples = soakFile
      BY <2>2 DEF EvaluateSoak
    <3>2. soakReport'.passed \in BOOLEAN
      BY <3>1, Zenon DEF SoakPasses
    <3>3. soakReport'.passed => SoakTold(soakFile)
      BY <3>1, PassedSoakIsTold
    <3>. QED BY <3>1, <3>2, <3>3
  <2>3. \A samples : SoakTold(samples) => SoakTold(samples)'
    BY DEF SoakTold
  <2>. QED BY <2>1, <2>2, <2>3 DEF SoakNext
<1>. QED BY <1>1, <1>2 DEF askVars, guardVars, harnessVars, SnapshotTrue, ProgramDrained,
            LadderHonest, CleanTestsLeaveSource, HarnessEndsProgram, FixtureHonest

LEMMA GuardStep == GatesInv /\ GuardNext => GatesInv'
<1>. SUFFICES ASSUME GatesInv, GuardNext PROVE GatesInv'
  OBVIOUS
<1>. USE DEF GatesInv
<1>1. UNCHANGED <<soakVars, harnessVars>>
  BY DEF GuardNext, TakeSnapshot, VerifyClean, Audit, WriteSource, Stage, CommitStaged, EditedKeeps
<1>2. LadderHonest'
  <2>1. gateReport' = gateReport \/ gateReport'.kind = "audit"
    BY DEF GuardNext, TakeSnapshot, VerifyClean, Audit, WriteSource, Stage, CommitStaged, EditedKeeps, askVars
  <2>. QED BY <2>1 DEF LadderHonest
<1>3. DirtySource = DirtyOf(workTree, gitIndex, gitHead)
  BY DEF DirtySource, DirtyOf, Unstaged, Staged, Untracked
<1>4. SnapshotTrue'
  <2>1. CASE TakeSnapshot
    BY <1>3, <2>1 DEF TakeSnapshot, SnapshotTrue, DirtyOf
  <2>2. CASE CommitStaged
    BY <2>2 DEF CommitStaged, SnapshotTrue
  <2>3. CASE UNCHANGED <<cleanSnapshot, headMoved, gitHead>>
    BY <2>3 DEF SnapshotTrue, DirtyOf
  <2>. QED BY <2>1, <2>2, <2>3 DEF GuardNext, VerifyClean, Audit, WriteSource, Stage, EditedKeeps, guardVars
<1>5. CleanTestsLeaveSource'
  <2>1. CASE VerifyClean
    <3>1. /\ cleanReport'.passed = (DirtySource = cleanSnapshot.dirty) /\ cleanReport'.snapshot = cleanSnapshot
          /\ cleanReport'.tree = workTree /\ cleanReport'.index = gitIndex /\ cleanReport'.moved = headMoved
          /\ cleanSnapshot # NoGate
      BY <2>1 DEF VerifyClean
    <3>2. ASSUME DirtySource = cleanSnapshot.dirty, ~headMoved,
                 NEW p \in GuardedPaths \ (GeneratedPaths \cup cleanSnapshot.dirty)
          PROVE  /\ gitIndex[p] = cleanSnapshot.index[p]
                 /\ p \notin IgnoredPaths \/ cleanSnapshot.index[p] # Absent =>
                       workTree[p] = cleanSnapshot.tree[p]
      <4>1. cleanSnapshot.dirty = DirtyOf(cleanSnapshot.tree, cleanSnapshot.index, gitHead)
        BY <3>1, <3>2 DEF SnapshotTrue
      <4>. QED BY <1>3, <3>2, <4>1 DEF DirtyOf
    <3>. QED BY <3>1, <3>2 DEF CleanTestsLeaveSource
  <2>2. CASE cleanReport' \in {cleanReport, NoGate}
    BY <2>2 DEF CleanTestsLeaveSource
  <2>. QED BY <2>1, <2>2 DEF GuardNext, TakeSnapshot, Audit, WriteSource, Stage, CommitStaged, EditedKeeps, guardVars
<1>. QED BY <1>1, <1>2, <1>4, <1>5 DEF soakVars, harnessVars, ProgramDrained, HarnessEndsProgram, FixtureHonest, SoakTold

LEMMA HarnessStep == GatesInv /\ HarnessNext => GatesInv'
<1>. SUFFICES ASSUME GatesInv, HarnessNext PROVE GatesInv'
  OBVIOUS
<1>. USE DEF GatesInv
<1>1. HarnessStill
  BY DEF HarnessNext, Launch, ProcessEnds, CaseEnds, CaseTimesOut, GraceEnds, GraceRunsOut, CaseDrained
<1>2. ProgramDrained' /\ HarnessEndsProgram'
  <2>. USE DEF ProgramDrained
  <2>1. ASSUME NEW kind \in {"files", "pipes"}, NEW launched \in HarnessPrograms, Launch(kind, launched)
        PROVE  ProgramDrained' /\ HarnessEndsProgram'
    BY <2>1 DEF Launch, Members, HarnessEndsProgram
  <2>2. ASSUME NEW who \in alive, ProcessEnds(who) PROVE ProgramDrained' /\ HarnessEndsProgram'
    BY <2>2 DEF ProcessEnds, HarnessEndsProgram
  <2>3. CASE CaseEnds \/ CaseDrained
    <3>1. /\ harness' = [at |-> "idle"] /\ alive' = alive
          /\ harnessResult'.kind = harness.kind /\ harnessResult'.launched = harness.launched
          /\ harnessResult'.left = alive
      BY <2>3 DEF CaseEnds, CaseDrained, Answers
    <3>2. /\ "main" \notin alive
          /\ harness.kind = "pipes" /\ harness.launched.holds => "child" \notin alive
      BY <2>3 DEF CaseEnds, CaseDrained, OutputEnded
    <3>. QED BY <3>1, <3>2 DEF HarnessEndsProgram
  <2>4. CASE CaseTimesOut
    <3>1. /\ harness'.at \in {"grace", "drain"} /\ harness'.kind = harness.kind
          /\ harness'.at = "drain" => "main" \notin alive
          /\ harness' = [at |-> harness'.at, kind |-> harness'.kind, launched |-> harness'.launched,
                         termed |-> harness'.termed, timedOut |-> harness'.timedOut, strategy |-> harness'.strategy]
          /\ harness.at = "wait"
      BY <2>4 DEF CaseTimesOut
    <3>. QED BY <2>4, <3>1 DEF CaseTimesOut, HarnessEndsProgram
  <2>5. CASE GraceEnds
    BY <2>5 DEF GraceEnds, HarnessEndsProgram
  <2>6. CASE GraceRunsOut
    <3>1. /\ harness'.at = "drain" /\ harness'.kind = harness.kind
          /\ harness' = [at |-> harness'.at, kind |-> harness'.kind, launched |-> harness'.launched,
                         termed |-> harness'.termed, timedOut |-> harness'.timedOut, strategy |-> harness'.strategy]
          /\ harness.at = "grace" /\ alive' \subseteq alive
      BY <2>6 DEF GraceRunsOut
    <3>2. harness.kind = "files" => "main" \notin alive'
      BY <2>6 DEF GraceRunsOut, Killed
    <3>. QED BY <2>6, <3>1, <3>2 DEF GraceRunsOut, HarnessEndsProgram
  <2>. QED BY <2>1, <2>2, <2>3, <2>4, <2>5, <2>6 DEF HarnessNext
<1>. QED BY <1>1, <1>2 DEF HarnessStill, askVars, soakVars, guardVars, SnapshotTrue, LadderHonest,
            CleanTestsLeaveSource, FixtureHonest, SoakTold, DirtyOf

LEMMA FixtureStep == GatesInv /\ FixtureNext => GatesInv'
<1>. SUFFICES ASSUME GatesInv, FixtureNext PROVE GatesInv'
  OBVIOUS
<1>. USE DEF GatesInv
<1>1. FixtureStill
  BY DEF FixtureNext, StartFixture, ParentSteps, ReadPid, ChildGone, ReportFixture
<1>2. FixtureHonest'
  <2>1. ASSUME NEW othersPass \in BOOLEAN, ReportFixture(othersPass) PROVE FixtureHonest'
    <3>1. /\ fixtureReport'.child = fixture.child
          /\ fixtureReport'.state = "PASS" => ~fixture.child
      BY <2>1 DEF ReportFixture, FixturePassed
    <3>. QED BY <3>1, Zenon DEF FixtureHonest
  <2>2. CASE fixtureReport' = fixtureReport
    BY <2>2 DEF FixtureHonest
  <2>3. CASE fixtureReport' = [state |-> "raises", child |-> fixture.child]
    <3>1. fixtureReport'.state # "PASS"
      BY <2>3
    <3>. QED BY <3>1 DEF FixtureHonest
  <2>. QED BY <2>1, <2>2, <2>3 DEF FixtureNext, StartFixture, ParentSteps, ReadPid, ChildGone
<1>. QED BY <1>1, <1>2 DEF FixtureStill, askVars, soakVars, guardVars, SnapshotTrue, LadderHonest,
            CleanTestsLeaveSource, HarnessEndsProgram, ProgramDrained, SoakTold, DirtyOf

LEMMA GatesInvariant == GatesSpec => []GatesInv
<1>1. GatesInv /\ [AskNext \/ SoakNext \/ GuardNext \/ HarnessNext \/ FixtureNext]_gateVars => GatesInv'
  <2>1. GatesInv /\ UNCHANGED gateVars => GatesInv'
    BY DEF GatesInv, gateVars, askVars, soakVars, guardVars, harnessVars, SnapshotTrue, ProgramDrained,
           LadderHonest, CleanTestsLeaveSource, HarnessEndsProgram, FixtureHonest, SoakTold, DirtyOf
  <2>. QED BY <2>1, AskStep, SoakStep, GuardStep, HarnessStep, FixtureStep
<1>. QED BY <1>1, GatesStart, PTL DEF GatesSpec

(* For any candidates, samples, trees and programs, a gate that lets something  *)
(* through was right to: the ladder, the soak gate, the guard of the source     *)
(* (what .gitignore excludes and Git does not track set aside), the harnesses   *)
(* and the fixture (evaluate_readiness, evaluate, verify_snapshot,    *)
(* run_fault_case, _fixture_descendant_termination).                          *)
THEOREM GatesAreTruthful == GatesSpec => []GatesTruthful
<1>1. GatesInv => GatesTruthful
  BY DEF GatesInv, GatesTruthful, SoakHonest, SoakTold
<1>. QED BY <1>1, GatesInvariant, PTL

(* The values of the gates' state.                                            *)
SoakTyped ==
    /\ Len(soakFile) \in 0 .. MaxSoakSamples
    /\ soakReport # NoGate => soakReport.passed \in BOOLEAN

GuardTyped ==
    /\ DOMAIN workTree = GuardedPaths /\ DOMAIN gitIndex = GuardedPaths /\ headMoved \in BOOLEAN
    /\ guardEdits \in 0 .. MaxGuardEdits
    /\ cleanReport # NoGate => cleanReport.passed \in BOOLEAN

FixtureTyped ==
    /\ "at" \in DOMAIN fixture /\ fixture.at \in {"idle", "poll", "gone"}
    /\ fixtureReport # NoGate => fixtureReport.state \in {"PASS", "FAIL", "raises"}

GatesTyped == SoakTyped /\ GuardTyped /\ FixtureTyped

LEMMA SoakStaysTyped == GatesInv /\ SoakTyped /\ SoakNext => SoakTyped'
<1>. SUFFICES ASSUME GatesInv, SoakTyped, SoakNext PROVE SoakTyped'
  OBVIOUS
<1>1. ASSUME NEW sample \in SoakSamples, AppendSample(sample) PROVE SoakTyped'
  <2>1. soakFile' = Append(soakFile, sample) /\ Len(soakFile) < MaxSoakSamples /\ soakReport' = soakReport
    BY <1>1 DEF AppendSample
  <2>2. Len(soakFile') = Len(soakFile) + 1
    BY <2>1 DEF GatesInv
  <2>3. Len(soakFile') \in 0 .. MaxSoakSamples
    BY <2>1, <2>2, GatesAssumption DEF GatesAssumption, SoakTyped
  <2>. QED BY <2>1, <2>3 DEF SoakTyped
<1>2. CASE EvaluateSoak
  <2>1. soakFile' = soakFile /\ soakReport'.passed = SoakPasses(LoadedSamples(soakFile), SoakBudget)
    BY <1>2 DEF EvaluateSoak
  <2>2. SoakPasses(LoadedSamples(soakFile), SoakBudget) \in BOOLEAN
    BY Zenon DEF SoakPasses
  <2>3. soakReport'.passed \in BOOLEAN
    BY <2>1, <2>2
  <2>. QED BY <2>1, <2>3 DEF SoakTyped
<1>. QED BY <1>1, <1>2 DEF SoakNext

LEMMA GuardStaysTyped == GuardTyped /\ GuardNext => GuardTyped'
<1>. SUFFICES ASSUME GuardTyped, GuardNext PROVE GuardTyped'
  OBVIOUS
<1>1. DOMAIN workTree' = GuardedPaths /\ DOMAIN gitIndex' = GuardedPaths
  BY DEF GuardTyped, GuardNext, TakeSnapshot, VerifyClean, Audit, WriteSource, Stage, CommitStaged, guardVars
<1>2. headMoved' = headMoved \/ headMoved' = FALSE \/ headMoved' = TRUE
  BY DEF GuardNext, TakeSnapshot, VerifyClean, Audit, WriteSource, Stage, CommitStaged, guardVars
<1>3. headMoved' \in BOOLEAN
  BY <1>2, Zenon DEF GuardTyped
<1>4. guardEdits' = guardEdits \/ GuardEdit
  BY DEF GuardNext, TakeSnapshot, VerifyClean, Audit, WriteSource, Stage, CommitStaged, guardVars
<1>5. guardEdits' \in 0 .. MaxGuardEdits
  BY <1>4, GatesAssumption DEF GatesAssumption, GuardTyped, GuardEdit
<1>6. cleanReport' \in {cleanReport, NoGate} \/ cleanReport'.passed \in BOOLEAN
  <2>1. CASE VerifyClean
    <3>1. cleanReport'.passed = (DirtySource = cleanSnapshot.dirty)
      BY <2>1 DEF VerifyClean
    <3>2. (DirtySource = cleanSnapshot.dirty) \in BOOLEAN
      BY Zenon
    <3>. QED BY <3>1, <3>2
  <2>2. CASE ~VerifyClean
    BY <2>2 DEF GuardNext, TakeSnapshot, Audit, WriteSource, Stage, CommitStaged, EditedKeeps, guardVars
  <2>. QED BY <2>1, <2>2
<1>7. cleanReport' # NoGate => cleanReport'.passed \in BOOLEAN
  BY <1>6, Zenon DEF GuardTyped
<1>. QED BY <1>1, <1>3, <1>5, <1>7, Zenon DEF GuardTyped

LEMMA FixtureStaysTyped == FixtureTyped /\ FixtureNext => FixtureTyped'
<1>. SUFFICES ASSUME FixtureTyped, FixtureNext PROVE FixtureTyped'
  OBVIOUS
<1>1. ASSUME "at" \in DOMAIN fixture', fixture'.at \in {"idle", "poll", "gone"}, fixtureReport' = fixtureReport
      PROVE  FixtureTyped'
  BY <1>1 DEF FixtureTyped
<1>2. CASE StartFixture
  BY <1>1, <1>2 DEF StartFixture
<1>3. CASE ParentSteps
  BY <1>1, <1>3 DEF ParentSteps, FixtureTyped
<1>4. CASE ReadPid
  <2>1. CASE fixture.file = "empty"
    BY <1>4, <2>1 DEF ReadPid, FixtureTyped
  <2>2. CASE fixture.file # "empty"
    BY <1>1, <1>4, <2>2 DEF ReadPid, FixtureTyped
  <2>. QED BY <2>1, <2>2
<1>5. CASE ChildGone
  BY <1>1, <1>5 DEF ChildGone, FixtureTyped
<1>6. ASSUME NEW othersPass, ReportFixture(othersPass) PROVE FixtureTyped'
  <2>1. fixtureReport'.state \in {"PASS", "FAIL"}
    BY <1>6 DEF ReportFixture
  <2>2. fixture' = [at |-> "idle"]
    BY <1>6 DEF ReportFixture
  <2>. QED BY <2>1, <2>2 DEF FixtureTyped
<1>. QED BY <1>2, <1>3, <1>4, <1>5, <1>6 DEF FixtureNext

(* What the gates read, write and answer with is of its kind, for any samples,   *)
(* trees, programs and number of edits.                                       *)
THEOREM GatesTypeCorrect == GatesSpec => []GatesTypeOK
<1>1. GatesInit => GatesTyped
  <2>1. GatesInit => DOMAIN workTree = GuardedPaths /\ DOMAIN gitIndex = GuardedPaths
    BY DEF GatesInit
  <2>2. GatesInit => SoakTyped /\ FixtureTyped
    BY GatesAssumption DEF GatesAssumption, GatesInit, SoakTyped, FixtureTyped
  <2>3. GatesInit => headMoved \in BOOLEAN /\ guardEdits \in 0 .. MaxGuardEdits /\ cleanReport = NoGate
    <3>1. GatesInit => headMoved = FALSE /\ guardEdits = 0 /\ cleanReport = NoGate
      BY DEF GatesInit
    <3>2. 0 \in 0 .. MaxGuardEdits
      BY GatesAssumption DEF GatesAssumption
    <3>. QED BY <3>1, <3>2
  <2>. QED BY <2>1, <2>2, <2>3 DEF GatesTyped, GuardTyped
<1>2. GatesInv /\ GatesTyped /\ [AskNext \/ SoakNext \/ GuardNext \/ HarnessNext \/ FixtureNext]_gateVars => GatesTyped'
  <2>. SUFFICES ASSUME GatesInv, GatesTyped, [AskNext \/ SoakNext \/ GuardNext \/ HarnessNext \/ FixtureNext]_gateVars
                PROVE  GatesTyped'
    OBVIOUS
  <2>. USE DEF GatesTyped
  <2>1. UNCHANGED soakVars => SoakTyped'
    BY DEF soakVars, SoakTyped
  <2>2. UNCHANGED guardVars => GuardTyped'
    BY DEF guardVars, GuardTyped
  <2>3. UNCHANGED <<fixture, fixtureReport>> => FixtureTyped'
    BY DEF FixtureTyped
  <2>4. CASE AskNext
    BY <2>1, <2>2, <2>3, <2>4 DEF AskNext, AskEvidenceGate, AskReadiness, harnessVars
  <2>5. CASE SoakNext
    <3>1. UNCHANGED guardVars /\ UNCHANGED <<fixture, fixtureReport>>
      BY <2>5 DEF SoakNext, AppendSample, EvaluateSoak, harnessVars
    <3>. QED BY <2>2, <2>3, <2>5, <3>1, SoakStaysTyped
  <2>6. CASE GuardNext
    <3>1. UNCHANGED soakVars /\ UNCHANGED <<fixture, fixtureReport>>
      BY <2>6 DEF GuardNext, TakeSnapshot, VerifyClean, Audit, WriteSource, Stage, CommitStaged, EditedKeeps, harnessVars
    <3>. QED BY <2>1, <2>3, <2>6, <3>1, GuardStaysTyped
  <2>7. CASE HarnessNext
    <3>1. HarnessStill
      BY <2>7 DEF HarnessNext, Launch, ProcessEnds, CaseEnds, CaseTimesOut, GraceEnds, GraceRunsOut, CaseDrained
    <3>. QED BY <2>1, <2>2, <2>3, <3>1 DEF HarnessStill
  <2>8. CASE FixtureNext
    <3>1. FixtureStill
      BY <2>8 DEF FixtureNext, StartFixture, ParentSteps, ReadPid, ChildGone, ReportFixture
    <3>. QED BY <2>1, <2>2, <2>8, <3>1, FixtureStaysTyped DEF FixtureStill
  <2>9. CASE UNCHANGED gateVars
    BY <2>1, <2>2, <2>3, <2>9 DEF gateVars, harnessVars
  <2>. QED BY <2>4, <2>5, <2>6, <2>7, <2>8, <2>9
<1>3. GatesInv /\ GatesTyped => GatesTypeOK
  <2>. SUFFICES ASSUME GatesInv, GatesTyped PROVE GatesTypeOK
    OBVIOUS
  <2>1. harness.at \in {"idle", "wait", "grace", "drain"} /\ alive \subseteq {"main", "child"}
    BY DEF GatesInv, ProgramDrained
  <2>. QED BY <2>1, Zenon DEF GatesTyped, SoakTyped, GuardTyped, FixtureTyped, GatesTypeOK
<1>. QED BY <1>1, <1>2, <1>3, GatesInvariant, PTL DEF GatesSpec
===============================================================================
