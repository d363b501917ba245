----------------------------- MODULE ReleaseBundle -----------------------------
(***************************************************************************)
(* Packaging a native build (tool/p9_release_engineering.py): the artifact  *)
(* tree is hashed, written into an archive and described by a provenance    *)
(* file, in separate steps between which the build output may change or the *)
(* tool may die; a verification compares what is found later.  A digest is  *)
(* modelled by what it is computed of.                                      *)
(***************************************************************************)
EXTENDS Integers, FiniteSets, Sequences

CONSTANTS
    ArtifactTrees,   \* build outputs: path -> [type, data, mode, escapes]
    Locks,           \* contents of pubspec.lock: sequences of [name, version]
    Configurations,  \* contents of the release target file
    Evidence,        \* signing evidence an operator may hand in
    Commits,         \* what may be given as --source-commit
    Platforms,
    NoVersion, NoEvidence, NoBundle,
    MaxPackagings, MaxChanges

ASSUME BundleAssumption == {MaxPackagings, MaxChanges} \subseteq Nat

VARIABLES
    artifact,        \* the tree found at the artifact path
    lock, configuration,
    packaging,       \* the package command that runs
    bundle,          \* the archive at the output path, or NoBundle
    provenance,      \* the file beside it, or NoBundle
    verification,    \* outcome of the last verify command
    packagings, changes

bundleVars == <<artifact, lock, configuration, packaging, bundle, provenance, verification,
                packagings, changes>>

-----------------------------------------------------------------------------
(* load_release_config, parse_pubspec_lock                                  *)

ConfigurationValid(c) ==
    /\ c.schemaVersion = 1 /\ c.productVersion # NoVersion
    /\ DOMAIN c.targets = Platforms
    /\ \A p \in Platforms :
          /\ c.targets[p].buildArgv # <<>> /\ Head(c.targets[p].buildArgv) = "flutter"
          /\ \A i \in DOMAIN c.targets[p].buildArgv : c.targets[p].buildArgv[i] # "clean"
          /\ c.targets[p].pathSafe /\ c.targets[p].credentialBoundary = "external"

\* A package without a version is dropped, not refused.
Resolved(l) == {i \in DOMAIN l : l[i].version # NoVersion}

LockError(l) ==
    IF Resolved(l) = {} THEN "lock_invalid"
    ELSE IF \E i, j \in Resolved(l) : i # j /\ l[i].name = l[j].name THEN "lock_invalid"
    ELSE "none"

\* build_spdx_sbom
Sbom(l, version) == [version |-> version, lock |-> l, packages |-> {l[i] : i \in Resolved(l)}]

-----------------------------------------------------------------------------
(* _iter_artifact_entries, artifact_file_manifest, validate_signing_evidence *)

TreeError(t) ==
    IF DOMAIN t = {} THEN "artifact_empty"
    ELSE IF \E p \in DOMAIN t : t[p].type = "junction" THEN "artifact_reparse"
    ELSE IF \E p \in DOMAIN t : t[p].type = "symlink" /\ t[p].escapes THEN "artifact_symlink_escape"
    ELSE IF \E p \in DOMAIN t : t[p].type \notin {"file", "symlink"} THEN "artifact_type"
    ELSE "none"

\* The rows of the manifest, and the tree digest that is computed of them.
Rows(t) == [p \in DOMAIN t |-> [type |-> t[p].type, data |-> t[p].data, mode |-> t[p].mode]]

SchemeOf(platform) ==
    CASE platform = "windows" -> "authenticode"
      [] platform = "macos" -> "codesign+notarization"
      [] platform = "linux" -> "detached-package-signature"

SigningError(platform, evidence, subject) ==
    IF evidence.scheme # SchemeOf(platform) THEN "signing_scheme"
    ELSE IF ~evidence.verified THEN "signing_unverified"
    ELSE IF evidence.subject # subject THEN "signing_digest"
    ELSE IF evidence.identity = "" THEN "signing_identity"
    ELSE IF platform = "macos" /\ ~evidence.notarized THEN "notarization_unverified"
    ELSE "none"

-----------------------------------------------------------------------------
IdlePackaging == [at |-> "idle"]

BundleInit ==
    /\ artifact \in ArtifactTrees /\ TreeError(artifact) = "none"
    /\ lock \in Locks /\ LockError(lock) = "none"
    /\ configuration \in Configurations /\ ConfigurationValid(configuration)
    /\ packaging = IdlePackaging
    /\ bundle = NoBundle /\ provenance = NoBundle
    /\ verification = "none"
    /\ packagings = 0 /\ changes = 0

PackagingError(platform, evidence, commit) ==
    IF ~ConfigurationValid(configuration) THEN "config_invalid"
    ELSE IF commit = "short" THEN "source_identity"
    ELSE IF TreeError(artifact) # "none" THEN TreeError(artifact)
    ELSE IF evidence # NoEvidence /\ SigningError(platform, evidence, Rows(artifact)) # "none"
         THEN SigningError(platform, evidence, Rows(artifact))
    ELSE LockError(lock)

\* create_release_bundle hashes the tree and binds the evidence to it.
BeginPackage(platform, evidence, commit) ==
    /\ packaging.at = "idle" /\ packagings < MaxPackagings
    /\ packagings' = packagings + 1
    /\ LET error == PackagingError(platform, evidence, commit) IN
       IF error = "none"
       THEN /\ packaging' = [at |-> "hashed", commit |-> commit, platform |-> platform,
                             version |-> configuration.productVersion, rows |-> Rows(artifact),
                             lock |-> lock, sbom |-> Sbom(lock, configuration.productVersion),
                             signing |-> evidence]
            /\ verification' = "packaging"
       ELSE verification' = error /\ UNCHANGED packaging
    /\ UNCHANGED <<artifact, lock, configuration, bundle, provenance, changes>>

ReleaseManifest(p) ==
    [platform |-> p.platform, version |-> p.version, commit |-> p.commit, tree |-> p.rows,
     files |-> p.rows, signed |-> p.signing # NoEvidence]

\* The archive is written from the tree as it is now, and replaces the last one at once.
WriteArchive ==
    /\ packaging.at = "hashed"
    /\ IF TreeError(artifact) = "none"
       THEN /\ bundle' = [payload |-> Rows(artifact), extra |-> FALSE, collides |-> FALSE,
                          manifest |-> ReleaseManifest(packaging), sbom |-> packaging.sbom]
            /\ packaging' = [packaging EXCEPT !.at = "archived"]
            /\ verification' = "packaging"
       ELSE /\ packaging' = IdlePackaging /\ verification' = TreeError(artifact)
            /\ UNCHANGED bundle
    /\ UNCHANGED <<artifact, lock, configuration, provenance, packagings, changes>>

\* The lock was hashed with the tree, the configuration is hashed now.
WriteProvenance ==
    /\ packaging.at = "archived"
    /\ provenance' = [bundle |-> bundle, platform |-> packaging.platform, version |-> packaging.version,
                      commit |-> packaging.commit, tree |-> packaging.rows, lock |-> packaging.lock,
                      configuration |-> configuration, sbom |-> packaging.sbom,
                      signing |-> packaging.signing]
    /\ packaging' = IdlePackaging /\ verification' = "packaged"
    /\ UNCHANGED <<artifact, lock, configuration, bundle, packagings, changes>>

\* A death leaves at most a temporary file.
PackagerDies ==
    /\ packaging.at # "idle"
    /\ packaging' = IdlePackaging /\ verification' = "died"
    /\ UNCHANGED <<artifact, lock, configuration, bundle, provenance, packagings, changes>>

-----------------------------------------------------------------------------
(* verify_release_bundle                                                    *)

\* Mutant: what the archive holds is not compared with its manifest.
PayloadError_Trusting(b) == IF b.collides THEN "bundle_duplicate" ELSE "none"

PayloadError(b) ==
    LET listed == b.manifest.files IN
    IF b.collides THEN "bundle_duplicate"
    ELSE IF DOMAIN listed = {} THEN "bundle_metadata"
    ELSE IF \E p \in DOMAIN listed : p \notin DOMAIN b.payload THEN "bundle_file_missing"
    ELSE IF \E p \in DOMAIN listed : b.payload[p].mode # listed[p].mode THEN "bundle_file_mode"
    ELSE IF \E p \in DOMAIN listed : b.payload[p].type # listed[p].type THEN "bundle_file_type"
    ELSE IF \E p \in DOMAIN listed : b.payload[p].data # listed[p].data THEN "bundle_file_digest"
    ELSE IF b.extra \/ DOMAIN b.payload # DOMAIN listed THEN "bundle_layout"
    ELSE IF b.manifest.tree # listed THEN "bundle_tree_digest"
    ELSE "none"

BindingError(b, v) ==
    IF \/ b.manifest.platform # v.platform \/ b.manifest.version # v.version
       \/ b.manifest.commit # v.commit \/ b.manifest.tree # v.tree
       \/ b.manifest.signed # (v.signing # NoEvidence)
    THEN "metadata_binding"
    ELSE IF b.sbom.packages = {} THEN "sbom_invalid"
    ELSE IF v.sbom # b.sbom THEN "sbom_digest"
    ELSE "none"

VerificationError(requireSigned) ==
    IF provenance = NoBundle \/ bundle = NoBundle THEN "io_error"
    ELSE IF provenance.bundle # bundle THEN "bundle_digest"
    ELSE IF provenance.lock # lock THEN "lock_drift"
    ELSE IF provenance.configuration # configuration THEN "config_drift"
    ELSE IF PayloadError(bundle) # "none" THEN PayloadError(bundle)
    ELSE IF BindingError(bundle, provenance) # "none" THEN BindingError(bundle, provenance)
    ELSE IF provenance.signing = NoEvidence
         THEN IF requireSigned THEN "signing_required" ELSE "none"
    ELSE SigningError(provenance.platform, provenance.signing, bundle.manifest.tree)

VerifyBundle(requireSigned) ==
    /\ verification' = IF VerificationError(requireSigned) # "none" THEN VerificationError(requireSigned)
                       ELSE IF provenance.signing = NoEvidence THEN "verified" ELSE "verified signed"
    /\ UNCHANGED <<artifact, lock, configuration, packaging, bundle, provenance,
                   packagings, changes>>

-----------------------------------------------------------------------------
(* What happens around the tool: another build (run_incremental_build),     *)
(* edits, and a bundle that is altered with its provenance kept or recomputed. *)

Build(built, platform, returnCode) ==
    /\ changes < MaxChanges /\ changes' = changes + 1
    /\ IF ~ConfigurationValid(configuration) THEN verification' = "config_invalid" /\ UNCHANGED artifact
       ELSE IF returnCode # 0 THEN verification' = "build_failed" /\ UNCHANGED artifact
       ELSE verification' = "built" /\ artifact' = built
    /\ UNCHANGED <<lock, configuration, packaging, bundle, provenance, packagings>>

EditInputs(l, c) ==
    /\ changes < MaxChanges /\ changes' = changes + 1
    /\ lock' = l /\ configuration' = c /\ <<l, c>> # <<lock, configuration>>
    /\ verification' = "none"
    /\ UNCHANGED <<artifact, packaging, bundle, provenance, packagings>>

AlteredBundles ==
    {[bundle EXCEPT !.extra = TRUE], [bundle EXCEPT !.collides = TRUE]}
    \cup {[bundle EXCEPT !.payload[p].data = "altered"] : p \in DOMAIN bundle.payload}
    \cup {[bundle EXCEPT !.payload[p].mode = "altered"] : p \in DOMAIN bundle.payload}
    \cup {[bundle EXCEPT !.manifest.files[p].data = "altered", !.payload[p].data = "altered"] :
             p \in DOMAIN bundle.payload \cap DOMAIN bundle.manifest.files}

AlterBundle(altered, rebound) ==
    /\ packaging.at = "idle" /\ changes < MaxChanges /\ changes' = changes + 1
    /\ bundle' = altered
    /\ provenance' = IF rebound /\ provenance # NoBundle THEN [provenance EXCEPT !.bundle = altered]
                     ELSE provenance
    /\ verification' = "none"
    /\ UNCHANGED <<artifact, lock, configuration, packaging, packagings>>

BundleNext ==
    \/ \E platform \in Platforms, evidence \in Evidence \cup {NoEvidence}, commit \in Commits :
          BeginPackage(platform, evidence, commit)
    \/ WriteArchive
    \/ WriteProvenance
    \/ PackagerDies
    \/ \E requireSigned \in BOOLEAN : VerifyBundle(requireSigned)
    \/ \E built \in ArtifactTrees, platform \in Platforms, returnCode \in {0, 1} :
          Build(built, platform, returnCode)
    \/ \E l \in Locks, c \in Configurations : EditInputs(l, c)
    \/ /\ bundle # NoBundle
       /\ \E altered \in AlteredBundles, rebound \in BOOLEAN : AlterBundle(altered, rebound)

BundleSpec == BundleInit /\ [][BundleNext]_bundleVars

-----------------------------------------------------------------------------
BundleTypeOK ==
    /\ artifact \in ArtifactTrees /\ lock \in Locks /\ configuration \in Configurations
    /\ packaging.at \in {"idle", "hashed", "archived"}
    /\ packagings \in 0 .. MaxPackagings /\ changes \in 0 .. MaxChanges

\* However the build output changes between the hash and the archive, and wherever the tool
\* dies between the archive and its provenance, a bundle that verifies as signed holds
\* exactly the files its signature was made for, and the lock and the targets of this
\* project (verify_release_bundle; validate_signing_evidence: "signing evidence does not
\* bind the exact native artifact tree").
SignedBundleIntact ==
    verification = "verified signed" =>
        /\ bundle.payload = provenance.signing.subject
        /\ ~bundle.extra /\ ~bundle.collides
        /\ provenance.signing.verified
        /\ provenance.signing.scheme = SchemeOf(bundle.manifest.platform)
        /\ provenance.lock = lock /\ provenance.configuration = configuration
=============================================================================
