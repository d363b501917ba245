-------------------------------- MODULE Delivery --------------------------------
(***************************************************************************)
(* The command-line tools around the product.  They share no state, so each  *)
(* behaviour exercises one of them, chosen at the start: the state space is  *)
(* the sum of theirs.                                                        *)
(***************************************************************************)
EXTENDS PlanCompiler, ManagedProject, ExecutionIntelligence, ResearchWorker, AgentSafety,
        KnowledgeMemory, Interoperability, BenchmarkRunner, ReleaseBundle, ReleaseArchive, ExactSourceGate,
        PhaseEvidence, RepositoryGovernance, RoadmapControl, ReleaseGates

VARIABLE focus

Components ==
    {"plans", "processes", "sessions", "routing", "turns", "evidence", "crawl", "search", "lookup",
     "plan review", "verdicts", "suites", "store", "skills", "admin", "stdio", "audit",
     "benchmark", "bundle", "phase", "hygiene", "rules", "roadmap", "archive", "operations",
     "checkpoints", "exact gate", "gates", "soak", "guard", "harness", "fixture"}

\* Components of one module have one tuple of variables.
OthersStill ==
    /\ focus # "plans" => UNCHANGED compilerVars
    /\ focus \notin {"processes", "sessions"} => UNCHANGED projectVars
    /\ focus \notin {"routing", "turns", "evidence"} => UNCHANGED intelligenceVars
    /\ focus \notin {"crawl", "search", "lookup"} => UNCHANGED researchVars
    /\ focus \notin {"plan review", "verdicts", "suites"} => UNCHANGED safetyVars
    /\ focus \notin {"store", "skills"} => UNCHANGED memoryVars
    /\ focus \notin {"admin", "stdio", "audit"} => UNCHANGED interopVars
    /\ focus # "benchmark" => UNCHANGED benchVars
    /\ focus # "bundle" => UNCHANGED bundleVars
    /\ focus # "phase" => UNCHANGED evidenceVars
    /\ focus \notin {"hygiene", "rules"} => UNCHANGED governanceVars
    /\ focus # "roadmap" => UNCHANGED roadmapVars
    /\ focus \notin {"archive", "operations", "checkpoints"} => UNCHANGED releaseVars
    /\ focus # "exact gate" => UNCHANGED exactVars
    /\ focus \notin {"gates", "soak", "guard", "harness", "fixture"} => UNCHANGED gateVars

\* A component that is not exercised starts in one state.
Init ==
    /\ focus \in Components
    /\ CompilerInit /\ ProjectInit
    /\ IntelligenceInit
    /\ IF focus = "turns" THEN TRUE ELSE turn.setting = CHOOSE s \in StallSettings : TRUE
    /\ ResearchInit
    /\ IF focus = "crawl" THEN TRUE ELSE links = CHOOSE g \in LinkGraphs : TRUE
    /\ SafetyInit /\ MemoryInit /\ InteropInit /\ BenchmarkInit
    /\ BundleInit
    /\ IF focus = "bundle" THEN TRUE ELSE artifact = CHOOSE t \in ArtifactTrees : TreeError(t) = "none"
    /\ EvidenceInit /\ GovernanceInit
    /\ RoadmapInit
    /\ IF focus = "roadmap" THEN TRUE ELSE roadmap = CHOOSE m \in Roadmaps : ManifestConsistent(m, TRUE)
    /\ ReleaseInit
    /\ IF focus = "archive" THEN TRUE ELSE sourceTree = CHOOSE t \in SourceTrees : TRUE
    /\ ExactInit
    /\ IF focus = "exact gate" THEN TRUE
       ELSE headCommit = (CHOOSE c \in Heads : TRUE) /\ \A p \in TrackedPaths : checkout[p].eol = "lf"
    /\ GatesInit
    /\ IF focus = "guard" THEN TRUE ELSE gitHead = [p \in GuardedPaths |-> Absent]

Next ==
    /\ \/ focus = "plans" /\ CompilerNext
       \/ focus = "processes" /\ ProcessesNext /\ UNCHANGED sessionVars
       \/ focus = "sessions" /\ SessionsNext /\ UNCHANGED <<launchVars, commandVars>>
       \/ focus = "routing" /\ RoutingNext
       \/ focus = "turns" /\ TurnNext
       \/ focus = "evidence" /\ EvidenceNext
       \/ focus = "crawl" /\ CrawlNext
       \/ focus = "search" /\ SearchNext
       \/ focus = "lookup" /\ LookupNext
       \/ focus = "plan review" /\ PlanReviewNext
       \/ focus = "verdicts" /\ VerdictNext
       \/ focus = "suites" /\ SuiteNext
       \/ focus = "store" /\ StoreNext
       \/ focus = "skills" /\ SkillNext
       \/ focus = "admin" /\ AdminNext
       \/ focus = "stdio" /\ StdioNext
       \/ focus = "audit" /\ AuditNext
       \/ focus = "benchmark" /\ BenchmarkNext
       \/ focus = "bundle" /\ BundleNext
       \/ focus = "phase" /\ EvidenceStateNext
       \/ focus = "hygiene" /\ HygieneNext
       \/ focus = "rules" /\ RulesNext
       \/ focus = "roadmap" /\ RoadmapNext
       \/ focus = "archive" /\ ArchiveNext
       \/ focus = "operations" /\ QuestionsNext
       \/ focus = "checkpoints" /\ CheckpointsNext
       \/ focus = "exact gate" /\ ExactNext
       \/ focus = "gates" /\ AskNext
       \/ focus = "soak" /\ SoakNext
       \/ focus = "guard" /\ GuardNext
       \/ focus = "harness" /\ HarnessNext
       \/ focus = "fixture" /\ FixtureNext
    /\ OthersStill
    /\ UNCHANGED focus

vars == <<compilerVars, projectVars, intelligenceVars, researchVars, safetyVars, memoryVars,
          interopVars, benchVars, bundleVars, evidenceVars, governanceVars, roadmapVars,
          releaseVars, exactVars, gateVars, focus>>

Spec == Init /\ [][Next]_vars

TypeOK ==
    /\ focus \in Components
    /\ CompilerTypeOK /\ ProjectTypeOK /\ IntelligenceTypeOK /\ ResearchTypeOK /\ SafetyTypeOK
    /\ MemoryTypeOK /\ InteropTypeOK /\ BenchmarkTypeOK /\ BundleTypeOK
    /\ PhaseEvidenceTypeOK /\ GovernanceTypeOK /\ RoadmapTypeOK /\ ReleaseTypeOK /\ ExactTypeOK
    /\ GatesTypeOK

\* What is published, bundle, source archive or pushed commit, is what was checked, however a
\* packaging or a run of the gate was cut short and whatever changed beside it (ReleaseBundle,
\* ReleaseArchive, ExactSourceGate).
PublishedAsChecked == SignedBundleIntact /\ ReleaseVouched /\ PushedAsCommitted
=============================================================================
