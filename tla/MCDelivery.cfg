CONSTANTS
    \* plans
    CompileInputs <- MCCompileInputs
    Baselines <- MCBaselines
    Capabilities <- MCCapabilities
    TypeDefaults <- MCTypeDefaults
    ValidatorNeeds <- MCValidatorNeeds
    ToolRisks <- MCToolRisks
    PlanContract <- MCPlanContract
    DocumentIssues <- SchemaIssues
    NoTask = NoTask
    NoReport = NoReport
    \* managed projects
    Launches = {l1}
    Commands = {c1, c2}
    Sessions = {s1}
    ActionProfiles <- MCActionProfiles
    NoProfile = NoProfile
    MaxSourceEdits = 1
    MaxManagerDeaths = 1
    \* models and turns
    Models <- MCModels
    RoutingRequests <- MCRoutingRequests
    Threshold = 2
    Cooldown = 1
    StallSettings <- MCStallSettings
    ProgressFacts <- MCProgressFacts
    VerificationDocuments <- MCVerificationDocuments
    Histories <- MCHistories
    MaximumCharacters = 2000
    RecentCount = 1
    NoDecision = NoDecision
    MaxRouteTime = 1
    MaxInFlight = 2
    MaxTurns = 7
    \* research
    NoUrl = NoUrl
    NoPage = NoPage
    Canonical <- MCCanonical
    Site <- MCSite
    LinkGraphs <- MCLinkGraphs
    Seed = "a"
    MaxDepth = 2
    MaxBodyBytes = 8
    MaxRedirects = 2
    CrawlBudgets <- MCCrawlBudgets
    Searches <- MCSearches
    PageMaximum = 3
    BrokerCalls <- MCBrokerCalls
    Questions <- MCQuestions
    MaxCrawls = 3
    \* safety policies
    PlanSteps <- MCPlanSteps
    TerminalPlans <- MCTerminalPlans
    EffectIntents <- MCEffectIntents
    ClaimSets <- MCClaimSets
    SuiteResults <- MCSuiteResults
    MaxRetries = 2
    MaxSteps = 6
    NoVerdict = NoVerdict
    \* memory
    Writers = {w1, w2}
    Blobs = {"b1"}
    Extensions = {"", "json", "txt"}
    Episodes <- MCEpisodes
    FreshDays = 30
    AgingDays = 90
    SourceAges = {0, 60, 91}
    Nothing = Nothing
    MaxWriterDeaths = 1
    \* administration
    Policies <- MCPolicies
    FleetChannels = {"stable", "enterprise"}
    CapabilityManifests <- MCCapabilityManifests
    McpManifests <- MCMcpManifests
    McpRequests <- MCMcpRequests
    Contracts <- MCContracts
    ContractAnswers <- MCContractAnswers
    UpdateManifests <- MCUpdateManifests
    SignerSecrets <- MCSignerSecrets
    AuditPayloads = {"p", "q"}
    MaxRecords = 3
    MaxCheckpoints = 2
    MaxAlterations = 2
    Unset = Unset
    \* benchmark
    Suites <- MCSuites
    CategoriesOf <- MCCategoriesOf
    ProjectFiles <- MCProjectFiles
    FirstFiles <- MCFirstFiles
    Candidates <- MCCandidates
    NoCandidate = NoCandidate
    NoCase = NoCase
    Full = 2
    RatioScale = 10
    MaxEdits = 1
    MaxRuns = 2
    \* release bundles
    ArtifactTrees <- MCArtifactTrees
    Locks <- MCLocks
    Configurations <- MCConfigurations
    Evidence <- MCEvidence
    Commits = {"c1", "short"}
    Platforms = {"windows", "macos"}
    NoVersion = NoVersion
    NoEvidence = NoEvidence
    NoBundle = NoBundle
    MaxPackagings = 2
    MaxChanges = 1
    \* phase evidence
    EvidencePlatforms = {"windows", "macos", "linux"}
    PhaseTasks <- MCPhaseTasks
    RequiredAssertions <- MCRequiredAssertions
    ProductAssertion <- MCProductAssertion
    NoAssertion = NoAssertion
    NoObservation = NoObservation
    FinalizeRequests <- MCFinalizeRequests
    TaskDependencies <- MCTaskDependencies
    DeclaredStates <- MCDeclaredStates
    NoPacket = NoPacket
    MaxCommands = 2
    MaxTreeEdits = 1
    \* repository governance
    BranchOrder <- MCBranchOrder
    PageSize = 2
    HygienePolicies <- MCHygienePolicies
    RemoteBranches <- MCRemoteBranches
    PushedShas = {"s1", "s2"}
    GovernanceConfigs <- MCGovernanceConfigs
    MatrixReceipts <- MCMatrixReceipts
    RemoteSettings <- MCRemoteSettings
    OutsideRulesets <- MCOutsideRulesets
    MaxGovernanceCommands = 2
    MaxOutsideChanges = 1
    \* roadmap
    TaskOrder <- MCTaskOrder
    Roadmaps <- MCRoadmaps
    Masters <- MCMasters
    RoadmapPaths = {"packet", "evidence"}
    MaxRoadmapCommands = 2
    MaxRoadmapEdits = 1
    \* source releases and their operations
    SourceTrees <- MCSourceTrees
    NoArchive = NoArchive
    OperationRequests <- MCOperationRequests
    OpsPayloads = {"p", "q"}
    OpsKeys <- MCOpsKeys
    MaxReleases = 2
    MaxTreeChanges = 1
    MaxOpsRecords = 3
    MaxOpsAlterations = 2
    \* the exact source gate
    TrackedPaths = {"generated", "evidence"}
    DartSources = {"generated"}
    GeneratedContracts = {"generated"}
    EvidencePath = "evidence"
    OtherPaths = {"notes"}
    Heads <- MCHeads
    EvidenceTasks = {"P2-003"}
    NoManifest = NoManifest
    MaxTreeWrites = 2
    MaxGateRuns = 2
    \* gates
    RequiredIds <- MCRequiredIds
    ReplayCategories = {"workflow", "security"}
    RequiredPaths = {"tool"}
    GateEvidence <- MCGateEvidence
    P9Claims <- MCP9Claims
    NativeAspects <- MCNativeAspects
    ReadinessInputs <- MCReadinessInputs
    SoakSamples <- MCSoakSamples
    SoakBudget <- MCSoakBudget
    MaxSoakSamples = 3
    GuardedPaths = {"lib", "build", "env"}
    GeneratedPaths = {"build"}
    IgnoredPaths = {"build", "env"}
    FileVersions = {"v1", "v2"}
    Absent = Absent
    MaxGuardEdits = 3
    HarnessPrograms <- MCHarnessPrograms
    NoGate = NoGate
SPECIFICATION Spec
INVARIANTS
    TypeOK
    RowsMatchProcesses
    ExecutablePlanRuns
    ResearchComplete
    AcceptedPlansGuarded
    AlterationDetected
    ReadinessEarned
    PublishedAsChecked
    CompletionBacked
    RemoteAsReviewed
    OfferedWorkIsReady
    GatesTruthful
PROPERTIES
    StallEscalates
CHECK_DEADLOCK FALSE
