------------------------------ MODULE PlanCompiler ------------------------------
(***************************************************************************)
(* The plan compiler (tool/plan_compiler.py): a model's plan becomes       *)
(* executable only when its schema, its graph, its capabilities, its       *)
(* evidence and the local policy agree.  The report orders the tasks in    *)
(* batches; tasks of one batch may run in any order.                       *)
(***************************************************************************)
EXTENDS Totals, FiniteSets, SequencesExt

CONSTANTS
    CompileInputs,  \* [specification, plan, policy] submitted
    Baselines,      \* those that plans are compared with
    Capabilities,   \* name -> [tools, sandbox, network]
    TypeDefaults,   \* task type -> capabilities it needs
    ValidatorNeeds, \* kind of validator -> capabilities it needs
    ToolRisks,      \* tool -> risk
    PlanContract,   \* the schema of a plan
    DocumentIssues(_, _),   \* document, schema -> the keywords it violates
    NoTask, NoReport

VARIABLES baselineReport, candidateReport

\* The tasks of a plan are a list.
ASSUME CompilerAssumption ==
    \A in \in CompileInputs :
        Len(in.plan.tasks) \in Nat /\ DOMAIN in.plan.tasks = 1 .. Len(in.plan.tasks)

compilerVars == <<baselineReport, candidateReport>>

Error(code, task) == [severity |-> "error", code |-> code, task |-> task]
Warning(code, task) == [severity |-> "warning", code |-> code, task |-> task]
If(condition, issue) == IF condition THEN {issue} ELSE {}

Tasks(plan) == ToSet(plan.tasks)
Ids(plan) == {t.id : t \in Tasks(plan)}
Enabled(plan) == {t \in Tasks(plan) : t.enabled}
EnabledIds(plan) == {t.id : t \in Enabled(plan)}
First(plan, id) == plan.tasks[CHOOSE i \in DOMAIN plan.tasks :
    plan.tasks[i].id = id /\ \A j \in 1 .. i - 1 : plan.tasks[j].id # id]

HasDuplicates(seq) == \E i, j \in DOMAIN seq : i # j /\ seq[i] = seq[j]
Repeats(seq, i) == \E j \in 1 .. i - 1 : seq[j] = seq[i]

-----------------------------------------------------------------------------
(* compile_plan, check by check.                                           *)

LocalOnly(in) == in.policy.localOnly \/ in.specification.localOnly \/ in.plan.localOnly

ContractIssues(in) ==
    {Error(k, NoTask) : k \in DocumentIssues(in.plan.document, PlanContract)}

LinkIssues(in) ==
    {Error("task_id_duplicate", in.plan.tasks[i].id) :
        i \in {i \in DOMAIN in.plan.tasks : Repeats([j \in DOMAIN in.plan.tasks |-> in.plan.tasks[j].id], i)}}
    \cup If(in.plan.specification # in.specification.id, Error("specification_link_mismatch", NoTask))
    \cup If(in.plan.localOnly # in.specification.localOnly, Error("local_only_contract_mismatch", NoTask))
    \cup If(Len(in.plan.tasks) > in.policy.maxTasks, Error("task_limit_exceeded", NoTask))

\* The identifiers of the specification are unique and its criteria refer to what is there.
SpecificationIssues(s) ==
    {Error("duplicate", NoTask) : kind \in {k \in {"requirements", "artifacts", "validators", "criteria"} :
        HasDuplicates(s[k])}}
    \cup If(~(s.criterionValidators \subseteq ToSet(s.validators)), Error("criterion_validator_missing", NoTask))
    \cup If(~(s.criterionRequirements \subseteq ToSet(s.requirements)), Error("criterion_requirement_missing", NoTask))

\* Mutant: only a task that depends on itself is seen.
Cyclic_Self(ids, next) == \E n \in ids : n \in next[n]

\* _cycles finds one: some tasks each lead to another of them.
Cyclic(ids, next) == \E s \in (SUBSET ids) \ {{}} : \A n \in s : next[n] \cap s # {}

GraphIssues(plan) ==
    (UNION {{Error("dependency_missing", t.id) : d \in t.deps \ Ids(plan)} : t \in Tasks(plan)})
    \cup {Error("dependency_disabled", t.id) : t \in {t \in Enabled(plan) :
             \E d \in t.deps \cap Ids(plan) : ~First(plan, d).enabled}}
    \cup {Error("parent_missing", t.id) : t \in {t \in Tasks(plan) : t.parent \notin Ids(plan) \cup {NoTask}}}
    \cup {Error("parent_self_reference", t.id) : t \in {t \in Tasks(plan) : t.parent = t.id}}
    \cup If(Cyclic(Ids(plan), [n \in Ids(plan) |-> First(plan, n).deps]), Error("dependency_cycle", NoTask))
    \cup If(Cyclic(Ids(plan), [n \in Ids(plan) |-> {First(plan, n).parent}]), Error("parent_cycle", NoTask))

\* inferred_capabilities
Inferred(t) ==
    TypeDefaults[t.type]
    \cup (IF t.artifacts # {} /\ ~t.manual THEN {"project.mutate"} ELSE {})
    \cup UNION {ValidatorNeeds[v.kind] : v \in (UNION {a.validators : a \in t.artifacts}) \cup t.verification}
    \cup (CASE t.boundary = "network" -> {"research.network"}
            [] t.boundary = "external" -> {"external.mcp"}
            [] OTHER -> {})
    \cup (IF t.manual THEN {"human.approval"} ELSE {})

Required(t) == t.capabilities \cup Inferred(t)

Covered(t, c) ==
    IF c = "human.approval" THEN t.manual \/ t.type \in {"approval", "manual"}
    ELSE Capabilities[c].tools \cap t.tools # {}

CapabilityIssues(in, t) ==
    LET known == Required(t) \cap DOMAIN Capabilities
        performed == t.enabled /\ ~t.manual
    IN If(~(t.tools \subseteq DOMAIN ToolRisks), Error("tool_unknown", t.id))
       \cup If(known # Required(t), Error("capability_unknown", t.id))
       \cup If(\E c \in known : ~Covered(t, c), Error("capability_tool_gap", t.id))
       \cup If(/\ performed /\ \E c \in known : Capabilities[c].network
               /\ LocalOnly(in) \/ ~in.policy.network, Error("network_capability_blocked", t.id))
       \cup If(performed /\ (\E c \in known : Capabilities[c].sandbox) /\ ~in.policy.sandbox,
               IF in.policy.unsandboxed THEN Warning("legacy_unsandboxed_execution", t.id)
               ELSE Error("sandbox_required", t.id))
       \cup If(~(Inferred(t) \subseteq t.capabilities), Error("required_capability_undeclared", t.id))

\* What the task's text claims, and where it would act.
ClaimIssues(in, t) ==
    LET mode == in.specification.deployment
        severity(code) == IF t.manual THEN Warning(code, t.id) ELSE Error(code, t.id)
    IN If(LocalOnly(in) /\ "external" \in t.claims, severity("local_only_external_claim"))
       \cup If("human" \in t.claims /\ ~in.policy.humans, severity("human_workflow_missing"))
       \cup If(t.host /\ ~in.policy.selfModification, Error("self_modification_not_approved", t.id))
       \cup If(t.type = "deployment" /\ ~t.manual /\ mode \in {"none", "external_manual"},
               Error("deployment_mode_not_executable", t.id))
       \cup If(t.type = "deployment" /\ ~t.manual /\ mode = "external_automated" /\ ~in.policy.target,
               Error("deployment_target_missing", t.id))

Deterministic(a) == \E v \in a.validators : v.deterministic /\ v.kind # "manual_review"

EvidenceIssues(t) ==
    LET local == {v.id : v \in (UNION {a.validators : a \in t.artifacts}) \cup t.verification} IN
    If(\E c \in t.criteria : c = {} \/ ~(c \subseteq local), Error("acceptance_evidence_missing", t.id))
    \cup If(\E a \in t.artifacts : a.required /\ ~t.manual /\ ~Deterministic(a),
            Error("artifact_validator_missing", t.id))

Paths(t) == {a.path : a \in t.artifacts}

Producers(plan, i, path) == {j \in 1 .. i - 1 : path \in Paths(plan.tasks[j])}

\* Mutant: the first producer of a path is remembered, not the last one.
Prior_First(plan, i, path) == CHOOSE j \in Producers(plan, i, path) : \A k \in Producers(plan, i, path) : j <= k

\* produced_paths: the task listed last before this one that produces the path.
Prior(plan, i, path) == CHOOSE j \in Producers(plan, i, path) : \A k \in Producers(plan, i, path) : k <= j

ProducerIssues(plan) ==
    {Error("artifact_path_producer_conflict", plan.tasks[i].id) : i \in {i \in DOMAIN plan.tasks :
        \E path \in Paths(plan.tasks[i]) : /\ Producers(plan, i, path) # {}
                                           /\ plan.tasks[Prior(plan, i, path)].id \notin plan.tasks[i].deps}}

BudgetIssues(in) ==
    If(SumOf([i \in DOMAIN in.plan.tasks |->
          IF in.plan.tasks[i].enabled THEN in.plan.tasks[i].budget ELSE 0]) > in.policy.maxBudget,
       Error("plan_budget_exceeded", NoTask))

Issues(in) ==
    ContractIssues(in) \cup LinkIssues(in) \cup SpecificationIssues(in.specification)
    \cup GraphIssues(in.plan) \cup ProducerIssues(in.plan) \cup BudgetIssues(in)
    \cup UNION {CapabilityIssues(in, t) \cup ClaimIssues(in, t) \cup EvidenceIssues(t) : t \in Tasks(in.plan)}

\* The codes that do not block the task they are about.
Unattributed == {"task_id_duplicate", "dependency_missing", "dependency_disabled", "parent_missing",
                 "parent_self_reference"}

Status(issues, t) ==
    CASE ~t.enabled -> "disabled"
      [] t.enabled /\ t.manual -> "manual"
      [] t.enabled /\ ~t.manual ->
            IF \E i \in issues : i.severity = "error" /\ i.task = t.id /\ i.code \notin Unattributed
            THEN "blocked" ELSE "ready"

Approvals(in, issues) ==
    UNION {If(t.risk \in {"high", "critical"}, "risk")
           \cup If(t.boundary \in {"secret", "external", "network"}, "data_boundary")
           \cup If(\E tool \in t.tools \cap DOMAIN ToolRisks :
                      ToolRisks[tool] \in {"destructive", "external", "network"}, "high_risk_tool")
           \cup If(t.type = "deployment" /\ ~t.manual, "deployment")
           \cup If([severity |-> "warning", code |-> "legacy_unsandboxed_execution", task |-> t.id] \in issues,
                   "legacy_unsandboxed_execution")
           : t \in Tasks(in.plan)}

\* topological_batches: round after round the enabled tasks whose enabled dependencies are
\* done, as long as there are any.
NextBatch(plan, done) ==
    {t.id : t \in {t \in Enabled(plan) : t.id \notin done /\ t.deps \cap EnabledIds(plan) \subseteq done}}

Finished(plan) ==
    LET After[n \in 0 .. Cardinality(EnabledIds(plan))] ==
            IF n = 0 THEN {} ELSE After[n - 1] \cup NextBatch(plan, After[n - 1])
    IN After

Rounds(plan) == {n \in 1 .. Cardinality(EnabledIds(plan)) : NextBatch(plan, Finished(plan)[n - 1]) # {}}

Batches(plan) == [n \in Rounds(plan) |-> NextBatch(plan, Finished(plan)[n - 1])]

CompilePlan(in) ==
    LET issues == Issues(in) IN
    [input |-> in, issues |-> issues,
     executable |-> \A i \in issues : i.severity # "error",
     batches |-> Batches(in.plan),
     status |-> [t \in Tasks(in.plan) |-> Status(issues, t)],
     approvals |-> Approvals(in, issues)]

-----------------------------------------------------------------------------
CompilerInit == baselineReport = NoReport /\ candidateReport = NoReport

Compile(in) ==
    /\ candidateReport = NoReport
    /\ candidateReport' = CompilePlan(in)
    /\ UNCHANGED baselineReport

\* compare_plans compiles both plans for the same specification and policy.
ComparePlans(in) ==
    /\ candidateReport # NoReport /\ baselineReport = NoReport /\ in \in Baselines
    /\ in.specification = candidateReport.input.specification
    /\ in.policy = candidateReport.input.policy
    /\ baselineReport' = CompilePlan(in)
    /\ UNCHANGED candidateReport

CompilerNext == \E in \in CompileInputs : Compile(in) \/ ComparePlans(in)

CompilerSpec == CompilerInit /\ [][CompilerNext]_compilerVars

-----------------------------------------------------------------------------
CompilerTypeOK ==
    \A r \in {baselineReport, candidateReport} \ {NoReport} :
        /\ r.executable \in BOOLEAN /\ DOMAIN r.status = Tasks(r.input.plan)
        /\ UNION ToSet(r.batches) \subseteq Ids(r.input.plan)

BatchOf(r, id) == CHOOSE b \in DOMAIN r.batches : id \in r.batches[b]

\* A plan that is declared executable can be executed: every enabled task is in one
\* batch, after all tasks it depends on, is ready or waits for a person, and two
\* tasks that produce the same path are never in one batch (compile_plan).
ExecutablePlanRuns ==
    \A r \in {baselineReport, candidateReport} \ {NoReport} : r.executable =>
        LET enabled == Enabled(r.input.plan) IN
        /\ UNION ToSet(r.batches) = {t.id : t \in enabled}
        /\ \A t \in enabled :
              /\ r.status[t] \in {"ready", "manual"}
              /\ \A d \in t.deps : d \in UNION ToSet(r.batches) /\ BatchOf(r, d) < BatchOf(r, t.id)
              /\ \A u \in enabled \ {t} : Paths(t) \cap Paths(u) # {} => BatchOf(r, t.id) # BatchOf(r, u.id)
=============================================================================
