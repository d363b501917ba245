---------------------------- MODULE BenchmarkRunner ----------------------------
(***************************************************************************)
(* The benchmark of the repository (tool/benchmark_runner.py): a suite of   *)
(* cases is read and executed one case after the other, while the project   *)
(* may be edited, its result is recorded as a baseline, and a later check    *)
(* reproduces it.  A hash is modelled by what it is computed of.            *)
(*                                                                         *)
(* Numbers.  A score is in parts of Full, of which every number of paths of  *)
(* a policy is a divisor, and a weight in a unit that all weights of a suite *)
(* are multiples of: the positive floats of a suite have one, since each is a *)
(* multiple of a power of two.  The ratios of a report are rounded to the    *)
(* last decimal that it keeps, 1 / RatioScale (10^-6 in the code).  What a    *)
(* double loses of an exact ratio, and NaN and Infinity as weights, are left  *)
(* out.                                                                    *)
(***************************************************************************)
EXTENDS Totals, FiniteSets

CONSTANTS
    Suites,         \* content of the suite file -> its cases, in order
    CategoriesOf,   \* content of the suite file -> the categories it declares
    ProjectFiles,   \* the other files -> what they may contain, "absent" among it
    FirstFiles,     \* the files at the start
    Candidates,     \* what a model may hand in: case id -> answer, or NoCandidate
    NoCandidate, NoCase,
    Full,           \* the score of a case that passed
    RatioScale,     \* units of the last decimal in one
    MaxEdits, MaxRuns

VARIABLES
    tree,          \* file -> content, the suite's included
    benchIndex,    \* file -> what the Git index holds of it
    benchRun,       \* the command that runs
    baseline,       \* [at, report, fingerprint]: none, torn or recorded
    benchCommand,   \* outcome of the last command
    edits, runs

ASSUME BenchmarkAssumption ==
    /\ MaxEdits \in Nat /\ MaxRuns \in Nat
    /\ Full \in Nat \ {0} /\ RatioScale \in Nat \ {0}
    /\ DOMAIN FirstFiles = DOMAIN ProjectFiles /\ "suite" \in DOMAIN ProjectFiles
    /\ \A f \in DOMAIN ProjectFiles : FirstFiles[f] \in ProjectFiles[f]
    /\ \A s \in ProjectFiles["suite"] :
          /\ Len(Suites[s]) \in Nat /\ DOMAIN Suites[s] = 1 .. Len(Suites[s])
          /\ \A i \in DOMAIN Suites[s] :
                /\ Suites[s][i].weight \in Int /\ IsFiniteSet(Suites[s][i].paths)
                /\ Suites[s][i].paths # {} => Full % Cardinality(Suites[s][i].paths) = 0

benchVars == <<tree, benchIndex, benchRun, baseline, benchCommand, edits, runs>>

NoScore == -1
Statuses == {"passed", "failed", "unavailable", "unsupported", "not_run", "error"}

-----------------------------------------------------------------------------
(* validate_suite_data                                                     *)

CommandKinds == {"command_exit", "command_json_stdout", "command_json_file"}
ModelKinds == {"model_workspace", "model_json"}
RequiredCategories == {"coding", "path_safety"}

CaseValid(case, categories) ==
    /\ case.category \in categories
    /\ case.kind \in CommandKinds \cup ModelKinds \cup {"path_policy", "capability_probe"}
    /\ case.weight > 0 /\ case.safePaths
    /\ case.kind \in CommandKinds => case.executable \in {"{python}", "flutter", "dart"}
    /\ case.kind = "model_workspace" => case.mutable # {}
    /\ case.fixture # NoCase => tree[case.fixture] # "absent"

SuiteValid(cases, categories) ==
    /\ cases # <<>>
    /\ \A i \in DOMAIN cases :
          /\ CaseValid(cases[i], categories)
          /\ \A j \in 1 .. i - 1 : cases[j].id # cases[i].id
          /\ cases[i].requires # NoCase => \E j \in 1 .. i - 1 : cases[j].id = cases[i].requires
    /\ RequiredCategories \subseteq {cases[i].category : i \in DOMAIN cases}

-----------------------------------------------------------------------------
(* The cases.                                                              *)

Result(case, status, score) ==
    [id |-> case.id, category |-> case.category, kind |-> case.kind, weight |-> case.weight,
     status |-> status, score |-> score]

\* command_case: what the command does is the content of its script.
CommandResult(case, sdk) ==
    IF \E f \in case.required : tree[f] = "absent" THEN Result(case, "unavailable", NoScore)
    ELSE IF case.executable # "{python}" /\ ~sdk THEN Result(case, "unavailable", NoScore)
    ELSE IF tree[case.script] = "flood" THEN Result(case, "error", NoScore)
    ELSE IF tree[case.script] = "good" THEN Result(case, "passed", Full)
    ELSE Result(case, "failed", 0)

\* path_policy_case: an empty list of paths passes with nothing.
PathPolicyResult(case) ==
    CASE tree[case.script] = "absent" -> Result(case, "unavailable", NoScore)
      [] tree[case.script] = "flood" -> Result(case, "error", NoScore)
      [] tree[case.script] \notin {"absent", "flood"} ->
            LET correct == {p \in case.paths : tree[case.script] = "good" \/ p = "easy"} IN
            Result(case, IF correct = case.paths THEN "passed" ELSE "failed",
                   IF case.paths = {} THEN 0 ELSE Cardinality(correct) * (Full \div Cardinality(case.paths)))

\* capability_probe_case: an implementation without its evidence is no capability.
ProbeResult(case) ==
    IF case.evidence # {} /\ \A f \in case.evidence : tree[f] # "absent"
    THEN Result(case, "passed", Full) ELSE Result(case, "unsupported", 0)

StatusOf(results, id) ==
    LET found == {i \in DOMAIN results : results[i].id = id} IN
    IF found = {} THEN "none" ELSE results[CHOOSE i \in found : TRUE].status

\* model_workspace_case and model_json_case: only a case that came out unsupported keeps
\* the cases that require it from running.
ModelResult(case, candidate, results) ==
    IF case.requires # NoCase /\ StatusOf(results, case.requires) = "unsupported"
    THEN Result(case, "unsupported", 0)
    ELSE IF candidate = NoCandidate THEN Result(case, "not_run", NoScore)
    ELSE IF candidate[case.id] = "missing" THEN Result(case, "not_run", NoScore)
    ELSE IF case.kind = "model_workspace" /\ (case.fixture = NoCase \/ tree[case.fixture] = "absent")
         THEN Result(case, "error", NoScore)
    ELSE IF candidate[case.id] = "good" THEN Result(case, "passed", Full)
    ELSE Result(case, "failed", 0)

\* execute_case, given the results of the cases before it.
CaseResult(case, sdk, candidate, results) ==
    CASE case.kind \in CommandKinds -> CommandResult(case, sdk)
      [] case.kind = "path_policy" -> PathPolicyResult(case)
      [] case.kind = "capability_probe" -> ProbeResult(case)
      [] case.kind \in ModelKinds -> ModelResult(case, candidate, results)

-----------------------------------------------------------------------------
(* aggregate_categories and build_result                                   *)

Weighted(results, chosen) ==
    SumOf([i \in DOMAIN results |-> IF i \in chosen THEN results[i].weight ELSE 0])

Earned(results, chosen) ==
    SumOf([i \in DOMAIN results |-> IF i \in chosen /\ results[i].score # NoScore
                                    THEN results[i].weight * results[i].score ELSE 0])

Scored(results, chosen) == {i \in chosen : results[i].score # NoScore}
Measured(results, chosen) == {i \in chosen : results[i].status \in {"passed", "failed", "error"}}

\* round(n / d, 6), in units of the last decimal: to the nearest, a tie to the even one.
Rounded(n, d) ==
    LET whole == (n * RatioScale) \div d
        rest == (n * RatioScale) % d
    IN IF d = 0 THEN 0
       ELSE IF 2 * rest > d \/ (2 * rest = d /\ whole % 2 = 1) THEN whole + 1 ELSE whole

\* Mutant: readiness is taken over what has a score.
Readiness_Scored(results, chosen) ==
    Rounded(Earned(results, chosen), Full * Weighted(results, Scored(results, chosen)))

Readiness(results, chosen) == Rounded(Earned(results, chosen), Full * Weighted(results, chosen))

Aggregate(results, chosen) ==
    [coverage |-> Rounded(Full * Weighted(results, Measured(results, chosen)), Full * Weighted(results, chosen)),
     score |-> IF Weighted(results, Scored(results, chosen)) = 0 THEN NoScore
               ELSE Rounded(Earned(results, chosen), Full * Weighted(results, Scored(results, chosen))),
     readiness |-> Readiness(results, chosen)]

OfCategory(results, c) == {i \in DOMAIN results : results[i].category = c}

\* benchmark_inputs_sha256
InputFiles(cases) ==
    (UNION {cases[i].required \cup cases[i].evidence : i \in DOMAIN cases})
    \cup {cases[i].fixture : i \in {i \in DOMAIN cases : cases[i].fixture # NoCase}}
    \cup {cases[i].script :
             i \in {i \in DOMAIN cases : cases[i].kind \in CommandKinds /\ cases[i].executable = "{python}"}}

\* canonical_project_file_bytes: what is staged is hashed, while what is in the files is run.
Hashed(f) == IF tree[f] = "absent" \/ benchIndex[f] = "absent" THEN tree[f] ELSE benchIndex[f]

\* The suite and the inputs are hashed when all cases have been executed.
Report(run) ==
    [mode |-> run.mode, suite |-> Hashed("suite"),
     inputs |-> [f \in InputFiles(run.cases) |-> Hashed(f)],
     results |-> run.results,
     categories |-> [c \in run.categories |-> Aggregate(run.results, OfCategory(run.results, c))],
     summary |-> Aggregate(run.results, DOMAIN run.results),
     quality |-> \A i \in DOMAIN run.results : run.results[i].status = "passed"]

\* Mutant: only what was measured, and of what, is compared.
Reproduced_InputsOnly(actual, expected) ==
    actual.mode = expected.mode /\ actual.suite = expected.suite /\ actual.inputs = expected.inputs

\* command_check compares all that both reports say.
Reproduced(actual, expected) == actual = expected

-----------------------------------------------------------------------------
IdleRun == [at |-> "idle"]

BenchmarkInit ==
    /\ tree = FirstFiles /\ benchIndex = FirstFiles
    /\ benchRun = IdleRun
    /\ baseline = [at |-> "none"]
    /\ benchCommand = "none"
    /\ edits = 0 /\ runs = 0

\* run_suite reads and validates the suite before its first case.  edited is history, and
\* read by no action: whether a file was edited since.
BeginBenchmark(purpose, mode, sdk, candidate) ==
    /\ benchRun.at = "idle" /\ runs < MaxRuns
    /\ runs' = runs + 1
    /\ IF SuiteValid(Suites[tree["suite"]], CategoriesOf[tree["suite"]])
       THEN /\ benchRun' = [at |-> "cases", purpose |-> purpose, mode |-> mode, sdk |-> sdk,
                            candidate |-> candidate, cases |-> Suites[tree["suite"]],
                            categories |-> CategoriesOf[tree["suite"]], results |-> <<>>,
                            expected |-> baseline, edited |-> FALSE]
            /\ benchCommand' = "running"
       ELSE benchCommand' = "invalid_suite" /\ UNCHANGED benchRun
    /\ UNCHANGED <<tree, benchIndex, baseline, edits>>

RunBenchmark(mode, sdk, candidate) == BeginBenchmark("run", mode, sdk, candidate)

\* How command_check finds the baseline: a torn one it cannot parse, and does not catch that.
BaselineState ==
    CASE baseline.at = "none" -> "no_baseline"
      [] baseline.at = "torn" -> "traceback"
      [] baseline.at = "recorded" ->
            IF baseline.report = baseline.fingerprint THEN "intact" ELSE "altered"

\* command_check reads the baseline first, and then measures without SDK or candidate.
CheckBenchmark ==
    IF BaselineState = "intact"
    THEN BeginBenchmark("check", "portable", FALSE, NoCandidate)
    ELSE /\ benchRun.at = "idle" /\ runs < MaxRuns
         /\ runs' = runs + 1 /\ benchCommand' = BaselineState
         /\ UNCHANGED <<tree, benchIndex, benchRun, baseline, edits>>

ExecuteCase ==
    /\ benchRun.at = "cases" /\ Len(benchRun.results) < Len(benchRun.cases)
    /\ LET case == benchRun.cases[Len(benchRun.results) + 1] IN
       benchRun' = [benchRun EXCEPT !.results =
           Append(@, CaseResult(case, benchRun.sdk, benchRun.candidate, @))]
    /\ UNCHANGED <<tree, benchIndex, baseline, benchCommand, edits, runs>>

\* The report replaces the baseline: a crash in between leaves it torn.
FinishRun(dies) ==
    /\ benchRun.at = "cases" /\ Len(benchRun.results) = Len(benchRun.cases) /\ benchRun.purpose = "run"
    /\ baseline' = IF dies THEN [at |-> "torn"]
                   ELSE [at |-> "recorded", report |-> Report(benchRun), fingerprint |-> Report(benchRun)]
    /\ benchRun' = IdleRun
    /\ benchCommand' = IF dies THEN "died" ELSE "recorded"
    /\ UNCHANGED <<tree, benchIndex, edits, runs>>

FinishCheck ==
    /\ benchRun.at = "cases" /\ Len(benchRun.results) = Len(benchRun.cases) /\ benchRun.purpose = "check"
    /\ benchCommand' = IF Reproduced(Report(benchRun), benchRun.expected.report) THEN "reproducible" ELSE "drift"
    /\ benchRun' = IdleRun
    /\ UNCHANGED <<tree, benchIndex, baseline, edits, runs>>

\* The suite or another file is edited, also while the cases run.
EditFile(f, content) ==
    /\ edits < MaxEdits /\ tree[f] # content
    /\ edits' = edits + 1
    /\ tree' = [tree EXCEPT ![f] = content]
    /\ benchRun' = IF benchRun.at = "cases" THEN [benchRun EXCEPT !.edited = TRUE] ELSE benchRun
    /\ UNCHANGED <<benchIndex, baseline, benchCommand, runs>>

\* git add of an edited file, also while the cases run.
StageFile(f) ==
    /\ benchIndex[f] # tree[f]
    /\ benchIndex' = [benchIndex EXCEPT ![f] = tree[f]]
    /\ UNCHANGED <<tree, benchRun, baseline, benchCommand, edits, runs>>

\* A result is edited by hand in the recorded baseline.
EditBaseline ==
    /\ edits < MaxEdits /\ baseline.at = "recorded" /\ benchRun.at = "idle"
    /\ \E i \in DOMAIN baseline.report.results :
          /\ baseline.report.results[i].status # "passed"
          /\ baseline' = [baseline EXCEPT !.report.results[i].status = "passed"]
    /\ edits' = edits + 1 /\ benchCommand' = "none"
    /\ UNCHANGED <<tree, benchIndex, benchRun, runs>>

\* command_validate, and command_materialize, which copies a fixture to an empty directory.
ValidateSuite ==
    /\ benchRun.at = "idle"
    /\ benchCommand' = IF SuiteValid(Suites[tree["suite"]], CategoriesOf[tree["suite"]])
                       THEN "valid" ELSE "invalid_suite"
    /\ UNCHANGED <<tree, benchIndex, benchRun, baseline, edits, runs>>

Materialize(id, empty) ==
    /\ benchRun.at = "idle"
    /\ LET cases == Suites[tree["suite"]]
           found == {i \in DOMAIN cases : cases[i].id = id /\ cases[i].fixture # NoCase}
       IN benchCommand' = IF ~SuiteValid(cases, CategoriesOf[tree["suite"]]) THEN "invalid_suite"
                          ELSE IF found = {} \/ ~empty THEN "refused" ELSE "materialized"
    /\ UNCHANGED <<tree, benchIndex, benchRun, baseline, edits, runs>>

BenchmarkNext ==
    \/ \E mode \in {"portable", "machine"}, sdk \in BOOLEAN, candidate \in Candidates :
          RunBenchmark(mode, sdk, candidate)
    \/ CheckBenchmark
    \/ ExecuteCase
    \/ \E dies \in BOOLEAN : FinishRun(dies)
    \/ FinishCheck
    \/ \E f \in DOMAIN ProjectFiles : \E content \in ProjectFiles[f] : EditFile(f, content)
    \/ \E f \in DOMAIN ProjectFiles : StageFile(f)
    \/ EditBaseline
    \/ ValidateSuite
    \/ \E id \in {"analysis", "model"}, empty \in BOOLEAN : Materialize(id, empty)

BenchmarkSpec == BenchmarkInit /\ [][BenchmarkNext]_benchVars

-----------------------------------------------------------------------------
BenchmarkTypeOK ==
    /\ \A f \in DOMAIN ProjectFiles : tree[f] \in ProjectFiles[f] /\ benchIndex[f] \in ProjectFiles[f]
    /\ benchRun.at \in {"idle", "cases"}
    /\ benchRun.at = "cases" =>
          \A i \in DOMAIN benchRun.results :
              /\ benchRun.results[i].status \in Statuses
              /\ benchRun.results[i].score \in NoScore .. Full
    /\ edits \in 0 .. MaxEdits /\ runs \in 0 .. MaxRuns

\* The results of the cases before the i-th.
ResultsBefore(results, i) == [j \in 1 .. i - 1 |-> results[j]]

\* What the chosen cases that did not pass leave out of the full score.
Missing(results, chosen) ==
    SumOf([i \in DOMAIN results |->
        IF i \in chosen /\ results[i].status # "passed"
        THEN results[i].weight * (IF results[i].score = NoScore THEN Full ELSE Full - results[i].score) ELSE 0])

\* What a report may say of the chosen results: nothing that was not measured counts as
\* ready, and what did not pass is at most what the rounding hides.
TellsOf(aggregate, results, chosen) ==
    /\ aggregate.readiness <= aggregate.coverage
    /\ aggregate.readiness = RatioScale =>
          2 * RatioScale * Missing(results, chosen) <= Full * Weighted(results, chosen)

\* A check that is about to call a baseline reproducible has, unless a file was edited under
\* it, seen every recorded result come out of the suite and the files as they are.
VouchesForPresent(run) ==
    run.purpose = "check" /\ Len(run.results) = Len(run.cases) /\ ~run.edited
    /\ Reproduced(Report(run), run.expected.report) =>
          LET cases == Suites[tree["suite"]]
              told == run.expected.report.results
          IN /\ DOMAIN told = DOMAIN cases
             /\ \A i \in DOMAIN cases : told[i] = CaseResult(cases[i], FALSE, NoCandidate, ResultsBefore(told, i))

\* Whatever was edited or staged between or under the cases: in a recorded report, of a
\* category or of the whole suite, nothing that was unavailable, unsupported or not run adds
\* to the readiness, and a readiness of one leaves out no more than half a unit of its last
\* decimal; a check vouches for the project as it is, even if the report it compares with
\* names a suite that was hashed after others of its cases had run; and a baseline that a
\* check reproduces holds no pass of a model's answer, because the check has none
\* (build_result, command_check: "Unsupported, unavailable, failed, and model-not-run cases
\* remain visible and do not count as passing").
ReadinessEarned ==
    /\ baseline.at = "recorded" =>
          LET report == baseline.fingerprint IN
          /\ TellsOf(report.summary, report.results, DOMAIN report.results)
          /\ \A c \in DOMAIN report.categories :
                TellsOf(report.categories[c], report.results, OfCategory(report.results, c))
    /\ benchRun.at = "cases" => VouchesForPresent(benchRun)
    /\ benchCommand = "reproducible" =>
          \A i \in DOMAIN baseline.report.results :
              baseline.report.results[i].kind \in ModelKinds => baseline.report.results[i].status # "passed"
=============================================================================
