------------------------------ MODULE MCDelivery ------------------------------
(* The constants of the delivery tools for TLC, built by changing one thing  *)
(* at a time in a valid document.                                            *)
EXTENDS Delivery, JsonContract, TLC

-----------------------------------------------------------------------------
(* Plans: up to three tasks, one thing changed at a time                     *)

MCCapabilities ==
    [c \in {"project.inspect", "project.mutate", "project.verify", "research.network",
            "deployment.package", "external.mcp", "human.approval"} |->
        [tools |-> CASE c = "project.inspect" -> {"read_file"}
                     [] c = "project.mutate" -> {"write_file", "delete_file"}
                     [] c = "project.verify" -> {"read_file", "run_command"}
                     [] c = "research.network" -> {"research_fetch"}
                     [] c = "deployment.package" -> {"package_deployment"}
                     [] c = "external.mcp" -> {"mcp_call"}
                     [] c = "human.approval" -> {},
         sandbox |-> c \in {"project.verify", "research.network", "deployment.package", "external.mcp"},
         network |-> c \in {"research.network", "external.mcp"}]]

MCTypeDefaults ==
    [t \in {"implementation", "verification", "deployment", "manual"} |->
        CASE t = "implementation" -> {"project.inspect", "project.mutate"}
          [] t = "verification" -> {"project.inspect", "project.verify"}
          [] t = "deployment" -> {"deployment.package"}
          [] t = "manual" -> {"human.approval"}]

MCValidatorNeeds ==
    [k \in {"file_exists", "test_passes", "manual_review"} |->
        CASE k = "file_exists" -> {"project.inspect"}
          [] k = "test_passes" -> {"project.verify"}
          [] k = "manual_review" -> {"human.approval"}]

MCToolRisks ==
    [t \in {"read_file", "write_file", "delete_file", "run_command", "research_fetch",
            "package_deployment", "mcp_call"} |->
        CASE t \in {"read_file"} -> "read" [] t = "delete_file" -> "destructive"
          [] t \in {"research_fetch"} -> "network" [] t = "mcp_call" -> "external"
          [] OTHER -> "mutation"]

MCPlanContract ==
    [type |-> {"object"}, required |-> {"id", "tasks"}, additionalProperties |-> {},
     properties |->
        [id |-> [type |-> {"string"}, minLength |-> 1, maxLength |-> 2, pattern |-> "name"],
         tasks |-> [type |-> {"array"}, minItems |-> 1, maxItems |-> 2, uniqueItems |-> TRUE,
                    items |-> [anyOf |-> <<[type |-> {"integer"}, minimum |-> 1, maximum |-> 3],
                                           [type |-> {"number"}, exclusiveMinimum |-> 4,
                                            exclusiveMaximum |-> 6]>>]],
         mode |-> [enum |-> {[t |-> "string", length |-> 1, matches |-> {}]}],
         version |-> [const |-> [t |-> "integer", n |-> 1]],
         links |-> [type |-> {"object"}, additionalProperties |-> {[type |-> {"null", "boolean"}]},
                    oneOf |-> <<[required |-> {"a"}], [required |-> {"b"}]>>,
                    allOf |-> <<[required |-> {}]>>]]]

Text(n) == [t |-> "string", length |-> n, matches |-> IF n = 9 THEN {} ELSE {"name"}]
Whole(n) == [t |-> "integer", n |-> n]
List(items) == [t |-> "array", items |-> items]
Object(members) == [t |-> "object", members |-> members]

PlanDocument == [id |-> Text(1), tasks |-> List(<<Whole(1)>>)]

PlanDocuments ==
    {PlanDocument, [id |-> Text(1)],
     [PlanDocument EXCEPT !.id = Text(0)], [PlanDocument EXCEPT !.id = Text(9)],
     [PlanDocument EXCEPT !.id = Whole(1)], [PlanDocument EXCEPT !.tasks = List(<<>>)],
     [PlanDocument EXCEPT !.tasks = List(<<Whole(1), Whole(1)>>)],
     [PlanDocument EXCEPT !.tasks = List(<<Whole(1), Whole(2), Whole(3)>>)],
     [PlanDocument EXCEPT !.tasks = List(<<Whole(4)>>)],
     [PlanDocument EXCEPT !.tasks = List(<<Whole(0), Whole(5)>>)],
     PlanDocument @@ [mode |-> Text(2)], PlanDocument @@ [version |-> Whole(2)],
     PlanDocument @@ [version |-> Whole(1)], PlanDocument @@ [other |-> Whole(1)]}
    \cup {PlanDocument @@ [links |-> Object(l)] :
            l \in {[a |-> [t |-> "null"]], [a |-> Whole(1)],
                   [a |-> [t |-> "null"], b |-> [t |-> "boolean"]]}}

Validator(id, kind) == [id |-> id, kind |-> kind, deterministic |-> TRUE]
Artifact(path, validators) == [path |-> path, required |-> TRUE, validators |-> validators]

Task(id, deps) ==
    [id |-> id, enabled |-> TRUE, manual |-> FALSE, deps |-> deps, parent |-> NoTask,
     type |-> "implementation", capabilities |-> {"project.inspect", "project.mutate"},
     tools |-> {"read_file", "write_file"}, boundary |-> "local", claims |-> {}, host |-> FALSE,
     criteria |-> {{"v"}}, verification |-> {Validator("v", "file_exists")}, artifacts |-> {},
     risk |-> "low", budget |-> 1]

WritesOut(id, deps) == [Task(id, deps) EXCEPT !.artifacts = {Artifact("out", {Validator("v", "file_exists")})}]

OneTask ==
    LET t == Task("t1", {})
        verify == [t EXCEPT !.type = "verification",
                            !.capabilities = {"project.inspect", "project.verify"},
                            !.tools = {"read_file", "run_command"}]
        deploy == [t EXCEPT !.type = "deployment", !.capabilities = {"deployment.package", "project.inspect"},
                            !.tools = {"package_deployment", "read_file"}]
        person == [t EXCEPT !.type = "manual", !.manual = TRUE,
                            !.capabilities = {"human.approval", "project.inspect"}]
        fetch == [t EXCEPT !.boundary = "network", !.capabilities = @ \cup {"research.network"},
                           !.tools = @ \cup {"research_fetch"}]
    IN {t, verify, deploy, person, fetch, [fetch EXCEPT !.manual = TRUE],
        [fetch EXCEPT !.boundary = "external"], [t EXCEPT !.tools = {"sudo"}],
        [t EXCEPT !.tools = @ \cup {"delete_file"}], [t EXCEPT !.capabilities = {"fly"}],
        [t EXCEPT !.claims = {"external", "human"}], [person EXCEPT !.claims = {"external", "human"}],
        [t EXCEPT !.host = TRUE], [t EXCEPT !.criteria = {{}}], [t EXCEPT !.criteria = {{"w"}}],
        [t EXCEPT !.artifacts = {Artifact("out", {})}], [t EXCEPT !.risk = "high"],
        [t EXCEPT !.artifacts = {Artifact("out", {Validator("v", "manual_review")})}],
        [t EXCEPT !.verification = {Validator("v", "test_passes")}], [t EXCEPT !.budget = 4],
        [t EXCEPT !.parent = "t1"], [t EXCEPT !.parent = "t9"], [t EXCEPT !.enabled = FALSE],
        [t EXCEPT !.deps = {"t9"}]}

\* Three tasks with every dependency relation, some of which produce one file.
ThreeTasks ==
    {<<a, b, c>> : a \in {Task("t1", d) : d \in {{}, {"t3"}}} \cup {WritesOut("t1", {})},
                   b \in {[WritesOut("t2", d) EXCEPT !.enabled = e] : d \in SUBSET {"t1", "t3"}, e \in BOOLEAN},
                   c \in {WritesOut("t3", d) : d \in SUBSET {"t1", "t2", "t3"}}
                         \cup {Task("t2", {}), [Task("t3", {"t2"}) EXCEPT !.parent = "t3"]}}

Specification ==
    [id |-> "s", localOnly |-> TRUE, deployment |-> "none", requirements |-> <<"r">>,
     artifacts |-> <<"a">>, validators |-> <<"v">>, criteria |-> <<"c">>,
     criterionValidators |-> {"v"}, criterionRequirements |-> {"r"}]

OpenSpecification == [Specification EXCEPT !.localOnly = FALSE]

CompilePolicy ==
    [localOnly |-> TRUE, network |-> FALSE, sandbox |-> TRUE, unsandboxed |-> FALSE, humans |-> FALSE,
     selfModification |-> FALSE, target |-> FALSE, maxTasks |-> 3, maxBudget |-> 3]

OpenPolicy == [CompilePolicy EXCEPT !.localOnly = FALSE, !.network = TRUE, !.humans = TRUE,
                                    !.selfModification = TRUE, !.target = TRUE]

Plan(tasks) == [specification |-> "s", localOnly |-> TRUE, document |-> Object(PlanDocument), tasks |-> tasks]
OpenPlan(tasks) == [Plan(tasks) EXCEPT !.localOnly = FALSE]

In(specification, plan, policy) == [specification |-> specification, plan |-> plan, policy |-> policy]

MCCompileInputs ==
    {In(Specification, Plan(tasks), CompilePolicy) : tasks \in ThreeTasks \cup {<<t>> : t \in OneTask}}
    \cup {In(s, OpenPlan(<<t>>), p) : t \in OneTask,
            s \in {[OpenSpecification EXCEPT !.deployment = d] : d \in {"none", "external_automated"}},
            p \in {OpenPolicy, [OpenPolicy EXCEPT !.sandbox = FALSE],
                   [OpenPolicy EXCEPT !.sandbox = FALSE, !.unsandboxed = TRUE],
                   [OpenPolicy EXCEPT !.target = FALSE, !.network = FALSE]}}
    \cup {In(Specification, [Plan(<<Task("t1", {})>>) EXCEPT !.document = Object(d)], CompilePolicy) :
            d \in PlanDocuments}
    \cup {In(s, Plan(<<Task("t1", {})>>), CompilePolicy) :
            s \in {[Specification EXCEPT !.id = "z"], [Specification EXCEPT !.localOnly = FALSE],
                   [Specification EXCEPT !.requirements = <<"r", "r">>],
                   [Specification EXCEPT !.criterionValidators = {"x"}],
                   [Specification EXCEPT !.criterionRequirements = {"x"}]}}
    \cup {In(Specification, Plan(<<Task("t1", {})>>), [CompilePolicy EXCEPT !.maxTasks = 0])}

MCBaselines == {In(Specification, Plan(<<Task("t1", {})>>), CompilePolicy)}

-----------------------------------------------------------------------------
(* Managed projects: what an action may be configured to do                 *)

ActionCommand ==
    [shell |-> FALSE, mode |-> "snapshot_writable", writable |-> {"out"}, inLimits |-> TRUE,
     network |-> "none", secrets |-> {}, ports |-> {}]

ActionProfile(a, c) == [action |-> a, configured |-> TRUE, sandbox |-> TRUE, command |-> c]

MCActionProfiles ==
    {ActionProfile("build", ActionCommand),
     [ActionProfile("package", ActionCommand) EXCEPT !.configured = FALSE],
     ActionProfile("test", [ActionCommand EXCEPT !.mode = "read_only", !.writable = {}]),
     ActionProfile("test", ActionCommand)}

-----------------------------------------------------------------------------
(* Research: small sites, searches and questions                             *)

WebPage(host) ==
    [host |-> host, port |-> 443, https |-> TRUE, credentials |-> FALSE, addresses |-> {"public"},
     answer |-> "ok", location |-> NoUrl, readable |-> TRUE, bytes |-> 1, allowed |-> TRUE]

MCSite ==
    [u \in {"a", "b", "c", "d", "n", "r", "x", "gone", "loop", "plain", "inner", "big", "odd", "mixed"} |->
        CASE u = "n" -> [WebPage("docs") EXCEPT !.allowed = FALSE]
          [] u = "r" -> [WebPage("docs") EXCEPT !.answer = "redirect", !.location = "d"]
          [] u = "x" -> [WebPage("other") EXCEPT !.answer = "redirect", !.location = "r"]
          [] u = "gone" -> [WebPage("docs") EXCEPT !.answer = "error"]
          [] u = "loop" -> [WebPage("docs") EXCEPT !.answer = "redirect", !.location = "loop"]
          [] u = "plain" -> [WebPage("docs") EXCEPT !.https = FALSE]
          [] u = "inner" -> [WebPage("docs") EXCEPT !.addresses = {"private"}]
          [] u = "mixed" -> [WebPage("docs") EXCEPT !.addresses = {"private", "public"}]
          [] u = "big" -> [WebPage("docs") EXCEPT !.bytes = 9]
          [] u = "d" -> [WebPage("docs") EXCEPT !.bytes = 2]
          [] u = "odd" -> [WebPage("docs") EXCEPT !.readable = FALSE, !.port = 8443]
          [] OTHER -> WebPage("docs")]

MCCanonical == [u \in DOMAIN MCSite \cup {"b?utm_source=x", "mailto"} |->
    CASE u = "b?utm_source=x" -> "b" [] u = "mailto" -> NoUrl [] OTHER -> u]

MCLinkGraphs ==
    {[u \in DOMAIN MCSite |-> CASE u = "a" -> a [] u = "b" -> b [] u = "c" -> c [] u = "d" -> d [] OTHER -> <<>>] :
        a \in {<<"b", "c">>, <<"x", "n", "b?utm_source=x">>, <<"r", "mailto">>, <<"big">>, <<"mixed", "gone">>},
        b \in {<<>>, <<"d">>, <<"d", "a">>}, c \in {<<>>, <<"b">>, <<"d", "b">>},
        d \in {<<>>, <<"a", "c">>, <<"odd", "plain">>, <<"inner", "loop">>}}

MCCrawlBudgets == {[pages |-> 2, bytes |-> 9], [pages |-> 9, bytes |-> 2], [pages |-> 9, bytes |-> 9]}

Entry(url, tier, published) ==
    [url |-> url, text |-> url, tier |-> tier, published |-> published, language |-> "en",
     host |-> IF url = "u1" THEN "docs" ELSE "news", words |-> {"w"}, provider |-> "alpha", merit |-> 10]

Catalog == <<Entry("u1", "strict", 1), Entry("u2", "moderate", 2), [Entry("u3", "off", 3) EXCEPT !.text = "u1"],
             [Entry("u4", "strict", NoPage) EXCEPT !.merit = 90], [Entry("u1", "strict", 2) EXCEPT !.language = "vi"]>>

SearchRequest ==
    [query |-> "w", limit |-> 2, language |-> "any", safe |-> "off", mode |-> "any", after |-> 0, before |-> 0,
     include |-> {}, exclude |-> {}, excludes |-> TRUE, catalog |-> Catalog]

MCSearches ==
    {SearchRequest, [SearchRequest EXCEPT !.limit = 0], [SearchRequest EXCEPT !.limit = 4],
     [SearchRequest EXCEPT !.language = "en"], [SearchRequest EXCEPT !.language = "xx"],
     [SearchRequest EXCEPT !.safe = "strict"], [SearchRequest EXCEPT !.mode = "after", !.after = 1],
     [SearchRequest EXCEPT !.mode = "before", !.before = 3],
     [SearchRequest EXCEPT !.mode = "between", !.after = 1, !.before = 3],
     [SearchRequest EXCEPT !.mode = "between"], [SearchRequest EXCEPT !.include = {"docs"}, !.limit = 1],
     [SearchRequest EXCEPT !.exclude = {"docs"}], [SearchRequest EXCEPT !.exclude = {"docs"}, !.excludes = FALSE],
     [SearchRequest EXCEPT !.query = "z"]}

MCBrokerCalls == {[url |-> u, allow |-> a] : u \in DOMAIN MCSite, a \in {{}, {"docs"}}}
MCQuestions == {[length |-> l, terms |-> l > 3, markers |-> m] :
    l \in {2, 3, 40}, m \in SUBSET {"current", "technical", "local", "compare"}}

-----------------------------------------------------------------------------
(* Models and turns                                                          *)

ModelRecord(boundary, merit) ==
    [boundary |-> boundary, roles |-> {"planner", "executor"}, provider |-> boundary, context |-> 2,
     cost |-> IF boundary = "local" THEN 0 ELSE 1, schemaReliable |-> TRUE, merit |-> merit,
     enabled |-> TRUE, approved |-> TRUE, needsApproval |-> FALSE]

MCModels ==
    [m \in {"small", "shared", "cloud", "off"} |->
        CASE m = "small" -> [ModelRecord("local", 20) EXCEPT !.schemaReliable = FALSE]
          [] m = "shared" -> ModelRecord("private_remote", 30)
          [] m = "cloud" -> [ModelRecord("public_cloud", 40) EXCEPT !.needsApproval = TRUE, !.context = 4]
          [] m = "off" -> [ModelRecord("local", 90) EXCEPT !.enabled = FALSE]]

RouteRequest ==
    [role |-> "executor", providers |-> {}, localOnly |-> FALSE, boundary |-> "private_remote", context |-> 1,
     maximumCost |-> 1, reliable |-> FALSE, fallbackApproved |-> FALSE, preferred |-> <<>>]

MCRoutingRequests ==
    {RouteRequest, [RouteRequest EXCEPT !.localOnly = TRUE], [RouteRequest EXCEPT !.reliable = TRUE],
     [RouteRequest EXCEPT !.boundary = "public_cloud", !.fallbackApproved = TRUE],
     [RouteRequest EXCEPT !.preferred = <<"shared", "small">>], [RouteRequest EXCEPT !.role = "verifier"],
     [RouteRequest EXCEPT !.providers = {"public_cloud"}]}

MCStallSettings ==
    {[verifier |-> v, split |-> s, ask |-> a, stronger |-> m, strongerApproved |-> FALSE, repairs |-> r] :
        v \in BOOLEAN, s \in BOOLEAN, a \in BOOLEAN, m \in BOOLEAN, r \in {1}}

MCProgressFacts == {[kind |-> "artifact", id |-> "f1"], [kind |-> "error", id |-> "e1"]}

Proof(id, kind) ==
    [id |-> id, kind |-> kind, ok |-> TRUE, stale |-> FALSE, anchored |-> TRUE, criteria |-> {"c1"}]
Criterion(id) == [id |-> id, blocked |-> FALSE, manual |-> FALSE, requiredKinds |-> {}]
CheckedDocument(criteria, evidence) == [criteria |-> criteria, evidence |-> evidence, claims |-> {}]

MCVerificationDocuments ==
    {CheckedDocument(c, e) :
        c \in {{}, {Criterion("c1")}, {[Criterion("c1") EXCEPT !.blocked = TRUE]},
               {[Criterion("c1") EXCEPT !.manual = TRUE]}, {[Criterion("c1") EXCEPT !.requiredKinds = {"test"}]},
               {Criterion("c1"), Criterion("c2")}},
        e \in {{}, {Proof("e1", "test")}, {Proof("e1", "opinion")}, {Proof("e1", "artifact")},
               {[Proof("e1", "test") EXCEPT !.ok = FALSE]}, {[Proof("e1", "test") EXCEPT !.stale = TRUE]},
               {Proof("e1", "test"), [Proof("e2", "test") EXCEPT !.anchored = FALSE]},
               {Proof("e1", "test"), Proof("e1", "artifact")}}}
    \cup {[CheckedDocument({Criterion("c1")}, {Proof("e1", "test")}) EXCEPT !.claims = {"c9"}]}

HistoryEntry(says, high, summary) == [says |-> says, high |-> high, overhead |-> 200, summary |-> summary]
MCHistories ==
    UNION {[1 .. n -> {HistoryEntry("read", FALSE, 900), HistoryEntry("failed", TRUE, 2000), HistoryEntry("evidence", TRUE, 700)}] :
        n \in 0 .. 3}

(* Safety policies                                                           *)

Step(kind) == [kind |-> kind, fresh |-> TRUE, retry |-> 0, guarded |-> FALSE]
MCPlanSteps ==
    {Step(k) : k \in {"observe", "action", "verify", "takeover", "sleep"}}
    \cup {[Step("action") EXCEPT !.guarded = TRUE], [Step("action") EXCEPT !.fresh = FALSE],
          [Step("observe") EXCEPT !.retry = 3]}

MCTerminalPlans ==
    {[mode |-> m, has |-> h, destructive |-> d, approved |-> a] :
        m \in {"finite", "background", "forever"}, d \in BOOLEAN, a \in BOOLEAN,
        h \in SUBSET {"command", "readiness", "kill", "verification"}}

EffectIntent ==
    [capability |-> "send", destination |-> "docs", secret |-> FALSE, provenance |-> "web", derived |-> TRUE,
     granted |-> {"send", "reveal_secret"}, destinations |-> {"docs"}, secretDestinations |-> {}]

MCEffectIntents ==
    {EffectIntent, [EffectIntent EXCEPT !.capability = "fly"], [EffectIntent EXCEPT !.destination = "news"],
     [EffectIntent EXCEPT !.secret = TRUE], [EffectIntent EXCEPT !.capability = "reveal_secret"],
     [EffectIntent EXCEPT !.capability = "reveal_secret", !.provenance = "user"]}

Claim(id, group, age) ==
    [id |-> id, fetched |-> TRUE, snippetOnly |-> FALSE, cited |-> TRUE, age |-> age, freshness |-> 7,
     source |-> "primary", group |-> group]

MCClaimSets ==
    {[claims |-> c, declared |-> d] : d \in SUBSET {"g"},
        c \in {{}, {Claim("a", "g", 1), Claim("b", "g", 1)}, {Claim("a", "g", 1), Claim("b", "g", -1)},
               {Claim("a", "none", 9)}, {[Claim("a", "none", 1) EXCEPT !.snippetOnly = TRUE]},
               {[Claim("a", "none", 1) EXCEPT !.cited = FALSE]}, {[Claim("a", "none", 1) EXCEPT !.source = "blog"]}}}

MCSuiteResults ==
    {[model |-> m, suite |-> s, passed |-> TRUE] : m \in {"m1"}, s \in {"protocol", "coding", "browser", "research", "safety", "poetry"}}
    \cup {[model |-> "m1", suite |-> "safety", passed |-> FALSE]}

(* Memory                                                                    *)

Episode ==
    [pinned |-> FALSE, evidence |-> TRUE, conversational |-> FALSE, changed |-> TRUE, completed |-> TRUE,
     outcome |-> "succeeded", mutations |-> 1, toolCalls |-> 2]

MCEpisodes ==
    {Episode, [Episode EXCEPT !.outcome = "failed"], [Episode EXCEPT !.evidence = FALSE],
     [Episode EXCEPT !.conversational = TRUE, !.changed = FALSE, !.completed = FALSE],
     [Episode EXCEPT !.mutations = 0, !.toolCalls = 1], [Episode EXCEPT !.mutations = 0]}

-----------------------------------------------------------------------------
(* Administration                                                            *)

AdminPolicy(remote, agents, cloud) ==
    [remoteMcp |-> remote, a2a |-> agents, publicCloud |-> cloud, updates |-> TRUE, signed |-> TRUE,
     channels |-> {"stable"}]

MCPolicies ==
    [p \in {"local_only", "approved_tools", "enterprise"} |->
        CASE p = "local_only" -> [AdminPolicy(FALSE, FALSE, FALSE) EXCEPT !.updates = FALSE]
          [] p = "approved_tools" -> AdminPolicy(TRUE, TRUE, FALSE)
          [] p = "enterprise" -> [AdminPolicy(TRUE, TRUE, TRUE) EXCEPT !.channels = {"stable", "enterprise"}]]

SignatureOf(payload, signer) ==
    [signer |-> signer, algorithm |-> TRUE, digest |-> payload, mac |-> <<"secret", payload>>]

MCSignerSecrets == [s \in {"owner"} |-> "secret"]

MCCapabilityManifests ==
    LET m == [kind |-> "plugin", boundary |-> "local", approval |-> "reviewed", capabilities |-> {"read"},
              title |-> "t", signature |-> SignatureOf("t", "owner")]
    IN {m, [m EXCEPT !.kind = "script"], [m EXCEPT !.title = "u"], [m EXCEPT !.signature.signer = "x"],
        [m EXCEPT !.signature.algorithm = FALSE], [m EXCEPT !.signature.mac = <<"other", "t">>],
        [m EXCEPT !.capabilities = {}]}

MCMcpManifests ==
    LET m == [transport |-> "local_stdio", executable |-> TRUE, https |-> FALSE, sandboxed |-> TRUE,
              roots |-> {"p"}, tools |-> {"t"}, resources |-> {"r"}, prompts |-> {}]
    IN {m, [m EXCEPT !.sandboxed = FALSE], [m EXCEPT !.executable = FALSE],
        [m EXCEPT !.transport = "remote_https", !.https = TRUE], [m EXCEPT !.resources = {"t"}]}

MCMcpRequests == {[initialized |-> i, roots |-> r] : i \in BOOLEAN, r \in {{}, {"p"}, {"q"}}}

MCContracts ==
    LET c == [boundary |-> "private_remote", approval |-> "explicit", capabilities |-> {"search"},
              projectAccess |-> FALSE, outputs |-> {"out"}, bytes |-> 2, turns |-> 2]
    IN {c, [c EXCEPT !.boundary = "public_cloud"], [c EXCEPT !.approval = "any"], [c EXCEPT !.projectAccess = TRUE],
        [c EXCEPT !.capabilities = {"fly"}]}

MCContractAnswers ==
    {[artifacts |-> a, used |-> u, bytes |-> b, turns |-> 2] :
        a \in {{"out"}, {"out", "log"}}, u \in {{"search"}, {"write"}}, b \in {2, 3}}

MCUpdateManifests ==
    LET m == [channel |-> "stable", release |-> "v2", signature |-> SignatureOf("v2", "owner"),
              upgradeFrom |-> {1}, rollbackTo |-> {1}, rollback |-> 1]
    IN {m, [m EXCEPT !.channel = "enterprise"], [m EXCEPT !.release = "v3"], [m EXCEPT !.rollback = 0]}

-----------------------------------------------------------------------------
(* Benchmark: suites of four cases, one of them answered by a model and one  *)
(* so heavy that another alone is lost in the rounding                       *)

BenchCase(id, kind, category) ==
    [id |-> id, kind |-> kind, category |-> category, weight |-> 1, safePaths |-> TRUE,
     executable |-> "{python}", script |-> "script", required |-> {}, evidence |-> {}, paths |-> {},
     fixture |-> NoCase, mutable |-> {}, requires |-> NoCase]

BenchCases ==
    <<[BenchCase("analysis", "command_json_stdout", "coding") EXCEPT !.required = {"script"}, !.fixture = "fixture",
                                                                     !.weight = 30],
      [BenchCase("paths", "path_policy", "path_safety") EXCEPT !.script = "policy", !.paths = {"easy", "hard"}],
      [BenchCase("browser", "capability_probe", "coding") EXCEPT !.evidence = {"evidence"}],
      [BenchCase("model", "model_workspace", "path_safety") EXCEPT !.requires = "browser", !.weight = 2,
                                                                   !.fixture = "fixture", !.mutable = {"answer"}]>>

MCSuites ==
    [s \in {"v1", "empty paths", "sdk", "backwards", "twice", "no fixture"} |->
        CASE s = "v1" -> BenchCases
          [] s = "empty paths" -> [BenchCases EXCEPT ![2].paths = {}, ![4].kind = "model_json"]
          [] s = "sdk" -> [BenchCases EXCEPT ![1].executable = "flutter"]
          [] s = "backwards" -> [BenchCases EXCEPT ![3].requires = "model"]
          [] s = "twice" -> [BenchCases EXCEPT ![2].id = "analysis"]
          [] s = "no fixture" -> [BenchCases EXCEPT ![4].fixture = NoCase]]

MCCategoriesOf == [s \in DOMAIN MCSuites |-> {"coding", "path_safety"}]

MCProjectFiles ==
    [f \in {"suite", "script", "policy", "evidence", "fixture"} |->
        CASE f = "suite" -> DOMAIN MCSuites
          [] f = "script" -> {"absent", "good", "bad", "flood"}
          [] f = "policy" -> {"absent", "good", "bad", "flood"}
          [] OTHER -> {"absent", "there"}]

MCFirstFiles ==
    [f \in DOMAIN MCProjectFiles |->
        CASE f = "suite" -> "v1" [] f \in {"script", "policy"} -> "good" [] OTHER -> "there"]

MCCandidates == {NoCandidate} \cup {[c \in {"model"} |-> a] : a \in {"missing", "good", "bad"}}

-----------------------------------------------------------------------------
(* Release bundles: a signed build, a build of nothing packable and an edit  *)

TreeFile(data) == [type |-> "file", data |-> data, mode |-> "0755", escapes |-> FALSE]

MCArtifactTrees ==
    {("app" :> TreeFile("app 1")), ("app" :> TreeFile("app 2") @@ "lib" :> TreeFile("lib")), <<>>,
     ("app" :> [TreeFile("app 1") EXCEPT !.type = "junction"]),
     ("app" :> TreeFile("app 1") @@ "link" :> [TreeFile("../..") EXCEPT !.type = "symlink", !.escapes = TRUE])}

MCLocks ==
    {<<[name |-> "sqlite", version |-> "2.9"]>>, <<[name |-> "sqlite", version |-> NoVersion]>>,
     <<[name |-> "sqlite", version |-> "2.9"], [name |-> "sqlite", version |-> "3.0"]>>}

MCConfiguration ==
    [schemaVersion |-> 1, productVersion |-> "1.9.0",
     targets |-> [p \in Platforms |-> [buildArgv |-> <<"flutter", "build">>, pathSafe |-> TRUE,
                                       credentialBoundary |-> "external"]]]

MCConfigurations ==
    {MCConfiguration, [MCConfiguration EXCEPT !.targets["macos"].buildArgv = <<"flutter", "clean">>]}

MCEvidence ==
    {[scheme |-> s, verified |-> TRUE, subject |-> Rows("app" :> TreeFile("app 1")), identity |-> "owner",
      notarized |-> n] : s \in {"authenticode", "codesign+notarization"}, n \in {TRUE}}
    \cup {[scheme |-> "codesign+notarization", verified |-> v, subject |-> Rows("app" :> TreeFile("app 1")),
           identity |-> i, notarized |-> FALSE] : v \in BOOLEAN, i \in {"", "owner"}}

-----------------------------------------------------------------------------
(* Phase evidence: three tasks, two commits, and requests with one defect    *)

MCPhaseTasks == <<"P2-003", "P2-004", "P2-005">>
MCRequiredAssertions ==
    ("P2-003" :> {"a3", "e2e3"}) @@ ("P2-004" :> {"a4"}) @@ ("P2-005" :> {"e2e5"})
MCProductAssertion ==
    ("P2-003" :> "e2e3") @@ ("P2-004" :> NoAssertion) @@ ("P2-005" :> "e2e5")
MCTaskDependencies == ("P2-003" :> {}) @@ ("P2-004" :> {}) @@ ("P2-005" :> {"P2-004"})

EvidenceTrust ==
    [keys |-> {[id |-> "k", algorithm |-> "ed25519", key |-> "key",
                purposes |-> SignedComponents \cup {"p1a-platform-receipt"},
                platforms |-> EvidencePlatforms]}]

SignedDocument(body, purpose) ==
    [body |-> body, signature |-> [algorithm |-> "ed25519", purpose |-> purpose, keyId |-> "k",
                                   key |-> "key", over |-> body]]

GraphRun(p) == [commit |-> "base", platform |-> p, run |-> 7]
ComponentBody(c, p) ==
    [status |-> "passed", platform |-> p, binding |-> GraphRun(p), completionEligible |-> TRUE,
     claims |-> TRUE]
    @@ (CASE c = "buildProvenance" ->
                [built |-> [service |-> "s1", launcher |-> "l1", uninstaller |-> "u1"]]
          [] c = "installerReceipt" ->
                [installed |-> [service |-> "s1", launcher |-> "l1", uninstaller |-> "u1"]]
          [] c = "workerDenialReceipt" -> [launcher |-> "l1"]
          [] c = "keyProviderReceipt" -> [attestation |-> "hsm"]
          [] c = "cleanupReceipt" -> [uninstaller |-> "u1"]
          [] c = "githubApiVerification" -> [run |-> 7, head |-> "base", conclusion |-> "success"]
          [] OTHER -> <<>>)

ServiceReceipt(p) ==
    LET body == [commit |-> "base", binding |-> GraphRun(p), events |-> ServiceEvents, claims |-> TRUE,
                 instance |-> "i1", serviceBuild |-> "s1"] IN
    [body |-> body, signature |-> [algorithm |-> "ecdsa-p256-sha256", nonExportable |-> TRUE,
                                   over |-> body, attestation |-> "hsm"]]

GraphDocuments(p) ==
    [c \in GraphComponents |-> IF c = "serviceBehaviorReceipt" THEN ServiceReceipt(p)
                               ELSE SignedDocument(ComponentBody(c, p), c)]

GraphReceipt(p) ==
    SignedDocument([platform |-> p, commit |-> "base", status |-> "passed", completionEligible |-> TRUE,
                    synthetic |-> FALSE, binding |-> GraphRun(p), artifact |-> "t",
                    components |-> GraphDocuments(p)], "p1a-platform-receipt")

MergedGraph(p) ==
    [trust |-> EvidenceTrust, receipt |-> GraphReceipt(p), artifactContent |-> "t",
     components |-> GraphDocuments(p),
     manifest |-> [status |-> "passed", completionClaim |-> TRUE, independentReview |-> "approved",
                   ownerApproval |-> "approved", commit |-> "base", trust |-> EvidenceTrust,
                   platformEvidence |-> [q \in EvidencePlatforms |-> "passed"],
                   receipt |-> [q \in EvidencePlatforms |-> GraphReceipt(q)],
                   graph |-> [q \in EvidencePlatforms |-> GraphDocuments(q)],
                   liveSuccess |-> [q \in EvidencePlatforms |-> TRUE]]]

ProductObservation(t, p, c) ==
    [task |-> t, platform |-> p, commit |-> c, status |-> "passed",
     entryPoint |-> "ProductRuntime.initialize", fixtureAuthority |-> FALSE, authorityIsolated |-> TRUE,
     targetHostOperation |-> TRUE, postconditions |-> TRUE, activeProcesses |-> 0]

TaskEvidence(t, p, c) ==
    [status |-> "passed", sourceOnly |-> FALSE, returnCode |-> 0,
     result |-> [task |-> t, platform |-> p, commit |-> c, status |-> "passed",
                 product |-> MCProductAssertion[t] # NoAssertion],
     assertions |-> {[id |-> i, task |-> t, platform |-> p, status |-> "passed", returnCode |-> 0,
                      result |-> 1,
                      evidence |-> [id |-> i, task |-> t, platform |-> p, commit |-> c, result |-> 1],
                      observation |-> IF MCProductAssertion[t] = i THEN ProductObservation(t, p, c)
                                      ELSE NoObservation] : i \in MCRequiredAssertions[t]}]

PlatformReceipt(p, c) ==
    [platform |-> p, commit |-> c, status |-> "passed", sourceOnly |-> FALSE, completionEligible |-> TRUE,
     attested |-> TRUE, artifact |-> "z", artifactContent |-> "z", run |-> 9, composed |-> TRUE,
     binding |-> [commit |-> c, run |-> 9, attempt |-> 1], runnerVerified |-> TRUE,
     cleanup |-> [status |-> "passed", claims |-> TRUE, binding |-> [commit |-> c, run |-> 9, attempt |-> 1]],
     binaries |-> {"nativePtyProbe", "windowsJobSupervisor", "posixWatchdog"},
     service |-> [isolated |-> TRUE, delegationOnly |-> TRUE, graph |-> MergedGraph(p),
                  summary |-> [commit |-> "base", instance |-> "i1", build |-> "s1", launcher |-> "l1"]],
     tasks |-> [t \in {MCPhaseTasks[i] : i \in 1 .. 3} |-> TaskEvidence(t, p, c)],
     synthetic |-> FALSE]

FinalizeArguments(receipts, c) ==
    [commit |-> c, base |-> "base", receipts |-> receipts,
     baseReceipt |-> [status |-> "passed", base |-> "base", p1aStatus |-> "passed",
                      dependencySatisfied |-> TRUE, mergedCommit |-> "base",
                      platforms |-> EvidencePlatforms, jobsExact |-> TRUE],
     owner |-> [approved |-> TRUE, commit |-> c, base |-> "base", acknowledged |-> TRUE,
                owner |-> "owner", synthetic |-> FALSE],
     review |-> [independent |-> TRUE, decision |-> "approve", reviewer |-> "reviewer", commit |-> c,
                 base |-> "base", receipts |-> {receipts[i] : i \in DOMAIN receipts},
                 openFindings |-> {}, conditions |-> {"fix"}, satisfied |-> {"fix"},
                 artifactIntact |-> TRUE, synthetic |-> FALSE]]

ThreeReceipts(c) ==
    <<PlatformReceipt("windows", c), PlatformReceipt("macos", c), PlatformReceipt("linux", c)>>

\* One defect in the receipt of one platform.
DefectiveReceipts ==
    LET r == PlatformReceipt("linux", "c1") IN
    {[r EXCEPT !.synthetic = TRUE], [r EXCEPT !.artifactContent = "changed"], [r EXCEPT !.run = 8],
     [r EXCEPT !.cleanup.claims = FALSE], [r EXCEPT !.binaries = {"nativePtyProbe"}],
     [r EXCEPT !.tasks["P2-003"].assertions = {}], [r EXCEPT !.tasks["P2-004"].returnCode = 1],
     [r EXCEPT !.service.summary.build = "s0"], [r EXCEPT !.service.graph.artifactContent = "changed"],
     [r EXCEPT !.service.graph.manifest.liveSuccess["linux"] = FALSE],
     [r EXCEPT !.service.graph.components["installerReceipt"].body.installed.service = "s0"],
     [r EXCEPT !.service.graph.trust.keys = {}],
     PlatformReceipt("linux", "c2"), PlatformReceipt("macos", "c1")}

MCFinalizeRequests ==
    LET good == FinalizeArguments(ThreeReceipts("c1"), "c1") IN
    {good, FinalizeArguments(ThreeReceipts("c2"), "c2"),
     FinalizeArguments(SubSeq(ThreeReceipts("c1"), 1, 2), "c1"),
     [good EXCEPT !.owner.commit = "c2"], [good EXCEPT !.review.openFindings = {"high"}],
     [good EXCEPT !.review.satisfied = {}], [good EXCEPT !.review.receipts = {}],
     [good EXCEPT !.baseReceipt.mergedCommit = "c0"]}
    \cup {FinalizeArguments([ThreeReceipts("c1") EXCEPT ![3] = r], "c1") : r \in DefectiveReceipts}

DeclaredNothing == [phaseComplete |-> FALSE, platformQualified |-> FALSE, releaseSupported |-> FALSE]

MCDeclaredStates ==
    LET task == DeclaredNothing @@ [task |-> "P2-004", status |-> "accepted_decision",
                    claim |-> "VERIFIED_SOURCE", measured |-> TRUE, behaviorObserved |-> FALSE,
                    evidence |-> {"manifest", "spike", "diagnostic", "adr"},
                    supersedes |-> {"manifest", "spike"}, downstream |-> {}]
        whole == DeclaredNothing @@ [status |-> "incomplete", claim |-> "VERIFIED_SOURCE",
                    tasks |-> [t \in {MCPhaseTasks[i] : i \in 1 .. 3} |->
                                  IF t = "P2-004" THEN "accepted_decision" ELSE "source_only"],
                    decisions |-> {"P2-004"}, certified |-> {}, debts |-> {"pty"}]
    IN {[task |-> task, phase |-> whole], [task |-> task, phase |-> [whole EXCEPT !.releaseSupported = TRUE]],
        [task |-> [task EXCEPT !.downstream = {"P2-005"}], phase |-> whole]}

-----------------------------------------------------------------------------
(* Governance: four branches on two pages, and rulesets others may put back  *)

MCBranchOrder == <<"a", "b", "main", "old">>
MCRemoteBranches ==
    ("main" :> [sha |-> "s0", protected |-> TRUE])
    @@ [n \in {"a", "b", "old"} |-> [sha |-> IF n = "a" THEN "s0" ELSE "s1", protected |-> FALSE]]

MCHygienePolicies ==
    LET good == [valid |-> TRUE, default |-> "main", keep |-> <<"main", "a">>,
                 delete |-> <<[name |-> "b", sha |-> "s1"], [name |-> "old", sha |-> "s1"]>>] IN
    {good, [good EXCEPT !.keep = <<"main", "b">>], [good EXCEPT !.keep = <<"a">>], [good EXCEPT !.valid = FALSE]}

MCGovernanceConfigs ==
    LET good == [exactChecks |-> TRUE, bypass |-> FALSE, rules |-> RequiredRules, pull |-> "review",
                 strict |-> TRUE, enforcement |-> "active", settings |-> "squash",
                 labels |-> <<[key |-> "p0", body |-> "red", wellFormed |-> TRUE],
                              [key |-> "risk", body |-> "blue", wellFormed |-> TRUE]>>] IN
    {good, [good EXCEPT !.bypass = TRUE], [good EXCEPT !.labels[2].key = "p0"],
     [good EXCEPT !.rules = @ \cup {"required_signatures"}, !.settings = "rebase"],
     [good EXCEPT !.rules = {"deletion"}]}

MCOutsideRulesets ==
    LET own == [rules |-> RequiredRules, bypass |-> FALSE, enforcement |-> "active", pull |-> "review",
                strict |-> TRUE] IN
    {<<>>, <<own>>, <<own, own>>, <<[own EXCEPT !.bypass = TRUE]>>, <<[own EXCEPT !.rules = {"deletion"}]>>}

MCRemoteSettings == [rulesets |-> <<>>, settings |-> "merge", labels |-> ("p0" :> "grey")]

MCMatrixReceipts ==
    {[status |-> "passed", passed |-> Lanes, headKnown |-> TRUE, ancestor |-> TRUE],
     [status |-> "passed", passed |-> {"ubuntu"}, headKnown |-> TRUE, ancestor |-> TRUE],
     [status |-> "passed", passed |-> Lanes, headKnown |-> TRUE, ancestor |-> FALSE]}

-----------------------------------------------------------------------------
(* Roadmap: a chain of three tasks, and manifests with one defect            *)

RoadmapTask(status, dependsOn) ==
    [status |-> status, dependsOn |-> dependsOn, packet |-> "packet", reason |-> FALSE,
     evidence |-> IF status \in {"DONE", "REVIEW"} THEN {"evidence"} ELSE {}]
Chain(s1, s2, s3) ==
    ("T1" :> RoadmapTask(s1, {})) @@ ("T2" :> RoadmapTask(s2, {"T1"})) @@ ("T3" :> RoadmapTask(s3, {"T2"}))
MCTaskOrder == <<"T1", "T2", "T3">>
MasterOf(tasks) == [version |-> "v1", dependsOn |-> [t \in DOMAIN tasks |-> tasks[t].dependsOn]]
Manifest(tasks) ==
    [parses |-> TRUE, header |-> TRUE, version |-> "v1", tasks |-> tasks, order |-> MCTaskOrder,
     nextReady |-> SelectSeq(MCTaskOrder, LAMBDA t : tasks[t].status = "READY"),
     graph |-> MasterOf(tasks).dependsOn, masterHash |-> MasterOf(tasks)]

MCRoadmaps ==
    LET early == Manifest(Chain("DONE", "READY", "NOT_STARTED")) IN
    {early, Manifest(Chain("DONE", "DONE", "READY")), Manifest(Chain("DONE", "REVIEW", "NOT_STARTED")),
     Manifest(Chain("READY", "DONE", "READY")), Manifest(Chain("DONE", "NOT_STARTED", "NOT_STARTED")),
     Manifest(Chain("DONE", "BLOCKED", "NOT_STARTED")),
     Manifest([Chain("DONE", "DONE", "READY") EXCEPT !["T1"].dependsOn = {"T2"}]),
     Manifest([Chain("DONE", "READY", "NOT_STARTED") EXCEPT !["T1"].evidence = {}]),
     [early EXCEPT !.parses = FALSE], [early EXCEPT !.nextReady = <<"T9">>], [early EXCEPT !.nextReady = <<>>]}
MCMasters == {MasterOf(m.tasks) : m \in MCRoadmaps}

-----------------------------------------------------------------------------
(* Releases: two files that may leave, one that may not, and a symlink       *)

SourceFile(content, kind) == [content |-> content, kind |-> kind]
MCSourceTrees ==
    LET plain == ("lib" :> SourceFile("v1", "source")) @@ (".env" :> SourceFile("key", "secret")) IN
    {plain @@ ("build" :> SourceFile("o", "generated")),
     plain @@ ("doc" :> SourceFile("v1", "source")),
     [plain EXCEPT !["lib"].content = "v2"],
     plain @@ ("link" :> SourceFile("v1", "symlink"))}

MCOpsKeys == ("k1" :> "secret1") @@ ("k2" :> "secret2")
OpsVersion(number, label) == [number |-> number, label |-> label]
MCSupport ==
    [upgradeFrom |-> 1, rollbackTo |-> 1, current |-> OpsVersion(3, "3"), channels |-> {"stable"}]
OpsUpdate(channel, from) ==
    [channel |-> channel, compatibleFrom |-> <<OpsVersion(from, "from"), OpsVersion(0, "0")>>]
GoodEnvelope(body) == Signed("update", body, "k1", "secret1")
OpsEnvelopes ==
    LET good == GoodEnvelope(OpsUpdate("stable", 1)) IN
    {good, Signed("update", OpsUpdate("stable", 1), "k2", "secret1"),
     [good EXCEPT !.signature.algorithm = "none"], [good EXCEPT !.signature.keyId = "k9"],
     [good EXCEPT !.manifest.channel = "beta"], [good EXCEPT !.type = "audit_checkpoint"]}
OpsProfile(boundary, network, complete, channels) ==
    [boundary |-> boundary, network |-> network, complete |-> complete, channels |-> channels, plugins |-> {}]
OpsProfiles ==
    {OpsProfile("local_only", "none", TRUE, {"stable"}), OpsProfile("local_only", "none", FALSE, {}),
     OpsProfile("anything", "none", TRUE, {}), OpsProfile("brokered_https", "anything", TRUE, {})}
MCOperationRequests ==
    {[kind |-> "envelope", envelope |-> e] : e \in OpsEnvelopes}
    \cup {[kind |-> "profile", profile |-> p] : p \in OpsProfiles}
    \cup {[kind |-> "merge", base |-> b, overlay |-> o] : b, o \in OpsProfiles}
    \cup {[kind |-> "policy", fleet |-> [projects |-> ("p1" :> "strict"), default |-> "plain"], project |-> p] :
              p \in {"p1", "p2"}}
    \cup {[kind |-> "update", envelope |-> e, support |-> MCSupport] :
              e \in OpsEnvelopes \cup {GoodEnvelope(OpsUpdate("stable", 0)), GoodEnvelope(OpsUpdate("beta", 1))}}
    \cup {[kind |-> "rollback", current |-> OpsVersion(3, "3"), versions |-> v, support |-> MCSupport] :
              v \in {<<>>, <<OpsVersion(3, "3")>>, <<OpsVersion(3, "3"), OpsVersion(2, "2")>>,
                     <<OpsVersion(0, "0"), OpsVersion(4, "4")>>, <<OpsVersion(3, "3"), OpsVersion(3, "3")>>}}

-----------------------------------------------------------------------------
(* Gates: a document that passes, and documents with one defect              *)

MCRequiredIds == ("levels" :> {"unit", "release"}) @@ ("risks" :> {"ASI01"})
GoodGateEvidence ==
    [parses |-> TRUE, wellFormed |-> TRUE, ids |-> ("levels" :> <<"unit", "release", "unit">>) @@ ("risks" :> <<"ASI01">>),
     entryPoints |-> {"test"}, risksPending |-> TRUE, penetrationPending |-> TRUE, mergeAllowed |-> TRUE,
     productionAllowed |-> FALSE, blockersPending |-> TRUE, validators |-> {"tool"}, incidentCorpus |-> FALSE,
     cases |-> <<[id |-> "r1", category |-> "workflow", test |-> "test", boundary |-> TRUE],
                 [id |-> "r2", category |-> "security", test |-> "test", boundary |-> TRUE]>>,
     tree |-> {"test", "tool"}]
MCGateEvidence ==
    LET good == GoodGateEvidence IN
    {good, [good EXCEPT !.parses = FALSE], [good EXCEPT !.wellFormed = FALSE], [good EXCEPT !.tree = {"test"}],
     [good EXCEPT !.ids["risks"] = <<"ASI01", "ASI11">>], [good EXCEPT !.productionAllowed = TRUE],
     [good EXCEPT !.cases[2].id = "r1"], [good EXCEPT !.cases[2].category = "workflow"],
     [good EXCEPT !.penetrationPending = FALSE], [good EXCEPT !.incidentCorpus = TRUE]}

MCNativeAspects == {"behavior", "device", "isolation", "remote mcp"}
MCP9Claims == {"bundle", "rollback"}
ReadyInput ==
    [parses |-> TRUE, commitExact |-> TRUE, versionValid |-> TRUE, platforms |-> <<"windows", "linux">>,
     p9 |-> MCP9Claims, penetration |-> [present |-> TRUE, critical |-> 0, high |-> 0],
     soakHours |-> 24, soakCrashes |-> 0,
     artifacts |-> [a \in {"signed", "installers", "clean"} |-> {"windows", "linux"}],
     native |-> [p \in ReleasePlatforms |-> [verified |-> MCNativeAspects, parity |-> 95]],
     evidenceCurrent |-> TRUE, betaUsers |-> 100, betaDays |-> 14, betaSev1 |-> 0,
     rcDays |-> 7, rcCrashes |-> 0, docs |-> TRUE, dryRun |-> TRUE, usability |-> TRUE]
MCReadinessInputs ==
    LET d == ReadyInput IN
    {d, [d EXCEPT !.parses = FALSE], [d EXCEPT !.commitExact = FALSE], [d EXCEPT !.versionValid = FALSE],
     [d EXCEPT !.p9 = {"bundle"}], [d EXCEPT !.penetration.present = FALSE], [d EXCEPT !.penetration.high = -1],
     [d EXCEPT !.soakHours = 23], [d EXCEPT !.soakCrashes = -1], [d EXCEPT !.evidenceCurrent = FALSE],
     [d EXCEPT !.betaUsers = 99], [d EXCEPT !.betaDays = 13], [d EXCEPT !.betaSev1 = 1], [d EXCEPT !.rcDays = 6],
     [d EXCEPT !.rcCrashes = -1], [d EXCEPT !.docs = FALSE], [d EXCEPT !.dryRun = FALSE], [d EXCEPT !.usability = FALSE],
     [d EXCEPT !.native["linux"].parity = 94], [d EXCEPT !.native["linux"].parity = 101],
     [d EXCEPT !.native["windows"].verified = @ \ {"isolation"}]}
    \cup {[d EXCEPT !.platforms = names] :
             names \in {<<>>, <<"windows">>, <<"macos">>, <<"windows", "windows">>, <<"windows", "amiga">>}}
    \cup {[d EXCEPT !.artifacts[a] = {"windows"}] : a \in {"signed", "installers", "clean"}}

SoakSample(time, rss, completed, failed, crashes) ==
    [wellFormed |-> TRUE, time |-> time, rss |-> rss, handles |-> 1, completed |-> completed, failed |-> failed,
     crashes |-> crashes, unauthorized |-> 0]
MCSoakSamples ==
    {SoakSample(time, rss, 100, 0, 0) : time \in {0, 1, 2}, rss \in {1, 2, 3, 5}}
    \cup {SoakSample(1, 1, 100, 1, 0), SoakSample(1, 1, 10, 1, 0), SoakSample(1, 1, 50, 0, 1),
          [SoakSample(2, 1, 0, 0, 0) EXCEPT !.unauthorized = 1], [SoakSample(1, 1, 0, 0, 0) EXCEPT !.wellFormed = FALSE]}
MCSoakBudget == [hours |-> 2, samples |-> 3, rss |-> 1, handles |-> 1, failurePercent |-> 1]

MCHarnessPrograms ==
    {[child |-> TRUE, escapes |-> escapes, holds |-> holds, ends |-> ends, ignores |-> ignores] :
        escapes, holds \in BOOLEAN, ends \in {{}, {"main"}, {"main", "child"}}, ignores \in SUBSET {"main", "child"}}
    \cup {[child |-> FALSE, escapes |-> FALSE, holds |-> TRUE, ends |-> ends, ignores |-> {"main"}] :
             ends \in {{}, {"main"}}}

-----------------------------------------------------------------------------
(* The exact source gate: one generated file, one of evidence; the manifest  *)
(* of HEAD may miss a file, or name one that is not committed                *)

P2State(packet) ==
    [claim |-> FALSE, canonical |-> TRUE, historical |-> TRUE,
     tasks |-> [t \in {"P2-003"} |-> [status |-> "source_only", packet |-> packet, receipts |-> FALSE]]]

MCHeads ==
    LET named == [p \in TrackedPaths |-> "head"] IN
    {[rows |-> named, evidence |-> P2State(FALSE)],
     [rows |-> named @@ ("notes" :> "other"), evidence |-> P2State(FALSE)],
     [rows |-> [p \in {"evidence"} |-> "head"], evidence |-> P2State(TRUE)]}
=============================================================================
