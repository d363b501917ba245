------------------------------ MODULE AgentSafety ------------------------------
(***************************************************************************)
(* The checks of tool/agent_safety_v2.py on what a model proposes: a       *)
(* browser plan, read step by step, a terminal plan, an effect, the claims *)
(* of a researched answer, and which models count as supported.            *)
(***************************************************************************)
EXTENDS Integers, FiniteSets, Sequences

CONSTANTS
    PlanSteps,      \* [kind, fresh, retry, guarded]
    TerminalPlans, EffectIntents, ClaimSets, SuiteResults,
    MaxRetries, MaxSteps, NoVerdict

VARIABLES browserPlan, verdicts, matrix

safetyVars == <<browserPlan, verdicts, matrix>>

-----------------------------------------------------------------------------
(* BrowserPlanningPolicy.validate: the flags after a step, or the refusal.  *)

BrowserRefusals ==
    {"browser_retry_budget_exceeded", "browser_takeover_without_observation",
     "browser_verify_without_action", "browser_action_requires_fresh_observation",
     "browser_target_stale", "browser_takeover_required", "browser_step_kind_invalid",
     "browser_postcondition_missing"}
BrowserVerdicts == BrowserRefusals \cup {"observe_action_verify_satisfied"}

ASSUME SafetyAssumption == NoVerdict \notin BrowserVerdicts /\ MaxSteps \in Nat

Refused(code) == [observed |-> FALSE, awaiting |-> FALSE, takeover |-> FALSE, verdict |-> code]

\* Mutant: a new observation keeps the user's takeover of the old one.
AfterObserve_KeepsTakeover(p) == [p EXCEPT !.observed = TRUE, !.awaiting = FALSE]

AfterObserve(p) == [p EXCEPT !.observed = TRUE, !.awaiting = FALSE, !.takeover = FALSE]

AfterStep(p, s) ==
    IF s.retry > MaxRetries THEN Refused("browser_retry_budget_exceeded")
    ELSE CASE s.kind = "observe" -> AfterObserve(p)
           [] s.kind = "takeover" ->
                IF p.observed THEN [p EXCEPT !.takeover = TRUE]
                ELSE Refused("browser_takeover_without_observation")
           [] s.kind = "verify" ->
                IF p.awaiting THEN [p EXCEPT !.awaiting = FALSE, !.observed = TRUE]
                ELSE Refused("browser_verify_without_action")
           [] s.kind = "action" ->
                IF ~p.observed \/ p.awaiting THEN Refused("browser_action_requires_fresh_observation")
                ELSE IF ~s.fresh THEN Refused("browser_target_stale")
                ELSE IF s.guarded /\ ~p.takeover THEN Refused("browser_takeover_required")
                ELSE [p EXCEPT !.awaiting = TRUE, !.observed = FALSE, !.takeover = FALSE]
           [] OTHER -> Refused("browser_step_kind_invalid")

-----------------------------------------------------------------------------
(* The other policies.                                                     *)

Untrusted == {"web", "memory", "terminal", "mcp", "a2a", "tool"}

\* InjectionGuard.authorize
AuthorizeIntent(i) ==
    IF i.capability \notin i.granted THEN "capability_not_granted"
    ELSE IF i.destination \notin i.destinations THEN "destination_not_granted"
    ELSE IF i.secret /\ i.destination \notin i.secretDestinations THEN "secret_destination_not_granted"
    ELSE IF /\ i.provenance \in Untrusted /\ i.derived
            /\ i.capability \in {"grant_authority", "change_policy", "reveal_secret"}
         THEN "untrusted_content_cannot_change_authority"
    ELSE "explicit_policy_grant"

\* TerminalPlanningPolicy.validate
TerminalVerdict(t) ==
    IF t.mode \notin {"finite", "interactive", "background"} THEN "terminal_mode_invalid"
    ELSE IF "command" \notin t.has THEN "terminal_command_missing"
    ELSE IF t.destructive /\ ~t.approved THEN "terminal_destructive_scope_requires_approval"
    ELSE IF t.mode # "finite" /\ "readiness" \notin t.has THEN "terminal_readiness_probe_required"
    ELSE IF t.mode = "background" /\ "kill" \notin t.has THEN "terminal_kill_strategy_required"
    ELSE IF "verification" \notin t.has THEN "terminal_verification_required"
    ELSE "terminal_plan_bounded"

\* ResearchAnswerPolicy.verify: a claim without a readable time is not looked at further,
\* so it counts in no disagreement.
ClaimFailures(claims, reported) ==
    LET dated == {c \in claims : c.age >= 0}
        groups == {c.group : c \in dated} \ {"none"}
    IN {<<c.id, "source_not_fetched">> : c \in {c \in claims : ~c.fetched \/ c.snippetOnly}}
       \cup {<<c.id, "citation_missing">> : c \in {c \in claims : ~c.cited}}
       \cup {<<c.id, "fetched_at_invalid">> : c \in claims \ dated}
       \cup {<<c.id, "source_stale">> : c \in {c \in dated : c.age > c.freshness}}
       \cup {<<c.id, "source_type_invalid">> :
                c \in {c \in dated : c.source \notin {"primary", "official", "independent", "repository"}}}
       \cup {<<g, "disagreement_not_surfaced">> :
                g \in {g \in groups \ reported : Cardinality({c \in dated : c.group = g}) > 1}}

\* ModelCompatibilityMatrix.build
RequiredSuites == {"protocol", "coding", "browser", "research", "safety"}

SupportedModels(results) ==
    {m \in {r.model : r \in results} :
        \A suite \in RequiredSuites : \E r \in results : r.model = m /\ r.suite = suite /\ r.passed}

-----------------------------------------------------------------------------
SafetyInit ==
    /\ browserPlan = [steps |-> <<>>, observed |-> FALSE, awaiting |-> FALSE, takeover |-> FALSE,
                      verdict |-> NoVerdict]
    /\ verdicts = [effect |-> NoVerdict, terminal |-> NoVerdict, answer |-> NoVerdict]
    /\ matrix = [results |-> {}, error |-> FALSE, supported |-> {}]

ReadStep(s) ==
    /\ browserPlan.verdict = NoVerdict /\ Len(browserPlan.steps) < MaxSteps
    /\ LET flags == AfterStep([observed |-> browserPlan.observed, awaiting |-> browserPlan.awaiting,
                               takeover |-> browserPlan.takeover, verdict |-> NoVerdict], s)
       IN browserPlan' = [steps |-> Append(browserPlan.steps, s), observed |-> flags.observed,
                          awaiting |-> flags.awaiting, takeover |-> flags.takeover,
                          verdict |-> flags.verdict]
    /\ UNCHANGED <<verdicts, matrix>>

EndOfPlan ==
    /\ browserPlan.verdict = NoVerdict
    /\ browserPlan' = [browserPlan EXCEPT !.verdict =
           IF browserPlan.awaiting THEN "browser_postcondition_missing"
           ELSE "observe_action_verify_satisfied"]
    /\ UNCHANGED <<verdicts, matrix>>

CheckIntent(i) ==
    /\ verdicts.effect = NoVerdict
    /\ verdicts' = [verdicts EXCEPT !.effect = AuthorizeIntent(i)]
    /\ UNCHANGED <<browserPlan, matrix>>

CheckTerminalPlan(t) ==
    /\ verdicts.terminal = NoVerdict
    /\ verdicts' = [verdicts EXCEPT !.terminal = TerminalVerdict(t)]
    /\ UNCHANGED <<browserPlan, matrix>>

CheckAnswer(c) ==
    /\ verdicts.answer = NoVerdict
    /\ verdicts' = [verdicts EXCEPT !.answer =
           IF ClaimFailures(c.claims, c.declared) = {} THEN "verified" ELSE "refused"]
    /\ UNCHANGED <<browserPlan, matrix>>

\* A second result of one model for one suite, or an unknown suite, is an error.
RecordSuite(r) ==
    /\ ~matrix.error
    /\ LET repeated == \E q \in matrix.results : q.model = r.model /\ q.suite = r.suite
           results == matrix.results \cup {r}
       IN matrix' = IF repeated \/ r.suite \notin RequiredSuites THEN [matrix EXCEPT !.error = TRUE]
                    ELSE [results |-> results, error |-> FALSE, supported |-> SupportedModels(results)]
    /\ UNCHANGED <<browserPlan, verdicts>>

PlanReviewNext == (\E s \in PlanSteps : ReadStep(s)) \/ EndOfPlan

VerdictNext ==
    \/ \E i \in EffectIntents : CheckIntent(i)
    \/ \E t \in TerminalPlans : CheckTerminalPlan(t)
    \/ \E c \in ClaimSets : CheckAnswer(c)

SuiteNext == \E r \in SuiteResults : RecordSuite(r)

SafetyNext == PlanReviewNext \/ VerdictNext \/ SuiteNext

SafetySpec == SafetyInit /\ [][SafetyNext]_safetyVars

-----------------------------------------------------------------------------
SafetyTypeOK ==
    /\ browserPlan \in [steps : Seq(PlanSteps), observed : BOOLEAN, awaiting : BOOLEAN,
                        takeover : BOOLEAN, verdict : BrowserVerdicts \cup {NoVerdict}]
    /\ Len(browserPlan.steps) <= MaxSteps
    /\ browserPlan.takeover => browserPlan.observed
    /\ matrix.supported \subseteq {r.model : r \in matrix.results}

\* In a plan that is accepted every action acts on what the plan has just looked at: the
\* step before it, takeovers aside, observes or verifies, the step after it observes or
\* verifies, and a destructive action has the user's takeover after that last look
\* (BrowserPlanningPolicy.validate).
AcceptedPlansGuarded ==
    browserPlan.verdict = "observe_action_verify_satisfied" =>
        LET steps == browserPlan.steps
            Looks(i) == steps[i].kind \in {"observe", "verify"}
        IN \A i \in DOMAIN steps : steps[i].kind = "action" =>
              /\ i < Len(steps) /\ Looks(i + 1)
              /\ \E j \in 1 .. i - 1 :
                    /\ Looks(j) /\ \A k \in j + 1 .. i - 1 : steps[k].kind = "takeover"
                    /\ steps[i].guarded => j < i - 1
=============================================================================
