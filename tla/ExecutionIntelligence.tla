------------------------- MODULE ExecutionIntelligence -------------------------
(***************************************************************************)
(* The decisions of tool/execution_intelligence.py: which model a request  *)
(* goes to and what its failures do to the provider's circuit, whether a   *)
(* turn made progress and what to do when it did not, whether the evidence *)
(* supports the criteria, and which history the model sees.  The module    *)
(* decides only; the workflow that calls it keeps the counters and the     *)
(* health between calls, and is external.                                  *)
(***************************************************************************)
EXTENDS Totals, SequencesExt

CONSTANTS
    Models,             \* candidate records, by identity
    RoutingRequests,
    Threshold, Cooldown,    \* the circuit policy
    StallSettings,      \* what the controller is told about the task
    ProgressFacts,      \* facts a snapshot may hold: artifacts with a digest, evidence, ...
    VerificationDocuments,
    Histories,          \* sequences of normalized history entries
    MaximumCharacters, RecentCount,
    NoDecision,
    MaxRouteTime, MaxInFlight, MaxTurns

VARIABLES
    health,             \* model -> [state, failures, openedAt]
    routeTime, inFlight,
    turn,               \* [setting, noProgress, repeats, repairs, facts, decision]
    verdict,
    compaction          \* [at, entries]

ASSUME IntelligenceAssumption ==
    /\ StallSettings \subseteq [verifier : BOOLEAN, split : BOOLEAN, ask : BOOLEAN, stronger : BOOLEAN,
                                strongerApproved : BOOLEAN, repairs : Nat]
    /\ {Threshold, MaxRouteTime, MaxInFlight, MaxTurns} \subseteq Nat

routeVars == <<health, routeTime, inFlight>>
intelligenceVars == <<routeVars, turn, verdict, compaction>>

-----------------------------------------------------------------------------
(* CircuitBreaker.                                                         *)

EffectiveState(h) ==
    IF h.state = "open" /\ routeTime - h.openedAt >= Cooldown THEN "half_open" ELSE h.state

RecordSuccess(h) == [h EXCEPT !.state = "closed", !.failures = 0]

RecordFailure(h) ==
    LET opens == h.failures + 1 >= Threshold \/ h.state = "half_open" IN
    [state |-> IF opens THEN "open" ELSE "closed", failures |-> h.failures + 1,
     openedAt |-> IF opens THEN routeTime ELSE h.openedAt]

-----------------------------------------------------------------------------
(* ModelRouter.                                                            *)

Rank(boundary) == CASE boundary = "local" -> 0 [] boundary = "private_remote" -> 1
                    [] boundary = "public_cloud" -> 2

Eligible(request, c, h) ==
    /\ c.enabled /\ c.approved
    /\ request.role \in c.roles
    /\ request.providers = {} \/ c.provider \in request.providers
    /\ request.localOnly => c.boundary = "local"
    /\ Rank(c.boundary) <= Rank(request.boundary)
    /\ c.context >= request.context
    /\ c.cost <= request.maximumCost
    /\ request.reliable => c.schemaReliable
    /\ EffectiveState(h) # "open"
    /\ c.needsApproval => request.fallbackApproved

\* The weights of the score; merit stands for benchmark, reliability, latency and cost.
Score(request, id, h) ==
    Models[id].merit
    + (IF id \in ToSet(request.preferred)
       THEN 20 - (CHOOSE i \in DOMAIN request.preferred : request.preferred[i] = id) + 1 ELSE 0)
    + (IF Models[id].boundary = "local" THEN 8 ELSE 0)
    - (IF h.failures * 8 < 30 THEN h.failures * 8 ELSE 30)
    - (IF EffectiveState(h) = "half_open" THEN 15 ELSE 0)

\* Equal scores are ordered by identity, which the model leaves open.
Routed(request) ==
    LET eligible == {id \in DOMAIN Models : Eligible(request, Models[id], health[id])} IN
    {id \in eligible : \A other \in eligible :
        Score(request, other, health[other]) <= Score(request, id, health[id])}

-----------------------------------------------------------------------------
(* SemanticProgressEngine and ConvergenceController.                       *)

\* compare: facts that are new, changed, resolved or satisfied; a fact that is lost is
\* no progress unless it is an error.
SemanticProgress(before, after) ==
    \/ \E f \in after \ before : f.kind # "error"
    \/ \E f \in before \ after : f.kind = "error"

Decision(action, stage, approval) == [action |-> action, stage |-> stage, approval |-> approval]

\* Mutant: a verifier that is there is asked again and again.
Decide_Verifier(progress, np, repeats, repairs, s) ==
    CASE progress -> Decision("continue", 0, FALSE)
      [] ~progress /\ np <= 1 /\ repeats <= 1 /\ repairs > 0 -> Decision("compact_and_retry", 1, FALSE)
      [] ~progress /\ ~(np <= 1 /\ repeats <= 1) /\ np <= 2 /\ repairs > 0 ->
            Decision("require_different_action", 2, FALSE)
      [] OTHER ->
            IF s.verifier THEN Decision("route_to_verifier", 3, FALSE)
            ELSE IF s.split /\ np <= 4 THEN Decision("split_task", 4, FALSE)
            ELSE IF s.ask /\ np <= 5 THEN Decision("ask_user", 5, TRUE)
            ELSE IF s.stronger /\ ~s.strongerApproved THEN Decision("offer_stronger_model", 6, TRUE)
            ELSE IF s.stronger /\ repairs > 0 THEN Decision("require_different_action", 6, FALSE)
            ELSE Decision("fail_convergence", 7, FALSE)

\* decide
Decide(progress, np, repeats, repairs, s) ==
    IF progress THEN Decision("continue", 0, FALSE)
    ELSE IF np <= 1 /\ repeats <= 1 /\ repairs > 0 THEN Decision("compact_and_retry", 1, FALSE)
    ELSE IF np <= 2 /\ repairs > 0 THEN Decision("require_different_action", 2, FALSE)
    ELSE IF s.verifier /\ np <= 3 THEN Decision("route_to_verifier", 3, FALSE)
    ELSE IF s.split /\ np <= 4 THEN Decision("split_task", 4, FALSE)
    ELSE IF s.ask /\ np <= 5 THEN Decision("ask_user", 5, TRUE)
    ELSE IF s.stronger /\ ~s.strongerApproved THEN Decision("offer_stronger_model", 6, TRUE)
    ELSE IF s.stronger /\ repairs > 0 THEN Decision("require_different_action", 6, FALSE)
    ELSE Decision("fail_convergence", 7, FALSE)

-----------------------------------------------------------------------------
(* IndependentVerifier.                                                    *)

ObjectiveKinds == {"artifact", "artifact_validation", "test", "verification", "command",
                   "mutation", "research", "external_operation", "preexisting_valid"}

Related(d, c) == {e \in d.evidence : c.id \in e.criteria}

Valid(d, c) == {e \in Related(d, c) : e.kind \in ObjectiveKinds /\ e.ok /\ ~e.stale /\ e.anchored}

Finding(d, c) ==
    IF c.blocked \/ (c.manual /\ Valid(d, c) = {}) THEN "blocked"
    ELSE IF \E e \in Related(d, c) : ~e.ok /\ ~e.stale THEN "failed"
    ELSE IF Valid(d, c) = {} \/ ~(c.requiredKinds \subseteq {e.kind : e \in Valid(d, c)})
         THEN "unsupported"
    ELSE "supported"

Supported(d) == {c.id : c \in {c \in d.criteria : Finding(d, c) = "supported"}}

\* Two records of evidence, or two criteria, with one id make the document invalid.
VerifyReport(d) ==
    IF \/ \E e, f \in d.evidence : e # f /\ e.id = f.id
       \/ \E c, k \in d.criteria : c # k /\ c.id = k.id
    THEN "invalid"
    ELSE IF d.criteria # {} /\ Supported(d) = {c.id : c \in d.criteria} /\ d.claims \subseteq Supported(d)
         THEN "passed" ELSE "not_passed"

-----------------------------------------------------------------------------
(* ContextCompactor.                                                       *)

\* Of the entries that say the same thing the first one is kept.
Deduplicated(entries) ==
    Kept(entries, {i \in DOMAIN entries : \A j \in 1 .. i - 1 : entries[j].says # entries[i].says})

\* The entries of high value and the most recent ones.
Selected(entries) ==
    LET kept == Deduplicated(entries)
    IN Kept(kept, {i \in DOMAIN kept : kept[i].high \/ i > Len(kept) - RecentCount})

Characters(entries) == SumOf([i \in DOMAIN entries |-> entries[i].overhead + entries[i].summary])

MaxOf(a, b) == IF a >= b THEN a ELSE b

\* One iteration of the loop: drop the first entry of low value, or shorten the longest
\* summary to half of it, but to no less than 160 characters and an ellipsis.
Shrunk(entries) ==
    LET low == {i \in DOMAIN entries : ~entries[i].high}
        longest == CHOOSE i \in DOMAIN entries :
            /\ \A j \in DOMAIN entries : entries[j].summary <= entries[i].summary
            /\ \A j \in 1 .. i - 1 : entries[j].summary < entries[i].summary
        summary == entries[longest].summary
    IN IF low # {} THEN RemoveAt(entries, CHOOSE i \in low : \A j \in low : i <= j)
       ELSE IF summary <= 160 THEN Tail(entries)
       ELSE [entries EXCEPT ![longest].summary = MaxOf(160, summary \div 2) + 1]

Oversized(entries) == entries # <<>> /\ Characters(entries) > MaximumCharacters

-----------------------------------------------------------------------------
IntelligenceInit ==
    /\ health = [m \in DOMAIN Models |-> [state |-> "closed", failures |-> 0, openedAt |-> 0]]
    /\ routeTime = 0 /\ inFlight = [m \in DOMAIN Models |-> 0]
    /\ turn \in {[setting |-> s, noProgress |-> 0, repeats |-> 0, repairs |-> s.repairs, facts |-> {},
                  decision |-> NoDecision] : s \in StallSettings}
    /\ verdict = NoDecision
    /\ compaction = [at |-> "idle", entries |-> <<>>]

Route(request) ==
    /\ \E id \in Routed(request) : inFlight[id] < MaxInFlight /\ inFlight' = [inFlight EXCEPT ![id] = @ + 1]
    /\ UNCHANGED <<health, routeTime, turn, verdict, compaction>>

\* The answer of a model, however late, is recorded with the health as it is then.
ModelAnswers(id, ok) ==
    /\ inFlight[id] > 0 /\ health[id].failures <= Threshold
    /\ inFlight' = [inFlight EXCEPT ![id] = @ - 1]
    /\ health' = [health EXCEPT ![id] = IF ok THEN RecordSuccess(@) ELSE RecordFailure(@)]
    /\ UNCHANGED <<routeTime, turn, verdict, compaction>>

RouteTick ==
    /\ routeTime < MaxRouteTime
    /\ routeTime' = routeTime + 1
    /\ UNCHANGED <<health, inFlight, turn, verdict, compaction>>

\* A turn of the executor ends with other facts, or the same; the caller counts turns
\* without progress, repeated actions and the repairs it spends.
Turn(facts, repeated, repairs) ==
    /\ turn.noProgress < MaxTurns /\ repairs \in {turn.repairs, turn.repairs - 1} /\ repairs >= 0
    /\ LET progress == SemanticProgress(turn.facts, facts)
           np == IF progress THEN 0 ELSE turn.noProgress + 1
           repeats == IF progress \/ ~repeated THEN 0 ELSE turn.repeats + 1
       IN turn' = [turn EXCEPT !.facts = facts, !.noProgress = np, !.repeats = repeats, !.repairs = repairs,
                               !.decision = Decide(progress, np, repeats, repairs, turn.setting)]
    /\ UNCHANGED <<routeVars, verdict, compaction>>

\* The user approves the stronger model that was offered.
ApproveStronger ==
    /\ turn.decision # NoDecision /\ turn.decision.action = "offer_stronger_model"
    /\ ~turn.setting.strongerApproved
    /\ turn' = [turn EXCEPT !.setting.strongerApproved = TRUE]
    /\ UNCHANGED <<routeVars, verdict, compaction>>

Verify(d) ==
    /\ verdict = NoDecision
    /\ verdict' = [document |-> d, report |-> VerifyReport(d)]
    /\ UNCHANGED <<routeVars, turn, compaction>>

Compact(entries) ==
    /\ compaction.at = "idle"
    /\ compaction' = [at |-> "loop", entries |-> Selected(entries)]
    /\ UNCHANGED <<routeVars, turn, verdict>>

CompactStep ==
    /\ compaction.at = "loop"
    /\ compaction' = IF Oversized(compaction.entries)
                     THEN [compaction EXCEPT !.entries = Shrunk(@)]
                     ELSE [compaction EXCEPT !.at = "done"]
    /\ UNCHANGED <<routeVars, turn, verdict>>

RoutingNext ==
    \/ \E request \in RoutingRequests : Route(request)
    \/ \E id \in DOMAIN Models, ok \in BOOLEAN : ModelAnswers(id, ok)
    \/ RouteTick

TurnNext ==
    \/ \E facts \in SUBSET ProgressFacts, repeated \in BOOLEAN, repairs \in 0 .. turn.repairs :
          Turn(facts, repeated, repairs)
    \/ ApproveStronger

EvidenceNext ==
    \/ \E d \in VerificationDocuments : Verify(d)
    \/ \E entries \in Histories : Compact(entries)
    \/ CompactStep

IntelligenceNext == RoutingNext \/ TurnNext \/ EvidenceNext

IntelligenceSpec == IntelligenceInit /\ [][IntelligenceNext]_intelligenceVars

-----------------------------------------------------------------------------
IntelligenceTypeOK ==
    /\ \A m \in DOMAIN Models :
          /\ health[m].state \in {"closed", "open", "half_open"}
          /\ health[m].failures \in 0 .. Threshold + 1 /\ health[m].openedAt \in 0 .. MaxRouteTime
          /\ inFlight[m] \in 0 .. MaxInFlight
    /\ routeTime \in 0 .. MaxRouteTime
    /\ turn.noProgress \in 0 .. MaxTurns /\ turn.repairs >= 0 /\ turn.facts \subseteq ProgressFacts
    /\ compaction.at \in {"idle", "loop", "done"}

\* As a stall goes on the strategy only escalates, whatever is spent, repeated or
\* approved meanwhile: it never falls back to a weaker stage, and from the sixth turn
\* without progress on only a stronger model or giving up is left
\* (ConvergenceController.decide).
StallEscalates ==
    [][(turn'.noProgress = turn.noProgress + 1 /\ turn.decision # NoDecision) =>
          /\ turn'.decision.stage >= turn.decision.stage
          /\ turn'.noProgress >= 6 => turn'.decision.stage >= 6]_turn
=============================================================================
