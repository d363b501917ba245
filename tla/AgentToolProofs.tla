---------------------------- MODULE AgentToolProofs ----------------------------
(***************************************************************************)
(* Proofs about the tools that an agent works with: plans, projects, turns, *)
(* research, safety reviews and the audit.  First what several of the       *)
(* proofs about tools need: induction and recursion on the numbers, lists,  *)
(* sums.                                                                    *)
(***************************************************************************)
EXTENDS PlanCompiler, ManagedProject, ExecutionIntelligence, ResearchWorker, AgentSafety,
        Interoperability, WellFoundedInduction, FiniteSetTheorems, TLAPS

-----------------------------------------------------------------------------
(* Induction and recursion on the numbers, for sets and functions: the        *)
(* library's theorems take an operator, which no installed prover can          *)
(* instantiate.                                                               *)

LEMMA LeastNumber ==
    ASSUME NEW T, T \subseteq Nat, T # {}
    PROVE  \E m \in T : \A n \in T : m <= n
<1>. DEFINE R == OpToRel(<, Nat)
<1>1. IsWellFoundedOn(R, Nat)
  BY NatLessThanWellFounded
<1>2. PICK m \in T : \A n \in T : <<n, m>> \notin R
  <2>. HIDE DEF R
  <2>. QED BY <1>1, WFMin
<1>3. \A n \in T : ~(n < m)
  BY <1>2 DEF OpToRel
<1>. QED BY <1>3

(* Every number is in a set that holds 0 and the number after each of its own. *)
LEMMA CountingUp ==
    ASSUME NEW S, 0 \in S, \A n \in Nat : n \in S => n + 1 \in S
    PROVE  Nat \subseteq S
<1>. SUFFICES ASSUME NEW k \in Nat, k \notin S PROVE FALSE
  OBVIOUS
<1>. DEFINE T == {d \in Nat : d \notin S}
<1>1. PICK d \in T : \A e \in T : d <= e
  <2>1. T \subseteq Nat /\ T # {}
    OBVIOUS
  <2>. HIDE DEF T
  <2>. QED BY <2>1, LeastNumber
<1>2. d # 0
  BY <1>1
<1>3. d - 1 \in Nat /\ d - 1 \in S
  BY <1>1, <1>2
<1>4. (d - 1) + 1 \in S
  BY <1>3
<1>. QED BY <1>1, <1>4

(* A function of the numbers may be defined by its value at 0 and a step.      *)
Stepwise(X, x0, G) == \E f \in [Nat -> X] : f[0] = x0 /\ \A n \in Nat : f[n + 1] = G[n][f[n]]

LEMMA StepwiseFunction ==
    ASSUME NEW X, NEW x0 \in X, NEW G \in [Nat -> [X -> X]]
    PROVE  \E f \in [Nat -> X] : f[0] = x0 /\ \A n \in Nat : f[n + 1] = G[n][f[n]]
<1>. DEFINE Approximates(g, n) ==
                /\ g \in [0 .. n -> X] /\ g[0] = x0
                /\ \A k \in Nat : k + 1 <= n => g[k + 1] = G[k][g[k]]
            S == {n \in Nat : \E g \in [0 .. n -> X] : Approximates(g, n)}
<1>1. Nat \subseteq S
  <2>1. 0 \in S
    <3>1. Approximates([k \in 0 .. 0 |-> x0], 0)
      OBVIOUS
    <3>. QED BY <3>1
  <2>2. ASSUME NEW n \in Nat, n \in S PROVE n + 1 \in S
    <3>1. PICK g \in [0 .. n -> X] : Approximates(g, n)
      BY <2>2
    <3>. DEFINE h == [k \in 0 .. n + 1 |-> IF k = n + 1 THEN G[n][g[n]] ELSE g[k]]
    <3>2. g[n] \in X /\ G[n][g[n]] \in X
      OBVIOUS
    <3>3. Approximates(h, n + 1)
      BY <3>1, <3>2
    <3>4. h \in [0 .. n + 1 -> X] /\ n + 1 \in Nat
      BY <3>1, <3>2
    <3>. HIDE DEF h, Approximates
    <3>. QED BY <3>3, <3>4
  <2>. HIDE DEF S
  <2>. QED BY <2>1, <2>2, CountingUp
<1>2. ASSUME NEW n \in Nat, NEW m \in Nat, n <= m, NEW g, NEW h, Approximates(g, n), Approximates(h, m)
      PROVE  g[n] = h[n]
  <2>. DEFINE E == {k \in Nat : k <= n => g[k] = h[k]}
  <2>1. 0 \in E
    BY <1>2
  <2>2. ASSUME NEW k \in Nat, k \in E PROVE k + 1 \in E
    BY <1>2, <2>2
  <2>3. Nat \subseteq E
    <3>. HIDE DEF E
    <3>. QED BY <2>1, <2>2, CountingUp
  <2>. QED BY <2>3
<1>. DEFINE A(n) == CHOOSE g \in [0 .. n -> X] : Approximates(g, n)
            f == [n \in Nat |-> A(n)[n]]
<1>3. ASSUME NEW n \in Nat PROVE A(n) \in [0 .. n -> X] /\ Approximates(A(n), n)
  <2>1. \E g \in [0 .. n -> X] : Approximates(g, n)
    BY <1>1
  <2>. HIDE DEF Approximates
  <2>. QED BY <2>1
<1>. HIDE DEF A, Approximates
<1>4. f \in [Nat -> X]
  BY <1>3
<1>5. f[0] = x0
  BY <1>3 DEF Approximates
<1>6. ASSUME NEW n \in Nat PROVE f[n + 1] = G[n][f[n]]
  <2>1. A(n)[n] = A(n + 1)[n]
    BY <1>2, <1>3
  <2>2. A(n + 1)[n + 1] = G[n][A(n + 1)[n]]
    <3>1. Approximates(A(n + 1), n + 1)
      BY <1>3
    <3>. QED BY <3>1 DEF Approximates
  <2>. QED BY <2>1, <2>2
<1>. HIDE DEF f
<1>. QED BY <1>4, <1>5, <1>6

LEMMA RecursionOnNat == \A X, x0, G : x0 \in X /\ G \in [Nat -> [X -> X]] => Stepwise(X, x0, G)
  BY StepwiseFunction DEF Stepwise

-----------------------------------------------------------------------------
(* AgentSafety.  While a plan is read, the flags of the validator say how    *)
(* the steps read so far end.                                               *)

StepsRead == browserPlan.steps

Looking(i) == StepsRead[i].kind \in {"observe", "verify"}

\* The step i comes after a look at j, with only takeovers in between.
LookedAt(i, j) ==
    /\ j \in 1 .. i - 1 /\ Looking(j)
    /\ \A k \in j + 1 .. i - 1 : StepsRead[k].kind = "takeover"

ActionPrepared(i) == \E j \in 1 .. i - 1 : LookedAt(i, j) /\ (StepsRead[i].guarded => j < i - 1)

\* What was looked at last, and whether a takeover followed.
ObservedMeans ==
    browserPlan.observed =>
        \E j \in 1 .. Len(StepsRead) : LookedAt(Len(StepsRead) + 1, j) /\ (browserPlan.takeover => j < Len(StepsRead))

AwaitingMeans ==
    /\ browserPlan.awaiting => ~browserPlan.observed /\ ~browserPlan.takeover
    /\ Len(StepsRead) > 0 /\ StepsRead[Len(StepsRead)].kind = "action" => browserPlan.awaiting

ActionsPrepared ==
    \A i \in DOMAIN StepsRead : StepsRead[i].kind = "action" =>
        ActionPrepared(i) /\ (i < Len(StepsRead) => Looking(i + 1))

FlagsFit == ObservedMeans /\ AwaitingMeans /\ ActionsPrepared

ReviewInv ==
    /\ SafetyTypeOK
    /\ browserPlan.verdict = NoVerdict => FlagsFit
    /\ AcceptedPlansGuarded

LEMMA ReviewInit == SafetyInit => ReviewInv
<1>. SUFFICES ASSUME SafetyInit PROVE ReviewInv
  OBVIOUS
<1>1. SafetyTypeOK
  BY SafetyAssumption DEF SafetyInit, SafetyTypeOK
<1>2. FlagsFit
  BY DEF SafetyInit, FlagsFit, ObservedMeans, AwaitingMeans, ActionsPrepared, StepsRead
<1>3. AcceptedPlansGuarded
  BY SafetyAssumption DEF SafetyInit, AcceptedPlansGuarded, BrowserVerdicts
<1>. QED BY <1>1, <1>2, <1>3 DEF ReviewInv

(* Once a plan is read to its end with nothing left to verify, every action   *)
(* in it is prepared and looked at afterwards.                              *)
EveryActionGuarded ==
    \A i \in DOMAIN StepsRead : StepsRead[i].kind = "action" =>
        /\ i < Len(StepsRead) /\ Looking(i + 1)
        /\ \E j \in 1 .. i - 1 :
              /\ Looking(j) /\ \A k \in j + 1 .. i - 1 : StepsRead[k].kind = "takeover"
              /\ StepsRead[i].guarded => j < i - 1

LEMMA FitPlansAreGuarded ==
    ASSUME SafetyTypeOK, FlagsFit, ~browserPlan.awaiting
    PROVE  EveryActionGuarded
<1>. SUFFICES ASSUME NEW i \in DOMAIN StepsRead, StepsRead[i].kind = "action"
              PROVE  /\ i < Len(StepsRead) /\ Looking(i + 1)
                     /\ \E j \in 1 .. i - 1 :
                           /\ Looking(j) /\ \A k \in j + 1 .. i - 1 : StepsRead[k].kind = "takeover"
                           /\ StepsRead[i].guarded => j < i - 1
  BY DEF EveryActionGuarded
<1>1. Len(StepsRead) \in Nat /\ i \in 1 .. Len(StepsRead)
  BY DEF SafetyTypeOK, StepsRead
<1>2. i # Len(StepsRead)
  BY <1>1 DEF FlagsFit, AwaitingMeans
<1>. QED BY <1>1, <1>2 DEF FlagsFit, ActionsPrepared, ActionPrepared, LookedAt

(* One more step keeps what was prepared and looked at prepared and looked at. *)
LEMMA LookPersists ==
    ASSUME SafetyTypeOK, NEW s \in PlanSteps, StepsRead' = Append(StepsRead, s)
    PROVE  /\ Len(StepsRead) \in Nat /\ Len(StepsRead') = Len(StepsRead) + 1
           /\ DOMAIN StepsRead = 1 .. Len(StepsRead) /\ DOMAIN StepsRead' = 1 .. Len(StepsRead) + 1
           /\ StepsRead'[Len(StepsRead) + 1] = s
           /\ \A i \in 1 .. Len(StepsRead) : StepsRead'[i] = StepsRead[i] /\ (Looking(i)' <=> Looking(i))
           /\ \A i \in 1 .. Len(StepsRead) + 1, j \in 1 .. Len(StepsRead) : LookedAt(i, j) => LookedAt(i, j)'
           /\ \A i \in 1 .. Len(StepsRead) : ActionPrepared(i) => ActionPrepared(i)'
<1>. StepsRead \in Seq(PlanSteps)
  BY DEF SafetyTypeOK, StepsRead
<1>1. /\ Len(StepsRead) \in Nat /\ Len(StepsRead') = Len(StepsRead) + 1
      /\ DOMAIN StepsRead = 1 .. Len(StepsRead) /\ DOMAIN StepsRead' = 1 .. Len(StepsRead) + 1
      /\ StepsRead'[Len(StepsRead) + 1] = s
      /\ \A i \in 1 .. Len(StepsRead) : StepsRead'[i] = StepsRead[i]
  OBVIOUS
<1>2. \A i \in 1 .. Len(StepsRead) : Looking(i)' <=> Looking(i)
  BY <1>1 DEF Looking
<1>3. ASSUME NEW i \in 1 .. Len(StepsRead) + 1, NEW j \in 1 .. Len(StepsRead), LookedAt(i, j)
      PROVE  LookedAt(i, j)'
  <2>1. j \in 1 .. i - 1 /\ Looking(j)'
    BY <1>1, <1>2, <1>3 DEF LookedAt
  <2>2. ASSUME NEW k \in j + 1 .. i - 1 PROVE StepsRead'[k].kind = "takeover"
    <3>1. k \in 1 .. Len(StepsRead)
      BY <1>1
    <3>. QED BY <3>1, <1>1, <1>3 DEF LookedAt
  <2>. QED BY <2>1, <2>2 DEF LookedAt
<1>4. ASSUME NEW i \in 1 .. Len(StepsRead), ActionPrepared(i) PROVE ActionPrepared(i)'
  <2>1. PICK j \in 1 .. i - 1 : LookedAt(i, j) /\ (StepsRead[i].guarded => j < i - 1)
    BY <1>4 DEF ActionPrepared
  <2>2. LookedAt(i, j)' /\ (StepsRead'[i].guarded => j < i - 1)
    BY <2>1, <1>1, <1>3
  <2>. QED BY <2>1, <2>2 DEF ActionPrepared
<1>. QED BY <1>1, <1>2, <1>3, <1>4

(* Reading a step keeps the flags and the steps together, or refuses the plan. *)
LEMMA ReadStepFits ==
    ASSUME SafetyTypeOK, FlagsFit, NEW s \in PlanSteps, ReadStep(s), browserPlan'.verdict = NoVerdict
    PROVE  FlagsFit'
<1>0. PICK n \in Nat : n = Len(StepsRead)
  BY DEF SafetyTypeOK, StepsRead
<1>. DEFINE flags == AfterStep([observed |-> browserPlan.observed, awaiting |-> browserPlan.awaiting,
                                takeover |-> browserPlan.takeover, verdict |-> NoVerdict], s)
<1>1. /\ StepsRead' = Append(StepsRead, s) /\ browserPlan'.verdict = flags.verdict
      /\ browserPlan'.observed = flags.observed /\ browserPlan'.awaiting = flags.awaiting
      /\ browserPlan'.takeover = flags.takeover
  BY DEF ReadStep, StepsRead
<1>2. /\ n = Len(StepsRead) /\ Len(StepsRead') = n + 1
      /\ DOMAIN StepsRead = 1 .. n /\ DOMAIN StepsRead' = 1 .. n + 1 /\ StepsRead'[n + 1] = s
      /\ \A i \in 1 .. n : StepsRead'[i] = StepsRead[i] /\ (Looking(i)' <=> Looking(i))
      /\ \A i \in 1 .. n + 1, j \in 1 .. n : LookedAt(i, j) => LookedAt(i, j)'
      /\ \A i \in 1 .. n : ActionPrepared(i) => ActionPrepared(i)'
  BY <1>0, <1>1, LookPersists
<1>3. ASSUME NEW code \in BrowserRefusals PROVE flags # Refused(code)
  BY <1>1, <1>3, SafetyAssumption DEF Refused, BrowserVerdicts
<1>4. \/ /\ s.kind = "observe" /\ flags.observed /\ ~flags.awaiting /\ ~flags.takeover
      \/ /\ s.kind = "takeover" /\ browserPlan.observed /\ flags.takeover /\ flags.observed
         /\ flags.awaiting = browserPlan.awaiting
      \/ /\ s.kind = "verify" /\ browserPlan.awaiting /\ ~flags.awaiting /\ flags.observed
         /\ flags.takeover = browserPlan.takeover
      \/ /\ s.kind = "action" /\ browserPlan.observed /\ ~browserPlan.awaiting
         /\ s.guarded => browserPlan.takeover
         /\ flags.awaiting /\ ~flags.observed /\ ~flags.takeover
  BY <1>3 DEF AfterStep, AfterObserve, BrowserRefusals
<1>5. n > 0 /\ StepsRead[n].kind = "action" => s.kind \in {"observe", "verify"}
  BY <1>2, <1>4 DEF FlagsFit, AwaitingMeans
<1>6. ActionsPrepared'
  <2>. SUFFICES ASSUME NEW i \in 1 .. n + 1, StepsRead'[i].kind = "action"
                PROVE  ActionPrepared(i)' /\ (i < Len(StepsRead') => Looking(i + 1)')
    BY <1>2 DEF ActionsPrepared
  <2>1. CASE i < n
    <3>1. ActionPrepared(i) /\ Looking(i + 1)
      BY <2>1, <1>2 DEF FlagsFit, ActionsPrepared
    <3>. QED BY <2>1, <3>1, <1>2
  <2>2. CASE i = n
    <3>1. ActionPrepared(i) /\ s.kind \in {"observe", "verify"}
      BY <2>2, <1>2, <1>5 DEF FlagsFit, ActionsPrepared
    <3>. QED BY <2>2, <3>1, <1>2 DEF Looking
  <2>3. CASE i = n + 1
    <3>1. browserPlan.observed /\ (s.guarded => browserPlan.takeover)
      BY <2>3, <1>2, <1>4
    <3>2. PICK j \in 1 .. n : LookedAt(n + 1, j) /\ (browserPlan.takeover => j < n)
      BY <3>1, <1>2 DEF FlagsFit, ObservedMeans
    <3>3. LookedAt(i, j)' /\ (StepsRead'[i].guarded => j < i - 1)
      BY <2>3, <3>1, <3>2, <1>2
    <3>4. j \in 1 .. i - 1
      BY <2>3, <1>2
    <3>. QED BY <2>3, <3>3, <3>4, <1>2 DEF ActionPrepared
  <2>. QED BY <2>1, <2>2, <2>3, <1>2
<1>7. AwaitingMeans'
  <2>1. browserPlan.awaiting => ~browserPlan.observed /\ ~browserPlan.takeover
    BY DEF FlagsFit, AwaitingMeans
  <2>. QED BY <2>1, <1>1, <1>2, <1>4 DEF AwaitingMeans, SafetyTypeOK
<1>8. ObservedMeans'
  <2>. SUFFICES ASSUME flags.observed
                PROVE  \E j \in 1 .. n + 1 : LookedAt(n + 1 + 1, j)' /\ (flags.takeover => j < n + 1)
    BY <1>1, <1>2 DEF ObservedMeans, LookedAt
  <2>1. CASE s.kind \in {"observe", "verify"}
    <3>1. LookedAt(n + 1 + 1, n + 1)'
      BY <2>1, <1>2 DEF LookedAt, Looking
    <3>2. ~flags.takeover
      BY <2>1, <1>4 DEF FlagsFit, AwaitingMeans
    <3>. QED BY <3>1, <3>2, <1>2
  <2>2. CASE s.kind = "takeover"
    <3>1. PICK j \in 1 .. n : LookedAt(n + 1, j)
      BY <2>2, <1>2, <1>4 DEF FlagsFit, ObservedMeans
    <3>2. LookedAt(n + 1 + 1, j)'
      <4>1. j \in 1 .. n + 1 /\ Looking(j)'
        BY <3>1, <1>2 DEF LookedAt
      <4>2. ASSUME NEW k \in j + 1 .. n + 1 PROVE StepsRead'[k].kind = "takeover"
        <5>1. k \in j + 1 .. n \/ k = n + 1
          OBVIOUS
        <5>2. CASE k \in j + 1 .. n
          <6>1. k \in 1 .. n /\ k \in j + 1 .. n + 1 - 1
            BY <5>2
          <6>2. StepsRead[k].kind = "takeover"
            BY <3>1, <6>1 DEF LookedAt
          <6>3. StepsRead'[k] = StepsRead[k]
            BY <1>2, <6>1
          <6>. QED BY <6>2, <6>3
        <5>3. CASE k = n + 1
          BY <5>3, <2>2, <1>2
        <5>. QED BY <5>1, <5>2, <5>3
      <4>. QED BY <4>1, <4>2, <1>2 DEF LookedAt
    <3>. QED BY <3>2, <1>2
  <2>. QED BY <2>1, <2>2, <1>4
<1>. QED BY <1>6, <1>7, <1>8 DEF FlagsFit

LEMMA ReviewNext == ReviewInv /\ [SafetyNext]_safetyVars => ReviewInv'
<1>. SUFFICES ASSUME ReviewInv, [SafetyNext]_safetyVars PROVE ReviewInv'
  OBVIOUS
<1>t. SafetyTypeOK /\ AcceptedPlansGuarded /\ (browserPlan.verdict = NoVerdict => FlagsFit)
  BY DEF ReviewInv
<1>1. CASE UNCHANGED browserPlan
  <2>1. FlagsFit' <=> FlagsFit
    BY <1>1 DEF FlagsFit, ObservedMeans, AwaitingMeans, ActionsPrepared, ActionPrepared, LookedAt, Looking,
       StepsRead
  <2>2. AcceptedPlansGuarded'
    BY <1>1, <1>t DEF AcceptedPlansGuarded
  <2>3. matrix'.supported \subseteq {r.model : r \in matrix'.results}
    <3>1. CASE UNCHANGED matrix
      BY <3>1, <1>t DEF SafetyTypeOK
    <3>2. ASSUME NEW r \in SuiteResults, RecordSuite(r)
          PROVE  matrix'.supported \subseteq {q.model : q \in matrix'.results}
      <4>1. \/ matrix' = [matrix EXCEPT !.error = TRUE]
            \/ matrix' = [results |-> matrix.results \cup {r}, error |-> FALSE,
                          supported |-> SupportedModels(matrix.results \cup {r})]
        BY <3>2 DEF RecordSuite
      <4>2. CASE matrix' = [matrix EXCEPT !.error = TRUE]
        BY <4>2, <1>t DEF SafetyTypeOK
      <4>3. CASE matrix' = [results |-> matrix.results \cup {r}, error |-> FALSE,
                            supported |-> SupportedModels(matrix.results \cup {r})]
        BY <4>3 DEF SupportedModels
      <4>. QED BY <4>1, <4>2, <4>3
    <3>. QED BY <1>1, <3>1, <3>2 DEF SafetyNext, PlanReviewNext, ReadStep, EndOfPlan, VerdictNext, SuiteNext,
               CheckIntent, CheckTerminalPlan, CheckAnswer, safetyVars
  <2>. QED BY <1>1, <1>t, <2>1, <2>2, <2>3 DEF ReviewInv, SafetyTypeOK
<1>2. ASSUME NEW s \in PlanSteps, ReadStep(s) PROVE ReviewInv'
  <2>. DEFINE flags == AfterStep([observed |-> browserPlan.observed, awaiting |-> browserPlan.awaiting,
                                  takeover |-> browserPlan.takeover, verdict |-> NoVerdict], s)
  <2>0. /\ flags.observed \in BOOLEAN /\ flags.awaiting \in BOOLEAN /\ flags.takeover \in BOOLEAN
        /\ flags.verdict \in BrowserVerdicts \cup {NoVerdict}
        /\ flags.takeover => flags.observed
    <3>1. browserPlan.takeover => browserPlan.observed
      BY <1>t DEF SafetyTypeOK
    <3>2. browserPlan.observed \in BOOLEAN /\ browserPlan.awaiting \in BOOLEAN /\ browserPlan.takeover \in BOOLEAN
      BY <1>t DEF SafetyTypeOK
    <3>. QED BY <3>1, <3>2 DEF AfterStep, AfterObserve, Refused, BrowserVerdicts, BrowserRefusals
  <2>1. SafetyTypeOK'
    BY <1>2, <1>t, <2>0, SafetyAssumption DEF ReadStep, SafetyTypeOK
  <2>2. browserPlan'.verdict = NoVerdict => FlagsFit'
    BY <1>2, <1>t, ReadStepFits DEF ReadStep
  <2>3. AcceptedPlansGuarded'
    BY <1>2, SafetyAssumption DEF AcceptedPlansGuarded, BrowserVerdicts, ReadStep, AfterStep, AfterObserve, Refused
  <2>. QED BY <2>1, <2>2, <2>3 DEF ReviewInv
<1>3. CASE EndOfPlan
  <2>1. SafetyTypeOK'
    BY <1>3, <1>t DEF EndOfPlan, SafetyTypeOK, BrowserVerdicts, BrowserRefusals
  <2>2. browserPlan'.verdict # NoVerdict
    BY <1>3, <1>t, SafetyAssumption DEF EndOfPlan, SafetyTypeOK, BrowserVerdicts, BrowserRefusals
  <2>3. AcceptedPlansGuarded'
    <3>1. CASE browserPlan.awaiting
      BY <3>1, <1>3, <1>t DEF EndOfPlan, AcceptedPlansGuarded, SafetyTypeOK
    <3>2. CASE ~browserPlan.awaiting
      <4>1. FlagsFit
        BY <1>3, <1>t DEF EndOfPlan
      <4>2. StepsRead' = StepsRead
        BY <1>3, <1>t DEF EndOfPlan, StepsRead, SafetyTypeOK
      <4>3. EveryActionGuarded
        BY <4>1, <3>2, <1>t, FitPlansAreGuarded
      <4>4. EveryActionGuarded'
        BY <4>2, <4>3 DEF EveryActionGuarded, Looking
      <4>. QED BY <4>4 DEF EveryActionGuarded, AcceptedPlansGuarded, StepsRead, Looking
    <3>. QED BY <3>1, <3>2
  <2>. QED BY <2>1, <2>2, <2>3 DEF ReviewInv
<1>. QED BY <1>1, <1>2, <1>3 DEF SafetyNext, PlanReviewNext, VerdictNext, SuiteNext, RecordSuite,
           CheckIntent, CheckTerminalPlan, CheckAnswer, safetyVars

(* In a plan that BrowserPlanningPolicy.validate accepts, every action acts   *)
(* on what the plan has just looked at, with the user's takeover where one   *)
(* is needed, and the plan looks again afterwards.                          *)
THEOREM AcceptedPlansAreGuarded == SafetySpec => []AcceptedPlansGuarded
<1>1. ReviewInv => AcceptedPlansGuarded
  BY DEF ReviewInv
<1>. QED BY <1>1, ReviewInit, ReviewNext, PTL DEF SafetySpec

(* The values of the policies' state, for every set of plans and results.    *)
THEOREM SafetyTypeCorrect == SafetySpec => []SafetyTypeOK
<1>1. ReviewInv => SafetyTypeOK
  BY DEF ReviewInv
<1>. QED BY <1>1, ReviewInit, ReviewNext, PTL DEF SafetySpec

-----------------------------------------------------------------------------
(* ManagedProject.  What a command has learned of a launch stays true until  *)
(* it writes the row: a result never goes away, and a launcher that is gone  *)
(* does not come back, although another process may get its process id.     *)

\* A launch that was not started has left nothing, and only a recorded one has a row.
LaunchesInOrder ==
    \A l \in Launches :
        /\ launchAt[l] = "new" => row[l] = "none" /\ pidHolder[l] = "none" /\ program[l] = "off"
        /\ row[l] # "none" => launchAt[l] = "recorded"

\* The kernel ends the program with its launcher.
ProgramsHeld == \A l \in Launches : program[l] = "on" => pidHolder[l] = "launcher"

CommandsInformed ==
    \A c \in Commands :
        LET l == commandOn[c] IN
        /\ commandAt[c] # "idle" => row[l] # "none"
        /\ commandAt[c] = "settle" => result[l] # "none" \/ pidHolder[l] # "launcher"
        /\ commandAt[c] = "stopped" => pidHolder[l] # "launcher"
        /\ commandAt[c] = "terminate" => ~sawForeign[c]

RowsInv == ProjectTypeOK /\ LaunchesInOrder /\ ProgramsHeld /\ CommandsInformed /\ RowsMatchProcesses

LEMMA RowsInit == ProjectInit => RowsInv
<1>. SUFFICES ASSUME ProjectInit PROVE RowsInv
  OBVIOUS
<1>1. ProjectTypeOK
  BY ProjectAssumption DEF ProjectInit, ProjectTypeOK, RowStates, CommandSteps, SessionSteps
<1>2. LaunchesInOrder /\ ProgramsHeld /\ CommandsInformed /\ RowsMatchProcesses
  BY <1>1 DEF ProjectInit, ProjectTypeOK, LaunchesInOrder, ProgramsHeld, CommandsInformed, RowsMatchProcesses
<1>. QED BY <1>1, <1>2 DEF RowsInv

LEMMA ProjectTypeStep == ProjectTypeOK /\ [ProjectNext]_projectVars => ProjectTypeOK'
<1>. SUFFICES ASSUME ProjectTypeOK, [ProjectNext]_projectVars PROVE ProjectTypeOK'
  OBVIOUS
<1>. USE DEF ProjectTypeOK, RowStates, CommandSteps, SessionSteps, Interruptions
<1>1. ASSUME NEW l \in Launches, StartLaunch(l) \/ InsertRow(l) \/ StartDies(l) \/ LauncherStep(l)
      PROVE  ProjectTypeOK'
  <2>1. CASE StartLaunch(l)
    BY <2>1 DEF StartLaunch, commandVars, sessionVars
  <2>2. CASE InsertRow(l)
    BY <2>2 DEF InsertRow, commandVars, sessionVars
  <2>3. CASE StartDies(l)
    BY <2>3, ProjectAssumption DEF StartDies, commandVars, sessionVars
  <2>4. CASE LauncherStep(l)
    BY <2>4 DEF LauncherStep, commandVars, sessionVars
  <2>. QED BY <1>1, <2>1, <2>2, <2>3, <2>4
<1>2. ASSUME NEW c \in Commands, NEW l \in Launches, NEW stop \in BOOLEAN, ReadRow(c, l, stop)
      PROVE  ProjectTypeOK'
  BY <1>2 DEF ReadRow, launchVars, sessionVars
<1>3. ASSUME NEW c \in Commands,
             \/ LookForResult(c) \/ LookForLauncher(c) \/ SettleRow(c) \/ MarkStopping(c) \/ CheckIdentity(c)
             \/ RecordStop(c) \/ CommandDies(c)
      PROVE  ProjectTypeOK'
  <2>1. CASE LookForResult(c) \/ LookForLauncher(c)
    BY <2>1 DEF LookForResult, LookForLauncher, Command, Reads, sessionVars
  <2>2. CASE SettleRow(c) \/ MarkStopping(c) \/ RecordStop(c)
    BY <2>2 DEF SettleRow, MarkStopping, RecordStop, Command, Writes, sessionVars
  <2>3. CASE CheckIdentity(c)
    BY <2>3 DEF CheckIdentity, Command, sessionVars
  <2>4. CASE CommandDies(c)
    BY <2>4, ProjectAssumption DEF CommandDies, launchVars, sessionVars
  <2>. QED BY <1>3, <2>1, <2>2, <2>3, <2>4
<1>4. ASSUME NEW c \in Commands, NEW stuck \in BOOLEAN, TerminateLauncher(c, stuck) PROVE ProjectTypeOK'
  BY <1>4 DEF TerminateLauncher, Command, sessionVars
<1>5. ASSUME NEW s \in Sessions, NEW from \in SessionSteps, NEW to \in SessionSteps, Session(s, from, to)
      PROVE  ProjectTypeOK'
  BY <1>5 DEF Session, launchVars, commandVars
<1>6. CASE SessionsNext
  <2>1. ASSUME NEW s \in Sessions, SessionDies(s) PROVE ProjectTypeOK'
    BY <2>1, ProjectAssumption DEF SessionDies, launchVars, commandVars
  <2>2. CASE EditSource
    BY <2>2, ProjectAssumption DEF EditSource, launchVars, commandVars
  <2>3. ASSUME NEW s \in Sessions, NEW p \in ActionProfiles, BeginAction(s, p) PROVE ProjectTypeOK'
    BY <2>3, <1>5 DEF BeginAction
  <2>4. ASSUME NEW s \in Sessions, NEW exit \in {"zero", "other", "exception"}, RunAction(s, exit)
        PROVE  ProjectTypeOK'
    BY <2>4, <1>5 DEF RunAction
  <2>5. ASSUME NEW s \in Sessions, NEW outputs \in {"valid", "invalid", "outside"}, CollectArtifacts(s, outputs)
        PROVE  ProjectTypeOK'
    BY <2>5, <1>5 DEF CollectArtifacts
  <2>6. ASSUME NEW s \in Sessions, PrepareWorkspace(s) \/ RecordSession(s) \/ RecordArchive(s)
        PROVE  ProjectTypeOK'
    BY <2>6, <1>5 DEF PrepareWorkspace, RecordSession, RecordArchive
  <2>. QED BY <1>6, <2>1, <2>2, <2>3, <2>4, <2>5, <2>6 DEF SessionsNext
<1>7. CASE UNCHANGED projectVars
  BY <1>7 DEF projectVars, launchVars, commandVars, sessionVars
<1>. QED BY <1>1, <1>2, <1>3, <1>4, <1>6, <1>7 DEF ProjectNext, ProcessesNext

(* An action on a launch by its own processes.                               *)
LEMMA LaunchKeepsRows ==
    ASSUME RowsInv, NEW l \in Launches, StartLaunch(l) \/ InsertRow(l) \/ StartDies(l) \/ LauncherStep(l)
    PROVE  LaunchesInOrder' /\ ProgramsHeld' /\ CommandsInformed' /\ RowsMatchProcesses'
<1>. USE DEF RowsInv, ProjectTypeOK, LaunchesInOrder, ProgramsHeld, CommandsInformed, RowsMatchProcesses,
             Interruptions, RowStates
<1>1. CASE StartLaunch(l)
  BY <1>1 DEF StartLaunch, commandVars
<1>2. CASE InsertRow(l)
  BY <1>2 DEF InsertRow, commandVars
<1>3. CASE StartDies(l)
  BY <1>3 DEF StartDies, commandVars
<1>4. CASE LauncherStep(l)
  <2>1. /\ UNCHANGED <<launchAt, row, commandAt, commandOn, sawForeign, signalled>>
        /\ launchAt[l] # "new"
        /\ \A k \in Launches \ {l} : pidHolder'[k] = pidHolder[k] /\ program'[k] = program[k]
                                     /\ result'[k] = result[k]
        /\ pidHolder'[l] = "launcher" => pidHolder[l] = "launcher"
        /\ program'[l] = "on" => pidHolder'[l] = "launcher"
        /\ result[l] # "none" => result'[l] = result[l]
    BY <1>4 DEF LauncherStep, commandVars
  <2>2. LaunchesInOrder' /\ ProgramsHeld'
    BY <2>1
  <2>3. CommandsInformed'
    BY <2>1
  <2>4. RowsMatchProcesses'
    BY <2>1
  <2>. QED BY <2>2, <2>3, <2>4
<1>. QED BY <1>1, <1>2, <1>3, <1>4

(* A step of a command.  Nothing starts a launcher or takes a result back.   *)
LEMMA CommandKeepsRows ==
    ASSUME RowsInv, NEW c \in Commands,
           \/ \E l \in Launches, stop \in BOOLEAN : ReadRow(c, l, stop)
           \/ LookForResult(c) \/ LookForLauncher(c) \/ SettleRow(c) \/ MarkStopping(c) \/ CheckIdentity(c)
           \/ \E stuck \in BOOLEAN : TerminateLauncher(c, stuck)
           \/ RecordStop(c) \/ CommandDies(c)
    PROVE  LaunchesInOrder' /\ ProgramsHeld' /\ CommandsInformed' /\ RowsMatchProcesses'
<1>. USE DEF RowsInv, ProjectTypeOK, LaunchesInOrder, ProgramsHeld, CommandsInformed, RowsMatchProcesses
<1>1. ASSUME NEW l \in Launches, NEW stop \in BOOLEAN, ReadRow(c, l, stop)
      PROVE  LaunchesInOrder' /\ ProgramsHeld' /\ CommandsInformed' /\ RowsMatchProcesses'
  BY <1>1 DEF ReadRow, launchVars
<1>2. CASE LookForResult(c) \/ LookForLauncher(c)
  BY <1>2 DEF LookForResult, LookForLauncher, IdentityAlive, Command, Reads
<1>3. CASE SettleRow(c)
  BY <1>3 DEF SettleRow, Command, Writes
<1>4. CASE MarkStopping(c)
  BY <1>4 DEF MarkStopping, Command, Writes
<1>5. CASE CheckIdentity(c)
  <2>. DEFINE l == commandOn[c]
  <2>1. /\ l \in Launches /\ commandAt[c] = "check" /\ row[l] # "none"
        /\ UNCHANGED <<launchAt, row, pidHolder, program, result, commandOn, signalled>>
        /\ \A d \in Commands \ {c} : commandAt'[d] = commandAt[d] /\ sawForeign'[d] = sawForeign[d]
        /\ commandAt'[c] \in {"terminate", "mismatch", "stopped"}
        /\ commandAt'[c] = "terminate" => ~sawForeign'[c]
        /\ commandAt'[c] = "stopped" => pidHolder[l] # "launcher"
    BY <1>5 DEF CheckIdentity, IdentityAlive, Command
  <2>2. LaunchesInOrder' /\ ProgramsHeld' /\ RowsMatchProcesses'
    BY <2>1
  <2>3. CommandsInformed'
    BY <2>1
  <2>. QED BY <2>2, <2>3
<1>6. ASSUME NEW stuck \in BOOLEAN, TerminateLauncher(c, stuck)
      PROVE  LaunchesInOrder' /\ ProgramsHeld' /\ CommandsInformed' /\ RowsMatchProcesses'
  BY <1>6 DEF TerminateLauncher, Command
<1>7. CASE RecordStop(c)
  BY <1>7 DEF RecordStop, Command, Writes
<1>8. CASE CommandDies(c)
  BY <1>8 DEF CommandDies, launchVars
<1>. QED BY <1>1, <1>2, <1>3, <1>4, <1>5, <1>6, <1>7, <1>8

LEMMA RowsStep == RowsInv /\ [ProjectNext]_projectVars => RowsInv'
<1>. SUFFICES ASSUME RowsInv, [ProjectNext]_projectVars PROVE RowsInv'
  OBVIOUS
<1>1. ProjectTypeOK'
  BY ProjectTypeStep DEF RowsInv
<1>2. CASE UNCHANGED <<launchVars, commandVars>>
  BY <1>1, <1>2 DEF RowsInv, LaunchesInOrder, ProgramsHeld, CommandsInformed, RowsMatchProcesses, launchVars,
     commandVars
<1>3. CASE ProcessesNext
  BY <1>1, <1>3, LaunchKeepsRows, CommandKeepsRows DEF ProcessesNext, RowsInv
<1>4. CASE SessionsNext \/ UNCHANGED projectVars
  BY <1>4, <1>2 DEF SessionsNext, BeginAction, PrepareWorkspace, RunAction, CollectArtifacts, RecordSession,
     RecordArchive, Session, SessionDies, EditSource, projectVars
<1>. QED BY <1>3, <1>4 DEF ProjectNext

(* Whatever the order of starts, deaths, status and stop commands, a row says *)
(* what became of the launcher and its program, and no process is signalled   *)
(* that was not the launcher when its identity was checked (process_status,   *)
(* stop_process).                                                            *)
THEOREM RowsAreTrue == ProjectSpec => []RowsMatchProcesses
<1>1. RowsInv => RowsMatchProcesses
  BY DEF RowsInv
<1>. QED BY <1>1, RowsInit, RowsStep, PTL DEF ProjectSpec

(* The values of the manager's state, for every number of launches, commands  *)
(* and sessions.                                                             *)
THEOREM ProjectTypeCorrect == ProjectSpec => []ProjectTypeOK
<1>1. RowsInv => ProjectTypeOK
  BY DEF RowsInv
<1>. QED BY <1>1, RowsInit, RowsStep, PTL DEF ProjectSpec

-----------------------------------------------------------------------------
(* The signed audit: whoever alters what is stored has the signatures of      *)
(* records and checkpoints that were really made, and no others.             *)

LEMMA PairTold == \A a, b, x, y : <<a, b>> = <<x, y>> => a = x /\ b = y
  OBVIOUS

LEMMA TripleTold == \A a, b, c, x, y, z : <<a, b, c>> = <<x, y, z>> => a = x /\ b = y /\ c = z
  OBVIOUS

ElementsOf(s) == {s[i] : i \in DOMAIN s}
IsSequence(s) == s \in Seq(ElementsOf(s))

LEMMA SequenceOfElements == \A S : \A s \in Seq(S) : IsSequence(s)
<1>. SUFFICES ASSUME NEW S, NEW s \in Seq(S) PROVE IsSequence(s)
  OBVIOUS
<1>1. Len(s) \in Nat /\ s \in [1 .. Len(s) -> S] /\ DOMAIN s = 1 .. Len(s)
  OBVIOUS
<1>2. s \in [1 .. Len(s) -> ElementsOf(s)]
  BY <1>1 DEF ElementsOf
<1>3. s \in Seq(ElementsOf(s))
  BY <1>1, <1>2
<1>. QED BY <1>3 DEF IsSequence

(* An alteration brings no entry of its own.                                  *)
LEMMA AlteredKeepsElements ==
    ASSUME NEW s, IsSequence(s), NEW t \in Altered(s)
    PROVE  IsSequence(t) /\ ElementsOf(t) \subseteq ElementsOf(s)
<1>. DEFINE S == ElementsOf(s)
<1>1. s \in Seq(S) /\ Len(s) \in Nat /\ DOMAIN s = 1 .. Len(s) /\ \A i \in 1 .. Len(s) : s[i] \in S
  BY DEF IsSequence, ElementsOf
<1>. HIDE DEF S
<1>2. ASSUME NEW i \in DOMAIN s PROVE RemoveAt(s, i) \in Seq(S)
  <2>1. SubSeq(s, 1, i - 1) \in Seq(S) /\ SubSeq(s, i + 1, Len(s)) \in Seq(S)
    BY <1>1
  <2>. QED BY <2>1 DEF RemoveAt
<1>3. ASSUME NEW i \in DOMAIN s, NEW j \in DOMAIN s
      PROVE  [s EXCEPT ![i] = s[j]] \in Seq(S) /\ [s EXCEPT ![i] = s[j], ![j] = s[i]] \in Seq(S)
  BY <1>1
<1>4. t \in Seq(S)
  BY <1>2, <1>3 DEF Altered
<1>5. IsSequence(t)
  BY <1>4, SequenceOfElements
<1>6. ElementsOf(t) \subseteq S
  BY <1>4 DEF ElementsOf
<1>. QED BY <1>5, <1>6 DEF S

ProperRecord(r) ==
    r = [index |-> r.index, payload |-> r.payload, previous |-> r.previous, hash |-> r.hash,
         signature |-> r.signature]

(* What was appended is a chain: each record names its place and the one before. *)
WrittenInv ==
    /\ IsSequence(auditTrail.written)
    /\ \A i \in DOMAIN auditTrail.written :
          LET r == auditTrail.written[i] IN
          /\ ProperRecord(r)
          /\ r.index = i
          /\ r.previous = IF i = 1 THEN Genesis ELSE auditTrail.written[i - 1].hash
          /\ r.hash = RecordDigest(r)
          /\ r.signature = <<"signed", RecordDigest(r)>>

StoredInv ==
    /\ IsSequence(auditTrail.stored)
    /\ \A r \in ElementsOf(auditTrail.stored) :
          /\ ProperRecord(r)
          /\ \E j \in DOMAIN auditTrail.written : r.signature = auditTrail.written[j].signature

CheckpointsInv ==
    /\ IsSequence(auditTrail.checkpoints)
    /\ \A c \in ElementsOf(auditTrail.checkpoints) :
          \E k \in DOMAIN auditTrail.written : \E s, p :
              /\ k \in auditTrail.taken
              /\ c.signature = <<"checkpoint", <<s, k, p, auditTrail.written[k].hash>>>>

AuditInv ==
    /\ auditTrail = [written |-> auditTrail.written, stored |-> auditTrail.stored,
                     checkpoints |-> auditTrail.checkpoints, taken |-> auditTrail.taken]
    /\ WrittenInv
    /\ StoredInv
    /\ CheckpointsInv

LEMMA VerifiedIsWritten ==
    ASSUME AuditInv, ChainVerified(auditTrail.stored)
    PROVE  /\ Len(auditTrail.stored) <= Len(auditTrail.written)
           /\ \A i \in 1 .. Len(auditTrail.stored) : auditTrail.stored[i] = auditTrail.written[i]
<1>. DEFINE w == auditTrail.written
            s == auditTrail.stored
            n == Len(s)
            m == Len(w)
<1>1. /\ n \in Nat /\ DOMAIN s = 1 .. n
      /\ m \in Nat /\ DOMAIN w = 1 .. m
  BY DEF AuditInv, WrittenInv, StoredInv, IsSequence
<1>2. \A i \in 1 .. n : \E j \in 1 .. m : j = s[i].index /\ s[i] = w[j]
  <2>. SUFFICES ASSUME NEW i \in 1 .. n PROVE \E j \in 1 .. m : j = s[i].index /\ s[i] = w[j]
    OBVIOUS
  <2>1. s[i] \in ElementsOf(s)
    BY <1>1 DEF ElementsOf
  <2>2. PICK j \in 1 .. m : s[i].signature = w[j].signature
    BY <1>1, <2>1 DEF AuditInv, StoredInv
  <2>3. /\ s[i].signature = <<"signed", <<s[i].index, s[i].payload, s[i].previous>>>>
        /\ s[i].hash = <<s[i].index, s[i].payload, s[i].previous>>
    BY <1>1 DEF ChainVerified, RecordDigest
  <2>4. /\ w[j].signature = <<"signed", <<w[j].index, w[j].payload, w[j].previous>>>>
        /\ w[j].hash = <<w[j].index, w[j].payload, w[j].previous>>
        /\ w[j].index = j
    BY <1>1 DEF AuditInv, WrittenInv, RecordDigest
  <2>5. ProperRecord(s[i]) /\ ProperRecord(w[j])
    BY <1>1, <2>1 DEF AuditInv, WrittenInv, StoredInv
  <2>. HIDE DEF s, w, n, m
  <2>6. s[i].index = w[j].index /\ s[i].payload = w[j].payload /\ s[i].previous = w[j].previous
    <3>1. <<"signed", <<s[i].index, s[i].payload, s[i].previous>>>>
          = <<"signed", <<w[j].index, w[j].payload, w[j].previous>>>>
      BY <2>2, <2>3, <2>4
    <3>. QED BY <3>1, PairTold, TripleTold, Zenon
  <2>7. s[i] = w[j]
    BY <2>2, <2>3, <2>4, <2>5, <2>6 DEF ProperRecord
  <2>. QED BY <2>4, <2>6, <2>7
<1>3. \A i \in 1 .. n : s[i].previous = IF i = 1 THEN Genesis ELSE s[i - 1].hash
  BY <1>1 DEF ChainVerified
<1>4. \A j \in 1 .. m : /\ w[j].hash = <<j, w[j].payload, w[j].previous>>
                        /\ w[j].previous = IF j = 1 THEN Genesis ELSE w[j - 1].hash
  BY <1>1 DEF AuditInv, WrittenInv, RecordDigest
<1>. HIDE DEF s, w, n, m
<1>5. \A a, b, c : <<a, b, c>> # Genesis
  BY DEF Genesis
<1>. DEFINE S == {k \in Nat : k + 1 <= n => s[k + 1].index = k + 1}
<1>6. 0 \in S
  <2>. SUFFICES ASSUME 1 <= n PROVE s[1].index = 1
    OBVIOUS
  <2>1. PICK j \in 1 .. m : j = s[1].index /\ s[1] = w[j]
    BY <1>1, <1>2
  <2>2. w[j].previous = Genesis
    <3>1. 1 \in 1 .. n
      BY <1>1
    <3>2. s[1].previous = Genesis
      BY <1>3, <3>1
    <3>. QED BY <2>1, <3>2
  <2>3. ASSUME j # 1 PROVE FALSE
    <3>1. j - 1 \in 1 .. m
      BY <1>1, <2>3
    <3>2. w[j - 1].hash = Genesis
      BY <1>4, <2>2, <2>3
    <3>. QED BY <1>4, <1>5, <3>1, <3>2
  <2>. QED BY <2>1, <2>3
<1>7. ASSUME NEW k \in Nat, k \in S PROVE k + 1 \in S
  <2>. SUFFICES ASSUME k + 2 <= n PROVE s[k + 2].index = k + 2
    BY <1>1
  <2>0. k + 1 \in 1 .. n /\ k + 2 \in 1 .. n /\ s[k + 1].index = k + 1 /\ k + 1 # k + 2 /\ (k + 2) - 1 = k + 1 /\ k + 2 # 1
    BY <1>1, <1>7
  <2>1. PICK j \in 1 .. m : j = s[k + 2].index /\ s[k + 2] = w[j]
    BY <1>2, <2>0
  <2>2. PICK h \in 1 .. m : h = s[k + 1].index /\ s[k + 1] = w[h]
    BY <1>2, <2>0
  <2>3. w[j].previous = w[h].hash
    BY <1>3, <2>0, <2>1, <2>2
  <2>4. w[h].hash = <<h, w[h].payload, w[h].previous>>
    BY <1>4
  <2>5. j # 1
    <3>1. w[j].previous # Genesis
      BY <1>5, <2>3, <2>4, Zenon
    <3>. QED BY <1>4, <3>1
  <2>6. j - 1 \in 1 .. m /\ w[j].previous = w[j - 1].hash
    BY <1>1, <1>4, <2>5
  <2>7. w[j - 1].hash = <<j - 1, w[j - 1].payload, w[j - 1].previous>>
    BY <1>4, <2>6
  <2>8. h = j - 1
    BY <2>3, <2>4, <2>6, <2>7
  <2>. QED BY <2>0, <2>1, <2>2, <2>8
<1>8. Nat \subseteq S
  <2>. HIDE DEF S
  <2>. QED BY <1>6, <1>7, CountingUp
<1>9. \A i \in 1 .. n : i \in 1 .. m /\ s[i] = w[i]
  <2>. SUFFICES ASSUME NEW i \in 1 .. n PROVE i \in 1 .. m /\ s[i] = w[i]
    OBVIOUS
  <2>1. i - 1 \in Nat /\ (i - 1) + 1 = i /\ i <= n
    BY <1>1
  <2>2. s[i].index = i
    BY <1>8, <2>1
  <2>. QED BY <1>2, <2>2
<1>10. n <= m
  <2>1. CASE n = 0
    BY <1>1, <2>1
  <2>2. CASE n # 0
    <3>1. n \in 1 .. n
      BY <1>1, <2>2
    <3>. QED BY <1>1, <1>9, <3>1
  <2>. QED BY <2>1, <2>2
<1>. QED BY <1>9, <1>10 DEF s, w, n, m

LEMMA AuditInvDetects == AuditInv => AlterationDetected
<1>. SUFFICES ASSUME AuditInv, ChainVerified(auditTrail.stored) PROVE AlterationDetected
  BY DEF AlterationDetected
<1>. DEFINE w == auditTrail.written
            s == auditTrail.stored
            c == auditTrail.checkpoints
            n == Len(s)
            m == Len(w)
<1>1. /\ n \in Nat /\ DOMAIN s = 1 .. n
      /\ m \in Nat /\ DOMAIN w = 1 .. m
      /\ Len(c) \in Nat /\ DOMAIN c = 1 .. Len(c) /\ (c = <<>> <=> Len(c) = 0) /\ (s = <<>> <=> n = 0)
  BY DEF AuditInv, WrittenInv, StoredInv, CheckpointsInv, IsSequence
<1>2. n <= m /\ \A i \in 1 .. n : s[i] = w[i]
  BY VerifiedIsWritten
<1>3. IsPrefix(s, w)
  <2>1. SubSeq(s, 1, n) = [i \in 1 .. n |-> s[i]] /\ SubSeq(w, 1, n) = [i \in 1 .. n |-> w[i]]
    <3>1. s \in Seq(ElementsOf(s)) /\ w \in Seq(ElementsOf(w))
      BY DEF AuditInv, WrittenInv, StoredInv, IsSequence
    <3>. HIDE DEF s, w
    <3>. QED BY <1>1, <1>2, <3>1
  <2>. HIDE DEF s, w, n, m
  <2>2. [i \in 1 .. n |-> s[i]] = [i \in 1 .. n |-> w[i]]
    BY <1>2
  <2>3. SubSeq(s, 1, Len(s)) = SubSeq(w, 1, Len(s)) /\ Len(s) <= Len(w)
    BY <1>2, <2>1, <2>2 DEF n, m
  <2>. QED BY <2>3 DEF IsPrefix
<1>4. ASSUME s # <<>>, CheckpointsVerified(c, Last(s).hash) PROVE n \in auditTrail.taken
  <2>. DEFINE d == c[Len(c)]
  <2>1. /\ Len(c) \in DOMAIN c /\ d.head = s[n].hash
        /\ d.signature = <<"checkpoint", <<d.sequence, d.count, d.previous, d.head>>>>
    BY <1>1, <1>4 DEF CheckpointsVerified, Last, CheckpointBody
  <2>2. d \in ElementsOf(c)
    BY <2>1 DEF ElementsOf
  <2>3. PICK k \in DOMAIN w : \E a, p :
            k \in auditTrail.taken /\ d.signature = <<"checkpoint", <<a, k, p, w[k].hash>>>>
    BY <2>2 DEF AuditInv, CheckpointsInv
  <2>. HIDE DEF d
  <2>4. d.head = w[k].hash
    <3>1. PICK a, p : <<"checkpoint", <<d.sequence, d.count, d.previous, d.head>>>>
                      = <<"checkpoint", <<a, k, p, w[k].hash>>>>
      BY <2>1, <2>3
    <3>2. <<d.sequence, d.count, d.previous, d.head>> = <<a, k, p, w[k].hash>>
      BY <3>1, PairTold, Zenon
    <3>. QED BY <3>2
  <2>5. n \in 1 .. m /\ s[n] = w[n]
    BY <1>1, <1>2, <1>4
  <2>6. w[n].hash = <<w[n].index, w[n].payload, w[n].previous>> /\ w[n].index = n
    BY <1>1, <2>5 DEF AuditInv, WrittenInv, RecordDigest
  <2>7. w[k].hash = <<w[k].index, w[k].payload, w[k].previous>> /\ w[k].index = k
    BY <1>1 DEF AuditInv, WrittenInv, RecordDigest
  <2>. HIDE DEF s, w, c, n, m
  <2>8. k = n
    <3>1. w[k].hash = w[n].hash
      BY <2>1, <2>4, <2>5
    <3>. QED BY <2>6, <2>7, <3>1, TripleTold
  <2>. QED BY <2>3, <2>8
<1>. QED BY <1>3, <1>4 DEF AlterationDetected

LEMMA AppendedSigned ==
    ASSUME AuditInv, NEW payload, AppendRecord(payload)
    PROVE  AuditInv'
<1>. DEFINE w == auditTrail.written
            r == NewRecord(w, payload)
            new == Append(w, r)
            n == Len(w)
            S == ElementsOf(w) \cup {r}
<1>1. auditTrail' = [auditTrail EXCEPT !.written = new, !.stored = new] /\ auditTrail.stored = w
  BY DEF AppendRecord
<1>2. /\ auditTrail'.written = new /\ auditTrail'.stored = new
      /\ auditTrail'.checkpoints = auditTrail.checkpoints /\ auditTrail'.taken = auditTrail.taken
      /\ auditTrail' = [written |-> new, stored |-> new, checkpoints |-> auditTrail.checkpoints,
                        taken |-> auditTrail.taken]
  <2>1. auditTrail = [written |-> auditTrail.written, stored |-> auditTrail.stored,
                      checkpoints |-> auditTrail.checkpoints, taken |-> auditTrail.taken]
    BY DEF AuditInv
  <2>. HIDE DEF new, w
  <2>. QED BY <1>1, <2>1
<1>3. w \in Seq(S) /\ r \in S /\ n \in Nat /\ DOMAIN w = 1 .. n
  <2>1. w \in Seq(ElementsOf(w))
    BY DEF AuditInv, WrittenInv, IsSequence
  <2>. HIDE DEF w, r
  <2>. QED BY <2>1
<1>4. /\ new \in Seq(S) /\ DOMAIN new = 1 .. n + 1
      /\ \A i \in 1 .. n : new[i] = w[i]
      /\ new[n + 1] = r
      /\ n # 0 => Last(w) = w[n]
      /\ w = <<>> <=> n = 0
  <2>. HIDE DEF r, S, w
  <2>. QED BY <1>3 DEF Last
<1>5. IsSequence(new)
  <2>. HIDE DEF new, S
  <2>. QED BY <1>4, SequenceOfElements
<1>6. \A i \in 1 .. n :
          /\ ProperRecord(w[i])
          /\ w[i].index = i
          /\ w[i].previous = IF i = 1 THEN Genesis ELSE w[i - 1].hash
          /\ w[i].hash = RecordDigest(w[i])
          /\ w[i].signature = <<"signed", RecordDigest(w[i])>>
  BY <1>3 DEF AuditInv, WrittenInv
<1>7. /\ ProperRecord(r)
      /\ r.index = n + 1
      /\ r.previous = IF n + 1 = 1 THEN Genesis ELSE w[n].hash
      /\ r.hash = RecordDigest(r)
      /\ r.signature = <<"signed", RecordDigest(r)>>
  <2>1. /\ r = [index |-> r.index, payload |-> r.payload, previous |-> r.previous, hash |-> r.hash,
                signature |-> r.signature]
        /\ r.index = n + 1
        /\ r.previous = IF w = <<>> THEN Genesis ELSE Last(w).hash
        /\ r.hash = <<r.index, r.payload, r.previous>>
        /\ r.signature = <<"signed", <<r.index, r.payload, r.previous>>>>
    <3>. HIDE DEF w
    <3>. QED BY DEF NewRecord, RecordDigest
  <2>. HIDE DEF r, w, n
  <2>2. r.previous = IF n + 1 = 1 THEN Genesis ELSE w[n].hash
    <3>1. CASE n = 0
      BY <1>4, <2>1, <3>1
    <3>2. CASE n # 0
      BY <1>3, <1>4, <2>1, <3>2
    <3>. QED BY <3>1, <3>2
  <2>. QED BY <2>1, <2>2 DEF ProperRecord, RecordDigest
<1>. HIDE DEF new, r, n, S
<1>8. \A i \in 1 .. n + 1 : (i \in 1 .. n /\ (i # 1 => i - 1 \in 1 .. n)) \/ (i = n + 1 /\ (i # 1 => i - 1 = n /\ n \in 1 .. n))
  BY <1>3
<1>9. \A i \in 1 .. n + 1 :
          /\ ProperRecord(new[i])
          /\ new[i].index = i
          /\ new[i].previous = IF i = 1 THEN Genesis ELSE new[i - 1].hash
          /\ new[i].hash = RecordDigest(new[i])
          /\ new[i].signature = <<"signed", RecordDigest(new[i])>>
  <2>. SUFFICES ASSUME NEW i \in 1 .. n + 1
                PROVE  /\ ProperRecord(new[i])
                       /\ new[i].index = i
                       /\ new[i].previous = IF i = 1 THEN Genesis ELSE new[i - 1].hash
                       /\ new[i].hash = RecordDigest(new[i])
                       /\ new[i].signature = <<"signed", RecordDigest(new[i])>>
    OBVIOUS
  <2>1. CASE i \in 1 .. n
    <3>1. new[i] = w[i] /\ (i # 1 => new[i - 1] = w[i - 1])
      BY <1>3, <1>4, <2>1
    <3>. QED BY <1>6, <2>1, <3>1
  <2>2. CASE i = n + 1
    <3>1. new[i] = r
      BY <1>4, <2>2
    <3>2. i # 1 => new[i - 1] = w[n]
      <4>1. i # 1 => i - 1 = n /\ n \in 1 .. n
        BY <1>3, <2>2
      <4>. QED BY <1>4, <4>1
    <3>. QED BY <1>7, <2>2, <3>1, <3>2
  <2>. QED BY <1>8, <2>1, <2>2
<1>10. WrittenInv'
  BY <1>2, <1>4, <1>5, <1>9 DEF WrittenInv
<1>11. StoredInv'
  <2>1. \A e \in ElementsOf(new) :
            ProperRecord(e) /\ \E j \in DOMAIN new : e.signature = new[j].signature
    BY <1>4, <1>9 DEF ElementsOf
  <2>. QED BY <1>2, <1>5, <2>1 DEF StoredInv
<1>12. CheckpointsInv'
  <2>1. \A k \in DOMAIN w : k \in DOMAIN new /\ new[k] = w[k]
    BY <1>3, <1>4
  <2>. HIDE DEF w
  <2>2. /\ IsSequence(auditTrail.checkpoints)
        /\ \A c \in ElementsOf(auditTrail.checkpoints) :
              \E k \in DOMAIN w : \E s, p :
                  k \in auditTrail.taken /\ c.signature = <<"checkpoint", <<s, k, p, w[k].hash>>>>
    BY DEF AuditInv, CheckpointsInv, w
  <2>3. \A c \in ElementsOf(auditTrail.checkpoints) :
              \E k \in DOMAIN new : \E s, p :
                  k \in auditTrail.taken /\ c.signature = <<"checkpoint", <<s, k, p, new[k].hash>>>>
    BY <2>1, <2>2, Zenon
  <2>. QED BY <1>2, <2>2, <2>3 DEF CheckpointsInv
<1>. QED BY <1>2, <1>10, <1>11, <1>12 DEF AuditInv

LEMMA CheckpointSigned ==
    ASSUME AuditInv, TakeCheckpoint
    PROVE  AuditInv'
<1>. DEFINE w == auditTrail.written
            s == auditTrail.stored
            c == auditTrail.checkpoints
            d == NewCheckpointAfter(c, s)
            new == Append(c, d)
            n == Len(s)
            S == ElementsOf(c) \cup {d}
<1>1. s = w /\ s # <<>> /\ auditTrail' = [auditTrail EXCEPT !.checkpoints = new, !.taken = @ \cup {n}]
  BY DEF TakeCheckpoint
<1>2. /\ auditTrail'.written = w /\ auditTrail'.stored = s
      /\ auditTrail'.checkpoints = new /\ auditTrail'.taken = auditTrail.taken \cup {n}
      /\ auditTrail' = [written |-> w, stored |-> s, checkpoints |-> new,
                        taken |-> auditTrail.taken \cup {n}]
  <2>1. auditTrail = [written |-> auditTrail.written, stored |-> auditTrail.stored,
                      checkpoints |-> auditTrail.checkpoints, taken |-> auditTrail.taken]
    BY DEF AuditInv
  <2>. HIDE DEF new, n
  <2>. QED BY <1>1, <2>1
<1>3. n \in DOMAIN s /\ Last(s) = s[n]
  <2>1. s \in Seq(ElementsOf(s))
    BY DEF AuditInv, StoredInv, IsSequence
  <2>. HIDE DEF s
  <2>. QED BY <1>1, <2>1 DEF Last
<1>4. new \in Seq(S) /\ ElementsOf(new) \subseteq S
  <2>1. c \in Seq(ElementsOf(c))
    BY DEF AuditInv, CheckpointsInv, IsSequence
  <2>2. c \in Seq(S) /\ d \in S
    <3>. HIDE DEF c, d
    <3>. QED BY <2>1
  <2>3. new \in Seq(S)
    <3>. HIDE DEF S, c, d
    <3>. QED BY <2>2
  <2>. HIDE DEF new, S
  <2>. QED BY <2>3 DEF ElementsOf
<1>5. IsSequence(new)
  <2>. HIDE DEF new, S
  <2>. QED BY <1>4, SequenceOfElements
<1>6. \E a, p : d.signature = <<"checkpoint", <<a, n, p, w[n].hash>>>>
  <2>1. d.signature = <<"checkpoint", <<Len(c) + 1, n,
                        IF c = <<>> THEN Genesis ELSE CheckpointHash(Last(c)), Last(s).hash>>>>
    <3>. HIDE DEF c, s
    <3>. QED BY DEF NewCheckpointAfter, CheckpointBody, n
  <2>. QED BY <1>1, <1>3, <2>1
<1>7. \A e \in ElementsOf(c) :
          \E k \in DOMAIN w : \E a, p :
              k \in auditTrail.taken /\ e.signature = <<"checkpoint", <<a, k, p, w[k].hash>>>>
  BY DEF AuditInv, CheckpointsInv
<1>. HIDE DEF new, d, n, w, c, s
<1>8. \A e \in ElementsOf(new) :
          \E k \in DOMAIN w : \E a, p :
              /\ k \in auditTrail.taken \cup {n}
              /\ e.signature = <<"checkpoint", <<a, k, p, w[k].hash>>>>
  <2>. TAKE e \in ElementsOf(new)
  <2>1. CASE e \in ElementsOf(c)
    BY <1>7, <2>1
  <2>2. CASE e = d
    BY <1>1, <1>3, <1>6, <2>2
  <2>. QED BY <1>4, <2>1, <2>2
<1>9. WrittenInv'
  BY <1>2 DEF AuditInv, WrittenInv, w
<1>10. StoredInv'
  BY <1>2 DEF AuditInv, StoredInv, w, s
<1>11. CheckpointsInv'
  BY <1>2, <1>5, <1>8 DEF CheckpointsInv
<1>. QED BY <1>2, <1>9, <1>10, <1>11 DEF AuditInv

LEMMA ChangedRecord ==
    ASSUME NEW r, ProperRecord(r), NEW payload, NEW hash
    PROVE  [r EXCEPT !.payload = payload, !.hash = hash]
           = [index |-> r.index, payload |-> payload, previous |-> r.previous, hash |-> hash,
              signature |-> r.signature]
<1>. DEFINE a == [r EXCEPT !.payload = payload]
<1>1. a = [index |-> r.index, payload |-> payload, previous |-> r.previous, hash |-> r.hash,
           signature |-> r.signature]
  BY DEF ProperRecord
<1>2. [r EXCEPT !.payload = payload, !.hash = hash] = [a EXCEPT !.hash = hash]
  BY DEF ProperRecord
<1>. HIDE DEF a
<1>. QED BY <1>1, <1>2

(* A changed payload leaves the signature, even when the hash is made to fit. *)
LEMMA RecordedKeepsSignatures ==
    ASSUME NEW s, IsSequence(s), \A r \in ElementsOf(s) : ProperRecord(r),
           NEW payload, NEW t \in Recorded(s, payload)
    PROVE  /\ IsSequence(t)
           /\ \A e \in ElementsOf(t) :
                 ProperRecord(e) /\ \E r \in ElementsOf(s) : e.signature = r.signature
<1>1. Len(s) \in Nat /\ DOMAIN s = 1 .. Len(s) /\ s \in Seq(ElementsOf(s))
  BY DEF IsSequence
<1>2. PICK i, e :
          /\ i \in DOMAIN s /\ t = [s EXCEPT ![i] = e]
          /\ ProperRecord(e)
          /\ e.signature = s[i].signature
  <2>1. PICK i \in DOMAIN s :
            \/ t = [s EXCEPT ![i] = [s[i] EXCEPT !.payload = payload]]
            \/ t = [s EXCEPT ![i] = [s[i] EXCEPT !.payload = payload,
                                                !.hash = <<i, payload, s[i].previous>>]]
    BY DEF Recorded
  <2>2. s[i] = [index |-> s[i].index, payload |-> s[i].payload, previous |-> s[i].previous,
                hash |-> s[i].hash, signature |-> s[i].signature]
    BY DEF ElementsOf, ProperRecord
  <2>. DEFINE a == [s[i] EXCEPT !.payload = payload]
              h == <<i, payload, s[i].previous>>
              b == [s[i] EXCEPT !.payload = payload, !.hash = h]
  <2>3. ProperRecord(a) /\ a.signature = s[i].signature
    BY <2>2 DEF ProperRecord
  <2>4. ProperRecord(b) /\ b.signature = s[i].signature
    <3>1. b = [index |-> s[i].index, payload |-> payload, previous |-> s[i].previous,
               hash |-> h, signature |-> s[i].signature]
      <4>1. ProperRecord(s[i])
        BY DEF ElementsOf
      <4>. HIDE DEF h
      <4>. QED BY <4>1, ChangedRecord
    <3>. HIDE DEF b, h
    <3>. QED BY <3>1 DEF ProperRecord
  <2>5. t = [s EXCEPT ![i] = a] \/ t = [s EXCEPT ![i] = b]
    BY <2>1
  <2>. HIDE DEF a, b
  <2>. QED BY <2>3, <2>4, <2>5
<1>. DEFINE S == ElementsOf(s) \cup {e}
<1>3. s \in Seq(S) /\ e \in S
  <2>. HIDE DEF ElementsOf
  <2>. QED BY <1>1
<1>4. t \in Seq(S)
  <2>. HIDE DEF S
  <2>. QED BY <1>1, <1>2, <1>3
<1>5. IsSequence(t)
  <2>. HIDE DEF S
  <2>. QED BY <1>4, SequenceOfElements
<1>6. s[i] \in ElementsOf(s) /\ ElementsOf(t) \subseteq S
  <2>1. ElementsOf(t) \subseteq S
    <3>. HIDE DEF S
    <3>. QED BY <1>4 DEF ElementsOf
  <2>2. i \in DOMAIN s
    BY <1>2
  <2>3. s[i] \in ElementsOf(s)
    BY <2>2 DEF ElementsOf
  <2>. QED BY <2>1, <2>3
<1>. QED BY <1>2, <1>5, <1>6

LEMMA AlterationsForgeNothing ==
    ASSUME AuditInv, Alter
    PROVE  AuditInv'
<1>. DEFINE w == auditTrail.written
            s == auditTrail.stored
            c == auditTrail.checkpoints
<1>1. auditTrail = [written |-> w, stored |-> s, checkpoints |-> c, taken |-> auditTrail.taken]
  BY DEF AuditInv
<1>2. ASSUME NEW t \in Altered(s) \cup UNION {Recorded(s, p) : p \in AuditPayloads},
             auditTrail' = [auditTrail EXCEPT !.stored = t]
      PROVE  AuditInv'
  <2>1. /\ auditTrail'.written = w /\ auditTrail'.stored = t
        /\ auditTrail'.checkpoints = c /\ auditTrail'.taken = auditTrail.taken
        /\ auditTrail' = [written |-> w, stored |-> t, checkpoints |-> c, taken |-> auditTrail.taken]
    <3>. HIDE DEF w, s, c
    <3>. QED BY <1>1, <1>2
  <2>2. /\ IsSequence(s)
        /\ \A r \in ElementsOf(s) :
              ProperRecord(r) /\ \E j \in DOMAIN w : r.signature = w[j].signature
    BY DEF AuditInv, StoredInv
  <2>. HIDE DEF w, s, c
  <2>3. /\ IsSequence(t)
        /\ \A e \in ElementsOf(t) :
              ProperRecord(e) /\ \E j \in DOMAIN w : e.signature = w[j].signature
    <3>1. CASE t \in Altered(s)
      BY <2>2, <3>1, AlteredKeepsElements
    <3>2. ASSUME NEW p \in AuditPayloads, t \in Recorded(s, p)
          PROVE  /\ IsSequence(t)
                 /\ \A e \in ElementsOf(t) :
                       ProperRecord(e) /\ \E j \in DOMAIN w : e.signature = w[j].signature
      <4>1. /\ IsSequence(t)
            /\ \A e \in ElementsOf(t) :
                  ProperRecord(e) /\ \E r \in ElementsOf(s) : e.signature = r.signature
        BY <2>2, <3>2, RecordedKeepsSignatures
      <4>. QED BY <2>2, <4>1
    <3>. QED BY <1>2, <3>1, <3>2
  <2>4. StoredInv'
    BY <2>1, <2>3 DEF StoredInv
  <2>5. WrittenInv' /\ CheckpointsInv'
    BY <2>1 DEF AuditInv, WrittenInv, CheckpointsInv, w, c
  <2>. QED BY <2>1, <2>4, <2>5 DEF AuditInv
<1>3. ASSUME NEW t \in Altered(c), auditTrail' = [auditTrail EXCEPT !.checkpoints = t]
      PROVE  AuditInv'
  <2>1. /\ auditTrail'.written = w /\ auditTrail'.stored = s
        /\ auditTrail'.checkpoints = t /\ auditTrail'.taken = auditTrail.taken
        /\ auditTrail' = [written |-> w, stored |-> s, checkpoints |-> t, taken |-> auditTrail.taken]
    <3>. HIDE DEF w, s, c
    <3>. QED BY <1>1, <1>3
  <2>2. IsSequence(t) /\ ElementsOf(t) \subseteq ElementsOf(c)
    BY <1>3, AlteredKeepsElements DEF AuditInv, CheckpointsInv
  <2>3. CheckpointsInv'
    BY <2>1, <2>2 DEF AuditInv, CheckpointsInv
  <2>4. WrittenInv' /\ StoredInv'
    BY <2>1 DEF AuditInv, WrittenInv, StoredInv
  <2>. QED BY <2>1, <2>3, <2>4 DEF AuditInv
<1>. QED BY <1>2, <1>3 DEF Alter

(* The decisions about manifests and servers do not touch the audit.          *)
LEMMA AuditStep == AuditInv /\ [InteropNext]_interopVars => AuditInv'
<1>. SUFFICES ASSUME AuditInv, [InteropNext]_interopVars PROVE AuditInv'
  OBVIOUS
<1>1. CASE AdminNext \/ StdioNext \/ UNCHANGED interopVars
  <2>1. auditTrail' = auditTrail
    BY <1>1 DEF AdminNext, StdioNext, interopVars, CheckManifest, OverlayFleet, Negotiate,
                AuthorizeOperation, BuildContract, ValidateAnswer, CheckUpdate, LegacyOperation,
                Decides, OtherInterop, BridgeStarts, BridgeAnswered, BridgeEnds
  <2>. QED BY <2>1 DEF AuditInv, WrittenInv, StoredInv, CheckpointsInv
<1>2. CASE AuditNext
  BY <1>2, AppendedSigned, CheckpointSigned, AlterationsForgeNothing DEF AuditNext
<1>. QED BY <1>1, <1>2 DEF InteropNext

LEMMA AuditStarts == InteropInit => AuditInv
<1>. SUFFICES ASSUME InteropInit PROVE AuditInv
  OBVIOUS
<1>1. auditTrail = [written |-> <<>>, stored |-> <<>>, checkpoints |-> <<>>, taken |-> {}]
  BY DEF InteropInit
<1>2. IsSequence(<<>>) /\ ElementsOf(<<>>) = {}
  BY DEF IsSequence, ElementsOf
<1>. QED BY <1>1, <1>2 DEF AuditInv, WrittenInv, StoredInv, CheckpointsInv

(* However the stored records and checkpoints are lost, repeated, exchanged    *)
(* or changed, records that verify are a beginning of those appended, and      *)
(* records that end where verified checkpoints say end where one was taken     *)
(* (AuditChain.verify, verify_chain).                                         *)
THEOREM AlterationIsDetected == InteropSpec => []AlterationDetected
<1>1. InteropSpec => []AuditInv
  BY AuditStarts, AuditStep, PTL DEF InteropSpec
<1>. QED BY <1>1, AuditInvDetects, PTL

(* The bridge to a server is at one of its steps, and records know their place. *)
THEOREM InteropTypeCorrect == InteropSpec => []InteropTypeOK
<1>. DEFINE Bridge == /\ bridgeServer = [at |-> bridgeServer.at, server |-> bridgeServer.server,
                                         method |-> bridgeServer.method]
                      /\ bridgeServer.at \in {"start", "initialize", "operation", "printed", "failed"}
                      /\ bridgeServer.server \in {"none", "running", "ended"}
                      /\ alterations \in 0 .. MaxAlterations
<1>1. InteropInit => Bridge
  BY InteropAssumption DEF InteropInit, InteropAssumption
<1>2. Bridge /\ [InteropNext]_interopVars => Bridge'
  <2>. SUFFICES ASSUME Bridge, [InteropNext]_interopVars PROVE Bridge'
    OBVIOUS
  <2>1. CASE AdminNext \/ UNCHANGED interopVars
    BY <2>1 DEF AdminNext, interopVars, CheckManifest, OverlayFleet, Negotiate,
                AuthorizeOperation, BuildContract, ValidateAnswer, CheckUpdate, LegacyOperation,
                Decides, OtherInterop
  <2>2. CASE BridgeStarts
    BY <2>2 DEF BridgeStarts
  <2>3. ASSUME NEW answer, NEW operation, BridgeAnswered(answer, operation) PROVE Bridge'
    <3>1. \/ bridgeServer' = [bridgeServer EXCEPT !.at = "failed"]
          \/ bridgeServer' = [bridgeServer EXCEPT !.at = "printed"]
          \/ bridgeServer' = [bridgeServer EXCEPT !.at = "operation", !.method = operation]
      BY <2>3 DEF BridgeAnswered
    <3>. QED BY <2>3, <3>1 DEF BridgeAnswered
  <2>4. CASE BridgeEnds
    BY <2>4 DEF BridgeEnds
  <2>5. CASE AuditNext
    <3>1. bridgeServer' = bridgeServer
      BY <2>5 DEF AuditNext, AppendRecord, TakeCheckpoint, Alter
    <3>2. alterations' = alterations \/ (alterations < MaxAlterations /\ alterations' = alterations + 1)
      BY <2>5 DEF AuditNext, AppendRecord, TakeCheckpoint, Alter
    <3>. QED BY <3>1, <3>2, InteropAssumption DEF InteropAssumption
  <2>. QED BY <2>1, <2>2, <2>3, <2>4, <2>5 DEF InteropNext, StdioNext
<1>3. InteropSpec => []Bridge
  BY <1>1, <1>2, PTL DEF InteropSpec
<1>4. InteropSpec => []AuditInv
  BY AuditStarts, AuditStep, PTL DEF InteropSpec
<1>5. Bridge /\ AuditInv => InteropTypeOK
  BY DEF AuditInv, WrittenInv, InteropTypeOK
<1>. QED BY <1>3, <1>4, <1>5, PTL

-----------------------------------------------------------------------------
LEMMA AppendedElement ==
    ASSUME NEW s, IsSequence(s), NEW e
    PROVE  /\ IsSequence(Append(s, e))
           /\ Len(s) \in Nat /\ DOMAIN s = 1 .. Len(s) /\ DOMAIN Append(s, e) = 1 .. Len(s) + 1
           /\ \A i \in 1 .. Len(s) : Append(s, e)[i] = s[i]
           /\ Append(s, e)[Len(s) + 1] = e
<1>. DEFINE S == ElementsOf(s) \cup {e}
            new == Append(s, e)
<1>1. s \in Seq(S) /\ e \in S
  <2>1. s \in Seq(ElementsOf(s))
    BY DEF IsSequence
  <2>. HIDE DEF ElementsOf
  <2>. QED BY <2>1
<1>. HIDE DEF S
<1>2. /\ new \in Seq(S)
      /\ Len(s) \in Nat /\ DOMAIN s = 1 .. Len(s) /\ DOMAIN new = 1 .. Len(s) + 1
      /\ \A i \in 1 .. Len(s) : new[i] = s[i]
      /\ new[Len(s) + 1] = e
  BY <1>1
<1>. HIDE DEF new
<1>3. IsSequence(new)
  BY <1>2, SequenceOfElements
<1>. QED BY <1>2, <1>3 DEF new

-----------------------------------------------------------------------------
(* Sums: Python's sum() is a running total.                                   *)

RunningTotal(T, s) ==
    /\ T \in [0 .. Len(s) -> Int]
    /\ T[0] = 0
    /\ \A i \in 1 .. Len(s) : T[i] = T[i - 1] + s[i]

LEMMA SumIsRunningTotal ==
    ASSUME NEW n \in Nat, NEW s \in [1 .. n -> Int]
    PROVE  \E T : RunningTotal(T, s) /\ SumOf(s) = T[n] /\ Len(s) = n
<1>. DEFINE G == [k \in Nat |-> [x \in Int |-> IF k + 1 \in 1 .. n THEN x + s[k + 1] ELSE x]]
<1>1. PICK f \in [Nat -> Int] : f[0] = 0 /\ \A k \in Nat : f[k + 1] = G[k][f[k]]
  <2>1. G \in [Nat -> [Int -> Int]]
    OBVIOUS
  <2>2. 0 \in Int
    OBVIOUS
  <2>. HIDE DEF G
  <2>3. Stepwise(Int, 0, G)
    BY <2>1, <2>2, RecursionOnNat, Zenon
  <2>. QED BY <2>3 DEF Stepwise
<1>2. \A i \in 1 .. n : f[i] = f[i - 1] + s[i]
  <2>. SUFFICES ASSUME NEW i \in 1 .. n PROVE f[i] = f[i - 1] + s[i]
    OBVIOUS
  <2>1. i - 1 \in Nat /\ (i - 1) + 1 = i
    OBVIOUS
  <2>2. f[(i - 1) + 1] = G[i - 1][f[i - 1]]
    BY <1>1, <2>1
  <2>. QED BY <2>1, <2>2
<1>3. Len(s) = n
  OBVIOUS
<1>. DEFINE g == [i \in 0 .. n |-> f[i]]
            Equation(h) == h = [i \in 0 .. Len(s) |-> IF i = 0 THEN 0 ELSE h[i - 1] + s[i]]
            Sum == CHOOSE h : Equation(h)
<1>4. Equation(g)
  <2>1. \A i \in 0 .. n : i # 0 => i - 1 \in 0 .. n /\ i \in 1 .. n
    OBVIOUS
  <2>2. \A i \in 0 .. n : g[i] = IF i = 0 THEN 0 ELSE g[i - 1] + s[i]
    <3>. HIDE DEF G
    <3>. QED BY <1>1, <1>2, <2>1
  <2>3. g = [i \in 0 .. n |-> g[i]]
    OBVIOUS
  <2>. HIDE DEF g
  <2>. QED BY <1>3, <2>2, <2>3
<1>5. Equation(Sum)
  <2>. HIDE DEF Equation, g
  <2>. QED BY <1>4
<1>6. \A i \in 0 .. n : Sum[i] = f[i]
  <2>. DEFINE E == {k \in Nat : k <= n => Sum[k] = f[k]}
  <2>. HIDE DEF Sum, G
  <2>1. \A i \in 0 .. n : Sum[i] = IF i = 0 THEN 0 ELSE Sum[i - 1] + s[i]
    BY <1>3, <1>5
  <2>2. 0 \in E
    <3>1. 0 \in 0 .. n
      OBVIOUS
    <3>2. Sum[0] = 0
      BY <2>1, <3>1
    <3>. QED BY <1>1, <3>2
  <2>3. ASSUME NEW k \in Nat, k \in E PROVE k + 1 \in E
    <3>. SUFFICES ASSUME k + 1 <= n PROVE Sum[k + 1] = f[k + 1]
      OBVIOUS
    <3>1. k + 1 \in 0 .. n /\ k + 1 \in 1 .. n /\ k + 1 # 0 /\ (k + 1) - 1 = k /\ k <= n
      OBVIOUS
    <3>. QED BY <1>2, <2>1, <2>3, <3>1
  <2>4. Nat \subseteq E
    <3>. HIDE DEF E
    <3>. QED BY <2>2, <2>3, CountingUp
  <2>. QED BY <2>4
<1>7. SumOf(s) = Sum[n]
  BY <1>3 DEF SumOf
<1>8. RunningTotal(g, s) /\ SumOf(s) = g[n]
  <2>1. \A i \in 1 .. n : i \in 0 .. n /\ i - 1 \in 0 .. n
    OBVIOUS
  <2>2. n \in 0 .. n /\ 0 \in 0 .. n
    OBVIOUS
  <2>. HIDE DEF G, Sum
  <2>3. g \in [0 .. n -> Int] /\ \A i \in 0 .. n : g[i] = f[i]
    OBVIOUS
  <2>. HIDE DEF g
  <2>4. SumOf(s) = g[n]
    BY <1>6, <1>7, <2>2, <2>3
  <2>5. g[0] = 0 /\ \A i \in 1 .. n : g[i] = g[i - 1] + s[i]
    BY <1>1, <1>2, <2>1, <2>2, <2>3
  <2>. QED BY <1>3, <2>3, <2>4, <2>5 DEF RunningTotal
<1>. HIDE DEF g
<1>. QED BY <1>3, <1>8

(* Least squares, one sample more: of the points (x, b + r * x).               *)
LEMMA NextOnLine ==
    ASSUME NEW k \in Int, NEW r \in Int, NEW b \in Int, NEW px \in Int, NEW pxx \in Int, NEW x \in Int
    PROVE  /\ (k * b + r * px) + (b + r * x) = (k + 1) * b + r * (px + x)
           /\ (b * px + r * pxx) + x * (b + r * x) = b * (px + x) + r * (pxx + x * x)
  OBVIOUS

LEMMA SpreadGrows ==
    \A k, px, pxx, x :
        k \in Nat /\ k >= 1 /\ px \in Int /\ pxx \in Int /\ x \in Int /\ k * pxx - px * px >= 0 =>
            (k + 1) * (pxx + x * x) - (px + x) * (px + x) >= k * pxx - px * px
<1>. SUFFICES ASSUME NEW k \in Nat, k >= 1, NEW px \in Int, NEW pxx \in Int, NEW x \in Int,
                     k * pxx - px * px >= 0
              PROVE  (k + 1) * (pxx + x * x) - (px + x) * (px + x) >= k * pxx - px * px
  BY Zenon
<1>. DEFINE e == pxx + k * (x * x) - 2 * (x * px)
            d == px - k * x
<1>1. (k + 1) * (pxx + x * x) - (px + x) * (px + x) = (k * pxx - px * px) + e
  OBVIOUS
<1>2. k * e = (k * pxx - px * px) + d * d
  OBVIOUS
<1>3. d * d >= 0
  <2>1. d \in Int
    OBVIOUS
  <2>. HIDE DEF d
  <2>. QED BY <2>1
<1>4. k * e >= 0
  BY <1>2, <1>3
<1>5. e >= 0
  <2>1. e \in Int
    OBVIOUS
  <2>. HIDE DEF e
  <2>. QED BY <1>4, <2>1
<1>. QED BY <1>1, <1>5

LEMMA GrowthOnLine ==
    \A n, r, b, px, pxx \in Int :
        n * (b * px + r * pxx) - px * (n * b + r * px) = r * (n * pxx - px * px)
  OBVIOUS

LEMMA CancelSpread ==
    ASSUME NEW d \in Int, NEW r \in Int, NEW limit \in Int, d > 0, r * d <= limit * d
    PROVE  r <= limit
  OBVIOUS

(* Points on a line have its slope, unless they all lie above one place.        *)
LEMMA SlopeOfLine ==
    ASSUME NEW n \in Nat, n >= 2, NEW x \in [1 .. n -> Int], NEW b \in Int, NEW r \in Int,
           x[1] # x[2], NEW limit \in Int,
           LET y == [i \in 1 .. n |-> b + r * x[i]]
               spread == n * SumOf([i \in 1 .. n |-> x[i] * x[i]]) - SumOf(x) * SumOf(x)
               growth == n * SumOf([i \in 1 .. n |-> x[i] * y[i]]) - SumOf(x) * SumOf(y)
           IN growth <= limit * spread
    PROVE  r <= limit
<1>. DEFINE y == [i \in 1 .. n |-> b + r * x[i]]
            xx == [i \in 1 .. n |-> x[i] * x[i]]
            xy == [i \in 1 .. n |-> x[i] * y[i]]
            Points == {i \in 1 .. n : TRUE}
<1>1. y \in [1 .. n -> Int] /\ xx \in [1 .. n -> Int] /\ xy \in [1 .. n -> Int]
  <2>1. \A i \in 1 .. n : x[i] \in Int
    OBVIOUS
  <2>2. \A i \in 1 .. n : b + r * x[i] \in Int /\ x[i] * x[i] \in Int /\ x[i] * (b + r * x[i]) \in Int
    <3>1. \A u \in Int : b + r * u \in Int /\ u * u \in Int /\ u * (b + r * u) \in Int
      OBVIOUS
    <3>. QED BY <2>1, <3>1, Zenon
  <2>. QED BY <2>2
<1>2. \A i \in 1 .. n : y[i] = b + r * x[i] /\ xx[i] = x[i] * x[i] /\ xy[i] = x[i] * (b + r * x[i])
  OBVIOUS
<1>0. n * SumOf(xy) - SumOf(x) * SumOf(y) <= limit * (n * SumOf(xx) - SumOf(x) * SumOf(x))
  OBVIOUS
<1>. HIDE DEF y, xx, xy
<1>3. PICK X : RunningTotal(X, x) /\ SumOf(x) = X[n] /\ Len(x) = n
  BY SumIsRunningTotal
<1>4. PICK Y : RunningTotal(Y, y) /\ SumOf(y) = Y[n] /\ Len(y) = n
  BY <1>1, SumIsRunningTotal
<1>5. PICK XX : RunningTotal(XX, xx) /\ SumOf(xx) = XX[n] /\ Len(xx) = n
  BY <1>1, SumIsRunningTotal
<1>6. PICK XY : RunningTotal(XY, xy) /\ SumOf(xy) = XY[n] /\ Len(xy) = n
  BY <1>1, SumIsRunningTotal
<1>7. /\ \A k \in 0 .. n : X[k] \in Int /\ Y[k] \in Int /\ XX[k] \in Int /\ XY[k] \in Int
      /\ X[0] = 0 /\ Y[0] = 0 /\ XX[0] = 0 /\ XY[0] = 0
  BY <1>3, <1>4, <1>5, <1>6 DEF RunningTotal
<1>8. \A k \in Nat : k + 1 <= n =>
          /\ k \in 0 .. n /\ k + 1 \in 0 .. n /\ k + 1 \in 1 .. n
          /\ X[k + 1] = X[k] + x[k + 1]
          /\ Y[k + 1] = Y[k] + (b + r * x[k + 1])
          /\ XX[k + 1] = XX[k] + x[k + 1] * x[k + 1]
          /\ XY[k + 1] = XY[k] + x[k + 1] * (b + r * x[k + 1])
  <2>. SUFFICES ASSUME NEW k \in Nat, k + 1 <= n
                PROVE  /\ k \in 0 .. n /\ k + 1 \in 0 .. n /\ k + 1 \in 1 .. n
                       /\ X[k + 1] = X[k] + x[k + 1]
                       /\ Y[k + 1] = Y[k] + (b + r * x[k + 1])
                       /\ XX[k + 1] = XX[k] + x[k + 1] * x[k + 1]
                       /\ XY[k + 1] = XY[k] + x[k + 1] * (b + r * x[k + 1])
    OBVIOUS
  <2>1. k + 1 \in 1 .. n /\ (k + 1) - 1 = k
    OBVIOUS
  <2>2. /\ X[k + 1] = X[k] + x[k + 1] /\ Y[k + 1] = Y[k] + y[k + 1]
        /\ XX[k + 1] = XX[k] + xx[k + 1] /\ XY[k + 1] = XY[k] + xy[k + 1]
    BY <1>3, <1>4, <1>5, <1>6, <2>1 DEF RunningTotal
  <2>. QED BY <1>2, <2>1, <2>2
<1>. DEFINE D(k) == k * XX[k] - X[k] * X[k]
            P(k) == /\ Y[k] = k * b + r * X[k]
                    /\ XY[k] = b * X[k] + r * XX[k]
                    /\ D(k) >= 0
                    /\ k >= 2 => D(k) > 0
            OnLine == {k \in Nat : k <= n => P(k)}
<1>9. 0 \in OnLine
  <2>1. 0 = 0 * b + r * 0 /\ 0 = b * 0 + r * 0 /\ 0 * 0 - 0 * 0 = 0
    OBVIOUS
  <2>2. P(0)
    <3>1. D(0) = 0
      BY <1>7, <2>1
    <3>. HIDE DEF D
    <3>. QED BY <1>7, <2>1, <3>1
  <2>. HIDE DEF P
  <2>. QED BY <2>2
<1>10. ASSUME NEW k \in Nat, k \in OnLine PROVE k + 1 \in OnLine
  <2>. SUFFICES ASSUME k + 1 <= n PROVE P(k + 1)
    <3>. HIDE DEF P
    <3>. QED OBVIOUS
  <2>0. P(k)
    <3>. HIDE DEF P
    <3>. QED BY <1>10
  <2>. DEFINE p == X[k]
              q == XX[k]
              z == x[k + 1]
  <2>1. /\ p \in Int /\ q \in Int /\ z \in Int
        /\ Y[k] = k * b + r * p /\ XY[k] = b * p + r * q
        /\ k * q - p * p >= 0 /\ (k >= 2 => k * q - p * p > 0)
        /\ X[k + 1] = p + z /\ XX[k + 1] = q + z * z
        /\ Y[k + 1] = Y[k] + (b + r * z)
        /\ XY[k + 1] = XY[k] + z * (b + r * z)
    BY <1>7, <1>8, <2>0
  <2>2. k = 1 => p = x[1] /\ q = x[1] * x[1] /\ z = x[2] /\ x[1] \in Int /\ x[2] \in Int
    <3>1. x[1] \in Int /\ x[2] \in Int
      OBVIOUS
    <3>2. X[0 + 1] = X[0] + x[0 + 1] /\ XX[0 + 1] = XX[0] + x[0 + 1] * x[0 + 1]
      <4>1. 0 \in Nat /\ 0 + 1 <= n
        OBVIOUS
      <4>. QED BY <1>8, <4>1, Zenon
    <3>3. X[1] = x[1] /\ XX[1] = x[1] * x[1]
      <4>1. x[1] * x[1] \in Int
        BY <3>1
      <4>. QED BY <1>7, <3>1, <3>2, <4>1
    <3>. QED BY <3>1, <3>3
  <2>. HIDE DEF p, q, z
  <2>3. /\ Y[k + 1] = (k + 1) * b + r * (p + z)
        /\ XY[k + 1] = b * (p + z) + r * (q + z * z)
    BY <2>1, NextOnLine
  <2>4. CASE k = 0
    <3>1. p = 0 /\ q = 0
      BY <1>7, <2>4 DEF p, q
    <3>2. 1 * (q + z * z) - (p + z) * (p + z) = 0
      BY <2>1, <3>1
    <3>. QED BY <2>1, <2>3, <2>4, <3>2
  <2>5. CASE k = 1
    <3>1. \A u, v \in Int : u # v => 2 * (u * u + v * v) - (u + v) * (u + v) > 0
      <4>. SUFFICES ASSUME NEW u \in Int, NEW v \in Int, u # v
                    PROVE  2 * (u * u + v * v) - (u + v) * (u + v) > 0
        OBVIOUS
      <4>. DEFINE w == u - v
      <4>1. 2 * (u * u + v * v) - (u + v) * (u + v) = w * w
        OBVIOUS
      <4>2. w \in Int /\ w # 0
        OBVIOUS
      <4>. HIDE DEF w
      <4>3. w * w > 0
        BY <4>2
      <4>. QED BY <4>1, <4>3
    <3>2. 2 * (q + z * z) - (p + z) * (p + z) > 0
      BY <2>2, <2>5, <3>1
    <3>. QED BY <2>1, <2>3, <2>5, <3>2
  <2>6. CASE k >= 2
    <3>1. (k + 1) * (q + z * z) - (p + z) * (p + z) >= k * q - p * p
      <4>1. k \in Nat /\ k >= 1 /\ p \in Int /\ q \in Int /\ z \in Int /\ k * q - p * p >= 0
        BY <2>1, <2>6
      <4>. QED BY <4>1, SpreadGrows, Zenon
    <3>2. (k + 1) * (q + z * z) - (p + z) * (p + z) > 0
      <4>. DEFINE d1 == (k + 1) * (q + z * z) - (p + z) * (p + z)
                  d0 == k * q - p * p
      <4>1. d1 \in Int /\ d0 \in Int /\ d1 >= d0 /\ d0 > 0
        BY <2>1, <2>6, <3>1
      <4>. HIDE DEF d0, d1
      <4>2. d1 > 0
        BY <4>1
      <4>. QED BY <4>2 DEF d1
    <3>3. D(k + 1) = (k + 1) * (q + z * z) - (p + z) * (p + z)
      BY <2>1
    <3>4. D(k + 1) \in Int
      BY <2>1, <3>3
    <3>5. D(k + 1) > 0
      BY <3>2, <3>3, Zenon
    <3>. HIDE DEF D
    <3>. QED BY <2>1, <2>3, <3>4, <3>5
  <2>. QED BY <2>4, <2>5, <2>6
<1>11. Nat \subseteq OnLine
  <2>. HIDE DEF OnLine
  <2>. QED BY <1>9, <1>10, CountingUp
<1>12. /\ Y[n] = n * b + r * X[n] /\ XY[n] = b * X[n] + r * XX[n] /\ D(n) > 0
       /\ X[n] \in Int /\ XX[n] \in Int
  <2>1. n \in OnLine /\ n \in 0 .. n
    BY <1>11
  <2>. QED BY <1>7, <2>1
<1>13. n * XY[n] - X[n] * Y[n] <= limit * D(n)
  BY <1>0, <1>3, <1>4, <1>5, <1>6
<1>14. n * XY[n] - X[n] * Y[n] = r * D(n)
  <2>1. n * (b * X[n] + r * XX[n]) - X[n] * (n * b + r * X[n]) = r * (n * XX[n] - X[n] * X[n])
    <3>1. n \in Int /\ r \in Int /\ b \in Int /\ X[n] \in Int /\ XX[n] \in Int
      BY <1>12
    <3>2. \A p, q \in Int : n * (b * p + r * q) - p * (n * b + r * p) = r * (n * q - p * p)
      BY <3>1, GrowthOnLine
    <3>. QED BY <3>1, <3>2, Zenon
  <2>. QED BY <1>12, <2>1, Zenon
<1>15. D(n) \in Int
  <2>1. \A u, v \in Int : n * u - v * v \in Int
    OBVIOUS
  <2>. QED BY <1>12, <2>1
<1>. HIDE DEF D
<1>. QED BY <1>12, <1>13, <1>14, <1>15, CancelSpread

-----------------------------------------------------------------------------
(* The plan compiler.  A plan without an error has tasks with ids of their     *)
(* own, depends on nothing that is disabled or missing and on nothing that      *)
(* leads back to it, and names a dependency for each path produced before.       *)

PlanSound(plan) ==
    LET n == Len(plan.tasks) IN
    /\ n \in Nat /\ DOMAIN plan.tasks = 1 .. n
    /\ \A i, j \in 1 .. n : i # j => plan.tasks[i].id # plan.tasks[j].id
    /\ \A t \in Enabled(plan) : t.deps \subseteq EnabledIds(plan)
    /\ \A s \in (SUBSET Ids(plan)) \ {{}} : \E i \in 1 .. n :
          plan.tasks[i].id \in s /\ plan.tasks[i].deps \cap s = {}
    /\ \A i \in 1 .. n : \A path \in Paths(plan.tasks[i]) :
          Producers(plan, i, path) # {} => plan.tasks[Prior(plan, i, path)].id \in plan.tasks[i].deps

LEMMA IfEmpty == \A c, e, S : If(c, e) \subseteq S /\ e \notin S => ~c
  BY DEF If

LEMMA ErrorsBlock ==
    ASSUME NEW issues, \A i \in issues : i.severity # "error", NEW code, NEW task
    PROVE  Error(code, task) \notin issues
  BY DEF Error

(* The first task of an id is the task of that id, when ids are not repeated.   *)
LEMMA FirstIsTask ==
    ASSUME NEW plan, NEW n \in Nat, DOMAIN plan.tasks = 1 .. n,
           \A i, j \in 1 .. n : i # j => plan.tasks[i].id # plan.tasks[j].id,
           NEW i \in 1 .. n
    PROVE  First(plan, plan.tasks[i].id) = plan.tasks[i]
<1>. DEFINE P(k) == k \in DOMAIN plan.tasks /\ plan.tasks[k].id = plan.tasks[i].id
                    /\ \A j \in 1 .. k - 1 : plan.tasks[j].id # plan.tasks[i].id
<1>1. P(i)
  OBVIOUS
<1>2. \A k : P(k) => k = i
  OBVIOUS
<1>3. (CHOOSE k : P(k)) = i
  <2>. HIDE DEF P
  <2>. QED BY <1>1, <1>2
<1>4. (CHOOSE k \in DOMAIN plan.tasks : plan.tasks[k].id = plan.tasks[i].id
            /\ \A j \in 1 .. k - 1 : plan.tasks[j].id # plan.tasks[i].id) = i
  BY <1>1, <1>2
<1>. QED BY <1>4 DEF First

LEMMA GraphParts ==
    ASSUME NEW plan
    PROVE  /\ \A t \in Tasks(plan) : \A d \in t.deps \ Ids(plan) :
                 Error("dependency_missing", t.id) \in GraphIssues(plan)
           /\ \A t \in Enabled(plan) : \A d \in t.deps \cap Ids(plan) : ~First(plan, d).enabled =>
                 Error("dependency_disabled", t.id) \in GraphIssues(plan)
           /\ If(Cyclic(Ids(plan), [m \in Ids(plan) |-> First(plan, m).deps]), Error("dependency_cycle", NoTask))
                 \subseteq GraphIssues(plan)
<1>. DEFINE noTask == UNION {{Error("dependency_missing", t.id) : d \in t.deps \ Ids(plan)} : t \in Tasks(plan)}
            noneEnabled == {Error("dependency_disabled", t.id) : t \in {t \in Enabled(plan) :
                            \E d \in t.deps \cap Ids(plan) : ~First(plan, d).enabled}}
            noParent == {Error("parent_missing", t.id) : t \in {t \in Tasks(plan) : t.parent \notin Ids(plan) \cup {NoTask}}}
            ownParent == {Error("parent_self_reference", t.id) : t \in {t \in Tasks(plan) : t.parent = t.id}}
            cycle == If(Cyclic(Ids(plan), [m \in Ids(plan) |-> First(plan, m).deps]), Error("dependency_cycle", NoTask))
            parents == If(Cyclic(Ids(plan), [m \in Ids(plan) |-> {First(plan, m).parent}]), Error("parent_cycle", NoTask))
<1>1. GraphIssues(plan) = noTask \cup noneEnabled \cup noParent \cup ownParent \cup cycle \cup parents
  BY DEF GraphIssues
<1>2. noTask \subseteq GraphIssues(plan) /\ noneEnabled \subseteq GraphIssues(plan) /\ cycle \subseteq GraphIssues(plan)
  <2>. HIDE DEF noTask, noneEnabled, noParent, ownParent, cycle, parents
  <2>. QED BY <1>1
<1>3. \A t \in Tasks(plan) : \A d \in t.deps \ Ids(plan) : Error("dependency_missing", t.id) \in noTask
  <2>. SUFFICES ASSUME NEW t \in Tasks(plan), NEW d \in t.deps \ Ids(plan)
                PROVE  Error("dependency_missing", t.id) \in noTask
    OBVIOUS
  <2>. DEFINE part(u) == {Error("dependency_missing", u.id) : e \in u.deps \ Ids(plan)}
  <2>1. part(t) \in {part(u) : u \in Tasks(plan)} /\ Error("dependency_missing", t.id) \in part(t)
    OBVIOUS
  <2>2. noTask = UNION {part(u) : u \in Tasks(plan)}
    OBVIOUS
  <2>. HIDE DEF part, noTask
  <2>. QED BY <2>1, <2>2
<1>4. \A t \in Enabled(plan) : \A d \in t.deps \cap Ids(plan) :
         ~First(plan, d).enabled => Error("dependency_disabled", t.id) \in noneEnabled
  OBVIOUS
<1>. HIDE DEF noTask, noneEnabled
<1>. QED BY <1>2, <1>3, <1>4

LEMMA PlanIsSound ==
    ASSUME NEW in \in CompileInputs, \A i \in Issues(in) : i.severity # "error"
    PROVE  PlanSound(in.plan)
<1>. DEFINE plan == in.plan
            n == Len(plan.tasks)
<1>1. n \in Nat /\ DOMAIN plan.tasks = 1 .. n
  BY CompilerAssumption DEF CompilerAssumption
<1>2. \A code, task : Error(code, task) \notin Issues(in)
  BY ErrorsBlock
<1>3. /\ \A code, task : Error(code, task) \notin LinkIssues(in)
      /\ \A code, task : Error(code, task) \notin GraphIssues(plan)
      /\ \A code, task : Error(code, task) \notin ProducerIssues(plan)
  <2>. HIDE DEF plan
  <2>1. LinkIssues(in) \subseteq Issues(in) /\ GraphIssues(in.plan) \subseteq Issues(in)
        /\ ProducerIssues(in.plan) \subseteq Issues(in)
    BY DEF Issues
  <2>. QED BY <1>2, <2>1 DEF plan
<1>. HIDE DEF plan, n
<1>4. \A i, j \in 1 .. n : i # j => plan.tasks[i].id # plan.tasks[j].id
  <2>1. ASSUME NEW i \in 1 .. n, NEW j \in 1 .. i - 1, plan.tasks[i].id = plan.tasks[j].id PROVE FALSE
    <3>. DEFINE ids == [k \in DOMAIN plan.tasks |-> plan.tasks[k].id]
    <3>1. Repeats(ids, i)
      BY <1>1, <2>1 DEF Repeats
    <3>2. i \in {k \in DOMAIN plan.tasks : Repeats(ids, k)}
      BY <1>1, <3>1
    <3>3. Error("task_id_duplicate", plan.tasks[i].id) \in LinkIssues(in)
      BY <3>2 DEF LinkIssues, plan
    <3>. QED BY <1>3, <3>3
  <2>2. \A i, j \in 1 .. n : i # j => i \in 1 .. j - 1 \/ j \in 1 .. i - 1
    BY <1>1
  <2>. QED BY <2>1, <2>2
<1>5. /\ Tasks(plan) = {plan.tasks[i] : i \in 1 .. n}
      /\ \A i \in 1 .. n : First(plan, plan.tasks[i].id) = plan.tasks[i]
  BY <1>1, <1>4, FirstIsTask DEF Tasks, ToSet
<1>6. ASSUME NEW t \in Enabled(plan), NEW d \in t.deps PROVE d \in EnabledIds(plan)
  <2>1. t \in Tasks(plan)
    BY <1>6 DEF Enabled
  <2>2. d \in Ids(plan)
    <3>. SUFFICES ASSUME d \notin Ids(plan) PROVE FALSE
      OBVIOUS
    <3>1. Error("dependency_missing", t.id) \in GraphIssues(plan)
      BY <1>6, <2>1, GraphParts
    <3>. QED BY <1>3, <3>1
  <2>3. PICK i \in 1 .. n : plan.tasks[i].id = d
    BY <1>5, <2>2 DEF Ids
  <2>4. First(plan, d) = plan.tasks[i] /\ plan.tasks[i] \in Tasks(plan)
    BY <1>5, <2>3
  <2>5. plan.tasks[i].enabled
    <3>. SUFFICES ASSUME ~plan.tasks[i].enabled PROVE FALSE
      OBVIOUS
    <3>1. d \in t.deps \cap Ids(plan) /\ ~First(plan, d).enabled
      BY <1>6, <2>2, <2>4
    <3>2. Error("dependency_disabled", t.id) \in GraphIssues(plan)
      BY <1>6, <3>1, GraphParts
    <3>. QED BY <1>3, <3>2
  <2>. QED BY <2>3, <2>4, <2>5 DEF EnabledIds, Enabled
<1>7. ASSUME NEW s \in (SUBSET Ids(plan)) \ {{}}
      PROVE  \E i \in 1 .. n : plan.tasks[i].id \in s /\ plan.tasks[i].deps \cap s = {}
  <2>. DEFINE next == [m \in Ids(plan) |-> First(plan, m).deps]
  <2>1. ~Cyclic(Ids(plan), next)
    <3>1. If(Cyclic(Ids(plan), next), Error("dependency_cycle", NoTask)) \subseteq GraphIssues(plan)
      BY GraphParts
    <3>. HIDE DEF next
    <3>. QED BY <1>3, <3>1, IfEmpty
  <2>2. PICK m \in s : next[m] \cap s = {}
    <3>. HIDE DEF next
    <3>. QED BY <1>7, <2>1 DEF Cyclic
  <2>3. m \in Ids(plan)
    BY <1>7
  <2>4. PICK i \in 1 .. n : plan.tasks[i].id = m
    BY <1>5, <2>3 DEF Ids
  <2>. QED BY <1>5, <2>2, <2>3, <2>4
<1>8. ASSUME NEW i \in 1 .. n, NEW path \in Paths(plan.tasks[i]), Producers(plan, i, path) # {}
      PROVE  plan.tasks[Prior(plan, i, path)].id \in plan.tasks[i].deps
  <2>. SUFFICES ASSUME plan.tasks[Prior(plan, i, path)].id \notin plan.tasks[i].deps PROVE FALSE
    OBVIOUS
  <2>1. Error("artifact_path_producer_conflict", plan.tasks[i].id) \in ProducerIssues(plan)
    BY <1>1, <1>8 DEF ProducerIssues
  <2>. QED BY <1>3, <2>1
<1>9. PlanSound(plan)
  BY <1>1, <1>4, <1>6, <1>7, <1>8 DEF PlanSound, n
<1>. QED BY <1>9 DEF plan

(* The rounds: what is finished after n of them.                               *)

FinishedBy(plan, F) ==
    LET N == Cardinality(EnabledIds(plan)) IN
    /\ N \in Nat /\ F[0] = {}
    /\ \A n \in 1 .. N : F[n] = F[n - 1] \cup NextBatch(plan, F[n - 1])

LEMMA RoundsFinish ==
    ASSUME NEW plan, IsFiniteSet(EnabledIds(plan))
    PROVE  FinishedBy(plan, Finished(plan))
<1>. DEFINE N == Cardinality(EnabledIds(plan))
            X == SUBSET EnabledIds(plan)
            G == [k \in Nat |-> [x \in X |-> x \cup NextBatch(plan, x)]]
<1>1. N \in Nat
  BY FS_CardinalityType
<1>2. \A x \in X : x \cup NextBatch(plan, x) \in X
  BY DEF NextBatch, EnabledIds
<1>3. PICK f \in [Nat -> X] : f[0] = {} /\ \A k \in Nat : f[k + 1] = G[k][f[k]]
  <2>1. G \in [Nat -> [X -> X]] /\ {} \in X
    <3>. HIDE DEF X
    <3>1. G \in [Nat -> [X -> X]]
      BY <1>2
    <3>. QED BY <3>1 DEF X
  <2>. HIDE DEF G, X
  <2>2. Stepwise(X, {}, G)
    BY <2>1, RecursionOnNat, Zenon
  <2>. QED BY <2>2 DEF Stepwise
<1>. HIDE DEF N, X
<1>4. \A n \in 1 .. N : f[n] = f[n - 1] \cup NextBatch(plan, f[n - 1])
  <2>. SUFFICES ASSUME NEW n \in 1 .. N PROVE f[n] = f[n - 1] \cup NextBatch(plan, f[n - 1])
    OBVIOUS
  <2>1. n - 1 \in Nat /\ (n - 1) + 1 = n /\ f[n - 1] \in X
    BY <1>1
  <2>2. f[(n - 1) + 1] = G[n - 1][f[n - 1]]
    BY <1>3, <2>1
  <2>. QED BY <2>1, <2>2
<1>. DEFINE g == [n \in 0 .. N |-> f[n]]
            Equation(h) == h = [n \in 0 .. N |->
                                   IF n = 0 THEN {} ELSE h[n - 1] \cup NextBatch(plan, h[n - 1])]
            After == CHOOSE h : Equation(h)
<1>5. Equation(g)
  <2>1. \A n \in 0 .. N : n # 0 => n - 1 \in 0 .. N /\ n \in 1 .. N
    BY <1>1
  <2>2. \A n \in 0 .. N : g[n] = IF n = 0 THEN {} ELSE g[n - 1] \cup NextBatch(plan, g[n - 1])
    <3>. HIDE DEF G
    <3>. QED BY <1>3, <1>4, <2>1
  <2>3. g = [n \in 0 .. N |-> g[n]]
    OBVIOUS
  <2>. HIDE DEF g
  <2>. QED BY <2>2, <2>3
<1>6. Equation(After)
  <2>. HIDE DEF Equation, g
  <2>. QED BY <1>5
<1>7. Finished(plan) = After
  BY DEF Finished, N
<1>. HIDE DEF After
<1>8. \A n \in 0 .. N : After[n] = IF n = 0 THEN {} ELSE After[n - 1] \cup NextBatch(plan, After[n - 1])
  BY <1>6
<1>9. After[0] = {} /\ \A n \in 1 .. N : After[n] = After[n - 1] \cup NextBatch(plan, After[n - 1])
  <2>1. 0 \in 0 .. N /\ \A n \in 1 .. N : n \in 0 .. N /\ n # 0
    BY <1>1
  <2>. QED BY <1>8, <2>1
<1>. QED BY <1>1, <1>7, <1>9 DEF FinishedBy, N

(* Round after round something is finished, until all of it is; each task is   *)
(* finished in one round, and after what it depends on.                        *)
LEMMA BatchesInOrder ==
    ASSUME NEW plan, PlanSound(plan)
    PROVE  LET B == Batches(plan) IN
           /\ DOMAIN B \subseteq Nat
           /\ \A m \in DOMAIN B : B[m] \subseteq EnabledIds(plan)
           /\ \A id \in EnabledIds(plan) : \E m \in DOMAIN B : id \in B[m]
           /\ \A m, k \in DOMAIN B : \A id : id \in B[m] /\ id \in B[k] => m = k
           /\ \A t \in Enabled(plan), m \in DOMAIN B : t.id \in B[m] =>
                 \A d \in t.deps : \E k \in DOMAIN B : k < m /\ d \in B[k]
<1>. DEFINE n == Len(plan.tasks)
            all == EnabledIds(plan)
            N == Cardinality(all)
            F == Finished(plan)
            B == Batches(plan)
<1>1. n \in Nat /\ DOMAIN plan.tasks = 1 .. n /\ Tasks(plan) = {plan.tasks[i] : i \in 1 .. n}
      /\ \A i, j \in 1 .. n : i # j => plan.tasks[i].id # plan.tasks[j].id
  BY DEF PlanSound, Tasks, ToSet
<1>2. all \subseteq Ids(plan) /\ IsFiniteSet(all)
  <2>1. all \subseteq Ids(plan)
    BY DEF EnabledIds, Enabled, Ids
  <2>2. IsFiniteSet(Ids(plan))
    <3>. DEFINE f == [i \in 1 .. n |-> plan.tasks[i].id]
    <3>1. f \in Surjection(1 .. n, Ids(plan))
      BY <1>1 DEF Surjection, Ids
    <3>2. IsFiniteSet(1 .. n)
      BY <1>1, FS_Interval
    <3>. HIDE DEF f
    <3>. QED BY <3>1, <3>2, FS_Surjection
  <2>. QED BY <2>1, <2>2, FS_Subset
<1>3. FinishedBy(plan, F)
  BY <1>2, RoundsFinish
<1>4. N \in Nat /\ F[0] = {} /\ \A m \in 1 .. N : F[m] = F[m - 1] \cup NextBatch(plan, F[m - 1])
  BY <1>3 DEF FinishedBy
<1>5. \A done : NextBatch(plan, done) \subseteq all /\ NextBatch(plan, done) \cap done = {}
  BY DEF NextBatch, EnabledIds
<1>6. ASSUME NEW t \in Enabled(plan), NEW u \in Enabled(plan), t.id = u.id PROVE t = u
  BY <1>1, <1>6 DEF Enabled
<1>7. ASSUME NEW done \in SUBSET all, done # all PROVE NextBatch(plan, done) # {}
  <2>. DEFINE s == all \ done
  <2>1. PICK i \in 1 .. n : plan.tasks[i].id \in s /\ plan.tasks[i].deps \cap s = {}
    <3>1. s \in (SUBSET Ids(plan)) \ {{}}
      BY <1>2, <1>7
    <3>. HIDE DEF s
    <3>. QED BY <3>1 DEF PlanSound
  <2>2. PICK t \in Enabled(plan) : t.id = plan.tasks[i].id
    BY <2>1 DEF EnabledIds
  <2>3. t = plan.tasks[i]
    BY <1>1, <2>2 DEF Enabled
  <2>4. t.id \notin done /\ t.deps \cap EnabledIds(plan) \subseteq done
    BY <2>1, <2>3
  <2>. QED BY <2>4 DEF NextBatch
<1>. HIDE DEF F, N, all
<1>8. \A m \in 0 .. N : F[m] \subseteq all /\ (F[m] = all \/ Cardinality(F[m]) >= m)
  <2>. DEFINE P(m) == F[m] \subseteq all /\ (F[m] = all \/ Cardinality(F[m]) >= m)
              S == {m \in Nat : m <= N => P(m)}
  <2>1. 0 \in S
    BY <1>4, FS_EmptySet
  <2>2. ASSUME NEW m \in Nat, m \in S PROVE m + 1 \in S
    <3>. SUFFICES ASSUME m + 1 <= N PROVE P(m + 1)
      OBVIOUS
    <3>1. m + 1 \in 1 .. N /\ (m + 1) - 1 = m /\ P(m)
      BY <1>4, <2>2
    <3>2. F[m + 1] = F[m] \cup NextBatch(plan, F[m])
      BY <1>4, <3>1
    <3>3. F[m + 1] \subseteq all
      BY <1>5, <3>1, <3>2
    <3>4. CASE F[m] = all
      BY <3>2, <3>3, <3>4
    <3>5. CASE F[m] # all
      <4>1. PICK id \in NextBatch(plan, F[m]) : id \notin F[m]
        BY <1>5, <1>7, <3>1, <3>5
      <4>2. IsFiniteSet(F[m]) /\ IsFiniteSet(F[m + 1])
        BY <1>2, <3>1, <3>3, FS_Subset DEF all
      <4>3. Cardinality(F[m] \cup {id}) = Cardinality(F[m]) + 1 /\ Cardinality(F[m]) \in Nat
        BY <4>1, <4>2, FS_AddElement, FS_CardinalityType
      <4>4. F[m] \cup {id} \in SUBSET F[m + 1]
        BY <3>2, <4>1
      <4>5. Cardinality(F[m] \cup {id}) <= Cardinality(F[m + 1]) /\ Cardinality(F[m + 1]) \in Nat
        BY <4>2, <4>4, FS_Subset, FS_CardinalityType
      <4>. QED BY <3>1, <3>3, <3>5, <4>3, <4>5
    <3>. QED BY <3>4, <3>5
  <2>3. Nat \subseteq S
    <3>. HIDE DEF S
    <3>. QED BY <2>1, <2>2, CountingUp
  <2>. QED BY <2>3
<1>9. F[N] = all
  <2>1. N \in 0 .. N
    BY <1>4
  <2>2. F[N] \in SUBSET all /\ (F[N] = all \/ Cardinality(F[N]) >= N)
    BY <1>8, <2>1
  <2>3. IsFiniteSet(all) /\ IsFiniteSet(F[N]) /\ Cardinality(F[N]) <= Cardinality(all) /\ Cardinality(F[N]) \in Nat
        /\ (Cardinality(all) = Cardinality(F[N]) => all = F[N])
    BY <1>2, <2>2, FS_Subset, FS_CardinalityType DEF all
  <2>. QED BY <1>4, <2>2, <2>3 DEF N
<1>10. \A m \in 0 .. N : \A k \in 0 .. m : F[k] \subseteq F[m]
  <2>. DEFINE S == {m \in Nat : m <= N => \A k \in 0 .. m : F[k] \subseteq F[m]}
  <2>1. 0 \in S
    OBVIOUS
  <2>2. ASSUME NEW m \in Nat, m \in S PROVE m + 1 \in S
    <3>. SUFFICES ASSUME m + 1 <= N, NEW k \in 0 .. m + 1 PROVE F[k] \subseteq F[m + 1]
      OBVIOUS
    <3>1. m + 1 \in 1 .. N /\ (m + 1) - 1 = m /\ m <= N /\ (k = m + 1 \/ k \in 0 .. m)
      BY <1>4
    <3>2. F[m + 1] = F[m] \cup NextBatch(plan, F[m])
      BY <1>4, <3>1
    <3>. QED BY <2>2, <3>1, <3>2
  <2>3. Nat \subseteq S
    <3>. HIDE DEF S
    <3>. QED BY <2>1, <2>2, CountingUp
  <2>. QED BY <1>4, <2>3
<1>11. \A m \in 0 .. N : \A id \in F[m] : \E k \in 1 .. m : id \in NextBatch(plan, F[k - 1])
  <2>. DEFINE S == {m \in Nat : m <= N =>
                       \A id \in F[m] : \E k \in 1 .. m : id \in NextBatch(plan, F[k - 1])}
  <2>1. 0 \in S
    BY <1>4
  <2>2. ASSUME NEW m \in Nat, m \in S PROVE m + 1 \in S
    <3>. SUFFICES ASSUME m + 1 <= N, NEW id \in F[m + 1]
                  PROVE  \E k \in 1 .. m + 1 : id \in NextBatch(plan, F[k - 1])
      OBVIOUS
    <3>1. m + 1 \in 1 .. N /\ (m + 1) - 1 = m /\ m <= N /\ m + 1 \in 1 .. m + 1
      BY <1>4
    <3>2. F[m + 1] = F[m] \cup NextBatch(plan, F[m])
      BY <1>4, <3>1
    <3>3. CASE id \in F[m]
      <4>1. PICK k \in 1 .. m : id \in NextBatch(plan, F[k - 1])
        BY <2>2, <3>1, <3>3
      <4>2. k \in 1 .. m + 1
        OBVIOUS
      <4>. QED BY <4>1, <4>2
    <3>4. CASE id \in NextBatch(plan, F[m])
      BY <3>1, <3>4
    <3>. QED BY <3>2, <3>3, <3>4
  <2>3. Nat \subseteq S
    <3>. HIDE DEF S
    <3>. QED BY <2>1, <2>2, CountingUp
  <2>. QED BY <1>4, <2>3
<1>12. /\ DOMAIN B = {m \in 1 .. N : NextBatch(plan, F[m - 1]) # {}}
       /\ \A m \in DOMAIN B : B[m] = NextBatch(plan, F[m - 1])
  BY DEF Batches, Rounds, F, N, all
<1>. HIDE DEF B
<1>13. DOMAIN B \subseteq Nat /\ \A m \in DOMAIN B : B[m] \subseteq all
  BY <1>5, <1>12
<1>14. ASSUME NEW m \in 0 .. N, NEW id \in F[m] PROVE \E k \in DOMAIN B : k <= m /\ id \in B[k]
  <2>1. PICK k \in 1 .. m : id \in NextBatch(plan, F[k - 1])
    BY <1>11
  <2>2. k \in 1 .. N /\ k <= m
    BY <1>4
  <2>. QED BY <1>12, <2>1, <2>2
<1>15. \A id \in all : \E m \in DOMAIN B : id \in B[m]
  <2>1. N \in 0 .. N
    BY <1>4
  <2>. QED BY <1>9, <1>14, <2>1
<1>16. ASSUME NEW m \in DOMAIN B, NEW k \in DOMAIN B, NEW id, id \in B[m], id \in B[k], k < m PROVE FALSE
  <2>1. m \in 1 .. N /\ k \in 1 .. N /\ m - 1 \in 0 .. N /\ k \in 0 .. m - 1
    BY <1>4, <1>12, <1>16
  <2>2. F[k] = F[k - 1] \cup NextBatch(plan, F[k - 1])
    BY <1>4, <2>1
  <2>3. id \in F[k] /\ F[k] \subseteq F[m - 1]
    BY <1>10, <1>12, <1>16, <2>1, <2>2
  <2>4. id \in NextBatch(plan, F[m - 1])
    BY <1>12, <1>16
  <2>. QED BY <1>5, <2>3, <2>4
<1>17. \A m, k \in DOMAIN B : \A id : id \in B[m] /\ id \in B[k] => m = k
  <2>1. \A m, k \in DOMAIN B : m < k \/ k < m \/ m = k
    BY <1>13
  <2>. QED BY <1>16, <2>1
<1>18. ASSUME NEW t \in Enabled(plan), NEW m \in DOMAIN B, t.id \in B[m], NEW d \in t.deps
       PROVE  \E k \in DOMAIN B : k < m /\ d \in B[k]
  <2>1. m \in 1 .. N /\ m - 1 \in 0 .. N /\ t.id \in NextBatch(plan, F[m - 1])
    BY <1>4, <1>12, <1>18
  <2>2. PICK u \in Enabled(plan) : u.id = t.id /\ u.deps \cap EnabledIds(plan) \subseteq F[m - 1]
    BY <2>1 DEF NextBatch
  <2>3. d \in F[m - 1]
    BY <1>6, <1>18, <2>2 DEF PlanSound
  <2>4. PICK k \in DOMAIN B : k <= m - 1 /\ d \in B[k]
    BY <1>14, <2>1, <2>3
  <2>. QED BY <1>13, <2>1, <2>4
<1>. QED BY <1>13, <1>15, <1>17, <1>18 DEF B, all

LEMMA GreatestOf ==
    ASSUME NEW n \in Nat, NEW S \in SUBSET (1 .. n), S # {}
    PROVE  \E g \in S : \A k \in S : k <= g
<1>. DEFINE D == {m \in Nat : (\E k \in S : k > n - m) => \E g \in S : \A k \in S : k <= g}
<1>1. 0 \in D
  OBVIOUS
<1>2. ASSUME NEW m \in Nat, m \in D PROVE m + 1 \in D
  <2>. SUFFICES ASSUME NEW k \in S, k > n - (m + 1), ~(\E l \in S : l > n - m)
                PROVE  \E g \in S : \A l \in S : l <= g
    BY <1>2
  <2>. QED OBVIOUS
<1>3. Nat \subseteq D
  <2>. HIDE DEF D
  <2>. QED BY <1>1, <1>2, CountingUp
<1>4. \E k \in S : k > n - n
  <2>1. PICK k \in S : k \in 1 .. n
    OBVIOUS
  <2>2. k > n - n
    BY <2>1
  <2>. QED BY <2>2
<1>5. n \in D
  BY <1>3
<1>. QED BY <1>4, <1>5

Earlier(B, a, b) == \E k, m \in DOMAIN B : k < m /\ a \in B[k] /\ b \in B[m]

(* Two tasks that produce one path are linked by the producers listed between   *)
(* them, so the one listed first is in an earlier batch.                         *)
LEMMA ProducersInOrder ==
    ASSUME NEW plan, PlanSound(plan), NEW path,
           NEW i \in 1 .. Len(plan.tasks), NEW j \in 1 .. Len(plan.tasks), i < j,
           plan.tasks[i].enabled, plan.tasks[j].enabled,
           path \in Paths(plan.tasks[i]), path \in Paths(plan.tasks[j])
    PROVE  Earlier(Batches(plan), plan.tasks[i].id, plan.tasks[j].id)
<1>. DEFINE n == Len(plan.tasks)
            B == Batches(plan)
            id(k) == plan.tasks[k].id
            Makes(k) == plan.tasks[k].enabled /\ path \in Paths(plan.tasks[k])
            Q == {m \in Nat : \A l \in 1 .. n : l <= m /\ i < l /\ Makes(l) => Earlier(B, id(i), id(l))}
<1>1. n \in Nat /\ DOMAIN plan.tasks = 1 .. n /\ \A k, l \in 1 .. n : k # l => id(k) # id(l)
  BY DEF PlanSound
<1>2. \A k \in 1 .. n : plan.tasks[k] \in Tasks(plan)
  BY <1>1 DEF Tasks, ToSet
<1>3. ASSUME NEW k \in 1 .. n, id(k) \in EnabledIds(plan) PROVE plan.tasks[k].enabled
  <2>1. PICK u \in Enabled(plan) : u.id = id(k)
    BY <1>3 DEF EnabledIds
  <2>2. PICK l \in 1 .. n : u = plan.tasks[l]
    BY <1>1 DEF Enabled, Tasks, ToSet
  <2>3. l = k
    BY <1>1, <2>1, <2>2
  <2>. QED BY <2>2, <2>3 DEF Enabled
<1>4. ASSUME NEW l \in 1 .. n, Makes(l), NEW d \in plan.tasks[l].deps PROVE Earlier(B, d, id(l))
  <2>1. plan.tasks[l] \in Enabled(plan) /\ id(l) \in EnabledIds(plan)
    BY <1>2, <1>4 DEF Enabled, EnabledIds
  <2>2. PICK m \in DOMAIN B : id(l) \in B[m]
    BY <2>1, BatchesInOrder
  <2>3. PICK k \in DOMAIN B : k < m /\ d \in B[k]
    BY <1>4, <2>1, <2>2, BatchesInOrder
  <2>. QED BY <2>2, <2>3 DEF Earlier
<1>5. ASSUME NEW a, NEW b, NEW c, Earlier(B, a, b), Earlier(B, b, c) PROVE Earlier(B, a, c)
  <2>1. DOMAIN B \subseteq Nat /\ \A m, k \in DOMAIN B : \A x : x \in B[m] /\ x \in B[k] => m = k
    BY BatchesInOrder
  <2>2. PICK k, m \in DOMAIN B : k < m /\ a \in B[k] /\ b \in B[m]
    BY <1>5 DEF Earlier
  <2>3. PICK l, o \in DOMAIN B : l < o /\ b \in B[l] /\ c \in B[o]
    BY <1>5 DEF Earlier
  <2>4. l = m /\ k < o
    BY <2>1, <2>2, <2>3
  <2>. QED BY <2>2, <2>3, <2>4 DEF Earlier
<1>6. ASSUME NEW m \in Nat, m \in Q, m + 1 \in 1 .. n, i < m + 1, Makes(m + 1)
      PROVE  Earlier(B, id(i), id(m + 1))
  <2>. DEFINE made == Producers(plan, m + 1, path)
              q == Prior(plan, m + 1, path)
  <2>1. i \in made /\ made \subseteq 1 .. m /\ \A k \in made : path \in Paths(plan.tasks[k])
    BY <1>6 DEF Producers
  <2>2. q \in made /\ \A k \in made : k <= q
    <3>1. \E g \in made : \A k \in made : k <= g
      <4>. HIDE DEF made
      <4>. QED BY <2>1, GreatestOf
    <3>. QED BY <3>1 DEF Prior
  <2>. HIDE DEF made, q
  <2>3. id(q) \in plan.tasks[m + 1].deps
    BY <1>6, <2>1 DEF PlanSound, made, q
  <2>4. Earlier(B, id(q), id(m + 1))
    BY <1>4, <1>6, <2>3
  <2>5. q \in 1 .. n /\ q <= m /\ i <= q /\ path \in Paths(plan.tasks[q])
    BY <1>1, <1>6, <2>1, <2>2
  <2>6. id(q) \in EnabledIds(plan)
    <3>1. plan.tasks[m + 1] \in Enabled(plan)
      BY <1>2, <1>6 DEF Enabled
    <3>. QED BY <2>3, <3>1 DEF PlanSound
  <2>7. Makes(q)
    BY <1>3, <2>5, <2>6
  <2>8. CASE q = i
    BY <2>4, <2>8
  <2>9. CASE q # i
    <3>1. Earlier(B, id(i), id(q))
      BY <1>6, <2>5, <2>7, <2>9
    <3>. HIDE DEF B, id
    <3>. QED BY <1>5, <2>4, <3>1
  <2>. QED BY <2>8, <2>9
<1>7. 0 \in Q
  OBVIOUS
<1>8. ASSUME NEW m \in Nat, m \in Q PROVE m + 1 \in Q
  <2>. SUFFICES ASSUME NEW l \in 1 .. n, l <= m + 1, i < l, Makes(l) PROVE Earlier(B, id(i), id(l))
    OBVIOUS
  <2>1. CASE l <= m
    BY <1>8, <2>1
  <2>2. CASE l = m + 1
    BY <1>6, <1>8, <2>2
  <2>. QED BY <1>1, <2>1, <2>2
<1>9. Nat \subseteq Q
  <2>. HIDE DEF Q
  <2>. QED BY <1>7, <1>8, CountingUp
<1>10. j \in Q
  BY <1>9
<1>. QED BY <1>10

(* What the report of an executable plan promises.                              *)
ReportRuns(r) ==
    LET enabled == Enabled(r.input.plan) IN
    /\ UNION ToSet(r.batches) = {t.id : t \in enabled}
    /\ \A t \in enabled :
          /\ r.status[t] \in {"ready", "manual"}
          /\ \A d \in t.deps : d \in UNION ToSet(r.batches) /\ BatchOf(r, d) < BatchOf(r, t.id)
          /\ \A u \in enabled \ {t} : Paths(t) \cap Paths(u) # {} => BatchOf(r, t.id) # BatchOf(r, u.id)

LEMMA ExecutableReportRuns ==
    ASSUME NEW in \in CompileInputs, CompilePlan(in).executable
    PROVE  ReportRuns(CompilePlan(in))
<1>. DEFINE r == CompilePlan(in)
            plan == in.plan
            B == Batches(plan)
<1>1. /\ r.input = in /\ r.batches = B
      /\ r.status = [t \in Tasks(plan) |-> Status(Issues(in), t)]
      /\ r.executable <=> \A i \in Issues(in) : i.severity # "error"
  BY DEF CompilePlan
<1>2. \A i \in Issues(in) : i.severity # "error"
  BY <1>1
<1>3. PlanSound(plan)
  BY <1>2, PlanIsSound
<1>. HIDE DEF r, plan
<1>4. /\ DOMAIN B \subseteq Nat
      /\ \A m \in DOMAIN B : B[m] \subseteq EnabledIds(plan)
      /\ \A id \in EnabledIds(plan) : \E m \in DOMAIN B : id \in B[m]
      /\ \A m, k \in DOMAIN B : \A id : id \in B[m] /\ id \in B[k] => m = k
      /\ \A t \in Enabled(plan), m \in DOMAIN B : t.id \in B[m] =>
            \A d \in t.deps : \E k \in DOMAIN B : k < m /\ d \in B[k]
  BY <1>3, BatchesInOrder
<1>5. UNION ToSet(B) = EnabledIds(plan)
  <2>1. ToSet(B) = {B[m] : m \in DOMAIN B}
    BY DEF ToSet
  <2>. HIDE DEF B
  <2>. QED BY <1>4, <2>1
<1>6. ASSUME NEW id, NEW m \in DOMAIN B, id \in B[m] PROVE BatchOf(r, id) = m
  <2>. HIDE DEF B
  <2>. QED BY <1>1, <1>4, <1>6 DEF BatchOf
<1>7. ASSUME NEW a, NEW b, Earlier(B, a, b) PROVE BatchOf(r, a) < BatchOf(r, b) /\ BatchOf(r, a) # BatchOf(r, b)
  <2>1. PICK k, m \in DOMAIN B : k < m /\ a \in B[k] /\ b \in B[m]
    BY <1>7 DEF Earlier
  <2>2. BatchOf(r, a) = k /\ BatchOf(r, b) = m
    BY <1>6, <2>1
  <2>. HIDE DEF B
  <2>. QED BY <1>4, <2>1, <2>2
<1>8. ASSUME NEW t \in Enabled(plan) PROVE r.status[t] \in {"ready", "manual"}
  <2>1. t \in Tasks(plan) /\ t.enabled
    BY DEF Enabled
  <2>2. r.status[t] = Status(Issues(in), t)
    BY <1>1, <2>1
  <2>. HIDE DEF plan
  <2>3. CASE t.manual
    BY <2>1, <2>2, <2>3 DEF Status
  <2>4. CASE ~t.manual
    BY <1>2, <2>1, <2>2, <2>4 DEF Status
  <2>. QED BY <2>3, <2>4
<1>9. ASSUME NEW t \in Enabled(plan), NEW d \in t.deps
      PROVE  d \in UNION ToSet(B) /\ BatchOf(r, d) < BatchOf(r, t.id)
  <2>1. t.id \in EnabledIds(plan)
    BY DEF EnabledIds
  <2>2. PICK m \in DOMAIN B : t.id \in B[m]
    BY <1>4, <2>1
  <2>3. PICK k \in DOMAIN B : k < m /\ d \in B[k]
    BY <1>4, <1>9, <2>2
  <2>4. Earlier(B, d, t.id)
    BY <2>2, <2>3 DEF Earlier
  <2>5. d \in EnabledIds(plan)
    BY <1>4, <2>3
  <2>. QED BY <1>5, <1>7, <2>4, <2>5
<1>10. ASSUME NEW t \in Enabled(plan), NEW u \in Enabled(plan) \ {t}, Paths(t) \cap Paths(u) # {}
       PROVE  BatchOf(r, t.id) # BatchOf(r, u.id)
  <2>1. PICK path : path \in Paths(t) /\ path \in Paths(u)
    BY <1>10
  <2>2. DOMAIN plan.tasks = 1 .. Len(plan.tasks) /\ Len(plan.tasks) \in Nat
    BY <1>3 DEF PlanSound
  <2>3. PICK i \in 1 .. Len(plan.tasks), j \in 1 .. Len(plan.tasks) : t = plan.tasks[i] /\ u = plan.tasks[j]
    BY <2>2 DEF Enabled, Tasks, ToSet
  <2>4. t.enabled /\ u.enabled
    BY DEF Enabled
  <2>5. CASE i < j
    <3>1. Earlier(B, t.id, u.id)
      BY <1>3, <2>1, <2>3, <2>4, <2>5, ProducersInOrder
    <3>. QED BY <1>7, <3>1
  <2>6. CASE j < i
    <3>1. Earlier(B, u.id, t.id)
      BY <1>3, <2>1, <2>3, <2>4, <2>6, ProducersInOrder
    <3>. QED BY <1>7, <3>1
  <2>7. i < j \/ j < i
    <3>1. i # j
      BY <1>10, <2>3
    <3>. QED BY <2>2, <3>1
  <2>. QED BY <2>5, <2>6, <2>7
<1>11. UNION ToSet(r.batches) = {t.id : t \in Enabled(plan)} /\ r.input.plan = plan
  BY <1>1, <1>5 DEF EnabledIds, plan
<1>12. ReportRuns(r)
  <2>. HIDE DEF B
  <2>. QED BY <1>1, <1>8, <1>9, <1>10, <1>11 DEF ReportRuns
<1>. QED BY <1>12 DEF r

ReportOf(r) == r = NoReport \/ \E in \in CompileInputs : r = CompilePlan(in)
CompilerInv == ReportOf(baselineReport) /\ ReportOf(candidateReport)

(* The reports are of plans the compiler was given.                             *)
LEMMA CompilerInvariant == CompilerSpec => []CompilerInv
<1>1. CompilerInit => CompilerInv
  BY DEF CompilerInit, CompilerInv, ReportOf
<1>2. CompilerInv /\ [CompilerNext]_compilerVars => CompilerInv'
  <2>. SUFFICES ASSUME CompilerInv, [CompilerNext]_compilerVars PROVE CompilerInv'
    OBVIOUS
  <2>1. ASSUME NEW in \in CompileInputs, Compile(in) PROVE CompilerInv'
    BY <2>1 DEF Compile, CompilerInv, ReportOf
  <2>2. ASSUME NEW in \in CompileInputs, ComparePlans(in) PROVE CompilerInv'
    BY <2>2 DEF ComparePlans, CompilerInv, ReportOf
  <2>3. CASE UNCHANGED compilerVars
    BY <2>3 DEF compilerVars, CompilerInv, ReportOf
  <2>. QED BY <2>1, <2>2, <2>3 DEF CompilerNext
<1>. QED BY <1>1, <1>2, PTL DEF CompilerSpec

(* A plan that the compiler declares executable can be executed: its enabled     *)
(* tasks are all in the batches, each after what it depends on, none is blocked, *)
(* and two tasks that produce one path never share a batch.                      *)
THEOREM ExecutablePlansRun == CompilerSpec => []ExecutablePlanRuns
<1>1. CompilerInv => ExecutablePlanRuns
  <2>. SUFFICES ASSUME CompilerInv, NEW r \in {baselineReport, candidateReport} \ {NoReport}, r.executable
                PROVE  ReportRuns(r)
    BY DEF ExecutablePlanRuns, ReportRuns
  <2>1. PICK in \in CompileInputs : r = CompilePlan(in)
    BY DEF CompilerInv, ReportOf
  <2>. QED BY <2>1, ExecutableReportRuns
<1>. QED BY <1>1, CompilerInvariant, PTL

(* What is in the batches is in the plan.                                        *)
LEMMA BatchesOfPlan ==
    ASSUME NEW plan
    PROVE  UNION ToSet(Batches(plan)) \subseteq Ids(plan)
<1>1. \A done : NextBatch(plan, done) \subseteq Ids(plan)
  BY DEF NextBatch, Enabled, Ids
<1>. DEFINE F == Finished(plan)
<1>2. \A n \in Rounds(plan) : NextBatch(plan, F[n - 1]) \subseteq Ids(plan)
  <2>. HIDE DEF F
  <2>. QED BY <1>1
<1>. QED BY <1>2 DEF Batches, ToSet

ReportTyped(r) ==
    /\ r.executable \in BOOLEAN /\ DOMAIN r.status = Tasks(r.input.plan)
    /\ UNION ToSet(r.batches) \subseteq Ids(r.input.plan)

LEMMA ReportIsTyped ==
    ASSUME NEW in
    PROVE  ReportTyped(CompilePlan(in))
<1>. DEFINE r == CompilePlan(in)
            errorless == \A i \in Issues(in) : i.severity # "error"
<1>1. r.executable = errorless /\ r.input = in /\ r.batches = Batches(in.plan)
  BY DEF CompilePlan
<1>2. DOMAIN r.status = Tasks(in.plan)
  BY DEF CompilePlan
<1>3. errorless \in BOOLEAN
  <2>1. CASE errorless
    <3>1. errorless = TRUE
      BY <2>1
    <3>. QED BY <3>1
  <2>2. CASE ~errorless
    <3>1. errorless = FALSE
      BY <2>2
    <3>. QED BY <3>1
  <2>. QED BY <2>1, <2>2
<1>. HIDE DEF r, errorless
<1>4. r.executable \in BOOLEAN
  BY <1>1, <1>3
<1>5. ReportTyped(r)
  BY <1>1, <1>2, <1>4, BatchesOfPlan DEF ReportTyped
<1>. QED BY <1>5 DEF r

(* Every report says of each of its plan's tasks where it stands, and batches    *)
(* only tasks of the plan, for every set of inputs.                               *)
THEOREM CompilerTypeCorrect == CompilerSpec => []CompilerTypeOK
<1>1. CompilerInv => CompilerTypeOK
  <2>. SUFFICES ASSUME CompilerInv, NEW r \in {baselineReport, candidateReport} \ {NoReport}
                PROVE  ReportTyped(r)
    BY DEF CompilerTypeOK, ReportTyped
  <2>1. PICK in \in CompileInputs : r = CompilePlan(in)
    BY DEF CompilerInv, ReportOf
  <2>. QED BY <2>1, ReportIsTyped
<1>. QED BY <1>1, CompilerInvariant, PTL

-----------------------------------------------------------------------------
(* The controller of convergence: what a decision was made of.  The user may    *)
(* have approved the stronger model since.                                       *)

Setting == [verifier : BOOLEAN, split : BOOLEAN, ask : BOOLEAN, stronger : BOOLEAN,
            strongerApproved : BOOLEAN, repairs : Nat]

\* What t was before its user approved anything.
Before(s, t) ==
    /\ s \in Setting
    /\ s.verifier = t.verifier /\ s.split = t.split /\ s.ask = t.ask /\ s.stronger = t.stronger
    /\ s.strongerApproved => t.strongerApproved

TurnShape ==
    /\ DOMAIN turn = {"setting", "noProgress", "repeats", "repairs", "facts", "decision"}
    /\ turn.setting \in Setting
    /\ turn.repairs \in Nat /\ turn.noProgress \in Nat /\ turn.repeats \in Nat

(* The stage of a turn without progress.                                        *)
StalledStage(np, repeats, repairs, s) ==
    IF np <= 1 /\ repeats <= 1 /\ repairs > 0 THEN 1
    ELSE IF np <= 2 /\ repairs > 0 THEN 2
    ELSE IF s.verifier /\ np <= 3 THEN 3
    ELSE IF s.split /\ np <= 4 THEN 4
    ELSE IF s.ask /\ np <= 5 THEN 5
    ELSE IF s.stronger /\ ~s.strongerApproved THEN 6
    ELSE IF s.stronger /\ repairs > 0 THEN 6
    ELSE 7

StageOf(progress, np, repeats, repairs, s) == IF progress THEN 0 ELSE StalledStage(np, repeats, repairs, s)

\* The last decision is that of the last turn.
DecidedBefore ==
    turn.decision # NoDecision =>
       \/ turn.noProgress = 0 /\ turn.decision.stage = 0
       \/ \E s \in Setting :
             /\ turn.noProgress >= 1 /\ Before(s, turn.setting)
             /\ turn.decision.stage = StalledStage(turn.noProgress, turn.repeats, turn.repairs, s)

TurnInv == TurnShape /\ DecidedBefore

LEMMA StageOfDecision ==
    ASSUME NEW q, NEW k, NEW l, NEW o, NEW u
    PROVE  Decide(q, k, l, o, u).stage = StageOf(q, k, l, o, u)
<1>. DEFINE small == k <= 1 /\ l <= 1 /\ o > 0
            few == k <= 2 /\ o > 0
            verified == u.verifier /\ k <= 3
            split == u.split /\ k <= 4
            asked == u.ask /\ k <= 5
            offers == u.stronger /\ ~u.strongerApproved
            stronger == u.stronger /\ o > 0
<1>1. Decide(q, k, l, o, u) =
          IF q THEN Decision("continue", 0, FALSE)
          ELSE IF small THEN Decision("compact_and_retry", 1, FALSE)
          ELSE IF few THEN Decision("require_different_action", 2, FALSE)
          ELSE IF verified THEN Decision("route_to_verifier", 3, FALSE)
          ELSE IF split THEN Decision("split_task", 4, FALSE)
          ELSE IF asked THEN Decision("ask_user", 5, TRUE)
          ELSE IF offers THEN Decision("offer_stronger_model", 6, TRUE)
          ELSE IF stronger THEN Decision("require_different_action", 6, FALSE)
          ELSE Decision("fail_convergence", 7, FALSE)
  BY Zenon DEF Decide
<1>2. StageOf(q, k, l, o, u) =
          IF q THEN 0 ELSE IF small THEN 1 ELSE IF few THEN 2 ELSE IF verified THEN 3 ELSE IF split THEN 4
          ELSE IF asked THEN 5 ELSE IF offers THEN 6 ELSE IF stronger THEN 6 ELSE 7
  BY Zenon DEF StageOf, StalledStage
<1>. HIDE DEF small, few, verified, split, asked, offers, stronger
<1>3. CASE q
  <2>1. Decide(q, k, l, o, u) = Decision("continue", 0, FALSE) /\ StageOf(q, k, l, o, u) = 0
    BY <1>1, <1>2, <1>3, Zenon
  <2>. QED BY <2>1 DEF Decision
<1>4. CASE ~q /\ small
  <2>1. Decide(q, k, l, o, u) = Decision("compact_and_retry", 1, FALSE) /\ StageOf(q, k, l, o, u) = 1
    BY <1>1, <1>2, <1>4, Zenon
  <2>. QED BY <2>1 DEF Decision
<1>5. CASE ~q /\ ~small /\ few
  <2>1. Decide(q, k, l, o, u) = Decision("require_different_action", 2, FALSE) /\ StageOf(q, k, l, o, u) = 2
    BY <1>1, <1>2, <1>5, Zenon
  <2>. QED BY <2>1 DEF Decision
<1>6. CASE ~q /\ ~small /\ ~few /\ verified
  <2>1. Decide(q, k, l, o, u) = Decision("route_to_verifier", 3, FALSE) /\ StageOf(q, k, l, o, u) = 3
    BY <1>1, <1>2, <1>6, Zenon
  <2>. QED BY <2>1 DEF Decision
<1>7. CASE ~q /\ ~small /\ ~few /\ ~verified /\ split
  <2>1. Decide(q, k, l, o, u) = Decision("split_task", 4, FALSE) /\ StageOf(q, k, l, o, u) = 4
    BY <1>1, <1>2, <1>7, Zenon
  <2>. QED BY <2>1 DEF Decision
<1>8. CASE ~q /\ ~small /\ ~few /\ ~verified /\ ~split /\ asked
  <2>1. Decide(q, k, l, o, u) = Decision("ask_user", 5, TRUE) /\ StageOf(q, k, l, o, u) = 5
    BY <1>1, <1>2, <1>8, Zenon
  <2>. QED BY <2>1 DEF Decision
<1>9. CASE ~q /\ ~small /\ ~few /\ ~verified /\ ~split /\ ~asked /\ offers
  <2>1. Decide(q, k, l, o, u) = Decision("offer_stronger_model", 6, TRUE) /\ StageOf(q, k, l, o, u) = 6
    BY <1>1, <1>2, <1>9, Zenon
  <2>. QED BY <2>1 DEF Decision
<1>10. CASE ~q /\ ~small /\ ~few /\ ~verified /\ ~split /\ ~asked /\ ~offers /\ stronger
  <2>1. Decide(q, k, l, o, u) = Decision("require_different_action", 6, FALSE) /\ StageOf(q, k, l, o, u) = 6
    BY <1>1, <1>2, <1>10, Zenon
  <2>. QED BY <2>1 DEF Decision
<1>11. CASE ~q /\ ~small /\ ~few /\ ~verified /\ ~split /\ ~asked /\ ~offers /\ ~stronger
  <2>1. Decide(q, k, l, o, u) = Decision("fail_convergence", 7, FALSE) /\ StageOf(q, k, l, o, u) = 7
    BY <1>1, <1>2, <1>11, Zenon
  <2>. QED BY <2>1 DEF Decision
<1>. QED BY <1>3, <1>4, <1>5, <1>6, <1>7, <1>8, <1>9, <1>10, <1>11, Zenon

LEMMA StageGrows ==
    ASSUME NEW n \in Nat, NEW r \in Nat, NEW m \in Nat, NEW s,
           NEW r2 \in Nat, NEW m2 \in Nat, NEW t,
           n >= 1, m2 <= m, Before(s, t)
    PROVE  StalledStage(n + 1, r2, m2, t) >= StalledStage(n, r, m, s)
  BY DEF StalledStage, Before

LEMMA TurnStarts == IntelligenceInit => TurnInv
<1>. SUFFICES ASSUME IntelligenceInit PROVE TurnInv
  OBVIOUS
<1>1. PICK s \in StallSettings : turn = [setting |-> s, noProgress |-> 0, repeats |-> 0, repairs |-> s.repairs,
                                       facts |-> {}, decision |-> NoDecision]
  BY DEF IntelligenceInit
<1>2. s \in Setting
  BY IntelligenceAssumption DEF IntelligenceAssumption, Setting
<1>3. s.repairs \in Nat
  BY <1>2 DEF Setting
<1>. QED BY <1>1, <1>2, <1>3 DEF TurnInv, TurnShape, DecidedBefore

LEMMA TurnKept ==
    ASSUME TurnInv, NEW facts, NEW repeated \in BOOLEAN, NEW repairs \in 0 .. turn.repairs, Turn(facts, repeated, repairs)
    PROVE  /\ TurnInv'
           /\ turn'.setting = turn.setting /\ turn'.repairs = repairs
           /\ turn'.noProgress = turn.noProgress + 1 =>
                 turn'.decision.stage = StalledStage(turn.noProgress + 1, turn'.repeats, repairs, turn.setting)
<1>. DEFINE progress == SemanticProgress(turn.facts, facts)
            np == IF progress THEN 0 ELSE turn.noProgress + 1
            repeats == IF progress \/ ~repeated THEN 0 ELSE turn.repeats + 1
            d == Decide(progress, np, repeats, repairs, turn.setting)
<1>0. turn' = [turn EXCEPT !.facts = facts, !.noProgress = np, !.repeats = repeats, !.repairs = repairs,
                           !.decision = d]
  BY DEF Turn
<1>1. progress \in BOOLEAN
  BY DEF SemanticProgress
<1>2. /\ TurnShape /\ np \in Nat /\ repeats \in Nat /\ repairs \in Nat
      /\ progress => np = 0
      /\ ~progress => np = turn.noProgress + 1
      /\ np = turn.noProgress + 1 => ~progress
  <2>1. TurnShape
    BY DEF TurnInv
  <2>. HIDE DEF progress
  <2>. QED BY <1>1, <2>1 DEF TurnShape
<1>3. d.stage = StageOf(progress, np, repeats, repairs, turn.setting)
  <2>. HIDE DEF progress, np, repeats
  <2>. QED BY StageOfDecision
<1>. HIDE DEF progress, np, repeats, d
<1>4. /\ progress => d.stage = 0
      /\ ~progress => d.stage = StalledStage(np, repeats, repairs, turn.setting)
  BY <1>3, Zenon DEF StageOf
<1>5. /\ DOMAIN turn' = DOMAIN turn
      /\ turn'.setting = turn.setting /\ turn'.noProgress = np /\ turn'.repeats = repeats
      /\ turn'.repairs = repairs /\ turn'.decision = d
  BY <1>0, <1>2 DEF TurnShape
<1>6. TurnShape'
  BY <1>2, <1>5 DEF TurnShape
<1>7. DecidedBefore'
  <2>1. Before(turn.setting, turn.setting) /\ turn.setting \in Setting /\ turn.noProgress \in Nat
    BY <1>2 DEF TurnShape, Before
  <2>2. CASE progress
    BY <1>2, <1>4, <1>5, <2>2 DEF DecidedBefore
  <2>3. CASE ~progress
    <3>1. np >= 1 /\ d.stage = StalledStage(np, repeats, repairs, turn.setting)
      BY <1>2, <1>4, <2>1, <2>3
    <3>. QED BY <1>5, <2>1, <3>1 DEF DecidedBefore
  <2>. QED BY <2>2, <2>3
<1>. QED BY <1>2, <1>4, <1>5, <1>6, <1>7 DEF TurnInv

LEMMA ApprovalKept ==
    ASSUME TurnInv, ApproveStronger
    PROVE  TurnInv' /\ turn'.noProgress = turn.noProgress
<1>0. TurnShape /\ DecidedBefore
  BY DEF TurnInv
<1>1. turn' = [turn EXCEPT !.setting = [turn.setting EXCEPT !.strongerApproved = TRUE]]
  BY <1>0 DEF ApproveStronger, TurnShape
<1>2. /\ DOMAIN turn' = DOMAIN turn
      /\ turn'.setting = [turn.setting EXCEPT !.strongerApproved = TRUE]
      /\ turn'.noProgress = turn.noProgress /\ turn'.repeats = turn.repeats /\ turn'.repairs = turn.repairs
      /\ turn'.decision = turn.decision
  BY <1>0, <1>1 DEF TurnShape
<1>3. turn'.setting \in Setting /\ \A s : Before(s, turn.setting) => Before(s, turn'.setting)
  BY <1>0, <1>2 DEF TurnShape, Setting, Before
<1>4. TurnShape'
  BY <1>0, <1>2, <1>3 DEF TurnShape
<1>5. DecidedBefore'
  BY <1>0, <1>2, <1>3 DEF DecidedBefore
<1>. QED BY <1>2, <1>4, <1>5 DEF TurnInv

LEMMA TurnNextKept ==
    ASSUME TurnInv, [IntelligenceNext]_intelligenceVars
    PROVE  /\ TurnInv'
           /\ (turn'.noProgress = turn.noProgress + 1 /\ turn.decision # NoDecision) =>
                 /\ turn'.decision.stage >= turn.decision.stage
                 /\ turn'.noProgress >= 6 => turn'.decision.stage >= 6
<1>. DEFINE Escalates == (turn'.noProgress = turn.noProgress + 1 /\ turn.decision # NoDecision) =>
                 /\ turn'.decision.stage >= turn.decision.stage
                 /\ turn'.noProgress >= 6 => turn'.decision.stage >= 6
<1>0. TurnShape /\ turn.noProgress \in Nat
  BY DEF TurnInv, TurnShape
<1>1. CASE UNCHANGED turn
  <2>1. TurnInv'
    BY <1>1 DEF TurnInv, TurnShape, DecidedBefore
  <2>. QED BY <1>0, <1>1, <2>1
<1>2. ASSUME NEW facts \in SUBSET ProgressFacts, NEW repeated \in BOOLEAN, NEW repairs \in 0 .. turn.repairs,
             Turn(facts, repeated, repairs)
      PROVE  TurnInv' /\ Escalates
  <2>1. TurnInv'
    BY <1>2, TurnKept
  <2>2. ASSUME turn'.noProgress = turn.noProgress + 1, turn.decision # NoDecision
        PROVE  turn'.decision.stage >= turn.decision.stage /\ (turn'.noProgress >= 6 => turn'.decision.stage >= 6)
    <3>1. turn'.decision.stage = StalledStage(turn.noProgress + 1, turn'.repeats, repairs, turn.setting)
      BY <1>2, <2>2, TurnKept
    <3>2. turn'.repeats \in Nat /\ repairs \in Nat /\ repairs <= turn.repairs /\ turn.repeats \in Nat
          /\ turn.repairs \in Nat /\ turn.setting \in Setting
      BY <1>0, <2>1 DEF TurnInv, TurnShape
    <3>3. /\ StalledStage(turn.noProgress + 1, turn'.repeats, repairs, turn.setting) \in 1 .. 7
          /\ turn.noProgress + 1 >= 6 =>
                StalledStage(turn.noProgress + 1, turn'.repeats, repairs, turn.setting) >= 6
      BY <1>0, <3>2 DEF StalledStage
    <3>4. ASSUME turn.noProgress = 0, turn.decision.stage = 0
          PROVE  turn'.decision.stage >= turn.decision.stage
      BY <3>1, <3>3, <3>4
    <3>5. ASSUME NEW s \in Setting, turn.noProgress >= 1, Before(s, turn.setting),
                 turn.decision.stage = StalledStage(turn.noProgress, turn.repeats, turn.repairs, s)
          PROVE  turn'.decision.stage >= turn.decision.stage
      BY <1>0, <3>1, <3>2, <3>5, StageGrows
    <3>6. turn'.decision.stage >= turn.decision.stage
      <4>1. \/ turn.noProgress = 0 /\ turn.decision.stage = 0
            \/ \E s \in Setting :
                  /\ turn.noProgress >= 1 /\ Before(s, turn.setting)
                  /\ turn.decision.stage = StalledStage(turn.noProgress, turn.repeats, turn.repairs, s)
        BY <2>2 DEF TurnInv, DecidedBefore
      <4>2. CASE turn.noProgress = 0 /\ turn.decision.stage = 0
        BY <3>4, <4>2
      <4>3. ASSUME NEW s \in Setting, turn.noProgress >= 1 /\ Before(s, turn.setting),
                   turn.decision.stage = StalledStage(turn.noProgress, turn.repeats, turn.repairs, s)
            PROVE  turn'.decision.stage >= turn.decision.stage
        BY <3>5, <4>3
      <4>. QED BY <4>1, <4>2, <4>3
    <3>. QED BY <2>2, <3>1, <3>3, <3>6
  <2>. QED BY <2>1, <2>2
<1>3. CASE ApproveStronger
  <2>1. TurnInv' /\ turn'.noProgress = turn.noProgress
    BY <1>3, ApprovalKept
  <2>. QED BY <1>0, <2>1
<1>4. UNCHANGED turn \/ ApproveStronger \/ (\E facts \in SUBSET ProgressFacts, repeated \in BOOLEAN,
          repairs \in 0 .. turn.repairs : Turn(facts, repeated, repairs))
  BY DEF IntelligenceNext, RoutingNext, TurnNext, EvidenceNext, intelligenceVars, Route, ModelAnswers, RouteTick,
         Verify, Compact, CompactStep
<1>. QED BY <1>1, <1>2, <1>3, <1>4

(* As a stall goes on, the strategy only escalates.                              *)
THEOREM StallsEscalate == IntelligenceSpec => StallEscalates
<1>1. IntelligenceInit => TurnInv
  BY TurnStarts
<1>2. TurnInv /\ [IntelligenceNext]_intelligenceVars => TurnInv'
  BY TurnNextKept
<1>3. TurnInv /\ [IntelligenceNext]_intelligenceVars =>
         [(turn'.noProgress = turn.noProgress + 1 /\ turn.decision # NoDecision) =>
          /\ turn'.decision.stage >= turn.decision.stage
          /\ turn'.noProgress >= 6 => turn'.decision.stage >= 6]_turn
  BY TurnNextKept
<1>. QED BY <1>1, <1>2, <1>3, PTL DEF IntelligenceSpec, StallEscalates

(* The types of what is routed, decided and compacted.                           *)

HealthRecords == [state : {"closed", "open", "half_open"}, failures : 0 .. Threshold + 1,
                  openedAt : 0 .. MaxRouteTime]

RoutingTyped ==
    /\ health \in [DOMAIN Models -> HealthRecords]
    /\ inFlight \in [DOMAIN Models -> 0 .. MaxInFlight]
    /\ routeTime \in 0 .. MaxRouteTime

TurnTyped == TurnInv /\ turn.noProgress \in 0 .. MaxTurns /\ turn.facts \subseteq ProgressFacts

CompactionTyped ==
    \E a \in {"idle", "loop", "done"} : \E entries : compaction = [at |-> a, entries |-> entries]

DecisionsTyped == RoutingTyped /\ TurnTyped /\ CompactionTyped

LEMMA DecisionsTypedAtFirst == IntelligenceInit => DecisionsTyped
<1>. SUFFICES ASSUME IntelligenceInit PROVE DecisionsTyped
  OBVIOUS
<1>. USE IntelligenceAssumption DEF IntelligenceAssumption
<1>1. Threshold \in Nat /\ MaxRouteTime \in Nat /\ MaxInFlight \in Nat /\ MaxTurns \in Nat
  OBVIOUS
<1>2. RoutingTyped
  BY <1>1 DEF IntelligenceInit, RoutingTyped, HealthRecords
<1>3. TurnTyped
  BY <1>1, TurnStarts DEF IntelligenceInit, TurnTyped
<1>4. CompactionTyped
  BY DEF IntelligenceInit, CompactionTyped
<1>. QED BY <1>2, <1>3, <1>4 DEF DecisionsTyped

LEMMA AnswerTyped ==
    ASSUME RoutingTyped, NEW id \in DOMAIN Models, NEW ok \in BOOLEAN, ModelAnswers(id, ok)
    PROVE  RoutingTyped'
<1>1. Threshold \in Nat /\ MaxRouteTime \in Nat /\ MaxInFlight \in Nat
  BY IntelligenceAssumption DEF IntelligenceAssumption
<1>2. /\ health[id].state \in {"closed", "open", "half_open"} /\ health[id].failures \in 0 .. Threshold + 1
      /\ health[id].openedAt \in 0 .. MaxRouteTime /\ health[id].failures <= Threshold
      /\ health[id] = [state |-> health[id].state, failures |-> health[id].failures,
                       openedAt |-> health[id].openedAt]
      /\ routeTime \in 0 .. MaxRouteTime /\ routeTime' = routeTime
  BY DEF RoutingTyped, HealthRecords, ModelAnswers
<1>3. RecordSuccess(health[id]) \in HealthRecords
  <2>1. health[id] \in HealthRecords /\ 0 \in 0 .. Threshold + 1
    BY <1>1 DEF RoutingTyped
  <2>. QED BY <2>1 DEF RecordSuccess, HealthRecords
<1>4. RecordFailure(health[id]) \in HealthRecords
  <2>1. health[id].failures + 1 \in 0 .. Threshold + 1
    BY <1>1, <1>2
  <2>. QED BY <1>2, <2>1 DEF RecordFailure, HealthRecords
<1>5. health' = [health EXCEPT ![id] = IF ok THEN RecordSuccess(health[id]) ELSE RecordFailure(health[id])]
  BY DEF ModelAnswers
<1>6. health' \in [DOMAIN Models -> HealthRecords]
  BY <1>3, <1>4, <1>5 DEF RoutingTyped
<1>7. inFlight[id] - 1 \in 0 .. MaxInFlight
  BY <1>1 DEF ModelAnswers, RoutingTyped
<1>8. inFlight' \in [DOMAIN Models -> 0 .. MaxInFlight]
  BY <1>7 DEF ModelAnswers, RoutingTyped
<1>. QED BY <1>2, <1>6, <1>8 DEF RoutingTyped

LEMMA RouteTyped ==
    ASSUME RoutingTyped, NEW request, Route(request)
    PROVE  RoutingTyped'
<1>1. MaxInFlight \in Nat
  BY IntelligenceAssumption DEF IntelligenceAssumption
<1>2. PICK id \in Routed(request) : inFlight[id] < MaxInFlight /\ inFlight' = [inFlight EXCEPT ![id] = inFlight[id] + 1]
  BY DEF Route
<1>3. id \in DOMAIN Models
  BY <1>2 DEF Routed
<1>4. inFlight[id] + 1 \in 0 .. MaxInFlight
  BY <1>1, <1>2, <1>3 DEF RoutingTyped
<1>. QED BY <1>2, <1>3, <1>4 DEF Route, RoutingTyped

LEMMA DecisionsStayTyped == DecisionsTyped /\ [IntelligenceNext]_intelligenceVars => DecisionsTyped'
<1>. SUFFICES ASSUME DecisionsTyped, [IntelligenceNext]_intelligenceVars PROVE DecisionsTyped'
  OBVIOUS
<1>0. TurnInv /\ TurnInv' /\ RoutingTyped /\ TurnTyped /\ CompactionTyped
  BY TurnNextKept DEF DecisionsTyped, TurnTyped
<1>1. ASSUME UNCHANGED turn PROVE TurnTyped'
  BY <1>0, <1>1 DEF TurnTyped
<1>2. ASSUME UNCHANGED routeVars PROVE RoutingTyped'
  BY <1>0, <1>2 DEF RoutingTyped, routeVars
<1>3. ASSUME UNCHANGED compaction PROVE CompactionTyped'
  BY <1>0, <1>3 DEF CompactionTyped
<1>4. CASE UNCHANGED intelligenceVars
  BY <1>1, <1>2, <1>3, <1>4 DEF intelligenceVars, DecisionsTyped
<1>5. CASE RoutingNext
  <2>1. UNCHANGED <<turn, compaction>>
    BY <1>5 DEF RoutingNext, Route, ModelAnswers, RouteTick
  <2>2. CASE RouteTick
    <3>1. routeTime + 1 \in 0 .. MaxRouteTime
      BY <1>0, <2>2, IntelligenceAssumption DEF IntelligenceAssumption, RouteTick, RoutingTyped
    <3>. QED BY <1>0, <2>2, <3>1 DEF RouteTick, RoutingTyped, DecisionsTyped, TurnTyped, CompactionTyped
  <2>3. RoutingTyped'
    BY <1>0, <1>5, <2>2, AnswerTyped, RouteTyped DEF RoutingNext, DecisionsTyped
  <2>. QED BY <1>1, <1>3, <2>1, <2>3 DEF DecisionsTyped
<1>6. CASE TurnNext
  <2>1. UNCHANGED <<routeVars, compaction>>
    BY <1>6 DEF TurnNext, Turn, ApproveStronger
  <2>2. ASSUME NEW facts \in SUBSET ProgressFacts, NEW repeated \in BOOLEAN, NEW repairs, Turn(facts, repeated, repairs)
        PROVE  TurnTyped'
    <3>1. turn'.noProgress = 0 \/ turn'.noProgress = turn.noProgress + 1
      BY <1>0, <2>2 DEF Turn, TurnInv, TurnShape
    <3>2. turn'.facts = facts
      BY <1>0, <2>2 DEF Turn, TurnInv, TurnShape
    <3>3. MaxTurns \in Nat /\ turn.noProgress \in Nat /\ turn.noProgress < MaxTurns
      BY <1>0, <2>2, IntelligenceAssumption DEF IntelligenceAssumption, Turn, TurnInv, TurnShape
    <3>. QED BY <1>0, <3>1, <3>2, <3>3 DEF TurnTyped
  <2>3. ASSUME ApproveStronger PROVE TurnTyped'
    <3>1. turn'.noProgress = turn.noProgress /\ turn'.facts = turn.facts
      BY <1>0, <2>3 DEF ApproveStronger, TurnInv, TurnShape
    <3>. QED BY <1>0, <3>1 DEF TurnTyped
  <2>4. TurnTyped'
    BY <1>6, <2>2, <2>3 DEF TurnNext
  <2>. QED BY <1>2, <1>3, <2>1, <2>4 DEF DecisionsTyped
<1>7. CASE EvidenceNext
  <2>1. UNCHANGED <<routeVars, turn>>
    BY <1>7 DEF EvidenceNext, Verify, Compact, CompactStep
  <2>2. PICK a \in {"idle", "loop", "done"} : \E entries : compaction = [at |-> a, entries |-> entries]
    BY <1>0 DEF CompactionTyped
  <2>3. CompactionTyped'
    <3>1. CASE UNCHANGED compaction
      BY <1>3, <3>1
    <3>2. ASSUME NEW s, Compact(s) PROVE CompactionTyped'
      BY <3>2 DEF Compact, CompactionTyped
    <3>3. CASE CompactStep
      <4>1. \/ compaction' = [compaction EXCEPT !.entries = Shrunk(compaction.entries)]
            \/ compaction' = [compaction EXCEPT !.at = "done"]
        BY <3>3 DEF CompactStep
      <4>2. CASE compaction' = [compaction EXCEPT !.entries = Shrunk(compaction.entries)]
        BY <2>2, <4>2 DEF CompactionTyped
      <4>3. CASE compaction' = [compaction EXCEPT !.at = "done"]
        BY <2>2, <4>3 DEF CompactionTyped
      <4>. QED BY <4>1, <4>2, <4>3
    <3>. QED BY <1>7, <3>1, <3>2, <3>3 DEF EvidenceNext, Verify
  <2>. QED BY <1>1, <1>2, <2>1, <2>3 DEF DecisionsTyped
<1>. QED BY <1>4, <1>5, <1>6, <1>7 DEF IntelligenceNext

(* The values of what is routed, decided and compacted, for every set of models,  *)
(* requests and settings; failures pass the threshold by at most one.             *)
THEOREM IntelligenceTypeCorrect == IntelligenceSpec => []IntelligenceTypeOK
<1>1. DecisionsTyped => IntelligenceTypeOK
  <2>. SUFFICES ASSUME DecisionsTyped PROVE IntelligenceTypeOK
    OBVIOUS
  <2>1. \A m \in DOMAIN Models :
          /\ health[m].state \in {"closed", "open", "half_open"}
          /\ health[m].failures \in 0 .. Threshold + 1 /\ health[m].openedAt \in 0 .. MaxRouteTime
          /\ inFlight[m] \in 0 .. MaxInFlight
    BY DEF DecisionsTyped, RoutingTyped, HealthRecords
  <2>2. turn.noProgress \in 0 .. MaxTurns /\ turn.repairs >= 0 /\ turn.facts \subseteq ProgressFacts
    BY DEF DecisionsTyped, TurnTyped, TurnInv, TurnShape
  <2>3. compaction.at \in {"idle", "loop", "done"}
    BY DEF DecisionsTyped, CompactionTyped
  <2>. QED BY <2>1, <2>2, <2>3 DEF IntelligenceTypeOK, DecisionsTyped, RoutingTyped
<1>. QED BY <1>1, DecisionsTypedAtFirst, DecisionsStayTyped, PTL DEF IntelligenceSpec

-----------------------------------------------------------------------------
(* A list of the elements of another at chosen places (Totals): the k-th of    *)
(* them is at the place with k chosen places up to it.                         *)

UpTo(C, i) == {j \in C : j <= i}

\* The k-th element of the list kept is that at P[k].
KeptAt(s, C, P) ==
    LET m == Cardinality(C) IN
    /\ m \in Nat
    /\ P \in [1 .. m -> C]
    /\ Kept(s, C) = [k \in 1 .. m |-> s[P[k]]]
    /\ \A i \in C : \E k \in 1 .. m : P[k] = i
    /\ \A k, l \in 1 .. m : k < l => P[k] < P[l]

LEMMA KeptInOrder ==
    ASSUME NEW s, NEW n \in Nat, NEW C \in SUBSET (1 .. n)
    PROVE  \E P : KeptAt(s, C, P)
<1>. DEFINE m == Cardinality(C)
            rank == [i \in C |-> Cardinality(UpTo(C, i))]
            P == [k \in 1 .. m |-> CHOOSE i \in C : Cardinality({j \in C : j <= i}) = k]
<1>0. \A i \in C : i \in Nat
  OBVIOUS
<1>1. IsFiniteSet(C) /\ m \in Nat
  <2>1. IsFiniteSet(1 .. n)
    BY FS_Interval
  <2>2. IsFiniteSet(C)
    BY <2>1, FS_Subset
  <2>. QED BY <2>2, FS_CardinalityType
<1>2. \A i \in C : /\ UpTo(C, i) \in SUBSET C /\ IsFiniteSet(UpTo(C, i)) /\ i \in UpTo(C, i)
                   /\ Cardinality(UpTo(C, i)) \in 1 .. m
  <2>. SUFFICES ASSUME NEW i \in C
                PROVE  /\ UpTo(C, i) \in SUBSET C /\ IsFiniteSet(UpTo(C, i)) /\ i \in UpTo(C, i)
                       /\ Cardinality(UpTo(C, i)) \in 1 .. m
    OBVIOUS
  <2>1. UpTo(C, i) \in SUBSET C /\ i \in UpTo(C, i)
    BY <1>0 DEF UpTo
  <2>2. IsFiniteSet(UpTo(C, i)) /\ Cardinality(UpTo(C, i)) <= Cardinality(C)
    BY <1>1, <2>1, FS_Subset
  <2>3. Cardinality(UpTo(C, i)) \in Nat /\ Cardinality(UpTo(C, i)) # 0
    BY <2>1, <2>2, FS_CardinalityType, FS_EmptySet
  <2>. QED BY <1>1, <2>1, <2>2, <2>3
<1>3. \A i, j \in C : i < j => Cardinality(UpTo(C, i)) < Cardinality(UpTo(C, j))
  <2>. SUFFICES ASSUME NEW i \in C, NEW j \in C, i < j
                PROVE  Cardinality(UpTo(C, i)) < Cardinality(UpTo(C, j))
    OBVIOUS
  <2>1. UpTo(C, i) \in SUBSET UpTo(C, j) /\ j \in UpTo(C, j) /\ j \notin UpTo(C, i)
    <3>1. i \in Nat /\ j \in Nat
      BY <1>0
    <3>2. \A x \in C : x <= i => x <= j
      BY <1>0, <3>1
    <3>3. UpTo(C, i) \subseteq UpTo(C, j)
      BY <3>2 DEF UpTo
    <3>4. j \in UpTo(C, j) /\ j \notin UpTo(C, i)
      BY <3>1 DEF UpTo
    <3>. QED BY <3>3, <3>4
  <2>2. /\ Cardinality(UpTo(C, i)) <= Cardinality(UpTo(C, j))
        /\ (Cardinality(UpTo(C, j)) = Cardinality(UpTo(C, i)) => UpTo(C, j) = UpTo(C, i))
    BY <1>2, <2>1, FS_Subset
  <2>. QED BY <1>2, <2>1, <2>2
<1>4. \A i, j \in C : Cardinality(UpTo(C, i)) = Cardinality(UpTo(C, j)) => i = j
  <2>. SUFFICES ASSUME NEW i \in C, NEW j \in C, Cardinality(UpTo(C, i)) = Cardinality(UpTo(C, j)), i # j
                PROVE  FALSE
    OBVIOUS
  <2>1. i < j \/ j < i
    BY <1>0
  <2>. QED BY <1>2, <1>3, <2>1
<1>5. IsFiniteSet(1 .. m) /\ Cardinality(1 .. m) = m
  BY <1>1, FS_Interval
<1>6. rank \in Injection(C, 1 .. m)
  <2>1. rank \in [C -> 1 .. m] /\ \A i, j \in C : rank[i] = rank[j] => i = j
    BY <1>2, <1>4
  <2>. HIDE DEF rank
  <2>. QED BY <2>1 DEF Injection, IsInjective
<1>7. rank \in Surjection(C, 1 .. m)
  <2>. HIDE DEF rank
  <2>. QED BY <1>5, <1>6, FS_Injection
<1>8. \A k \in 1 .. m : \E i \in C : Cardinality(UpTo(C, i)) = k
  BY <1>7 DEF Surjection
<1>9. \A k \in 1 .. m : P[k] \in C /\ Cardinality(UpTo(C, P[k])) = k
  <2>. SUFFICES ASSUME NEW k \in 1 .. m PROVE P[k] \in C /\ Cardinality(UpTo(C, P[k])) = k
    OBVIOUS
  <2>1. P[k] = CHOOSE i \in C : Cardinality(UpTo(C, i)) = k
    BY DEF UpTo
  <2>. HIDE DEF P
  <2>. QED BY <1>8, <2>1
<1>10. P \in [1 .. m -> C]
  BY <1>9
<1>11. Kept(s, C) = [k \in 1 .. m |-> s[P[k]]]
  BY DEF Kept
<1>. HIDE DEF P
<1>12. \A i \in C : \E k \in 1 .. m : P[k] = i
  <2>. SUFFICES ASSUME NEW i \in C PROVE \E k \in 1 .. m : P[k] = i
    OBVIOUS
  <2>1. P[Cardinality(UpTo(C, i))] = i
    BY <1>2, <1>4, <1>9
  <2>. QED BY <1>2, <2>1
<1>13. \A k, l \in 1 .. m : k < l => P[k] < P[l]
  <2>. SUFFICES ASSUME NEW k \in 1 .. m, NEW l \in 1 .. m, k < l, ~(P[k] < P[l]) PROVE FALSE
    OBVIOUS
  <2>1. P[k] \in C /\ P[l] \in C /\ Cardinality(UpTo(C, P[k])) = k /\ Cardinality(UpTo(C, P[l])) = l
    BY <1>9
  <2>2. P[k] \in Nat /\ P[l] \in Nat /\ k \in Nat /\ l \in Nat
    <3>1. P[k] \in Nat /\ P[l] \in Nat
      BY <1>0, <2>1
    <3>2. k \in Nat /\ l \in Nat
      <4>. HIDE DEF m
      <4>. QED BY <1>1
    <3>. QED BY <3>1, <3>2
  <2>3. CASE P[l] < P[k]
    <3>1. Cardinality(UpTo(C, P[l])) < Cardinality(UpTo(C, P[k]))
      BY <1>3, <2>1, <2>3
    <3>. QED BY <2>1, <2>2, <3>1
  <2>4. CASE P[l] = P[k]
    BY <2>1, <2>2, <2>4
  <2>. QED BY <2>2, <2>3, <2>4
<1>. QED BY <1>1, <1>10, <1>11, <1>12, <1>13 DEF KeptAt

\* The list kept: its elements are those at the chosen places, in their order.
KeptSound(s, C, t) ==
    /\ Len(t) \in Nat /\ t = [k \in 1 .. Len(t) |-> t[k]]
    /\ \A k \in 1 .. Len(t) : \E i \in C : t[k] = s[i]
    /\ \A i \in C : \E k \in 1 .. Len(t) : t[k] = s[i]
    /\ \A k, l \in 1 .. Len(t) : k < l => \E i, j \in C : i < j /\ t[k] = s[i] /\ t[l] = s[j]

LEMMA KeptIsSound ==
    ASSUME NEW s, NEW n \in Nat, NEW C \in SUBSET (1 .. n)
    PROVE  KeptSound(s, C, Kept(s, C))
<1>1. PICK P : KeptAt(s, C, P)
  BY KeptInOrder
<1>. DEFINE t == Kept(s, C)
            m == Cardinality(C)
<1>2. m \in Nat /\ t = [k \in 1 .. m |-> s[P[k]]]
  BY <1>1 DEF KeptAt
<1>3. Len(t) = m /\ DOMAIN t = 1 .. m
  <2>. HIDE DEF t, m
  <2>. QED BY <1>2
<1>4. \A k \in 1 .. m : t[k] = s[P[k]] /\ P[k] \in C
  BY <1>1, <1>2 DEF KeptAt
<1>5. \A i \in C : \E k \in 1 .. m : P[k] = i
  BY <1>1 DEF KeptAt
<1>6. \A k, l \in 1 .. m : k < l => P[k] < P[l]
  BY <1>1 DEF KeptAt
<1>. HIDE DEF t, m
<1>7. t = [k \in 1 .. m |-> t[k]]
  BY <1>2, <1>3
<1>8. KeptSound(s, C, t)
  <2>1. \A k, l \in 1 .. m : k < l => \E i, j \in C : i < j /\ t[k] = s[i] /\ t[l] = s[j]
    BY <1>4, <1>6
  <2>2. \A i \in C : \E k \in 1 .. m : t[k] = s[i]
    <3>. SUFFICES ASSUME NEW i \in C PROVE \E k \in 1 .. m : t[k] = s[i]
      OBVIOUS
    <3>1. PICK k \in 1 .. m : P[k] = i
      BY <1>5
    <3>2. t[k] = s[i]
      BY <1>4, <3>1
    <3>. QED BY <3>2
  <2>3. \A k \in 1 .. m : \E i \in C : t[k] = s[i]
    BY <1>4
  <2>4. Len(t) \in Nat /\ 1 .. Len(t) = 1 .. m
    BY <1>2, <1>3
  <2>5. t = [k \in 1 .. Len(t) |-> t[k]]
    BY <1>7, <2>4
  <2>6. \A k \in 1 .. Len(t) : \E i \in C : t[k] = s[i]
    BY <1>3, <2>3
  <2>7. \A i \in C : \E k \in 1 .. Len(t) : t[k] = s[i]
    BY <1>3, <2>2
  <2>8. \A k, l \in 1 .. Len(t) : k < l => \E i, j \in C : i < j /\ t[k] = s[i] /\ t[l] = s[j]
    BY <1>3, <2>1
  <2>. QED BY <2>4, <2>5, <2>6, <2>7, <2>8, Zenon DEF KeptSound
<1>. QED BY <1>8 DEF t

-----------------------------------------------------------------------------
(* The research worker.  A crawl is breadth first: the depths in the frontier  *)
(* do not fall and span two levels, and no page visited is deeper than an      *)
(* entry.  So a page is visited at its smallest depth, and one that is found    *)
(* again deeper need not be followed again.  This holds of every checkpoint     *)
(* too, with what was lost before it.                                           *)

\* What a fetch may answer.
PageAnswers == {Failed} \cup {[ok |-> TRUE, final |-> u, bytes |-> Site[u].bytes] : u \in DOMAIN Site}

\* One more hop: what a url answers, when `before` says what the next one does.
Hop(hops, before) ==
    [url \in DOMAIN Site |->
        LET site == Site[url] IN
        IF ~ResolvedPublic(url) \/ site.answer = "error" THEN Failed
        ELSE IF site.answer = "redirect"
             THEN IF hops = 0 \/ site.location = NoUrl \/ ~Site[site.location].https THEN Failed
                  ELSE before[site.location]
        ELSE IF site.bytes > MaxBodyBytes \/ ~site.readable THEN Failed
        ELSE [ok |-> TRUE, final |-> url, bytes |-> site.bytes]]

LEMMA HopTyped ==
    ASSUME NEW hops, NEW before \in [DOMAIN Site -> PageAnswers]
    PROVE  Hop(hops, before) \in [DOMAIN Site -> PageAnswers]
<1>1. \A u \in DOMAIN Site : Site[u].location \in DOMAIN Site \/ Site[u].location = NoUrl
  BY ResearchAssumption DEF ResearchAssumption
<1>2. Failed \in PageAnswers /\ \A u \in DOMAIN Site : [ok |-> TRUE, final |-> u, bytes |-> Site[u].bytes] \in PageAnswers
  BY DEF PageAnswers
<1>3. \A u \in DOMAIN Site : Site[u].location # NoUrl => before[Site[u].location] \in PageAnswers
  BY <1>1
<1>. QED BY <1>2, <1>3 DEF Hop

LEMMA LastHop ==
    ASSUME NEW a, NEW b
    PROVE  Hop(0, a) = Hop(0, b)
  BY DEF Hop

LEMMA FetchedAnswers ==
    ASSUME NEW url \in DOMAIN Site
    PROVE  Fetched(url) \in PageAnswers
<1>. DEFINE N == MaxRedirects
            X == [DOMAIN Site -> PageAnswers]
            x0 == Hop(0, [u \in DOMAIN Site |-> Failed])
            G == [k \in Nat |-> [x \in X |-> Hop(k + 1, x)]]
            Equation(h) == h = [hops \in 0 .. N |-> Hop(hops, h[hops - 1])]
<1>1. N \in Nat
  BY ResearchAssumption DEF ResearchAssumption
<1>2. x0 \in X /\ G \in [Nat -> [X -> X]]
  <2>1. Failed \in PageAnswers
    BY DEF PageAnswers
  <2>2. [u \in DOMAIN Site |-> Failed] \in X
    BY <2>1
  <2>3. x0 \in X
    BY <2>2, HopTyped
  <2>4. \A k \in Nat, x \in X : Hop(k + 1, x) \in X
    BY HopTyped
  <2>. HIDE DEF X, x0
  <2>. QED BY <2>3, <2>4
<1>. HIDE DEF N, X, x0
<1>3. PICK f \in [Nat -> X] : f[0] = x0 /\ \A k \in Nat : f[k + 1] = G[k][f[k]]
  <2>. HIDE DEF G
  <2>1. Stepwise(X, x0, G)
    BY <1>2, RecursionOnNat, Zenon
  <2>. QED BY <2>1 DEF Stepwise
<1>4. \A n \in Nat : f[n + 1] = Hop(n + 1, f[n])
  BY <1>3
<1>. DEFINE g == [n \in 0 .. N |-> f[n]]
<1>5. Equation(g)
  <2>1. \A n \in 0 .. N : g[n] = Hop(n, g[n - 1])
    <3>. SUFFICES ASSUME NEW n \in 0 .. N PROVE g[n] = Hop(n, g[n - 1])
      OBVIOUS
    <3>1. CASE n = 0
      <4>1. g[n] = x0
        BY <1>3, <3>1
      <4>2. Hop(0, g[n - 1]) = x0
        BY LastHop DEF x0
      <4>. QED BY <3>1, <4>1, <4>2
    <3>2. CASE n # 0
      <4>1. n - 1 \in Nat /\ (n - 1) + 1 = n /\ n - 1 \in 0 .. N
        BY <1>1, <3>2
      <4>2. f[(n - 1) + 1] = Hop((n - 1) + 1, f[n - 1])
        BY <1>4, <4>1
      <4>. QED BY <4>1, <4>2
    <3>. QED BY <3>1, <3>2
  <2>2. g = [n \in 0 .. N |-> g[n]]
    OBVIOUS
  <2>. HIDE DEF g
  <2>. QED BY <2>1, <2>2
<1>. DEFINE W == CHOOSE h : Equation(h)
<1>6. Equation(W)
  <2>. HIDE DEF Equation, g
  <2>. QED BY <1>5
<1>7. FetchWithin = W
  BY DEF FetchWithin, Hop, N
<1>. HIDE DEF W
<1>8. \A n \in 0 .. N : W[n] = Hop(n, W[n - 1])
  BY <1>6
<1>9. \A n \in 0 .. N : W[n] \in X
  <2>. DEFINE S == {n \in Nat : n <= N => W[n] \in X}
  <2>1. 0 \in S
    <3>1. 0 \in 0 .. N
      BY <1>1
    <3>2. W[0] = x0
      BY <1>8, <3>1, LastHop DEF x0
    <3>. QED BY <1>2, <3>2
  <2>2. ASSUME NEW n \in Nat, n \in S PROVE n + 1 \in S
    <3>. SUFFICES ASSUME n + 1 <= N PROVE W[n + 1] \in X
      OBVIOUS
    <3>1. W[n] \in X /\ n + 1 \in 0 .. N /\ (n + 1) - 1 = n
      BY <1>1, <2>2
    <3>2. W[n + 1] = Hop(n + 1, W[n])
      BY <1>8, <3>1
    <3>3. Hop(n + 1, W[n]) \in X
      BY <3>1, HopTyped DEF X
    <3>. QED BY <3>2, <3>3
  <2>3. Nat \subseteq S
    <3>. HIDE DEF S
    <3>. QED BY <2>1, <2>2, CountingUp
  <2>. QED BY <1>1, <2>3
<1>10. W[N] \in X
  BY <1>1, <1>9
<1>. QED BY <1>7, <1>10 DEF Fetched, X, N

LEMMA FetchedPage ==
    ASSUME NEW url \in DOMAIN Site, Fetched(url).ok
    PROVE  Fetched(url).final \in DOMAIN Site
<1>1. Fetched(url) # Failed
  BY DEF Failed
<1>. QED BY <1>1, FetchedAnswers DEF PageAnswers

Entries == (DOMAIN Site) \X (0 .. MaxDepth)

LEMMA EntryParts ==
    /\ \A e \in Entries : e[1] \in DOMAIN Site /\ e[2] \in Nat /\ e[2] <= MaxDepth
    /\ \A u \in DOMAIN Site, d \in 0 .. MaxDepth :
          <<u, d>> \in Entries /\ <<u, d>>[1] = u /\ <<u, d>>[2] = d
<1>1. MaxDepth \in Nat
  BY ResearchAssumption DEF ResearchAssumption
<1>. QED BY <1>1 DEF Entries

\* Breadth first: the depths of a frontier do not fall, and they span two levels.
Levelled(F) ==
    /\ F \in Seq(Entries)
    /\ \A i, j \in DOMAIN F : i < j => F[i][2] <= F[j][2]
    /\ \A i, j \in DOMAIN F : F[j][2] <= F[i][2] + 1

\* t has the elements of s at the places C.
Has(t, s, C) ==
    /\ \A k \in DOMAIN t : \E i \in C : t[k] = s[i]
    /\ \A i \in C : \E k \in DOMAIN t : t[k] = s[i]

LEMMA KeptLevelled ==
    ASSUME NEW F, Levelled(F), NEW C \in SUBSET (DOMAIN F)
    PROVE  Levelled(Kept(F, C)) /\ Has(Kept(F, C), F, C)
<1>. DEFINE t == Kept(F, C)
<1>1. Len(F) \in Nat /\ DOMAIN F = 1 .. Len(F) /\ \A i \in DOMAIN F : F[i] \in Entries
  BY DEF Levelled
<1>2. KeptSound(F, C, t)
  BY <1>1, KeptIsSound
<1>. HIDE DEF t
<1>3. DOMAIN t = 1 .. Len(t) /\ Len(t) \in Nat
  BY <1>2 DEF KeptSound
<1>4. \A k \in DOMAIN t : \E i \in C : t[k] = F[i]
  BY <1>2, <1>3 DEF KeptSound
<1>5. \A i \in C : \E k \in DOMAIN t : t[k] = F[i]
  BY <1>2, <1>3 DEF KeptSound
<1>6. \A k, l \in DOMAIN t : k < l => \E i, j \in C : i < j /\ t[k] = F[i] /\ t[l] = F[j]
  BY <1>2, <1>3 DEF KeptSound
<1>7. t \in Seq(Entries)
  <2>1. \A k \in 1 .. Len(t) : t[k] \in Entries
    BY <1>1, <1>3, <1>4
  <2>2. t = [k \in 1 .. Len(t) |-> t[k]]
    BY <1>2 DEF KeptSound
  <2>. QED BY <1>3, <2>1, <2>2
<1>8. \A i, j \in DOMAIN t : i < j => t[i][2] <= t[j][2]
  <2>1. \A i, j \in C : i < j => F[i][2] <= F[j][2]
    BY DEF Levelled
  <2>. QED BY <1>6, <2>1
<1>9. \A i, j \in DOMAIN t : t[j][2] <= t[i][2] + 1
  <2>1. \A i, j \in C : F[j][2] <= F[i][2] + 1
    BY DEF Levelled
  <2>. QED BY <1>4, <2>1
<1>10. Levelled(t) /\ Has(t, F, C)
  BY <1>4, <1>5, <1>7, <1>8, <1>9 DEF Levelled, Has
<1>. QED BY <1>10 DEF t

LEMMA RestLevelled ==
    ASSUME NEW F, Levelled(F), F # <<>>
    PROVE  /\ Levelled(Rest(F)) /\ Has(Rest(F), F, {i \in DOMAIN F : F[i] # F[1]})
           /\ 1 \in DOMAIN F /\ NextUrl(F) = F[1]
<1>1. NextUrl(F) = F[1] /\ 1 \in DOMAIN F
  BY DEF Levelled, NextUrl
<1>2. Rest(F) = Kept(F, {i \in DOMAIN F : F[i] # F[1]})
  BY <1>1 DEF Rest
<1>. QED BY <1>1, <1>2, KeptLevelled

LEMMA DeduplicateLevelled ==
    ASSUME NEW F, Levelled(F)
    PROVE  Levelled(Deduplicate(F)) /\ Has(Deduplicate(F), F, DOMAIN F)
<1>. DEFINE C == {i \in DOMAIN F : \A j \in 1 .. i - 1 : F[j] # F[i]}
            t == Deduplicate(F)
<1>1. t = Kept(F, C)
  BY DEF Deduplicate
<1>2. C \in SUBSET (DOMAIN F)
  OBVIOUS
<1>3. \A i \in DOMAIN F : \E j \in C : F[j] = F[i]
  <2>. SUFFICES ASSUME NEW i \in DOMAIN F PROVE \E j \in C : F[j] = F[i]
    OBVIOUS
  <2>1. DOMAIN F = 1 .. Len(F) /\ Len(F) \in Nat
    BY DEF Levelled
  <2>. DEFINE T == {j \in DOMAIN F : F[j] = F[i]}
  <2>2. T \subseteq Nat /\ T # {}
    BY <2>1
  <2>3. PICK j \in T : \A k \in T : j <= k
    <3>. HIDE DEF T
    <3>. QED BY <2>2, LeastNumber
  <2>4. \A k \in 1 .. j - 1 : F[k] # F[j]
    <3>. SUFFICES ASSUME NEW k \in 1 .. j - 1, F[k] = F[j] PROVE FALSE
      OBVIOUS
    <3>1. j \in 1 .. Len(F) /\ F[j] = F[i]
      BY <2>1
    <3>2. k \in DOMAIN F /\ k \in Nat /\ ~(j <= k)
      BY <2>1, <3>1
    <3>. QED BY <2>3, <3>1, <3>2
  <2>. QED BY <2>4
<1>. HIDE DEF C, t
<1>4. Levelled(t) /\ Has(t, F, C)
  BY <1>1, <1>2, KeptLevelled
<1>. QED BY <1>2, <1>3, <1>4 DEF Has, t

\* Links found at depth d, one level down.
OneDown(new, d) == [i \in DOMAIN new |-> <<new[i], d + 1>>]

LEMMA AppendedLevelled ==
    ASSUME NEW F, Levelled(F), NEW d \in Nat, d < MaxDepth, NEW new \in Seq(DOMAIN Site),
           \A i \in DOMAIN F : d <= F[i][2] /\ F[i][2] <= d + 1
    PROVE  LET G == F \o OneDown(new, d) IN
           /\ Levelled(G)
           /\ \A i \in DOMAIN G : d <= G[i][2]
           /\ \A i \in DOMAIN F : i \in DOMAIN G /\ G[i] = F[i]
           /\ \A i \in DOMAIN new : \E k \in DOMAIN G : G[k][1] = new[i] /\ G[k][2] = d + 1
<1>. DEFINE N == OneDown(new, d)
            G == F \o N
<1>1. F \in Seq(Entries) /\ Len(F) \in Nat /\ DOMAIN F = 1 .. Len(F)
  BY DEF Levelled
<1>2. Len(new) \in Nat /\ DOMAIN new = 1 .. Len(new) /\ \A i \in DOMAIN new : new[i] \in DOMAIN Site
  OBVIOUS
<1>3. \A i \in DOMAIN new : /\ N[i] \in Entries /\ N[i][1] = new[i] /\ N[i][2] = d + 1
  <2>1. d + 1 \in 0 .. MaxDepth
    BY ResearchAssumption DEF ResearchAssumption
  <2>2. \A i \in DOMAIN new : N[i] = <<new[i], d + 1>>
    BY DEF OneDown
  <2>3. \A i \in DOMAIN new : LET e == <<new[i], d + 1>> IN e \in Entries /\ e[1] = new[i] /\ e[2] = d + 1
    BY <1>2, <2>1, EntryParts
  <2>. HIDE DEF N
  <2>. QED BY <2>2, <2>3
<1>4. N \in Seq(Entries) /\ Len(N) = Len(new)
  <2>1. N = [i \in 1 .. Len(new) |-> N[i]]
    BY <1>2 DEF OneDown
  <2>2. \A i \in 1 .. Len(new) : N[i] \in Entries
    BY <1>2, <1>3
  <2>. HIDE DEF N
  <2>. QED BY <1>2, <2>1, <2>2
<1>. HIDE DEF N
<1>5. /\ G \in Seq(Entries) /\ Len(G) = Len(F) + Len(new) /\ DOMAIN G = 1 .. Len(F) + Len(new)
      /\ \A i \in 1 .. Len(F) : G[i] = F[i]
      /\ \A i \in 1 .. Len(new) : G[Len(F) + i] = N[i]
  <2>0. F \in Seq(Entries) /\ N \in Seq(Entries)
    BY <1>1, <1>4
  <2>1. G \in Seq(Entries) /\ Len(G) = Len(F) + Len(N)
    <3>1. Len(G) = Len(F) + Len(N)
      BY <2>0
    <3>2. G \in Seq(Entries)
      BY <2>0
    <3>. QED BY <3>1, <3>2
  <2>2. \A i \in 1 .. Len(F) + Len(N) : G[i] = IF i <= Len(F) THEN F[i] ELSE N[i - Len(F)]
    BY <1>1, <1>4
  <2>. HIDE DEF G
  <2>3. DOMAIN G = 1 .. Len(F) + Len(new)
    BY <1>4, <2>1
  <2>4. \A i \in 1 .. Len(F) : G[i] = F[i]
    BY <1>1, <1>2, <1>4, <2>2
  <2>5. \A i \in 1 .. Len(new) : G[Len(F) + i] = N[i]
    <3>. SUFFICES ASSUME NEW i \in 1 .. Len(new) PROVE G[Len(F) + i] = N[i]
      OBVIOUS
    <3>1. Len(F) + i \in 1 .. Len(F) + Len(N) /\ ~(Len(F) + i <= Len(F)) /\ (Len(F) + i) - Len(F) = i
      BY <1>1, <1>2, <1>4
    <3>. QED BY <2>2, <3>1
  <2>. QED BY <1>4, <2>1, <2>3, <2>4, <2>5
<1>. HIDE DEF G
<1>6. \A i \in DOMAIN G : \/ i \in DOMAIN F /\ G[i] = F[i]
                          \/ i - Len(F) \in DOMAIN new /\ ~(i <= Len(F)) /\ G[i] = N[i - Len(F)]
  <2>. SUFFICES ASSUME NEW i \in DOMAIN G
                PROVE  \/ i \in DOMAIN F /\ G[i] = F[i]
                       \/ i - Len(F) \in DOMAIN new /\ ~(i <= Len(F)) /\ G[i] = N[i - Len(F)]
    OBVIOUS
  <2>1. CASE i <= Len(F)
    BY <1>1, <1>5, <2>1
  <2>2. CASE ~(i <= Len(F))
    <3>1. i - Len(F) \in 1 .. Len(new) /\ Len(F) + (i - Len(F)) = i
      BY <1>1, <1>2, <1>5, <2>2
    <3>2. G[Len(F) + (i - Len(F))] = N[i - Len(F)]
      BY <1>5, <3>1
    <3>. QED BY <1>2, <2>2, <3>1, <3>2
  <2>. QED BY <2>1, <2>2
<1>7. \A i \in DOMAIN G : G[i][2] \in Nat /\ d <= G[i][2] /\ G[i][2] <= d + 1
  <2>1. \A i \in DOMAIN F : F[i][2] \in Nat
    BY <1>1, EntryParts
  <2>. QED BY <1>3, <1>6, <2>1
<1>8. \A i, j \in DOMAIN G : i < j => G[i][2] <= G[j][2]
  <2>. SUFFICES ASSUME NEW i \in DOMAIN G, NEW j \in DOMAIN G, i < j PROVE G[i][2] <= G[j][2]
    OBVIOUS
  <2>1. CASE j \in DOMAIN F /\ G[j] = F[j]
    <3>1. i \in DOMAIN F /\ G[i] = F[i]
      BY <1>1, <1>5, <2>1
    <3>. QED BY <2>1, <3>1 DEF Levelled
  <2>2. CASE j - Len(F) \in DOMAIN new /\ G[j] = N[j - Len(F)]
    <3>1. G[j][2] = d + 1
      BY <1>3, <2>2
    <3>. QED BY <1>7, <3>1
  <2>. QED BY <1>6, <2>1, <2>2
<1>9. Levelled(G)
  <2>1. \A i, j \in DOMAIN G : G[j][2] <= G[i][2] + 1
    BY <1>7
  <2>. QED BY <1>5, <1>8, <2>1 DEF Levelled
<1>10. \A i \in DOMAIN F : i \in DOMAIN G /\ G[i] = F[i]
  BY <1>1, <1>2, <1>5
<1>11. \A i \in DOMAIN new : \E k \in DOMAIN G : G[k][1] = new[i] /\ G[k][2] = d + 1
  <2>. SUFFICES ASSUME NEW i \in DOMAIN new PROVE \E k \in DOMAIN G : G[k][1] = new[i] /\ G[k][2] = d + 1
    OBVIOUS
  <2>1. Len(F) + i \in DOMAIN G /\ G[Len(F) + i] = N[i]
    BY <1>1, <1>2, <1>5
  <2>. QED BY <1>3, <2>1
<1>. QED BY <1>7, <1>9, <1>10, <1>11 DEF G, N

\* What a page links to.
LEMMA LinksTyped ==
    ASSUME links \in LinkGraphs, NEW page, page.final \in DOMAIN Site
    PROVE  LinksOf(page) \in Seq((DOMAIN Site) \cup {NoUrl})
<1>1. links[page.final] \in Seq(DOMAIN Canonical)
  BY ResearchAssumption DEF ResearchAssumption
<1>2. \A w \in DOMAIN Canonical : Canonical[w] \in (DOMAIN Site) \cup {NoUrl}
  BY ResearchAssumption DEF ResearchAssumption
<1>. QED BY <1>1, <1>2 DEF LinksOf

LEMMA NewLinksFound ==
    ASSUME links \in LinkGraphs, NEW page, page.final \in DOMAIN Site, NEW handled
    PROVE  LET new == NewLinks(page, handled)
               found == LinksOf(page)
           IN /\ new \in Seq(DOMAIN Site)
              /\ \A i \in DOMAIN found : found[i] # NoUrl /\ SameHost(found[i]) /\ found[i] \notin handled =>
                    \E k \in DOMAIN new : new[k] = found[i]
<1>. DEFINE found == LinksOf(page)
            C == {i \in DOMAIN found : found[i] # NoUrl /\ SameHost(found[i]) /\ found[i] \notin handled}
            new == NewLinks(page, handled)
<1>1. found \in Seq((DOMAIN Site) \cup {NoUrl})
  BY LinksTyped
<1>2. new = Kept(found, C)
  BY DEF NewLinks
<1>3. Len(found) \in Nat /\ C \in SUBSET (1 .. Len(found))
  <2>1. DOMAIN found = 1 .. Len(found) /\ Len(found) \in Nat
    <3>. HIDE DEF found
    <3>. QED BY <1>1
  <2>. HIDE DEF found
  <2>. QED BY <2>1
<1>4. \A i \in C : found[i] \in DOMAIN Site
  <2>. HIDE DEF found
  <2>. QED BY <1>1
<1>5. \A i \in DOMAIN found : found[i] # NoUrl /\ SameHost(found[i]) /\ found[i] \notin handled => i \in C
  OBVIOUS
<1>. HIDE DEF found, C, new
<1>6. KeptSound(found, C, new)
  BY <1>2, <1>3, KeptIsSound
<1>7. new \in Seq(DOMAIN Site)
  <2>1. \A k \in 1 .. Len(new) : new[k] \in DOMAIN Site
    BY <1>4, <1>6 DEF KeptSound
  <2>2. new = [k \in 1 .. Len(new) |-> new[k]] /\ Len(new) \in Nat
    BY <1>6 DEF KeptSound
  <2>. QED BY <2>1, <2>2
<1>8. \A i \in C : \E k \in DOMAIN new : new[k] = found[i]
  <2>1. DOMAIN new = 1 .. Len(new)
    BY <1>7
  <2>. QED BY <1>6, <2>1 DEF KeptSound
<1>. QED BY <1>5, <1>7, <1>8 DEF found, new

\* The frontier after a page at depth d: the entries it had, and what is linked and new.
IsExtended(t, F, found, handled, d) ==
    /\ Levelled(t)
    /\ \A i \in DOMAIN t : d <= t[i][2]
    /\ \A i \in DOMAIN F : \E k \in DOMAIN t : t[k] = F[i]
    /\ d < MaxDepth => \A i \in DOMAIN found :
          found[i] # NoUrl /\ SameHost(found[i]) /\ found[i] \notin handled =>
              \E k \in DOMAIN t : t[k][1] = found[i] /\ t[k][2] = d + 1

LEMMA ExtendedLevelled ==
    ASSUME links \in LinkGraphs, NEW page, page.final \in DOMAIN Site, NEW handled,
           NEW F, Levelled(F), NEW d \in Nat,
           \A i \in DOMAIN F : d <= F[i][2] /\ F[i][2] <= d + 1
    PROVE  IsExtended(Extended(F, page, d, handled), F, LinksOf(page), handled, d)
<1>. DEFINE t == Extended(F, page, d, handled)
            found == LinksOf(page)
            new == NewLinks(page, handled)
            G == F \o OneDown(new, d)
<1>0. MaxDepth \in Nat
  BY ResearchAssumption DEF ResearchAssumption
<1>1. CASE d >= MaxDepth
  <2>1. t = F /\ ~(d < MaxDepth)
    BY <1>0, <1>1 DEF Extended
  <2>. HIDE DEF t
  <2>2. Levelled(t) /\ (\A i \in DOMAIN t : d <= t[i][2]) /\ \A i \in DOMAIN F : \E k \in DOMAIN t : t[k] = F[i]
    BY <2>1
  <2>3. IsExtended(t, F, found, handled, d)
    BY <2>1, <2>2 DEF IsExtended
  <2>. QED BY <2>3 DEF t
<1>2. CASE ~(d >= MaxDepth)
  <2>1. d < MaxDepth /\ t = Deduplicate(G)
    BY <1>0, <1>2 DEF Extended, OneDown
  <2>2. /\ new \in Seq(DOMAIN Site)
        /\ \A i \in DOMAIN found : found[i] # NoUrl /\ SameHost(found[i]) /\ found[i] \notin handled =>
               \E k \in DOMAIN new : new[k] = found[i]
    BY NewLinksFound
  <2>3. /\ Levelled(G)
        /\ \A i \in DOMAIN G : d <= G[i][2]
        /\ \A i \in DOMAIN F : i \in DOMAIN G /\ G[i] = F[i]
        /\ \A i \in DOMAIN new : \E k \in DOMAIN G : G[k][1] = new[i] /\ G[k][2] = d + 1
    <3>. HIDE DEF new
    <3>. QED BY <2>1, <2>2, AppendedLevelled
  <2>. HIDE DEF t, G, found, new
  <2>4. Levelled(t) /\ Has(t, G, DOMAIN G)
    BY <2>1, <2>3, DeduplicateLevelled
  <2>5. \A i \in DOMAIN t : d <= t[i][2]
    BY <2>3, <2>4 DEF Has
  <2>6. \A i \in DOMAIN F : \E k \in DOMAIN t : t[k] = F[i]
    <3>. SUFFICES ASSUME NEW i \in DOMAIN F PROVE \E k \in DOMAIN t : t[k] = F[i]
      OBVIOUS
    <3>1. i \in DOMAIN G /\ G[i] = F[i]
      BY <2>3
    <3>. QED BY <2>4, <3>1 DEF Has
  <2>7. \A i \in DOMAIN found : found[i] # NoUrl /\ SameHost(found[i]) /\ found[i] \notin handled =>
            \E k \in DOMAIN t : t[k][1] = found[i] /\ t[k][2] = d + 1
    <3>. SUFFICES ASSUME NEW i \in DOMAIN found,
                         found[i] # NoUrl, SameHost(found[i]), found[i] \notin handled
                  PROVE  \E k \in DOMAIN t : t[k][1] = found[i] /\ t[k][2] = d + 1
      BY Zenon
    <3>1. PICK j \in DOMAIN new : new[j] = found[i]
      BY <2>2
    <3>2. PICK l \in DOMAIN G : G[l][1] = new[j] /\ G[l][2] = d + 1
      BY <2>3
    <3>3. PICK k \in DOMAIN t : t[k] = G[l]
      BY <2>4 DEF Has
    <3>. QED BY <3>1, <3>2, <3>3
  <2>8. IsExtended(t, F, found, handled, d)
    BY <2>4, <2>5, <2>6, <2>7 DEF IsExtended
  <2>. QED BY <2>8 DEF t, found
<1>. QED BY <1>1, <1>2

Due(u) == u # NoUrl /\ SameHost(u) /\ Site[u].allowed

LinkedFrom(g, v) == {Canonical[g[Fetched(v).final][i]] : i \in DOMAIN g[Fetched(v).final]} \ {NoUrl}

\* A url is in the frontier, visited or lost no deeper than d, or nothing to visit.
ReachedBy(F, V, L, dist, u, d) ==
    \/ ~Due(u)
    \/ u \in L
    \/ u \in V /\ dist[u] <= d
    \/ \E i \in DOMAIN F : F[i][1] = u /\ F[i][2] <= d

\* Everything linked from the pages visited, above the limit, was reached one level down.
ExploredAt(g, F, V, L, dist) ==
    /\ Levelled(F)
    /\ dist \in [DOMAIN Site -> Nat]
    /\ V \subseteq DOMAIN Site
    /\ \A v \in V : Fetched(v).ok
    /\ \A v \in V, i \in DOMAIN F : dist[v] <= F[i][2]
    /\ ReachedBy(F, V, L, dist, Seed, 0)
    /\ \A v \in V : dist[v] < MaxDepth =>
          \A u \in LinkedFrom(g, v) : ReachedBy(F, V, L, dist, u, dist[v] + 1)

Explored(g, F, V, L) == \E dist \in [DOMAIN Site -> Nat] : ExploredAt(g, F, V, L, dist)

HandledFor(H, V) == V \subseteq H /\ \A u \in H \ V : ~Due(u)

LEMMA LinkedHere ==
    ASSUME NEW v
    PROVE  /\ ToSet(LinksOf(Fetched(v))) \ {NoUrl} = LinkedFrom(links, v)
           /\ \A u \in LinkedFrom(links, v) : u # NoUrl /\ \E i \in DOMAIN LinksOf(Fetched(v)) : LinksOf(Fetched(v))[i] = u
<1>. DEFINE ls == links[Fetched(v).final]
            found == LinksOf(Fetched(v))
<1>1. found = [i \in DOMAIN ls |-> Canonical[ls[i]]]
  BY DEF LinksOf
<1>2. LinkedFrom(links, v) = {Canonical[ls[i]] : i \in DOMAIN ls} \ {NoUrl}
  BY DEF LinkedFrom
<1>. HIDE DEF ls, found
<1>3. {Canonical[ls[i]] : i \in DOMAIN ls} = {found[i] : i \in DOMAIN found}
  BY <1>1
<1>4. LinkedFrom(links, v) = {found[i] : i \in DOMAIN found} \ {NoUrl}
  BY <1>2, <1>3, Zenon
<1>5. \A u \in LinkedFrom(links, v) : u # NoUrl /\ \E i \in DOMAIN found : found[i] = u
  BY <1>4
<1>6. ToSet(found) = {found[i] : i \in DOMAIN found}
  BY Zenon DEF ToSet
<1>. QED BY <1>4, <1>5, <1>6 DEF found

\* Only the seed is known.
LEMMA SeedExplored ==
    ASSUME NEW g
    PROVE  Explored(g, <<<<Seed, 0>>>>, {}, {})
<1>. DEFINE F == <<<<Seed, 0>>>>
            dist == [u \in DOMAIN Site |-> 0]
<1>1. <<Seed, 0>> \in Entries
  BY ResearchAssumption, EntryParts DEF ResearchAssumption
<1>2. F \in Seq(Entries) /\ DOMAIN F = {1} /\ F[1][1] = Seed /\ F[1][2] = 0
  BY <1>1
<1>. HIDE DEF F
<1>3. Levelled(F)
  BY <1>2 DEF Levelled
<1>4. dist \in [DOMAIN Site -> Nat]
  OBVIOUS
<1>. HIDE DEF dist
<1>5. ReachedBy(F, {}, {}, dist, Seed, 0)
  BY <1>2 DEF ReachedBy
<1>6. ExploredAt(g, F, {}, {}, dist)
  BY <1>3, <1>4, <1>5 DEF ExploredAt
<1>. QED BY <1>4, <1>6 DEF Explored, F

\* What is known of a url does not get lost when entries leave the frontier that were
\* visited at their depth, or need not be.
LEMMA StaysReached ==
    ASSUME NEW F, NEW V, NEW L, NEW dist, NEW t, NEW W, NEW M, NEW e, NEW u, NEW d,
           ReachedBy(F, V, L, dist, u, d), Levelled(F), d \in Nat,
           L \subseteq M,
           \A v \in V : v \in W /\ e[v] = dist[v],
           \A i \in DOMAIN F : \/ \E k \in DOMAIN t : t[k] = F[i]
                               \/ ~Due(F[i][1]) \/ F[i][1] \in M
                               \/ F[i][1] \in W /\ e[F[i][1]] \in Nat /\ e[F[i][1]] <= F[i][2]
    PROVE  ReachedBy(t, W, M, e, u, d)
<1>1. CASE ~Due(u) \/ u \in L \/ (u \in V /\ dist[u] <= d)
  BY <1>1 DEF ReachedBy
<1>2. ASSUME NEW i \in DOMAIN F, F[i][1] = u, F[i][2] <= d
      PROVE  ReachedBy(t, W, M, e, u, d)
  <2>1. F[i][2] \in Nat
    BY EntryParts DEF Levelled
  <2>2. CASE \E k \in DOMAIN t : t[k] = F[i]
    BY <1>2, <2>2 DEF ReachedBy
  <2>3. CASE ~Due(F[i][1]) \/ F[i][1] \in M
    BY <1>2, <2>3 DEF ReachedBy
  <2>4. CASE F[i][1] \in W /\ e[F[i][1]] \in Nat /\ e[F[i][1]] <= F[i][2]
    <3>1. e[u] <= d /\ u \in W
      BY <1>2, <2>1, <2>4
    <3>. QED BY <3>1 DEF ReachedBy
  <2>. QED BY <2>2, <2>3, <2>4
<1>. QED BY <1>1, <1>2 DEF ReachedBy

\* The head of the frontier may go when it was visited, is lost, or is not to be visited.
LEMMA HeadDropped ==
    ASSUME NEW g, NEW F, NEW V, NEW L, NEW M, Explored(g, F, V, L), F # <<>>,
           L \subseteq M, ~Due(F[1][1]) \/ F[1][1] \in V \/ F[1][1] \in M
    PROVE  Explored(g, Rest(F), V, M)
<1>. DEFINE t == Rest(F)
<1>1. PICK dist \in [DOMAIN Site -> Nat] : ExploredAt(g, F, V, L, dist)
  BY DEF Explored
<1>2. Levelled(F) /\ V \subseteq DOMAIN Site
  BY <1>1 DEF ExploredAt
<1>3. /\ Levelled(t) /\ Has(t, F, {i \in DOMAIN F : F[i] # F[1]}) /\ 1 \in DOMAIN F
  BY <1>2, RestLevelled
<1>. HIDE DEF t
<1>4. \A i \in DOMAIN F : \/ \E k \in DOMAIN t : t[k] = F[i]
                          \/ ~Due(F[i][1]) \/ F[i][1] \in M
                          \/ F[i][1] \in V /\ dist[F[i][1]] \in Nat /\ dist[F[i][1]] <= F[i][2]
  <2>. SUFFICES ASSUME NEW i \in DOMAIN F, \A k \in DOMAIN t : t[k] # F[i], Due(F[i][1]), F[i][1] \notin M
                PROVE  F[i][1] \in V /\ dist[F[i][1]] \in Nat /\ dist[F[i][1]] <= F[i][2]
    BY Zenon
  <2>1. F[i] = F[1]
    BY <1>3 DEF Has
  <2>2. F[i][1] \in V
    BY <2>1
  <2>3. dist[F[i][1]] \in Nat
    BY <1>2, <2>2
  <2>4. dist[F[i][1]] <= F[i][2]
    BY <1>1, <2>2 DEF ExploredAt
  <2>. QED BY <2>2, <2>3, <2>4
<1>5. \A u : \A d \in Nat : ReachedBy(F, V, L, dist, u, d) => ReachedBy(t, V, M, dist, u, d)
  BY <1>2, <1>4, StaysReached
<1>6. \A v \in V, k \in DOMAIN t : dist[v] <= t[k][2]
  <2>1. \A v \in V, i \in DOMAIN F : dist[v] <= F[i][2]
    BY <1>1 DEF ExploredAt
  <2>. QED BY <1>3, <2>1 DEF Has
<1>7. ReachedBy(t, V, M, dist, Seed, 0)
  BY <1>1, <1>5 DEF ExploredAt
<1>8. \A v \in V : dist[v] < MaxDepth => \A u \in LinkedFrom(g, v) : ReachedBy(t, V, M, dist, u, dist[v] + 1)
  <2>. SUFFICES ASSUME NEW v \in V, dist[v] < MaxDepth, NEW u \in LinkedFrom(g, v)
                PROVE  ReachedBy(t, V, M, dist, u, dist[v] + 1)
    OBVIOUS
  <2>1. dist[v] + 1 \in Nat
    BY <1>2
  <2>2. ReachedBy(F, V, L, dist, u, dist[v] + 1)
    BY <1>1 DEF ExploredAt
  <2>. QED BY <1>5, <2>1, <2>2
<1>9. ExploredAt(g, t, V, M, dist)
  BY <1>1, <1>3, <1>6, <1>7, <1>8 DEF ExploredAt
<1>. QED BY <1>9 DEF Explored, t

\* A page of the head's url is visited at the head's depth, and its links are entered
\* one level down.
LEMMA PageVisited ==
    ASSUME links \in LinkGraphs, NEW F, NEW V, NEW L, NEW H, Explored(links, F, V, L), F # <<>>,
           HandledFor(H, V), F[1][1] \notin H, Fetched(F[1][1]).ok
    PROVE  Explored(links, Extended(Rest(F), Fetched(F[1][1]), F[1][2], H \cup {F[1][1]}),
                    V \cup {F[1][1]}, L)
<1>. DEFINE url == F[1][1]
            depth == F[1][2]
            page == Fetched(url)
            r == Rest(F)
            W == V \cup {url}
            K == H \cup {url}
            t == Extended(r, page, depth, K)
            found == LinksOf(page)
<1>1. PICK dist \in [DOMAIN Site -> Nat] : ExploredAt(links, F, V, L, dist)
  BY DEF Explored
<1>2. Levelled(F) /\ V \subseteq DOMAIN Site
  BY <1>1 DEF ExploredAt
<1>3. Levelled(r) /\ Has(r, F, {i \in DOMAIN F : F[i] # F[1]}) /\ 1 \in DOMAIN F
  BY <1>2, RestLevelled
<1>4. F[1] \in Entries /\ url \in DOMAIN Site /\ depth \in Nat
  <2>1. F[1] \in Entries
    BY <1>2, <1>3 DEF Levelled
  <2>. QED BY <2>1, EntryParts
<1>5. \A i \in DOMAIN F : F[i][2] \in Nat /\ depth <= F[i][2] /\ F[i][2] <= depth + 1
  <2>. SUFFICES ASSUME NEW i \in DOMAIN F PROVE F[i][2] \in Nat /\ depth <= F[i][2] /\ F[i][2] <= depth + 1
    OBVIOUS
  <2>1. F[i][2] \in Nat /\ i \in Nat /\ ~(i < 1)
    BY <1>2, EntryParts DEF Levelled
  <2>2. F[i][2] <= depth + 1
    BY <1>2, <1>3 DEF Levelled
  <2>3. CASE i = 1
    BY <1>4, <2>1, <2>2, <2>3
  <2>4. CASE 1 < i
    <3>1. F[1][2] <= F[i][2]
      BY <1>2, <1>3, <2>4 DEF Levelled
    <3>. QED BY <2>1, <2>2, <3>1
  <2>. QED BY <2>1, <2>3, <2>4
<1>6. \A i \in DOMAIN r : depth <= r[i][2] /\ r[i][2] <= depth + 1
  BY <1>3, <1>5 DEF Has
<1>7. page.final \in DOMAIN Site
  BY <1>4, FetchedPage
<1>. HIDE DEF r, page, url, depth, K
<1>8. IsExtended(t, r, found, K, depth)
  BY <1>3, <1>4, <1>6, <1>7, ExtendedLevelled
<1>9. \A u \in LinkedFrom(links, url) : u # NoUrl /\ \E i \in DOMAIN found : found[i] = u
  BY LinkedHere DEF page
<1>. HIDE DEF t, found, W
<1>. DEFINE e == [dist EXCEPT ![url] = depth]
<1>10. /\ e \in [DOMAIN Site -> Nat] /\ e[url] = depth /\ url \notin V
       /\ \A v \in V : v # url /\ e[v] = dist[v]
  <2>1. url \notin V
    BY DEF HandledFor, url
  <2>. QED BY <1>2, <1>4, <2>1
<1>. HIDE DEF e
<1>11. \A v \in W : v \in V \/ v = url
  BY DEF W
<1>12. url \in W /\ \A v \in V : v \in W
  BY DEF W
<1>13. \A i \in DOMAIN F : \/ \E k \in DOMAIN t : t[k] = F[i]
                           \/ ~Due(F[i][1]) \/ F[i][1] \in L
                           \/ F[i][1] \in W /\ e[F[i][1]] \in Nat /\ e[F[i][1]] <= F[i][2]
  <2>. SUFFICES ASSUME NEW i \in DOMAIN F, \A k \in DOMAIN t : t[k] # F[i]
                PROVE  F[i][1] \in W /\ e[F[i][1]] \in Nat /\ e[F[i][1]] <= F[i][2]
    BY Zenon
  <2>1. F[i] = F[1]
    BY <1>3, <1>8 DEF Has, IsExtended
  <2>2. F[i][1] = url /\ F[i][2] = depth
    BY <2>1 DEF url, depth
  <2>. QED BY <1>4, <1>10, <1>12, <2>2
<1>14. \A u : \A d \in Nat : ReachedBy(F, V, L, dist, u, d) => ReachedBy(t, W, L, e, u, d)
  <2>1. \A v \in V : v \in W /\ e[v] = dist[v]
    BY <1>10, <1>12
  <2>. QED BY <1>2, <1>13, <2>1, StaysReached
<1>15. \A v \in V : dist[v] <= depth
  <2>1. \A v \in V, i \in DOMAIN F : dist[v] <= F[i][2]
    BY <1>1 DEF ExploredAt
  <2>. QED BY <1>3, <2>1 DEF depth
<1>16. \A v \in W, k \in DOMAIN t : e[v] <= t[k][2]
  <2>. SUFFICES ASSUME NEW v \in W, NEW k \in DOMAIN t PROVE e[v] <= t[k][2]
    OBVIOUS
  <2>1. e[v] \in Nat /\ e[v] <= depth
    BY <1>2, <1>4, <1>10, <1>11, <1>15
  <2>2. t[k][2] \in Nat /\ depth <= t[k][2]
    BY <1>8, EntryParts DEF Levelled, IsExtended
  <2>. QED BY <1>4, <2>1, <2>2
<1>17. ReachedBy(t, W, L, e, Seed, 0)
  BY <1>1, <1>14 DEF ExploredAt
<1>18. \A v \in W : e[v] < MaxDepth => \A u \in LinkedFrom(links, v) : ReachedBy(t, W, L, e, u, e[v] + 1)
  <2>. SUFFICES ASSUME NEW v \in W, e[v] < MaxDepth, NEW u \in LinkedFrom(links, v)
                PROVE  ReachedBy(t, W, L, e, u, e[v] + 1)
    OBVIOUS
  <2>1. CASE v \in V
    <3>1. e[v] = dist[v] /\ dist[v] + 1 \in Nat
      BY <1>2, <1>10, <2>1
    <3>2. ReachedBy(F, V, L, dist, u, dist[v] + 1)
      BY <1>1, <2>1, <3>1 DEF ExploredAt
    <3>. QED BY <1>14, <3>1, <3>2
  <2>2. CASE v = url
    <3>1. e[v] = depth /\ depth < MaxDepth
      BY <1>10, <2>2
    <3>2. PICK i \in DOMAIN found : found[i] = u /\ u # NoUrl
      BY <1>9, <2>2
    <3>3. CASE u = url
      <4>1. u \in W /\ e[u] <= e[v] + 1
        BY <1>4, <1>10, <1>12, <2>2, <3>3
      <4>. QED BY <4>1 DEF ReachedBy
    <3>4. CASE u \in H /\ u \in V
      <4>1. u \in W /\ e[u] <= e[v] + 1
        <5>1. e[u] = dist[u] /\ dist[u] <= depth /\ dist[u] \in Nat
          BY <1>2, <1>10, <1>15, <3>4
        <5>. QED BY <1>4, <1>12, <3>1, <3>4, <5>1
      <4>. QED BY <4>1 DEF ReachedBy
    <3>5. CASE u \in H /\ u \notin V
      <4>1. ~Due(u)
        BY <3>5 DEF HandledFor
      <4>. QED BY <4>1 DEF ReachedBy
    <3>6. CASE u \notin H \cup {url} /\ SameHost(u)
      <4>1. PICK k \in DOMAIN t : t[k][1] = u /\ t[k][2] = depth + 1
        BY <1>8, <3>1, <3>2, <3>6 DEF K, IsExtended
      <4>2. t[k][1] = u /\ t[k][2] <= e[v] + 1
        BY <1>4, <3>1, <4>1
      <4>. QED BY <4>2 DEF ReachedBy
    <3>7. CASE ~SameHost(u)
      BY <3>7 DEF ReachedBy, Due
    <3>. QED BY <3>3, <3>4, <3>5, <3>6, <3>7
  <2>. QED BY <1>11, <2>1, <2>2
<1>19. W \subseteq DOMAIN Site /\ \A v \in W : Fetched(v).ok
  <2>1. \A v \in V : Fetched(v).ok
    BY <1>1 DEF ExploredAt
  <2>. QED BY <1>2, <1>4, <1>11, <2>1 DEF url
<1>20. ExploredAt(links, t, W, L, e)
  BY <1>8, <1>10, <1>16, <1>17, <1>18, <1>19 DEF ExploredAt, IsExtended
<1>21. Explored(links, t, W, L)
  BY <1>10, <1>20 DEF Explored
<1>. QED BY <1>21 DEF t, K, W, r, page, url, depth

\* One link further, through the pages that are not lost.
Further(w) ==
    w \cup
    UNION {ToSet(LinksOf(Fetched(p))) \ {NoUrl} : p \in {p \in w \ crawl.lost :
               SameHost(p) /\ Site[p].allowed /\ Fetched(p).ok}}

LEMMA FurtherIs ==
    ASSUME NEW w
    PROVE  \A u : u \in Further(w) <=>
               \/ u \in w
               \/ \E p \in w : /\ p \notin crawl.lost /\ SameHost(p) /\ Site[p].allowed /\ Fetched(p).ok
                               /\ u \in LinkedFrom(links, p)
  BY LinkedHere, Zenon DEF Further

LEMMA FurtherTyped ==
    ASSUME links \in LinkGraphs, NEW w \in SUBSET (DOMAIN Site)
    PROVE  Further(w) \in SUBSET (DOMAIN Site)
<1>. SUFFICES ASSUME NEW u \in Further(w) PROVE u \in DOMAIN Site
  OBVIOUS
<1>1. CASE u \in w
  BY <1>1
<1>2. ASSUME NEW p \in w, Fetched(p).ok, u \in LinkedFrom(links, p) PROVE u \in DOMAIN Site
  <2>1. PICK i \in DOMAIN LinksOf(Fetched(p)) : LinksOf(Fetched(p))[i] = u /\ u # NoUrl
    BY <1>2, LinkedHere
  <2>2. Fetched(p).final \in DOMAIN Site
    BY <1>2, FetchedPage
  <2>3. LinksOf(Fetched(p)) \in Seq((DOMAIN Site) \cup {NoUrl})
    BY <2>2, LinksTyped
  <2>. DEFINE ls == LinksOf(Fetched(p))
  <2>4. ls \in Seq((DOMAIN Site) \cup {NoUrl}) /\ i \in DOMAIN ls /\ ls[i] = u
    BY <2>1, <2>3
  <2>. HIDE DEF ls
  <2>. QED BY <2>1, <2>4
<1>. QED BY <1>1, <1>2, FurtherIs

WithinIs(W) ==
    /\ W[0] = {Seed}
    /\ \A k \in Nat : k < MaxDepth => W[k + 1] = Further(W[k])

LEMMA WithinUnfolds ==
    ASSUME links \in LinkGraphs
    PROVE  WithinIs(WithinDepth)
<1>. DEFINE N == MaxDepth
            X == SUBSET (DOMAIN Site)
            x0 == {Seed}
            G == [k \in Nat |-> [x \in X |-> Further(x)]]
            Equation(h) == h = [k \in 0 .. N |-> IF k = 0 THEN x0 ELSE Further(h[k - 1])]
<1>1. N \in Nat /\ x0 \in X
  BY ResearchAssumption DEF ResearchAssumption
<1>2. G \in [Nat -> [X -> X]]
  BY FurtherTyped
<1>. HIDE DEF N, X, x0
<1>3. PICK f \in [Nat -> X] : f[0] = x0 /\ \A k \in Nat : f[k + 1] = G[k][f[k]]
  <2>. HIDE DEF G
  <2>1. Stepwise(X, x0, G)
    BY <1>1, <1>2, RecursionOnNat, Zenon
  <2>. QED BY <2>1 DEF Stepwise
<1>4. \A n \in Nat : f[n + 1] = Further(f[n])
  BY <1>3
<1>. DEFINE g == [n \in 0 .. N |-> f[n]]
<1>5. Equation(g)
  <2>1. \A n \in 0 .. N : g[n] = IF n = 0 THEN x0 ELSE Further(g[n - 1])
    <3>. SUFFICES ASSUME NEW n \in 0 .. N PROVE g[n] = IF n = 0 THEN x0 ELSE Further(g[n - 1])
      OBVIOUS
    <3>1. CASE n = 0
      BY <1>3, <3>1
    <3>2. CASE n # 0
      <4>1. n - 1 \in Nat /\ (n - 1) + 1 = n /\ n - 1 \in 0 .. N
        BY <1>1, <3>2
      <4>2. f[(n - 1) + 1] = Further(f[n - 1])
        BY <1>4, <4>1
      <4>. QED BY <3>2, <4>1, <4>2
    <3>. QED BY <3>1, <3>2
  <2>2. g = [n \in 0 .. N |-> g[n]]
    OBVIOUS
  <2>. HIDE DEF g
  <2>. QED BY <2>1, <2>2
<1>. DEFINE W == CHOOSE h : Equation(h)
<1>6. Equation(W)
  <2>. HIDE DEF Equation, g
  <2>. QED BY <1>5
<1>7. WithinDepth = W
  BY DEF WithinDepth, Further, N, x0
<1>. HIDE DEF W
<1>8. \A n \in 0 .. N : W[n] = IF n = 0 THEN x0 ELSE Further(W[n - 1])
  BY <1>6
<1>9. W[0] = x0
  BY <1>1, <1>8
<1>10. \A k \in Nat : k < N => W[k + 1] = Further(W[k])
  <2>. SUFFICES ASSUME NEW k \in Nat, k < N PROVE W[k + 1] = Further(W[k])
    OBVIOUS
  <2>1. k + 1 \in 0 .. N /\ k + 1 # 0 /\ (k + 1) - 1 = k
    BY <1>1
  <2>. QED BY <1>8, <2>1
<1>. QED BY <1>7, <1>9, <1>10 DEF WithinIs, N, x0

\* When the frontier is empty, what is wanted was visited.
LEMMA NothingLeft ==
    ASSUME links \in LinkGraphs, Explored(links, <<>>, crawl.visited, crawl.lost)
    PROVE  Wanted \subseteq crawl.visited
<1>. DEFINE V == crawl.visited
            L == crawl.lost
            W == WithinDepth
<1>1. PICK dist \in [DOMAIN Site -> Nat] : ExploredAt(links, <<>>, V, L, dist)
  BY DEF Explored
<1>2. V \subseteq DOMAIN Site /\ MaxDepth \in Nat /\ \A v \in V : dist[v] \in Nat
  BY <1>1, ResearchAssumption DEF ExploredAt, ResearchAssumption
<1>3. \A u : \A d : ReachedBy(<<>>, V, L, dist, u, d) /\ Due(u) /\ u \notin L => u \in V /\ dist[u] <= d
  BY DEF ReachedBy
<1>4. WithinIs(W)
  BY WithinUnfolds
<1>. DEFINE S == {k \in Nat : k <= MaxDepth =>
                     \A u \in W[k] : u # NoUrl /\ (Due(u) /\ u \notin L => u \in V /\ dist[u] <= k)}
<1>. HIDE DEF V, L, W
<1>5. 0 \in S
  <2>1. W[0] = {Seed} /\ Seed # NoUrl
    BY <1>4, ResearchAssumption DEF WithinIs, ResearchAssumption
  <2>2. ReachedBy(<<>>, V, L, dist, Seed, 0)
    BY <1>1 DEF ExploredAt
  <2>. QED BY <1>3, <2>1, <2>2
<1>6. ASSUME NEW k \in Nat, k \in S PROVE k + 1 \in S
  <2>. SUFFICES ASSUME k + 1 <= MaxDepth, NEW u \in W[k + 1]
                PROVE  u # NoUrl /\ (Due(u) /\ u \notin L => u \in V /\ dist[u] <= k + 1)
    OBVIOUS
  <2>1. k < MaxDepth /\ k <= MaxDepth
    BY <1>2
  <2>2. u \in Further(W[k])
    BY <1>4, <2>1 DEF WithinIs
  <2>3. \A p \in W[k] : p # NoUrl /\ (Due(p) /\ p \notin L => p \in V /\ dist[p] <= k)
    BY <1>6, <2>1
  <2>4. CASE u \in W[k]
    BY <1>2, <2>3, <2>4
  <2>5. ASSUME NEW p \in W[k], p \notin L, SameHost(p), Site[p].allowed, u \in LinkedFrom(links, p)
        PROVE  u # NoUrl /\ (Due(u) /\ u \notin L => u \in V /\ dist[u] <= k + 1)
    <3>1. p \in V /\ dist[p] <= k /\ dist[p] \in Nat
      BY <1>2, <2>3, <2>5 DEF Due
    <3>2. dist[p] < MaxDepth
      BY <1>2, <2>1, <3>1
    <3>3. ReachedBy(<<>>, V, L, dist, u, dist[p] + 1)
      BY <1>1, <2>5, <3>1, <3>2 DEF ExploredAt
    <3>4. u # NoUrl
      BY <2>5 DEF LinkedFrom
    <3>5. Due(u) /\ u \notin L => u \in V /\ dist[u] <= dist[p] + 1
      BY <1>3, <3>3
    <3>. QED BY <1>2, <3>1, <3>4, <3>5
  <2>. QED BY <2>2, <2>4, <2>5, FurtherIs DEF L
<1>7. Nat \subseteq S
  <2>. HIDE DEF S
  <2>. QED BY <1>5, <1>6, CountingUp
<1>8. \A u \in W[MaxDepth] : u # NoUrl /\ (Due(u) /\ u \notin L => u \in V)
  BY <1>2, <1>7
<1>. QED BY <1>8 DEF Wanted, Due, W, L, V

LEMMA NextPage ==
    ASSUME NEW X, NEW s \in Seq(X), NEW o \in 0 .. Len(s), NEW m \in o .. Len(s)
    PROVE  /\ SubSeq(s, 1, o) \o SubSeq(s, o + 1, m) = SubSeq(s, 1, m)
           /\ Len(SubSeq(s, o + 1, m)) = m - o
           /\ m = Len(s) => SubSeq(s, 1, m) = s
<1>. DEFINE n == Len(s)
            a == SubSeq(s, 1, o)
            b == SubSeq(s, o + 1, m)
            c == SubSeq(s, 1, m)
<1>1. n \in Nat /\ o \in Nat /\ m \in Nat /\ o <= m /\ m <= n
  OBVIOUS
<1>2. a \in Seq(X) /\ Len(a) = o /\ \A i \in 1 .. o : a[i] = s[i]
  BY <1>1
<1>3. b \in Seq(X) /\ Len(b) = m - o /\ \A i \in 1 .. m - o : b[i] = s[o + i]
  BY <1>1
<1>4. c \in Seq(X) /\ Len(c) = m /\ \A i \in 1 .. m : c[i] = s[i]
  BY <1>1
<1>. HIDE DEF a, b, c
<1>. DEFINE d == a \o b
<1>5. Len(d) = m /\ d \in Seq(X)
  <2>0. a \in Seq(X) /\ b \in Seq(X)
    BY <1>2, <1>3
  <2>1. Len(d) = Len(a) + Len(b)
    BY <2>0
  <2>2. d \in Seq(X)
    BY <2>0
  <2>. HIDE DEF d
  <2>. QED BY <1>1, <1>2, <1>3, <2>1, <2>2
<1>6. \A i \in 1 .. m : d[i] = s[i]
  BY <1>1, <1>2, <1>3
<1>7. d = c
  <2>. HIDE DEF d
  <2>1. d = [i \in 1 .. m |-> d[i]] /\ c = [i \in 1 .. m |-> c[i]]
    BY <1>1, <1>4, <1>5
  <2>. QED BY <1>4, <1>6, <2>1
<1>8. m = n => c = s
  BY <1>4
<1>. QED BY <1>3, <1>7, <1>8 DEF a, b, c

LEMMA FilteredList ==
    ASSUME NEW r \in Searches
    PROVE  Filtered(r) \in Seq({r.catalog[i] : i \in DOMAIN r.catalog})
<1>. DEFINE C == {i \in DOMAIN r.catalog : Matches(r.catalog[i], r)}
            t == Filtered(r)
            X == {r.catalog[i] : i \in DOMAIN r.catalog}
<1>1. DOMAIN r.catalog = 1 .. Len(r.catalog) /\ Len(r.catalog) \in Nat
  BY ResearchAssumption DEF ResearchAssumption
<1>2. t = Kept(r.catalog, C) /\ C \in SUBSET (1 .. Len(r.catalog)) /\ \A i \in C : r.catalog[i] \in X
  BY <1>1 DEF Filtered
<1>. HIDE DEF C, t, X
<1>3. KeptSound(r.catalog, C, t)
  BY <1>1, <1>2, KeptIsSound
<1>4. t \in Seq(X)
  <2>1. \A k \in 1 .. Len(t) : t[k] \in X
    BY <1>2, <1>3 DEF KeptSound
  <2>2. t = [k \in 1 .. Len(t) |-> t[k]] /\ Len(t) \in Nat
    BY <1>3 DEF KeptSound
  <2>. QED BY <2>1, <2>2
<1>. QED BY <1>4 DEF t, X

-----------------------------------------------------------------------------
PagedTo(q) ==
    /\ q = [at |-> q.at, request |-> q.request, offset |-> q.offset, results |-> q.results, ranked |-> q.ranked]
    /\ q.request \in Searches /\ ~SearchRejected(q.request)
    /\ q.offset \in 0 .. Len(Filtered(q.request))
    /\ q.results = SubSeq(Filtered(q.request), 1, q.offset)

IsCrawl(c) ==
    c = [at |-> c.at, crawls |-> c.crawls, limits |-> c.limits, frontier |-> c.frontier, visited |-> c.visited,
         handled |-> c.handled, bytes |-> c.bytes, checkpoint |-> c.checkpoint, reason |-> c.reason,
         lost |-> c.lost]

CrawlInv(g, c) ==
    /\ IsCrawl(c)
    /\ Explored(g, c.checkpoint.frontier, c.checkpoint.visited, c.checkpoint.lost)
    /\ c.at = "running" =>
          /\ Explored(g, c.frontier, c.visited, c.lost)
          /\ HandledFor(c.handled, c.visited)
          /\ c.reason = "none"
    /\ c.reason = "frontier_exhausted" => Explored(g, <<>>, c.visited, c.lost)

SearchInv(q) ==
    /\ q.at \in {"paging", "paged"} => PagedTo(q)
    /\ q.at \in {"paged", "ranked"} => q.results = Filtered(q.request)

ResearchInv == links \in LinkGraphs /\ CrawlInv(links, crawl) /\ SearchInv(search)

LEMMA CrawlBegins ==
    ASSUME ResearchInv, NEW limits, NEW c \in {NewCheckpoint, crawl.checkpoint}, BeginCrawl(limits, c)
    PROVE  CrawlInv(links, crawl')
<1>1. Explored(links, c.frontier, c.visited, c.lost)
  <2>1. CASE c = NewCheckpoint
    <3>1. c.frontier = <<<<Seed, 0>>>> /\ c.visited = {} /\ c.lost = {}
      BY <2>1 DEF NewCheckpoint
    <3>. QED BY <3>1, SeedExplored
  <2>2. CASE c = crawl.checkpoint
    BY <2>2 DEF ResearchInv, CrawlInv
  <2>. QED BY <2>1, <2>2
<1>2. IsCrawl(crawl)
  BY DEF ResearchInv, CrawlInv
<1>3. /\ crawl'.at = "running" /\ crawl'.frontier = c.frontier /\ crawl'.visited = c.visited
      /\ crawl'.handled = c.visited /\ crawl'.lost = c.lost /\ crawl'.checkpoint = crawl.checkpoint
      /\ crawl'.reason = "none" /\ IsCrawl(crawl')
  BY <1>2 DEF BeginCrawl, IsCrawl
<1>4. HandledFor(c.visited, c.visited)
  BY DEF HandledFor
<1>5. Explored(links, crawl.checkpoint.frontier, crawl.checkpoint.visited, crawl.checkpoint.lost)
  BY DEF ResearchInv, CrawlInv
<1>. QED BY <1>1, <1>3, <1>4, <1>5 DEF CrawlInv

LEMMA CrawlStopsKept ==
    ASSUME ResearchInv, CrawlStops
    PROVE  CrawlInv(links, crawl')
<1>1. IsCrawl(crawl) /\ Explored(links, crawl.frontier, crawl.visited, crawl.lost)
  BY DEF CrawlStops, ResearchInv, CrawlInv
<1>2. /\ crawl'.at = "idle" /\ crawl'.checkpoint = Saved(crawl) /\ IsCrawl(crawl')
      /\ crawl'.frontier = crawl.frontier /\ crawl'.visited = crawl.visited /\ crawl'.lost = crawl.lost
      /\ crawl'.reason = "frontier_exhausted" => crawl.frontier = <<>>
  <2>1. PICK reason : Stopped(reason) /\ (reason = "frontier_exhausted" => crawl.frontier = <<>>)
    BY DEF CrawlStops
  <2>. QED BY <1>1, <2>1 DEF Stopped, IsCrawl
<1>3. /\ crawl'.checkpoint.frontier = crawl.frontier /\ crawl'.checkpoint.visited = crawl.visited
      /\ crawl'.checkpoint.lost = crawl.lost
  BY <1>2 DEF Saved
<1>. QED BY <1>1, <1>2, <1>3 DEF CrawlInv

LEMMA CrawlSkipsKept ==
    ASSUME ResearchInv, CrawlSkips
    PROVE  CrawlInv(links, crawl')
<1>. DEFINE F == crawl.frontier
            url == F[1][1]
            V == crawl.visited
            H == crawl.handled
            L == crawl.lost
<1>1. /\ IsCrawl(crawl) /\ crawl.at = "running" /\ crawl.reason = "none"
      /\ Explored(links, F, V, L) /\ HandledFor(H, V) /\ F # <<>>
  BY DEF CrawlSkips, Taking, ResearchInv, CrawlInv
<1>2. Levelled(F)
  BY <1>1 DEF Explored, ExploredAt
<1>3. NextUrl(F) = F[1] /\ F[1][2] <= MaxDepth /\ url # NoUrl /\ MaxDepth \in Nat /\ F[1][2] \in Nat
  <2>1. NextUrl(F) = F[1] /\ F[1] \in Entries
    <3>. HIDE DEF F
    <3>1. NextUrl(F) = F[1] /\ 1 \in DOMAIN F
      BY <1>1, <1>2, RestLevelled
    <3>2. F[1] \in Entries
      BY <1>2, <3>1 DEF Levelled
    <3>. QED BY <3>1, <3>2
  <2>. QED BY <2>1, EntryParts, ResearchAssumption DEF ResearchAssumption
<1>. DEFINE K == IF url \notin H /\ F[1][2] <= MaxDepth /\ SameHost(url) THEN H \cup {url} ELSE H
<1>4. /\ url \in H \/ F[1][2] > MaxDepth \/ ~SameHost(url) \/ ~Site[url].allowed
      /\ crawl' = [crawl EXCEPT !.frontier = Rest(F), !.handled = K]
  BY <1>3 DEF CrawlSkips
<1>5. url \in H \/ ~Due(url)
  BY <1>3, <1>4 DEF Due
<1>6. url \in V \/ ~Due(url)
  BY <1>1, <1>5 DEF HandledFor
<1>7. Explored(links, Rest(F), V, L)
  BY <1>1, <1>6, HeadDropped
<1>8. HandledFor(K, V)
  <2>1. CASE K = H
    BY <1>1, <2>1
  <2>2. CASE K = H \cup {url}
    BY <1>1, <1>6, <2>2 DEF HandledFor
  <2>. QED BY <2>1, <2>2
<1>. HIDE DEF K
<1>9. /\ crawl'.at = "running" /\ crawl'.frontier = Rest(F) /\ crawl'.visited = V /\ crawl'.handled = K
      /\ crawl'.lost = L /\ crawl'.checkpoint = crawl.checkpoint /\ crawl'.reason = "none" /\ IsCrawl(crawl')
  BY <1>1, <1>4 DEF IsCrawl
<1>10. Explored(links, crawl.checkpoint.frontier, crawl.checkpoint.visited, crawl.checkpoint.lost)
  BY DEF ResearchInv, CrawlInv
<1>. QED BY <1>7, <1>8, <1>9, <1>10 DEF CrawlInv

LEMMA CrawlFetchesKept ==
    ASSUME ResearchInv, CrawlFetches
    PROVE  CrawlInv(links, crawl')
<1>. DEFINE F == crawl.frontier
            url == F[1][1]
            depth == F[1][2]
            page == Fetched(url)
            V == crawl.visited
            H == crawl.handled
            L == crawl.lost
            taken == [crawl EXCEPT !.frontier = Rest(F), !.bytes = @ + page.bytes]
            exceeded == [taken EXCEPT !.at = "idle", !.reason = "max_bytes", !.lost = L \cup {url}]
<1>1. /\ IsCrawl(crawl) /\ crawl.at = "running" /\ crawl.reason = "none" /\ links \in LinkGraphs
      /\ Explored(links, F, V, L) /\ HandledFor(H, V) /\ F # <<>>
  BY DEF CrawlFetches, Taking, ResearchInv, CrawlInv
<1>2. Levelled(F)
  BY <1>1 DEF Explored, ExploredAt
<1>3. NextUrl(F) = F[1]
  BY <1>1, <1>2, RestLevelled
<1>4. /\ url \notin H /\ page.ok
      /\ \/ crawl' = [exceeded EXCEPT !.checkpoint = Saved(exceeded)]
         \/ crawl' = [taken EXCEPT !.visited = V \cup {url}, !.handled = H \cup {url},
                          !.frontier = Extended(Rest(F), page, depth, H \cup {url})]
  BY <1>1, <1>3 DEF CrawlFetches, Fetchable, IsCrawl
<1>5. Explored(links, crawl.checkpoint.frontier, crawl.checkpoint.visited, crawl.checkpoint.lost)
  BY DEF ResearchInv, CrawlInv
<1>6. CASE crawl' = [exceeded EXCEPT !.checkpoint = Saved(exceeded)]
  <2>1. Explored(links, Rest(F), V, L \cup {url})
    BY <1>1, HeadDropped
  <2>2. /\ crawl'.at = "idle" /\ crawl'.reason = "max_bytes" /\ IsCrawl(crawl')
        /\ crawl'.checkpoint = Saved(exceeded)
    BY <1>1, <1>6 DEF IsCrawl
  <2>3. Saved(exceeded).frontier = Rest(F) /\ Saved(exceeded).visited = V /\ Saved(exceeded).lost = L \cup {url}
    BY <1>1 DEF Saved, IsCrawl
  <2>. QED BY <2>1, <2>2, <2>3 DEF CrawlInv
<1>7. CASE crawl' = [taken EXCEPT !.visited = V \cup {url}, !.handled = H \cup {url},
                         !.frontier = Extended(Rest(F), page, depth, H \cup {url})]
  <2>1. Explored(links, Extended(Rest(F), page, depth, H \cup {url}), V \cup {url}, L)
    BY <1>1, <1>4, PageVisited
  <2>2. HandledFor(H \cup {url}, V \cup {url})
    BY <1>1 DEF HandledFor
  <2>3. /\ crawl'.at = "running" /\ crawl'.frontier = Extended(Rest(F), page, depth, H \cup {url})
        /\ crawl'.visited = V \cup {url} /\ crawl'.handled = H \cup {url} /\ crawl'.lost = L
        /\ crawl'.checkpoint = crawl.checkpoint /\ crawl'.reason = "none" /\ IsCrawl(crawl')
    BY <1>1, <1>7 DEF IsCrawl
  <2>. QED BY <1>5, <2>1, <2>2, <2>3 DEF CrawlInv
<1>. QED BY <1>4, <1>6, <1>7

LEMMA CrawlRaisesKept ==
    ASSUME ResearchInv, CrawlRaises
    PROVE  CrawlInv(links, crawl')
<1>1. /\ IsCrawl(crawl)
      /\ Explored(links, crawl.checkpoint.frontier, crawl.checkpoint.visited, crawl.checkpoint.lost)
  BY DEF ResearchInv, CrawlInv
<1>2. crawl'.at = "idle" /\ crawl'.reason = "raised" /\ crawl'.checkpoint = crawl.checkpoint /\ IsCrawl(crawl')
  BY <1>1 DEF CrawlRaises, IsCrawl
<1>. QED BY <1>1, <1>2 DEF CrawlInv

LEMMA SearchBegins ==
    ASSUME NEW r \in Searches, BeginSearch(r)
    PROVE  SearchInv(search')
<1>. DEFINE q == [at |-> IF SearchRejected(r) THEN "rejected" ELSE "paging", request |-> r, offset |-> 0,
                  results |-> <<>>, ranked |-> <<>>]
            found == Filtered(r)
<1>1. search' = q
  BY DEF BeginSearch
<1>2. /\ q.request = r /\ q.offset = 0 /\ q.results = <<>>
      /\ q = [at |-> q.at, request |-> q.request, offset |-> q.offset, results |-> q.results, ranked |-> q.ranked]
      /\ \/ q.at = "paging" /\ ~SearchRejected(r)
         \/ q.at = "rejected"
  OBVIOUS
<1>. HIDE DEF q
<1>3. 0 \in 0 .. Len(found) /\ SubSeq(found, 1, 0) = <<>>
  <2>1. found \in Seq({r.catalog[i] : i \in DOMAIN r.catalog})
    BY FilteredList
  <2>. HIDE DEF found
  <2>. QED BY <2>1
<1>. HIDE DEF found
<1>4. q.at = "paging" => PagedTo(q)
  BY <1>2, <1>3 DEF PagedTo, found
<1>. QED BY <1>1, <1>2, <1>4 DEF SearchInv

LEMMA ResultsKept ==
    ASSUME SearchInv(search), NEW matches \in BOOLEAN, NextResults(matches)
    PROVE  SearchInv(search')
<1>. DEFINE r == search.request
            found == Filtered(r)
            o == search.offset
            size == Smaller(r.limit, PageMaximum)
            page == ResultPage(r, o)
            m == Smaller(o + size, Len(found))
            X == {r.catalog[i] : i \in DOMAIN r.catalog}
<1>1. PagedTo(search)
  BY DEF SearchInv, NextResults
<1>2. /\ r \in Searches /\ ~SearchRejected(r) /\ o \in 0 .. Len(found)
      /\ search.results = SubSeq(found, 1, o)
  BY <1>1 DEF PagedTo
<1>3. CASE search' = [search EXCEPT !.at = "rejected"]
  <2>1. search'.at = "rejected"
    BY <1>1, <1>3 DEF PagedTo
  <2>. QED BY <2>1 DEF SearchInv
<1>4. CASE search' = [search EXCEPT !.results = @ \o page.results, !.offset = @ + Len(page.results),
                                    !.at = IF page.more THEN "paging" ELSE "paged"]
  <2>1. found \in Seq(X)
    BY <1>2, FilteredList
  <2>2. size \in Nat
    <3>1. r.limit \in 1 .. 100 /\ PageMaximum \in Nat
      BY <1>2, ResearchAssumption DEF SearchRejected, ResearchAssumption
    <3>. QED BY <3>1 DEF Smaller
  <2>3. page.results = SubSeq(found, o + 1, m) /\ (page.more <=> o + size < Len(found))
    BY DEF ResultPage
  <2>4. /\ search'.at = (IF page.more THEN "paging" ELSE "paged") /\ search'.request = r
        /\ search'.results = search.results \o page.results
        /\ search'.offset = o + Len(page.results)
        /\ search' = [at |-> search'.at, request |-> search'.request, offset |-> search'.offset,
                      results |-> search'.results, ranked |-> search'.ranked]
    BY <1>1, <1>4 DEF PagedTo
  <2>5. search'.at \in {"paging", "paged"} /\ (search'.at = "paged" => ~page.more)
    BY <2>4
  <2>. HIDE DEF size, X, page
  <2>6. Len(found) \in Nat /\ m \in o .. Len(found) /\ (~(o + size < Len(found)) => m = Len(found))
    <3>. HIDE DEF found
    <3>1. Len(found) \in Nat
      BY <2>1
    <3>. QED BY <1>2, <2>2, <3>1 DEF Smaller
  <2>. HIDE DEF m
  <2>7. /\ SubSeq(found, 1, o) \o SubSeq(found, o + 1, m) = SubSeq(found, 1, m)
        /\ Len(SubSeq(found, o + 1, m)) = m - o
        /\ m = Len(found) => SubSeq(found, 1, m) = found
    <3>. HIDE DEF found
    <3>. QED BY <1>2, <2>1, <2>6, NextPage
  <2>8. search'.results = SubSeq(found, 1, m) /\ search'.offset = m
    <3>1. o + (m - o) = m
      BY <1>2, <2>6
    <3>. QED BY <1>2, <2>3, <2>4, <2>7, <3>1
  <2>9. m \in 0 .. Len(found)
    BY <1>2, <2>6
  <2>10. PagedTo(search')
    BY <1>2, <2>4, <2>8, <2>9 DEF PagedTo
  <2>11. search'.at = "paged" => search'.results = found
    BY <2>3, <2>5, <2>6, <2>7, <2>8
  <2>. QED BY <2>4, <2>5, <2>10, <2>11 DEF SearchInv
<1>. QED BY <1>3, <1>4 DEF NextResults

LEMMA RankKept ==
    ASSUME SearchInv(search), RankFound
    PROVE  SearchInv(search')
<1>1. PagedTo(search) /\ search.results = Filtered(search.request)
  BY DEF SearchInv, RankFound
<1>2. search'.at = "ranked" /\ search'.results = search.results /\ search'.request = search.request
  BY <1>1 DEF RankFound, PagedTo
<1>. QED BY <1>1, <1>2 DEF SearchInv

LEMMA ResearchInitInv == ResearchInit => ResearchInv
<1>. SUFFICES ASSUME ResearchInit PROVE ResearchInv
  OBVIOUS
<1>1. /\ IsCrawl(crawl) /\ crawl.at = "idle" /\ crawl.reason = "none" /\ crawl.checkpoint = NewCheckpoint
  BY DEF ResearchInit, IsCrawl
<1>2. Explored(links, crawl.checkpoint.frontier, crawl.checkpoint.visited, crawl.checkpoint.lost)
  BY <1>1, SeedExplored DEF NewCheckpoint
<1>3. CrawlInv(links, crawl)
  BY <1>1, <1>2 DEF CrawlInv
<1>4. SearchInv(search)
  BY DEF ResearchInit, SearchInv
<1>. QED BY <1>3, <1>4 DEF ResearchInit, ResearchInv

LEMMA ResearchNextInv == ResearchInv /\ [ResearchNext]_researchVars => ResearchInv'
<1>. SUFFICES ASSUME ResearchInv, [ResearchNext]_researchVars PROVE ResearchInv'
  OBVIOUS
<1>0. links \in LinkGraphs /\ CrawlInv(links, crawl) /\ SearchInv(search)
  BY DEF ResearchInv
<1>1. CASE CrawlNext
  <2>1. CrawlInv(links, crawl')
    BY <1>1, CrawlBegins, CrawlStopsKept, CrawlSkipsKept, CrawlFetchesKept, CrawlRaisesKept DEF CrawlNext
  <2>2. links' = links /\ search' = search
    BY <1>1 DEF CrawlNext, BeginCrawl, CrawlStops, CrawlSkips, CrawlFetches, CrawlRaises, OtherResearch
  <2>. QED BY <1>0, <2>1, <2>2 DEF ResearchInv
<1>2. CASE SearchNext
  <2>1. SearchInv(search')
    BY <1>0, <1>2, SearchBegins, ResultsKept, RankKept DEF SearchNext
  <2>2. links' = links /\ crawl' = crawl
    BY <1>2 DEF SearchNext, BeginSearch, NextResults, RankFound
  <2>. QED BY <1>0, <2>1, <2>2 DEF ResearchInv
<1>3. CASE LookupNext
  <2>1. links' = links /\ crawl' = crawl /\ search' = search
    BY <1>3 DEF LookupNext, PlanQueries, Broker
  <2>. QED BY <1>0, <2>1 DEF ResearchInv
<1>4. CASE UNCHANGED researchVars
  BY <1>0, <1>4 DEF ResearchInv, researchVars
<1>. QED BY <1>1, <1>2, <1>3, <1>4 DEF ResearchNext

(* A crawl that reports an exhausted frontier, however it was stopped and       *)
(* resumed, visited every page it was to visit; a search paged to its end has    *)
(* each entry that matches once and in order (ResearchCrawler.crawl,             *)
(* DeterministicFixtureSearchProvider._search).                                  *)
THEOREM ResearchFindsEverything == ResearchSpec => []ResearchComplete
<1>1. ResearchInv => ResearchComplete
  <2>. SUFFICES ASSUME ResearchInv PROVE ResearchComplete
    OBVIOUS
  <2>1. crawl.reason = "frontier_exhausted" => Wanted \subseteq crawl.visited
    BY NothingLeft DEF ResearchInv, CrawlInv
  <2>2. search.at \in {"paged", "ranked"} => search.results = Filtered(search.request)
    BY DEF ResearchInv, SearchInv
  <2>. QED BY <2>1, <2>2 DEF ResearchComplete
<1>. QED BY <1>1, ResearchInitInv, ResearchNextInv, PTL DEF ResearchSpec

(* The types of a crawl, also between two crawls, and of a search.               *)

CrawlTyped(c) ==
    /\ c.at \in {"idle", "running"}
    /\ c.visited \subseteq c.handled /\ c.handled \subseteq DOMAIN Site
    /\ Levelled(c.frontier)

SearchTyped(q) == q.at \in {"idle", "rejected", "paging", "paged", "ranked"}

QueriesTyped == Len(planned) <= 24

ResearchTyped == CrawlTyped(crawl) /\ SearchTyped(search) /\ QueriesTyped

LEMMA CheckpointTyped ==
    ASSUME ResearchInv
    PROVE  Levelled(crawl.checkpoint.frontier) /\ crawl.checkpoint.visited \subseteq DOMAIN Site
  BY DEF ResearchInv, CrawlInv, Explored, ExploredAt

LEMMA CrawlStaysTyped ==
    ASSUME ResearchInv, CrawlTyped(crawl), CrawlNext
    PROVE  CrawlTyped(crawl')
<1>1. IsCrawl(crawl)
  BY DEF ResearchInv, CrawlInv
<1>2. ASSUME NEW limits, NEW c \in {NewCheckpoint, crawl.checkpoint}, BeginCrawl(limits, c)
      PROVE  CrawlTyped(crawl')
  <2>1. Levelled(c.frontier) /\ c.visited \subseteq DOMAIN Site
    <3>1. CASE c = crawl.checkpoint
      BY <3>1, CheckpointTyped
    <3>2. CASE c = NewCheckpoint
      <4>1. Explored(links, <<<<Seed, 0>>>>, {}, {})
        BY SeedExplored
      <4>2. Levelled(<<<<Seed, 0>>>>)
        BY <4>1 DEF Explored, ExploredAt
      <4>. QED BY <3>2, <4>2 DEF NewCheckpoint
    <3>. QED BY <3>1, <3>2
  <2>2. crawl'.at = "running" /\ crawl'.frontier = c.frontier /\ crawl'.visited = c.visited
        /\ crawl'.handled = c.visited
    BY <1>1, <1>2 DEF BeginCrawl, IsCrawl
  <2>. QED BY <2>1, <2>2 DEF CrawlTyped
<1>3. CASE CrawlStops
  <2>1. crawl'.at = "idle" /\ crawl'.frontier = crawl.frontier /\ crawl'.visited = crawl.visited
        /\ crawl'.handled = crawl.handled
    <3>1. PICK reason : Stopped(reason)
      BY <1>3 DEF CrawlStops
    <3>. QED BY <1>1, <3>1 DEF Stopped, IsCrawl
  <2>. QED BY <2>1 DEF CrawlTyped
<1>4. CASE CrawlRaises
  <2>1. crawl'.at = "idle" /\ crawl'.frontier = crawl.frontier /\ crawl'.visited = crawl.visited
        /\ crawl'.handled = crawl.handled
    BY <1>1, <1>4 DEF CrawlRaises, IsCrawl
  <2>. QED BY <2>1 DEF CrawlTyped
<1>. DEFINE F == crawl.frontier
            url == F[1][1]
            depth == F[1][2]
<1>5. ASSUME Taking
      PROVE  /\ crawl.at = "running" /\ Levelled(F) /\ Levelled(Rest(F)) /\ NextUrl(F) = F[1]
             /\ url \in DOMAIN Site
  <2>1. Levelled(F) /\ F # <<>> /\ crawl.at = "running"
    BY <1>5 DEF CrawlTyped, Taking
  <2>. HIDE DEF F
  <2>2. Levelled(Rest(F)) /\ 1 \in DOMAIN F /\ NextUrl(F) = F[1]
    BY <2>1, RestLevelled
  <2>3. F[1] \in Entries
    BY <2>1, <2>2 DEF Levelled
  <2>. QED BY <2>1, <2>2, <2>3, EntryParts
<1>6. CASE CrawlSkips
  <2>1. /\ crawl.at = "running" /\ Levelled(Rest(F)) /\ NextUrl(F) = F[1] /\ url \in DOMAIN Site
    BY <1>5, <1>6 DEF CrawlSkips
  <2>. DEFINE K == IF url \notin crawl.handled /\ depth <= MaxDepth /\ SameHost(url)
                   THEN crawl.handled \cup {url} ELSE crawl.handled
  <2>2. crawl' = [crawl EXCEPT !.frontier = Rest(F), !.handled = K]
    BY <1>6, <2>1 DEF CrawlSkips
  <2>3. crawl.handled \subseteq K /\ K \subseteq crawl.handled \cup {url}
    OBVIOUS
  <2>. HIDE DEF K
  <2>4. crawl'.at = "running" /\ crawl'.frontier = Rest(F) /\ crawl'.visited = crawl.visited /\ crawl'.handled = K
    BY <1>1, <2>1, <2>2 DEF IsCrawl
  <2>. QED BY <2>1, <2>3, <2>4 DEF CrawlTyped
<1>7. CASE CrawlFetches
  <2>. DEFINE page == Fetched(url)
              taken == [crawl EXCEPT !.frontier = Rest(F), !.bytes = @ + page.bytes]
              exceeded == [taken EXCEPT !.at = "idle", !.reason = "max_bytes", !.lost = crawl.lost \cup {url}]
  <2>1. /\ crawl.at = "running" /\ Levelled(F) /\ Levelled(Rest(F)) /\ NextUrl(F) = F[1] /\ url \in DOMAIN Site
    BY <1>5, <1>7 DEF CrawlFetches
  <2>2. \/ crawl' = [exceeded EXCEPT !.checkpoint = Saved(exceeded)]
        \/ crawl' = [taken EXCEPT !.visited = crawl.visited \cup {url}, !.handled = crawl.handled \cup {url},
                         !.frontier = Extended(Rest(F), page, depth, crawl.handled \cup {url})]
    BY <1>1, <1>7, <2>1 DEF CrawlFetches, IsCrawl
  <2>3. CASE crawl' = [exceeded EXCEPT !.checkpoint = Saved(exceeded)]
    <3>1. crawl'.at = "idle" /\ crawl'.frontier = Rest(F) /\ crawl'.visited = crawl.visited
          /\ crawl'.handled = crawl.handled
      BY <1>1, <2>3 DEF IsCrawl
    <3>. QED BY <2>1, <3>1 DEF CrawlTyped
  <2>4. CASE crawl' = [taken EXCEPT !.visited = crawl.visited \cup {url}, !.handled = crawl.handled \cup {url},
                         !.frontier = Extended(Rest(F), page, depth, crawl.handled \cup {url})]
    <3>1. crawl'.at = "running" /\ crawl'.visited = crawl.visited \cup {url}
          /\ crawl'.handled = crawl.handled \cup {url}
      BY <1>1, <2>1, <2>4 DEF IsCrawl
    <3>2. Levelled(crawl'.frontier)
      <4>1. CrawlInv(links, crawl')
        BY <1>7, CrawlFetchesKept
      <4>. QED BY <3>1, <4>1 DEF CrawlInv, Explored, ExploredAt
    <3>. QED BY <2>1, <3>1, <3>2 DEF CrawlTyped
  <2>. QED BY <2>2, <2>3, <2>4
<1>. QED BY <1>2, <1>3, <1>4, <1>6, <1>7 DEF CrawlNext

LEMMA QueriesAreFew ==
    ASSUME NEW question
    PROVE  Len(Queries(question)) <= 24
<1>. DEFINE Words == {"primary", "precision", "recall", "official", "official_site", "freshness", "reference",
                      "changelog", "official_local", "benchmark"}
            Short(s, n) == s \in Seq(Words) /\ Len(s) \in Nat /\ Len(s) <= n
            recall == IF question.terms THEN <<"recall">> ELSE <<>>
            freshness == IF "current" \in question.markers THEN <<"freshness">> ELSE <<>>
            technical == IF "technical" \in question.markers THEN <<"reference", "changelog">> ELSE <<>>
            local == IF "local" \in question.markers THEN <<"official_local">> ELSE <<>>
            compare == IF "compare" \in question.markers THEN <<"benchmark">> ELSE <<>>
<1>w. /\ "primary" \in Words /\ "precision" \in Words /\ "recall" \in Words /\ "official" \in Words
      /\ "official_site" \in Words /\ "freshness" \in Words /\ "reference" \in Words /\ "changelog" \in Words
      /\ "official_local" \in Words /\ "benchmark" \in Words
  OBVIOUS
<1>. HIDE DEF Words
<1>0. ASSUME NEW S PROVE /\ <<>> \in Seq(S) /\ Len(<<>>) = 0
                         /\ \A a \in S : <<a>> \in Seq(S) /\ Len(<<a>>) = 1
                         /\ \A a, b \in S : <<a, b>> \in Seq(S) /\ Len(<<a, b>>) = 2
                         /\ \A s, t \in Seq(S) : s \o t \in Seq(S) /\ Len(s \o t) = Len(s) + Len(t)
  OBVIOUS
<1>1. /\ Short(<<>>, 1) /\ Short(<<>>, 2)
      /\ \A a \in Words : Short(<<a>>, 1)
      /\ \A a, b \in Words : Short(<<a, b>>, 2)
  BY <1>0
<1>2. ASSUME NEW s, NEW t, NEW k \in Nat, NEW l \in Nat, Short(s, k), Short(t, l)
      PROVE  Short(s \o t, k + l)
  <2>1. Len(s \o t) = Len(s) + Len(t) /\ s \o t \in Seq(Words)
    BY <1>0, <1>2
  <2>. QED BY <1>2, <2>1
<1>3. /\ recall = <<"recall">> \/ recall = <<>>
      /\ freshness = <<"freshness">> \/ freshness = <<>>
      /\ technical = <<"reference", "changelog">> \/ technical = <<>>
      /\ local = <<"official_local">> \/ local = <<>>
      /\ compare = <<"benchmark">> \/ compare = <<>>
  OBVIOUS
<1>. DEFINE q2 == <<"primary", "precision">> \o recall
            q3 == q2 \o <<"official", "official_site">>
            q4 == q3 \o freshness
            q5 == q4 \o technical
            q6 == q5 \o local
            q7 == q6 \o compare
<1>4. Queries(question) = q7
  BY DEF Queries
<1>. HIDE DEF Short, recall, freshness, technical, local, compare
<1>5. Short(recall, 1) /\ Short(freshness, 1) /\ Short(technical, 2) /\ Short(local, 1) /\ Short(compare, 1)
  BY <1>1, <1>3, <1>w
<1>6. Short(q2, 2 + 1)
  BY <1>1, <1>2, <1>5, <1>w
<1>. HIDE DEF q2
<1>7. Short(q3, 3 + 2)
  BY <1>1, <1>2, <1>6, <1>w
<1>. HIDE DEF q3
<1>8. Short(q4, 5 + 1)
  BY <1>2, <1>5, <1>7
<1>. HIDE DEF q4
<1>9. Short(q5, 6 + 2)
  BY <1>2, <1>5, <1>8
<1>. HIDE DEF q5
<1>10. Short(q6, 8 + 1)
  BY <1>2, <1>5, <1>9
<1>. HIDE DEF q6
<1>11. Short(q7, 9 + 1)
  BY <1>2, <1>5, <1>10
<1>. HIDE DEF q7
<1>12. Len(q7) \in Nat /\ Len(q7) <= 9 + 1
  BY <1>11 DEF Short
<1>. QED BY <1>4, <1>12

LEMMA ResearchStaysTyped == ResearchInv /\ ResearchTyped /\ [ResearchNext]_researchVars => ResearchTyped'
<1>. SUFFICES ASSUME ResearchInv, ResearchTyped, [ResearchNext]_researchVars PROVE ResearchTyped'
  OBVIOUS
<1>0. CrawlTyped(crawl) /\ SearchTyped(search) /\ QueriesTyped /\ SearchInv(search)
  BY DEF ResearchTyped, ResearchInv
<1>1. CASE CrawlNext
  <2>1. UNCHANGED <<search, planned>>
    BY <1>1 DEF CrawlNext, BeginCrawl, CrawlStops, CrawlSkips, CrawlFetches, CrawlRaises, OtherResearch
  <2>. QED BY <1>0, <1>1, <2>1, CrawlStaysTyped DEF ResearchTyped, QueriesTyped
<1>2. CASE SearchNext
  <2>1. UNCHANGED <<crawl, planned>>
    BY <1>2 DEF SearchNext, BeginSearch, NextResults, RankFound
  <2>2. SearchTyped(search')
    <3>1. ASSUME NEW r, BeginSearch(r) PROVE SearchTyped(search')
      BY <3>1 DEF BeginSearch, SearchTyped
    <3>2. ASSUME NEW matches, NextResults(matches) PROVE SearchTyped(search')
      <4>1. PagedTo(search)
        BY <1>0, <3>2 DEF NextResults, SearchInv
      <4>. DEFINE page == ResultPage(search.request, search.offset)
      <4>2. \/ search' = [search EXCEPT !.at = "rejected"]
            \/ search' = [search EXCEPT !.results = search.results \o page.results,
                                        !.offset = search.offset + Len(page.results),
                                        !.at = IF page.more THEN "paging" ELSE "paged"]
        BY <3>2 DEF NextResults
      <4>. HIDE DEF page
      <4>3. search'.at = "rejected" \/ search'.at = (IF page.more THEN "paging" ELSE "paged")
        BY <4>1, <4>2 DEF PagedTo
      <4>. QED BY <4>3 DEF SearchTyped
    <3>3. CASE RankFound
      <4>1. PagedTo(search)
        BY <1>0, <3>3 DEF RankFound, SearchInv
      <4>. QED BY <3>3, <4>1 DEF RankFound, PagedTo, SearchTyped
    <3>. QED BY <1>2, <3>1, <3>2, <3>3 DEF SearchNext
  <2>. QED BY <1>0, <2>1, <2>2 DEF ResearchTyped, QueriesTyped
<1>3. CASE LookupNext
  <2>1. UNCHANGED <<crawl, search>>
    BY <1>3 DEF LookupNext, PlanQueries, Broker
  <2>2. QueriesTyped'
    <3>1. ASSUME NEW question, PlanQueries(question) PROVE QueriesTyped'
      <4>1. Len(<<"research_query_invalid">>) <= 24
        OBVIOUS
      <4>. QED BY <3>1, <4>1, QueriesAreFew DEF PlanQueries, QueriesTyped
    <3>2. ASSUME NEW call, Broker(call) PROVE QueriesTyped'
      BY <1>0, <3>2 DEF Broker, QueriesTyped
    <3>. QED BY <1>3, <3>1, <3>2 DEF LookupNext
  <2>. QED BY <1>0, <2>1, <2>2 DEF ResearchTyped
<1>4. CASE UNCHANGED researchVars
  BY <1>0, <1>4 DEF researchVars, ResearchTyped, QueriesTyped
<1>. QED BY <1>1, <1>2, <1>3, <1>4 DEF ResearchNext

(* The values of the worker's state, for every site, catalog and question.        *)
THEOREM ResearchTypeCorrect == ResearchSpec => []ResearchTypeOK
<1>1. ResearchInit => ResearchTyped
  <2>. SUFFICES ASSUME ResearchInit PROVE ResearchTyped
    OBVIOUS
  <2>1. Levelled(<<>>)
    BY DEF Levelled
  <2>. QED BY <2>1 DEF ResearchInit, ResearchTyped, CrawlTyped, SearchTyped, QueriesTyped
<1>2. ResearchTyped => ResearchTypeOK
  <2>. SUFFICES ASSUME ResearchTyped PROVE ResearchTypeOK
    OBVIOUS
  <2>1. ASSUME NEW i \in DOMAIN crawl.frontier PROVE crawl.frontier[i][2] \in 0 .. MaxDepth
    <3>1. crawl.frontier[i] \in Entries
      BY DEF ResearchTyped, CrawlTyped, Levelled
    <3>. QED BY <3>1, ResearchAssumption DEF ResearchAssumption, Entries
  <2>. QED BY <2>1 DEF ResearchTypeOK, ResearchTyped, CrawlTyped, SearchTyped, QueriesTyped
<1>. QED BY <1>1, <1>2, ResearchInitInv, ResearchNextInv, ResearchStaysTyped, PTL DEF ResearchSpec
===============================================================================
