---------------------------- MODULE DeliveryProofs ----------------------------
(***************************************************************************)
(* Proofs about the composition of the command-line tools that one run      *)
(* checks, and about two of the tools: the memory and the benchmark.        *)
(***************************************************************************)
EXTENDS Delivery, ReleaseProofs

-----------------------------------------------------------------------------
(* KnowledgeMemory.  A process that puts an object has one of the blobs.      *)

WriterTyped(w) ==
    /\ w.at \in {"idle", "look", "open", "write", "manifest"}
    /\ w = [at |-> w.at, blob |-> w.blob, extension |-> w.extension]
    /\ w.at # "idle" => w.blob \in Blobs

FilesTyped ==
    \A f \in DOMAIN files : f[1] \in Blobs /\ files[f] \in {"part", "blob", "manifest"}

MemoryTyped ==
    /\ FilesTyped
    /\ DOMAIN writers = Writers /\ \A w \in Writers : WriterTyped(writers[w])
    /\ DOMAIN memory \subseteq Episodes
    /\ freshness \in {"fresh", "aging", "stale"}

LEMMA WriterMoves ==
    ASSUME MemoryTyped, NEW w \in Writers, NEW v, WriterTyped(v), writers' = [writers EXCEPT ![w] = v]
    PROVE  DOMAIN writers' = Writers /\ \A x \in Writers : WriterTyped(writers'[x])
  BY DEF MemoryTyped

LEMMA StoredTyped ==
    ASSUME FilesTyped, NEW file, NEW content \in {"part", "blob", "manifest"}, file[1] \in Blobs,
           files' = Stored(file, content)
    PROVE  FilesTyped'
  BY DEF FilesTyped, Stored

LEMMA StoreStaysTyped ==
    ASSUME MemoryTyped, NEW w \in Writers,
           \/ \E blob \in Blobs, extension \in Extensions : BeginPut(w, blob, extension)
           \/ LookForTarget(w) \/ OpenTarget(w) \/ WriteTarget(w) \/ WriteManifest(w)
           \/ WriterDies(w)
    PROVE  MemoryTyped'
<1>0. WriterTyped(writers[w]) /\ FilesTyped
  BY DEF MemoryTyped
<1>i. WriterTyped(Idle)
  BY DEF WriterTyped, Idle
<1>1. ASSUME NEW a \in {"open", "write", "manifest"}, writers[w].at # "idle"
      PROVE  WriterTyped([writers[w] EXCEPT !.at = a])
  BY <1>0, <1>1 DEF WriterTyped
<1>2. writers[w].at # "idle" => Target(w)[1] \in Blobs /\ ManifestOf(w)[1] \in Blobs
  BY <1>0 DEF Target, ManifestOf, WriterTyped
<1>3. \E v : WriterTyped(v) /\ writers' = [writers EXCEPT ![w] = v]
  <2>1. ASSUME NEW blob \in Blobs, NEW extension \in Extensions, BeginPut(w, blob, extension)
        PROVE  \E v : WriterTyped(v) /\ writers' = [writers EXCEPT ![w] = v]
    <3>1. WriterTyped([at |-> "look", blob |-> blob, extension |-> extension])
      BY DEF WriterTyped
    <3>. QED BY <2>1, <3>1 DEF BeginPut
  <2>2. CASE LookForTarget(w) \/ OpenTarget(w) \/ WriteTarget(w)
    <3>1. \E a \in {"open", "write", "manifest"} : writers' = [writers EXCEPT ![w] = [writers[w] EXCEPT !.at = a]]
      BY <2>2 DEF LookForTarget, OpenTarget, WriteTarget
    <3>2. writers[w].at # "idle"
      BY <2>2 DEF LookForTarget, OpenTarget, WriteTarget
    <3>. QED BY <1>1, <3>1, <3>2
  <2>3. CASE WriteManifest(w) \/ WriterDies(w)
    BY <1>i, <2>3 DEF WriteManifest, WriterDies
  <2>. QED BY <2>1, <2>2, <2>3
<1>4. DOMAIN writers' = Writers /\ \A x \in Writers : WriterTyped(writers'[x])
  BY <1>3, WriterMoves
<1>5. FilesTyped'
  <2>1. CASE files' = files
    BY <1>0, <2>1 DEF FilesTyped
  <2>2. CASE OpenTarget(w) \/ WriteTarget(w)
    BY <1>0, <1>2, <2>2, StoredTyped DEF OpenTarget, WriteTarget
  <2>3. CASE WriteManifest(w) /\ files' # files
    BY <1>0, <1>2, <2>3, StoredTyped DEF WriteManifest
  <2>. QED BY <2>1, <2>2, <2>3 DEF BeginPut, LookForTarget, WriterDies
<1>6. UNCHANGED <<memory, freshness>>
  BY DEF BeginPut, LookForTarget, OpenTarget, WriteTarget, WriteManifest, WriterDies, OtherMemory
<1>. QED BY <1>4, <1>5, <1>6 DEF MemoryTyped

LEMMA MemoryStaysTyped == MemoryTyped /\ [MemoryNext]_memoryVars => MemoryTyped'
<1>. SUFFICES ASSUME MemoryTyped, [MemoryNext]_memoryVars PROVE MemoryTyped'
  OBVIOUS
<1>1. CASE StoreNext
  BY <1>1, StoreStaysTyped DEF StoreNext
<1>2. CASE SkillNext
  <2>1. UNCHANGED <<files, writers>>
    BY <1>2 DEF SkillNext, Admit, Extract, Evaluate, Publish, AssessFreshness, UnchangedStore
  <2>2. DOMAIN memory' \subseteq Episodes
    BY <1>2 DEF SkillNext, Admit, Extract, Evaluate, Publish, AssessFreshness, MemoryTyped
  <2>3. freshness' \in {"fresh", "aging", "stale"}
    BY <1>2 DEF SkillNext, Admit, Extract, Evaluate, Publish, AssessFreshness, MemoryTyped
  <2>. QED BY <2>1, <2>2, <2>3 DEF MemoryTyped, FilesTyped
<1>3. CASE UNCHANGED memoryVars
  BY <1>3 DEF memoryVars, MemoryTyped, FilesTyped
<1>. QED BY <1>1, <1>2, <1>3 DEF MemoryNext

(* What is stored is named after one of the blobs, and what is remembered is of  *)
(* an episode, for any processes, objects, episodes and deaths.               *)
THEOREM MemoryTypeCorrect == MemorySpec => []MemoryTypeOK
<1>1. MemoryInit => MemoryTyped
  <2>. SUFFICES ASSUME MemoryInit PROVE MemoryTyped
    OBVIOUS
  <2>1. DOMAIN files = {} /\ DOMAIN memory = {}
    BY DEF MemoryInit
  <2>2. DOMAIN writers = Writers /\ \A w \in Writers : WriterTyped(writers[w])
    BY DEF MemoryInit, WriterTyped, Idle
  <2>. QED BY <2>1, <2>2 DEF MemoryInit, MemoryTyped, FilesTyped
<1>2. MemoryTyped => MemoryTypeOK
  BY DEF MemoryTyped, FilesTyped, WriterTyped, MemoryTypeOK
<1>. QED BY <1>1, <1>2, MemoryStaysTyped, PTL DEF MemorySpec

-----------------------------------------------------------------------------
(* The benchmark.  A result never has more than its full score, and none at    *)
(* all without having been measured.                                          *)

ResultSound(r) ==
    /\ r.weight \in Nat \ {0} /\ r.status \in Statuses
    /\ r.score \in NoScore .. Full
    /\ r.score > 0 => r.status \in {"passed", "failed", "error"}

CaseSound(case) ==
    /\ case.weight \in Nat \ {0} /\ IsFiniteSet(case.paths)
    /\ case.paths # {} => Full % Cardinality(case.paths) = 0

LEMMA FullIsPositive == Full \in Nat /\ Full > 0 /\ RatioScale \in Nat /\ RatioScale > 0
BY BenchmarkAssumption DEF BenchmarkAssumption

\* c parts of p are no more than all of them.
LEMMA PartOfFull ==
    ASSUME NEW c \in Nat, NEW p \in Nat, p > 0, c <= p
    PROVE  c * (Full \div p) \in 0 .. Full
<1>. DEFINE u == Full \div p
            r == Full % p
<1>0. Full \in Nat
  BY FullIsPositive
<1>1. u \in Int /\ r \in 0 .. p - 1 /\ Full = p * u + r
  BY <1>0
<1>. HIDE DEF u, r
<1>2. u >= 0
  <2>1. u < 0 => p * u <= -p
    BY <1>1
  <2>. QED BY <1>0, <1>1, <2>1
<1>3. c * u >= 0 /\ c * u <= p * u /\ c * u \in Int
  <2>1. (p - c) * u >= 0 /\ c * u >= 0
    BY <1>1, <1>2
  <2>2. p * u = (p - c) * u + c * u
    BY <1>1
  <2>. QED BY <1>1, <2>1, <2>2
<1>. QED BY <1>0, <1>1, <1>3 DEF u

LEMMA CaseResultSound ==
    ASSUME NEW case, CaseSound(case), NEW sdk, NEW candidate, NEW results,
           case.kind \in CommandKinds \cup ModelKinds \cup {"path_policy", "capability_probe"}
    PROVE  /\ ResultSound(CaseResult(case, sdk, candidate, results))
           /\ CaseResult(case, sdk, candidate, results).kind = case.kind
           /\ CaseResult(case, sdk, candidate, results).status \in Statuses
           /\ candidate = NoCandidate /\ case.kind \in ModelKinds =>
                 CaseResult(case, sdk, candidate, results).status # "passed"
<1>. DEFINE Good(r) == ResultSound(r) /\ r.kind = case.kind /\ r.status \in Statuses
<1>1. ASSUME NEW status \in Statuses, NEW score \in NoScore .. Full,
             score > 0 => status \in {"passed", "failed", "error"}
      PROVE  Good(Result(case, status, score)) /\ Result(case, status, score).status = status
  BY <1>1 DEF Result, ResultSound, CaseSound
<1>2. NoScore \in NoScore .. Full /\ 0 \in NoScore .. Full /\ Full \in NoScore .. Full
      /\ ~(NoScore > 0) /\ ~(0 > 0)
  BY FullIsPositive DEF NoScore
<1>3. /\ Good(Result(case, "unavailable", NoScore)) /\ Good(Result(case, "unsupported", NoScore))
      /\ Good(Result(case, "not_run", NoScore)) /\ Good(Result(case, "error", NoScore))
      /\ Good(Result(case, "passed", Full)) /\ Good(Result(case, "failed", 0))
      /\ Good(Result(case, "unsupported", 0))
      /\ Result(case, "unsupported", 0).status # "passed" /\ Result(case, "not_run", NoScore).status # "passed"
  <2>. HIDE DEF Good
  <2>. QED BY <1>1, <1>2 DEF Statuses
<1>4. Good(PathPolicyResult(case))
  <2>. DEFINE correct == {p \in case.paths : tree[case.script] = "good" \/ p = "easy"}
              status == IF correct = case.paths THEN "passed" ELSE "failed"
              score == IF case.paths = {} THEN 0
                       ELSE Cardinality(correct) * (Full \div Cardinality(case.paths))
  <2>1. correct \in SUBSET case.paths /\ IsFiniteSet(case.paths)
    BY DEF CaseSound
  <2>. HIDE DEF correct
  <2>2. /\ Cardinality(correct) \in Nat /\ Cardinality(case.paths) \in Nat
        /\ Cardinality(correct) <= Cardinality(case.paths)
    BY <2>1, FS_Subset, FS_CardinalityType
  <2>3. score \in NoScore .. Full
    <3>1. CASE case.paths = {}
      BY <1>2, <3>1
    <3>2. CASE case.paths # {}
      <4>1. Cardinality(case.paths) > 0
        BY <2>1, <2>2, <3>2, FS_EmptySet
      <4>2. Cardinality(correct) * (Full \div Cardinality(case.paths)) \in 0 .. Full
        BY <2>2, <4>1, PartOfFull
      <4>3. score = Cardinality(correct) * (Full \div Cardinality(case.paths))
        BY <3>2
      <4>. HIDE DEF score
      <4>. QED BY <4>2, <4>3, FullIsPositive DEF NoScore
    <3>. QED BY <3>1, <3>2
  <2>4. status \in Statuses /\ status \in {"passed", "failed", "error"}
    BY DEF Statuses
  <2>5. Good(Result(case, status, score))
    <3>. HIDE DEF status, score, Good
    <3>. QED BY <1>1, <2>3, <2>4
  <2>6. \/ PathPolicyResult(case) = Result(case, "unavailable", NoScore)
        \/ PathPolicyResult(case) = Result(case, "error", NoScore)
        \/ PathPolicyResult(case) = Result(case, status, score)
    <3>. HIDE DEF score, status
    <3>1. CASE tree[case.script] = "absent"
      BY <3>1 DEF PathPolicyResult
    <3>2. CASE tree[case.script] = "flood"
      BY <3>2 DEF PathPolicyResult
    <3>3. CASE tree[case.script] \notin {"absent", "flood"}
      BY <3>3 DEF PathPolicyResult, score, status, correct
    <3>. QED BY <3>1, <3>2, <3>3
  <2>. HIDE DEF Good, status, score
  <2>. QED BY <1>3, <2>5, <2>6
<1>5. Good(CommandResult(case, sdk))
  <2>. HIDE DEF Good
  <2>. QED BY <1>3 DEF CommandResult
<1>6. Good(ProbeResult(case))
  <2>. HIDE DEF Good
  <2>. QED BY <1>3 DEF ProbeResult
<1>7. /\ Good(ModelResult(case, candidate, results))
      /\ candidate = NoCandidate => ModelResult(case, candidate, results).status # "passed"
  <2>. HIDE DEF Good
  <2>. QED BY <1>3 DEF ModelResult
<1>8. /\ case.kind \in CommandKinds => CaseResult(case, sdk, candidate, results) = CommandResult(case, sdk)
      /\ case.kind = "path_policy" => CaseResult(case, sdk, candidate, results) = PathPolicyResult(case)
      /\ case.kind = "capability_probe" => CaseResult(case, sdk, candidate, results) = ProbeResult(case)
      /\ case.kind \in ModelKinds =>
            CaseResult(case, sdk, candidate, results) = ModelResult(case, candidate, results)
  BY DEF CaseResult, CommandKinds, ModelKinds
<1>9. Good(CaseResult(case, sdk, candidate, results))
  <2>. HIDE DEF Good
  <2>. QED BY <1>4, <1>5, <1>6, <1>7, <1>8
<1>. QED BY <1>7, <1>8, <1>9

(* Sums and rounding.                                                         *)

LEMMA SumAtLeastZero ==
    ASSUME NEW n \in Nat, NEW a \in [1 .. n -> Int], \A i \in 1 .. n : a[i] >= 0
    PROVE  SumOf(a) \in Int /\ SumOf(a) >= 0
<1>1. PICK A : RunningTotal(A, a) /\ SumOf(a) = A[n] /\ Len(a) = n
  BY SumIsRunningTotal
<1>2. /\ \A k \in 0 .. n : A[k] \in Int
      /\ A[0] = 0 /\ \A k \in 1 .. n : A[k] = A[k - 1] + a[k]
  BY <1>1 DEF RunningTotal
<1>. DEFINE S == {k \in Nat : k <= n => A[k] >= 0}
<1>3. 0 \in S
  BY <1>2
<1>4. ASSUME NEW k \in Nat, k \in S PROVE k + 1 \in S
  <2>. SUFFICES ASSUME k + 1 <= n PROVE A[k + 1] >= 0
    OBVIOUS
  <2>1. k + 1 \in 1 .. n /\ k \in 0 .. n /\ (k + 1) - 1 = k /\ k <= n
    OBVIOUS
  <2>2. A[k] >= 0 /\ A[k] \in Int /\ a[k + 1] >= 0 /\ a[k + 1] \in Int
    BY <1>2, <1>4, <2>1
  <2>. QED BY <1>2, <2>1, <2>2
<1>5. n \in S
  <2>1. Nat \subseteq S
    <3>. HIDE DEF S
    <3>. QED BY <1>3, <1>4, CountingUp
  <2>. HIDE DEF S
  <2>. QED BY <2>1
<1>. QED BY <1>1, <1>2, <1>5

\* Bounds on two pairs of integers add up.
LEMMA BoundsAdd ==
    ASSUME NEW p \in Int, NEW q \in Int, NEW r \in Int,
           NEW x \in Int, NEW y \in Int, NEW z \in Int,
           p + q <= r, x + y <= z
    PROVE  (p + x) + (q + y) <= r + z
OBVIOUS

\* What holds of the terms of three sums holds of the sums.
LEMMA SumsBounded ==
    ASSUME NEW F \in Nat, NEW n \in Nat,
           NEW a \in [1 .. n -> Int], NEW b \in [1 .. n -> Int], NEW c \in [1 .. n -> Int],
           \A i \in 1 .. n : a[i] + b[i] <= F * c[i]
    PROVE  /\ SumOf(a) \in Int /\ SumOf(b) \in Int /\ SumOf(c) \in Int
           /\ SumOf(a) + SumOf(b) <= F * SumOf(c)
<1>1. PICK A : RunningTotal(A, a) /\ SumOf(a) = A[n] /\ Len(a) = n
  BY SumIsRunningTotal
<1>2. PICK B : RunningTotal(B, b) /\ SumOf(b) = B[n] /\ Len(b) = n
  BY SumIsRunningTotal
<1>3. PICK C : RunningTotal(C, c) /\ SumOf(c) = C[n] /\ Len(c) = n
  BY SumIsRunningTotal
<1>4. /\ \A k \in 0 .. n : A[k] \in Int /\ B[k] \in Int /\ C[k] \in Int
      /\ A[0] = 0 /\ B[0] = 0 /\ C[0] = 0
      /\ \A k \in 1 .. n : A[k] = A[k - 1] + a[k] /\ B[k] = B[k - 1] + b[k] /\ C[k] = C[k - 1] + c[k]
  BY <1>1, <1>2, <1>3 DEF RunningTotal
<1>. DEFINE S == {k \in Nat : k <= n => A[k] + B[k] <= F * C[k]}
<1>5. 0 \in S
  BY <1>4
<1>6. ASSUME NEW k \in Nat, k \in S PROVE k + 1 \in S
  <2>. SUFFICES ASSUME k + 1 <= n PROVE A[k + 1] + B[k + 1] <= F * C[k + 1]
    OBVIOUS
  <2>1. k + 1 \in 1 .. n /\ k \in 0 .. n /\ (k + 1) - 1 = k /\ k <= n
    OBVIOUS
  <2>2. /\ A[k] + B[k] <= F * C[k]
        /\ A[k] \in Int /\ B[k] \in Int /\ C[k] \in Int
        /\ a[k + 1] \in Int /\ b[k + 1] \in Int /\ c[k + 1] \in Int
        /\ a[k + 1] + b[k + 1] <= F * c[k + 1]
    BY <1>4, <1>6, <2>1
  <2>3. A[k + 1] = A[k] + a[k + 1] /\ B[k + 1] = B[k] + b[k + 1] /\ C[k + 1] = C[k] + c[k + 1]
    BY <1>4, <2>1
  <2>4. /\ F * C[k] \in Int /\ F * c[k + 1] \in Int
        /\ F * (C[k] + c[k + 1]) = F * C[k] + F * c[k + 1]
    BY <2>2
  <2>5. (A[k] + a[k + 1]) + (B[k] + b[k + 1]) <= F * C[k] + F * c[k + 1]
    BY <2>2, <2>4, BoundsAdd, Zenon
  <2>. QED BY <2>3, <2>4, <2>5, Zenon
<1>7. n \in S
  <2>1. Nat \subseteq S
    <3>. HIDE DEF S
    <3>. QED BY <1>5, <1>6, CountingUp
  <2>. HIDE DEF S
  <2>. QED BY <2>1
<1>. QED BY <1>1, <1>2, <1>3, <1>4, <1>7

\* Rounding moves a ratio by half a unit at most.
LEMMA RoundedNear ==
    ASSUME NEW n \in Nat, NEW d \in Nat, d > 0
    PROVE  /\ Rounded(n, d) \in Int
           /\ 2 * (d * Rounded(n, d)) <= 2 * (n * RatioScale) + d
<1>. DEFINE x == n * RatioScale
            q == x \div d
            r == x % d
<1>1. x \in Int
  BY FullIsPositive
<1>. HIDE DEF x
<1>2. q \in Int /\ r \in 0 .. d - 1 /\ x = d * q + r
  BY <1>1
<1>3. Rounded(n, d) = IF 2 * r > d \/ (2 * r = d /\ q % 2 = 1) THEN q + 1 ELSE q
  BY DEF Rounded, x
<1>. HIDE DEF q, r
<1>4. CASE 2 * r >= d /\ Rounded(n, d) = q + 1
  <2>1. d * (q + 1) = d * q + d
    BY <1>2
  <2>. QED BY <1>1, <1>2, <1>4, <2>1 DEF x
<1>5. CASE Rounded(n, d) = q
  BY <1>1, <1>2, <1>5 DEF x
<1>. QED BY <1>2, <1>3, <1>4, <1>5

\* Rounding keeps the order.
LEMMA RoundedInOrder ==
    ASSUME NEW m \in Nat, NEW n \in Nat, NEW d \in Nat, m <= n
    PROVE  Rounded(m, d) <= Rounded(n, d)
<1>1. CASE d = 0
  BY <1>1 DEF Rounded
<1>2. CASE d > 0
  <2>. DEFINE x == m * RatioScale
              y == n * RatioScale
              p == x \div d
              q == y \div d
              r == x % d
              t == y % d
  <2>1. x \in Int /\ y \in Int /\ x <= y
    <3>1. (n - m) * RatioScale >= 0 /\ (n - m) * RatioScale = n * RatioScale - m * RatioScale
      BY FullIsPositive
    <3>. QED BY <3>1, FullIsPositive
  <2>2. /\ Rounded(m, d) = IF 2 * r > d \/ (2 * r = d /\ p % 2 = 1) THEN p + 1 ELSE p
        /\ Rounded(n, d) = IF 2 * t > d \/ (2 * t = d /\ q % 2 = 1) THEN q + 1 ELSE q
    BY <1>2 DEF Rounded
  <2>. HIDE DEF x, y
  <2>3. /\ p \in Int /\ r \in 0 .. d - 1 /\ x = d * p + r
        /\ q \in Int /\ t \in 0 .. d - 1 /\ y = d * q + t
    BY <1>2, <2>1
  <2>. HIDE DEF p, q, r, t
  <2>4. p <= q
    <3>1. p > q => d * (p - q) >= d
      BY <1>2, <2>3
    <3>2. d * (p - q) = d * p - d * q
      BY <2>3
    <3>. QED BY <2>1, <2>3, <3>1, <3>2
  <2>5. CASE p < q
    BY <2>2, <2>3, <2>5
  <2>6. CASE p = q
    <3>1. r <= t
      BY <2>1, <2>3, <2>6
    <3>. QED BY <2>2, <2>3, <2>6, <3>1
  <2>. QED BY <2>3, <2>4, <2>5, <2>6
<1>. QED BY <1>1, <1>2

\* What the points of the chosen results sum up to.
LEMMA PointsOf ==
    ASSUME NEW results, IsSequence(results), \A i \in DOMAIN results : ResultSound(results[i]),
           NEW chosen \in SUBSET DOMAIN results
    PROVE  /\ Earned(results, chosen) \in Nat /\ Missing(results, chosen) \in Nat
           /\ Weighted(results, chosen) \in Nat /\ Weighted(results, Measured(results, chosen)) \in Nat
           /\ Earned(results, chosen) + Missing(results, chosen) <= Full * Weighted(results, chosen)
           /\ Earned(results, chosen) <= Full * Weighted(results, Measured(results, chosen))
<1>. DEFINE n == Len(results)
            measured == Measured(results, chosen)
            w == [i \in DOMAIN results |-> IF i \in chosen THEN results[i].weight ELSE 0]
            v == [i \in DOMAIN results |-> IF i \in measured THEN results[i].weight ELSE 0]
            e == [i \in DOMAIN results |-> IF i \in chosen /\ results[i].score # NoScore
                                           THEN results[i].weight * results[i].score ELSE 0]
            f == [i \in DOMAIN results |->
                    IF i \in chosen /\ results[i].status # "passed"
                    THEN results[i].weight * (IF results[i].score = NoScore THEN Full ELSE Full - results[i].score)
                    ELSE 0]
            z == [i \in 1 .. n |-> 0]
<1>0. Full \in Nat /\ Full > 0
  BY FullIsPositive
<1>1. n \in Nat /\ DOMAIN results = 1 .. n
  BY DEF IsSequence
<1>. HIDE DEF n
<1>2. \A i \in 1 .. n :
         /\ w[i] \in Nat /\ v[i] \in Nat /\ e[i] \in Nat /\ f[i] \in Nat
         /\ e[i] + f[i] <= Full * w[i] /\ e[i] <= Full * v[i]
  <2>. SUFFICES ASSUME NEW i \in 1 .. n
                PROVE  /\ w[i] \in Nat /\ v[i] \in Nat /\ e[i] \in Nat /\ f[i] \in Nat
                       /\ e[i] + f[i] <= Full * w[i] /\ e[i] <= Full * v[i]
    OBVIOUS
  <2>. DEFINE g == results[i].weight
              t == results[i].score
  <2>1. /\ g \in Nat \ {0} /\ t \in -1 .. Full
        /\ t > 0 => results[i].status \in {"passed", "failed", "error"}
    BY <1>1 DEF ResultSound, NoScore
  <2>2. i \in DOMAIN results
    BY <1>1
  <2>3. i \in measured <=> i \in chosen /\ results[i].status \in {"passed", "failed", "error"}
    BY DEF Measured
  <2>. HIDE DEF measured
  <2>4. CASE i \notin chosen
    <3>1. w[i] = 0 /\ v[i] = 0 /\ e[i] = 0 /\ f[i] = 0
      BY <2>2, <2>3, <2>4
    <3>. HIDE DEF w, v, e, f
    <3>. QED BY <1>0, <3>1
  <2>5. CASE i \in chosen
    <3>1. /\ w[i] = g
          /\ v[i] = IF results[i].status \in {"passed", "failed", "error"} THEN g ELSE 0
          /\ e[i] = IF t # -1 THEN g * t ELSE 0
          /\ f[i] = IF results[i].status # "passed" THEN g * (IF t = -1 THEN Full ELSE Full - t) ELSE 0
      BY <2>2, <2>3, <2>5 DEF NoScore
    <3>. HIDE DEF w, v, e, f, g, t
    <3>2. /\ Full * g \in Nat /\ Full * 0 = 0 /\ g * Full = Full * g
          /\ t # -1 => /\ g * t \in Nat /\ g * (Full - t) \in Nat
                       /\ g * t + g * (Full - t) = Full * g
          /\ g * 0 = 0
      <4>1. g \in Nat /\ t \in Int /\ (t # -1 => t >= 0 /\ Full - t >= 0)
        BY <1>0, <2>1
      <4>2. t # -1 => g * t >= 0 /\ g * (Full - t) >= 0
        BY <1>0, <4>1
      <4>3. g * (Full - t) = g * Full - g * t /\ g * t \in Int /\ g * Full \in Int /\ g * Full >= 0
        BY <1>0, <4>1
      <4>. QED BY <1>0, <4>1, <4>2, <4>3
    <3>3. e[i] \in Nat /\ f[i] \in Nat /\ e[i] + f[i] <= Full * w[i]
      BY <2>1, <3>1, <3>2
    <3>4. e[i] <= Full * v[i]
      <4>1. CASE t > 0
        BY <1>0, <2>1, <3>1, <3>2, <4>1
      <4>2. CASE t = 0 \/ t = -1
        <5>1. e[i] = 0 /\ Full * v[i] >= 0
          BY <1>0, <2>1, <3>1, <3>2, <4>2
        <5>2. Full * v[i] \in Int
          BY <1>0, <2>1, <3>1, <3>2
        <5>. QED BY <5>1, <5>2
      <4>. QED BY <1>0, <2>1, <4>1, <4>2
    <3>. QED BY <2>1, <3>1, <3>3, <3>4
  <2>. QED BY <2>4, <2>5
<1>3. /\ w \in [1 .. n -> Int] /\ v \in [1 .. n -> Int] /\ e \in [1 .. n -> Int] /\ f \in [1 .. n -> Int]
      /\ z \in [1 .. n -> Int] /\ \A i \in 1 .. n : z[i] = 0
  <2>1. DOMAIN w = 1 .. n /\ DOMAIN v = 1 .. n /\ DOMAIN e = 1 .. n /\ DOMAIN f = 1 .. n
    BY <1>1
  <2>2. w = [i \in 1 .. n |-> w[i]] /\ v = [i \in 1 .. n |-> v[i]]
        /\ e = [i \in 1 .. n |-> e[i]] /\ f = [i \in 1 .. n |-> f[i]]
    BY <1>1
  <2>. HIDE DEF w, v, e, f
  <2>. QED BY <1>2, <2>2
<1>4. /\ Earned(results, chosen) = SumOf(e) /\ Missing(results, chosen) = SumOf(f)
      /\ Weighted(results, chosen) = SumOf(w) /\ Weighted(results, measured) = SumOf(v)
  BY DEF Earned, Missing, Weighted
<1>. HIDE DEF w, v, e, f, z, measured
<1>5. SumOf(e) \in Nat /\ SumOf(f) \in Nat /\ SumOf(w) \in Nat /\ SumOf(v) \in Nat /\ SumOf(z) >= 0
  <2>1. /\ \A i \in 1 .. n : e[i] >= 0 /\ f[i] >= 0 /\ w[i] >= 0 /\ v[i] >= 0 /\ z[i] >= 0
    BY <1>2, <1>3
  <2>2. SumOf(e) \in Int /\ SumOf(e) >= 0
    BY <1>1, <1>3, <2>1, SumAtLeastZero
  <2>3. SumOf(f) \in Int /\ SumOf(f) >= 0
    BY <1>1, <1>3, <2>1, SumAtLeastZero
  <2>4. SumOf(w) \in Int /\ SumOf(w) >= 0
    BY <1>1, <1>3, <2>1, SumAtLeastZero
  <2>5. SumOf(v) \in Int /\ SumOf(v) >= 0
    BY <1>1, <1>3, <2>1, SumAtLeastZero
  <2>6. SumOf(z) \in Int /\ SumOf(z) >= 0
    BY <1>1, <1>3, <2>1, SumAtLeastZero
  <2>. QED BY <2>2, <2>3, <2>4, <2>5, <2>6
<1>6. SumOf(e) + SumOf(f) <= Full * SumOf(w)
  BY <1>0, <1>1, <1>2, <1>3, SumsBounded
<1>7. SumOf(e) <= Full * SumOf(v)
  <2>1. \A i \in 1 .. n : e[i] + z[i] <= Full * v[i]
    BY <1>2, <1>3
  <2>2. SumOf(e) + SumOf(z) <= Full * SumOf(v) /\ SumOf(z) \in Int
    BY <1>0, <1>1, <1>3, <2>1, SumsBounded
  <2>3. Full * SumOf(v) \in Int
    BY <1>0, <1>5
  <2>. QED BY <1>5, <2>2, <2>3
<1>. QED BY <1>4, <1>5, <1>6, <1>7 DEF measured

\* What is told of sound results is what TellsOf allows.
LEMMA AggregateTells ==
    ASSUME NEW results, IsSequence(results), \A i \in DOMAIN results : ResultSound(results[i]),
           NEW chosen \in SUBSET DOMAIN results
    PROVE  TellsOf(Aggregate(results, chosen), results, chosen)
<1>. DEFINE e == Earned(results, chosen)
            f == Missing(results, chosen)
            d == Full * Weighted(results, chosen)
            m == Full * Weighted(results, Measured(results, chosen))
<1>1. Aggregate(results, chosen).readiness = Rounded(e, d) /\ Aggregate(results, chosen).coverage = Rounded(m, d)
  BY DEF Aggregate, Readiness
<1>2. e \in Nat /\ f \in Nat /\ d \in Nat /\ m \in Nat /\ e + f <= d /\ e <= m
  <2>1. /\ e \in Nat /\ f \in Nat /\ e + f <= d /\ e <= m
        /\ Weighted(results, chosen) \in Nat /\ Weighted(results, Measured(results, chosen)) \in Nat
    BY PointsOf
  <2>. QED BY <2>1, FullIsPositive
<1>. HIDE DEF e, f, d, m
<1>3. Rounded(e, d) <= Rounded(m, d)
  BY <1>2, RoundedInOrder
<1>4. ASSUME Rounded(e, d) = RatioScale PROVE 2 * RatioScale * f <= d
  <2>1. RatioScale \in Nat /\ RatioScale > 0
    BY FullIsPositive
  <2>2. d > 0
    <3>1. d = 0 => Rounded(e, d) = 0
      BY DEF Rounded
    <3>. QED BY <1>2, <1>4, <2>1, <3>1
  <2>3. 2 * (d * RatioScale) <= 2 * (e * RatioScale) + d
    BY <1>2, <1>4, <2>2, RoundedNear
  <2>4. (d - e - f) * RatioScale >= 0
    BY <1>2, <2>1
  <2>5. (d - e - f) * RatioScale = d * RatioScale - e * RatioScale - f * RatioScale
    BY <1>2, <2>1
  <2>6. d * RatioScale \in Int /\ e * RatioScale \in Int /\ f * RatioScale \in Int
        /\ 2 * RatioScale * f = 2 * (f * RatioScale)
    BY <1>2, <2>1
  <2>. QED BY <1>2, <2>3, <2>4, <2>5, <2>6
<1>. QED BY <1>1, <1>3, <1>4 DEF TellsOf, f, d

-----------------------------------------------------------------------------
(* What a run and a recorded baseline hold.                                    *)

CaseKinds == CommandKinds \cup ModelKinds \cup {"path_policy", "capability_probe"}

ResultsSound(results) == IsSequence(results) /\ \A i \in DOMAIN results : ResultSound(results[i])

NoModelPass(results) ==
    \A i \in DOMAIN results : results[i].kind \in ModelKinds => results[i].status # "passed"

CasesSound(cases) ==
    /\ Len(cases) \in Nat /\ DOMAIN cases = 1 .. Len(cases)
    /\ \A i \in DOMAIN cases : CaseSound(cases[i]) /\ cases[i].kind \in CaseKinds

ReportTold(report) ==
    /\ ResultsSound(report.results)
    /\ report.summary = Aggregate(report.results, DOMAIN report.results)
    /\ \A c \in DOMAIN report.categories :
          report.categories[c] = Aggregate(report.results, OfCategory(report.results, c))

\* Unless a file was edited under it, a run has the results of the suite and files as they are.
OfPresent(run) ==
    ~run.edited =>
        /\ run.cases = Suites[tree["suite"]]
        /\ \A i \in DOMAIN run.results :
              run.results[i] = CaseResult(run.cases[i], run.sdk, run.candidate, ResultsBefore(run.results, i))

\* A run, whose purpose is a check only if an intact baseline was there to compare with.
RunSound(run) ==
    /\ run = [at |-> "cases", purpose |-> run.purpose, mode |-> run.mode, sdk |-> run.sdk,
              candidate |-> run.candidate, cases |-> run.cases, categories |-> run.categories,
              results |-> run.results, expected |-> run.expected, edited |-> run.edited]
    /\ CasesSound(run.cases) /\ ResultsSound(run.results)
    /\ OfPresent(run)
    /\ run.purpose = "check" =>
          /\ run.candidate = NoCandidate /\ run.sdk = FALSE /\ NoModelPass(run.results)
          /\ baseline.at = "recorded" /\ run.expected = baseline

BaselineSound ==
    /\ baseline = [at |-> "recorded", report |-> baseline.report, fingerprint |-> baseline.fingerprint]
    /\ ReportTold(baseline.fingerprint)

FilesKnown(held) ==
    DOMAIN held = DOMAIN ProjectFiles /\ \A f \in DOMAIN ProjectFiles : held[f] \in ProjectFiles[f]

\* The invariant of the benchmark.
BenchmarkInv ==
    /\ FilesKnown(tree) /\ FilesKnown(benchIndex)
    /\ benchRun.at = "cases" => RunSound(benchRun)
    /\ baseline.at \in {"none", "torn", "recorded"}
    /\ baseline.at = "recorded" => BaselineSound
    /\ benchCommand = "reproducible" => NoModelPass(baseline.report.results)

LEMMA ResultStill ==
    ASSUME tree' = tree
    PROVE  \A case, sdk, candidate, results :
              CaseResult(case, sdk, candidate, results)' = CaseResult(case, sdk, candidate, results)
BY DEF CaseResult, CommandResult, PathPolicyResult, ProbeResult, ModelResult, StatusOf, Result

\* A step that leaves the files alone need only see to the results of the new run.
LEMMA OfPresentStill ==
    ASSUME tree' = tree,
           ~benchRun'.edited =>
               /\ benchRun'.cases = Suites[tree["suite"]]
               /\ \A i \in DOMAIN benchRun'.results :
                     benchRun'.results[i] = CaseResult(benchRun'.cases[i], benchRun'.sdk, benchRun'.candidate,
                                                       ResultsBefore(benchRun'.results, i))
    PROVE  OfPresent(benchRun)'
BY ResultStill DEF OfPresent, ResultsBefore

\* A run that no step touches, over files that no step touches.
LEMMA RunStill ==
    ASSUME tree' = tree, benchRun' = benchRun, baseline' = baseline, RunSound(benchRun)
    PROVE  RunSound(benchRun)'
<1>1. OfPresent(benchRun)'
  BY OfPresentStill DEF RunSound, OfPresent
<1>. QED BY <1>1 DEF RunSound

LEMMA SuiteSound ==
    ASSUME NEW s \in ProjectFiles["suite"], SuiteValid(Suites[s], CategoriesOf[s])
    PROVE  CasesSound(Suites[s])
<1>. DEFINE cases == Suites[s]
<1>1. /\ Len(cases) \in Nat /\ DOMAIN cases = 1 .. Len(cases)
      /\ \A i \in DOMAIN cases :
            /\ cases[i].weight \in Int /\ IsFiniteSet(cases[i].paths)
            /\ cases[i].paths # {} => Full % Cardinality(cases[i].paths) = 0
  BY BenchmarkAssumption DEF BenchmarkAssumption
<1>2. \A i \in DOMAIN cases : CaseValid(cases[i], CategoriesOf[s])
  BY DEF SuiteValid
<1>. HIDE DEF cases
<1>3. \A i \in DOMAIN cases : cases[i].weight > 0 /\ cases[i].kind \in CaseKinds
  BY <1>2 DEF CaseValid, CaseKinds
<1>4. \A i \in DOMAIN cases : CaseSound(cases[i]) /\ cases[i].kind \in CaseKinds
  BY <1>1, <1>3 DEF CaseSound
<1>5. CasesSound(cases)
  BY <1>1, <1>4 DEF CasesSound
<1>. QED BY <1>5 DEF cases

LEMMA ReportIsTold ==
    ASSUME NEW run, ResultsSound(run.results)
    PROVE  ReportTold(Report(run))
<1>1. /\ Report(run).results = run.results
      /\ Report(run).summary = Aggregate(run.results, DOMAIN run.results)
      /\ Report(run).categories =
            [c \in run.categories |-> Aggregate(run.results, OfCategory(run.results, c))]
  BY DEF Report
<1>. HIDE DEF Report, OfCategory
<1>. QED BY <1>1 DEF ReportTold

LEMMA BenchmarkStarts == BenchmarkInit => BenchmarkInv
<1>. SUFFICES ASSUME BenchmarkInit PROVE BenchmarkInv
  OBVIOUS
<1>1. FilesKnown(tree) /\ FilesKnown(benchIndex)
  BY BenchmarkAssumption DEF BenchmarkAssumption, BenchmarkInit, FilesKnown
<1>2. benchRun.at = "idle" /\ baseline.at = "none" /\ benchCommand = "none"
  BY DEF BenchmarkInit, IdleRun
<1>. QED BY <1>1, <1>2 DEF BenchmarkInv

LEMMA BeginStep ==
    ASSUME BenchmarkInv, NEW purpose, NEW mode, NEW sdk, NEW candidate,
           BeginBenchmark(purpose, mode, sdk, candidate),
           purpose = "check" => candidate = NoCandidate /\ sdk = FALSE /\ baseline.at = "recorded"
    PROVE  BenchmarkInv'
<1>. DEFINE s == tree["suite"]
<1>1. /\ tree' = tree /\ benchIndex' = benchIndex /\ baseline' = baseline
      /\ benchCommand' \in {"running", "invalid_suite"}
  BY DEF BeginBenchmark
<1>2. s \in ProjectFiles["suite"]
  BY BenchmarkAssumption DEF BenchmarkAssumption, BenchmarkInv, FilesKnown
<1>3. benchRun'.at = "cases" => RunSound(benchRun)'
  <2>. SUFFICES ASSUME benchRun'.at = "cases" PROVE RunSound(benchRun)'
    OBVIOUS
  <2>1. benchRun.at = "idle"
    BY DEF BeginBenchmark
  <2>. DEFINE run == [at |-> "cases", purpose |-> purpose, mode |-> mode, sdk |-> sdk,
                      candidate |-> candidate, cases |-> Suites[s], categories |-> CategoriesOf[s],
                      results |-> <<>>, expected |-> baseline, edited |-> FALSE]
  <2>2. SuiteValid(Suites[s], CategoriesOf[s]) /\ benchRun' = run
    BY <2>1 DEF BeginBenchmark
  <2>3. CasesSound(Suites[s])
    BY <1>2, <2>2, SuiteSound
  <2>4. ResultsSound(<<>>) /\ NoModelPass(<<>>) /\ DOMAIN <<>> = {}
    <3>1. <<>> \in Seq({}) /\ DOMAIN <<>> = {}
      OBVIOUS
    <3>2. IsSequence(<<>>)
      BY <3>1, SequenceOfElements
    <3>. QED BY <3>1, <3>2 DEF ResultsSound, NoModelPass
  <2>5. /\ run = [at |-> "cases", purpose |-> run.purpose, mode |-> run.mode, sdk |-> run.sdk,
                  candidate |-> run.candidate, cases |-> run.cases, categories |-> run.categories,
                  results |-> run.results, expected |-> run.expected, edited |-> run.edited]
        /\ run.purpose = purpose /\ run.candidate = candidate /\ run.sdk = sdk /\ run.cases = Suites[s]
        /\ run.results = <<>> /\ run.expected = baseline
    OBVIOUS
  <2>. HIDE DEF run
  <2>6. OfPresent(benchRun)'
    <3>1. benchRun'.cases = Suites[tree'["suite"]] /\ DOMAIN benchRun'.results = {}
      BY <1>1, <2>2, <2>4, <2>5
    <3>. QED BY <3>1 DEF OfPresent
  <2>. HIDE DEF s
  <2>. QED BY <1>1, <2>2, <2>3, <2>4, <2>5, <2>6 DEF RunSound
<1>. QED BY <1>1, <1>3 DEF BenchmarkInv, BaselineSound, FilesKnown

LEMMA CaseStep == BenchmarkInv /\ ExecuteCase => BenchmarkInv'
<1>. SUFFICES ASSUME BenchmarkInv, ExecuteCase PROVE BenchmarkInv'
  OBVIOUS
<1>. DEFINE results == benchRun.results
            case == benchRun.cases[Len(results) + 1]
            outcome == CaseResult(case, benchRun.sdk, benchRun.candidate, results)
<1>1. /\ tree' = tree /\ benchIndex' = benchIndex /\ baseline' = baseline /\ benchCommand' = benchCommand
      /\ benchRun.at = "cases" /\ Len(results) < Len(benchRun.cases)
      /\ benchRun' = [benchRun EXCEPT !.results = Append(results, outcome)]
  BY DEF ExecuteCase
<1>2. RunSound(benchRun)
  BY <1>1 DEF BenchmarkInv
<1>3. IsSequence(results) /\ Len(results) \in Nat /\ DOMAIN results = 1 .. Len(results)
  <2>1. IsSequence(results)
    BY <1>2 DEF RunSound, ResultsSound
  <2>. HIDE DEF results
  <2>. QED BY <2>1 DEF IsSequence
<1>4. CaseSound(case) /\ case.kind \in CaseKinds
  <2>1. Len(results) + 1 \in DOMAIN benchRun.cases
    BY <1>1, <1>2, <1>3 DEF RunSound, CasesSound
  <2>. QED BY <1>2, <2>1 DEF RunSound, CasesSound
<1>5. /\ ResultSound(outcome) /\ outcome.kind = case.kind
      /\ benchRun.candidate = NoCandidate /\ case.kind \in ModelKinds => outcome.status # "passed"
  <2>. HIDE DEF case, results
  <2>. QED BY <1>4, CaseResultSound DEF CaseKinds
<1>. DEFINE new == Append(results, outcome)
<1>6. /\ benchRun'.at = "cases" /\ benchRun'.purpose = benchRun.purpose
      /\ benchRun'.candidate = benchRun.candidate /\ benchRun'.cases = benchRun.cases
      /\ benchRun'.results = new /\ benchRun'.expected = benchRun.expected
      /\ benchRun'.sdk = benchRun.sdk /\ benchRun'.edited = benchRun.edited
      /\ benchRun' = [at |-> "cases", purpose |-> benchRun'.purpose, mode |-> benchRun'.mode,
              sdk |-> benchRun'.sdk, candidate |-> benchRun'.candidate, cases |-> benchRun'.cases,
              categories |-> benchRun'.categories, results |-> benchRun'.results,
              expected |-> benchRun'.expected, edited |-> benchRun'.edited]
  <2>. HIDE DEF new, outcome
  <2>1. benchRun' = [benchRun EXCEPT !.results = new]
    BY <1>1 DEF new
  <2>. QED BY <1>2, <2>1 DEF RunSound
<1>. HIDE DEF outcome, case, results
<1>7. /\ IsSequence(new) /\ DOMAIN new = 1 .. Len(results) + 1
      /\ \A i \in 1 .. Len(results) : new[i] = results[i]
      /\ new[Len(results) + 1] = outcome
  BY <1>3, AppendedElement
<1>. HIDE DEF new
<1>8. ResultsSound(new)
  <2>1. ASSUME NEW i \in DOMAIN new PROVE ResultSound(new[i])
    <3>1. i = Len(results) + 1 \/ i \in 1 .. Len(results)
      BY <1>3, <1>7
    <3>2. \A j \in DOMAIN results : ResultSound(results[j])
      BY <1>2 DEF RunSound, ResultsSound, results
    <3>. QED BY <1>3, <1>5, <1>7, <3>1, <3>2
  <2>. QED BY <1>7, <2>1 DEF ResultsSound
<1>9. benchRun.purpose = "check" => NoModelPass(new)
  <2>. SUFFICES ASSUME benchRun.purpose = "check", NEW i \in DOMAIN new, new[i].kind \in ModelKinds
                PROVE  new[i].status # "passed"
    BY DEF NoModelPass
  <2>1. i = Len(results) + 1 \/ i \in 1 .. Len(results)
    BY <1>3, <1>7
  <2>2. benchRun.candidate = NoCandidate /\ NoModelPass(results)
    BY <1>2 DEF RunSound, results
  <2>. QED BY <1>3, <1>5, <1>7, <2>1, <2>2 DEF NoModelPass
<1>10. OfPresent(benchRun)'
  <2>. SUFFICES ASSUME ~benchRun.edited
                PROVE  /\ benchRun.cases = Suites[tree["suite"]]
                       /\ \A i \in DOMAIN new :
                             new[i] = CaseResult(benchRun.cases[i], benchRun.sdk, benchRun.candidate,
                                                 ResultsBefore(new, i))
    BY <1>1, <1>6, OfPresentStill
  <2>1. /\ benchRun.cases = Suites[tree["suite"]]
        /\ \A i \in DOMAIN results :
              results[i] = CaseResult(benchRun.cases[i], benchRun.sdk, benchRun.candidate, ResultsBefore(results, i))
    BY <1>2 DEF RunSound, OfPresent, results
  <2>2. ASSUME NEW i \in DOMAIN new
        PROVE  new[i] = CaseResult(benchRun.cases[i], benchRun.sdk, benchRun.candidate, ResultsBefore(new, i))
    <3>1. CASE i \in 1 .. Len(results)
      <4>1. ResultsBefore(new, i) = ResultsBefore(results, i)
        BY <1>3, <1>7, <3>1 DEF ResultsBefore
      <4>. QED BY <1>3, <1>7, <2>1, <3>1, <4>1
    <3>2. CASE i = Len(results) + 1
      <4>1. ResultsBefore(new, i) = results
        <5>1. (Len(results) + 1) - 1 = Len(results)
          BY <1>3
        <5>2. results = [j \in 1 .. Len(results) |-> results[j]]
          <6>1. results \in Seq(ElementsOf(results))
            BY <1>3 DEF IsSequence
          <6>. QED BY <1>3, <6>1
        <5>3. ResultsBefore(new, i) = [j \in 1 .. Len(results) |-> new[j]]
          BY <3>2, <5>1 DEF ResultsBefore
        <5>. QED BY <1>7, <5>2, <5>3
      <4>. QED BY <1>7, <3>2, <4>1 DEF outcome, case
    <3>. QED BY <1>3, <1>7, <2>2, <3>1, <3>2
  <2>. QED BY <2>1, <2>2
<1>11. RunSound(benchRun)'
  BY <1>1, <1>2, <1>6, <1>8, <1>9, <1>10 DEF RunSound
<1>. QED BY <1>1, <1>11 DEF BenchmarkInv, BaselineSound, FilesKnown

LEMMA FinishStep ==
    ASSUME BenchmarkInv, FinishCheck \/ \E dies \in BOOLEAN : FinishRun(dies)
    PROVE  BenchmarkInv'
<1>1. tree' = tree /\ benchIndex' = benchIndex /\ benchRun'.at = "idle" /\ benchRun.at = "cases"
  BY DEF FinishCheck, FinishRun, IdleRun
<1>2. RunSound(benchRun)
  BY <1>1 DEF BenchmarkInv
<1>3. CASE FinishCheck
  <2>1. baseline' = baseline /\ benchRun.purpose = "check"
    BY <1>3 DEF FinishCheck
  <2>2. benchCommand' = "reproducible" => Report(benchRun) = baseline.report
    BY <1>2, <1>3, <2>1 DEF FinishCheck, RunSound, Reproduced
  <2>3. Report(benchRun).results = benchRun.results
    BY DEF Report
  <2>4. benchCommand' = "reproducible" => NoModelPass(baseline.report.results)
    BY <1>2, <2>1, <2>2, <2>3 DEF RunSound
  <2>. QED BY <1>1, <2>1, <2>4 DEF BenchmarkInv, BaselineSound, FilesKnown
<1>4. CASE \E dies \in BOOLEAN : FinishRun(dies)
  <2>1. benchCommand' # "reproducible"
    BY <1>4 DEF FinishRun
  <2>. DEFINE report == Report(benchRun)
  <2>2. \/ baseline' = [at |-> "torn"]
        \/ baseline' = [at |-> "recorded", report |-> report, fingerprint |-> report]
    BY <1>4 DEF FinishRun
  <2>3. ReportTold(report)
    BY <1>2, ReportIsTold DEF RunSound
  <2>. HIDE DEF report
  <2>4. baseline'.at \in {"torn", "recorded"}
    BY <2>2
  <2>5. baseline'.at = "recorded" => BaselineSound'
    <3>. SUFFICES ASSUME baseline'.at = "recorded" PROVE BaselineSound'
      OBVIOUS
    <3>1. baseline' = [at |-> "recorded", report |-> report, fingerprint |-> report]
      BY <2>2
    <3>2. baseline'.report = report /\ baseline'.fingerprint = report
      BY <3>1
    <3>. QED BY <2>3, <3>1, <3>2, Zenon DEF BaselineSound
  <2>. QED BY <1>1, <2>1, <2>4, <2>5 DEF BenchmarkInv, FilesKnown
<1>. QED BY <1>3, <1>4

LEMMA EditStep ==
    ASSUME BenchmarkInv,
           \/ EditBaseline \/ \E f \in DOMAIN ProjectFiles : StageFile(f)
           \/ \E f \in DOMAIN ProjectFiles : \E content \in ProjectFiles[f] : EditFile(f, content)
    PROVE  BenchmarkInv'
<1>1. CASE EditBaseline
  <2>1. PICK i : baseline' = [baseline EXCEPT !.report.results[i].status = "passed"]
    BY <1>1 DEF EditBaseline
  <2>2. /\ baseline.at = "recorded" /\ benchRun.at = "idle" /\ benchCommand' = "none"
        /\ tree' = tree /\ benchIndex' = benchIndex /\ benchRun' = benchRun
    BY <1>1 DEF EditBaseline
  <2>3. baseline = [at |-> "recorded", report |-> baseline.report, fingerprint |-> baseline.fingerprint]
    BY <2>2 DEF BenchmarkInv, BaselineSound
  <2>4. PICK report : baseline' = [baseline EXCEPT !.report = report]
    BY <2>1
  <2>5. /\ baseline'.at = "recorded" /\ baseline'.report = report
        /\ baseline'.fingerprint = baseline.fingerprint
        /\ baseline' = [at |-> "recorded", report |-> baseline'.report, fingerprint |-> baseline'.fingerprint]
    BY <2>3, <2>4
  <2>. QED BY <2>2, <2>5 DEF BenchmarkInv, BaselineSound, FilesKnown
<1>2. CASE \E f \in DOMAIN ProjectFiles : \E content \in ProjectFiles[f] : EditFile(f, content)
  <2>1. PICK f \in DOMAIN ProjectFiles : \E content \in ProjectFiles[f] : EditFile(f, content)
    BY <1>2
  <2>0. PICK content \in ProjectFiles[f] : EditFile(f, content)
    BY <2>1
  <2>2. FilesKnown(tree)' /\ FilesKnown(benchIndex)'
    BY <2>0 DEF EditFile, BenchmarkInv, FilesKnown
  <2>3. /\ baseline' = baseline /\ benchCommand' = benchCommand
        /\ benchRun' = IF benchRun.at = "cases" THEN [benchRun EXCEPT !.edited = TRUE] ELSE benchRun
    BY <2>0 DEF EditFile
  <2>4. benchRun'.at = "cases" => RunSound(benchRun)'
    <3>. SUFFICES ASSUME benchRun'.at = "cases" PROVE RunSound(benchRun)'
      OBVIOUS
    <3>1. benchRun.at = "cases" /\ RunSound(benchRun) /\ benchRun' = [benchRun EXCEPT !.edited = TRUE]
      BY <2>3 DEF BenchmarkInv
    <3>2. /\ benchRun' = [at |-> "cases", purpose |-> benchRun'.purpose, mode |-> benchRun'.mode,
                sdk |-> benchRun'.sdk, candidate |-> benchRun'.candidate, cases |-> benchRun'.cases,
                categories |-> benchRun'.categories, results |-> benchRun'.results,
                expected |-> benchRun'.expected, edited |-> benchRun'.edited]
          /\ benchRun'.purpose = benchRun.purpose /\ benchRun'.candidate = benchRun.candidate
          /\ benchRun'.cases = benchRun.cases /\ benchRun'.results = benchRun.results
          /\ benchRun'.expected = benchRun.expected /\ benchRun'.sdk = benchRun.sdk
          /\ benchRun'.edited = TRUE
      BY <3>1 DEF RunSound
    <3>3. OfPresent(benchRun)'
      BY <3>2 DEF OfPresent
    <3>. QED BY <2>3, <3>1, <3>2, <3>3 DEF RunSound
  <2>. QED BY <2>2, <2>3, <2>4 DEF BenchmarkInv, BaselineSound
<1>3. CASE \E f \in DOMAIN ProjectFiles : StageFile(f)
  <2>1. PICK f \in DOMAIN ProjectFiles : StageFile(f)
    BY <1>3
  <2>2. /\ tree' = tree /\ benchRun' = benchRun /\ baseline' = baseline /\ benchCommand' = benchCommand
        /\ FilesKnown(benchIndex)'
    BY <2>1 DEF StageFile, BenchmarkInv, FilesKnown
  <2>. QED BY <2>2, RunStill DEF BenchmarkInv, BaselineSound, FilesKnown
<1>. QED BY <1>1, <1>2, <1>3

(* The invariant bears out what a reader of a baseline, and of a check, is told. *)
LEMMA ReadyIsEarned == BenchmarkInv => ReadinessEarned
<1>. SUFFICES ASSUME BenchmarkInv PROVE ReadinessEarned
  OBVIOUS
<1>. DEFINE report == baseline.fingerprint
<1>1. ASSUME baseline.at = "recorded"
      PROVE  /\ TellsOf(report.summary, report.results, DOMAIN report.results)
             /\ \A c \in DOMAIN report.categories :
                   TellsOf(report.categories[c], report.results, OfCategory(report.results, c))
  <2>1. ReportTold(report)
    BY <1>1 DEF BenchmarkInv, BaselineSound
  <2>. HIDE DEF report
  <2>2. ASSUME NEW chosen \in SUBSET DOMAIN report.results
        PROVE  TellsOf(Aggregate(report.results, chosen), report.results, chosen)
    BY <2>1, AggregateTells DEF ReportTold, ResultsSound
  <2>3. \A c : OfCategory(report.results, c) \in SUBSET DOMAIN report.results
    BY DEF OfCategory
  <2>4. DOMAIN report.results \in SUBSET DOMAIN report.results
    OBVIOUS
  <2>. QED BY <2>1, <2>2, <2>3, <2>4 DEF ReportTold
<1>2. ASSUME benchRun.at = "cases" PROVE VouchesForPresent(benchRun)
  <2>. DEFINE told == benchRun.expected.report.results
              cases == Suites[tree["suite"]]
  <2>. SUFFICES ASSUME benchRun.purpose = "check", Len(benchRun.results) = Len(benchRun.cases),
                       ~benchRun.edited, Reproduced(Report(benchRun), benchRun.expected.report)
                PROVE  /\ DOMAIN told = DOMAIN cases
                       /\ \A i \in DOMAIN cases :
                             told[i] = CaseResult(cases[i], FALSE, NoCandidate, ResultsBefore(told, i))
    BY DEF VouchesForPresent
  <2>1. RunSound(benchRun)
    BY <1>2 DEF BenchmarkInv
  <2>2. told = benchRun.results
    BY DEF Reproduced, Report
  <2>. HIDE DEF told
  <2>3. DOMAIN benchRun.results = DOMAIN benchRun.cases
    BY <2>1 DEF RunSound, CasesSound, ResultsSound, IsSequence
  <2>4. /\ benchRun.cases = cases /\ benchRun.sdk = FALSE /\ benchRun.candidate = NoCandidate
        /\ \A i \in DOMAIN benchRun.results :
              benchRun.results[i] = CaseResult(benchRun.cases[i], benchRun.sdk, benchRun.candidate,
                                               ResultsBefore(benchRun.results, i))
    BY <2>1 DEF RunSound, OfPresent
  <2>. HIDE DEF cases
  <2>. QED BY <2>2, <2>3, <2>4
<1>3. benchCommand = "reproducible" => NoModelPass(baseline.report.results)
  BY DEF BenchmarkInv
<1>. QED BY <1>1, <1>2, <1>3, Zenon DEF ReadinessEarned, NoModelPass

\* What runs and what was recorded stay sound.
LEMMA BenchmarkInvariant == BenchmarkSpec => []BenchmarkInv
<1>1. BenchmarkInit => BenchmarkInv
  BY BenchmarkStarts
<1>2. BenchmarkInv /\ [BenchmarkNext]_benchVars => BenchmarkInv'
  <2>. SUFFICES ASSUME BenchmarkInv, [BenchmarkNext]_benchVars PROVE BenchmarkInv'
    OBVIOUS
  <2>1. ASSUME NEW mode, NEW sdk, NEW candidate, RunBenchmark(mode, sdk, candidate) PROVE BenchmarkInv'
    BY <2>1, BeginStep DEF RunBenchmark
  <2>2. CASE CheckBenchmark
    <3>1. CASE BaselineState = "intact"
      <4>1. baseline.at = "recorded"
        BY <3>1 DEF BenchmarkInv, BaselineState
      <4>2. BeginBenchmark("check", "portable", FALSE, NoCandidate)
        BY <2>2, <3>1 DEF CheckBenchmark
      <4>. QED BY <4>1, <4>2, BeginStep
    <3>2. CASE BaselineState # "intact"
      <4>1. /\ tree' = tree /\ benchIndex' = benchIndex /\ benchRun' = benchRun /\ baseline' = baseline
            /\ benchCommand' = BaselineState
        BY <2>2, <3>2 DEF CheckBenchmark
      <4>2. benchCommand' # "reproducible"
        BY <4>1 DEF BenchmarkInv, BaselineState
      <4>. QED BY <4>1, <4>2, RunStill DEF BenchmarkInv, BaselineSound, FilesKnown
    <3>. QED BY <3>1, <3>2
  <2>3. CASE ExecuteCase
    BY <2>3, CaseStep
  <2>4. CASE FinishCheck \/ \E dies \in BOOLEAN : FinishRun(dies)
    BY <2>4, FinishStep
  <2>5. CASE \/ EditBaseline \/ \E f \in DOMAIN ProjectFiles : StageFile(f)
             \/ \E f \in DOMAIN ProjectFiles : \E content \in ProjectFiles[f] : EditFile(f, content)
    BY <2>5, EditStep
  <2>6. CASE ValidateSuite \/ \E id \in {"analysis", "model"}, empty \in BOOLEAN : Materialize(id, empty)
    <3>1. /\ tree' = tree /\ benchIndex' = benchIndex /\ benchRun' = benchRun /\ baseline' = baseline
          /\ benchCommand' # "reproducible"
      BY <2>6 DEF ValidateSuite, Materialize
    <3>. QED BY <3>1, RunStill DEF BenchmarkInv, BaselineSound, FilesKnown
  <2>7. CASE UNCHANGED benchVars
    BY <2>7, RunStill DEF benchVars, BenchmarkInv, BaselineSound, FilesKnown
  <2>. QED BY <2>1, <2>2, <2>3, <2>4, <2>5, <2>6, <2>7 DEF BenchmarkNext
<1>. QED BY <1>1, <1>2, PTL DEF BenchmarkSpec

\* ReadinessEarned, of any suites and weights, any scale of rounding, any contents of the
\* files and the index and any number of runs and edits: what was not measured does not count
\* as ready, a readiness of one hides no more than the rounding does, a check that nobody
\* edited under vouches for the project as it is, and a baseline that it reproduces claims no
\* pass of a model's answer.
THEOREM ReadinessIsEarned == BenchmarkSpec => []ReadinessEarned
BY BenchmarkInvariant, ReadyIsEarned, PTL

(* The benchmark runs or not, and counts.                                     *)
BenchmarkCounted ==
    benchRun.at \in {"idle", "cases"} /\ edits \in 0 .. MaxEdits /\ runs \in 0 .. MaxRuns

LEMMA BenchmarkStaysCounted ==
    BenchmarkInv /\ BenchmarkCounted /\ [BenchmarkNext]_benchVars => BenchmarkCounted'
<1>. SUFFICES ASSUME BenchmarkInv, BenchmarkCounted, [BenchmarkNext]_benchVars PROVE BenchmarkCounted'
  OBVIOUS
<1>0. MaxEdits \in Nat /\ MaxRuns \in Nat
  BY BenchmarkAssumption DEF BenchmarkAssumption
<1>a. ASSUME NEW purpose, NEW mode, NEW sdk, NEW candidate, BeginBenchmark(purpose, mode, sdk, candidate)
      PROVE  BenchmarkCounted'
  BY <1>0, <1>a DEF BeginBenchmark, BenchmarkCounted
<1>1. ASSUME NEW mode, NEW sdk, NEW candidate, RunBenchmark(mode, sdk, candidate) PROVE BenchmarkCounted'
  BY <1>1, <1>a DEF RunBenchmark
<1>2. CASE CheckBenchmark
  <2>1. CASE BaselineState = "intact"
    <3>1. BeginBenchmark("check", "portable", FALSE, NoCandidate)
      BY <1>2, <2>1 DEF CheckBenchmark
    <3>. QED BY <1>a, <3>1
  <2>2. CASE BaselineState # "intact"
    BY <1>0, <1>2, <2>2 DEF CheckBenchmark, BenchmarkCounted
  <2>. QED BY <2>1, <2>2
<1>3. CASE ExecuteCase
  <2>1. PICK results : benchRun' = [benchRun EXCEPT !.results = results]
    BY <1>3 DEF ExecuteCase
  <2>2. RunSound(benchRun) /\ benchRun.at = "cases" /\ UNCHANGED <<edits, runs>>
    BY <1>3 DEF BenchmarkInv, ExecuteCase
  <2>3. benchRun'.at = "cases"
    BY <2>1, <2>2 DEF RunSound
  <2>. QED BY <2>2, <2>3 DEF BenchmarkCounted
<1>4. CASE FinishCheck \/ \E dies \in BOOLEAN : FinishRun(dies)
  BY <1>4 DEF FinishCheck, FinishRun, IdleRun, BenchmarkCounted
<1>5. CASE EditBaseline \/ \E f \in DOMAIN ProjectFiles : StageFile(f)
  BY <1>0, <1>5 DEF EditBaseline, StageFile, BenchmarkCounted
<1>8. CASE \E f \in DOMAIN ProjectFiles : \E content \in ProjectFiles[f] : EditFile(f, content)
  <2>1. /\ benchRun' = IF benchRun.at = "cases" THEN [benchRun EXCEPT !.edited = TRUE] ELSE benchRun
        /\ edits < MaxEdits /\ edits' = edits + 1 /\ runs' = runs
    BY <1>8 DEF EditFile
  <2>2. benchRun'.at \in {"idle", "cases"}
    BY <2>1 DEF BenchmarkInv, RunSound, BenchmarkCounted
  <2>. QED BY <1>0, <2>1, <2>2 DEF BenchmarkCounted
<1>6. CASE ValidateSuite \/ \E id \in {"analysis", "model"}, empty \in BOOLEAN : Materialize(id, empty)
  <2>1. UNCHANGED <<benchRun, edits, runs>>
    BY <1>6 DEF ValidateSuite, Materialize
  <2>. QED BY <2>1 DEF BenchmarkCounted
<1>7. CASE UNCHANGED benchVars
  BY <1>7 DEF benchVars, BenchmarkCounted
<1>. QED BY <1>1, <1>2, <1>3, <1>4, <1>5, <1>6, <1>7, <1>8 DEF BenchmarkNext

(* The files hold what files may hold, and every result of a running benchmark   *)
(* has one of the statuses and at most the full score, for every suite.       *)
THEOREM BenchmarkTypeCorrect == BenchmarkSpec => []BenchmarkTypeOK
<1>1. BenchmarkInit => BenchmarkCounted
  BY BenchmarkAssumption DEF BenchmarkAssumption, BenchmarkInit, IdleRun, BenchmarkCounted
<1>2. BenchmarkInv /\ BenchmarkCounted => BenchmarkTypeOK
  BY DEF BenchmarkInv, BenchmarkCounted, BenchmarkTypeOK, RunSound, ResultsSound, ResultSound, FilesKnown
<1>. QED BY <1>1, <1>2, BenchmarkInvariant, BenchmarkStaysCounted, PTL DEF BenchmarkSpec

-----------------------------------------------------------------------------
(* The composition.  A step of one tool leaves the variables of all others    *)
(* alone, and a step of one part of a tool is a step of that tool.            *)

LEMMA ToolsStep ==
    ASSUME [Next]_vars
    PROVE
           /\ [CompilerNext]_compilerVars
           /\ [ProjectNext]_projectVars
           /\ [IntelligenceNext]_intelligenceVars
           /\ [ResearchNext]_researchVars
           /\ [SafetyNext]_safetyVars
           /\ [MemoryNext]_memoryVars
           /\ [InteropNext]_interopVars
           /\ [BenchmarkNext]_benchVars
           /\ [BundleNext]_bundleVars
           /\ [EvidenceStateNext]_evidenceVars
           /\ [HygieneNext \/ RulesNext]_governanceVars
           /\ [RoadmapNext]_roadmapVars
           /\ [ArchiveNext \/ QuestionsNext \/ CheckpointsNext]_releaseVars
           /\ [ExactNext]_exactVars
           /\ [AskNext \/ SoakNext \/ GuardNext \/ HarnessNext \/ FixtureNext]_gateVars
<1>1. CASE UNCHANGED vars
  BY <1>1 DEF vars
<1>2. CASE Next
  <2>1. [CompilerNext]_compilerVars
    BY <1>2 DEF Next, OthersStill
  <2>2. [ProjectNext]_projectVars
    BY <1>2 DEF Next, OthersStill, ProjectNext
  <2>3. [IntelligenceNext]_intelligenceVars
    BY <1>2 DEF Next, OthersStill, IntelligenceNext
  <2>4. [ResearchNext]_researchVars
    BY <1>2 DEF Next, OthersStill, ResearchNext
  <2>5. [SafetyNext]_safetyVars
    BY <1>2 DEF Next, OthersStill, SafetyNext
  <2>6. [MemoryNext]_memoryVars
    BY <1>2 DEF Next, OthersStill, MemoryNext
  <2>7. [InteropNext]_interopVars
    BY <1>2 DEF Next, OthersStill, InteropNext
  <2>8. [BenchmarkNext]_benchVars
    BY <1>2 DEF Next, OthersStill
  <2>9. [BundleNext]_bundleVars
    BY <1>2 DEF Next, OthersStill
  <2>10. [EvidenceStateNext]_evidenceVars
    BY <1>2 DEF Next, OthersStill
  <2>11. [HygieneNext \/ RulesNext]_governanceVars
    BY <1>2 DEF Next, OthersStill
  <2>12. [RoadmapNext]_roadmapVars
    BY <1>2 DEF Next, OthersStill
  <2>13. [ArchiveNext \/ QuestionsNext \/ CheckpointsNext]_releaseVars
    BY <1>2 DEF Next, OthersStill
  <2>14. [ExactNext]_exactVars
    BY <1>2 DEF Next, OthersStill
  <2>15. [AskNext \/ SoakNext \/ GuardNext \/ HarnessNext \/ FixtureNext]_gateVars
    BY <1>2 DEF Next, OthersStill
  <2>. QED BY <2>1, <2>2, <2>3, <2>4, <2>5, <2>6, <2>7, <2>8, <2>9, <2>10, <2>11, <2>12, <2>13, <2>14, <2>15
<1>. QED BY <1>1, <1>2

\* The composition is a composition of the tools: each of its behaviours is one of theirs, so that
\* whatever is proved of a tool holds in it.
THEOREM DeliveryImplementsComponents ==
    Spec => /\ CompilerSpec /\ ProjectSpec /\ IntelligenceSpec /\ ResearchSpec /\ SafetySpec
            /\ MemorySpec /\ InteropSpec /\ BenchmarkSpec /\ BundleSpec /\ EvidenceSpec
            /\ GovernanceSpec /\ RoadmapSpec /\ ReleaseSpec /\ ExactSpec /\ GatesSpec
<1>1. Init => /\ CompilerInit /\ ProjectInit /\ IntelligenceInit /\ ResearchInit /\ SafetyInit
              /\ MemoryInit /\ InteropInit /\ BenchmarkInit /\ BundleInit /\ EvidenceInit
              /\ GovernanceInit /\ RoadmapInit /\ ReleaseInit /\ ExactInit /\ GatesInit
  BY DEF Init
<1>2. [Next]_vars =>
           /\ [CompilerNext]_compilerVars
           /\ [ProjectNext]_projectVars
           /\ [IntelligenceNext]_intelligenceVars
           /\ [ResearchNext]_researchVars
           /\ [SafetyNext]_safetyVars
           /\ [MemoryNext]_memoryVars
           /\ [InteropNext]_interopVars
           /\ [BenchmarkNext]_benchVars
           /\ [BundleNext]_bundleVars
           /\ [EvidenceStateNext]_evidenceVars
           /\ [HygieneNext \/ RulesNext]_governanceVars
           /\ [RoadmapNext]_roadmapVars
           /\ [ArchiveNext \/ QuestionsNext \/ CheckpointsNext]_releaseVars
           /\ [ExactNext]_exactVars
           /\ [AskNext \/ SoakNext \/ GuardNext \/ HarnessNext \/ FixtureNext]_gateVars
  BY ToolsStep
<1>. QED BY <1>1, <1>2, PTL
        DEF Spec, CompilerSpec, ProjectSpec, IntelligenceSpec, ResearchSpec, SafetySpec, MemorySpec, InteropSpec,
            BenchmarkSpec, BundleSpec, EvidenceSpec, GovernanceSpec, RoadmapSpec, ReleaseSpec, ExactSpec, GatesSpec

\* What is published, bundle, source archive or pushed commit, is what was checked, however a tool was cut
\* short and whatever changed beside it, for every tree and every number of releases.
THEOREM PublishedIsAsChecked == Spec => []PublishedAsChecked
BY DeliveryImplementsComponents, SignedBundlesAreIntact, ReleasesAreVouched, PushedIsAsCommitted, PTL
   DEF PublishedAsChecked

\* Every tool keeps its state typed in the composition, whatever the others do beside it, for every value of
\* the constants.
THEOREM DeliveryTypeCorrect == Spec => []TypeOK
<1>1. Spec => [](focus \in Components)
  <2>1. Init => focus \in Components
    BY DEF Init
  <2>2. focus \in Components /\ [Next]_vars => (focus \in Components)'
    BY DEF Next, vars
  <2>. QED BY <2>1, <2>2, PTL DEF Spec
<1>. QED BY <1>1, DeliveryImplementsComponents, CompilerTypeCorrect, ProjectTypeCorrect, IntelligenceTypeCorrect,
            ResearchTypeCorrect, SafetyTypeCorrect, MemoryTypeCorrect, InteropTypeCorrect, BenchmarkTypeCorrect,
            BundleTypeCorrect, PhaseTypeCorrect, GovernanceTypeCorrect, RoadmapTypeCorrect, ReleaseTypeCorrect,
            ExactTypeCorrect, GatesTypeCorrect, PTL
     DEF TypeOK
===============================================================================
