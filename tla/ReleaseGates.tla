----------------------------- MODULE ReleaseGates -----------------------------
(***************************************************************************)
(* The gates a release passes: the evidence gate of P8 and the readiness      *)
(* ladder of P10 (questions put to documents), the soak gate over samples     *)
(* appended by a sampler, the guard that tests leave the source as it was,    *)
(* and the two harnesses that run a program and end it when it takes too long.*)
(***************************************************************************)
EXTENDS Totals, FiniteSets, SequencesExt

CONSTANTS
    RequiredIds,         \* document -> the ids it must list, exactly
    ReplayCategories, RequiredPaths,
    GateEvidence,        \* what release/evidence/P8 and release/security may hold
    P9Claims,            \* the scalar claims of P9
    NativeAspects,       \* what native verification covers, per platform
    ReadinessInputs,     \* what the readiness input may say
    SoakSamples,         \* samples a soak may produce
    SoakBudget,          \* [hours, samples, rss, handles, failurePercent]
    MaxSoakSamples,
    GuardedPaths,        \* paths of the tree, the generated ones, and the ones .gitignore excludes
    GeneratedPaths,
    IgnoredPaths,
    FileVersions, Absent,
    MaxGuardEdits,
    HarnessPrograms,     \* [child, escapes, holds, ends, ignores]
    NoGate               \* no report yet

VARIABLES
    gateReport,          \* the last answered question: [kind, input, answer]
    soakFile,            \* the samples, in the order they were appended
    soakReport,
    gitHead, gitIndex, workTree, headMoved,
    cleanSnapshot,       \* what the guard recorded, and the tree it recorded it of
    cleanReport, guardEdits,
    harness,             \* [at, kind, launched, termed, timedOut, strategy]
    alive,               \* the processes of the program that run: subset of {"main", "child"}
    harnessResult,
    fixture,             \* the descendant fixture: [at, file, ready, child, read]
    fixtureReport        \* its results and those of the suite

\* load_samples takes no number below 0.
ASSUME GatesAssumption ==
    /\ MaxSoakSamples \in Nat /\ MaxGuardEdits \in Nat
    /\ \A s \in SoakSamples :
          s.wellFormed => /\ s.time \in Nat /\ s.rss \in Nat /\ s.handles \in Nat
                          /\ s.crashes \in Nat /\ s.unauthorized \in Nat
    /\ SoakBudget.rss \in Nat
    /\ \A d \in ReadinessInputs : d.platforms \in Seq(STRING)
    /\ IgnoredPaths \subseteq GuardedPaths

askVars == gateReport
soakVars == <<soakFile, soakReport>>
guardVars == <<gitHead, gitIndex, workTree, headMoved, cleanSnapshot, cleanReport, guardEdits>>
harnessVars == <<harness, alive, harnessResult, fixture, fixtureReport>>
gateVars == <<askVars, soakVars, guardVars, harnessVars>>

ReleasePlatforms == {"windows", "macos", "linux"}

-----------------------------------------------------------------------------
(* p8_release_evidence_gate: require_exact compares sets, so an id may be listed twice *)

CaseIds(e) == {e.cases[i].id : i \in DOMAIN e.cases}

ReplayCasesValid(e) ==
    /\ ~e.incidentCorpus /\ Cardinality(CaseIds(e)) = Len(e.cases)
    /\ ReplayCategories \subseteq {e.cases[i].category : i \in DOMAIN e.cases}
    /\ \A i \in DOMAIN e.cases : e.cases[i].test \in e.tree /\ e.cases[i].boundary

BlockersTruthful(e) ==
    e.mergeAllowed /\ ~e.productionAllowed /\ e.blockersPending /\ e.validators \subseteq e.tree

EvidenceGatePasses(e) ==
    /\ e.wellFormed                          \* every entry an object, every risk owned
    /\ \A d \in DOMAIN RequiredIds : ToSet(e.ids[d]) = RequiredIds[d]
    /\ e.entryPoints \subseteq e.tree
    /\ e.risksPending /\ e.penetrationPending
    /\ BlockersTruthful(e) /\ ReplayCasesValid(e)
    /\ RequiredPaths \subseteq e.tree

AskEvidenceGate(e) ==
    /\ gateReport' = [kind |-> "evidence", input |-> e,
                      answer |-> IF ~e.parses THEN "raises"
                                 ELSE IF EvidenceGatePasses(e) THEN "passed" ELSE "failed"]
    /\ UNCHANGED <<soakVars, guardVars, harnessVars>>

-----------------------------------------------------------------------------
(* p10_release_readiness: a number that is not reported counts as -1         *)

ReportedZero(n) == n = 0
Percentage(n) == IF n \in 0 .. 100 THEN n ELSE 0

\* The names that are valid, once each; the others block the candidate.
NamedPlatforms(d) == {d.platforms[i] : i \in DOMAIN d.platforms} \cap ReleasePlatforms
PlatformListValid(d) == d.platforms # <<>> /\ Cardinality(NamedPlatforms(d)) = Len(d.platforms)

\* Mutant: names that are not valid are dropped without a blocker.
GlobalBlockers_Dropped(d) ==
    {b \in {"commit", "version", "platforms"} :
        CASE b = "commit" -> ~d.commitExact
          [] b = "version" -> ~d.versionValid
          [] b = "platforms" -> NamedPlatforms(d) = {}}

GlobalBlockers(d) ==
    {b \in {"commit", "version", "platforms"} :
        CASE b = "commit" -> ~d.commitExact
          [] b = "version" -> ~d.versionValid
          [] b = "platforms" -> ~PlatformListValid(d)}

Artifacts(d) == {"signed", "installers", "clean"}
P9Blockers(d) ==
    (P9Claims \ d.p9)
    \cup {b \in {"penetration", "findings", "soak", "soak crashes"} :
            CASE b = "penetration" -> ~d.penetration.present
              [] b = "findings" -> ~ReportedZero(d.penetration.critical) \/ ~ReportedZero(d.penetration.high)
              [] b = "soak" -> d.soakHours < 24
              [] b = "soak crashes" -> ~ReportedZero(d.soakCrashes)}
    \cup {pa \in NamedPlatforms(d) \X Artifacts(d) : pa[1] \notin d.artifacts[pa[2]]}

PlatformBlockers(d, p) ==
    {a \in Artifacts(d) : p \notin d.artifacts[a]}
    \cup (NativeAspects \ d.native[p].verified)
    \cup (IF Percentage(d.native[p].parity) < 95 THEN {"parity"} ELSE {})

BetaBlockers(d) ==
    GlobalBlockers(d) \cup P9Blockers(d)
    \cup (IF d.evidenceCurrent /\ d.betaUsers >= 100 /\ d.betaDays >= 14 /\ ReportedZero(d.betaSev1)
          THEN {} ELSE {"beta"})
RcBlockers(d) ==
    BetaBlockers(d) \cup (IF d.rcDays >= 7 /\ ReportedZero(d.rcCrashes) THEN {} ELSE {"rc"})
GaBlockers(d) ==
    RcBlockers(d)
    \cup (IF d.docs /\ d.dryRun /\ d.usability THEN {} ELSE {"ga"})
    \cup UNION {PlatformBlockers(d, p) : p \in NamedPlatforms(d)}

AskReadiness(d) ==
    /\ gateReport' =
          IF ~d.parses THEN [kind |-> "input_invalid"]
          ELSE [kind |-> "readiness", input |-> d, answer |->
              [p9 |-> P9Blockers(d) \cup GlobalBlockers(d) = {},
               beta |-> BetaBlockers(d) = {}, rc |-> RcBlockers(d) = {}, ga |-> GaBlockers(d) = {},
               supported |-> {p \in NamedPlatforms(d) : PlatformBlockers(d, p) = {}}]]
    /\ UNCHANGED <<soakVars, guardVars, harnessVars>>

AskNext ==
    \/ \E e \in GateEvidence : AskEvidenceGate(e)
    \/ \E d \in ReadinessInputs : AskReadiness(d)

-----------------------------------------------------------------------------
(* p8_soak_gate                                                             *)

MostOf(f) == CHOOSE n \in {f[i] : i \in DOMAIN f} : \A i \in DOMAIN f : f[i] <= n

\* load_samples: sorted by time, which must then grow strictly; no number below 0.
EarlierSamples(file, i) == {j \in DOMAIN file : file[j].time < file[i].time}
LoadedSamples(file) ==
    [k \in DOMAIN file |->
        file[CHOOSE i \in DOMAIN file : Cardinality(EarlierSamples(file, i)) = k - 1]]
SamplesValid(file) ==
    /\ \A i \in DOMAIN file : file[i].wellFormed
    /\ Cardinality({file[i].time : i \in DOMAIN file}) = Len(file)

\* _slope_per_hour: least squares, infinite below two samples.
SlopeAtMost(s, field, limit) ==
    LET n == Len(s)
        x == [i \in DOMAIN s |-> s[i].time - s[1].time]
        y == [i \in DOMAIN s |-> s[i][field]]
        spread == n * SumOf([i \in DOMAIN s |-> x[i] * x[i]]) - SumOf(x) * SumOf(x)
        growth == n * SumOf([i \in DOMAIN s |-> x[i] * y[i]]) - SumOf(x) * SumOf(y)
    IN n >= 2 /\ growth <= limit * spread

\* Mutant: the counters of the last sample decide.
ObservedMost_Last(s, field) == IF s = <<>> THEN 0 ELSE s[Len(s)][field]

\* The highest value any sample shows: a counter that starts again does not hide it.
ObservedMost(s, field) == IF s = <<>> THEN 0 ELSE MostOf([i \in DOMAIN s |-> s[i][field]])

SoakPasses(s, b) ==
    /\ Len(s) >= b.samples
    /\ (IF Len(s) >= 2 THEN s[Len(s)].time - s[1].time ELSE 0) >= b.hours
    /\ SlopeAtMost(s, "rss", b.rss) /\ SlopeAtMost(s, "handles", b.handles)
    /\ ObservedMost(s, "crashes") = 0 /\ ObservedMost(s, "unauthorized") = 0
    /\ 100 * ObservedMost(s, "failed") <=
          b.failurePercent * (ObservedMost(s, "completed") + ObservedMost(s, "failed"))

AppendSample(sample) ==
    /\ Len(soakFile) < MaxSoakSamples
    /\ soakFile' = Append(soakFile, sample)
    /\ UNCHANGED <<soakReport, askVars, guardVars, harnessVars>>

EvaluateSoak ==
    /\ SamplesValid(soakFile)
    /\ soakReport' = [passed |-> SoakPasses(LoadedSamples(soakFile), SoakBudget), samples |-> soakFile]
    /\ UNCHANGED <<soakFile, askVars, guardVars, harnessVars>>

SoakNext ==
    \/ \E sample \in SoakSamples : AppendSample(sample)
    \/ EvaluateSoak

-----------------------------------------------------------------------------
(* generated_state_guard, in a Git checkout                                  *)

\* git diff, git diff --cached and git ls-files --others --exclude-standard: what .gitignore
\* excludes is seen only once it is tracked.
Unstaged == {p \in GuardedPaths : gitIndex[p] # Absent /\ workTree[p] # gitIndex[p]}
Staged == {p \in GuardedPaths : gitIndex[p] # gitHead[p]}
Untracked == {p \in GuardedPaths \ IgnoredPaths : gitIndex[p] = Absent /\ workTree[p] # Absent}

\* Mutant: what is staged is not asked for.
DirtySource_Unstaged == (Unstaged \cup Untracked) \ GeneratedPaths

DirtySource == (Unstaged \cup Staged \cup Untracked) \ GeneratedPaths

TakeSnapshot ==
    /\ cleanSnapshot' = [dirty |-> DirtySource, tree |-> workTree, index |-> gitIndex] /\ headMoved' = FALSE
    /\ UNCHANGED <<gitHead, gitIndex, workTree, cleanReport, guardEdits, askVars, soakVars, harnessVars>>

\* verify-clean compares the names of the dirty paths, not what they hold.
VerifyClean ==
    /\ cleanSnapshot # NoGate
    /\ cleanReport' = [passed |-> DirtySource = cleanSnapshot.dirty, snapshot |-> cleanSnapshot,
                       tree |-> workTree, index |-> gitIndex, moved |-> headMoved]
    /\ UNCHANGED <<gitHead, gitIndex, workTree, headMoved, cleanSnapshot, guardEdits,
                   askVars, soakVars, harnessVars>>

\* audit: no generated path is tracked and there, none is in the source manifest, and
\* .gitignore covers them all.  One that is tracked but gone only waits for its deletion.
Audit(manifestClean, ignoreCovers) ==
    /\ gateReport' =
          [kind |-> "audit",
           pending |-> {p \in GeneratedPaths : gitIndex[p] # Absent /\ workTree[p] = Absent},
           passed |-> /\ \A p \in GeneratedPaths : gitIndex[p] = Absent \/ workTree[p] = Absent
                      /\ manifestClean /\ ignoreCovers]
    /\ UNCHANGED <<guardVars, soakVars, harnessVars>>

\* The tests, and the people who run them, change the tree.  A report is of the moment it was
\* made: it is kept until the next change.
GuardEdit == guardEdits < MaxGuardEdits /\ guardEdits' = guardEdits + 1
EditedKeeps == cleanReport' = NoGate /\ UNCHANGED <<cleanSnapshot, askVars, soakVars, harnessVars>>

WriteSource(p, content) ==
    /\ GuardEdit /\ workTree[p] # content /\ workTree' = [workTree EXCEPT ![p] = content]
    /\ EditedKeeps /\ UNCHANGED <<gitHead, gitIndex, headMoved>>

Stage(p) ==
    /\ GuardEdit /\ gitIndex[p] # workTree[p] /\ gitIndex' = [gitIndex EXCEPT ![p] = workTree[p]]
    /\ EditedKeeps /\ UNCHANGED <<gitHead, workTree, headMoved>>

CommitStaged ==
    /\ GuardEdit /\ gitHead # gitIndex /\ gitHead' = gitIndex /\ headMoved' = TRUE
    /\ EditedKeeps /\ UNCHANGED <<gitIndex, workTree>>

GuardNext ==
    \/ TakeSnapshot
    \/ VerifyClean
    \/ \E manifestClean, ignoreCovers \in BOOLEAN : Audit(manifestClean, ignoreCovers)
    \/ \E p \in GuardedPaths, content \in FileVersions \cup {Absent} : WriteSource(p, content)
    \/ \E p \in GuardedPaths : Stage(p)
    \/ CommitStaged

-----------------------------------------------------------------------------
(* p8_terminal_fault_harness ("files") and p11_native_conformance ("pipes")  *)

Members(launched) == IF launched.child THEN {"main", "child"} ELSE {"main"}
InGroup(launched) == Members(launched) \ (IF launched.escapes THEN {"child"} ELSE {})

\* The output of a pipe ends when every process that holds it is gone.
OutputEnded(launched) == "main" \notin alive /\ (launched.holds => "child" \notin alive)

HarnessStill == UNCHANGED <<askVars, soakVars, guardVars, fixture, fixtureReport>>

Launch(kind, launched) ==
    /\ harness.at = "idle"
    /\ harness' = [at |-> "wait", kind |-> kind, launched |-> launched, termed |-> {},
                   timedOut |-> FALSE, strategy |-> "natural_exit"]
    /\ alive' = Members(launched) /\ harnessResult' = NoGate
    /\ HarnessStill

\* A process ends by itself or by a signal it does not ignore.
ProcessEnds(who) ==
    /\ harness.at # "idle" /\ who \in alive
    /\ who \in harness.launched.ends \/ who \in harness.termed \ harness.launched.ignores
    /\ alive' = alive \ {who}
    /\ UNCHANGED <<harness, harnessResult>> /\ HarnessStill

Answers ==
    /\ harnessResult' = [kind |-> harness.kind, launched |-> harness.launched, timedOut |-> harness.timedOut,
                         strategy |-> harness.strategy, left |-> alive]
    /\ harness' = [at |-> "idle"]

\* wait() sees the main process end; communicate() also the end of its output.
CaseEnds ==
    /\ harness.at = "wait"
    /\ IF harness.kind = "files" THEN "main" \notin alive ELSE OutputEnded(harness.launched)
    /\ Answers /\ UNCHANGED alive /\ HarnessStill

\* The timeout, on POSIX: a main process that ended meanwhile is not signalled, and neither are its children.
CaseTimesOut ==
    /\ harness.at = "wait" /\ ~(harness.kind = "pipes" /\ OutputEnded(harness.launched))
    /\ harness' = [harness EXCEPT !.timedOut = TRUE,
                                  !.termed = IF "main" \in alive THEN InGroup(harness.launched) ELSE {},
                                  !.strategy = IF "main" \in alive THEN "sigterm" ELSE "already_exited",
                                  !.at = IF "main" \in alive THEN "grace" ELSE "drain"]
    /\ UNCHANGED <<alive, harnessResult>> /\ HarnessStill

GraceEnds ==
    /\ harness.at = "grace" /\ "main" \notin alive
    /\ harness' = [harness EXCEPT !.at = "drain"]
    /\ UNCHANGED <<alive, harnessResult>> /\ HarnessStill

\* Mutant: the terminal harness gives up without the kill.
Killed_Never(kind, launched) == IF kind = "files" THEN {} ELSE InGroup(launched)

\* The terminal harness kills the main process, the conformance suite its group.
Killed(kind, launched) == IF kind = "files" THEN {"main"} ELSE InGroup(launched)

GraceRunsOut ==
    /\ harness.at = "grace" /\ "main" \in alive
    /\ alive' = alive \ Killed(harness.kind, harness.launched)
    /\ harness' = [harness EXCEPT !.at = "drain", !.strategy = "kill"]
    /\ UNCHANGED harnessResult /\ HarnessStill

\* communicate() without a timeout waits for the end of the output.
CaseDrained ==
    /\ harness.at = "drain" /\ (harness.kind = "pipes" => OutputEnded(harness.launched))
    /\ Answers /\ UNCHANGED alive /\ HarnessStill

HarnessNext ==
    \/ \E kind \in {"files", "pipes"}, launched \in HarnessPrograms : Launch(kind, launched)
    \/ \E who \in alive : ProcessEnds(who)
    \/ CaseEnds
    \/ CaseTimesOut
    \/ GraceEnds
    \/ GraceRunsOut
    \/ CaseDrained

-----------------------------------------------------------------------------
(* The descendant fixture: a parent starts a child, writes the child's pid    *)
(* into a file and only then says that it is ready.                           *)

FixtureStill == UNCHANGED <<askVars, soakVars, guardVars, harness, alive, harnessResult>>

StartFixture ==
    /\ fixture.at = "idle" /\ fixtureReport = NoGate
    /\ fixture' = [at |-> "poll", file |-> "none", ready |-> FALSE, parent |-> TRUE, child |-> FALSE, read |-> FALSE]
    /\ UNCHANGED fixtureReport /\ FixtureStill

\* The parent: Popen, then the file is opened, then it is written, then "child-ready".
ParentSteps ==
    /\ fixture.at # "idle" /\ fixture.parent
    /\ fixture' = IF ~fixture.child /\ fixture.file = "none" THEN [fixture EXCEPT !.child = TRUE]
                   ELSE IF fixture.file = "none" THEN [fixture EXCEPT !.file = "empty"]
                   ELSE IF fixture.file = "empty" THEN [fixture EXCEPT !.file = "pid"]
                   ELSE [fixture EXCEPT !.ready = TRUE]
    /\ UNCHANGED fixtureReport /\ FixtureStill

\* The file is there, or three seconds are over: int("") of a file not yet written raises.
ReadPid ==
    /\ fixture.at = "poll"
    /\ IF fixture.file = "empty"
       THEN /\ fixtureReport' = [state |-> "raises", child |-> fixture.child]
            /\ fixture' = [at |-> "idle"]
       ELSE /\ fixture' = [fixture EXCEPT !.at = "gone", !.read = (fixture.file = "pid"),
                                          !.parent = FALSE]
            /\ UNCHANGED fixtureReport
    /\ FixtureStill

\* The child is in the group that _kill_tree signals.
ChildGone ==
    /\ fixture.at = "gone" /\ fixture.child
    /\ fixture' = [fixture EXCEPT !.child = FALSE]
    /\ UNCHANGED fixtureReport /\ FixtureStill

\* Mutant: the child counts as gone without being looked for.
FixturePassed_Unlooked(f) == f.read /\ f.ready

FixturePassed(f) == f.read /\ f.ready /\ ~f.child

\* The suite passes when nothing failed; what the host does not allow does not fail it, and
\* no outcome claims support of a platform.
ReportFixture(othersPass) ==
    /\ fixture.at = "gone"
    /\ fixtureReport' = [state |-> IF FixturePassed(fixture) /\ othersPass THEN "PASS" ELSE "FAIL",
                         child |-> fixture.child]
    /\ fixture' = [at |-> "idle"]
    /\ FixtureStill

FixtureNext ==
    \/ StartFixture
    \/ ParentSteps
    \/ ReadPid
    \/ ChildGone
    \/ \E othersPass \in BOOLEAN : ReportFixture(othersPass)

GatesInit ==
    /\ gateReport = NoGate /\ soakFile = <<>> /\ soakReport = NoGate
    /\ gitHead \in [GuardedPaths -> FileVersions \cup {Absent}]
    /\ \A p \in GeneratedPaths : gitHead[p] = Absent
    /\ gitIndex = gitHead /\ workTree = gitHead /\ headMoved = FALSE
    /\ cleanSnapshot = NoGate /\ cleanReport = NoGate /\ guardEdits = 0
    /\ harness = [at |-> "idle"] /\ alive = {} /\ harnessResult = NoGate
    /\ fixture = [at |-> "idle"] /\ fixtureReport = NoGate

GatesSpec == GatesInit /\ [][AskNext \/ SoakNext \/ GuardNext \/ HarnessNext \/ FixtureNext]_gateVars

-----------------------------------------------------------------------------
GatesTypeOK ==
    /\ Len(soakFile) \in 0 .. MaxSoakSamples
    /\ DOMAIN workTree = GuardedPaths /\ DOMAIN gitIndex = GuardedPaths /\ headMoved \in BOOLEAN
    /\ guardEdits \in 0 .. MaxGuardEdits
    /\ harness.at \in {"idle", "wait", "grace", "drain"} /\ alive \subseteq {"main", "child"}
    /\ fixture.at \in {"idle", "poll", "gone"}
    /\ fixtureReport # NoGate => fixtureReport.state \in {"PASS", "FAIL", "raises"}
    /\ cleanReport # NoGate => cleanReport.passed \in BOOLEAN
    /\ soakReport # NoGate => soakReport.passed \in BOOLEAN

\* A candidate that may be released is supported on every platform it names, none of which
\* was passed over, and it passed every earlier rung (evaluate_readiness).
LadderHonest ==
    gateReport # NoGate /\ gateReport.kind = "readiness" =>
        LET answer == gateReport.answer
            named == gateReport.input.platforms IN
        /\ answer.ga => answer.rc /\ (\A i \in DOMAIN named : named[i] \in answer.supported)
        /\ answer.rc => answer.beta
        /\ answer.beta => answer.p9 /\ named # <<>>

\* A soak that passes saw no crash and no unauthorized effect, in whatever order its samples
\* were written and although a counter may start again; memory that grew at one steady rate
\* grew within the budget (p8_soak_gate.load_samples and evaluate).
SoakHonest ==
    soakReport # NoGate /\ soakReport.passed =>
        LET s == soakReport.samples IN
        /\ \A i \in DOMAIN s : s[i].crashes = 0 /\ s[i].unauthorized = 0
        /\ \E i, j \in DOMAIN s : s[j].time - s[i].time >= SoakBudget.hours
        /\ \A rate \in 0 .. 8 :
              (\A i, j \in DOMAIN s : s[j].rss - s[i].rss = rate * (s[j].time - s[i].time)) =>
                 rate <= SoakBudget.rss

\* Tests that pass the guard left every path that was clean before them as it was in the index,
\* and in the tree too unless it is one that Git neither tracks nor lists (.env, *.tmp: those a
\* test may rewrite or leave behind unseen), provided nobody committed meanwhile
\* (dirty_source_paths, build_snapshot, verify_snapshot).
CleanTestsLeaveSource ==
    cleanReport # NoGate /\ cleanReport.passed /\ ~cleanReport.moved =>
        \A p \in GuardedPaths \ (GeneratedPaths \cup cleanReport.snapshot.dirty) :
            /\ cleanReport.index[p] = cleanReport.snapshot.index[p]
            /\ p \notin IgnoredPaths \/ cleanReport.snapshot.index[p] # Absent =>
                  cleanReport.tree[p] = cleanReport.snapshot.tree[p]

\* A harness that answers has ended the program it started and, when it read the output through
\* pipes, nobody is left who could still write to it (run_fault_case, run_process).
HarnessEndsProgram ==
    harnessResult # NoGate =>
        /\ "main" \notin harnessResult.left
        /\ harnessResult.kind = "pipes" /\ harnessResult.launched.holds => harnessResult.left = {}

\* A suite that passes ended the child process it started (_fixture_descendant_termination).
FixtureHonest == fixtureReport # NoGate /\ fixtureReport.state = "PASS" => ~fixtureReport.child

\* What a gate lets through is what it was asked to let through.
GatesTruthful == LadderHonest /\ SoakHonest /\ CleanTestsLeaveSource /\ HarnessEndsProgram /\ FixtureHonest
=============================================================================
