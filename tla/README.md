# Kristin: TLA+ models of the durable workflow, of authority and of delivery

Kristin (`src/`) is a local agent: a Flutter/Dart desktop application that plans a task, has a
language model work on it through tools that change the user's project, and keeps everything it
does in a SQLite kernel so that a crash, a closed window or a second process loses nothing. Around
the application stand Python programs that decide what an effect may do (grants, policy, sandbox,
secrets, delegation), that install its updates, and that build, check and release it. This
directory models all three: the durable run, the carriers of authority, and delivery.

Sources are abbreviated below: **DW** `lib/product/durable_workflow.dart`, **WT**
`lib/product/workspace_tools.dart`, **PR** `lib/product/planning_runtime.dart`. A Python program is
named by its file in `tool/`.

| module | models | checked by | proved in |
| --- | --- | --- | --- |
| `OperationLedger` | the idempotency ledger of tool calls | `MCOperationLedger` (2 runs) | `OperationLedgerProofs` |
| `OperationOutcome` | what the ledger promises (abstract) | as the property `OutcomeSpec` | `OperationLedgerProofs` (refinement) |
| `WorkspaceTransaction` | journaled file changes, commit, rollback, recovery | `MCWorkspaceTransaction` (1 run) | `WorkspaceTransactionProofs` |
| `RunLifecycle` | execution, commands, leases and recovery of a run | `MCRunLifecycle` (5 runs) | `RunLifecycleProofs` |
| `UpdateInstall` | install, accept, roll back, recover, uninstall | `MCUpdateInstall` (2 runs) | `UpdateInstallProofs` |
| `SignedManifest` | when a signed envelope is accepted (operators) | through its users | - |
| `CapabilityGrants` | grants and their use ledger | `MCAuthority` | `AuthorityProofs` |
| `LocalIpc` | replay protection of the local channel | `MCAuthority` | `AuthorityProofs` |
| `SecretBroker` | one-use secrets shared by processes | `MCAuthority` | `AuthorityProofs` |
| `EffectService` | file effects and commands under a grant | `MCAuthority` | `AuthorityProofs` |
| `SandboxWorker` | mounts, time limits, process tree | `MCAuthority` | `AuthorityProofs` |
| `DelegationBridge` | delegation to another agent | `MCAuthority` | `AuthorityProofs` |
| `ExtensionRegistry` | extensions, their review, key handles | `MCAuthority` | `AuthorityProofs` |
| `PolicyEngine` | the decision about one effect | `MCAuthority` | `AuthorityProofs` |
| `PlanCompiler`, `JsonContract` | schema, graph and policy checks of a plan | `MCDelivery` | `AgentToolProofs` |
| `ManagedProject` | actions and background processes of a project | `MCDelivery` | `AgentToolProofs` |
| `ExecutionIntelligence` | routing, convergence, verification, compaction | `MCDelivery` | `AgentToolProofs` |
| `ResearchWorker` | crawl, search, network broker | `MCDelivery` | `AgentToolProofs` |
| `AgentSafety` | browser plans, claims, effects, support matrix | `MCDelivery` | `AgentToolProofs` |
| `KnowledgeMemory` | object store, memory, skills | `MCDelivery` | - |
| `Interoperability` | contracts, MCP stdio, update channels, audit | `MCDelivery` | `AgentToolProofs` |
| `BenchmarkRunner` | suites, readiness, reproduction | `MCDelivery` | `ReleaseProofs` |
| `ReleaseBundle`, `ReleaseArchive` | packaging of binaries and of the source | `MCDelivery` | `ReleaseProofs` |
| `ExactSourceGate` | the working tree, the index and the manifest; the gate's run and report; what others wrote meanwhile | `MCDelivery` | `ReleaseProofs` |
| `PhaseEvidence` | what is evidence, and the records of a phase | `MCDelivery` | `ReleaseProofs` |
| `RepositoryGovernance` | branch hygiene, rulesets, labels | `MCDelivery` | `ReleaseProofs` |
| `RoadmapControl` | the task graph of the roadmap | `MCDelivery` | `ReleaseProofs` |
| `ReleaseGates` | readiness ladder, soak gate, guard, harnesses | `MCDelivery` | `ReleaseProofs` |
| `Delivery` | the composition of the tools above | `MCDelivery` (1 run) | `DeliveryProofs` |
| `Totals` | sums and selections over finite sets and sequences | through its users | `AgentToolProofs` |

## 1. Inventory of the system

`PROJECT.json` lists every component with its sources and status. The ones that carry the
program's own logic of state:

**Durable workflow store** (DW, one SQLite database that several processes may open; there is no
single-instance lock).
State: `runs` (a JSON projection and a state version per run), `run_events` (append-only),
`checkpoints`, `idempotency_records`, `compensation_records`, `run_leases`, `circuit_states`,
`managed_processes`, `task_attempts`.
Operations: `saveRun`, `appendEvent`, `createCheckpoint`, `claimOperation` / `completeOperation` /
`failOperation`, `acquireRunLease` / `renewRunLease` / `releaseRunLease`, `recoverInFlightRuns`,
`rebuildRunProjectionFromHistory`, `verifyIntegrity`, circuits, open / migrate / import / close.
Each is one SQL transaction, queued behind the others of its process by `_serialize`.
Hard: two processes between two transactions; leases that run out; recovery that must guess what a
dead process had done; a projection that must equal its history.
Correct if: one owner at a time, one outcome per operation, success means committed, and the
projection can be rebuilt.

**Run coordinator** (PR `RunCoordinator`, per process).
State: `_controls` (pause / cancel / deferred flags and a completer per run), `_runLeaseOwners`,
`_projectLocks`; on disk the run row.
Operations: `createRun`, `execute` (claim, lease, preflight, loop over items, attempts, turns,
retries, verification, commit, catch, final save, release), `pause`, `resume`, `cancel`,
`_cancelDurablyPausedRun`, `reconcileInterruptedRuns`, a 20 s heartbeat.
Interactions: calls the store (every save renews the lease first), the workspace transaction
(`begin`, `commit`, `rollback`), the tool registry, the permission service, the model client; the
user interface and the API server call it concurrently.
Hard: every `await` is an interleaving point; commands read a run and write it back later; a lease
lost in the middle of a tool call; a question to the user suspends the run with its changes
applied.
Correct if: a run is executed by one task at a time; a run shown as succeeded is committed; a
cancelled run left nothing behind; a committed workspace is never undone; every execution ends.

**Workspace transaction** (WT `WorkspaceTransaction`, one per run, on the project's file system).
State: the files, backups, `journal.jsonl`, markers `COMMITTED` and `ROLLED_BACK`, the
`compensation_records` table, in memory `_latest` and `_records`.
Operations: `begin` (reload, reconcile), `writeBytes`, `delete`, `commit`, `rollback`.
Hard: crashes between a journal line and the change it announces; replace by delete-and-rename on
Windows; three copies of a status; a rollback that fails half-way.
Correct if: the project never changes behind the journal's back, recovery agrees with the project,
a finished rollback restores every file, a committed transaction is final.

**Tool registry and idempotency ledger** (WT `ToolRegistry.execute`, DW `claimOperation` ...).
State: a row per idempotency key, with owner, lease, generation, result, class of error.
Hard: crashes between effect and acknowledgement; takeover by another execution; late completion;
repetition of a call with an ambiguous failure.
Correct if: all callers are told one outcome; a non-compensatable handler is never started by two
executions; nothing is stolen from a live owner.

**Deferred interactions, steering, permission grants, model circuits, recovery supervisor, external
effect receipts, audit chain, task kernel, managed processes.** Each keeps a small durable state
machine with its own read-modify-write or crash window; they are described line by line under
`hazards` and `components` and are the subject of the plan (section 2).

**Update installer** (`p9_update_install.py`). State: the installation, its backup, a stage, a
directory moved aside, a journal. Operations: `install`, `accept`, `rollback`, `recover`,
`uninstall`. Hard: two renames are not one; a recursive removal stops half way; `recover` must know
what a dead process had done. Correct if: a working version is never lost, the backup is older, a
command that reports success left a working installation, and an operator who goes on gets one back.

**Carriers of authority.** The grant ledger (`capability_grant_v2.py`: counts, nonces and
invocations per grant), the IPC replay cache (`local_authenticated_ipc.py`, one thread per
connection, no lock), the secret broker (`secret_broker.py`, files in a directory several processes
share), the effect services (`p2_reference_runtime.py`: use ledger under a lock, receipt journal,
backups, threads), the sandbox (`sandbox_worker.py`: namespaces, two time limits, a process tree
read from /proc), the bridge to other agents (`a2a_bridge.py`, one process per delegation), the
extension registry and the policy engine. They call one another only through their documents: a
grant is presented to an effect service, a lease to the sandbox, a delegation to the bridge.
Hard: documents that share an id, threads between a look-up and an insertion, processes that die
between a claim and a removal, steps that throw after half an effect, answers that claim too much.
Correct if: authority is only ever narrowed, used as often as it says, and what is undone is undone.

**Delivery.** Programs a person or CI runs: plan compiler, project manager, execution intelligence,
research worker, agent safety, knowledge memory, interoperability and audit, benchmark, release
bundle and archive, exact source gate, phase evidence, repository governance, roadmap, release
gates. Each reads files, GitHub or /proc and writes files, and nothing locks what it reads.
Hard: what was checked changes before it is used; a command stops between two of its files; a pid
belongs to somebody else by now; a limit met exactly. Correct if: what is published, executed,
deleted, completed or let through is what was checked.

**Left aside**: the native authority service, automation host, prompt studio, user interface, the
Dart twins of the policy documents, `validate_release.py`. They are I/O, operating-system calls,
text, or comparisons of text with constants; `components` says why for each.

Hazards found while reading and *not* in `PROJECT.json`, because they are variations of ones that
are, belong to parts without a module, or rank below the listed ones:

- Run and store: a torn last journal line blocks every later `begin` (modelled, `corrupt`); records
  are ordered by wall-clock time (WT 1057); the key of an operation does not depend on the state it
  meets, so writing A, then B, then A again replays (WT 1657); a path whose journal entry cannot be
  written (WT 661); `ROLLED_BACK` is never removed (WT 671); a crash between restore and
  `rolled_back` (WT 919) or between journal and table (WT 1016); the claim of an
  operation looks for its effect in the mutations table and not in the journal (DW 1507); a table
  write that throws leaves `_records` as they were (WT 1037, modelled); rollback overwrites an edit the
  user made meanwhile (WT 903); a crash between rollback and final save (PR 3007); a call queued
  after `close` never completes (DW 357); event and projection written apart (DW 1121, 1329, 2042);
  `renewRunLease` revives a lease that had run out (DW 1932, modelled by `Touched`); a restart
  within the lease recovers nothing (PR 1835, modelled by `Startup`); a pause in the last item does
  not stop the commit (PR 6300, modelled); a preflight-blocked resumed run becomes `failed` with its
  changes applied (PR 2445, modelled by `Start`); shared project locks (PR 5927).
- Other parts of the application: permission grants consumed across an await
  (`storage_security.dart` 904, PR 976); the recovery budget per signature
  (`recovery/failure_recovery.dart` 1044); an effect receipt written to two files
  (`p8_effect_journal_adapter.dart` 24, 44); a JSON collection deleted before its replacement is
  renamed (`storage_security.dart` 142); two processes extend one audit chain
  (`storage_security.dart` 804); a failed emergency kill remembered as sent
  (`p2_emergency_watchdog.dart` 28); a task behind a manual task skipped
  (`kernel_task_graph_executor.dart` 149).
- Python programs: two copies of one IPC request that arrive together are both accepted
  (`local_authenticated_ipc.py` 41, modelled; the checked property speaks of answered ones); history
  compaction that cannot get small enough repeats (`execution_intelligence.py` 1155-1172, modelled);
  a half-open circuit lets any number of probes through (modelled); a knowledge object left by a
  crash in mid-write is trusted by the next put (modelled); the state guard takes files that were
  dirty before for its own (`generated_state_guard.py`, modelled); STATUS and HANDOFF are written
  one after the other (`roadmap_control.py` 577-578, modelled); a release with `--skip-validation`
  vouches for nothing (`release.py`, modelled); an error that is no gate error leaves the report of
  the run before in place (`v71r12_exact_source_gate.py` 971, modelled); a migration that dies half way
  (`project_manager_v2.py` 420-425, modelled).

## 2. Plan

In order of what matters most. A to C, P1 to P3 are done, with the proofs noted; the rest is ahead.

| | module | content | abstract specification, theorems |
| --- | --- | --- | --- |
| A | `OperationLedger` | done | refines `OperationOutcome`; all its properties proved |
| B | `WorkspaceTransaction` | done | all its properties proved |
| C | `RunLifecycle` | done | all its safety properties proved; `ExecutionEnds` is liveness and stays with TLC |
| P1 | `UpdateInstall` | done | safety proved; `WorkingVersionReturns` is liveness and stays with TLC |
| P2 | grants, IPC, secrets, effects, sandbox, bridge, extensions, policy | done, one run | all properties proved, and that the composition implements its components |
| P3 | the programs of delivery | done, one run | all properties proved, and that the composition implements its components |
| D1 | `DurableRuns` | saveRun / appendEvent / replaceRuns / recovery / rebuild with state versions, behind the operation queue and `close` | abstract: a map from run to its last saved state; theorem: projection = rebuild of the history |
| D2 | `PermissionGrants` (the application's) | consume, revoke, expire, delegate, across awaits | uses spent never exceed uses granted |
| D3 | `ModelCircuit` (the application's) | route, success, failure, of several runs | "cooldown, half-open probing, and reset" of `docs/V1.7.0_EXECUTION_INTELLIGENCE.md:66` against `route` |
| D4 | `FailureSupervisor`, `ExternalEffects` | attempt budget and strategy ladder; the receipt's state machine over two files | an effect is not retried once it may have happened |
| E | compositions | `RunLifecycle` with `WorkspaceTransaction` (the item-sized effects of C refined by files), the ledger's `effect` refined by the `compensation_records` table of B | refinement checked by TLC, step simulation proved |
| F | `StoreStartup`, steering, `AuditChain`, `TaskGraph`, automation host | as far as distinct questions remain | |

Modules meant for proofs use no `RECURSIVE` operator; parameters are constants with named
assumptions; one action per operation or per stretch between two awaits. What a module above needs
of a recursive operator is a constant of it (`DocumentIssues` of `PlanCompiler`, given by
`JsonContract`).

## 3. The models

### OperationLedger

One row per idempotency key (`record`) and one call per owner (`call`). An owner is one execution
(`<instance>:<lease id>`), so an owner that crashed never returns. `ClaimFresh`, `ClaimReacquired`,
`ClaimEffectRecorded`, `ClaimReplay` and the refusing branches are the exits of `claimOperation`
(DW 1407-1566), each one SQL transaction. `BeginHandler`, `HandlerMutates`, `HandlerReturns`,
`HandlerFails`, `LeaveUnreported`, `Complete`, `CompleteRecovered` are the stretches of
`ToolRegistry.execute` (WT 1585-1892). `Expire` is the passing of a lease, `Crash` the end of an
owner, `RollBackEffect` a rollback of the run's transaction, which removes a recorded effect.
`executors` and `answers` are history variables.

Abstracted: a key's argument hash is part of the key; results are model values; time is the Boolean
`live`.

### WorkspaceTransaction

`at` is the program counter of the one transaction object of the run: what it is about to make
durable. `_setStatus` (WT 1010-1046) writes memory, then `journal.jsonl`, then the table, then
rebuilds `_records`; these are the actions `SetStatus` (with its caller's step), `WriteJournal` and
`WriteTable`, and a crash or an exception may come between any two. `windows` is
`Platform.isWindows`: replacing a file is then `DeleteBeforeRename` followed by `Apply`. `Crash`
forgets memory, and may tear the journal line that was being appended; `SetStatusThrows`,
`EffectThrows`, `RestoreThrows`, `MarkThrows` are the exceptions, with the catch blocks that follow
them. `Suspend` drops the object when the run pauses for the user, `SaveFinalState` is the
coordinator's save after which the run never executes again.

Abstracted: bytes are model values (hash comparison becomes equality), the backup file is the
record's `before`, directories and path checks are left out, and the order of the records is the
order in which they were prepared.

### RunLifecycle

One run under any number of processes. Shared: `row`, `lease`, `checkpoint`, `asking`, `evidence`
(database), `effects`, `journal`, `marker` (project). Per process: `exec`, the execution with its
own copy of the run; `control`; `registered`, whose lease the coordinator's map names; `cmd`, a
command under way. An execution's `pc` names the next stretch between two awaits. Every `_save` is
two steps (`RenewBeforeSave`, `Put`), so anything can come between the renewal and the write, and a
command reads the row, renews and puts in three (`ReadForSave` or `ReadForCancel`, `CommandRenews`,
`CommandPuts`). `Heartbeat`, `Startup`, `Crash`, `Expire` may come at any time; a `<<"gone">>`
owner is one whose process died. The answers of the model are free choices: complete, ask the user,
call a tool, fail. A tool call is `ChooseTool` (the row is read again) followed by `RunTool`.

Abstracted: the files of an item are one effect; counters and budgets are the choice to fail; the
bounded in-turn repairs are further turns; which error class is retried is a free choice, bounded
by `MaxAttempts` as in the code. Replanning through steering is not in the model.

### UpdateInstall

`at` names the next durable step of the one command that runs; `root`, `previous`, `stage`, `aside`
are directories (a version and whether it is whole, damaged or unmanaged), `journal` the phase last
written with `hadPrevious`. `install` goes through `prepare`, `extract`, `staged`, `back_up`,
`backed_up`, `activate`, `activated`, `verify`, `commit`, `finish`; a throw goes to `undo_*`, the
except branch of `install_verified_update`. `recover`, `rollback`, `accept` and `uninstall` have
steps of their own. A removal may stop half way (`HalfRemoved`), on a throw or a death. `Tamper` is
someone else changing a directory. The tool takes no lock, and one command at a time is assumed.

### The carriers of authority

`MCAuthority` composes eight modules that share no variable; `focus`, chosen in `Init`, says which
one moves, so the state space is the sum of theirs. What they have in common is modelled once:
`SignedManifest` for update metadata, extensions and delegations.

- `CapabilityGrants`: `VerifyAndConsume` is `verify_and_consume` with `GrantUseLedger.consume`.
  `accepted` is history.
- `LocalIpc`: `HandleRequest` ends with the look-up in the cache, `InsertToken` is the insertion,
  because nothing locks the two; `SendProof` is the answer.
- `SecretBroker`: a secret is a file; `IssueSecret`, `WriteSecret`, `ClaimSecret` (rename),
  `ReadSecret`, `DropClaim`, `PurgeRead`, `PurgeUnlink` are single calls of the operating system,
  and `BrokerDies` may come between any two.
- `EffectService`: `AuthorizeEffect` is atomic (the lock), every later step of `write_bytes`,
  `delete`, `read_bytes`, `restore` and `run` is an action; `EffectThrows` leads to the except
  branch of that step, and `EditPath` is someone else at the path.
- `SandboxWorker`: two levels (`sandboxAt`, `workerAt`) with a time limit each, `live` and
  `captured` processes. Of the kernel only what the code relies on is modelled: the launcher's
  death kills the worker, the worker's death the namespace.
- `DelegationBridge`: verify, run, reconcile, print. `GrantSteps` and `RequestSteps` are the clamps
  of `validate_delegation`: a `maxSteps` that is absent, zero or negative becomes one step (or, in
  the contract, what the delegation allows), and none exceeds `MostSteps`, 1024 in the code. Of the
  streams of `a2a_protocol_v1.py`, `ReconcileStream` takes one as a whole: the snapshots before a
  refused one are forgotten with it. `told` is history: what the caller was handed.
- `ExtensionRegistry`: one action per command. `PolicyEngine`: a request is chosen, its overlays
  are applied one by one, and it is decided.

### Delivery

`Delivery` composes the modules of delivery in the same way, by `focus`, and `MCDelivery` gives the
constants their values. Each models a program command by command; where the code reads and writes
several files or calls a remote, every such call is an action and others may change what was read
between two of them (edits, pushes, deaths, reuse of a pid). Pure decisions (plan compilation,
convergence, policy of browser plans, readiness) are operators over inputs chosen from sets that the
MC module builds by changing one thing at a time in a valid document. A digest is modelled by what
it is computed of, a signature by its key and what was signed.

`BenchmarkRunner` computes with whole numbers: a score in parts of `Full`, a weight in a unit that
all weights of the suite are multiples of. Floats have such a unit, as each is a multiple of a power
of two. The ratios of a report are rounded as the code rounds them (`Rounded`: to the nearest, a tie
to the even one), to `1 / RatioScale`, which is 10^-6 in the code. What a double loses of an exact
ratio or sum is left out, and so are `NaN` and `Infinity`, which the check of a weight lets through.
What is hashed into a report is what Git's index holds (`Hashed`), what is run is what the files
hold; `StageFile` is a `git add`.

`ReleaseGates` guards the source as Git lists it: `Untracked` is `git ls-files --others
--exclude-standard`, so a path that `.gitignore` excludes (`IgnoredPaths`: `.env`, `*.tmp`,
`credentials.json`) is seen only while it is tracked. A test may rewrite such a file, or leave one
behind, and pass the guard; `CleanTestsLeaveSource` says so and promises the rest. What `.gitignore`
excludes is taken as fixed: a test that edits that file is seen, as it is tracked.

`ExactSourceGate` is the gate a recovery commit passes (`v71r12_exact_source_gate.py`): the runs of
commands and patchers, the two repairs of the checkout (`Renormalize` of the index,
`CompareSource` and `RepairSource` of the files), the manifest read before and after the SDK's tools,
and the report. The repair of the files reads one source after the other and writes HEAD's bytes over
those that differ only in line endings; what somebody saves in a source between its reading and its
writing is overwritten, although the function's comment says that uncommitted work is left
"completely untouched". The model has these lost saves, and `WorkIsKept` is stated for all others.
A file is its text and its line endings, in the working tree and in the index, because git compares
text and the tools read bytes. Commands write, and people save, stage and remake files, while it runs.
HEAD is assumed to stay: the gate reads the commit of its report last (line 932) and does not compare
it with anything, so a commit made after the second reading of the manifest (916) would be named by
a report about the commit before.

In `ResearchWorker` a checkpoint carries `lost`, what the crawl had to give up: a crawl that is
resumed twice would otherwise claim an exhausted frontier for a page the first part had lost.

`TypeOK` of both runs is the conjunction of the modules' type invariants.

## 4. Runs

| run | question | bounds |
| --- | --- | --- |
| `operation_ledger` | is every caller told one outcome, and is nothing stolen from a live owner? Does the ledger implement `OperationOutcome`? | a compensatable and a non-compensatable key, two owners, two results, three generations: a first claim, a takeover and one more. A third owner would repeat what the second does, as a row knows only its current one |
| `noncompensatable_repeat` | violation: is a non-compensatable handler started once? | same |
| `workspace_transaction` | do journal and project agree, after any crash or exception, on both kinds of platform? | two files, two contents and absence, two mutations (which may meet on one file, in both directions), two crashes (one during the recovery of the other), two throwing steps. Also run once with three mutations and one crash |
| `run_lifecycle` | one execution at a time; cancelled means undone; committed means kept | two processes, two dependent items, three commands, one crash, no stall: enough for execute, pause and cancel from either process, and for a crash followed by a takeover |
| `run_takeover` | succeeded means committed, when leases run out under living processes | two processes, one item with two attempts, two commands, one stall |
| `run_ends` | does every execution end? | two processes, one item with two attempts, two commands |
| `update_install` | is a working version ever lost, does success mean working, does an operator get one back? | three versions, a key ring with a good and a revoked key, good metadata, a damaged bundle and one defect of each kind; two deaths (one during the recovery of the other), one throw, one change by others |
| `authority` | is authority only narrowed and used as often as it says, in each of eight components? | per component: three grants that share ids and nonces, four invocations, three points in time; two IPC threads; two secrets and two processes with one death; two effects on one path with one throw and one edit; extension candidates with one defect each over three points in time; about five thousand policy requests under up to three overlays and a widening; three workspace modes; one bridge process with one defect of each kind, delegations of -1 to 3 steps under a limit of 2, and streams of up to two snapshots |
| `delivery` | is what is published, executed, deleted, completed or let through what was checked? | per component two commands, one or two changes by others, one death, and inputs with one defect each; plans of up to three tasks, histories and crawls of up to three pages, suites in which one case outweighs the others thirtyfold, reported to a tenth, so that rounding hides a case that did not pass; a source, a generated and an ignored path under three edits; seven turns without progress (one more than the last escalation), three audit records with two alterations, three soak samples (the last exactly on the limit); a 2-byte page that overflows a 2-byte crawl budget; for the exact gate two runs, two writes by others, one generated file, one evidence and one untracked file, and a HEAD whose manifest is exact, names an uncommitted file, or misses one with evidence that claims too much |
| `update_recovery` | violation: "Injected failure at every stage returns to working version" | as `update_install` |
| `lease_loss` | violation: "lease loss during execution -> fail closed" | one stall |
| `failed_again` | violation: a failed run is not executed again | two commands |

Deadlock checking is off where the system may stop: bounds are used up, a run is over, nobody asks
for anything. The largest runs are `authority` (about 0.6 million distinct states) and
`workspace_transaction` (3.9 million).

Some properties are conjunctions of two or more that ask one question, each part named and
commented where it is defined: `JournalTruthful` (`EffectJournaled`, `OpenMatchesJournal`),
`EndsHold` (`RollbackRestores`, `CommittedFinal`), `SafetyNet` (`NeverLost`, `BackupIsOlder`),
`PublishedAsChecked` (`SignedBundleIntact`, `ReleaseVouched`, and `PushedAsCommitted`, itself
`WorkIsKept`, `TestedAsCommitted` and `PassedIsExact`), `AuthorityOnlyNarrows` (`RevokedIsFinal`,
`OverlaysOnlyNarrow`), `RemoteAsReviewed` (`ReviewedLoss`,
`ReceiptHolds`), `GatesTruthful` (`LadderHonest`, `SoakHonest`, `CleanTestsLeaveSource`,
`HarnessEndsProgram`, `FixtureHonest`).

Each property has a mutant in `PROJECT.json`: a definition changed the way a plausible bug would
change the code (`..._Existence`, `..._Oldest`, `..._MarkerUnread`, ...), under which the run fails.

**Guards in the properties.** Some properties are guarded by a bound that is not a weakness of the
check but of the code, see section 6: `EffectJournaled` allows one throwing step without crashes or
crashes without a throwing step; `OpenMatchesJournal` and `RollbackRestores` speak of executions in
which nothing threw; `OneExecution`, `CancelledIsUndone` and `CommittedKeepsEffects` of executions
in which no lease ran out under a living process (`stalls = 0`). `SucceededIsCommitted` and
`CommittedFinal` have no such guard.

**Fairness** (`LiveSpec`). `WF` of `Execution(p)` and `UserCommand(p)`: the Dart event loop runs
every continuation that is ready, SQL statements return, timers fire. A paused execution is always
able to take `Stopped`: `_awaitControl` polls, and throws once the wall-time budget of the run is
spent (PR 6300-6316), so it needs nobody to resume it. `SF` of `EndAttempt(p)`: the turn limit of
an attempt (PR 3380-3397) ends a loop of turns, which the model, having no turn counter, could
repeat forever; each turn passes through a point where an end is enabled, hence strong fairness.
Nothing is assumed of the user, of crashes, or of leases.

`FairSpec` of `UpdateInstall`: `WF` of `Running`, since a command that was started goes on until it
ends, throws or dies, and deaths and throws are bounded. `SF` of `Recover` and of `Rollback` while
the installation is not whole: the operator without a working version, for whom the two commands
exist, tries them again and again. The code cannot promise that; `WorkingVersionReturns` says that
trying is enough.

## 5. Proofs

For every value of the constants, from the assumptions that the modules name (listed below). Eight
modules hold the proofs; `tlapm` checks each by itself.

**OperationLedgerProofs.** `LedgerInv` is inductive: types; an idle owner holds no key (`IdleRows`,
`CallsHaveKeys`); every answer given for a key is the result of its completed row
(`AnswersFromRow`, `CompletedHasResult`), which is why a late completion cannot introduce a second
answer; effects belong to mutating keys; and, for keys without takeover, whoever is in a call or
ever started the handler owns the row (`FirstOwnerKeeps`). Theorems: `TypeCorrect`,
`AnswersAgree` (`OneAnswer`), `OneOwnerRunsCommand` (`NonCompensatableOneOwner`), `LiveOwnerKeepsRow`
(`NoStealFromLive`) and `LedgerRefinesOutcome` (`OutcomeSpec`: initial states map to initial
states, a completion maps to `Decide`, an answer to `Answer`, everything else stutters).

**RunLifecycleProofs.** Each theorem adds a layer to the one before.

- `TypeCorrect`. `TypeOK` is not inductive: that `exec[p].item` is an item when an attempt saves it
  needs `ItemAtHand` (where an execution is, *or will be once its save is over*, determines which
  item and attempt it may hold), and that a command writes a proper state needs `CommandKnown`.
- `SuccessIsCommitted` (`SucceededIsCommitted`), by `SuccessFollowsMarker`: the checkpoint, the row,
  every execution's copy of the row and every command's copy say `succeeded` only behind the marker.
  The stale copies are why the row alone is not inductive.
- `RunIsExecutedOnce` (`OneExecution`), by `LeaseHeld`: while `stalls = 0`, whoever is engaged owns
  the lease *and* the lease is live; hence nobody can acquire it, and two engaged tasks would be one
  owner. Crashes give the lease to `<<"gone">>`, which engages nobody.
- `CancelledRunIsUndone` (`CancelledIsUndone`) and `CommitIsKept` (`CommittedKeepsEffects`), by
  `ProjectKnown`: the journal tells the effects; an execution that has not committed finds no
  marker and knows every effect there is (`Accounted`), so its rollback removes them all; it knows
  of a commit only at its end; what a cancellation writes is undone before it is written; and
  nobody works behind a row that says `cancelled`. Each of these holds because nobody else is
  engaged (`LeaseHeld`), which is what a process that oversleeps its lease takes away (section 6).

**WorkspaceTransactionProofs**: `TypeCorrect`, `RunsEndWhole` (`EndsHold`), `JournalAccounts`
(`JournalTruthful`). `TransactionInv` has three layers. `Shape` (types, records
numbered from 1 without gaps, whoever has a record at hand has one) and `Final` (with the marker
there is only `begin`) hold whatever throws. `Calm` holds while nothing threw, after any number of
crashes: what memory, the journal and the writer's hand say of a record agree (`Memory`, `Writes`);
without a marker at most the newest record is prepared (`OnePrepared`); a loop still has before it
exactly what it has not done (`Loops`); before any rollback a file holds what the journal says, but
for the file of the prepared record (`Untouched`); and the oldest live record of a file has saved
the original (`Accounted`). The last is why a rollback, newest first, restores: undoing the newest
leaves the rest of the chain intact. The exception in it, `Stuck`, is a record that a crash left
prepared behind a marker, which `begin` then never reconciles (section 6): it may differ, but it is
named by the journal. For the one throw without crashes that `JournalTruthful` admits, `Calm` is lost
(a record whose last status was not written differs between memory and journal) and `ThrowInv` takes
its place: what memory calls applied the journal has not undone (`NamesRecords`), each status that is
being written follows the one before (`Follows`), a commit or rollback visits only what is applied
(`Lists`), and every file is `Explained`: a record names it for good (`Named`), or the rollback under
way leaves one of its live records out (`LeftOut`), or its oldest live record has saved the original
(`Traced`). Until the throw, a record is prepared only while its effect is under way (`Quiet`).
`Min` and `Max` of a finite set exist because strict inclusion of finite sets is well founded
(`MaxExists`), which avoids an induction.

**UpdateInstallProofs**: `TypeCorrect`, `WorkingVersionKept` (`SafetyNet`), `SuccessIsWorking`
(`ReportsWorking`). `UpdateInv` adds what each command knows at each step: `InstallInv` (the
journal speaks of this install, what is in the way works and is older than the offer, which is what
makes the backup acceptable later), `CommandInv` (what a removal is about to lose is not needed),
`JournalInv` (a journal of a first installation) and `AsideInv`.

**AuthorityProofs.** One theorem per component, and then the composition.

- `GrantsAreNotStretched` (`GrantNotStretched`): the count of an id is the number of uses let
  through under it, and the grant of the last use allows them (`Covered`); grants with one id may
  allow different numbers, so a per-grant statement would be false.
- `AnswersAreNotReplayed` (`AnsweredNotReplayed`): an answer follows the insertion and the cache
  only grows.
- `SecretsAreReleasedOnce` (`SecretReleasedOnce`): a secret that was claimed has no file, at most
  one process reads it, and a released one has neither a file nor a reader.
- `RevocationIsFinal` (`RevokedIsFinal`): a revoked extension has no way back through install,
  update, review or enable, and a revoked key resolves for nothing.
- `NoOverlayIsOutvoted` (`OverlaysOnlyNarrow`): what an overlay demands of the scope, the budget and
  the approval stays so once it was applied (`Applied`), because the ones after it only shrink sets
  and budgets further and drop no demand, in whatever order they come.
- `EffectsStayWithinGrant` (`EffectsWithinGrant`): the effects under a grant are counted under its
  id, and the last one was let through below the limit; everything past `authorize` has its
  `started` line.
- `UndoReturns` (`UndoReturnsBefore`), an action property: an effect that may still be undone has a
  backup of what it found (`UndoReady`), through every step of a write that throws.
- `SandboxContains` (`SandboxContained`): no program starts unless the workspace was mounted safely
  (`ProgramConfined`), and whoever is alive is held by a launcher or worker that termination knows
  (`TreeKnown`).
- `BridgePrintsWithinDelegation` (`PrintedWithinDelegation`): what is printed was reconciled under
  the clamped numbers, which exceed the signed ones only where those are below one. A stream that is
  reconciled ends with a snapshot newer than each before it and with the same end, by induction
  along the stream (`StreamStep`), and so the last snapshot is the newest of all that were handed
  over (`StreamInv`).
- `AuthorityImplementsComponents`: a step of the composition is a step or a stutter of every
  component, so each of the above holds in it; with it `AuthorityTypeCorrect` and
  `AuthorityIsOnlyNarrowed` (`AuthorityOnlyNarrows`).

**AgentToolProofs.** It begins with what the library cannot give: its induction and recursion
theorems take an operator, which no installed prover instantiates. `CountingUp` (a set with 0 and
the successor of each of its numbers holds all numbers; from the library's well-founded minimum) and
`RecursionOnNat` (the function of a step relation exists and is unique) replace them, for sets and
functions. From those: sums over sequences (`SumOf`) and lists filtered by a condition (`Kept`: the
elements at the chosen places and no others, in their order).

- `AcceptedPlansAreGuarded` (`AcceptedPlansGuarded`): the two flags of the reviewer mean what was
  looked at last and whether the last action was checked (`FlagsFit`), for plans of any length.
- `RowsAreTrue` (`RowsMatchProcesses`): no row before its launch was recorded, no program without
  its launcher, and what a command saw before it wrote is still true enough (`CommandsInformed`): a
  pid that was the launcher's may become nobody's or a stranger's, but never the launcher's again.
- `AlterationIsDetected` (`AlterationDetected`): an alteration can only store signatures that were
  made before; a record's signature tells its digest, the digest its index, and so a verified record
  is the one written at its place. By induction along the file the verified records are a beginning
  of those written, and a checkpoint tells the digest, hence the place, of the last one it covers.
- `ExecutablePlansRun` (`ExecutablePlanRuns`): the most involved of the operators. A plan without
  errors is sound (`PlanSound`: ids differ, dependencies are enabled, every set of tasks has one that
  depends on none of it, each producer depends on the producer of that path before it). Each round
  of batching finishes a task, so as many rounds as tasks finish them all; a task is in one batch,
  after what it depends on; and two producers of one path are ordered along the chain of producers.
- `StallsEscalate` (`StallEscalates`): the decision is that of the last turn (`DecidedBefore`), up to
  an approval the user gave since; one more turn without progress never lowers the stage, whatever
  the repeats are and as long as the repairs left do not grow (`StageGrows`).
- `ResearchFindsEverything` (`ResearchComplete`): the frontier is levelled as a breadth-first one is,
  no visited page lies deeper than an entry of it, and what a visited page above the limit links to
  is one level down at the most: visited, in the frontier, lost to an error, or nothing to visit
  (`Explored`), in the crawl and in each checkpoint. With an empty frontier that closes the set. A
  search that was paged holds the beginning of the filtered list up to its offset.
- `CompilerTypeCorrect`, `IntelligenceTypeCorrect`, `ResearchTypeCorrect`, `SafetyTypeCorrect`,
  `ProjectTypeCorrect`, `InteropTypeCorrect`: the type invariants, with what each needs beside them. A
  circuit counts at most one failure past the threshold because a failure is only counted at or below
  it; depths stay within the limit because only a page above it has its links followed; and a search
  plans few queries because each kind of query is planned a bounded number of times.

**ReleaseProofs.**

- `SignedBundlesAreIntact` (`SignedBundleIntact`): a verification compares every field of every row
  with the archive, so a bundle it calls signed is the one the rows were made of, although the
  files may change between the hash and the copy.
- `ReleasesAreVouched` (`ReleaseVouched`): the checksum is written last, of an archive that was read
  back (`ArchiveInv`); and a checkpoint whose signature verifies names the head of a chain, which
  determines every record before it (`OpsInv`, an induction down the chain).
- `PushedIsAsCommitted` (`PushedAsCommitted`), by `ExactInv`: what is written between two steps of
  the gate is listed in `lately`, `unsaved` and `stagedOutside`, and for the rest each check still
  holds when the next one is made: `EvidenceRead`, `BytesRepaired`, `ManifestRead`, and at the
  report `Vouched`; and by `RepairHarmless`: a source held for writing was nobody's work when it was
  read. That a command can give a file HEAD's text back is why the manifest, read after
  the SDK's tools, and not the status before, is what carries the argument.
- `CompletionIsBacked` (`CompletionBacked`), by `CompletionInv`: of the files of a task the packet
  is written last, behind a manifest that says `passed`, and `prepare` removes the packets first, then writes note and manifest of each task.
- `RemoteIsAsReviewed` (`RemoteAsReviewed`), by `LossInv` and `RulesInv`: since the listing only a
  push moves a branch, and the comparison happens on the listing; while nobody else changed the
  hosted rules, what a verification matched so far stays matched to its end.
- `OfferedIsReady` (`OfferedWorkIsReady`), by `RoadmapInv`: a consistent manifest has the direct
  dependencies of what is started done with evidence, and what is done was started; the proof
  carries that along the transitive closure, by induction on the length of a path.
- `GatesAreTruthful` (`GatesTruthful`), by `GatesInv`: the soak gate reads samples in the order of
  their counters, each placed by its rank; its least-squares slope is compared by showing that a
  line of the budget's slope through the first sample exceeds it exactly when the spread does; the
  guard's snapshot lists what differed from HEAD as far as Git shows it (`SnapshotTrue`), and a path
  that was clean and tracked can only differ later by being listed; the harness drains only a program
  that is over (`ProgramDrained`).
- `BundleTypeCorrect`, `ReleaseTypeCorrect`, `ExactTypeCorrect`, `PhaseTypeCorrect`,
  `GovernanceTypeCorrect`, `RoadmapTypeCorrect`, `GatesTypeCorrect`: the type invariants. None of them is
  inductive alone: a command that runs is a record with other fields at each of its steps, so each proof
  carries the shape of the command (`PackagingShaped`, `RenderShaped`, ...) or takes it from the
  invariants above.

**DeliveryProofs.** Two tools that no other module needs, and the composition.

- `ReadinessIsEarned` (`ReadinessEarned`), by `BenchmarkInv`. Rounding keeps the order of ratios
  (`RoundedInOrder`) and moves one by half a unit at most (`RoundedNear`): so readiness stays below
  coverage, because what earns points was measured (`PointsOf`), and a readiness of 1 leaves out at
  most half a unit (`AggregateTells`). A check reads the baseline first; as long as nothing is edited
  under it each of its results is the one the present files give (`OfPresentStill`), and a report
  that agrees in all results therefore speaks of the present. With it `BenchmarkTypeCorrect`.
- `MemoryTypeCorrect`: a process that puts an object carries a blob, and what it writes is one of three
  kinds of file.
- `DeliveryImplementsComponents`: a behaviour of the composition is one of each of the fifteen tools; so
  all of the above hold in what the run checks. `PublishedIsAsChecked` (`PublishedAsChecked`) joins
  bundle, archive and exact gate; `DeliveryTypeCorrect` (`TypeOK`) joins the fifteen type theorems.

**Assumptions.** Each is named in its module, is what the code or the shape of its inputs
guarantees, and is evaluated by TLC on the run's constants: `LedgerAssumption`,
`LifecycleAssumption`, `TransactionAssumption`, `UpdateAssumption`, `GrantsAssumption`,
`IpcAssumption`, `SecretsAssumption`, `EffectsAssumption`, `BridgeAssumption`,
`ExtensionsAssumption`, `PolicyAssumption`, `SafetyAssumption`, `ProjectAssumption`,
`IntelligenceAssumption`, `InteropAssumption`, `BundleAssumption`, `ReleaseAssumption`, `PhaseAssumption`,
`GovernanceAssumption`, `GatesAssumption` (limits and times are numbers, null values are no real
values, functions have their domains, lists are lists, the order in which branches are listed names
them all); `CatalogAssumption` (the profiles the
program ships are valid by its own check); `CompilerAssumption` (the tasks of
a plan are a list); `ResearchAssumption` (redirects and links name pages of the site, catalogues are
lists); `RoadmapAssumption` (the order of tasks is a list that
names every task a manifest may have, a manifest has finitely many tasks);
`ExactAssumption` (generated contracts
are Dart sources, which are tracked); `BenchmarkAssumption` (suites are lists of cases with integer
weights, `Full` is a multiple of the number of paths of each policy).

**Only model-checked.** `ExecutionEnds` and `WorkingVersionReturns`: liveness under fairness and
`ENABLED` are out of the prover's reach. Every invariant and every action property that a passing run
checks is stated by a theorem.
`RECURSIVE` operators cannot be reasoned about: `JsonContract` has them, and no module with a
theorem reaches it. The four runs that end in a violation have nothing to prove.

## 6. Where the code and its documents differ

Four runs end in a violation on purpose; `findings` in `PROJECT.json` quotes the sentences.

1. `noncompensatable_repeat`. A command or MCP call that failed with a code the taxonomy does not
   know is started a second time by the same execution.
2. `lease_loss`. An execution that overslept its lease finishes its tool call, and when its next
   save fails rolls its transaction back, in the project the new owner works on.
3. `failed_again`. A pause or cancel that read the run before it failed writes the copy back; the
   failed run is then recovered and executed again.
4. `update_recovery`. The installer dies after it renamed the installation to the backup and before
   the journal says so: `recover` reads STAGED, drops the journal and reports PASS with nothing
   installed. A later `rollback` brings the old version back, which is why `WorkingVersionReturns`
   holds.

### Counterexamples met

TLC also showed the following while properties were being stated. No document of the repository
promises otherwise, so they are not runs; the checked properties carry the guard that excludes
them, and the guard is there for this reason only.

Workspace transaction:

- The journal says `applied`, then the table write throws (WT 1021): `_records` is not rebuilt (WT
  1037), a rollback skips the mutation and still writes `ROLLED_BACK`.
- The same, followed by a crash or a second fault: the next `begin` reloads the skipped mutation,
  and the next rollback restores what it had found, over what the first one had restored. The file
  then differs from the original although every record says `rolled_back`.
- The append of `applied` throws, the old bytes are written back later, the run is suspended or
  crashes: `begin` finds the old bytes, marks the first record `abandoned`, and a rollback restores
  what the second had found. On Windows a rename that throws after the delete leads to the same.
- `ROLLED_BACK` is never removed (WT 671): when a run is executed again after a crash that followed
  a rollback, the `begin` after the next crash reconciles nothing.
- A crash after a file was restored and before the journal says so (WT 919): a resumed run commits
  a record whose change is not in the project.
- A crash between the journal append (WT 1016) and the table write (WT 1021): the ledger's effect
  lookup (DW 1507), which reads the table, misses an effect or offers one that was undone.

Run:

- A crash between the rollback (PR 2979) and the final save (PR 3007): the resumed run finds its
  items succeeded, skips them and succeeds without their effects.
- A crash between the marker (WT 865) and the checkpoint (WT 870) makes the run interrupted; if the
  preflight then blocks it (PR 2445) it is shown as failed although it is committed.
- Cancelling an approved or interrupted run that nobody executes writes `cancelling` (PR 2217),
  which nobody completes; recovery makes it `interrupted`, and it can be executed.

Authority and delivery (the checked properties are worded so that these are outside them):

- Two copies of one IPC request that arrive together are both taken in: the cache's look-up and
  insertion are not one step (`local_authenticated_ipc.py` 41).
- Two grants with one id and different limits: the larger one decides (`capability_grant_v2.py`
  226).
- An effect whose file somebody else changed after the backup is restored to the backup, over that
  change (`p2_reference_runtime.py` 269).
- `next` of the roadmap reads the manifest twice; an edit in between makes it offer a task whose
  dependencies are not done (`roadmap_control.py` 516).
- What is pushed to a branch between its listing and its deletion is lost, since the ref is deleted
  by its name (`branch_hygiene.py` 404).
- A page whose fetch exceeds the byte budget has left the frontier and is in no checkpoint, so a
  resumed crawl never visits it (`runtime.py` 655).
- The pending review of a new extension is dropped by an update that asks for the same capabilities
  (`extension_registry_v2.py` 189). No property speaks of it.
- A test that rewrites an ignored file, or leaves one behind, passes `verify-clean`
  (`generated_state_guard.py` 274).
- A report may say a readiness of 1 although a case did not pass, when its weight is too small for
  the sixth decimal (`benchmark_runner.py` 1082-1090, 1159-1167).
- A delegation of no, or of fewer than no, steps lets one be taken (`a2a_bridge.py` 196-197).
- A crash between STATUS and HANDOFF leaves two documents that contradict each other until the next
  `render`.

## 7. Not modelled

Everything listed `not_modelled` in `PROJECT.json`, with its reason there. Of the application: the
store itself (events, projection, migration), permission grants, model circuits, the recovery
supervisor and external effects are ahead in the plan; the native authority service, the automation
host, the user interface and prompt studio are I/O or text. Of the Python programs:
`validate_release.py`, the command-line front end, scanners, generators and one-off patch scripts
(the exact source gate aside) compare text with constants or start other programs; a model of them would repeat those constants.

Within the modelled components. Run: the linked retry of a failed run, steering and replanning,
budget counters, the contents of tools, the wait and delegate decisions of a deferred interaction,
permission checks before a tool runs, wall-clock order of records, the user's own edits while a run
works. Update installer: two commands at once, archive parsing, directory modes. Authority: framing
of IPC messages, path resolution, seccomp, the cryptography. Delivery: parsing and scoring of text,
redaction, listing and inspection commands.
