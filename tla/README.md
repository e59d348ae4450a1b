# Apex Ray in TLA+

Apex Ray is a local code reviewer: it diffs a branch against its base, runs
language analyzers over the changed files, packs the context of each change,
has LLM reviewers read the packs, verifies what they report and decides whether
a push may go out. This directory holds TLA+ specifications of the parts of it
in which order, interruption and shared state matter, the TLC configurations
that check them on small instances, and TLAPS proofs of their main properties
for instances of every size.

Source paths below are relative to `src/src/apex_ray/`, and `docs/` to `src/`.
`PROJECT.json` maps every definition to the lines it models and lists, for each
property, a variant of the code that breaks it (the definitions commented
`Variant:` in the modules; they are used nowhere else).

1. [Inventory](#1-inventory)
2. [The modules](#2-the-modules)
3. [Runs, bounds and fairness](#3-runs-bounds-and-fairness)
4. [Proofs](#4-proofs)
5. [Where the code and its documentation disagree](#5-where-the-code-and-its-documentation-disagree)
6. [What is left out, and the plan](#6-what-is-left-out-and-the-plan)

Commands, from this directory:

    tlc -workers 2 -config GateRefs.cfg MCGateRetry      # any row of section 3
    tlapm GateRetryProofs.tla                            # any module of section 4

## 1. Inventory

### How the parts interact

    git diff --> analyzers --> context packs --> reviewers x packs --> findings
                 (Dart: LSP)   (selection,       (pool, circuit,      --> verification
                                budgets)          cache)              --> report R.json
    R.json --> review --continue-from [--until-complete] --> R.json   (coverage debt)
    R.json, pre-push.state.json --> gate pre-push --> push or reject  (incremental retry)

Processes communicate through files only: the JSON report and its archive, the
gate's state file, the triage files, the LLM cache, the Dart cache and the case
files of an evaluation. Within one process, the LLM work runs on a thread pool
with a shared circuit breaker, the Dart client runs three threads around two
queues, and the TypeScript analyzer has a reader thread and a worker thread for
Git beside its Node processes.

### Components

| Component | State it keeps | Operations | What is hard | What makes it correct |
|---|---|---|---|---|
| **Pre-push gate** `cli/gate.py`, `gate_retry.py`, `pipeline/snapshot.py` | `pre-push.json`, `pre-push.state.json` across runs; one run's mode, report, carried findings | run the gate; full, incremental, coverage-resume and resolution-resume modes; carry, resolve, drop and suppress findings | refs, configuration and files change between and during runs; a run is killed between its two writes; deferral under a call limit | no push passes with an unreviewed change or a lost finding; debt is only paid by reviews |
| **LLM pool** `llm/review.py`, `llm/cache.py`, `llm/routing.py` | queue, work in flight, circuit of each route, cache | lookup, admission, call, store, record, fallback on quota | admission and outcome are separate locked steps; profiles share a route | bounded calls after the circuit opens, nothing paid twice, every pack and finding accounted for |
| **Coverage completion** `pipeline/coverage.py`, `pipeline/runner.py` (continuation), `report/run_state.py`, `cli/main.py` | the archived report: reviews, decisions, settings they were made under, verdict | plan a batch, run it, merge it, checkpoint, stop with a reason | crashes between checkpoints, edits of settings between runs, packs shared by reviewers, one cap for reviews and verifications | `complete` is true, deep reviews are kept, an incomplete scope always has work, retries end complete |
| **Dart LSP client** `analyzers/dart/lsp.py` | sticky failure, pending requests, write waiters, two bounded queues, child process | request, notify, answer the server, fail, shut down, close | registration races with failure; writes block on a full pipe; late answers; cancel of a timed-out request | a call returns only with its own answer, nobody sleeps through a failure, threads end |
| Findings and decisions `findings.py`, `pipeline/findings.py` | active decision of a finding | consolidate, supersede, reject | several reviewers report one defect | a decision is attached to the finding it was made for |
| **Coverage status and gates** `report/coverage.py`, `report/coverage_breakdown.py`, `gates.py`, `pipeline/selection.py` | none (derived) | select packs under caps, classify reviews, debt, ratios, todos, quality gate | partial runs, required reviewers, failed verifications, several caps at once | a passed gate means the coverage it asks for; every debt has a command that works it off |
| **Local files** `triage.py`, `cli/findings.py`, `report/archive.py` | suppressions, event log, archive directories | suppress, unsuppress, prune, apply; archive and prune reports | nothing locks the files; several worktrees share them | a hidden finding is hidden by a suppression made for it; every end is in the log; a run's archive stays whole |
| **LLM call** `llm/api.py`, `llm/http.py`, `llm/providers.py`, `llm/cli.py`, `llm/responses.py`, `llm/errors.py` | attempt, delay, child process | build and refuse a provider, send, classify, repeat, parse | what an error says against what it means; `Retry-After` | only transient failures are repeated, the status is true, every finding is decided |
| **PR evaluation** `pr_eval/*` | case status and result files, worktrees, lock, workers | run a case in a worker, supervise, resume | killed and surviving workers, files written one after the other | a resumed run reuses only finished results of its own options and labels; a run ends |
| **TypeScript analyzer** `analyzers/typescript.py` | retained inventory with its counters, Git and Node processes | inventory by list, stream or walk; extended configurations; manifest; shards; merge | limits on four quantities at once, a deadline in every loop, threads around Git | limits hold; nothing is lost without being reported; every changed file is accounted for |
| **Dart analysis** `analyzers/dart/runner.py`, `cache.py`, `workspace.py` | cached results by fingerprint | fingerprint, look up, open, ask, retry, store | files edited while others are hashed, includes that change meanwhile; partial results | a served result rests on the inputs its key names |
| Diff, classification, rules `risk.py`, `rules/*` | none | parse, classify, match | - | priority and weight of a pack are `PackSelection`'s; the rest is data |
| Context text `context/*` | none (pure) | collect and trim the text of one pack | - | a pack is its size here |
| Runtime selection `repository_runtime.py`, `version_lock.py` | lock file | resolve, assert | pinned against installed version | one decision at start, not modelled |
| Memory, prompts, rendering, configuration, benchmarks, telemetry, Go and Python analyzers, CI action | none that a later step depends on, or append-only | parse, score, render | - | data transformations |

`PROJECT.json` lists all components with their status, and under `hazards` the
places of this code where a test would hardly notice an error, with the
properties that cover each.

## 2. The modules

| Module | Role |
|---|---|
| `GateRetry` | the gate, its files and the developer around it |
| `MCGateRetry`, `GateRetryProofs` | histories for TLC; theorems |
| `ReviewPool` | one reviewer's LLM work: threads, circuit, cache |
| `MCReviewPool`, `ReviewPoolProofs` | routes and packs for TLC; theorems |
| `CoverageDrain` | completion of coverage in batches over an archived report |
| `MCCoverageDrain`, `CoverageDrainProofs` | reviewers and packs for TLC; theorems |
| `CallContract` | abstract: what a call of the LSP client promises |
| `DartLspClient` | the client's threads, shown to implement `CallContract` |
| `MCDartLspClient` | small client for TLC |
| `Routing` | which configuration reads a pack and verifies its finding, route key, cache identity |
| `PackSelection` | standing of a pack; selection under the caps of a reviewer |
| `ReviewCoverage` | what a report says of its own coverage |
| `CoverageGate` | the coverage side of the gate: review, follow-up, verdict, todos, next push |
| `MCCoverageGate`, `CoverageGateProofs` | settings and packs for TLC; theorems |
| `ProviderCall` | one call of a provider |
| `MCProviderCall` | presets and answers for TLC |
| `PrEval` | an evaluation: supervisor, workers, files, resumption |
| `MCPrEval`, `PrEvalProofs` | cases and runs for TLC; theorems |
| `TriageState` | operations on the suppressions once loaded |
| `LocalFiles` | commands and gate runs over the triage files and the report archive |
| `MCLocalFiles` | two processes for TLC |
| `FilesAndCallsProofs` | theorems about `LocalFiles` and `ProviderCall` |
| `InventoryRetention` | the bounded list of paths of the TypeScript inventory |
| `TypeScriptInventory` | taking the inventory: list, stream, walk, extended configurations |
| `TypeScriptAnalyzer` | manifest, shards, merge, on top of the inventory |
| `MCTypeScriptAnalyzer`, `TypeScriptAnalyzerProofs` | a small repository for TLC; theorems |
| `DartWorkspace` | packages of a Dart workspace and the anchors of their dependents |
| `DartAnalysis` | the Dart analysis and its cache while files are edited |
| `MCDartAnalysis` | two packages for TLC |
| `DartProofs` | theorems about `DartLspClient` and `DartAnalysis` |

`Routing` is used by `MCReviewPool` to compute the constants of `ReviewPool` from
one configuration; `CoverageGate` extends `ReviewCoverage` extends `PackSelection`;
`TypeScriptAnalyzer` extends `TypeScriptInventory` extends `InventoryRetention`;
`LocalFiles` extends `TriageState`; `DartAnalysis` extends `DartWorkspace`.

### GateRetry

A *context pack* is the commit whose changes it shows, a *finding* the pack it
was found in, a *diff* the set of commits it spans; `Anc` gives the history.
`stateFile` and `reportFile` are `pre-push.state.json` and `pre-push.json`. A
run of `apex-ray gate pre-push` is the program counter `pc` through

    Start ReadHead ReadMergeBase ChooseMode ReadDiff CaptureSnapshot RunReview
    FollowUp Validate LoadTriage ResolveCarried WriteReport WriteTriage WriteState Exit

one step for each stretch of `pre_push` (cli/gate.py 353-844) that reads or
writes something others can change. Between two steps the environment moves
(`Developer`): `MoveHead`, `MoveBase`, `ChangeConfig`, `Suppress`,
`Unsuppress`, the load and the write of a manual continuation (`ManualLoad`,
`ManualWrite`), and `Crash`, which in the middle of the state write leaves it
unreadable. `RetryMode` chooses the mode as the code does: coverage resume,
coverage fallback to a full review, resolution resume, incremental, full;
`Refresh` is the second full review of a coverage retry that made no progress
while newer commits waited. `ResolveCarried` is one step with its order of
tests kept: reviewed pack without the finding, delta with evidence, stale
evidence, then the call limit by severity.

`reviewed`, `open`, `waived`, `dropped` and `attempted` are history variables:
they record what completed runs did and no guard reads them.

Abstractions: incremental retry is on; one gate runs at a time; any missing
pack of the report counts as debt (the code compares ratios and severities with
a policy); names of base refs, repository root and schema version of the state
do not change; two reports are never confused by their timestamps.

### ReviewPool

`review_context_packs` and `verify_findings` (llm/review.py) as
`pipeline/runner.py` calls them for one reviewer: a shallow pass, a deep pass,
a verification pass (`phase`), each over a rolling pool of `Jobs` threads
(`queue`, `inFlight`, `Collect`). `Worker(p)` is a pack's thread: reject a
profile that cannot honour its effort, look the pack up in the cache
(`ReadReview`, `ReadVerifications`), ask the circuit for admission (`Admit`),
call (`Answer`), write the cache (`Store`), record the outcome (`Record`), and on
a spent quota fall back once to the escalated profile. Each is a step, since the
circuit's lock is released in between. `circuit` is keyed by the route a profile
resolves to, so two profiles may share one.

Which profile a pack goes to and to which its finding is escalated, the route of a
profile and the identity under which its responses are cached come from `Routing`:
`Resolved` overlays a profile on the configuration, `RouteKey` names the options
that share a circuit, `CacheIdentity` those that share cached responses. They
differ: the route leaves out API options such as `max_output_tokens`, the cache
leaves out the timeout.

Abstractions: the findings of one pack are verified on one route, chosen by one
finding; findings of different packs are different; a cache key is read once per
run, hence the cache is what it held before; rendering errors outside the
provider call end the run and are not modelled.

### CoverageDrain

`report` is the report in memory, `saved` the one on disk; both give each
*assignment* (a reviewer and a pack it matches) its latest review and decision
and the settings under which each was made. `Load` rebases the saved report on
the present settings, `Plan` is the head of the loop (`continue_review_until_complete`),
`RunBatch` calls the provider for every planned assignment and merges,
`Settle` writes the checkpoint and decides whether to go on, `Final` writes the
verdict, `Refuse` is the failed snapshot check. `Crash`, `Move`, `MoveBack` and
`Edit*` are the environment.

Abstractions: one finding per assignment; an explicit scope of reviewers; which
packs of equal standing a batch takes is open (the code sorts them by risk);
pack filters do not change; settings are edited while no process runs. A deep
upgrade that fails replaces a successful shallow review: the latest run of a
pack counts, by design of `reduce_llm_pack_run_states`.

### CallContract and DartLspClient

`CallContract` says that a call returns normally only if it was served, that it
ends once, and that none begins after the connection broke. `DartLspClient`
implements it with user threads, the owner (the thread of the `with` block), the
dispatcher and the writer; `at[t]` is where thread t is. `writes` is
`_write_queue`, `hand` the frame the writer holds, `stdin` the pipe to the
server, `inbound` the frames between the server and the dispatcher, `pending` and
`waiters` the tables `_pending` and `_write_waiters`, `failure` the sticky
`_failure`. A step ends at a locked region, a queue operation or a wait;
`_set_failure` is its locked region followed by the wake-up of those it has to
tell, so that registrations can come in between. The refinement mapping
(`Contract`) takes `call` restricted to users' calls, the calls the other side
answered or wrote, and `failure # None` for `broken`.

Abstractions: the reader thread is merged into the bounded inbound queue; the
initialize handshake, stderr, framing and the notification buffer are left out;
an error response counts as an answer; the owner makes only the two calls of its
shutdown; what `_set_failure` does after its locked region is one step per
thread it tells, since these steps commute. Deadlines are not counted: any wait
may time out at any moment.

### Routing, PackSelection, ReviewCoverage and CoverageGate

`PackSelection` and `ReviewCoverage` are operators without state. The first gives a
pack its priority, slice and weight and selects the packs of the deep and the
shallow pass under the caps on packs, deep packs, tokens and prompt size
(`plan_llm_context_selection`). The second translates what a report says of its own
coverage: ratios in parts of ten thousand as they are rounded, debt, quality gate,
severity of a partial review, status of each reviewer, todos.

`CoverageGate` lets a repository live with them: `Review` plans and runs every
reviewer's packs, `FollowUp` is the continuation that the gate runs by itself on
blocking debt, within its cap, `Judge` is the verdict (`evaluate_pre_push_gate`),
`PushAgain` resumes the saved report, and `RunTodo` is the author running the command
that the report prints for a debt. `setup` ranges over whole configurations.

Abstractions: at most one finding per assignment, decided or not; calls fail at most
`MaxTrouble` times; findings that block are `GateRetry`'s, and so is the full review
that replaces a resumed report without progress.

### ProviderCall

One call: `Build` checks a configuration in its environment in the order of
`APILLMProvider.__init__`, `Send` makes a request, `Fail` and `Answer` take what the
network returns, `Sleep` waits before a repetition, `RunCodex` and `RunClaude` are the
command-line programs. An answer is its status and the sets of tokens that the
classification looks for in its structured code and in its message; a text is JSON
with decisions, prose or rubbish that may echo a token. `MCProviderCall` also has TLC
evaluate that the effort of a configuration keeps its meaning in each preset's dialect
(`EffortsKeepTheirMeaning`).

Abstractions: redaction, payload layout and prompts; the deadline of a request is an
answer of its own ("late"); a program that overruns is killed with its group.

### PrEval

`StartRun` takes over finished results with `--resume`; `StartCase`, `Overrun`,
`Collect`, `CollectDead` and `Report` are the supervisor; `Work(w)` are the steps of a
worker: read the labels, take the worktree lock, make the tree, review and score,
remove the tree, write the result file and then the status file. `EditLabels`,
`KillWorker` and `KillRun` are the environment. A worker that outlives its supervisor
goes on writing the files of its case. A tree that stays behind, because `git worktree
add` failed after registering it (`AddFails`, outside the `try`) or because the removal
failed unnoticed (`check=False`), is marked `left`.

Abstractions: "done" stands for succeeded and partial; killing a worker ends it;
capture of pull requests and matching of texts are data.

### TriageState and LocalFiles

`TriageState` has the operations on a loaded state (replace, remove, prune, match,
apply). The code keeps a list; the model keeps the set of its suppressions with their
places in it, since the first one in force decides, and pruning orders the others by use.
`LocalFiles` interleaves the processes that use them: the commands `Suppress`,
`Unsuppress`, `Prune`, and a gate run with `Decide` (which loads the state), `Carry`,
the archive (`MakeDir`, `WriteFile`, `ListStale`, `RemoveEntry`, `Archived`), and then
`SaveState`, `ReadLog`, `WriteLog`. A write replaces a file, nothing locks it; a file
that cannot be read counts as empty. `ended` and `crossed` are history variables:
what should be in the log, and whether a file was replaced that its writer had not
read.

Abstractions: a finding of one fingerprint lies in one pack; the JSON and Markdown
reports beside the archive are left out; `shutil.rmtree` is external and removes entry
by entry.

### InventoryRetention, TypeScriptInventory and TypeScriptAnalyzer

`InventoryRetention` is the bounded list `_TypescriptInventoryRetention` as a record
with its counters, lazily built index and evictions. `TypeScriptInventory` fills it
from a supplied list, from `git ls-files` through a reader thread, or from a walk with
ignore rules, then follows `extends`, each candidate checked by a worker thread over
one `git check-ignore` (`StoppedChk` is its `close`, `AbortedChk` its `_abort`, which
sends no worker away). `TypeScriptAnalyzer` writes the manifest within its limits,
runs the shards one Node process each, and merges. Every loop looks at one deadline;
`Tick` is time.

Abstractions: one path is one chunk of output; parsing of `extends`, `exports` and
JSONC is data; warnings and cache statistics are not merged; what a shard can answer
(`Courses`, `Codes`) is taken from `analyzer-runtimes/typescript/src/analyzer.ts`, where
its own partial reading of the inventory, a configuration, a program context and the
workspace index are one kind of limit, `limited`; a killed process group
dies. A section of the manifest is a set of paths, and every loop that takes paths while
they fit is `Taken`, in the order in which the code offers them.

`ListingAssumption` says that what is listed has no key twice, and the directory tree no
entry twice. A directory tree is like that where names are not folded; Git's list is,
except for unmerged paths, of which it lists every stage (section 5): an analysis in the
middle of a conflicted merge is outside the model.

### DartWorkspace and DartAnalysis

`DartWorkspace` finds the packages that depend on a changed one (by path, or by name
inside one workspace), as far as the bytes of manifests and of libraries allow, and one
library of each to open as an anchor. `DartAnalysis` is `run_dart_analyzer`: take the
fingerprint, look it up, read the changed files and then the anchors, one file at a time in the order the code reads them (`Turn`, and the package
positions of `Anchors`), start the server, wait for it, ask about each file (with the retries of
`ActivationRace`), reconcile, and store a complete result under the fingerprint taken
at first. The fingerprint is taken step by step: `WalkInputs`, then `FollowInclude` for
each options file, `CheckPackages` for each package configuration, `HashCommand` and
`HashInput` for each file, `TakeKey`. `Edit` changes a file at any moment, between these
steps too; `disturbed` collects the files that were edited after the fingerprint had read
them. `OutOfTime` passes the deadline.

Abstractions: symbols and references are data; the server is seen through the outcomes
of a request. What it reads besides the opened files (`ServerReads`) is external and
defined on the disk of the moment, not through the fingerprint: sources and options of
the repository in ignored directories too, whatever the options include by then
(`Reached`), and the packages that configurations name. The byte limits of the fingerprint
are among what makes a file unreadable; how a `package:` include is resolved is part of
`IncludeOf`; a large executable, identified by size and time, is a content.
Three assumptions relate the constants: `FilesAssumption` says which of them name files,
`ChangesAssumption`, a reviewed file is an input of
the fingerprint, and `LibraryAssumption`, so is a library the review lists. The code makes
both true: the inventory it is handed lists every file that is not ignored, and a `.dart`
file is an input wherever it is listed (`_is_fingerprint_input`, cache.py:395).

## 3. Runs, bounds and fairness

"States" are distinct states. Symmetry is used in `local_files` alone (processes and
bases, which no property tells apart; the run checks no liveness).

| Run | Shows | Instance | States |
|---|---|---|---|
| `gate_refs` | `NoUnreviewedPush`, `NoLostFinding`, `BaselineReviewed`, `DebtPaidByReview` under commits, checkouts, fetches, configuration edits, crashes, suppressions and manual continuations between and within runs | a fork: root, two commits, one sibling; two bases, two configurations, one finding; 3 outside moves | 6,379,286 |
| `gate_resolution` | `ResumeAsksOnce`, `DeferralsDrain` with more carried findings than resolver calls | a chain of four commits, two findings of different severity, one call per run, 2 outside moves | 1,974,486 |
| `gate_switch` | the disagreement of section 5 (expects a violation) | as `gate_refs`, with `RefRaces` | - |
| `coverage_gate` | `VerdictMeansCovered`, `DebtHasWork`, `PlanWithinLimits`, `CoverageClears` | 5 packs in 4 files, seven configurations, 2 failed calls | 4,365 |
| `drain_shared` | `WorkIsFound`, `VerdictIsTrue`, `DeepReviewIsKept`, `DrainCompletes` | two reviewers in scope and one outside, sharing a high-risk pack; five first reports; batches of 2, 2 per process, 1 mishap | 72,514 |
| `pool_review` | `BoundedOvershoot`, `NoRepeatedCall`, `SkippedOnlyWhenExhausted`, `Accounted`, `Finishes` | 4 packs, 2 workers, circuit limit 2, one pack read shallowly first, cached responses, two profiles that share a route but not a cache identity, quota, timeout, malformed answers and failing cache writes | 321,527 |
| `provider_call` | `EveryFindingDecided`, `FaithfulStatus`, `RetriesOnlyTransient` | every preset, model and effort; gateways in and out of continuous integration; 2 repetitions; all combinations of status and tokens | 34,610 |
| `dart_lsp` | `FailureReachesAll`, `PendingIsLive`, `KeepsContract` (refinement), `EveryCallEnds`, `ThreadsEnd` | one caller beside the owner (whose leaving makes two calls), a server that may ask once, all queues and pipes of size 1 | 319,357 |
| `dart_analysis` | `ServedRestsOnItsInputs`, `EveryFileAccounted`, `DartRunEnds` | three packages (one manifest beyond the byte budget), a source in an ignored directory, an included options file that includes another in its second version, two runs one after the other, 2 edits of a source, the options file or a package configuration, 1 fault | 573,844 |
| `typescript` | `WithinLimits`, `NothingLostInSilence`, `ResultAccountsForAll`, `AnalysisEnds` | a repository of 8 paths with 3 changed files, six sets of limits, 2 faults | 554,576 |
| `local_files` | `HiddenByAgreement`, `EveryEndIsLogged`, `ArchivesKept` | two processes, one finding, two bases, three commands or runs, 1 fault, 1 edit, times 1 and 2 | 2,396,349 |
| `pr_eval` | `TreesOfTheDead`, `ResumedResultsFit`, `SupervisedRunEnds` | 2 cases, runs 1 and 3 supervised, run 2 sequential with other options, one worker at a time, edits of one label file, deaths and Git failures of one case, 2 together | 833,372 |

The type invariants of the modules with proofs are theorems (the one of `DartAnalysis` is
part of its inductive invariant) and are not listed with the runs.

**Why the bounds are enough.** *Gate:* the shortest way to go wrong takes a run,
a change, a second run and possibly a third after a crash; `MaxMoves` bounds only
what happens outside the gate, the number of gate runs is unbounded. The history
has a commit on top of another, a sibling and a base that can advance, so that every
answer of the eligibility check occurs; every mode is entered. *Coverage:* each
configuration of `MCCoverageGate` binds another cap (packs, deep packs, tokens, prompt
size, follow-up cap) and another part of the verdict; 2 failures make one call fail in
the review and again in the follow-up. *Pool:* the circuit limit (2) is smaller than
the number of packs, and two workers are enough to have one in flight when the circuit
opens. *Drain:* the scope's reviewers share packs, the batch is smaller than the debt,
and the mishap (`MaxTrouble`: failed outcomes, crashes, moves and edits together) can
hit each point. *LSP:* size-1 queues make every full and empty case occur; two callers
and two calls were checked once for the safety properties (4.37 million states) and for
the inductive invariants of the proofs, and the theorems hold for any numbers.
*Provider:* two repetitions have a first, a middle and a last attempt; `RetryMax` is
smaller than one named delay and larger than another. *TypeScript:* each set of limits
is exceeded by the instance in one quantity (entries of a section, paths, bytes,
package index, manifest, entries of a response), and metadata has to evict sources.
*Dart:* one edit and its reversal fit, between any two steps and the hashing of any two
files; a first run fills the cache that the second may be served from. Each of the
exceptions in `ServedRestsOnItsInputs` is needed: TLC finds a counterexample without it. *Local files:* two processes and a third
start let a command fall between the reading and the writing of a run; the retention is
smaller than the number of archives. *Evaluation:* a third run resumes what a second
one resumed, and finds what an orphan of the first wrote into the results of the second;
`MaxTrouble` (2) counts edits, deaths and failures of Git together, so that a supervisor
and a worker die, a label file is edited and edited back, or a removal fails before a
worker dies.

`CHECK_DEADLOCK FALSE` appears where a system really stops: a client that was left, with
a dead server (`DartLsp.cfg`); the last evaluation (`PrEval.cfg`); a call that has
returned (`Provider.cfg`); an analysis that has ended (`TypeScript.cfg`,
`DartAnalysis.cfg`); processes that have used their starts (`LocalFiles.cfg`). In the
other models a state without a step would be an error.

**Fairness.** *Gate:* `WF(Gate)`: a started run goes on and a rejected push is
tried again; the developer's other moves owe nothing. *Coverage:* `WF(GoOn)`: the author
pushes until the gate passes, and runs no command unless she likes. *Pool:* `WF` of each
worker and of the main thread: a provider call returns or runs into `timeout_seconds`,
and threads are scheduled. *Drain:* `WF(Process)`: a started process goes on and a
stopped one is started again, as the user of `--until-complete` does; `WF(MoveBack)`:
the reviewed snapshot is checked out again, without which every continuation is
refused by design. *LSP:* `WF(Client)`: the client's threads are scheduled; neither
server nor users are fair. `EveryCallEnds` adds `WF(Deadlines)`, the timeouts of the
waits. *Dart analysis:* `WF(Work(r))`: every request and every wait of a run is bounded.
*TypeScript:* `WF` of time, of the deadline, of the two threads noticing that they must
end, and of the shards; nothing is assumed of Git. *Evaluation:* `WF(Supervise)`, what
the supervisor does; nothing is assumed of the workers. `provider_call` and `local_files`
check safety only and assume no fairness.

## 4. Proofs

TLAPS checks every theorem below for all values of the constants that satisfy the
modules' assumptions. Each inductive invariant was first checked by TLC.

**`GateRetryProofs`** - `TypeCorrect`, `PushIsReviewed`
(`[](NoUnreviewedPush /\ BaselineReviewed)`) and `BaselineIsReviewed`, `DebtIsPaid`,
`ResolverAskedOnce`, `NoFindingIsLost`. From `HistoryAssumption` (ancestry is reflexive
and transitive, two commits have one best common ancestor) and `PolicyAssumption`; all
but the first and `ResolverAskedOnce` also from `~RefRaces`, no ref moves to another
branch during a run, which the run `gate_switch` shows to be necessary.
`NoUnreviewedPush` is not inductive: what a run may skip depends on the baseline that
the previous one saved, and on what it has read so far. `ReviewInv` adds that refs have
not left what the run read (`RefsHeld`), that the mode was chosen for a state still valid
(`ModeHeld`), that the run's report belongs to its diff (`ReportHeld`), that past
validation the report covers the push (`RunCovers`), and `BaselineReviewed` itself.
`NoLostFinding` needs more, since a finding travels from report to saved state to carried
list to report: `AnsweredInv` says that the saved state answers for every open finding of
its span (`BaselineAnswered`), and that at each point of a run what it will save spans its
fresh packs and what it takes over, and that every finding it started from is current,
carried, stale, hidden or resolved (`RunAnswers`). `ResumeAsksOnce` rests on `AskedInv`: a
deferred finding in the saved state is one no resumed run asked about, and a finding is
carried once.

**`ReviewPoolProofs`** - `TypeCorrect`, `OvershootIsBounded`, `NoCallIsRepeated`,
`SkippedWhenExhausted`, `EveryPackAccounted`. From `PoolAssumption`. `TypeInv` adds that a
closed circuit has counted less than its limit; `PoolInv` says that the busy workers are
packs in flight, at most `Jobs`, and that calls still running on an open route plus those
already ended late are at most `Jobs - 1`: the worker whose outcome opened the circuit
calls no more, and none is admitted later. `PlaceInv` says where a pack is (queued, in
flight with a worker, or neither) in each phase. `RunsInv` adds which packs have runs, and
that while a pack is read a second time on the escalated profile the circuit of every
earlier call of it is open: this, not the order of the workers, is why no route is paid
twice. `VerdictInv` says which findings have a verdict before the verifier's worker takes
their pack, after its cache lookup, and when it is done.

**`CoverageDrainProofs`** - `TypeCorrect`, `VerdictHolds`, `DeepReviewsAreKept`,
`WorkAlwaysFound`. From `DrainAssumption`. `DrainInv` says that reviews and decisions in
both reports are honest about the settings they were made under, that the report in memory
is the saved one rebased while a batch is planned and run, that a plan takes no deep
review, and that `complete` implies completeness. `WorkInv` carries `WorkIsFound`: what
keeps a scope from being complete is pending, a batch is planned only when something is,
and every way of planning takes some of it within the cap.

**`DartProofs`**, LSP client - `TypeCorrect`, `NoCallSleepsThroughFailure`,
`ContractKept` (the refinement of `CallContract`), `PendingRequestsLive`. From
`ClientAssumption`. `TypeInv` adds which calls are open where and what each thread
holds. `FailInv`: one thread at a time tells of the failure, who waits is in a table
until it is told, a failed client has an empty queue. `ServedInv`: an outcome a
thread finds is that of its current call, an entry of `pending` is a request in
progress, a frame on its way is of a call that was begun. The refinement follows:
each action is one step of the contract or leaves it unchanged.

**`PrEvalProofs`** - `TypeCorrect`, `TreesAreRemoved`, `ResumedFit` (an action property).
From the assumptions on the cases, the commands and the versions of labels. What a resumed
run takes over was written by a worker of any earlier run, perhaps one that outlived it,
so the invariant follows a result from the fingerprint on: `WorkersHold` says what a worker
holds in each phase (labels equal to those of its fingerprint, or the case is `raced`),
`Written` that a finished result on disk is scored with the labels of its fingerprint,
`RunHolds` that each case of the current run is queued, started with the run's options or
reported, `Unstarted` that no case is started twice.

**`FilesAndCallsProofs`**, provider call - `TypeCorrect`, `FindingsAreDecided`, `StatusIsFaithful`,
`RetriesAreBounded`. For any `MaxRetries`, `Backoff` and `RetryMax`, any sets of
configurations and answers; `AnswersAssumption` says that only the body of a failure has a
code or a message. `Progress` bounds attempts and waiting in each phase, `Attempts` keeps
the answer a repetition was decided on together with its classification.

**`FilesAndCallsProofs`**, local files - `LocalTypeCorrect`, `HiddenIsAgreed`, `EndsAreLogged`,
`ArchivesAreKept`. For any number of processes, findings, times and limits
(`TimesAssumption`, `LimitsAssumption`, `ActiveAssumption`). Every file has a revision;
`RunInv` says that a process which has read the last revision holds nothing that has ended,
that what its write will end is not in what it will write and is among the events it will
log. `FileInv` and `LogInv` are the same for the files themselves, except after a file was
replaced unread or a process died between its two writes (`crossed`). `ArchiveInv` says
that at least `Retention` directories are newer than any that was chosen for removal, and
that what was not chosen is complete before its manifest.

**`DartProofs`**, analysis - `ServedResultsRest`, `FilesAreAccounted`,
`KeysCoverTheServer`. For any number of runs over one cache, any files, edits, packages,
includes and limits, from `ChangesAssumption`, `LibraryAssumption` and `FilesAssumption`
(section 2). `ServedRestsOnItsInputs` is about a hit, long after the run that made the
entry has ended; the invariant follows that run from its first step on. While a
fingerprint is taken, `IncludesKnown` says of every options file that was followed, and
not disturbed since, that what it includes is followed or still to be followed,
`PackagesKnown` that the configurations checked name no package outside, `ContentsKnown`
that what was hashed is what the disk holds. Hence a complete key is closed under what
the server does (`KeysCoverTheServer`): the server's options files are the least set
closed under inclusion (`Reached`), and what was followed is one such set, ignored files
aside. During the session what was used rests on the key (`Using`), and `Sound` says the
same of the entry that is left in the cache. On the side of the files, `Divided` says that
every changed one is waiting, read, analyzed or failed, and only one of these, `Recorded`
that a loss is still to be seen in the result.

**`CoverageGateProofs`** - `ReviewStaysWithinLimits` (`PlanWithinLimits`), `VerdictsHold`
(`VerdictMeansCovered`), `DebtAlwaysHasWork` (`DebtHasWork`), `AlwaysTraceable`. For any packs,
reviewers, caps, thresholds and failing calls, from `SetupsAssumption` and the assumptions on
packs. Ahead of the invariant come facts about the operators: a selection in rounds or by
weight is one by rank, and no more than the cap are ahead of a taken pack; a budget is a fold,
whose course is found by an induction of its own (a set of numbers closed under successor is
all of `Nat`, from `WFMin`); token sums grow with their sets; a rounded ratio reaches its
threshold only when the counts do. `Consistent` says, at every point of a run, that standing,
reasons and counts of the report are those of its own reviews, `Traceable` that what the report
holds was planned under the limits in force. Together they are inductive; `DebtHasWork` follows,
since what keeps the verdict from `complete` is a pack that a printed command still selects.

**`TypeScriptAnalyzerProofs`** - `AlwaysAccounts` (`ResultAccountsForAll`), for any inventory,
limits and answers, from `ChangedAssumption` (a path is listed once) and `ShardsAssumption`.
`Splits` says that shards have no file in common, none is empty and together they have all;
`Accounts`, the invariant, that each shard passed has one answer or one failure, about its own
files, and that nothing is answered before the manifest is written.

`AlwaysWithinLimits` (`WithinLimits`), for any repository, limits and course of Git, the walk
and the file checker, from `PathsAssumption`, `InventoryAssumption`, `ListingAssumption` and
`ManifestAssumption`. The argument has three layers.

- *Operations.* `Good(r)`: the retention is well formed, and counters, index and limits agree
  with what it holds (`CountersAgree`). A drop (`Dropped`) keeps `Good`, removes one key and
  leaves everything under other keys; so do the rounds of making room and capacity
  (`RoomMade`, `CapacityMade`), each followed along its trace by induction on the rounds. With
  the room that these leave, placing a new path (`Inserted`) and merging one that is offered
  again (`MergedAgain`) give a `Good` retention with at most one new key.
- *Steps.* A source path is never looked up among the sources, so `Good` is inductive only
  while nobody offers one twice. `Inventoried` adds why nobody does: what is still in Git's
  output, with the reader thread or in the queue has no key that is retained
  (`InGitOrder`), and every retained key belongs to an entry that the walk has passed
  (`InWalkOrder`); configurations that `extends` adds are looked up, being critical.
- *Manifest.* Sections cut by entries or by bytes take only what fits (`TakenIsAllowed`), the
  bytes of the sections are shared out of the bytes that there are (`RoomIsShared`), hence a
  manifest that is written is within its reader's limits (`ManifestWithin`). `Limited` is
  `Inventoried` with that.

Sums over sets are folds in an order that `CHOOSE` fixes; `SumRemoves` shows once that the
order does not matter.

**Only model-checked:**

- Liveness (`DeferralsDrain`, `Finishes`, `DrainCompletes`, `EveryCallEnds`, `ThreadsEnd`,
  `SupervisedRunEnds`, `AnalysisEnds`, `DartRunEnds`, `CoverageClears`): ENABLED and
  fairness are out of the prover's reach.
- `NothingLostInSilence` (`typescript`): it compares the manifest with the configurations
  that a full following of `extends` reaches, and so needs what the loops over packages,
  exports and configurations compute, not only which reasons they can give
  (`FollowReasons`). These are folds over folds, and each would need its course by an
  induction of its own.

No module declares a recursive operator.

## 5. Where the code and its documentation disagree

The run `gate_switch` states the sentence as its only property, and TLC violates it:
`cli/gate.py:773` saves the HEAD captured at the start of the run, while review and
validation look at the live HEAD. After a checkout during the run the state names a
commit that no run reviewed; `docs/configuration.md:708` calls the state file "safe to
reuse across normal worktree branch switches and rebases".

Found in the same way, and now without a run of their own:

- *Gate.* A suppressed finding is not among the saved active findings (`cli/gate.py:655`),
  so that after the suppression ends an incremental retry passes without it;
  `docs/review-workflow.md:270` says the finding blocks again. A finding whose evidence
  text a commit rewrote is sent to the resolver; after `still_present` the next run on the
  same HEAD drops it as stale (`cli/gate.py:1081`), although by `docs/configuration.md:693`
  it keeps blocking. While a coverage debt persists each coverage resume resolves its
  carried findings anew and a deferred one may never get its turn, which is why
  `DeferralsDrain` assumes the debt away (`docs/configuration.md:686` suggests otherwise).
  The debt carried by an incremental run looks always empty, since debt puts a retry in
  another mode. Suppressing a finding from a report of an incremental range takes the base
  from the configuration (`cli/findings.py:86`).
- *Pool.* A failing cache write (`llm/review.py:247`) is inside the `try` of the provider
  call and can open the circuit of a route that answered; `docs/configuration.md:487` ties
  the circuit to provider failures.
- *Drain.* The progress key (`pipeline/coverage.py:128`) counts pending packs, not
  verifications: settling one of two verifications on a pack counts as no progress, where
  `docs/review-workflow.md:149` says the loop stops without measurable progress.
- *Local files.* `findings suppress --expires never`, which the help of the option and
  `cli/findings.py:191` offer, is parsed to no expiry, and no expiry becomes the default
  lifetime (`triage.py:210`): no suppression is without an end (`Expiries`).

Seen while modelling, neither documented nor contradicted by the documentation, and built
into the properties where they bear on them:

- *Coverage.* The token budget orders by weight, not by p0 and p1, so that a pack of a
  strict rule of low severity can lose to a plain one. A p0 pack too large for a deep
  review competes in the shallow pass only, where the deep p1 packs may have used up
  `max_packs`. A pack that no enabled reviewer matches keeps a todo whose command selects
  nothing. A printed command respects the budgets of the configuration, which the gate's
  own follow-up does not. A pack that keeps failing is first in every bounded follow-up.
  Every matching reviewer pays for a forced upgrade in a mixed batch.
- *Evaluation.* A label file that is edited after the fingerprint of its case was computed
  and before the replay reads it, and then edited back, lets `--resume` take over a result
  that was scored by other labels than its fingerprint says; `docs/pr-eval.md:56` has it
  trust artifacts only when the fingerprint matches options and label file.
  `ResumedResultsFit` excepts the cases whose labels changed in that window (`raced`), and
  the theorem shows that there is no other way. A worktree stays registered after its
  worker was killed, after a `git worktree add` that failed late (`pr_eval/runner.py:674`,
  outside the `try`) and after a removal that failed: `check=False` at line 750 ignores it.
  `TreesOfTheDead` excepts just these. An in-process run can wait for ever for the lock of
  an orphan, hence `SupervisedRunEnds`.
- *TypeScript.* `git ls-files` lists an unmerged path several times; dropping one of the
  copies raises `KeyError`, which is not an `AnalyzerError` (`analyzers/common.py:65`) and
  ends the whole review; the model records it as `broken`. A `tsconfig` that cannot be read
  silently drops what it extends. The walk lists files that Git hides. A visibility
  checker that was given up just as its worker had answered leaves this worker waiting in
  `_requests.get()` (`analyzers/typescript.py:1504`): `_abort` enqueues no end mark and
  `close` none after a failure. It is a daemon thread, and `AnalysisEnds` excepts it.
- *Dart.* A file edited between its own hashing and the end of the session leaves a result
  of other contents in the cache, which is served once the edit is taken back. Sources and
  options in ignored directories or behind symbolic links are visible to the server and
  not in the fingerprint. `ServedRestsOnItsInputs` excepts both, and the files outside the
  key to which such an options file or package configuration leads. A refused optional
  request or an unreadable anchor costs a warning only, and the poorer result is cached.
  More than 512 manifests, or manifests beyond the byte budget, are cut without a warning.
- *Local files.* A gate run loads the triage state (`cli/gate.py:616`) before it asks its
  resolver and writes it at 752: a `findings suppress` issued meanwhile is lost and an
  `unsuppress` undone, which `crossed` excepts. A run whose archive another run prunes ends
  before its triage state is written. A state that cannot be read counts as empty and the
  next write wipes it. A suppression that is replaced leaves no event
  (`docs/telemetry.md:64` lists none).
## 6. What is left out, and the plan

Done: every module of section 2 with its runs, and theorems for every safety and action
property of the runs but one, `NothingLostInSilence` of the TypeScript analyzer.

Next: that one; as refinements, the gate's saved state as an abstract ledger of open
findings and the Dart cache as a map from contents to results.

Possible later: several findings per assignment with superseded decisions and
consolidation (`findings.py`), the notification buffer of the LSP client
(`analyzers/dart/lsp.py` 441-480, 753-790), the runtime selection as operators, and two
overlapping Dart runs over one cache file.

**Not modelled:** text (prompts, rendering, parsing of diffs, JSON and configuration),
the scoring of risk, the Go and Python analyzers (pure parsers over one snapshot), GitHub
access, benchmarks (a sequential batch without state between its cases), telemetry
(append-only), review memory, installation steps of the CI action and the vendored
runtimes.
