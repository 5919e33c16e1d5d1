# A TLA+ model of MCP-GuardBench

MCP-GuardBench (`src/src/guardbench`) registers MCP tool servers, records what they
advertise, lets an operator approve it, inspects the servers a developer has configured,
and benchmarks security controls against deterministic, deliberately vulnerable lab
servers. This directory holds TLA+ modules of its stateful parts and of the analysis they
rest on, TLC runs on small instances and machine-checked proofs. Every definition is a
translation of the Python source; `PROJECT.json` maps each one to its lines.

## The system

| Component | State it keeps | Operations | Talks to |
| --- | --- | --- | --- |
| Run lifecycle, `services/runs.py` | a row per run, its events, findings and metrics; `RunRegistry` (a cancel event per executing run) | create, execute, cancel, persist | orchestrator, database; the API's thread pool and the CLI call it |
| Orchestrator and adapters, `benchmark/orchestrator.py`, `adapters.py` | results and traces so far, the cancel flag it polls | one turn per (adapter, case) pair: prepare, execute, verify, clean up | scenario runner, scanner, recorder; gives the run lifecycle its outcome |
| Scenario runner and guards, `benchmark/runner.py`, `guards.py` | observed and exposed tools, baseline, model context, counters, the fixture's ledger | list, call, advance; the guard's three hooks | MCP client, policy engine, recorder |
| Policy engine and approvals, `policy/` | calls counted per trace, trust store, approval requests | evaluate a call, check a response, request and resolve an approval | called by the runtime guard |
| Response bounding, `policy/engine.py` | none | fit a text and a notice under a byte limit | the check of a response |
| Normaliser, metrics, report | none | verify a claimed result against ground truth, compute rates | results, recorded events |
| Runtime evidence, `runtime/` | event list, sequence number, subscribers, trace-id counter, marker sightings | record, publish, observe, redact | everything that emits events |
| External scanner, `benchmark/cisco_scanner.py` | a process-wide cache of what the program printed | locate, run, parse | orchestrator; a subprocess |
| Server inventory and trust, `services/scan.py`, `db/repositories.py` | server row, snapshots, tool rows, scan findings | scan, approve baseline, approve and revoke a tool, advance and reset the lab | lab fixtures, fingerprinting, drift detection |
| Inspection and pin file, `cli/main.py`, `inspection/` | the pin file | read client configurations, list servers, compare with pins, write pins | MCP client, analysis |
| Analysis, `analysis/` | none | metadata rules, capabilities, fingerprints, drift reports and their grades | scan, guards and inspection call it |
| Lab servers, `mcp_lab/servers` | ledger, phase | scripted | scenario runner |
| HTTP API, `api/` | per-request database session | routes, body guard, pagination | services |
| Dashboard, other CLI commands | none | read pages; parse arguments | API; services |

What is hard here, in one line per part (`PROJECT.json` "hazards" has each at its line):

- **Run lifecycle.** Synchronous routes run on a thread pool and every request has its own
  session, so "read the status, then write it" is two steps of a race; a cancel event is
  found under a lock and set outside it; the run is marked running before it can be
  signalled; processes die and handlers fail. *Correct* means: a run is executed once, its
  status follows `pending -> running -> completed | failed | cancelled`, its evidence is
  stored whole and once, an accepted cancellation is not lost, the registry points at what
  executes (but for one failure, below), and nothing waits for ever.
- **Server trust.** The same sessions, and an ORM that writes only the columns it thinks
  have changed, so a stale read suppresses a write. *Correct* means: one baseline, trust
  only on the strength of a baseline, a trusted server's latest snapshot is the approved
  one, no pin of a definition nobody recorded, a revoked tool has no pin.
- **Policy, approvals, scenarios.** A call counter at its limit, an approval that must
  cover one call, drift that is noticed on one path and not on another, tools that vanish
  while they are vouched for. *Correct* means: nothing runs that policy forbids or that
  nobody approved, and the ground truth agrees with the ledger.
- **Orchestrator, evidence, metrics.** Every phase of every pair may fail, clean-up too,
  and a cancellation may arrive between any two of them; the adapters share one recorder,
  one bus of subscribers that may fail, one seeded source of trace ids. *Correct* means:
  exactly one result per pair with a reason when there is no verdict, ids that re-running
  reproduces, verdicts from a pair's own evidence and the ground truth, rates whose
  denominators leave out what was not scored.
- **External scanner.** A subprocess that may be missing, hang, fail or print anything, and
  a cache filled before its rows are examined. *Correct* means: a listing that was not
  scanned is never scored as one in which nothing was found.
- **Inspection.** Servers page without end, repeat names, change between two pages; two
  invocations share a file and either may be killed. *Correct* means: status 0 stands for
  something, an accepted listing is whole, no pin moves without having been shown, and the
  file is never half a file.
- **Drift.** Several changes at once, changes approved in small steps, a hash that covers
  more or less than what is compared. *Correct* means: drift is reported exactly when a
  reader sees a difference, and no companion change or split lowers a grade.
- **Response bounding.** A notice whose length depends on how much is cut.

## Modules

| Module | Kind | Code |
| --- | --- | --- |
| `RunWorkflow` | abstract specification | the lifecycle that `services/runs.py` documents: two variables, six moves |
| `RunLifecycle` | component | `execute_run`, `cancel_run`, `create_run`, `persist_outcome`, `RunRegistry`, the CLI's `_run_persisted`, the orchestrator's cancel boundary |
| `BenchmarkPlan` | abstract specification | what the orchestrator promises: pairs due, answers given, stopped, over |
| `Benchmark` | composition | `orchestrator.py` and `adapters.py`; extends `Metrics`, `CiscoScanner` and `Evidence` |
| `Verification` | pure operators | `result_normalizer.py`, the consistency of a test case, which findings count |
| `Metrics` | pure operators | `metrics.py` and the counts of `report.py`; extends `Verification` |
| `CiscoScanner` | component | `cisco_scanner.py`: one listing, the ways its subprocess ends, the cache |
| `Evidence` | component | `recorder.py`, `event_bus.py`, `trace_context.py` |
| `PolicyEngine` | pure operators | `policy/engine.py`, `policy/models.py`: the policies the loader accepts, the decision on a call, the check of a response |
| `Approvals` | component | `policy/approval.py`: the registry of approval requests |
| `LabFixtures` | data | `mcp_lab/servers`, `mcp_lab/fixtures.py`: what a runner and a guard can tell apart about each tool |
| `ScenarioRun` | composition | `benchmark/runner.py`, the guards of `benchmark/guards.py`, `LabFixture.call_tool`; extends `PolicyEngine` and `Approvals` |
| `ResponseBound` | component | the loop of `_fit_within_limit` in `policy/engine.py` |
| `TrustWorkflow` | abstract specification | scan and approve as single steps on three variables |
| `ServerTrust` | component | `scan_server`, `approve_baseline`, `approve_tool`, `revoke_tool`, the lab controls, `save_snapshot`, `sync_tools`, `approve_snapshot` |
| `Analysis` | pure operators | `metadata_analyzer.py`, `risk_rules.py`, `schema_analyzer.py`, `capabilities.py`, the severities |
| `Drift` | pure operators | `fingerprinting.py`, `drift_detector.py`; extends `Analysis` |
| `DriftReview` | component | one server over time, as the callers of `compare_snapshots` see it |
| `PinBook` | abstract specification | what the pin file promises |
| `Inspection` | component | `inspect_command` of `cli/main.py`, `inspection/configs.py`, `client.py`, `service.py`, `pins.py`; extends `Drift` |
| `RunLifecycleProofs`, `BenchmarkProofs`, `ScenarioRunProofs`, `ResponseBoundProofs`, `ServerTrustProofs`, `DriftProofs`, `InspectionProofs` | proofs | of the module they are named after (`DriftProofs` is of `DriftReview`) |
| `InductionFacts` | lemmas | induction over numbers and finite sets, recursion, sums and folds; for `BenchmarkProofs` and `InspectionProofs` |
| `MCRunLifecycle`, `MCBenchmark`, `MCScenarioRun`, `MCResponseBound`, `MCServerTrust`, `MCDriftReview`, `MCInspection` | instances for TLC | |

### RunLifecycle

A *request* is one HTTP call, or one `guardbench benchmark run --project`, used once. It
names the `threading.Event` that `register` makes for it. `pc` says where it is:

    idle -> claim -> register -> sync -> cases -> persist -> release -> ended      execute_run
                                   \-------\---------\-> failing -> release        its except block
                                                              \-> stranded        when that fails too
    idle -> withdraw -> ended     idle -> lookup -> signal -> ended                cancel_run

`row` is the committed row: status, what kind of summary it has, whether `completed_at` is
set. A session reads the row in one step (`ExecuteRead`, `CancelRead`) and commits an
UPDATE in a later one (`ExecuteClaim`, `Withdraw`) that does not test what was read, as
the ORM does. `PersistOutcome` is one transaction: the flush of events, findings, metrics
and the row. The orchestrator is its cancel boundary only: `Pairs` turns, each polling the
event. `owed` is a history variable: the executors that were signalled while a pair was
left to visit.

`Faults` selects which failures may happen: the claim's or the withdrawal's commit, any
exception inside the try, the failure handler itself, the death of a process. A failure
handler that fails leaves `run` expired by its rollback, so that `registry.release(run.id)`
reads the row once more: it may be released all the same, or stay in the registry
(`stranded`).

`Exclusive` is an assumption about clients, not about the code: nobody starts on a run
while another request has read it and not yet written it. What holds without it and what
holds only with it are separate runs.

### Benchmark, Verification, Metrics, CiscoScanner, Evidence

One run of the orchestrator over every pair of an adapter and a case, in the order of its
two loops. `stage` says where the pair in flight is:

    starting -> boundary -> prepare -> execute -> verify -> cleanup -> boundary ... -> finished
       \-> rejected   \-> (skipped: cancelled or disabled)

`Start` refuses a plan that names cases which do not exist. At a boundary the cancel event
is polled: once seen, every later pair is skipped as cancelled. A disabled case is skipped
before its trace is created. Any phase may fail (`PrepareFails`, `ExecuteFails`,
`ScanFails`, `Cleanup` with an exception raised) and leads to the result the code gives
it, after an error event in its trace; a clean-up that raises never loses the result. A
user's adapter may find in `execute` too that it cannot run (`ExecuteUnavailable`). What a
play had recorded before it broke off is `Begun`: any first part of what it records.

A *scenario* that was played enters as what its runner leaves behind: ground truth,
findings, events, and for a third-party adapter what it claims. `Plays` is the set of what
that may be. `ScenarioRun` models how it comes about; `PlaysAssumption` says of it only
what every guard's code fixes, such as that no adapter but the runtime guard blocks
anything. `ThirdParty` adapters claim what they like, the name and the case of the result
included (nothing compares them with the pair's), and may fail anywhere, or hang; a name
that is not registered is an adapter that is not available. `played` is a history variable: what
was played for each result, so that a verdict can be compared with it.

`CiscoScanner` abstracts the external program by the rows it prints and the ways a process
can end; a listing is scanned unless the cache holds it, a full cache is emptied, and rows
are cached before anybody checks that every tool in them was scanned. The operator may
install or remove the program between two cases. A tool of the listing for which the
program prints no row at all is not among what `Printed` allows; the code does not ask for
one. `Evidence` numbers, stores and publishes events, in one step (the code draws the number
before it builds the event, and nothing else runs in between); any subscriber may fail on
any event, at most `MaxErrors` times. A report is made of a run unless a claimed result
failed its expectation for a case that was not selected (`Reportable`).

Left out: latencies, the wording of reasons, the markers a tracker follows, redaction, the
report's layout. The metrics keep numerator and denominator, so an empty rate is one with
denominator 0, which the code prints as absent.

### PolicyEngine, Approvals, LabFixtures, ScenarioRun

One scenario: a scripted agent, a guard and a fixture. The steps of a scenario are actions
(`ListTools`, `AdvanceFixtureState`, and for a call `SkipCall`, `CallUnguarded`,
`CallPermitted`, `CallRefused`, `CallHeld`), and nothing fixes their order, so a behaviour
is any test case that can be written for the fixture. Each action is a whole step of
`runner.py`: the listing pins, registers, withholds, renders and scores; a call resolves
`$LAST_RESULT`, is evaluated, opens or finds an approval request, runs in the fixture, and
its response is inspected and scored.

`setup` is fixed when the run is created: fixture, guard, policy, mode, whether deletion
is simulated, and how many steps the scenario may have. A *text* (a description, an
argument, a response) is the set of what matters in it: a secret in clear or encoded, an
injected instruction, more text than the limit, a destination. `Candidates` collects the
decision of each rule of `engine.py` that applies and `Strictest` picks, as the code does;
which rule is named as the reason is left out. `PolicyConfig` is what the validators of
`models.py` let through, so a theorem about it is about every policy file that loads.

A tool definition in `LabFixtures` is a record of labels: its hash, its effective
capabilities, whether the metadata analyzer flags it, what its rendering puts before the
model, what its schema takes, the ledger entry it writes, what it answers. The analyzer is
modelled by its verdict on these definitions, not by its rules. A fixture has two
listings, for phases 0 and 1; only `drift_server` changes.

Approvals. Nothing in `src/` resolves a request while a scenario runs; the registry and
the simulated operator are there for callers. `OperatorResolves` and `OperatorReviews`
let anybody do so between two steps, in interactive mode only, with any verdict, under any
name: this is an environment, and it is the most general one the interface admits.

Left out: events, findings and marker flows (evidence about a step, written and never
read by it), times, the wording of denials, the arithmetic of truncation (`ResponseBound`; here a
response that is too long is shown without its excess). The ledger is a set, so two equal entries are
one: no property counts them. Alert-only guards differ only in findings and are one guard.

### ResponseBound

The four rounds of `_fit_within_limit`. A text is `lead` one-byte characters followed by
characters of one `width`; a cut inside a character drops it, as
`decode(errors="ignore")` does. `Notice` gives the length of the notice for a limit and a
number of bytes withheld.

### ServerTrust

One registered server. A request's session keeps what it read (`seenTrust`, `seenBase`,
`seenTools`: the identity map), and a commit changes only the columns whose new value
differs from the value read (`Put`). SQLite, the default database, has one writer: from
its first flush to its commit a session is alone, so that part is one step. Reads before
it are stale by then. An approval's two parts are `ApproveRead` and `ApproveCommit`; a
scan reads the server (`ScanRead`), observes and compares with the latest snapshot
(`ScanObserve`), then stores everything (`ScanStore`). A scan whose tools another scan
has inserted, or deleted, cannot flush and is rolled back (`ScanConflict`); so is an
approval that updates a tool row that is gone (`ApproveConflict`). `Abort` is any
exception before the commit, "database is locked" among them.

An *observation* is a tool listing with the identity the server reported. Equality of
observations is equality of snapshot hash and identity; equality of definitions is
equality of tool hashes (the hashes are assumed to be injective). `Grave` says which drift
is graded HIGH or worse: any set of pairs will do here, `Drift` models the grading.

`Exclusive` again is about clients: requests for the server come one at a time.

Simplifications: PostgreSQL's finer interleavings and its isolation levels are not
modelled; the reads that a request makes before its first write are one step (two for a
scan, with the observation between them); `created_at` has no ties; the lab controls are
single steps, since each reads and writes one column of one row; a server that is deleted
or renamed is not modelled, since no operation does that.

### Analysis, Drift, DriftReview

Pure functions, as operators. A *text* is a record of what the rules can tell about it: its
words, the pattern rules that match it, the other tools it refers to, whether it holds
invisible characters, whether its layout is ragged, whether it is too long. Which texts,
and which names read as words, a regular expression matches is data (`NameHits` for the
names); the texts of annotations, of the keys of `_meta`, of enums and of defaults are left
out, where the same rules apply. Of the rest: which rule applies where, what a finding's place and
severity are, how findings of one tool, one server and several servers combine, and the
calibration that lowers or compounds them, is the code. A *fingerprint* is the value it is
computed from, after the normalisation the code applies.

`DriftReview` puts them under the question every caller has: a server advertises one
version after the other, each is compared with what was approved last and may be approved.
`worst` is the highest grade approved on the way, `broken` that a step took a tool away or
left one whose text names another.

`SplittingDoesNotHide` has four exceptions, each a grade that depends on more than the step
it is given in: a tool that returns is judged as a new one, whose hints do not raise it; the
rules a tool already broke (`CompoundBase`) are not counted again towards MA-090; a
reference is judged by the tool it names only when the text that holds it changes; and a
dangerous capability that is only guessed, from the name of the tool or of a parameter
(`Guessed`), raises a new tool that has no other finding, and an MA-021 only where there was
none.

`dropped` is what stands under the key of the capabilities and is no word, or the whole of it
where that is no list: the hash covers it, and nothing else looks at it but the text rules.
`DriftIsExact` is about what the model holds; the order of an enum or of a list of types,
which the code sorts away as well, is not in it.

### Inspection

Invocations of `guardbench inspect` that share one pin file. An invocation reads its
arguments and the file (`Start`), lists its servers page by page and at most `Concurrency`
at once (`Connect`, `ListPage`, `TimeOut`), builds its report (`Report`), and, with
`--update-pins`, writes a temporary file and replaces the old one (`WriteTemp`,
`Replace`, `SaveFails`). It may be killed anywhere (`Kill`), and servers may change
between any two pages (`Change`). A server is known under a *label*: its name, with the
client and then a number appended when the name is taken. Offline files go over a server
that has their label.

`books` and `shown` are history variables: every book the file has held, and the snapshots
reported so far. `steady` says that a server did not change while it was listed; it is
there for the properties and no action reads it. What the report says of each label is
`Drift` and `Analysis` applied to what was listed. Left out: rendering, JSON with comments,
masking of secrets, the transports.

## Runs

Deadlock checking is off where the system rests: requests are used once, and when all have
ended nothing is left to do; a run, a scenario and an invocation end. In `drift` it is on.

| Run | Instance | Shows |
| --- | --- | --- |
| `run_overlap` | 1 run, 3 HTTP requests, 1 CLI, 2 pairs, all faults | `RegistryNamesExecutor`, `OutcomeIsWhole` and `SignalIsHeeded` hold however requests overlap |
| `run_exclusive` | 2 runs, 3 + 1 requests, all faults, `Exclusive` | `ExecutedAtMostOnce`, `OrphanIsStuck`; the component implements `RunWorkflow` |
| `run_liveness` | 1 run, 3 requests, executions may raise | a running run settles; a signal in time ends the run as cancelled, unless it raises or another request claimed the run too |
| `run_twice` | 2 overlapping executes | **violated**: a run is executed twice |
| `trust_overlap` | 5 requests in any interleaving | `TrustNeedsBaseline`, `PinIsRecorded`, `BaselineNeverMovesBack` |
| `trust_exclusive` | 6 requests, one at a time | `RevokedIsUnpinned`, `OneBaseline`, `TrustedIsAsApproved`, `InventoryIsLatest`; the component implements `TrustWorkflow` |
| `trust_two_baselines` | 5 overlapping requests | **violated**: two approved baselines |
| `scenario` | 11 lab fixtures, 4 groups of runs (below) | `SecretsStayIn`, `HostileTextStaysOut`, `CallsAreCounted`, `SideEffectsWereApproved`, `ScoreMissesNothing`, `DecisionsAreFinal`, `StoppedStaysStopped` |
| `benchmark` | 6 plans of up to 2 adapters and 3 cases, every failure, a cancellation | `EveryPairIsAnswered`, `TraceIdsReproduce`, `VerdictsAreSound`, `ScoresFollowTheLedger`, `NotScannedIsNotMissed`, `EvidenceIsKept`; the component implements `BenchmarkPlan`; every run ends, unless a user's adapter hangs |
| `drift` | some forty versions of one server, 5 of which may be approved first | `DriftIsExact`, `DangerIsHigh`, `ChangesAreNamed`, `SplittingDoesNotHide` |
| `inspect` | 2 invocations, 2 servers, 1 change, 1 kill | `CleanExitMeansChecked`, `AcceptedIsComplete`, `NoSilentRepin`; the component implements `PinBook`; every listing ends |
| `response_cut` | limits 256, 257 and 4096, texts just and far over them | **violated**: a text of which nothing is shown |

Some properties are conjunctions of two that answer one question:

- `CallsAreCounted` is `WithinCallLimit` (no more calls run in a trace than the policy
  allows) and `CountersAgree` (attempted, executed and blocked calls, denials and approval
  requests add up).
- `StoppedStaysStopped` is `QuarantineCannotBeLifted` (a tool flagged in every listing is
  not shown and never runs) and `DriftSeenIsDriftStopped` (a tool seen to drift does not
  run again, and stays on record as drifted).
- `EveryPairIsAnswered` is `OneResultPerPair` (in order, under the pair's name unless a user's
  adapter wrote it; the trace is under the pair's name whoever wrote it) and
  `FailureIsExplained` (a pair without a verdict has one error in its trace, a pair with one
  has none).
- `VerdictsAreSound` is `PreventionIsVerified` (an attack is prevented only if the runner
  saw nothing unsafe) and `VerdictIsOwn` (denials and evidence are those of the pair).
- `DangerIsHigh` is `PoisonIsHigh` (hostile text that a change brings), `WideningIsHigh` (what a
  tool that was there gains) and `NewPowerIsHigh` (what a new tool can do at once).

The violated runs are findings: each quotes the sentence of the code, the docs or the
tests that the run refutes.

Why the bounds are enough to be interesting.

*Run and trust.* Every race of the run component is
between two requests; three and a CLI invocation in another process let a third observe or
undo the outcome, and two pairs let a signal arrive before the first boundary, between the
two and after the last. For a server, a baseline needs a scan and an approval; five
requests allow two scans of different observations and two approvals in any order with one
more request between, six in sequence allow a drift, a lab reset and a return to the
baseline. The fixture has two tools: one changes at phase 1 and the other vanishes. Every
action of each component is taken in its passing runs. Requests (and runs) are
interchangeable, and symmetry is used in safety runs only.

*Scenarios.* `FlowRuns` has six steps, enough to list, read a secret, send it in each form,
have requests resolved in between and go over the limit, which the policies of
`MCScenarioRun` lower to 2 or 3 calls (the shipped one is `default_policy.yaml`);
`DriftRuns` has six for list and pin, call, ask for approval, advance, relist with or
without a pin, call again; `ToolRuns` has three steps on the poisoned fixtures and on the
one with every capability, whose scripts branch most, under the most permissive policy the
loader accepts and one that lets unlisted tools be approved; `AlertingRuns` has four on
seven fixtures. `MAX_SCENARIO_STEPS` is 20 in the code: no property counts steps, and what
a longer scenario could add (more calls above the limit, more relistings of two listings)
repeats states these reach. Arguments are the fitting ones, ones that lack or add a field,
a secret written out, and the token for the last result, to each of two destinations.

*Benchmark.* What one pair leaves to the next is the recorder, the counter of ids, the
cancel flag and the scanner's cache; a third case shows all of them twice. The plans bring
together the adapter that enforces and one that claims what it likes; the scanner, on a
case with two listings and a cache of one, with an adapter that does not exist; an adapter
named twice; a disabled case; a selection in another order; a case that does not exist;
an empty corpus. `Plays` has, for the guards, an attack that was stopped, one blocked too
late and one missed; the user's adapter answers for itself, under the runtime guard's name,
for the other case, and for a case that is not in the plan.

*Drift.* The versions differ from a plain one in each thing a fingerprint or a rule looks
at, one at a time and in the combinations that could mask each other (poison next to a
capability, three strong rules at once or three of one kind after three of another, a field
required twice, a hint withdrawn, a tool renamed, reordered or re-laid out, a name that a
pattern rule matches, a capability that is no word, new tools that declare, take or only
suggest a dangerous capability). Every version follows every other, from five first
baselines. `CompareSnapshots` is
evaluated once for each pair: the ASSUMEs of `MCDriftReview` make TLC compute the table
before the search.

*Inspection.* Lost updates and half-written files need two invocations; one of them has
seven plans (a team's file, discovered files that name a server twice, a broken entry next
to an offline file, four refusals), the other updates one label. Two pages, two tools and
one place make every limit of the client bind. The servers' offers include one that pages
for ever, one that repeats a name, one with too many tools, one that is down, and a
lookalike of the other's tool. The pin file is absent, damaged or holds an old pin.

*Response.* The three limits are the least one the loader accepts, the next, and the default;
the texts lie around them, in characters of 1 to 4 bytes.

Fairness.

- `FairSpec` of `RunLifecycle` gives each request weak fairness over the steps of its own
  thread (`Execute`, `Cancel`): a thread of the pool is scheduled as long as its process
  lives, and no step waits for another request (the lock of `RunRegistry` is never held
  across one). A turn of the orchestrator ends: that is so of the adapters that come with
  the program, and is assumed here of any other. Nothing makes clients call, faults happen,
  or processes die.
- `Benchmark` has weak fairness over the orchestrator's `Work`, but for what it awaits of a
  user's adapter (`Awaiting`): it is one coroutine, and what it awaits of the program's own
  adapters is bounded (the scanner by its time-out, a scenario by its steps). The
  `prepare`, `execute` and `cleanup` of a user's adapter are awaited without a time-out
  (`orchestrator.py:230-231`, `259`), and `RunEnds` says that this is the only way for a run
  not to end. Nobody need cancel, and the scanner need not be installed or removed.
- `Inspection` has weak fairness, per invocation, over connecting and timing out:
  `anyio.fail_after` ends every exchange, and its place goes to a server that waits.
  Nothing makes a server answer. Reporting and saving need no fairness: no property
  promises them.
- `ServerTrust`, `ScenarioRun`, `DriftReview` and `ResponseBound` state no liveness: a few
  statements without a wait, or a bounded loop.

## Proofs

For every value of the constants that satisfies the modules' assumptions: any sets of runs,
requests, processes, tools, observations, plans, plays, listings, versions, servers, any
limits, any number of pairs and length of scenario.

| Theorem | Property | Assumes |
| --- | --- | --- |
| `RunLifecycleProofs!TypeCorrect` | `TypeOK` | |
| `RunLifecycleProofs!SignalHeeded` | `SignalIsHeeded` | |
| `RunLifecycleProofs!OutcomeWhole` | `OutcomeIsWhole` | |
| `RunLifecycleProofs!RegistrySound` | `RegistryNamesExecutor` | |
| `RunLifecycleProofs!OrphansStay` | `OrphanIsStuck` | |
| `RunLifecycleProofs!OnceOnly` | `ExecutedAtMostOnce` | `Exclusive` |
| `RunLifecycleProofs!OneClaimant` | a running run has one executor | `Exclusive` |
| `RunLifecycleProofs!ClosedExactly` | `completed_at` is set exactly when the run is terminal | `Exclusive` |
| `RunLifecycleProofs!LifecycleImplementsWorkflow` | `ImplementsWorkflow` | `Exclusive` |
| `ServerTrustProofs!TypeCorrect` | `TypeOK` | |
| `ServerTrustProofs!TrustIsGrounded` | `TrustNeedsBaseline` | |
| `ServerTrustProofs!BaselineStays` | `BaselineNeverMovesBack` | |
| `ServerTrustProofs!PinsAreRecorded` | `PinIsRecorded` | |
| `ServerTrustProofs!OneBaselineAlone` | `OneBaseline` | `Exclusive` |
| `ServerTrustProofs!TrustedAsApproved` | `TrustedIsAsApproved` | `Exclusive` |
| `ServerTrustProofs!RevokedIsForgotten` | `RevokedIsUnpinned` | `Exclusive`, `ToolAssumption` |
| `ServerTrustProofs!InventoryFollows` | `InventoryIsLatest` | `Exclusive`, `ToolAssumption` |
| `ServerTrustProofs!TrustImplementsWorkflow` | `ImplementsTrust` | `Exclusive` |
| `ScenarioRunProofs!TypeCorrect` | `TypeOK` | all of `ScenarioRun` |
| `ScenarioRunProofs!SecretsNeverLeave` | `SecretsStayIn` | `LabAssumption` |
| `ScenarioRunProofs!SideEffectsAreApproved` | `SideEffectsWereApproved` | `LabAssumption` |
| `ScenarioRunProofs!CallsAreLimited` | `WithinCallLimit` | |
| `ScenarioRunProofs!ApprovalsAreFinal` | `DecisionsAreFinal` | |
| `ScenarioRunProofs!DestructionIsAskedFor` | an accepted policy never permits, unasked, a call of a tool that deletes or executes | |
| `ScenarioRunProofs!CountsAreRight` | `CallsAreCounted` | |
| `ScenarioRunProofs!NothingGoesUnscored` | `ScoreMissesNothing` | `DriftAssumption` |
| `ScenarioRunProofs!HostileTextIsKeptOut` | `HostileTextStaysOut` | |
| `ScenarioRunProofs!StoppedForGood` | `StoppedStaysStopped` | `LabAssumption` |
| `ResponseBoundProofs!ResponseIsBounded` | what is returned is at most the limit | texts are over the limit |
| `ResponseBoundProofs!NoticeIsAccurate` | where the loop converges, what is shown and what is reported withheld add up | |
| `ResponseBoundProofs!PlainTextIsShown` | a text of one-byte characters converges | the notice grows slowly (`NoticeGrowsSlowly`) |
| `DriftProofs!TypeCorrect` | `TypeOK` | |
| `DriftProofs!DangerIsAlwaysHigh` | `DangerIsHigh` | `ListingAssumption` |
| `DriftProofs!EveryChangeIsNamed` | `ChangesAreNamed` | `ListingAssumption` |
| `DriftProofs!DriftIsAlwaysExact` | `DriftIsExact` | `ListingAssumption`, `IdentityAssumption` |
| `DriftProofs!SplittingNeverHides` | `SplittingDoesNotHide` | `ListingAssumption` |
| `InspectionProofs!TypeCorrect` | `TypeOK` | |
| `InspectionProofs!RepinsAreTold` | `NoSilentRepin` | |
| `InspectionProofs!InspectionImplementsPinBook` | `ImplementsPinBook` | |
| `InspectionProofs!ListingsAreComplete` | `AcceptedIsComplete` | `OfferAssumption` |
| `InspectionProofs!CleanExitsAreChecked` | `CleanExitMeansChecked` | `OfferAssumption`, `PlanAssumption` |
| `BenchmarkProofs!TypeCorrect` | `TypeOK` | `PlaysAssumption` |
| `BenchmarkProofs!EveryPairHasItsAnswer` | `EveryPairIsAnswered` | `PlaysAssumption` |
| `BenchmarkProofs!TraceIdsDependOnThePlan` | `TraceIdsReproduce` | `PlaysAssumption` |
| `BenchmarkProofs!ScoredMeansScanned` | `NotScannedIsNotMissed` | `PlaysAssumption` |
| `BenchmarkProofs!BenchmarkImplementsPlan` | `ImplementsPlan` | `PlaysAssumption` |
| `BenchmarkProofs!EvidenceSurvives` | `EvidenceIsKept` | `PlaysAssumption`, `SubscriberAssumption` |
| `BenchmarkProofs!VerdictsAreSupported` | `VerdictsAreSound` | `PlaysAssumption`, `SubscriberAssumption` |
| `BenchmarkProofs!PublishedFollowsTheLedger` | `ScoresFollowTheLedger` | `PlaysAssumption`, `SubscriberAssumption`, the plan's `PlanAssumption` |

The constants have assumptions that TLC evaluates on every instance. Most give types. The
ones with content:

- `LabAssumption`: a tool that has a side effect declares, or is inferred to have, the
  capability that the effect takes, also in the listing before a phase change, unless it
  is a tool that drifts, and a tool that drifts does not send. All lab servers satisfy it;
  against a tool that lies about what it does the policy engine promises nothing.
- `DriftAssumption`: a tool that drifts does no harm before it has, and a drift has a
  grade. It is what makes "the drifted tool was seen to act" the same as "it was called
  after it drifted".
- `ToolAssumption`: the row of a tool is not the value that stands for no row.
- `ListingAssumption`: tools are well formed (names and places are what the parser gives).
  `IdentityAssumption`: an identity is its name, version and protocol, the fields compared.
- `OfferAssumption`, and the `PlanAssumption` of `Inspection`: the same of the tools that
  servers and offline files offer; pages and configurations are lists, a server that returns
  a cursor for ever has a page to return, and an entry that is switched on names a server.
- `PlaysAssumption`: what each adapter's code fixes about what a scenario leaves behind.
  That no guard records an error is what `FailureIsExplained` needs; that only a third-party
  adapter says by itself what it detected and blocked, and has no ground truth, is what
  `VerdictsAreSound` and `ScoresFollowTheLedger` need.
- The `PlanAssumption` of `Benchmark`: case ids are unique (the loader refuses others), and
  cases consistent. `SubscriberAssumption`: there are finitely many subscribers.

The arguments.

- *Signals.* `SignalIsHeeded` is not inductive alone: a signalled executor must still find
  the event set at its next boundary, hence `HeedInv` adds `owed \subseteq isset`.
- *Execution once.* `ExclusiveInv` says that claimants of a run are unique, and ties each
  position of a claimant to the row it may find: a run with a claimant in the window is
  still pending, one with an executor is running and has no outcome yet, and one that
  never ran has none. `OnceOnly`, `OneClaimant`, `ClosedExactly` and the refinement are
  read off it.
- *Orphans.* Only a request that has claimed a run, or is about to, writes the row of a
  running one (`ClaimantsWrite`); once nobody has, every step leaves the row as it is.
- *Trust under overlap.* `IInv` (types; stored snapshots belong to ended scans; distinct
  observation times no later than the clock; a non-empty store has a latest row) makes
  `LatestOf` mean something without induction over finite sets: a scan's snapshot is the
  only row that its step adds. `BaseInv` adds that a non-empty set of baselines has a newest one, and
  that an approval has chosen a snapshot no older than any baseline it listed. An
  approval that commits late may leave several flags, but never none, and never only
  older ones.
- *Recorded definitions.* Whatever a session has read, and whatever a row holds as its
  definition or its pin, some stored snapshot lists (`RecInv`). Snapshots are neither
  rewritten nor removed (`SnapshotsStay`), so what was recorded stays so; a scan stores
  its snapshot in the commit that writes the rows.
- *Trust, one request at a time.* `AloneInv` says that the active request's identity map
  equals the database, which makes `Put` an assignment; the refinement maps `latest` and
  `baseline` to the observations of the latest row and of the baseline. `RowsCurrent` says
  the same of the tools' rows: a session about to write has read them as they are, so
  that a pin and an approval are written together, and a scan leaves what it listed.
- *What the policy lets through.* `StrictestIsMaximal` and `OneObjectionSuffices` say that
  a single rule that objects decides; they hold because `Strictness` is one-to-one on five
  decisions. `LedgerGrows` says that under the guard an entry is written only by a call
  that `Decide` permits or that an approved request covers. `Sound` (the trust store holds
  what a listing declared; a resolved request names somebody) ties the record a call is
  judged by to the tool that runs. A secret that is sent meets the POL-007 rule, which
  denies, and no approval lifts a denial; a side effect the policy asks about was not
  permitted, so a request covers it, and requests stay as they were resolved
  (`ApprovalStep`). `CallsCounted` strengthens the limit: no more calls
  have run than the engine has counted, so one that runs within the limit keeps to it.
- *What stays stopped.* `Remembered` says that a record of the trust store is of a tool that
  was listed, that the baseline is a listing, and that drift was recorded in phase 1 from
  a baseline of phase 0, so that every later listing shows it again. `RefusedIsNotCleared`
  says that a candidate that quarantines or denies suffices and no approval lifts it.
  `Agreed` adds to `CountersAgree` the finiteness of the requests and the count of calls;
  each kind of step then moves both sides of each equation by the same amount.
- *Drift.* Every finding has an origin: a rule and the place of the text or parameter that
  made it. Hence poison is found where it is and nowhere else, a change that brings some
  has a finding that was not there before and is HIGH at least, and the report has the
  highest grade of its changes whatever the others are. For `EveryChangeIsNamed` the
  difference of two tools is split by field; the exceptions in `OnlyUncounted` and
  `OnlyUnlisted` are the fields the report, and the finding, do not name.
- *Pins.* Whoever is past `Start` has read a version of the book, and the file has not
  been damaged since (nothing damages it); every snapshot of a report was shown, and its
  label is called drifted or not pinned, or the snapshot equals the pin that was read.
  `Replace` is then `PinBook`'s `Save` from that version, with the snapshots as entries.
- *Benchmark.* The inductive invariant has seven parts: types; the shapes of results and
  traces; which stage has which work in flight (`Flow`); results are those of the pairs up
  to here, under their names unless a user's adapter wrote them (`Answers`); the k-th trace has id 2k + 1, and an enabled pair has no trace only
  if the cancellation was seen before it (`Tracing`); the events of a finished trace hold
  one error or none as its status says (`Explained`); what the scanner found is what is in
  the listings it scanned, and cached rows are rows it printed (`Scans`). A trace's id
  follows from the plan since each traced pair takes two ids whatever happens to it.
- *Evidence.* `Heard` says that what each subscriber received is in order and among the stored
  events, and that the deliveries made and those counted as failed add up to one per subscriber
  and event. Of a batch of events a subscriber hears the new numbers in order without the
  failed ones (`DeliveredInOrder`, by induction on the length of the batch).
- *Verdicts.* `Verdicts` ties each result to the play it was made from: the events of a trace
  are those the play left (later events go to other traces), hence the policy counts and the
  kinds of evidence are the play's own, and what is called prevented is what the ground
  truth of that play shows did not happen.
- *Rates.* `Published` says that once the run is finished the metrics are those of the
  results. That the counts in them add up is arithmetic over sums (`SumOfClasses`,
  `SumMonotone`): each result is of one category, one status, and one cell of the confusion
  table. What a name is said to have prevented are its own pairs whoever uses the name: a
  user's adapter has no ground truth (`Unseen`), so no result that it wrote is prevented, and
  every other result bears the name and the case of its pair (an id names one case).
- *Induction.* The library's induction theorems take an operator, which no installed prover
  can instantiate. `InductionFacts` states induction over numbers and over finite sets for a
  *set* `P` of those that have the property, and derives both from the least-number
  principle. Recursive functions and `MapThenFoldSet` are chosen, with `CHOOSE`, by their
  equations; that one exists is proved from approximations to it on initial segments, and
  that it is unique by induction. From there: a sum is what is left when any member is taken out, and the
  concatenation of a list of pages is the list of the pages one after the other.
- *Listings.* `Gathering` says that as long as a server has not changed since it was
  connected, what has been listed of it is the first pages of what it offers, in order and
  within the limits; a listing is accepted when no cursor is left, hence when it has them all.
- *Exit status.* `LabelsStandForServers`, by induction over the entries as they are loaded:
  every entry has a label and every label stands for the server of an entry, whatever
  names are taken. `CleanIsChecked`: once the report is made with status 0, nothing fetched is open,
  so a server that changes later touches nothing that was judged. The report judged the tools
  as listed, the property speaks of them as they are stored: normalising a tool adds no
  finding (`StoredShowsNoMore`: every text of the normal form is one of the listed tool, with
  less layout). All findings are graded, so that `highest` bounds each of them.
- *What is drift.* `NormalForm` writes a normalised tool as a record; a sorted list is
  the same for two lists exactly when one is a reordering of the other (`SortedAlike`), so
  that two tools have one normal form exactly when they read alike (`ReadsAlike`).
- *Splitting.* For two snapshots, a *key* is a rule and a place where a tool has a finding,
  and a field is what else the report names. `Covers` says that a grade is at least that of
  each key and field in which the two differ. A report covers its own change, a change in
  two steps is covered by the higher of their grades (`CoversJoin`: a key that is new at the
  end was new in one of the steps), and a covered change is graded no higher than its cover,
  but for the exceptions. `SInv` carries it along the approvals.
- *Bounding.* The arithmetic of the rounds: `keep` only falls, a round that fits returns no
  more than the limit, and with one-byte characters the third round fits at the latest: the
  notice of the second is at most one byte longer.

Three properties were wrong as first stated, and the attempt to prove them showed it before
any run did. `SplittingDoesNotHide` lacked the second and the last of its exceptions; the
versions that show it (`notes_claim`, `with_silent`, `others` and their neighbours) are now
in the instance. `DriftIsExact` took the required fields as a set, and a field listed twice
makes another hash. `ScoresFollowTheLedger` asked for a count of cases of an adapter that
had none.

Left to TLC: liveness under fairness (`RunningSettles`, `SignalCancels`, `RunEnds`,
`ListingsEnd`), which is out of the prover's reach. Every invariant, action property and
refinement of the passing runs is also a theorem. Pure operators are proved about where a
property needs them: that the rules of `Analysis` fire where they should is proved of those
that `DangerIsHigh` and `CleanExitMeansChecked` speak of. No module declares a RECURSIVE operator.

## Where the code and its documentation part ways

Three disagreements are violated runs (above, and "findings" in `PROJECT.json`). The others
that came up while modelling are not run:

- A run that was cancelled while pending runs all the same when an execute request read it
  before (`services/runs.py:216`): `RunWorkflow` is implemented under `Exclusive` only.
- A cancel between the commit of `running` and `register` is refused as "not executing in
  this process" although it is about to.
- A revocation that overlaps an approval leaves the tool with a pin; an approval that
  commits after a scan of a changed server leaves it trusted with another listing.
- `RunRegistry` is documented as holding "Cancellation events for runs currently executing in
  this process" (`services/runs.py:36`), and `release` as "Forget a finished run" (line 59):
  when the failure handler fails and so does the read of `run.id` in the `finally` clause
  (line 145), the event of a run that no longer executes stays, and a cancel of that run is
  accepted although nobody polls it.
- An adapter's result is verified against ground truth and evidence, but the name and the case
  it claims are kept as they are (`result_normalizer.py:161-178`, `orchestrator.py:231-240`):
  it is counted under that name in the rates (`metrics.py:293`), and a result for a case that
  was not selected is in no rate. If that result failed its expectation the report cannot be
  built (`report.py:216`): a run of the service then ends as failed (`services/runs.py:201`).
- `drift_detector.py:11` says "A new tool is MEDIUM (HIGH if it is high-risk or suspicious)",
  and the comment at line 38 takes execute, delete and send for the real damage that is meant.
  A new tool that *declares* delete or send has MA-022, a MEDIUM finding, and a new tool's
  capabilities are looked at only when it has no finding of MEDIUM or more (lines 170-174): it
  is graded MEDIUM, with the action "review". `NewPowerIsHigh` says what does hold.
- A listing that asks to be pinned after a drift shows the model the drifted tool, which
  the guard withholds from any other listing.
- Under an alert-only guard a call that the fixture rejects is scored as a sensitive tool
  executed.
- `README.md:178` says that status 0 means every server was inspected: entries that do not
  parse are left out with a problem noted, and an offline file goes over a server of its
  label. `CleanExitMeansChecked` says what does hold.
- `README.md:135` says status 1 if any tool changed: a MEDIUM drift ends with 0 under the
  default `--fail-on high`.
- The scanner's rows are cached before a tool in them that could not be scanned is noticed,
  so a passing failure lasts as long as the cache. No verdict is wrong
  (`NotScannedIsNotMissed`); cases are lost.
- A change of the order of declared capabilities, or of what stands under their key and is
  none (`drift_detector.py:84-86` drops it, `285-286` leave out the key), is drift that no
  change names (`OnlyUncounted`); a change of the output schema is named in the report, and
  not in the finding (`OnlyUnlisted`).
- A reference to another tool is judged when the text that holds it changes, not when the
  tool it names does; a capability that a new parameter implies is MEDIUM; a
  `readOnlyHint` that goes from true to absent is LOW. `SplittingDoesNotHide` and
  `DangerIsHigh` are stated with these limits.

## Not modelled, and why

- *HTTP API, dashboard, other commands of the CLI*: they read rows, map them to JSON or
  text, or call one service. The sessions they give the services are modelled there. Pages
  fetched by offset from a collection that changes promise nothing that could be stated.
- *Database*: the ORM, the schema and the migrations appear as the isolation they give.
- *Configuration, logging, paths*: values and text.

Modelled in part: the scenario runner (events, findings, marker flows and the lab client's
pagination are left out), the metrics and the report (latencies, layout), runtime evidence
(marker flows and redaction are pattern matching on text), the metadata analysis (the texts
named above), the lab servers (their data
stores and the stdio runner), the demo, test-case and trace services (which cases a run
selects and what a consistent case is; the rest is loading and calling). `PROJECT.json`
"components" lists each part with its status.

## Plan

Done: run lifecycle, orchestrator with normaliser, metrics, evidence and scanner, scenarios
with policy and approvals, response bounding, server trust, analysis and drift,
inspection and pins. What would come next, in the order of what matters most:

1. A reference monitor as the abstract specification of `ScenarioRun` (a call takes effect
   only with leave, leave is given once), and the refinement.
2. `ScenarioRun` as the source of `Benchmark`'s plays: `PlaysAssumption` as a theorem about
   it instead of an assumption, for the part that `ScenarioRun` models.
