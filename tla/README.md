# Esure: formal models

TLA+ models of the Esure backend (`src/esure-backend`) and of the page of its web dashboard
(`src/esure-frontend`), model-checked with TLC, with theorems checked by TLAPS. Everything
here is read from the source at one commit; the docs are quoted only where they say
something else than the code.

At that commit some files do not compile as they stand: `app.ts` declares `clock` twice
(lines 91 and 130), `stellar-gateway.ts:195` calls `evaluateAssertion` with six of its
seven arguments, `cli.ts` does not parse and uses `runWithSignalsAndTimeout` and
`suiteJunitRuns` without defining them, and `dashboard.tsx` repeats imports, state and a
component and ends a tag too often. The models follow what the backend does when it is run
anyway (`tsx` strips types without checking them); a repeated declaration, in the backend or
in the dashboard, is read as one. The CLI has no behaviour to follow.

## 1. The system

Esure runs scenarios against the Stellar test network. A client POSTs a run; the backend
answers 202 with a report in status `requested`, executes the scenario in the background,
and the client polls the report until it is `passed` or `failed`. Scenarios are bundled with
a release and published in a versioned catalogue when the release is deployed.

| Component | State | Operations | What is hard | What makes it correct |
|---|---|---|---|---|
| Run service (`run-service.ts`), shutdown (`server.ts`, `closeAfterDrain`) | `#activeRuns`, `#activePromises`, `#draining`, counters, phase | `start`, `execute`, `drain`, `metrics`, signal, deadline | starts suspended in `store.create` when a shutdown begins; failure paths that must give capacity back; the deadline against the last run's end | capacity and counters exact, drain misses nobody, orderly unless the deadline fired |
| Execution of one run (`execute`) over the PostgreSQL store (`run-store.ts`, `database.ts`) | the report's row, `#versions`, the chain `progressUpdates`, the run timeout | status updates, one link per callback, final update, catch, finally; `get`, `update` | links, final update, catch block, late callbacks and polls interleave at every `await`; optimistic versions in a cache all callers share; lost answers | no evidence lost, writes replace what they read, `execute` ends |
| Ledger gateway (`stellar-gateway.ts`) | the local variables of `execute()` and its operations | plan item by item, assertions | step timeouts that do not stop an operation; retried submissions; a run signal | report agrees with ledger, order of steps |
| Funding pool (`fundAll`) | shared queue, `firstError`, controller | workers, retries, cancel | cancellation against retries, late answers and the end of the step | success means funded; first cause reported; settles |
| Error interpreter (`stellar-error-interpreter.ts`) | none | codes to advice | many codes of one transaction | a retry is ruled out only on a verdict; no verdict, no ruling |
| Idempotency store (`idempotency-store.ts`) | `#entries` | `insert` | second request while the first create is pending; requests that overtake one another in the lookup before it; expiry; full store | one start per key and window |
| Rate limiter (`rate-limiter.ts`) | buckets per key | `consume` | lazy expiry, bucket eviction at `maxKeys` | quota per window, honest Retry-After |
| In-memory run store (`run-store.ts`) | `#runs` in insertion order | `create`, `get`, `update`, `removeExpired` | eviction against running executions; lazy expiry | active runs kept, bound kept |
| Pruning (`pruneExpired`) | the run table, its audit | one transaction per batch | concurrent operators, row locks, failing statements | deletions audited and counted once |
| Migrations, persistence coordinator (`database.ts`, `persistence.ts`) | `schema_migrations`, advisory lock, state | `runMigrations`, `assertMigrationsCurrent`, `check` | releases that deploy at once with different files; failures half-way | what was confirmed stays applied |
| Published catalogue (`published-scenarios.ts`) | `scenarios`, `scenario_versions` | `reconcile`, `dryRunReconcile`, reads | concurrent deployments, partial failure | history append-only, no repeated version, preview right |
| Scenario schema and registry (`scenario-schema.ts`) | none | `validateReferences` | references between parts of a scenario | what validates can be executed |
| Dashboard, run pane (`dashboard.tsx`, the proxy `route.ts`) | React state, the link, timers | launch, restore, poll, hide, reconnect, resume | effects with copies of what they read; answers out of order | keeps reading the run it shows, never shows it going back |
| Dashboard, catalogue and comparison (`dashboard.tsx`, `api.ts`) | React state, the address | choose, search, sort, go back, preview, compare | two effects that write each other's dependency; answers out of order | address, choice, selection and preview agree |
| HTTP endpoints, OpenAPI, configuration, logging | none | stateless | - | - |
| CLI (`esure-cli`) | poll loop, suite | `run`, `suite` | signals, timeouts, concurrency limit | exit code follows the reports |

How they interact: a POST passes the rate limiter, then looks its scenario up in the
catalogue, then comes to the idempotency store, whose producer calls `RunService.start`; that
calls `store.create` and arms `execute`, which drives the ledger gateway with
`onStep`/`onAssertion` callbacks, each of which appends a
read-modify-write of the report to `progressUpdates`. The gateway's first step runs the
funding pool. GETs read the same store, and with it the same version cache; most of them are
the polls of a dashboard. A signal reaches `drain()` and, through `#draining`, the runs not
yet launched. A release migrates the database, reconciles its scenarios with the catalogue
and starts a backend that asserts both.

## 2. Modules

Each component has a module; `MC<module>.tla` gives it model values and the `.cfg` of the
same name its run. Operators that begin with the comment "Mutant" are not part of a specification:
each is a definition of the module with one plausible mistake in it, and the property that
catches it is named in `PROJECT.json`.

| Composition | Parts | How |
|---|---|---|
| `RunAdmission` | implements `BoundedGate` | refinement mapping |
| `GatewayRun` | `FundingPool` (extended), `LedgerExecution` (instance), `ErrorInterpreter` | the item "fund" of the plan is the pool; one signal, one timer |
| `GatewayRun` | implements `LedgerPromise` | refinement mapping (`KeepsPromise`) |
| `RunApi` | `IdempotentCreation` (extended), `RateLimiter` (instance) | the hook in front of the handlers, one clock |
| `Deployment` | `Catalogue` (extended), which uses `ScenarioValidation` | migrate, preview, reconcile and serve, release by release |
| `BrowsePane` | `ReportComparison` | two views of one page |

### RunAdmission, BoundedGate, RunAdmissionProofs
`RunService.start`, the fields `execute` touches in its first and finally block, `drain`,
`closeAfterDrain` and the signal handler. `pc[r]` is where request `r` is in
`start`/`execute`; the other variables carry the names of the fields. One action is one
turn of the event loop: `StartAdmitted` is everything in `start` before `await
store.create`, `CreateSucceeds`/`CreateFails` what follows it, `ExecuteFinally` the finally
block, `ExecutionResolves` the reaction that removes the promise. The body of `execute`
is an arbitrary outcome. `verdict` is the only history variable: what the caller or the
log was told, which `CountersExact` compares the counters with. `BoundedGate` is the
promise in the abstract: let in once, at most `Limit` inside, refuse only when full or
closed, nobody after the close; `RunAdmission` implements it under
`inside <- InFlight, past <- Released, refused <- Refused, closed <- draining`.

### RunExecution, RunExecutionProofs
One `execute()` over `PostgresRunStore`, query by query. Each client of the store (the
main flow `"main"`, the chain of links `"link"`, each poller) has at most one call under
way, `op[c]`: its SELECT is sent, executed, delivered; then its UPDATE. That separates the
moment a query reads the row from the moment its answer writes `#versions`, which is where
the interleavings bite. `row` is the table's row cut down to status, pass flags, summary
and version; `cache` is `#versions.get(id)`; `emitted`, `applied`, `brokenAt` are the
promise chain; `pc` and `awaiting` say at which `await` `execute` is. Two facts of Node are
modelled: a promise that nobody awaits when it rejects ends the process (`up`), and
`Promise.race` is decided by who settles first. `lastWriter` is a history variable.

### GatewayRun: LedgerExecution, LedgerPromise, FundingPool, ErrorInterpreter, GatewayProofs
`LedgerExecution` is `StellarTestnetGateway.execute` with its plan, `executeBounded`,
`withTimeout`, `withHorizonRetry`, `executeOperation` and `evaluateAssertion`. An operation
that loses its race against the step timeout stays in `op` and goes on. Horizon is external:
it answers, fails or stays silent; the ledger gives each transaction one verdict, a pair of a
transaction code and operation codes. Balances and amounts are not modelled, since at this
commit no assertion that reads the ledger gets as far as comparing them. `LedgerPromise` is
what `RunService.execute` relies on (steps before assertions, nothing after a failed step,
resolve at most once and never after a failed step). `ErrorInterpreter` holds the codes of
both tables with their retryable column and the function that combines them. `Retryable` is
what the error of a failed run says of it: the advice of its codes, and `retryable: true`
when there are none (`stellar-gateway.ts:555-565`, `647`; `errors.ts:22-53`). `Refused` is
Friendbot's own refusal, which is not retryable (`stellar-gateway.ts:447-458`).

`FundingPool` is `fundAll`/`fundAccount`: the queue, one record per worker, the pool's
controller, the signal of the step. Lengths of delays are left out; that a delay may end at
any moment or be interrupted covers them all. Friendbot is external.

`GatewayRun` puts the pool where `LedgerExecution` has its item "fund": it is started by the
plan, its result ends the step unless the step's race is lost, and the signal it listens to
is aborted by the run's signal or by the step's timer. A pool whose step has timed out goes
on in the background while the run is already rejected.
`ScenariosAssumption` says of the scenarios what `validateReferences` ensures: the steps have
distinct names, none that of an item of the plan, and an assertion about a step names one.
`RejectionsAssumption` is Horizon's: codes of operations come with `tx_failed` only.

### RunApi: IdempotentCreation, RateLimiter, RunApiProofs
`IdempotentCreation` is the POST handler, `IdempotencyStore.insert` with lazy expiry and its
bound, and the part of `start` that decides whether a request gets a run. Keys, bodies (the
canonical fingerprint tells two apart) and time are small sets. A request that has arrived
waits, `Unread`, for its body and for the lookup of its scenario (`app.ts:231-260`), where
others may overtake it; then it either leaves with 404, 409 or 503 without having come to its
key (`TurnAway`), or goes on (`Post`). What the lookup answers is left open: the catalogue may
change or fail between two requests. Requests are numbered in the order their handlers get
their turn. `RateLimiter` is `FixedWindowRateLimiter.consume` over a bounded number of
buckets: a function by key, each with its place in the insertion order of the `Map`. In
`RunApi` several clients send both kinds of request through the `onRequest` hook, which
counts a request when it arrives, with one clock for limiter and store; `log`, a history
variable, is what the limiter answered.

### RunRetention, PruneRuns, RunStoreProofs
`RunRetention` is `InMemoryRunStore` under the service: `removeExpired` on every call,
eviction on `create`, and GETs, which see what `removeExpired` leaves. A report is its
completion time; `position` is the insertion order of the `Map`.

`PruneRuns` is `PostgresRunStore.pruneExpired` by several operators: one READ COMMITTED
transaction per batch, SELECT without a lock, DELETE row by row with row locks, the trigger
`guard_run_cleanup`, failing statements, PostgreSQL's deadlock detection. The dry run only
counts and is left out. `removed`, a history variable, is which runs each operator's
transactions removed; `DeletionsAccounted` compares the printed totals with it.

### Deployment: Catalogue, ScenarioValidation, DeploymentProofs
`ScenarioValidation` reduces a scenario to its identifiers: `Validates` is
`validateReferences`, and `Executable` every lookup the gateway makes by name when it
executes the scenario. `Catalogue` is `dryRunReconcile` and `reconcile` of several
deployments: per fixture one transaction of upsert (which locks the scenario row), read of
the latest version, validation and hashing of the candidate under its new number, insert,
commit. A definition stands for what `comparable()` leaves of it. `Deployment` puts
`runMigrations` before it (one transaction under the advisory lock, file by file, with the
checksum comparison, skipping what is applied and ignoring rows of other releases), lets
`assertMigrationsCurrent` and the registry guard preview, reconciliation and
backend, and adds the states of `PersistenceCoordinator`. A migration file is a version and
a content.

### RunPane, RunPaneProofs
The part of `Dashboard` that launches, restores and polls a run, with the proxy in front of
the backend. React is modelled as far as it matters: a handler assigns state (`ui`), a later
`Render` commits it (`seen`) and runs the effects whose dependencies changed, each after the
cleanup of its previous run; timers, answers and browser events come in between. `polled` is
the running poll effect with its closure's run and timer; `requests` are what the page waits
for, those aborted forgotten. `page` is the browser: visibility, connection, link, pending
navigation. The backend is what it stores of each run; it may answer, fail or forget.
Simplifications: `navigator.onLine` flips together with its event (a render between the two,
with an offline and an online event batched, would leave polling off); `validating` behaves
as `requested`; lengths of delays are left out; an import, whose handler is not defined, never
happens.

### BrowsePane, ReportComparison, BrowsePaneProofs
The rest of the page. The category, search and sort are kept in step with the address by two
effects, one that writes it and one that reads it; navigation commits later, the last one
asked for wins, and the user may go back. A link may hold any category, any order and a
query with outer blanks, which the page itself never writes: it trims. Selection, preview
panel and catalogue loading run beside; the effect that keeps the selection among the visible
cards runs when one of its dependencies has changed since the last render (`SelectionDue`).
Two history variables remember races that the code loses (section 5). `crossed`: the user
chose or went back in the instant between a committed address and the render that takes it
over; then address and choice may stay different, or the two effects alternate. `overtaken`: the
restored run selected the scenario last rendered (`dashboard.tsx:237-242`) while the selection
made by the effect (365-373) was still to be rendered, so that the next render finds its
dependencies unchanged and does not run it. `ReportComparison` is
`compareReports` with the keys of steps and assertions; files are read concurrently.

## 3. Runs

All bounds are constants of the modules or sets in the `.cfg` and `MC` files.
`CHECK_DEADLOCK FALSE` everywhere because each of these systems comes to an end: the requests
are used up, the run is over, the deployment has finished. Two runs, `api` and `retention`,
use symmetry; they check no liveness.

| Run | Bounds | What it shows |
|---|---|---|
| `admission` | 4 requests, limit 2 | capacity and counters exact, orderly close, refinement of the gate, every admitted run settles. Two over the limit: refused, freed and refilled capacity all occur |
| `execution` | 2 results, 1 poller with 1 GET, 1 failing query or lost answer | evidence and summary kept, optimistic writes, monotone reports, what may still touch a terminal report; `execute` ends, and a run left alone reaches a terminal report. Two links are the least that can disorder; one more query fails than the code is prepared for |
| `execution_polled`, `execution_late` | 1 result, one disturbance each | the disagreements of section 5 |
| `gateway` | 4 accounts, 3 workers, 2 attempts; 4 scenarios of up to 2 steps with and without funding, 2 verdicts of rejection; 1 retry, 3 failing requests | report against ledger, order of steps, advice to retry, the contract, nothing submitted before funding, nothing left behind. More accounts than workers, so a worker comes back for a second one; three faults exhaust the retries of one request, or hit three |
| `ledger_reads` | one scenario, no fault | section 5 |
| `api` | 2 clients, 2 keys, 2 bodies, 3 creations among 3 limited requests, 1 idempotency entry, quotas of 1, room for 2 of 4 buckets, windows of 2 ticks, clock to 3 | creator, duplicate and rival, each turned away by the lookup or not, in any order; full store; bucket eviction; expiry at the very tick; Retry-After rounded up. That a quota survives the eviction of an older bucket inside its window takes a fourth request: the theorem covers it, the run does not |
| `retention` | 4 runs, store of 2, 3 at once, window 2, clock to 4 | evictions with and without a choice, refusal, expiry at the very tick |
| `prune` | 4 runs, 2 operators, batches of 2, 2 failing statements | full and short batches, a second batch, overlapping selections, deadlock |
| `deployment` | 2 releases, 2 slugs, 1 failing statement; the first release brings one of 5 directories (what is applied, one file more, two more, an edited one, one with a gap) and either of two definitions, or any of some three hundred odd scenarios while the second is stopped by a mismatch; one slug free, bundled or an operator's | all pairs of releases, partial migration and reconciliation, refusal, odd references of every type of step and assertion |
| `runpane` | a linked run, 1 launch, 2 failures that stop polling, the page hidden or disconnected once | restoration against launch, polls against both, resume, reconnect, expiry of the run shown |
| `browse` | 2 scenarios, 3 clicks; 3 report files with repeated steps and interleaved assertion types | every order of three clicks, answers, renders and navigations; every pair of reports on every side |

The counters in the code are unbounded but grow with the number of requests, results or
batches, and those are bounded here; no guard depends on their absolute size.

### Fairness
Only what a program or the database drives on its own is fair.

* `RunAdmission`: promise reactions, the drain deadline and the exit. It assumes that
  `execute` ends (`Progress`), which `RunExecution` shows (`ExecuteEnds`) from the run
  timeout, under the weaker assumption that the process takes some step while it can.
* `GatewayRun`: each worker's own steps, the settling of the pool, and the loop of the plan
  or its timers. Horizon and Friendbot owe nothing: `EverythingSettles` holds although the
  network may stay silent for ever.
* `PruneRuns`, `Deployment`: each operator's and each deployment's commands, whose queries
  carry a `statement_timeout` and a `query_timeout`, and whose lock waits PostgreSQL grants
  or ends. `Deployment` has no action for a backend or an operator that must happen.
* `RunPane`, `BrowsePane`: renders, timers, the continuation of an answer, committed
  navigation (`BrowsePane`), and that a request is answered somehow, since the proxy gives up
  on the backend after its timeout. `RunPane` also assumes that the backend's runs advance,
  which `execution` shows. Clicks, hiding and the network owe nothing.

## 4. Properties worth knowing

* `CountersExact`, `OrderlyClose`: every counter is the number of requests told that outcome;
  unless the deadline fired, the server closes with no run in flight.
* `NoEvidenceLost`, `ReportsOnlyGrow`: the row always holds a prefix of what the ledger
  reported, with the summary of that prefix; a reader never sees evidence disappear or a
  status go back; late links never touch a terminal report. The catch block may, after a
  failed query, and then changes only the status.
* `WritesReplaceWhatTheyRead`: although `update` takes its expected version from a cache
  that any GET may set back, a write that commits replaces exactly the version its own
  SELECT returned. The stale cache costs availability, never data.
* `EndsAndReports`: `execute` ends whatever fails, and a run left alone altogether
  (`Undisturbed`: no poll, no failed query, no late callback) reaches a terminal report. The
  findings show what happens otherwise.
* `LedgerFollowsScenario`, `ReportIsTrue`: retries and lost races never put a second
  transaction of a step on the ledger, nor one of a step whose predecessors were not recorded
  as passed; what the report says of steps and assertions is what the ledger says.
* `RetryAdviceIsHonest`: a failed step is called past retrying only on the ledger's verdict or
  Friendbot's refusal; it is called worth retrying on a verdict that left its operations
  unattempted, or without any verdict known. The last case is why it says no more: section 5.
* `NothingBeforeFunding`, `FundingIsTrue`, `EverythingSettles`: across the boundary of plan
  and pool, with the timer of the step in between.
* `OneStartPerKey`, `SameKeySameAnswer`: across expiry, a full store, a pending create,
  requests that overtake one another and the limiter. A repetition the lookup turns away gets
  another answer (section 5), and nobody else does.
* `QuotaHolds`: a client gets no more than its quota in a window that opens after a window's
  silence, unless `maxKeys` other keys come up after it in that window. Buckets from before,
  however many, make room first and cost it nothing. With that many rivals eviction gives a
  fresh quota by design.
* `RoomIsMadeRightly`: whom the in-memory store gives up, and when it gives up a start
  instead.
* `DeletionsAccounted`: every run that is gone has its audit row, and the totals of two
  operators add up to the runs that are gone.
* `LocksPreventConflicts`: advisory lock and row lock make the primary key of
  `schema_migrations` and the unique constraint on version numbers a second line of defence,
  never the first. The disjuncts of the model for a row or number taken meanwhile translate
  the code; this property says they are never reached.
* `MigratedFilesApplied`: what `db:migrate` or an assertion confirmed stays recorded with
  that content, whoever else migrates; a refused release leaves nothing.
* `PublishedIsExecutable`: every published version passes the integrity check of its reader
  under its number, and no lookup of the gateway fails in it.
* `PreviewExact`: the dry run predicts the outcome for slugs that are free or bundled and
  unchanged since.
* `PollingArmed`, `ReachesTerminal`: a run shown active keeps a timer or a request; if the
  page stays visible and connected from some time on, it comes to show an end, or has visibly
  given up.
* `OneRequestOfAKind`, `ShownNeverGoesBack`: no two polls at a time, and no late answer takes
  the run shown back.
* `AddressAndChoiceAgree`, `SelectionVisible`, `PreviewMatchesChoice`, `ComesToRest`: of the
  page once it is quiet, which it becomes. `AddressAndChoiceAgree` and `ComesToRest` except
  what was `crossed`; address and choice agree when they would be written alike, that is up
  to outer blanks of the query and a category the page does not know. `SelectionVisible`
  holds however updates cross; its one exception is the scenario `overtaken` (section 5).
* `ComparisonAddsUp`: every assertion is accounted for once, and every step when no report
  repeats one.

## 5. Where code and documents disagree

Checked, each by a run that TLC ends with a counterexample:

* `execution_polled`: one GET whose answer is delivered late sets the version cache of the
  running execution back, and its next update is rejected as "modified by another writer"
  with no other writer about. The run ends as `failed`, or stays non-terminal when it is
  the catch block's update that is rejected.
* `execution_late`: a callback that arrives while the catch block writes its report
  appends a link nobody awaits; the two share one version, one is rejected, and if it is
  the link the process ends with an unhandled rejection. The tests promise the opposite
  with the synchronous store, where the window does not exist. A progress query that fails
  while the ledger still executes has the same effect.
* `ledger_reads`: without any fault, an assertion that reads the ledger rejects the run.

Seen while modelling, without a run of their own. In the backend:

* `run-service.ts:206`: when the final UPDATE commits but its answer is lost, the catch block
  writes `failed` over the stored `passed`. `ReportsOnlyGrow` states exactly this exception.
* `stellar-gateway.ts:173`: `executeOperation` ignores its signal, so an operation that
  lost its race may still submit after the run has been reported (`README.md:334-335`
  reads as if the timeout ended it). `LedgerFollowsScenario` bounds the damage.
* `stellar-gateway.ts:647`, `555-565`: a step whose answer was lost or came too late is reported
  `retryable: true`, also when the ledger has rejected its operations for good or has applied
  them; an assertion that throws a `TypeError` is reported as a retryable network failure too.
  `API.md:322` explains the field as "Whether retrying the run is likely to succeed."
* `app.ts:235-260`: the scenario is looked up before the key, so a repetition inside the
  window may be answered 404, 409 or 503, although the run exists. `API.md:85` says "Sending
  the same key and identical request returns the existing run."
* `idempotency-store.ts:76`: a start rejected at capacity stays the answer of its key for
  the whole window, although the error says "Try again later." (`errors.ts:37`).
* `run-store.ts:214`: two operators that select the same run both write an audit row for
  it, where `PERSISTENCE.md:35-36` says one per deleted run. The totals add up all the same.
* `published-scenarios.ts:168`: the dry run predicts `new` for a slug of another origin,
  where reconciling refuses; the comment at 75-81 says the two never diverge.
* `scripts/migrate-status.ts:21-22` says it mirrors `runMigrations`, which throws "in exactly
  these cases"; but `runMigrations` ignores applied migrations that are not in its directory
  (`database.ts:73-83`).
* `database.ts`: `assertMigrationsCurrent` takes no lock, so another release may migrate
  between the assertion and the reconciliation it guards, and a backend that is ready stays
  ready when a later release advances the schema. `MigratedFilesApplied` says what survives.

In the dashboard:

* A restoration that answers between a launch's answer and the next render shows the linked
  run instead of the launched one; `handleRun`'s `setRun(null)` restarts the restoration of
  the old link; `restoringRun` stays set when a poll finds the run gone meanwhile.
* `consecutiveFailures` is not reset by a new run: one launched after polling gave up is not
  polled until Resume.
* The proxy drops the `Idempotency-Key`, and the page's `runIdempotencyKey` is not used, so
  launching again after a lost answer starts a second run.
* A click in the instant in which the page takes over a committed address leaves the address
  and the choice different, or makes the two effects alternate; a launch's navigation to its
  run may be superseded by that of a filter.
* A restored run that selects the scenario last rendered, in the instant before the selection
  made by the filter effect is rendered, leaves a card selected that is not among the visible
  ones, and Run launches it, until a card or another choice is clicked (`dashboard.tsx:237-242`
  with 365-373).
* A file chosen for the comparison may be
  overwritten by one chosen before it and read later.

## 6. Proofs

Eight modules hold theorems, for every value of the constants that satisfies the `ASSUME`s
beside them (TLC evaluates those in the runs). They state every safety property the passing
runs check. The properties alone are seldom inductive; each module has strengthenings, and
TLC agreed with them before they were proved. The type invariants are parts of these
strengthenings.

**`RunAdmissionProofs`**, for every finite `Runs` and every positive `MaxConcurrentRuns`
(`config.ts` enforces it):

* `CapacityCorrect`, `DrainCorrect`, `CloseCorrect` from `AdmissionInv`. That the drain
  snapshot is complete needs `activePromises = Unsettled` (a promise is tracked exactly while
  its run is unsettled) and `draining <=> phase # "serving"` (nobody is admitted behind the
  snapshot). That `#activeRuns` stays natural is not a matter of types either: every
  decrement needs its increment.
* `MetricsCorrect` from `MetricsInv`, relative to `AdmissionInv`: a verdict is given once.
  `CountersCorrect` joins the two into the invariant the run checks.
* `GateImplemented`: initial states map to initial states, and under `AdmissionInv` every
  step maps to a step of the gate or a stutter. The invariant is needed: only with
  `activeRuns = Cardinality(InFlight)` does the code's guard imply the gate's.

**`RunExecutionProofs`**, for any number of pollers, polls, callbacks and failing queries:

* `NoEvidenceLostAlways`, `PassedIsEarnedAlways`, `WritesReplaceWhatTheyReadAlways` and
  `ReportsOnlyGrowAlways` from `ExecutionInv`. Which call a client is in follows from the
  `await` its flow is at (`CallsMatch`). A call that has read the row holds a copy no
  newer than the row, and equal to it if the versions are equal (`VersionsAgree`); this
  makes a write with the right expected version replace what was read, whatever the shared
  cache held meanwhile. A pending patch is the evidence of the row and one result more, or
  its version has passed (`PatchesCurrent`, `EvidenceKept`). `StatusFits` ties the status
  to where `execute` is, `PassedComplete` the stored `passed` to a chain without a break.
* Needed of data: the flags of a kind, picked from the results in their order, are those
  of the prefix and the one appended.

**`GatewayProofs`**, first of the pool, for every list of accounts without repetitions, every
positive concurrency and number of attempts (names are unique by the schema, the numbers
are taken through `Math.max(1, ...)`), then of the plan around it, for every set of scenarios
as validated, every set of rejections and any number of retries and failing requests:

* `SuccessCorrect`, `CauseCorrect` (joined in `FundingCorrect`) and `AccountsKept` from
  `PoolInv`, of the pool's own specification. That success means everybody funded needs that
  a worker leaves a pool nobody has stopped only when the queue is empty, and that an account
  has one holder, or a refusal would drop an account another worker still counts on. That
  the cause is reported needs `cancelled <=> firstError # "none"`: a worker interrupted before
  any error was recorded can only have been interrupted by the signal of the run. That a
  refusal is never reported of a pool that has funded everybody needs that the account of
  the worker that threw is lost for good (`FailureLosesAnAccount`).
* `FundingIsTrueAlways`, `LedgerFollowsScenarioAlways`, `ReportIsTrueAlways`,
  `RetryAdviceIsHonestAlways` and `NothingBeforeFundingAlways`, of the composition, from
  `GatewayInv`: what is left of the plan is a suffix of it, and an operation is untouched
  before its item (`PlanKept`, `OperationsKept`); whatever a lost operation still submits is
  the one transaction of a step that was begun (`TransactionsKept`), with a verdict given
  once (`VerdictsKept`); records and assertions match the ledger (`RecordsKept`,
  `AssertionsKept`). `PoolInv` holds in the composition because each step of it is a step of
  the pool or leaves the pool alone. The two parts meet in `FundingKept` and `FundRecorded`:
  the required step ends as the pool did unless time ran out first, and it is recorded as
  failed for that reason, or because the run was aborted before it began.
* `KeepsPromiseAlways`, the refinement of `LedgerPromise`: initial states map to initial
  states, and under `GatewayInv` every step maps to a step of the promise or a stutter.

**`RunApiProofs`**, for every set of clients, keys and bodies, quotas, windows and bounds:

* `OneStartPerKeyAlways` and `SameKeySameAnswerAlways` from `CreationInv`: an entry is the
  request that started its run (`EntriesOwned`), and a start is remembered for the whole
  retention period (`StartersRemembered`), which a full store does not break: it refuses
  instead of evicting. Who is turned away has not come to the key and never will, so it
  neither starts nor awaits anything. That a request which found the store full cannot come
  back in the same tick and start a run is `KeysOfThisTick`.
* `QuotaAlways` and `RetryAfterAlways` from `LimiterInv`: a bucket was opened by a request of
  its key and ends one window later (`BucketsOpened`), it counts every request since
  (`WindowsCounted`), and after a refusal it does not outlive the Retry-After
  (`RefusalsEnd`). Eviction is where it is hard: the limiter evicts when `maxKeys` keys have a
  bucket and another comes, and what it drops is the oldest bucket. A bucket opened in this
  window is dropped only when all others are younger, and so belong to `maxKeys - 1` rivals,
  with the newcomer `maxKeys`; that is the case `QuotaHolds` excepts, and the only one.

**`RunStoreProofs`**, of the two stores. Of the one in memory, for every finite set of runs,
store size, retention period and concurrency:

* `ActiveRunsStay`, `StoreStaysBounded`, `RoomCorrect` from `RetentionInv`, which adds that
  what is stored and active still executes, and that started runs have distinct positions.
  The first makes eviction safe; the second makes "the oldest" one run. That a nonempty set
  of terminal reports has an oldest one is well-foundedness of a finite order.

Of pruning, for every finite set of runs and operators, every positive batch size and any
number of failing statements:

* `DeletionsAccountedAlways` from `PruneInv`: a row deleted and not yet committed is locked
  by one operator (`LocksExclude`), and what is in a batch has expired for good
  (`BatchesExpired`). So committed deletions are disjoint, and the totals add up although
  two operators may have selected, and audited, the same run.

**`RunPaneProofs`**, for every set of runs, every number of failures that stops polling and
however often the page is hidden or disconnected:

* `PollingArmedAlways` and `OneRequestOfAKindAlways` from `EffectInv`: one request of a kind,
  each poll of the run its effect's closure holds, and that effect armed unless the render
  still due will run it again. The last part is what makes it inductive: between an
  assignment and its render the effect may hold a run no longer shown.
* `ShownNeverGoesBackAlways` from `OrderInv` besides: whatever the page mentions exists, a run
  just created is not mentioned before its answer, what is shown and what is answered are
  not ahead of the backend, and an answer not behind what is shown.

**`BrowsePaneProofs`**, for every finite catalogue, every set of queries, links and report
files and any number of clicks (`BrowseAssumption`: trimming twice is trimming once, ranks
are naturals, links are addresses):

* `PreviewMatchesAlways`, `AddressAgreesAlways`, `SelectionVisibleAlways` from `BrowseInv`:
  what was last written to the address is the choice last rendered (`WrittenIsSeen`); unless
  an update was `crossed`, only one of these is outstanding at a time: an address to be read, a
  choice to be written, a navigation asked for (`Agreement`); a selection that is not visible
  is still to be rendered, or is the one `overtaken` (`SelectionKept`); a panel whose
  definition is another's waits for its own (`PreviewKept`). That a nonempty list has a
  first card is well-foundedness.
* `ComparisonAddsUpAlways` is a fact about data: an assertion's type and its number among
  those of the type name one assertion of a report, and so do the ids of its steps if none is
  repeated; so the kept and the removed are as many as the first report has, the kept and the
  added as many as the second. Assertions of one type agree in their order exactly if each
  key of the type is unchanged.

**`DeploymentProofs`**, for any number of deployments, slugs, releases, scenarios and failing
statements (file versions are finite sets of naturals, slugs are distinct, the steps of a
scenario are a sequence):

* `ValidIsExecutable`, a fact about data: whatever passes `Validates` is `Executable`.
* `LocksSuffice`, `FilesStayApplied`, `ReconciledIsPublished`, `PublishedExecutable`,
  `HistoryGrows` from `DeploymentInv`. Alone none is inductive. That a commit meets no row
  taken meanwhile needs that whoever migrates holds the lock and that what it wrote is
  disjoint from what is committed (`MigrationLocked`), and for the catalogue that whoever is
  in a transaction holds the row and what it read is still true (`RowLocked`). That published
  versions verify needs that a release whose scenarios do not validate never reconciles
  (`ReconcilesValid`), across the boundary of the two parts.
* `PreviewIsExact` from `PredictionsFollow`, relative to `DeploymentInv`: a prediction follows
  from the history the dry run read, whatever was committed since, unless the slug is another
  origin's, whose prediction (`new`, see section 5) is never put to the test: its owner does
  not change, so no commit comes.

Only model-checked: all liveness (`AdmittedRunsSettle`, `EndsAndReports`, `EverythingSettles`,
`PrunesEnd`, `DeploymentsEnd`, `ReachesTerminal`, `ComesToRest`), because the prover has no
reasoning about fairness or `ENABLED`.

## 7. Not modelled

* **CLI**: the file does not parse at this commit (see the top of this document).
* **HTTP endpoints, OpenAPI, error envelopes, configuration, logging**: stateless handling of
  one request, or static data.
* **Catalogue reads** (`list`, `history`, `export`) and `migrationStatus`: single SELECTs and
  formatting. The registry's check of repeated scenario ids, JSON and YAML parsing, the JSON
  schema's types, amounts, memos, secret scanning and hashing: functions of one value,
  better tested than modelled; decimal arithmetic likewise.
* **Balances and amounts** of the gateway: unreachable while the assertions that read the
  ledger throw.
* **Dashboard**: favourites, announcements, copy buttons, download, layout; `import`, whose
  handlers are not defined. A `sort` in the address is taken as it is, without validation.
* **`esure-contracts`**: documents only.
* **A crash of the process** beyond `Exit` and `up`: at startup nothing reads unfinished
  runs, and `PERSISTENCE.md:172-174` calls restart behaviour planned work.

Worth doing next: an abstract report (status and evidence only grow, one terminal state) that
`RunExecution` and `RunRetention` both implement; the ledger of `RunExecution` constrained to
`LedgerPromise`.
