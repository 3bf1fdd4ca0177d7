# Verification of the Enterprise Automation Orchestrator

TLA+ modules, TLC configurations and TLAPS proofs for the program in `app/`:
an API that stores automation requests, workers that claim and execute them
through adapters, the retries, dead letters and replays in between, and what
surrounds them: the HTTP layer, start-up, document enrichment.
Paths below are relative to the repository.

## 1. The system

| Component | State | Operations | Interacts with |
|---|---|---|---|
| Repository (`app/repository.py`, `app/database.py`) | `automation_requests`, `automation_events` | create, claim, claim_next, complete, fail_or_retry, replay_dead_letter; get, get_details, metrics | called by service and worker; the only durable state |
| Dispatch (`app/dispatch.py`) | a Redis list of request ids, or nothing | publish, consume | written by the service, popped by workers |
| Service (`app/service.py`) | none of its own; one call per API thread | submit, replay_dead_letter, reads | commits to the repository, then publishes |
| Worker (`app/worker.py`) | `_target_cooldowns`, locals of `run_once` | run_once for ever | pops, claims, calls an adapter, records |
| Adapters (`app/adapters.py`) | none between calls | execute for API, RPA gateway, UiPath | the target systems, which are outside |
| HTTP layer (`app/main.py`, `app/security.py`) | none | one handler per path, API key check, readiness probes | service, enrichment, dependencies |
| HTTP metrics (`app/observability.py`) | counters, capped samples, a lock | observe, render, correlation ids | wraps every call |
| Enrichment (`app/enrichment.py`, `scripts/evaluate_enrichment.py`) | tallies of one evaluation | enrich, evaluate | a language model, outside |
| Start-up (`app/database.py`, `migrations/`, compose files) | the schema | init_database, upgrade | every process, before its first query |
| Telemetry, load test | configuration | - | - |

What makes it hard:

- several workers, polls, messages and API threads race for one row, and the
  writes that end an attempt (`fail_or_retry`, `update_status`) check neither
  status nor owner;
- commit and publish are two steps, pop and claim are two steps, claim and
  outcome are two steps: a process may die, or a call fail, in each gap;
- the list may lose, repeat and delay ids; resubmissions and replays publish
  ids that are already there;
- retries wait for backoff with jitter, for `Retry-After`, or for a cooldown
  that only one process knows of, measured on clocks that disagree, cut to
  whole seconds, and stored as text;
- rows are read before they are locked, and reports are read in several
  snapshots;
- processes start in any order on a schema that several of them create;
- nothing expires a claim and nothing bounds a `Retry-After`.

What makes each part correct:

- Repository: one row per idempotency key; attempts within the budget; the
  audit trail is a complete, ordered account of the row; no lost update.
- Dispatch: ids in the list are hints. No loss or repetition of them changes
  what happens to a request, only when.
- Service: an id is published only after its row is committed, and answered
  only after it is published.
- Worker: it writes only the row it owns, and every claim it makes is recorded
  unless it dies.
- Adapters, enrichment: the outcome says what the other side said; a hint is
  kept; a result is within bounds.
- HTTP layer: a status code is true of the state behind it; every call is
  answered and counted.
- Start-up: nobody works on half a schema.

`PROJECT.json` lists the hazards at their lines, with the properties that
would catch them, or the reason why none can.

## 2. Modules

| Module | Models |
|---|---|
| `AutomationRepository` | one operator per committed transaction of the repository |
| `DispatchQueue` | `publish`, `consume` and the faults of the Redis list |
| `AutomationWorker` | `run_once` as steps, process death and restart |
| `AutomationService` | `submit` and `replay_dead_letter` of API threads |
| `Orchestrator` | the composition of these four, time, fairness, and the properties |
| `Lifecycle` | abstract: the documented life of a request, with owners |
| `RowLocks` | the transactions of claim, outcome and replay statement by statement, with PostgreSQL's row locks or SQLite's write lock; implements `Lifecycle` too |
| `IdempotentSubmission` | abstract: one stored request per key, and every answer names it |
| `Submission` | `submit` and `create` statement by statement; implements it |
| `AuditReads` | `get_details` and `metrics`, one snapshot per statement, next to the whole `Orchestrator` |
| `AuditClock` | which clock reading stamps which audit event |
| `Timers` | cooldowns, delays, `Retry-After` and `next_attempt_at` in fractions of a second, and timestamps compared as text |
| `DispatchFairness` | `run_once` under requests that never stop coming |
| `Adapters` | `execute()` of the three adapters and `_parse_retry_after` |
| `Enrichment` | `enrich()` and the evaluation script |
| `HttpMetrics` | request counters and samples under `_metrics_lock` |
| `HttpApi` | middlewares and handlers, over `HttpMetrics` |
| `Startup` | `init_database`, the first migration and the first query of each process |
| `MC...` | instances for TLC |
| `...Proofs` | theorems, one module for each specification |
| `Sums` | lemmas about the sums of the community modules, for any finite set |

`AutomationWorker` and `AutomationService` extend `AutomationRepository` and
`DispatchQueue`; `Orchestrator` extends both, so the four share one database
and one list. `AuditReads` extends `Orchestrator` with a reader. The other
modules each take one abstraction of the composed model apart again: atomic
transactions (`RowLocks`, `Submission`), whole seconds and one clock
(`Timers`, `AuditClock`), finitely many submissions (`DispatchFairness`).

### From the code to the model

The composed model:

- **Rows.** `status`, `attempt_count`, `next_attempt_in` and `created_at` are
  functions on the ids a submission may draw; `"absent"` means no row. The
  audit rows are `events[r]`, each with its status and the attempt number the
  detail text quotes. Columns that only carry data (payload, detail, process)
  are left out; `max_attempts`, `target` and `idempotency_key` are constants of
  the id, because no code changes them.
- **Time.** `next_attempt_at`, cooldowns and hints are the whole seconds left;
  `Tick` takes one off each. 0 stands for NULL and for the past, which
  `_eligible_clause` treats alike. A request in its attempt does not age: the
  delay is added to the clock when `fail_or_retry` runs. `created_at` is a
  rank, drawn before the transaction that stores it, as `create` does.
- **Transactions.** Each is atomic; `RowLocks` and `Submission` show that what
  happens between their statements makes no difference.
- **run_once.** `pc[w]` is where a worker stands between two transactions,
  broker calls or adapter calls: `idle`, `claim` (a message popped),
  `claim_next`, `claimed`, `executing`, then `completing` or `failing`, which
  record the outcome; `dead` after an exception left `run_once` or a kill. The
  reads of `attempt_count` before a backoff are part of `Fail`: nobody else
  writes a row in execution (`ExclusiveClaim`).
- **Backoff.** Any whole number between the capped exponential base and the
  base plus the jitter ratio. Jitter comes after the cap, as in the code, so a
  delay may exceed `MAX_RETRY_DELAY_SECONDS`.
- **Cooldown.** `int()` may drop one second of what is left
  (`CooldownDelays`); the delay is at least one second.
- **OverflowError.** `now + timedelta(...)` fails past `DateLimit`; the
  transaction rolls back and the process ends (`RecordFailureRaises`).
- **API calls.** `Submit` draws id and time, `CreateRow` is the transaction,
  `PublishId` the push; `CallFails` ends the call anywhere. `Replay` is a
  transaction followed by `PublishId`.
- **The list** is external: the model lets it be emptied and lets any stored
  id appear at its head again, `MaxBrokerFaults` times.

`Lifecycle` has the statuses, the attempt count and the set of owners of each
request. `Orchestrator` implements it with
`Owners[r] = {w : pc[w] is past the claim and held[w] = r}`.

The modules that look closer:

- **RowLocks.** A claim's `SELECT` fixes the rows it will visit (`snapshot`);
  `SkipRow` passes over a row another transaction holds, `LockRow` locks it and
  looks again at what is committed now, as PostgreSQL does under read
  committed. SQLite has the one lock `Database`, taken by `BEGIN IMMEDIATE`
  before a claim looks at anything. The dialect is chosen in `Init` and never
  changes. `ReadNow` is a step before the transaction, as in the code. Clocks
  are not compared: a row is in `future` from the moment its `next_attempt_at`
  is written, queued rows included, until `ComesDue` says that every clock has
  passed it. A claim finds every row that was out of `future` when it read its
  `now` (`due`) and, of the others, any. A replay locks its row whatever the
  status; `RefuseReplay` is the exception that gives the lock back.
- **Submission.** A call goes through `look_up`, `insert`, `commit` or a
  conflict and `look_again`, `publish`, `get`. An insert waits while another
  transaction holds a row with the same key. `Fault` ends a call anywhere; a
  commit or a push whose answer was lost may or may not have happened. The
  module is `DISPATCH_BACKEND=redis`; with `database`, `dispatcher.brokered` is
  false and the step `publish` falls away.
- **AuditReads.** A report is the list of statements still to run and what the
  earlier ones returned; everybody else goes on between them.
- **AuditClock.** Each process has a clock of its own, of any skew, which
  never runs backwards. `now` is read before the transaction opens, except in
  `fail_or_retry`.
- **Timers.** Time is counted in ticks of a fraction of a second;
  `_parse_retry_after` loses the fraction of a date, `int()` that of a
  cooldown. Timestamps are compared by the characters that can differ (digits,
  `+`, `.`), in a bytewise collation.
- **DispatchFairness.** A settled slot that nobody names any more becomes a
  new request, for ever. Retries are due at once; no deaths, no replays.
- **Adapters.** The executions of one request against a target that may
  answer anything. Whether the target did the work is a history variable the
  adapter cannot see, and `asked` remembers the header of the last answer. An
  execution may also end before anything is sent: by a missing setting, by a
  timeout that is no number (`NotConfigured`), by a URL or a header the client
  refuses (`NotSent`); which of these the adapter converts differs.
- **Enrichment.** An answer of the model is one of the shapes the code tells
  apart; an exception that is not in the `except` clause stays what it was.
- **HttpApi.** A call walks from `authorise` through its handler to a status
  code, then through the `finally` clause of the middleware (`count`,
  `sample`). A row has only the state a handler asks for. `Toggle` takes
  database or Redis down, or up again, between any two steps; a dependency
  that is down refuses at once. `Backend` and `UrlIsValid` are the
  configuration; with a malformed URL Redis is never reached and the client
  raises another exception than an outage does. `ups`, `downs`, `did` and
  `earlier` are history for the properties.
- **Startup.** `create_all` looks for each table and then creates the missing
  ones; PostgreSQL holds them in the transaction (`made`), SQLite commits each.
  Whether DDL is transactional is chosen in `Init`. A process that ends is
  `dead`; it may be started again (`Restart`), but no compose file has a
  restart policy, so nothing relies on it.

## 3. Runs

| Run | Instance | Properties |
|---|---|---|
| `polling` | no broker, 3 submissions (2 share a key), 2 workers, 2 API threads, budgets 1 and 2, hints 0 and 2 of which 2 is unschedulable, 1 kill, 1 replay | `TypeOK`, `AttemptBudget`, `AuditTrail`, `CallsAreAudited`, `OneStrandedPerDeath` |
| `brokered` | Redis, 2 submissions of one key, 2 workers, 2 API threads, budget 2, 2 list faults, 1 kill, 1 replay | `ExclusiveClaim`, `PublishedIsPersisted`, `LifecyclePromise`, `RetryAfterHonoured` |
| `surviving` | Redis, 2 requests of one target, budgets 1 and 2, 1 list fault, one of 2 workers may die for good, a hint that outlasts the backoff, fairness | `SettledOrStranded` |
| `rowlocks` | PostgreSQL and SQLite, 2 requests, budgets 2 and 1, 2 workers, 1 operator, 1 fault, 2 calls of replay, messages and polls, fairness | `NoLostUpdate`, `SkipsOnlyRowsInWork`, `LifecyclePromise`, `EventuallyClaimed` |
| `submissions` | 3 calls with one key and 1 without, 2 faults, fairness | `NoSpuriousError`, `AnsweredIsPublished`, `SubmissionPromise`, `CallsEnd` |
| `reads` | a reader, 1 worker, 1 API thread, 2 requests, 1 replay | `DetailsCohere`, `MetricsCohere` |
| `timestamps` | clocks: 2 workers, 1 operator, clocks up to 2, 1 replay; timers: half seconds up to 3 s, 2 requests, budget 3, hints 0 and 2 s, a date, 1 death | `TrailInTimeOrder`, `EligibleWhenDue`, `DeferredAtMostTwice`, `RetryAfterKept` |
| `load` | Redis, 3 slots, 2 workers, a list of 2, budget 2, fairness | `PublishedIsConsumed`, `FallbackServes` |
| `answers` | 3 adapters, up to 3 executions, every answer and header form; every answer of a model, 2 thresholds, 2 cases | `OutcomeIsTruthful`, `JobNeedsToken`, `EffectPerExecution`, `ResultsAreGuarded`, `RatesAreFractions` |
| `startup` | both databases; API, worker that initialises, worker that does not, migration; 2 kills, each process started once and perhaps again, fairness | `SchemaCoherent`, `InitialisedHasTables`, `TablesCome` |
| `http` | 2 concurrent calls to 7 paths, keys right, wrong and unreadable, bodies valid and not, Redis with a valid URL, 1 row, 2 changes of a dependency, 1 sample kept, fairness | `AcceptedIsDone`, `RefusedChangesNothing`, `ReadyIsTrue`, `ReportsAgree`, `AnsweredIsCounted`, `EveryCallIsAnswered` |
| `unschedulable` | 1 worker, a hint past `DateLimit`, fairness, no kill | violated: `ClaimIsRecorded` |

What they show, beyond the one line each has in `PROJECT.json`:

- The two refinements into `Lifecycle` say the same thing at two levels:
  whatever messages, polls, deaths and locks do, each request goes through
  the documented states, with one owner at a time.
- `SettledOrStranded` and `OneStrandedPerDeath` together: a death strands one
  request, and everything else is settled. Without a death everything is.
- `SkipsOnlyRowsInWork` and `EventuallyClaimed` are what SKIP LOCKED gives and
  costs: a claim leaves a row to somebody who is inside a transaction with it,
  and if that transaction comes to nothing (a rollback, a refused replay) a
  later claim takes the row. The first fails if a claim keeps its transaction
  open while it executes the attempt.
- `OutcomeIsTruthful` ties each outcome to what the target said: the hint of a
  retry is computed from the header again, by another definition than the
  code's, and a 429 may be reported as something else only if `int()` rejects
  its header (section 5).
- `TablesCome` is what start-up gives without restarts: with PostgreSQL an
  initialiser that fails has lost against another one, so the tables come
  unless every process that creates them is killed. That everybody serves is
  not given (section 5).
- `DetailsCohere` allows a report that is behind its events, never ahead of
  them: the row is read first. `MetricsCohere` likewise rests on the order of
  the statements.
- `TrailInTimeOrder` excepts replays: an operator's clock may be behind the
  worker's, and nothing compares the two.
- `FallbackServes` states what the code gives under endless load with a
  broker: served, if workers come to look at the table time and again. That
  they do is not given (section 5).
- `RetryAfterKept` has a tolerance below one second, which is what a date
  loses. `RetryAfterHonoured` is the same promise in whole seconds for the
  whole system; a replay clears `next_attempt_at`, so it is a new decision
  that ends an old `Retry-After` (`Replayed` clears the history variable).
- `CallsAreAudited` makes the trail the bookkeeping of all cycles of a request:
  each event `queued` pays for `max_attempts` events `running`, and the
  attempts of the cycle under way are `attempt_count`.
- `unschedulable`: a `Retry-After` that no date can hold makes `fail_or_retry`
  raise. The worker process ends and the row stays `running`; since no query
  selects running rows, it stays so for ever.

**Bounds.** Two workers and two API threads are the least number that race,
and the code distinguishes no third. Budgets of one and two separate "first and
last attempt" from "retry, then last". One replay starts a second cycle; its
effects are those of a new budget. A crash may hit any step of any worker. Two
list faults allow a loss followed by a repetition. Seconds run from 0 to 3,
enough for a hint to outlast a backoff and for a cooldown to outlast a claim.
Four calls let two losers follow one winner of an insert, beside a call no
index touches. A cap of one sample is reached by the second call, as the
thousandth is by the thousand and first; of two calls one reports on the
other. Two changes let a dependency fail and return during one call. Three
slots are one that waits and two that keep workers busy. Every bound is a
constant of its module. Symmetry is used for interchangeable workers, API
threads and timed requests, in runs without liveness only.

`answers` and `timestamps` each put two models that share no variable into one
instance: `Init` chooses which of them runs and the other stays as it is. The
theorems are about each model by itself.

**Deadlock** is checked wherever workers poll for ever. It is off in
`submissions`, `reads`, `timestamps`, `answers`, `startup` and `http`: calls
end, clocks reach their bound, processes are up.

**Fairness.**

- `Orchestrator`: weak fairness of each living worker, because `run_forever`
  is a loop and each of its steps ends (`blpop` and adapter calls have
  timeouts), and of time. Nothing is assumed of clients, of API threads, which
  may stop before they publish, or of restarts.
- `RowLocks`: the workers, the end of a replay that holds its lock, and time.
- `Submission`: each call, which a thread of the API's pool runs.
- `DispatchFairness`: each worker.
- `Startup`: each process, which is started once. Restarts are possible but
  nothing is owed to them.
- `HttpApi`: each call that has arrived. The metrics lock is held for a few
  statements without I/O.

Each property of a passing run has a mutant in `PROJECT.json`, a definition
marked "Mutant" in the modules, that breaks the code the way a slip would and
that TLC finds. Type invariants are in no run but `polling`; they are part of
the inductive invariants below.

## 4. Proofs

For all constants allowed by the assumptions (any number of workers, callers,
calls, processes, messages and outages, any budgets of at least one, any
delays, clock resolutions and bounds). Every safety property and refinement of
a passing run is a theorem:

| Module | Theorem | States |
|---|---|---|
| `OrchestratorProofs` | `TypeCorrectness` | `Spec => []TypeOK` |
| | `ClaimsAreExclusive`, `AttemptsAreBounded` | `[]ExclusiveClaim`, `[]AttemptBudget` |
| | `ImplementsLifecycle` | `Spec => LifecyclePromise` |
| | `AuditTrailIsComplete`, `CallsNeedAudit` | `[]AuditTrail`, `[]CallsAreAudited` |
| | `MessagesNameRows` | `[]PublishedIsPersisted` |
| | `DeathStrandsAtMostOne` | `[]OneStrandedPerDeath` |
| | `RetryAfterIsHonoured` | `RetryAfterHonoured`, replays included |
| | `DetailsAreCoherent`, `MetricsAreCoherent` | `ReadsSpec => []DetailsCohere`, `[]MetricsCohere` |
| `RowLocksProofs` | `NoUpdateIsLost` | `[]NoLostUpdate` |
| | `StatementsImplementLifecycle` | `Spec => LifecyclePromise` |
| | `SkippedRowsAreInWork` | `Spec => SkipsOnlyRowsInWork` |
| `SubmissionProofs` | `ImplementsSubmission` | `Spec => SubmissionPromise` |
| | `NothingIsRaised`, `PublishedBeforeAnswered` | `[]NoSpuriousError`, `[]AnsweredIsPublished` |
| `TimestampProofs` | `DueRowsAreEligible`, `DeferralsAreFew`, `RetryAfterIsKept` | `[]EligibleWhenDue`, `[]DeferredAtMostTwice`, `RetryAfterKept`, of `Timers` |
| | `TrailsAreInTimeOrder` | `[]TrailInTimeOrder`, of `AuditClock` |
| `AnswersProofs` | `OutcomesAreTruthful`, `JobsNeedTokens`, `EffectsAreCounted` | `[]OutcomeIsTruthful`, `[]JobNeedsToken`, `[]EffectPerExecution` |
| | `EnrichmentIsGuarded`, `SummaryAddsUp` | `[]ResultsAreGuarded`, `[]RatesAreFractions` |
| `StartupProofs` | `StartupIsSafe`, `SchemaIsCoherent` | `[]InitialisedHasTables`, `[]SchemaCoherent` |
| `HttpApiProofs` | `AcceptedIsTrue`, `ReadinessIsTrue` | `[]AcceptedIsDone`, `[]ReadyIsTrue` |
| | `RefusalsAreAccounted` | of every 4xx, with any `Backend` and URL, what it has changed (`Clean`) |
| | `RefusalsAreClean` | `[]RefusedChangesNothing`, if `DispatchIsConfigured` |
| | `ReportsAreWhole`, `AnswersAreCounted` | `[]ReportsAgree`, `[]AnsweredIsCounted` |

One theorem has a hypothesis of its own: with a dispatch backend the code does
not know, or a malformed `REDIS_URL`, a replay answered 409 has been stored
(section 5), so `RefusalsAreClean` excludes both, and `RefusalsAreAccounted`
says for every configuration that it is the only refusal with an effect, and
which effect.

**Orchestrator.** `TypeOK` is not inductive alone: a row is written for the
request in hand and an id pushed from the call in hand, so `InHand` (who has
something in hand has a request) goes with it. `ExclusiveClaim` and
`AttemptBudget` need each other's company and one fact more. No write that ends
an attempt checks the row; it is right because the writer owns a running row
(`ExclusiveClaim`), which stays true because only rows that are queued or
retrying are claimed, only dead letters are replayed, and `create` stores a row
only under an id nobody has stored (`FreshIds`). `_claim_row` does not check
the budget; it is right because a retrying row has budget left
(`AttemptBudget`), which stays true because `fail_or_retry` sees the count the
owner's claim wrote. So

    IInv = TypeOK /\ InHand /\ FreshIds /\ ExclusiveClaim /\ AttemptBudget

is inductive. For the refinement, a claim is `Start`, the recorded outcome is
`Finish`, `Reschedule` or `Bury`, a death is `Abandon` or nothing, `CreateRow`
is `Accept` or nothing, and every other step is a stutter.

The rest of the module starts from one lemma: a step writes no row, or one row
in one of four ways (`RowStep`). Each of them extends the trail by an event that
may follow the last and says what the row says, which is all of `AuditTrail`.
For `CallsAreAudited`, a claim has written its event before the call is made
(`ClaimIsAhead`: a worker past its claim has one event more than calls). That
the events balance (`EveryStartIsPaid`) follows from the same four ways: a
claim adds one start and one to the count, and a replay, which is of a dead
letter and so of a spent budget (`AttemptBudget`), pays for `max_attempts` more
and sets the count to zero. For
`OneStrandedPerDeath`, a row is only stranded by a death, and a death has one
row in hand. `RetryAfterHonoured` needs to know where a hint is at each moment
(`HintCovered`): in the delay a worker is about to record, in the row, or
over. A replay clears the row's and the history's at once, and there is no
third place: what is replayed is a dead letter, which nobody has in hand
(`ServeHints`).

**Reports.** Between the two transactions of `get_details` the trail only
grows, so the event behind the row that was read is in the trail that is read
(`DetailsFollow`). `metrics` counts the rows before it counts them by status,
rows are not deleted, and each has one of the five statuses
(`TotalFollows`, `StatusesAddUp`).

**Sums.** `MapThenSumSet` and `FoldFunction` are recursive functions on the
subsets of a set. Their value is found by least counterexample: were a
statement false of some subset, it would be false of one without a smaller one
(`LeastSubset`, from the well-foundedness of strict inclusion), which the
recursion refutes. The lemmas used are that one more at one index is one more
in the sum (`TotalBump`) and that counts by group add up (`CountsAdd`).

**RowLocks.** What a statement relies on between its `SELECT` and its `UPDATE`
is written down per session (`Relies`): that it holds the lock of the row and
has seen its current count, or that the row is running, which nobody takes from
its owner (`OneOwner`). With the budget of each row (`Budget`) this is
inductive, and each statement that writes is a step of `Lifecycle`. About SKIP
LOCKED, `LocksAreHeld` is inductive over it: a session that holds a lock is
inside a transaction, and on SQLite a session inside one holds the lock of the
database. So what is skipped is being worked on, and on SQLite nothing is.
Which rows are due matters to no safety property (`TimeChangesNothing`).

**Submission.** The index lets one row of a key in (`OneRowPerKey`). A call
that has seen a conflict finds a committed row when it looks again
(`ConflictIsCommitted`), because a waiting insert fails only when the winner
commits and rows are never deleted; so neither `raise` for a missing row is
reached. What a call has found is committed (`FoundIsCommitted`) and, past its
publish, published (`PublishedOnceFound`). A commit is the abstract store, the
final read the abstract answer.

**Timers.** `NotBefore(r, x)` says that nobody calls the target for `r` before
the instant `x`: it is in the row, behind the worker that has the row, or in the
delay about to be stored. It is kept by every step, and the three properties are
about one `x` each: what the target asked of the request less what a date loses,
the last second of a cooldown after one deferral, its end after two. That texts
compare as the instants they stand for is a lemma about `isoformat`, which
leaves the fraction out when it is zero (`TextsOrderAsInstants`).

**AuditClock.** Whoever owns a request has a clock at or past the last event of
its trail (`OwnersAreLate`, from `ReadsArePast`: a `now` is not ahead of its
clock), since it claimed with a `now` past `next_attempt_at`, which is at or
past the failure before (`DueIsStored`).

**Adapters, enrichment.** An execution that waits for an answer has received
nothing yet, or the token (`Awaited`), and the target has worked less often
than there were executions. The last call of an evaluation is an outcome of
`enrich` (`CallIsEnrich`), and the tallies add up (`TallyType`).

**Startup.** What an initialiser has not found missing, it has found or made
(`Accounted`); when it commits both tables are there, and tables are never
dropped.

**HttpApi.** A handler has done what the statements before it do and no more
(`Progress`); what a probe found was so at some time since the call arrived
(`ProbesAreTrue`); so the answer is true when it is decided (`Truthful`), and
later steps of others do not make it false. For the counters, the lock is held
by whoever is between count and sample or between the two halves of a report
(`LockIsHeld`), so the samples of a route lag behind its count by one at most
and only then (`SamplesFollow`); and the requests counted are the calls past
`count`, of which those answered are a part.

Only model-checked: liveness (`SettledOrStranded`, `EventuallyClaimed`,
`CallsEnd`, `PublishedIsConsumed`, `FallbackServes`, `TablesCome`,
`EveryCallIsAnswered`, and `ClaimIsRecorded`, which is refuted): liveness under
fairness is outside what TLAPS proves here. About
`DispatchFairness`, which has no other properties, nothing is proved.

## 5. Where the documents say more than the code does

`unschedulable` is the run for the gravest one. For the others the modules
state what the document says, and TLC refutes it in the instance given, with
that property for the ones of the `.cfg` (ADRs are in `docs/decisions`, 010 in
`docs/adr`):

| Stated | Definition and instance | What happens |
|---|---|---|
| ADR 010:10, work for a cooling target is deferred | `DeadLetterWasTried`, an invariant, with `polling.cfg` | The work is claimed first and recorded as a failed attempt; with its last attempt spent this way a request goes to dead letter without a call. |
| ADR 009:15, a 429 is raised as a retryable error | `ThrottlingIsDistinguished`, an invariant, with `answers.cfg` | `isdigit()` admits strings `int()` rejects; such a 429 is an ordinary failure. |
| `docs/architecture.md:34`, workers fall back to persisted eligible work | `WaitingIsServed`, a property, with `load.cfg` | While messages that lead to a claim keep coming, nobody looks at the table; retries are never published. |
| ADR 007:67, `compose.production.yaml` starts the API and two workers | `EveryoneServes` with `startup.cfg`, `Process <- Composed`, `Role <- Compose`, `MaxCrashes = 0` | A worker that queries before the API has created the tables ends, and nothing restarts it. |
| `README.md:138`, Alembic manages the schema | `UpgradeCompletes`, a property, with `startup.cfg` | `create_all` makes the tables and records no revision; the upgrade then fails each time. |
| ADR 008:46, a conflict changes no state | `RefusedChangesNothing` with `http.cfg` and `Backend = "rabbitmq"`, or `UrlIsValid = FALSE` | The replay is committed, then `get_dispatch_queue`, or `Redis.from_url` on the first push, raises a `ValueError`, answered as 409. |
| `docs/architecture.md:68`, correlation ids go with responses | `AnswersCarryCorrelation`, an invariant, with `http.cfg` | When a handler raises, there is no response to set the header on. |
| ADR 005:22 and `tests/test_enrichment.py:85`, invalid output fails closed with `EnrichmentError` | `MalformedIsRejected`, an invariant, with `answers.cfg` | No choices (`IndexError`) and numbers beyond a float (`OverflowError`) pass the `except` clause. |

## 6. Still to prove, and not modelled

Worth proving next: the invariants of `DispatchFairness` its liveness rests on
(a waiting slot is named in the list or was drained from it); that the outcomes `Orchestrator` lets an
execution have are those `Adapters` can return.

Not modelled:

- Telemetry configures OpenTelemetry once and keeps no state of the program's
  own; log formatting has none either.
- The load test is a measuring script outside the running system.
- Columns, payloads, texts and headers that no decision depends on.
- A confidence that is not a number: what becomes of it is decided in
  pydantic, not here.
- In `Startup`: indexes, the downgrade, and SQLite's lock time-outs during
  `create_all`.
- In `HttpApi`: dependencies that hang instead of refusing.
- Clocks that are set back while a process runs.
