# Verification of the barebones NestJS scaffold

TLA+ models of the program in `src/`, model-checked with TLC on small instances. The safety
of every component and both refinements are also proved with TLAPS, for all values of the
constants. Paths below are relative to the repository root.

## 1. The system

barebones is a NestJS scaffold: one Node.js process with an HTTP server, a relational
database behind a repository port, and Redis, MongoDB, a BullMQ queue and Prometheus metrics
as options that environment variables switch on.

| Component | State it keeps | Operations | Talks to | What is hard | What makes it correct |
|---|---|---|---|---|---|
| Process lifecycle (`src/main.ts`) | `shuttingDown`, the force-exit timer, the phase of `app.close()`, the exit code | boot, signal handler, close, end of the process | HTTP server, Redis, pool, log transport, through Nest's hooks | signals at any moment, hooks that fail or hang, a timer that races them, a process that ends only by running out of handles | one close; an exit code that tells the truth; the last log line kept; drained requests keep what they use; an end within the timeout |
| Redis service (`src/infra/redis`) | client status | lazy connect, commands, ping, quit | lifecycle (destroy hook), health | status changes between a check and a command | 503 without Redis, no command lost in a drain |
| Health (`src/health`) | nothing; snapshots of one check | `check()` from HTTP and from a scrape | five dependencies | concurrent probes, rejections, silence, change during the check | an answer has evidence; checks do not disturb one another |
| Health gauge and metrics endpoint (`src/health/health-metrics.service.ts`, `src/infra/metrics`) | the registry's series | collect, render | health | overlapping scrapes share one gauge, set in one turn and read in another | a scrape shows one check, its own unless it was crossed |
| Boot configuration (`src/config`, `src/app.module.ts`) | `process.env`, `featureFlags`, `ConfigService`, list of modules | load files, evaluate flags, validate, assemble, build options | every component | two paths that read the same files at different times; text against booleans | both paths agree; production is strict; nothing is wired to a client that is not there |
| Migration CLI (`src/config/typeorm-data-source.ts`) | its own `process.env` | load, connect | database | a third reader of the same files | same database as the application |
| Repository port and TypeORM adapter (`src/common/persistence`) | the table | findOne, findMany, count, insert, update, remove | database driver | races on a unique index, filters that vanish, four shapes of one error, replies lost after commit | the port's contract, whatever the driver |
| Background jobs (`src/infra/queue`) | BullMQ's queue in Redis, counters | publish, process, record | Redis, metrics | at-least-once processing, retries, stalled workers | counters and retries agree; nothing is lost |
| HTTP pipeline (`src/app.setup.ts`, interceptors, filter) | active-request gauge, duration histogram | intercept, wrap, catch | every controller | errors after headers are sent; two places that derive the status | one response; recorded status = sent status; gauge returns to zero |
| Scaffold scripts (`scripts/`, `src/config/scaffold.config.ts`) | files of the checkout, `node_modules`, the generated Prisma client | select, check | the ORM profiles, pnpm | a run interrupted between or inside two writes; an installation that fails afterwards; runs with other selections over what earlier ones left | what the check accepts is one selection; success is whole; a run can be repeated |

Calls are method calls inside one event loop; the interleavings are those of awaited
promises, timers, signals and callbacks. State that outlives a call is shared by reference
(the registry, the Redis client, `process.env`). Nest's hooks are the callbacks by which the
lifecycle reaches the other components.

## 2. Modules

| Module | Models | Kind |
|---|---|---|
| `ProcessLifecycle` | `main.ts`, the Redis client's status and destroy hook, the pool, requests in flight | component |
| `ProcessLifecycleProofs` | its safety, proved | proofs |
| `HealthCheck` | coordinator, adapters, controller, the collect callbacks of the health gauge and of the queue's gauges | component |
| `HealthCheckProofs` | its safety, proved | proofs |
| `BootConfig` | `load-env`, `feature-flags`, `env.validation`, module list, option builders, migration CLI | component |
| `BootConfigProofs` | its safety, proved | proofs |
| `RepositoryPort` | `IRepository<T>`: the contract | abstract specification |
| `TypeOrmRepository` | the adapter, with drivers and database | component, implements `RepositoryPort` |
| `TypeOrmRepositoryProofs` | the adapter's safety, proved | proofs |
| `RepositoryRefinementProofs` | that it implements the port; the pages of a reader | proofs |
| `JobDelivery` | what publishing a message promises | abstract specification |
| `JobQueue` | publisher, BullMQ as it is configured, processor, counters | component, implements `JobDelivery` |
| `JobQueueProofs` | its safety and that it implements `JobDelivery`, proved | proofs |
| `RequestPipeline` | trust proxy, throttler, interceptors, reply, exception filter | component |
| `RequestPipelineProofs` | its safety, proved | proofs |
| `ScaffoldSelection` | the generator, the consistency check, the developer between two runs | component |
| `ScaffoldSelectionProofs` | its safety, proved | proofs |
| `MC...` | small instances of the above | for TLC |

### ProcessLifecycle

`boot`, `http`, `redis`, `rdb` and `close` are the places where `bootstrap()`, the socket, the
Redis client, the pool and `app.close()` stand; `shuttingDown`, `timer`, `exitCode` are the
variables of the code; `log` is the last line, in the queue of pino's worker thread;
`req` follows each request, and `early` remembers those accepted before the signal.
`OnSignal` is the handler (its early return is its second disjunct), `CloseFulfilled` and
`CloseRejected` are the two continuations of `close()`, `QuitRedis` the destroy hook of
`RedisService`. The pool is closed by a hook of the ORM `profile`, in `onApplicationShutdown`
(TypeORM, MikroORM) or `onModuleDestroy` (the prisma and drizzle templates, `"drizzle"` in the
model). It may succeed (`ClosePool`), or fail in one of two ways: `@nestjs/typeorm` logs the error
and its hook resolves (`PoolCloseLogged`), the other hooks reject and `close()` with them
(`PoolCloseRejected`). A pool that failed to close is `"leaked"`: it may hold connections.
The order of the phases (destroy hooks, closing and draining the server, shutdown hooks) is
that of Nest's `close()`. `LoopAlive` states what keeps Node's event loop alive: open handles
and the input or output a pending hook waits for; the unref'd timer is not among it.

Fairness is that of the runtime: a due timer fires, an empty loop ends, the log worker ships
its queue, `listen` settles. Clients, signals, Redis and hooks are not fair: a request or a
hook may hang for ever, and `CloseIsBounded` holds all the same.

### HealthCheck

A dependency is in one of a few conditions; `Change` moves it at any time, at most
`MaxChanges` times. `Prefix` is the synchronous part of an adapter (heap, mongoose state, a
null Redis client), `Reply` what it makes of an awaited answer, `CheckIndicator` the
coordinator's catch. `StartScrape` calls every collect
callback in one turn: the health gauge is reset before its check, and each queue gauge asks Redis
for a count. `Collect` sets the series when the check is complete, and only then is the collect
callback's promise fulfilled; `ReadGauge`, a later turn, is the registry going on after that
await and reading whatever series the gauge has by then. Another scrape may reset or set them in
between: `crossed` remembers which did. `CountReplies` settles one count; the scrape is `Rendered`
when all of its gauges are read, and a count that rejects makes it a 500 at once while its health
check runs on. Assumed of the metrics library: it awaits each gauge's callback before it reads
that gauge, and a rejected callback rejects the rendering. An HTTP check and a scrape share
nothing that either writes, so `Mixes` lets a behaviour have the one or two scrapes. The histories
`sound` and `unsound` record what each check could have seen. Fair are the deliveries of replies and the
continuations; a silent dependency or queue owes nothing.

### BootConfig

A value is its JavaScript type and its text, because the code tells `false` from `'false'`.
`LoadApp` (import of `load-env.ts`), `EvaluateFlags` (body of `feature-flags.ts`), `ForRoot`
(ConfigModule and the `imports` array) and `Wire` (the factories) happen in module evaluation
order; the CLI's two steps interleave with them and share only the files. `ModeFile` is
`envFilePaths()`; `ForRoot` calls it again on the `process.env` that `LoadApp` filled. The text of
`CORS_ORIGINS` is a sequence of entries, what stands between its commas: an origin or nothing,
alone (`Bare`) or with blanks around it (`Blank`). `ParseCorsOrigins` is the split, the trim and
the filter of the code over any such list.
Assumed of the libraries: neither dotenv nor ConfigModule overwrites a variable that is set,
`ConfigService.get` answers with validated values, Joi's booleans ignore case. ConfigModule
also copies validated values into `process.env`; nothing reads it afterwards, so `env` stays
as it was when its last reader looked.

### RepositoryPort and TypeOrmRepository

The abstract table changes at one moment per call; the caller learns a result in the port's
terms. The adapter runs to its first await (`Invoke`), the database executes one statement
(`Execute...`), the connection may break before or after it, the adapter translates the
answer (`Settle`). The refinement mapping reads the driver's reply as an outcome that is
decided and not yet returned. Rows have a key, a unique column and a nullable one.

`driver` is what the data source was made for: a dialect (`"mysql"` also stands for MariaDB), by
which a duplicate key and a page with an offset but no limit are answered, and whether the driver
reports how many rows a statement touched. Where it does not, the adapter answers 0
(`result.affected ?? 0`), and the mapping gives the abstract table a `counted` that is false:
the port then promises the number 0 and not that of the affected rows. That is weaker than the
port's own words (`repository.port.ts:173`); the drivers of the three supported databases report.

`Options` are the ones the adapter builds (`toWhere`, `toOrder`, `applyProjection`, `skip` and
`take`). The database answers a read by any list its ORDER BY allows (`Lists`), of which it
returns a part (`Cut`); the port words the same by `Precedes`, `Arrangements` and `Page`, from
the call as the caller wrote it. Emails are ranks in the collation of their column. Assumed:
an order names columns that are never NULL, `take` is positive, and keys are not patched.

### JobQueue and JobDelivery

`state`, `made`, `stalled`, `owner` and `dedup` are BullMQ's record of a job in Redis; `at` and
`outcome` are the one job a process has in hand and how far `process(job)` is. `Publish` is the
adapter with BullMQ's answer to its options (`AttemptsOf`, `DeduplicationOf`, `Removed`),
`Enqueue` the service above it, `Resolves` and `Throws` the two ways through the processor, each
with its counter. BullMQ is external and modelled as far as those options reach: one lock per
active job, which lapses when its process ends or is cut off; a report that is refused without
the lock; a retry while attempts are left; one recovery (`MaxStalled`) of a job found without a
lock; a key that is free once its job has settled. The counters are added up over all registries,
since one that starts again at zero with its process says nothing about the code. The abstract
specification knows messages, runs and fates only; a run that comes too late may still finish in
it. Fair are BullMQ's timers, the workers that are there and the handlers; publishers, crashes and
the loss of a living process's lock are not. No bound on crashes is needed: each costs a recovery.

### RequestPipeline

A request goes through `stage`; `status`, `sent`, `heads` and `code` are Express's response,
`active` and `observed` the two metrics, `hits` the throttler's storage. The order is the one
Nest makes of the registrations: the guard, then the interceptors of AppModule and MetricsModule,
then `ResponseInterceptor` (registered by `configureHttpApp`, after the modules), the validation
pipe and the handler; a refusal by router or guard goes to the filter and passes no interceptor.
`Resolves` and `Fails` are the two ways back through the interceptors, each in one turn;
`Reply` is Nest's, later. A handler may set a status, begin a response of its own, return a
value, an envelope or something JSON cannot express, or throw. `AddressOf` is Express's reading
of X-Forwarded-For. The throttler's key names the handler besides the address, so its limit is one
per route: the ordinary requests of the model are to one and the same. Fair are Nest's dispatch and the handlers. A client that hangs up is not
modelled: no code here looks at it.

### ScaffoldSelection

`files` maps each existing file to what the scripts tell apart in it: the ORM, dialect and imports
of a source file, the database entries of the Compose files, the packages of `package.json`.
`SourceOf` is what the profile's templates render, `Checkout` all files of a selection, and
`Contents` what a file may hold in any state. `Plan` is the list of writes: the profile's files,
then those `main` collects (`Collected`), then the removals;
`PerformTask` does one, `Interrupt` ends the process between two or inside a write, which
`writeFileSync` begins by truncating (`Empty`). `Install`, `GenerateClient` and `Verify` are the
commands spawned afterwards; each may fail, and lint may object to anything. `CheckPasses` is
`check-scaffold.ts` with `scaffoldConsistencyIssues`; `Compiles` is what the type check asks of
packages, files and the generated client. Between runs the developer restores tracked files,
installs by hand, or edits a Compose file or the configuration. `baseline` is the selection the
checkout is committed with: the repository's own, or that of a project made from it. Assumed: the
commands run one at a time in an installed checkout, an installation is whole or leaves
`node_modules` as it was, and nobody edits below a running generator. `applied` and `spoilt`
are histories: who ever wrote here, and whether a file that the generator reads back was damaged.

## 3. Runs

| Run | Question | Instance and why it is enough |
|---|---|---|
| `lifecycle` | Is every shutdown single, honest about its outcome, complete and bounded? | any profile (the other two lifecycle runs: TypeORM); three requests: one through Redis, one through the pool, one through neither; each condition on a request is about one at a time, so one of each kind meets them all |
| `lifecycle_failed_close` | Does a failed close end the process? (no, finding 1) | same |
| `lifecycle_drain` | Do drained requests keep their dependencies? (no, finding 2) | same |
| `health` | Do answers and series rest on evidence from their own check? | one HTTP check, or two scrapes (the least that overlap) with one queue gauge (either gauge fails or delays a scrape in the same way); the three indicators that decide in three different ways; one change from any initial condition |
| `health_redis_disabled` | Is health 200 when all enabled dependencies are well? (no, finding 3) | all five indicators, one check |
| `boot_config` | On what do the two paths of the configuration agree? | every input that varies one topic (switches, origins, connection) with every mode; of origins, lists of one and two entries with a wildcard, blanks, nothing, or no scheme; the topics meet in no expression of the code |
| `boot_flags` | Do flags and ConfigService always agree? (no, finding 4) | the switches |
| `boot_cli` | Do application and CLI always agree? (no, finding 5) | `.env` that names the mode |
| `repository` | Does the adapter implement the port? | two callers, two keys, two emails, one date, every legal table, all kinds of call with every form of condition, three orders (none, descending, ascending after a column without a direction), the first row, the second, and the rest; a race, a duplicate and two pages need two of each. PostgreSQL, MySQL, and MySQL without a count of rows (`MCDrivers`). Callers are symmetric: no definition tells one from another, and no property of this run is a liveness property |
| `job_queue` | Is every accepted message handled or kept, in bounded runs, with keys and counters that agree? | two messages (the least that share a key), two processes, two attempts by default (3 in the adapter) or one, one recovery: a retry, a recovery, a second stall and a late report all occur |
| `pipeline` | Is every request answered once and truthfully, and measured so? | two requests, two clients, one proxy, a limit of one: the second request of a client is refused, one of another client must not be |
| `scaffold` | Does the check accept one selection only, is success whole, and can a run be repeated? | three kinds of committed checkout; two runs (`MaxRuns`: one over the leftovers of another, or a repetition), each with any ORM and two databases that the profile tells apart (PostgreSQL against MySQL) or hardly (MySQL against MariaDB), or with a database nobody knows; one edit (`MaxEdits`), before the last run; restoring and installing at any time |

What the properties say:

- `CloseOnce`, `CleanExitMeansCleanClose`, `FinalLineFlushed`, `PoolOutlivesDrain`,
  `BackstopSparesSettledClose` (safety), `CloseIsBounded`, `CleanShutdownExits` (liveness) of
  the lifecycle. `CleanShutdownExits` is about a server that had been listening: when the
  signal comes while `app.listen` is awaited, `close()` may resolve first and the socket open
  afterwards, with the timer cleared and later signals ignored. It also leaves out the pool whose
  failure to close was only logged (see finding 1); `CleanExitMeansCleanClose` includes it.
- `HealthyMeansEachWasSound` and `UnhealthyHasACause` bound the two answers of `/health` from
  both sides. Of the gauge, `ScrapeShowsOneCheck` says what survives the overlap of scrapes: the
  series of the scrape's own check, or, only where another touched the gauge between its setting
  and its reading, nothing or that other's series, but no mixture; `ExposedValueHasEvidence` adds
  that every value was true at some moment of the checks concerned.
  `ChecksAreIndependent` says whom a check may wait for.
- `QueueHasRedis`, `SpelledFlagsAgree`, `ProductionIsStrict`, `MigrationsFollowTheApp`: what
  remains true of two paths that do not agree in general.
- `OneInsertWins`, `RowsChangeOnlyWhenAsked`, and `ImplementsPort`, the refinement.
  `PagesFitTogether` is what a caller that reads page after page relies on, each page a
  statement of its own: with a unique column in the order, two consecutive pages make up the page
  they cover together, so no row comes twice and none is left out.
- `ImplementsDelivery` (the refinement), `KeyFollowsItsJob`, `CountersBracketTheQueue` and
  `EveryJobSettles` (liveness) of the queue.
- `GaugeCountsTheHandled`, `OneTruthfulResponse`, `SampleShowsTheStatusSent`, `LimitIsPerClient`
  and `EveryRequestEnds` (liveness) of the pipeline. The last two have premises that matter:
  the hop count is the number of proxies, and a handler that fails in the middle of its own
  response leaves it open, because the filter returns without ending it.
- `AcceptedIsOneSelection`, `SuccessIsWhole`, `RetryCompletes` of the generator and its check. The
  first leaves out the four files whose contents nothing looks at (`prisma.config.ts`,
  `schema.prisma`, `drizzle.config.ts`, `schema.ts`); the last has as premises that no file
  the generator edits in place was damaged and that at most TypeORM and the selected profile
  ever wrote files here. Both premises matter, see below.

## 4. Findings

1. A `close()` that rejects leaves the process running (`src/main.ts:110`): the handler clears
   the timer, the server was never closed, later signals return early. In the run, Redis loses its
   connection during `quit()` and comes back. Much the same follows from a `close()` that resolves
   after `@nestjs/typeorm` has only logged that the pool would not close: `then()` clears the timer
   too, and the open connections keep the process (`CleanShutdownExits` leaves this case out).
2. Redis quits before the server has drained (`src/infra/redis/redis.service.ts:94`).
3. With `REDIS_ENABLED=false` health is always 503. `README.md:105,108` and
   `health-metrics.service.ts:101-103` describe a check that leaves Redis out; the end-to-end
   test asserts the 503.
4. A switch nobody sets, or spelled `TRUE`, is off for the flags and on for ConfigService.
5. `NODE_ENV` inside `.env` sends ConfigModule to a mode file that `load-env.ts` and the
   migration CLI did not read.

Seen while modelling, without a run of their own. A scrape can show no health series at all, or
those of another scrape, when `reset()` or `set()` of that one falls into the await between its own
`set()` and the registry's reading; the window is narrow, but the comment at
`health-metrics.service.ts:99` ("항상 최신 데이터", the newest values always) has no exception.
A page with `skip` and no `take`, which `FindCriteria` allows, always fails on MySQL and MariaDB, where
TypeORM refuses an offset without a limit; the model answers it with a plain error. An HttpException after the headers were sent is
neither answered nor logged (`src/common/filters/all-exceptions.filter.ts:23,34`), although the
comment at line 33 says the log has been written. `jobs_failed_total` (help: "Number of BullMQ
jobs that failed") counts failed attempts, three for one job by default. The sample of a
request shows another status than was sent when a value cannot be written as JSON (200 for 500),
when an unexpected error follows a status of 400 or more that the handler set (that status for
500), and after the response has begun; `SampleShowsTheStatusSent` leaves these out. Requests
refused by the throttler or the router have no sample at all, though `metrics.module.ts:16`
speaks of every HTTP request. `DB_SSL_REJECT_UNAUTHORIZED=false` has no
effect in the application, because `buildSslOptions` compares with the text `'false'` and
validation has made it a boolean; the CLI honours it. `MigrationsFollowTheApp` excludes that
case by its premise.

Of the generator: a change away from prisma, mikroorm or drizzle to another ORM, also back to
TypeORM, always ends in a failed check, since it neither removes another profile's files nor
restores TypeORM's. An interrupted
change of database can pass the check and the type check with the `schema.prisma` or
`drizzle.config.ts` of the old database, because the check asks only whether they exist. Outside
the model: it asks for `@nestjs/typeorm` `^11.0.0` where `package.json` has a later major version;
`tsconfig.build.json` takes `src` as the root but inherits the inclusion of `prisma.config.ts` and
`drizzle.config.ts`, so the build of these profiles fails after all checks have passed; and the
prefix pattern of the observability generator never matches a prefix of two words, once one was set.

## 5. Proofs

Every theorem says `Spec => []Inv`, `Spec => [][A]_vars` or `Spec => Abstract!Spec`, for every
value of the constants that satisfies the module's assumption: any number of requests, checks,
jobs, processes, callers, and of changes, crashes and retries.

**ProcessLifecycleProofs.** `TypeCorrect`, `AtMostOneClose`, `CleanExit`, `FinalLine`,
`PoolOutlives`, `BackstopSparesSettled`. From `LifecycleAssumption` (the users of Redis and of
the pool are requests, the profiles are among those named). The invariants are not inductive: that
a clean exit released everything depends on what each phase of `close()` leaves behind. `IInv`
adds where boot and socket can stand together (`BootInv`), one close per signal with the timer
armed exactly meanwhile (`CloseInv`), what each phase has released (`PhaseInv`), where requests
and the log line can be (`RequestInv`) and that a pool of the TypeORM profile closes behind the
drain (`DrainInv`). `NextInv` has one step per action.

**BootConfigProofs.** `QueueAndRedis`, `SpelledFlags`, `StrictProduction`, `MigrationsFollow`,
`TypeCorrect`, for any environment and any contents of the files, not only those TLC enumerates
(`BootAssumption`: they hold a text or nothing under each key). `Computed`
records from what each variable was computed; the theorems then follow from lemmas about the
operators: loading twice is loading once when the mode is stable (`LoadedTwice`), and loading
keeps what is set (`LoadedKeeps`).

**HealthCheckProofs.** `TypeCorrect`, `HealthyIsSound`, `UnhealthyHasCause`,
`ScrapeShowsOne`, `ExposedHasEvidence`, from `HealthAssumption` (indicators are the five keys,
checks and scrapes are different things). A verdict is reached by probes that decide at
different moments, so `IInv` speaks about each: the histories of a check in progress contain the
present (`HistoryInv`), a probe that has decided did so on a condition in them (`TruthInv`), an
answer is the verdict (`AnswerInv`), and what the gauge holds between a scrape's setting and its reading, and what it then
exposes, is that scrape's series unless a crossing scrape is to blame (`GaugeInv`, `ScrapeInv`). The
series of a check do not change once it is set (`SeriesStay`), which is what excludes mixtures.
`UnhealthyHasCause` has the premise that
Redis is enabled or not an indicator, without which it is false (finding 3).

**RequestPipelineProofs.** `TypeCorrect`, `GaugeCounts`, `OneResponse`, `SampleIsTrue`,
`LimitPerClient`, from `PipelineAssumption` (headers and proxies are sequences of addresses, the
limit is positive). `IInv` says, stage by stage, what a request has left in its response
(`Written`) and its sample (`Sampled`). The gauge is a cardinality, so its set must be known to be
finite (`GaugeInv`). `LimitInv` counts what was admitted as the lesser of hits and limit; it needs
that Express's walk along the forwarded addresses ends at the sender whatever the sender wrote
into the header, when it trusts as many hops as there are proxies.

**JobQueueProofs.** `TypeCorrect`, `KeyFollows`, `CountersBracket`, and `Implements`: the
queue implements `JobDelivery`. From `JobQueueAssumption` (the words for nothing are nobody's
name, a job is attempted at least once). `JobInv` accounts for every run of a job: it was reported
as failed, lost its lock, or is the one under way or done. From that the bound of the abstract
specification follows, attempts and recoveries together. `WorkerInv` is about the process whose
lock was taken away: what it reports was run. The counters need a second argument, `CountInv`:
the runs are a disjoint union that each step extends by one or leaves alone, `FiniteInv` keeps the
sets of that union finite.

**TypeOrmRepositoryProofs.** `TypeCorrect`, `OneInserts`, `RowsChange`, from
`RepositoryAssumption` (the forms of a condition, patches without keys, finitely many keys, two
dialects, each with a driver that counts rows or not). A lemma of its own says that the driver
stays what it was (`DriverStays`).
`ToldInv` ties what a caller was told, or is about to be told, to the table: its row is there,
and two callers have two rows; the unique index does the rest. `CallInv` ties what TypeORM holds
to what the caller asked, so that a filter that lost a condition on the way could not change a row.

**RepositoryRefinementProofs.** `Implements`: the adapter implements `RepositoryPort`, step by
step, under the mapping by which the driver's reply is a decided outcome. Lemmas about
operators carry it: filters, orders and pages of TypeORM mean what the port's do (`SameFilter`,
`SameOrder`, and their like for lists and pages; `null` is `IsNull`, an array is an IN that no
NULL satisfies), and what a driver answers means what the caller is told (`AnswersInv`).
`PagesFit`: `PagesInv` keeps every answered page a page of the one table, a strict order arranges
rows in one way only (the least position where two lists differ would have two first rows), and the
two pages of a list make up the list.

**ScaffoldSelectionProofs.** `TypeCorrect`, `AcceptanceMeansOneSelection`,
`SuccessLeavesTheWhole`, `RunsCanBeRepeated`, for any committed selections, any arguments, and any
number of runs, kills, edits and restorations. From `ScaffoldAssumption` (the committed selections
are selections) and `EmptyAssumption` (an empty file is none of the contents). `IInv` is `TypeOK`
and four parts. `TypeOrmInv`: TypeORM's files are never written, and the module that imports them
stands only where all of them are, because they are removed last. `RunInv`: in a run every target
of the selection is written already or still in the list, and so is every removal. `InstallInv`:
what packages and client are once a run has come to them. `HistoryInv`: what `applied` and
`spoilt` tell of the files that exist. What the check accepts is a matter of the tables:
`AcceptedChecks` goes from the dependencies, which name one ORM (`DependenciesTellSelections`),
over the imports, which name one driver, to each file; `WholePasses` is the way back, so that a
repeated run cannot fail its own check. Some of these lemmas are about entries of the code's
tables and would have to be proved anew for another database or ORM.

Only model-checked:

- Liveness: `CloseIsBounded`, `CleanShutdownExits`, `ChecksAreIndependent`, `EveryJobSettles`,
  `EveryRequestEnds`. Fairness is ENABLED in disguise, which this prover does not know.
- Nothing else that a passing run checks.

## 6. Not modelled

Generated and vendored files (`.agents`, dashboards), packaging, the observability generator,
date helpers and dependency-injection tokens have no behaviour of their own. Of the modelled
components: wording of messages, log formats and levels, Swagger, headers; where
NULL stands in an order and what `take: 0` means, on which databases and versions of TypeORM
differ; the validation of keys that no property relates
to another (ports, limits, names); Node's default metrics; route labels; the access log; the
durations of jobs and requests; a Redis client that cannot connect (its error is one of the plain
ones the pipeline answers with 500); the dependency of `BullmqMetricsService` on the metrics
module, which fails at start. Of the consistency check: the specifiers inside the templates, the
migration glob and the built migrations, which are comparisons of text no operation changes.

## 7. Plan

Done: all components above are modelled and checked, and proved as far as safety and refinement
go. Next: route labels (`http-metrics.util.ts`) as a pure function against a reference; the
access log.
