# efmesh in TLA+

Specifications of [efmesh](../src/README.md), a SQL transformation tool in the
manner of sqlmesh, written from its TypeScript source (`src/src`). They say what
the state store, the environment lock, `apply`, `run`, `restate`, `compact`,
`migrate`, `schedule` and the janitor do when they run next to each other, fail
half-way, are killed, or meet a table another of them is about to drop; and
whether what is reported of an environment is true. TLC checks them on small
instances; TLAPS proves the central invariants for all instances.

## 1. The system

efmesh keeps *models* (SQL queries) materialised as tables in a *warehouse*
(DuckDB or Postgres). Every version of a model has a *fingerprint*; its table
("physics") is named by model and fingerprint. An *environment* (`prod`, `dev`)
is a set of rows `model -> fingerprint` and a layer of views over physics, so
several environments share tables and promotion is a change of views. A
time-range model is loaded interval by interval; the *ledger* says which
intervals of a fingerprint are done.

| Component | Source | State | Operations | What must be true |
|---|---|---|---|---|
| state lock | `plan/lock.ts`, `locks` table | `expires_at` of a row, each holder's fence | acquire, read the expiry back, renew on a heartbeat, release | one guarded effect at a time; nobody touches another's lease; a killed holder's lock is reclaimed |
| state store | `state/*.ts` | snapshots, environment rows, ledger, run and plan journals | upsert, promote, conditional delete, mark and clear intervals, migrate | rows point to versions that exist; the ttl protects what was served |
| planner | `plan/planner.ts`, `categorize.ts`, `fingerprint.ts` | none (reads the store) | compare fingerprints, categorise, choose physics and backfill | reuse only what is equivalent; backfill exactly what is missing |
| executor | `plan/executor.ts` | physics, views, ledger | build in the order of the DAG, batches, audits, views, promote | a done interval is complete; what is served is complete; every apply ends |
| janitor | `plan/janitor.ts` | its claims | list, claim, survey, drop | nothing in use is dropped |
| scheduled run | `plan/run.ts` | run journal | one tick: plan, refuse changes, apply | later ticks make up for failed ones |
| restate | `plan/restate.ts` | ledger | clear a range of a model and its descendants | clears what the environment serves |
| compaction | `plan/compact.ts` | parquet files | snapshot, merge, rename, delete | rows neither lost nor doubled |
| passport, manifest | `plan/passport.ts`, `manifest.ts` | files | publish what the ledger says | never claims more than the ledger |
| intervals, model graph | `core/interval.ts`, `core/graph.ts` | pure | enumerate, merge, split; order, descendants | partition of the range; parents first |
| store layout | `state/sqlite.ts`, `state/postgres.ts` | tables, columns, the stamp in `meta` | create, open, migrate, back up | what has been opened has all its version works with |
| project | `core/model.ts`, `plan/redact.ts`, `contract.ts` | declarations | define, order, redact, check a contract | what is accepted can be built; redacted columns are not served |
| reconciled models | `plan/executor.ts` (unique key, SCD2) | their tables | upsert; close and open versions | one row a key; one version a time |
| checks and reports | `core/audit.ts`, `plan/diff.ts`, `lineage.ts`, `status.ts` | none | audit, compare, trace, report | what they say is so |
| schedule | `plan/schedule.ts` | worker files, crontab entries | register, remove | an entry has its worker |
| engines | `engine/*.ts` | connections | execute, transaction | atomic batches |
| the rest | CLI, config, discovery, metrics, observability, browser | none of the warehouse | arguments, text | - |

They meet in four places: the lock row (any two processes), the store (apply,
run, janitor, restate of every environment), the physics (an apply builds what
another environment may reuse and the janitor may drop), and the views (swapped
by apply, in a database the store does not share a transaction with). `apply`
and `run` of one environment hold that environment's lock from planning to
promotion, the janitor holds a lock of its own, so that what overlaps is applies
to *different* environments, and the janitor with all of them.

The hard behaviours are those of `PROJECT.json`'s hazards: stalled and killed
lock holders, a claim against a revival, failure between any two of a dozen
statements of a build, physics shared by versions and environments, fibers that
wait for each other on a bounded number of slots, statements that outlive
the fiber that sent them, a range restated while a tick loads it, a writer that
appends to a partition being merged, and processes of two versions that open one
store.

## 2. The modules

| Module | What it is |
|---|---|
| `StateLock` | `withStateLock` and the four store methods it calls |
| `StateLockProofs` | the lock's invariants |
| `StateStore` | versions, environments, ledger: an operator per store method, and `StoreSpec`, in which anybody calls any of them at any time |
| `Catalog` | what a warehouse promises: environments serve whole versions, replaced at once, and what was served stays whole for a ttl |
| `Warehouse` | apply, for any number of environments, and the janitor, on one store and one engine; extends `StateStore`, shown to implement `Catalog` |
| `WarehouseProofs` | the store's invariants; those invariants carried over to apply and janitor; tables, ledger and views agree; `Catalog` is implemented |
| `Executor` | how one environment's applies and ticks schedule, load, retry and fail |
| `ExecutorProofs` | done intervals are complete; rows are loaded once |
| `Planner` | categories of changes, their cascade, and whose physics a new version takes |
| `PlannerProofs` | what an environment serves is what its versions compute; one algorithm; who is spared |
| `Intervals` | enumeration, missing intervals, merging and splitting |
| `Ticks` | one environment over time: ticks, restates, audits, exports, and the passport, manifests and lag they leave; extends `Intervals` |
| `TicksProofs` | the batches of a plan are a partition of what it found missing; what consumers are told is so: the invariant of `Ticks` |
| `Compaction` | compactors and the writer of one partition |
| `CompactionProofs` | compaction loses nothing and doubles nothing |
| `Migration` | opening and migrating the store |
| `Project` | declarations, graph, redaction, contract, and the commands over them |
| `ProjectProofs` | what the graph refuses and how it orders; what is accepted is built; what a redacted environment's tables have |
| `SampleProject` | declarations for the instances of `Project` and `Reports` |
| `Rows` | what audits and the data diff say of a bag of rows |
| `Refresh` | reconciliations of unique-key and SCD2 models; extends `Rows` |
| `Reports` | passports, diffs of environments, the reach of a restate, lineage |
| `Schedule` | registering and removing schedules |
| `Journal` | ticks, their records, the health check |
| `MCStateLock`, `MCWarehouse`, `MCExecutor`, `MCPlanner`, `MCTicks` | constants and symmetry for TLC |
| `MCCommands` | one instance each of `Compaction`, `Migration`, `Project`, `Refresh`, `Reports`, `Schedule` and `Journal`: a behaviour is of one of them |
| `CommandsProofs` | the invariants of `Migration`, `Refresh`, `Schedule` and `Journal`, and the counts of the audits and the data diff, as they are instantiated in `MCCommands` |

`Warehouse` looks at what applies do to what they share and takes the builds of
one apply as independent of each other. `Executor` looks inside one apply: which
model may start when, with which batches, and what a failure leaves. They divide
`executor.ts` between them. `Planner` says what both take from the plan as given:
which versions may share physics, over any sequence of applies and sweeps.
`Ticks` says of one environment what `Executor` leaves out: audits that run after
the rows are in place, restates, and what consumers are told.

### StateLock

`row` is the `expires_at` column, `fence[p]` the variable of that name in
`withStateLock`, `pc` where each process stands in it. `Acquire` is the DELETE of
expired rows and the INSERT (one store call); `Seed` is the separate
`lockExpiry` call; `Renew` and `BeatFails` are the two ends of a heartbeat;
`EffectEnds`, `Release` and `ReleaseFails` are `raceFirst` and `ensuring`.
`owner` is not in the code: it is who inserted the row, which no code knows, and
what `FenceExact` compares fences with. Time is explicit. A stamp may be `Skew`
off the real time; `SeedDelay` and `BeatDelay` bound how late the two scheduled
steps land. A large delay is a process that stalls.

### StateStore and Warehouse

`snap`, `rows` and `done` are the tables `snapshots`, `environments` and
`intervals`. Timestamps are reduced to what the janitor asks of them: older than
its ttl or not. `recent` is history: what was served since the last ttl began.

`job[e]` is an apply to environment `e`: `Plan` (planner), then per model
`Inherit`, `CreateEmpty` or `CreateFull`, `Register`, `Load`, `Settle`,
`BatchFails` (executor stage 1), `SwapView` (stage 2), `PromoteEnv` or, under
READ COMMITTED, `CheckAlive` and `CommitPromote` (stage 4). `ApplyEnds` stops it
at a stage listed in `FailAt`, or where the next statement cannot succeed
(`Refused`). `jan` is the janitor: `JanitorLists`, one `JanitorClaims` or
`JanitorLosesClaim` per doomed version, `JanitorSurveys`, `JanitorDrops`,
`JanitorEnds`. `table` and `view` are the engine. A project is a function from
models to fingerprints; that a fingerprint does not depend on the name of the
model is kept (`fingerprint.ts:161-170`). Which models may reuse physics is the
constant `Reuse`, in place of the planner's categories. `CommitPromote` writes rows
and orphan marks in one step, so that promotions of two environments come one
after the other; on Postgres they may overlap and miss a mark (section 6).

`Catalog` is the same warehouse without tables, ledger, marks or plans. An
environment's `served` are the versions its rows name (`ServedFrom`); a version
is `whole` if it is recorded and its table holds every interval (`Whole`), whichever
version wrote the table. `Publish` is a promotion, all at once and of whole versions
only; `Build` whatever apply does to tables and records before; `Collect` the
janitor's claim.

### Executor

`fiber[m]` is the fiber of `runOne`, `batch[m, i]` what `backfillIntoTable` has
done with a batch of one interval, `open` the transactions in the database:
`Write` is what they see when they begin, `Commit` what they leave. `rows` holds
an identity per load, so that a second copy of an interval is visible, and
`whole` whether a load read complete parents. When a fiber fails, `Effect.forEach`
interrupts its siblings; on Postgres the promise of `sql.begin` is not cancelled
with its fiber, so the transaction stays in `open` without owner and ends when it
likes (`OrphanEnds`), possibly under the next apply. DuckDB's transaction rolls
back on interruption, and a single connection means one fiber and one batch.

### Planner

A step is a whole plan and its apply, or one version swept by the janitor.
`PlanChanges` follows the loop over `graph.order`: a recursive function over the
models gives each the action `planChanges` pushes, from the actions of its
parents (`changeOf`, `reusedPhysics`), the environment's rows (`current`) and the
snapshots. A fingerprint is the record that is hashed (`modelFingerprint`). An
AST is what the categorization tells apart: the top SELECT list and the rest of the
tree; an item of the list and a rest each mention columns of the parents
(`Reads`), at which the categorization does not look. `Listed` are the rests beside which
`topSelect` finds a list. It looks where DuckDB's canon of a plain SELECT has one
(`categorize.ts:14-27`), so that a set operation has none, and no query on Postgres,
whose canon is another tree (`engine/postgres.ts:38-49`). Without a list every
edit is breaking, and an override is not refused for dropping columns. The data of a table is a term that
says what it was computed from, so that data is the same when the terms are
equal: a column depends on its expression, on the rows the rest selects, and on
the columns read of each parent. `Built` is `buildOne` per kind: inherited
physics is not written, unique-key models are written in every apply, a view
keeps the tables it was created over; what is read are the tables of some version
(`Live`). `kept` is not in the code: it remembers
the models downstream of a forward-only flag, whose history is old on purpose.
An operator's override is taken to be true (`Truthful`).

### Ticks

Two time-range tables of different grains, one under the other, and a full model
on top. `op` is the run or apply that holds the environment's lock; it plans
(`Start`), writes a batch (`Write`), audits its intervals and marks them
(`MarkDone`) or fails and marks them so, publishes the manifest (`Built`), audits
the whole relation (`WholeAudits`), refreshes the export (`Export`) and promotes.
`restating` is a restate that has read what it will clear; reading and clearing
are two actions, and the ticks between them go on, because only the second is
under the lock. The rows of an interval are `ok`, `bad` (an interval audit refuses them) or
`dup` (only the audit of the whole does), with a flag that says whether all they
read was there. `Through` and `EffectiveThrough` are the passport's
`contiguousThrough`, of a model and through its ancestors. `caught`, `stale` and
`lapsed` are history.

### Compaction

A file is a batch of one row; `snap[c]`, `tmp[c]` and `left[c]` are the
listing of compactor `c`, the file it merged and what it has still to remove.
The writer (`Land`) appends whenever it likes. The command takes the janitor's
lease (`Lease`), `compact` called from a program does not.

### Migration

A store is the set of its tables and columns and the stamps of its `meta` table.
`Script` is what opening a new store or `migrate` executes: statement by
statement on SQLite, where a statement may find the database locked and an
`ALTER` that does is passed over, in transactions on Postgres. `file` is what is
in the main file of SQLite: the rest is in the log of an open or killed process,
and the backup copies the file.

### Project and Reports

A model is its kind, columns, dependencies and policies; `Accepted` is what
`defineModel` and its fellows check. `Draining` is Kahn's algorithm, step by step, `Drained`
the order it leaves. `RedactModel` is
`redactModel`, `Contract` the comparison of declared and returned columns, and
`BuildOne` names the columns that each kind's statements mention and that have to
exist. `Apply`, `Run` and `AuditRun` take a project to an environment; of a table
only the columns are kept. `widened` is history: the physics of redacted versions that
a forward-only version has added columns to. `Reports` evaluates what reads and does not write:
`passportsOver` in the graph's order, `diffEnvironments`,
`transitiveDependents` for restate, the trace of columns.

### Refresh and Rows

A reconciliation is a transaction of two statements, each evaluating the query.
On DuckDB it is one step; on Postgres each statement sees what was committed
when it began, so two of them, or a query whose result changes, interleave.
`latest` and `seen` are history: what the query returned last, and at each time.
`Rows` has the audits `not_null`, `unique` and `contiguous` and the outer join of
`diff --data`, on bags with NULL.

### Schedule and Journal

`worker` and `entry` are written one after the other, and removed in the opposite
order; a title is a sequence of words, so that `/a/my-shop` and `/b/my.shop` have one
title. In `Journal` a tick takes the lock or is refused, ends
with an outcome, gives the lock back and then records; it may be interrupted,
killed or unable to record.

## 3. The runs

| Run | Checks | Instance |
|---|---|---|
| `lock_timely` | `Exclusion` | 3 processes, one may be killed, ttl 4, clock to 9 (two leases and more) |
| `lock_stalls` | `FenceExact`, `CrashedLockReclaimed` | 2 processes, skew 1, heartbeats stall up to 9 |
| `warehouse_overlap` | `TypeOK`, `RowsAlive`, `RollbackWindow` | 2 environments, 2 versions of a full model with reuse, janitor at any moment, stops anywhere, serial store |
| `warehouse_quiet` | `ViewsFollowRows`, `ViewsResolve` | 2 environments, 2 versions of a time-range model, 2 intervals, stops at each stage of a build, READ COMMITTED, janitor between applies |
| `warehouse_reuse` | `LedgerBacked`, `ServedComplete`, `PhysicsKept`, refinement of `Catalog` (`KeepsCatalog`) | 1 environment, a time-range model with 3 fingerprints that reuse physics, beside a full model |
| `executor_chain` | `DoneIsComplete`, `LoadedOnce`, `ApplyEnds`, `CatchesUp` | 2 tables and a view, 2 fibers, 2 batches at once, a retry, a lookback, 2 intervals, one failed or killed apply, ticks without end |
| `planner_edits` | `Coherent`, `OneAlgorithm`, `Isolated`, `AppendsSpareOthers` | 2 environments, 6 models (time-range over time-range, unique key, view, full behind the view, seed), 6 projects, 2 fingerprint algorithms, forward-only flag, override, 3 applies, sweeps at any point |
| `ticks_faults` | `DoneIsAudited`, `RestateTakesEffect`, `PassportHonest`, `ExportVerified`, `ManifestsFollow`, `OkMeansCaughtUp` | 4 hours, 2 days of 2 hours, batches of 2, lookback 0 or 1, restates of either day or both, 2 faults: bad rows, failed calls, kills |
| `commands`, compaction | `NothingLost`, `ReadOnce` | 3 batches, 2 of one key, 2 compactors, 2 kills, 4 policies |
| `commands`, migration | `OpenedIsComplete`, `MigrateRepairs`, `BackupIsTheStore` | 2 processes, binaries of versions 4 and 5, no store or an old one, both dialects, 3 commands, one kill |
| `commands`, project | `OrderExact`, `HonestBuilds`, `NeverWritten` | 3 models of every kind, a plain and a redacted environment, one edit, 2 commands |
| `commands`, refresh | `Reconciled`, `ClosedStays`, `ChecksExact` | 2 environments at one version or two, 3 keys and NULL, 3 results of the query, both kinds and dialects |
| `commands`, reports | `ReportsExact` | 4 models in 5 projects, 2 environments, one edit, 2 loads |
| `commands`, schedule and journal | `ScheduleKept` | 3 projects in 2 environments, the titles of 2 projects the same, 4 commands, one kill; 2 processes, 4 ticks or applies, one fault |
| `warehouse_forward_only` | `ServedComplete`, violated | a forward-only apply that fails before it registers |
| `executor_through_view` | `DoneIsComplete`, violated | a table that reads another through an unchanged view |
| `planner_two_edits` | `Coherent`, violated | 3 models in a row: the first edited, a column appended to the second |

**Why the bounds are enough.** The lock has one row and every step concerns one
process and the row, so a conflict needs a holder, a reclaimer and, for release
against renewal, a third. Versions interact through one reference and one mark:
two versions and two environments give a version that is served, orphaned,
revived and claimed in every order, and the third fingerprint a chain of reuse.
Two intervals are the least with a backfill that is half done. In `Executor` two
slots and two tables in a row are the least in which a child can take a slot
from its parent; one failure is enough to leave an orphan, a `failed` mark and
an unfinished interval at once. In `Planner` three
applies are a first version, a change of it and a second change or a way back,
in either environment; the six projects have each kind of edit (appended,
edited, rewritten with the same meaning as a set operation, appended to that, metadata,
seed file, model left out), and the appended column reads one of a parent that nothing
else of the model reads.
In `Ticks` four hours and two
days are the least with a finished and an unfinished interval of the coarser
grain, a batch that is not the last, and a gap; one fault leaves a failed or
bad interval and the second meets it. Two compactors and two kills give a kill
while the files of an earlier kill are still there. Three commands on a store
are a create or open, an upgrade and somebody at the same time. Four models give
a diamond and a full model between two time-range ones.
Bounds that exist for TLC alone are constants: `MaxTime`, `MaxCrashes`,
`MaxInterval`, `MaxFaults`, `MaxApplies`, `MaxEdits`, `MaxCommands`, `MaxLoads`,
`MaxOps`, `MaxKills`, and in `MCCommands`, which names them by part, `MaxMigrates`,
`MaxProjectEdits`, `MaxProjectCommands`, `MaxResults`, `MaxSchedules`, `MaxScheduleKills`, `MaxTicks`. What `MCCommands` is about (processes,
versions, environments, keys, rows the query returns, directories) are constants
too, given values in each cfg, as are the names, environments and declarations of
`Project`; the declarations are those of `SampleProject`, to which the instance of
`Reports` is fixed. The symmetry of
`MCWarehouse` permutes fingerprints and environments in two of its
safety runs, where all are interchangeable (`warehouse_reuse`, which checks the
refinement, has none); that of `MCCommands` the two
processes of the parts that have them, which are interchangeable too.
`CHECK_DEADLOCK FALSE` is set where the bounds on commands end a behaviour.

**Why some instances are narrower.** `warehouse_quiet` and `warehouse_reuse` do
not let the janitor overlap an apply: with overlap `ViewsResolve` and
`PhysicsKept` are false (a view is switched to physics whose claim is under way, `executor.ts:927`). `warehouse_quiet` does
not stop an apply between its first view and its promotion: views then run ahead
of rows until the next apply, which the code accepts by doing the two in two
databases. `warehouse_reuse` has one environment: when two plan the same new
version and only one reuses older physics for it, one ledger describes two
tables. And `warehouse_forward_only` is what a failing build adds to it. Each of
these is a hazard of `PROJECT.json`, at its line.

`planner_edits` has no project that appends columns to a model under an edited
one (that is `planner_two_edits`), none with SELECT DISTINCT, where an appended
column changes the rows (`DistinctEdits` of `MCPlanner` violates `Coherent`), and
`Coherent` excepts what a forward-only flag ever touched: a column appended to
such a model replays its history and leaves its full children on the old one.

**Fairness.** `StateLock`: a live process goes on (an event loop), time passes,
and a command that was refused is tried again (cron, or the daemon of `run.ts`);
nothing is assumed of a killed process. `Executor`: a fiber that can run does and
a statement the database has taken ends (`Progress`); ticks keep coming
(`Start`). No failure is assumed to happen or not to happen, except that
`MaxFaults` bounds how many applies fail, without which nothing would ever have
to be loaded. The other modules claim no liveness: the conflicts of the store,
of files and of reports are safety questions, and an apply that always fails is
an operator's case.

**What the new properties leave out**, each in its comment: a kill during the
reload of a lookback leaves an interval done while its rows are not audited
(`DoneIsAudited`, `ExportVerified`); a passport counts from the first done interval
(`PassportHonest`); a merge without a key after a kill doubles rows (`ReadOnce`);
`Reconciled` is about one connection and rows with a key; `HonestBuilds` about
policies that leave keys and time columns alone; `NeverWritten` about physics that no
later forward-only version of the model has added a column to; `ReportsExact` about an
environment that serves what the working copy declares; `ScheduleKept` about
titles that differ, commands that do not cross and ticks that are recorded in
order. What happens beyond is in section 6.

## 4. What is proved

For every value of the constants, under the named assumptions on them
(`LockAssumption`, `StoreAssumption`, `WarehouseAssumption`, `ExecutorAssumption`,
`PlannerAssumption`, `CompactionAssumption`, `TicksAssumption`, `CommandsAssumption`, which
joins those of the parts of `MCCommands`, and `NoneAssumption`
of `Warehouse` and `Planner`: the value that stands for nothing is no version),
which TLC evaluates on each instance:

- **The lock** (`StateLockProofs`). `FenceIsExact` assumes `SeededInTime`, that
  the expiry is read back before the lease can look expired; heartbeats may
  stall for ever. `Excludes` assumes `Timely`: seeding, one
  heartbeat interval, its delay and twice the skew fit in the ttl. `FenceExact`
  alone is not inductive. The invariant adds where each lease stands in time: a
  process that uses its fence either holds the row with it or has a fence too
  old to be written again, and a process that has acquired and not yet seeded
  still has its row. `Exclusion` needs besides that a working process has a
  lease that no stamp reaches. Both assumptions are necessary: without the first a
  stall of a ttl between the insertion and the reading back of the expiry
  (`lock.ts:72`) adopts the lease of another.
- **The store** (`WarehouseProofs`). `RowsStayAlive` and `RollbackStaysPossible`
  of `StoreSpec`, in which methods are called in any order. The invariant adds
  to `RowsAlive` that a referenced version carries no orphan mark (`MarksClear`)
  and that a version served within the ttl is referenced or has a young mark
  (`RecentSpared`): that is why the claim of the janitor, which wants an old
  mark, cannot take it.
- **Apply and janitor** (`WarehouseProofs`). Each of their steps calls a method of the
  store or leaves it alone (the lemma `UsesStore`), so that what is proved of the store
  carries over. `WarehouseRowsAlive` assumes `Fenced`: the store is
  serial, or the janitor does not run beside applies. Under READ COMMITTED with both,
  `Warehouse_read_committed` is the counterexample. `WarehouseRollback` assumes that the
  store is serial: promotions that overlap on Postgres may miss an orphan mark
  (section 6), which `CommitPromote` does not have.

  What tables, ledger and views have to do with each other rests on two
  invariants. `DataInv` says of each recorded version that its physics is
  there with every interval marked done; of each plan under way that what it read
  and built is still so, action by action; of each row that its version is
  complete; of the janitor that what it is about to drop is used by no record.
  None of the five properties is inductive without what is said of plans under
  way. `WarehouseLedgerBacked`, `WarehousePhysicsKept` and
  `WarehouseServedComplete` follow, for any models, versions, environments,
  intervals and dialects, if `Undisturbed`: the janitor runs between applies, two
  models never share a fingerprint (`OneName`; else `Warehouse_rename`), and
  versions reuse physics only where one environment, on DuckDB, does it and does
  not fail between inheriting marks and registering (`Solo`; else
  `Warehouse_forward_only`, and the hazard at `planner.ts:382`). Without reuse any
  number of environments may build one version at once and fail at any stage.
  `LayerInv` adds what each view reads while its apply goes on, and gives
  `WarehouseViewsFollowRows` and `WarehouseViewsResolve` if no apply stops between
  its first view and its promotion (`Switching`). TLC finds a violation when
  any of these conditions is dropped; `warehouse_quiet` and `warehouse_reuse`
  satisfy them.

  `WarehouseKeepsCatalog` is that apply and janitor implement `Catalog`, if
  `Undisturbed` and the store is serial. `DataInv` and `RecentSpared` meet in it. Before its promotion
  an apply only adds to tables and records, so that no version stops being whole
  (`ApplyGrows`); a promotion is of versions whose plans are built, which `DataInv` says
  are complete; the janitor claims no version that `RecentSpared` keeps for rolling back,
  and the tables it drops no record uses. `WarehouseAvailable` follows: all that was
  served since the last ttl began is not only in the store, as `RollbackWindow` says, but
  can be read in full.
- **The executor** (`ExecutorProofs`). `DoneComplete` for projects whose tables
  read tables. The invariant says of each load that it was complete, of each
  mark and batch that its rows are there, of each open transaction someone
  awaits that it is the only one of a batch being written, of a building fiber
  that its parents' fibers are over, and of a plan that what a table is to load
  its parents have or are to load. The last is why the guard on gates suffices,
  and it is what a view in between breaks. `LoadsOnce` holds for all projects:
  until an orphan is overlapped, the only transaction open on a place has seen,
  and will delete, all the place holds.
- **Compaction** (`CompactionProofs`). `LosesNothing` for any batches, keys,
  compactors and kills, if the compactors take the lease and the name of the
  merged file is one readers see (`Seen`; a declaration may name another,
  `model.ts` does not ask). What makes it inductive is what a compactor owes at
  each step: what it listed stays until the merged file holds it, and what it
  removes is in the file it published (`Promise`), by one compactor at a time
  (`Alone`). `ReadsOnce`, under the same conditions, needs to know where a row may
  be besides the merged file: the files of a partition overlap only in what
  the compactor at work has listed (`Apart`), and what a kill has left is marked by
  `killed`, so that the merged file has each row once (`Written`).
- **The planner** (`PlannerProofs`), for any acyclic models, projects, environments,
  chains of applies and sweeps. Its recursive functions (fingerprints, actions, what
  reading gives) are shown to exist and to be unique by minimal models instead of
  induction: `PlannerAssumption` says that among any models there is one that
  reads none of them, and a set of counterexamples has such a one.
  `OneAlgorithmKept` needs the books only (`Books`: a record is of a version of one
  algorithm, so is its physics, and the versions it reads are recorded too) and
  holds whatever is planned, as does `PlannerTypeCorrect`. `AppendsSpare` assumes
  that no override says "breaking", which would rebuild the children it is meant to; it is
  about edits of queries that have a list in the canon (`InLists`, part of the property), and of any number of models at
  once, whatever the appended columns read of the parents.
  `PlannerCoherent` and `PlannerIsolated` compare every table with the `Ideal`, what
  its version computes from scratch through all it reads. The invariant `PInv` says
  that a version's physics holds its ideal, whichever version wrote it (`Holds`),
  and that views are over the physics of the versions they were planned on
  (`Over`); outside `kept`, that is. The step that reuses physics is right because a
  parent that keeps its data gives each reader what it gave (`Spared`), and that
  depends on what the plan takes for granted when it calls an edit non-breaking.
  It is stated as `Lasting`, and the theorems assume that every apply is so
  (`Careful`): the model's metadata did not change in the same edit, it does not
  select distinct rows, its own parents keep their data, and no query that read it
  mentions a column it gains. The code looks at none of the four (`planner.ts:275`,
  `categorize.ts:12`), and TLC violates `Coherent` without any of them: the second is
  `DistinctEdits`, the third `planner_two_edits`. All applies of `planner_edits`
  are `Careful`. `ColumnsApart` says that a SELECT list names a column once.
- **Intervals** (`TicksProofs`). `BatchesPartition`: merging what is
  missing and splitting it again loses no interval and gives none to two batches.
  A merged run is the set of intervals it was made of (`RunsApart`: two runs do
  not touch), a batch a piece of one run.
- **Ticks** (`TicksProofs`). All six properties of `ticks_faults`, for any grains,
  batch size, lookback, ranges and number of faults. None is inductive. The
  invariant says that what is not done by the operation's time is still in one of
  its batches (`Progress`, which rests on `BatchesPartition`), so that a child is
  written only when all it reads is done; that what is done has rows, computed
  from complete parents since the last restate (`DoneLoaded`); that without a
  lookback no done interval is loaded twice (`Once`); and what the audits have
  seen of the operation (`Audits`, `Clean`). `RestatesTakeEffect` and
  `PassportsHonest` assume `WholeIntervals`, that restated ranges begin where an
  interval of the coarser table does: `Ticks_part_of_a_day` violates the first
  without it.
- **Migration** (`CommandsProofs`). `StoresComplete`, `MigratesRepair` and
  `BackupsHold`, for any binaries, stores, processes, kills and both dialects. The
  invariant `MInv` follows the script: whoever is at a statement has had all
  before it made (`ScriptMade`), as parts are only ever added; so a stamp, which
  comes last, is true of the store (`StampsTrue`), and who reads it may trust
  it. Once an error was swallowed only a migrate
  that is alone makes all of its script, as `Commands_columns` shows. A migrate is alone from its
  start until anybody connects (`AloneAlone`): with nobody to set a stamp after its DELETE,
  one is left (`AloneDone`), and if nobody was killed the file it copies is the store
  (`FileFollows`).
- **Refresh** (`CommandsProofs`). `TablesReconciled`: on one connection a unique-key table
  holds just the last value of each key, once, and an SCD2 table returns, as of
  every time it was reconciled at, what the query returned then. The invariant `RInv` says it of
  the times to come as well (`AsOfAlways`), which is what makes it inductive: no row is from after
  the clock (`Behind`), so that a reconciliation at a time changes what is valid
  from that time on and nothing before. `HistoryStays` is an action property and
  needs no single connection: an UPDATE takes open rows only (`OutOpen`), through
  all interleavings of Postgres.
- **Audits and data diff** (`CommandsProofs`). `ChecksAreExact`, of every table that `RInv`
  allows, however many copies of a row two applies on Postgres have left in it. What the
  checks count are sums over a set, one member chosen after another. That
  such a sum exists and is the same in every order (`ChosenExists`, `SumsAdd`) is shown
  by the least size of a set at which it would not be. A table of positive counts then has as
  many rows as keys just when each row is there once and each key is in one row
  (`CountIsOnce`), which is also when `unique` is silent (`UniqueIsOnce`). The holes between
  neighbouring values fill what is between the least and the greatest (`HolesFill`, by
  the greatest value taken away), and between no two neighbours is a hole just when there is
  no gap (`NoHoles`), for values and for buckets of them. Rows that match
  are one of each key in both (`PairCounts`). The proof needs that a query returns finitely
  many keys, which `RefreshAssumption` states.
- **Schedule and Journal** (`CommandsProofs`). `SchedulesKept`. Two commands about one
  target at once are `overlapped` (`OneEach`); any other finds its worker between its two
  halves (`HalfWay`). An outcome has ended as often as it is recorded
  or waits to be (`Balanced`), and when ticks do not cross, at most one waits and it
  is the last (`InOrder`).
- **Project** (`ProjectProofs`), for any models, declarations, environments, edits and
  commands. `ProjectAssumption` asks of a declaration the fields that its kind has, that it
  returns a column and is not redacted yet, nothing of what it says: accepted or not,
  honest or not. `OrderIsExact` needs no invariant of the commands but one of the queue (`Kahn`):
  order and queue are apart and together are the models whose parents are all
  in the order, so that it stops short only in front of a set in which everyone has a
  parent, which is a cycle. `HonestIsBuilt` and `RedactedIsSpared` are about chains of
  commands, and neither is inductive: a build reads and extends what earlier builds, of other
  projects and environments, some of them failed, have left, and an audit passes because
  of the last apply. The invariant `PrjInv` keeps books of it (`Books`): a recorded version
  has physics, with all the columns it fills, and so does every version that shares it
  (`Recorded`); physics that no record names, of a build whose audits failed, has no others
  than its own version fills (`Left`); nor has the physics of a redacted version, until it is
  widened (`Spared`). What an environment serves is the versions of the
  project it was applied with, each recorded (`ServedAll`). A command keeps the books
  model by model (`BuiltStep`). The recursive functions (the queue, the versions, the
  build) are shown to exist and to be unique by the least number at which they would not be, as
  `Nat` is well-founded.

The proofs of the last five are about the instances in `MCCommands`, so that a theorem is about the
formula that `commands` checks; as the parts share no variable, a step of one leaves the
invariants of the others (`PartSteps`).

**Model-checked only.** The liveness properties (`CrashedLockReclaimed`,
`ApplyEnds`, `CatchesUp`) are out of the prover's reach. Of the `commands` run one
invariant stays with TLC: `ReportsExact`, whose passports and lineage are folds over
sequences of models. What a fold computes is an induction over the sequence, and the
library's theorems on it take an operator as a parameter.

## 5. What the violated runs show

- `warehouse_forward_only`: inherited marks are written before the version is
  registered; after a failure in between the regular apply finds a full ledger
  and serves an empty table (`executor.ts:781`).
- `executor_through_view`: a gate is awaited on direct parents only. An unchanged
  view has none, so behind it a tick loads an interval before the upstream one is
  there, marks it done, and never reads it again (`executor.ts:858`).
- `planner_two_edits`: a category says what a model's own edit did, not what its
  parents did. A model with an appended column under an edited parent is
  "non-breaking" and rebuilt with other data; its child inherits the old physics
  (`planner.ts:390`).

## 6. Further configurations

Configurations that TLC finds violated too, kept beside the runs. Each shows a
behaviour a property of section 3 had to leave out.

| Configuration | Violates | What happens |
|---|---|---|
| `Warehouse_rename` | `LedgerBacked` | fingerprints carry no name, tables do: a renamed time-range model is promoted empty (`fingerprint.ts:161`) |
| `Warehouse_read_committed` | `RowsAlive` | on Postgres a claim and a promotion can both commit (`postgres.ts:288`, against `store.ts:140-143`) |
| `Ticks_whole_audit` | `ServedIsAudited` | an audit of the whole fails after the batches are marked; the next tick builds nothing, skips it and promotes (`executor.ts:902`) |
| `Ticks_coverage` | `ContiguousFromStart` | a gap at the start is not seen: the passport counts from the first done interval (`passport.ts:72`, against `:38`) |
| `Ticks_part_of_a_day` | `RestateTakesEffect` | a restated range that begins inside an interval of a coarser child does not clear it (`restate.ts:182`) |
| `Commands_concatenation` | `ConcatenationIsExact` | after a kill the files not yet removed are merged once more (`model.ts:108-109`) |
| `Commands_columns` | `OnlyExistingColumnsFail` | an `ALTER` that finds the database locked is taken for a column that exists (`sqlite.ts:104-108`) |
| `Commands_backup` | `BackupAlways` | the backup misses what is in the log of a killed process (`sqlite.ts:130`) |
| `Commands_policy` | `PolicyBuilds` | an accepted policy redacts a key or time column, or an audit whose name does not mention its column: the build fails (`redact.ts:50-64`) |
| `Commands_redacted_ticks` | `RunFollowsApplyEverywhere` | a tick of a redacted environment plans on the unredacted project: always left to a person (`run.ts:112`) |
| `Commands_widened` | `DifferentPhysics` | the column is added and redacted in one edit, applied forward-only: the redacted environment keeps the old table, and the forward-only apply of a plain one adds the column to it (`executor.ts:259`, against `redact.ts:13-17`) |
| `Commands_read_committed` | `KeyOnce` | two reconciliations of one table both insert a key (`executor.ts:639-642`) |
| `Commands_served_passport` | `PassportsOfServed` | after an edit the passport follows the graph of the working copy (`passport.ts:258`, against `:248`) |
| `Commands_titles` | `RegisteredStays` | two targets of one title overwrite each other's entry (`schedule.ts:38`) |
| `Commands_alerts` | `AlertsOnLastTick` | a refused tick recorded after an error hides it from `status --check` (`status.ts:38`) |

`planner_edits` is violated as well when it checks `AnyAppendSparesOthers` in place of
`AppendsSpareOthers`: it has a set operation, whose canon has no list, so that a
column appended to it rebuilds all that reads it (`categorize.ts:21`, against `SPEC.md:383`);
with `Listed = {}`, which is Postgres, every append does.

Met while modelling and in no configuration: two environments that leave one version in
promotions that overlap on Postgres each still read the other's row, and the
version gets no orphan mark: its ttl counts from its creation (`postgres.ts:312`); a NULL key is inserted in every
reconciliation and never deleted (`executor.ts:640`); two commands that register
and remove one target at once leave an entry without a worker; the data diff of
an SCD2 model joins versions of one key with each other (`diff.ts:117-123`); a
janitor that stops after a claim, or an apply before it registers, leaves a table
no row names (`janitor.ts:124`, `executor.ts:742`), and so do two claimed models of
one body (`janitor.ts:123`); the views of environment `a__b` and schema `c`
have the names of those of environment `a` and schema `b__c` (`naming.ts:30`).

## 7. What is not modelled, and what could follow

- `Ticks` has one project: an apply that promotes another version between the two
  halves of a restate is not there. `Compaction` has one partition, `Journal` no
  lost leases.
- Embedded models appear in `Project` and, as far as gates go, in `Executor`;
  parquet targets in `Project` only; DuckLake and object stores not at all: they
  add drops and renames of the same kind through clients that are I/O.
- Promotions that overlap on Postgres: in `Warehouse` one follows the other.
- Batches are one interval wide in `Executor` and `Warehouse`.
- The plan journal and the canonicalization cache: nothing decides by the first,
  and the second is a memo of a pure function.
- `window-risk.ts`: warnings from a textual search in SQL.
- The command line, configuration, discovery, formatting of reports and JSON,
  HTML of graphs, metrics, observability files, SQL text, the browser bundle:
  none changes the warehouse. Of the drivers only what a statement does is
  assumed.

What could follow: the folds of `Reports` as recursive functions, so that `ReportsExact` can be
proved by the least position as the sums of `ChecksExact` are; restate composed with `Warehouse`.
