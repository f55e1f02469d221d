# Verification of os-system-agent

TLA+ models of the parts of this repository where order, failure or
concurrency decide what is true: the agent that watches ETL jobs from outside
(`src/src/os_system_agent`, `src/scripts`) and the ETL loads it watches
(`src/empresas`). TLC checks each model on small instances; TLAPS proves the
most important facts of nearly all of them for every instance.

## The system

Two halves that meet only in systemd and in the destination database:

- **The agent**: a handful of short-lived Python processes started by timers,
  by an operator, or by a chat gateway. It reads the state of the ETL jobs over
  SSH, tells an operator over Telegram what has broken or recovered, answers
  questions about a web portal, and keeps an audit ledger of what it asked.
- **The loads**: one pipeline per table (ventas, margen, rotacion), started by
  systemd timers or by hand, that copy days from an ERP (MySQL) into
  PostgreSQL, refresh the views on it and send a report; and a tool that
  repairs the days that are missing.

| component | state it keeps | operations | what is hard | what makes it correct |
| --- | --- | --- | --- | --- |
| login budget (`portal/budget.py`) | a lock file, a budget file | `login_guard`: lock, check, reserve, log in, record | several processes, death at any point, reclaiming a lock that may be alive, a window that moves | one login at a time; no login that is not counted; failures per window bounded; a 429 respected |
| state store (`state/store.py`) | a SQLite file: ledger, incidents, spend per day | `audited_call`, `open_incident`, `close_incident`, `reserve_budget`, `verify_chain` | concurrent writers, a busy lock, death between attempt, call and outcome | the hash chain verifies; an attempt has one outcome and is on disk before its call; the cap holds; one open incident per job |
| alerts (`alert_incidents.py`, `alerting.py`, `notify.py`) | `.alert-state.json` | probe, collect, compare, send in chunks, save | the server vanishes between two commands; a send fails after the message is out; the run is killed while it saves | the file says what the operator was told; nothing is told twice; what is told was true; in the end everything is told |
| systemd signal (`monitors/systemd.py`, `severity.py`) | none: it reads systemd's | `evaluate_systemd` | a reboot wipes result and exit time; a running job has no exit time; boundaries | silence means a recent success; a failure is told; no false CRITICAL |
| ask router (`ask/router.py`) | the spend of the day | `route`, `_route_models`, `_charge` | turns that read the same spend; replies that raise, are rejected, or are no replies | overspending bounded; no bill forgotten; every turn ends |
| loads (`common/loader.py`, `*_rango.py`, `run_pipeline.py`) | the destination table, the matviews over it, what functions build from them | extract, delete and insert by batch, refresh matviews and then functions, report | overlapping runs at READ COMMITTED; batches that split a day; failure between two batches; an ERP that changes; a refresh that fails softly and leaves the function to read an old matview | a lone load is exact; overlapping loads agree; no day is emptied; what a report shows as refreshed shows the load; every run ends |
| backfill rules and repair (`backfill.py`, `dinastia_ops.py`) | verdicts and a plan in memory | ask both sides, classify, plan, load range by range | verdicts that age while the operator confirms, ranges load and timers run | no sale is lost; what is left is known; the plan is exact |
| portal client (`portal/client.py`, `errors.py`) | none | allow-listed reads, the health check, classification of answers | a server that answers nonsense, slowly or not at all | nothing off the list is asked; every answer has a class |
| orchestrator and runner (`pipeline_orchestrator.py`, `etl_runner.py`) | results of a run | parallel and sequential ETLs with retries and timeouts | results of failed futures; retries over committed batches | every ETL has a result; the exit code tells |
| catalog, configuration, collector, SSH client, redaction, intents, reports, MCP tool, probes | none, or a 20 s cache | parsing, rendering, one command | nothing that lasts | data in, data out |
| timetable (`run_pipeline.py`, `common/utils.py`, `systemd/*.timer`) | none: systemd's timers | daily, weekly, monthly ranges | stores that post days late, a server that is down over a timer, a turn of month | every day that is posted is loaded in the end by a run whose range reaches it |
| report of a load (`common/post_run.py`) | none | `report_run`: ask the ERP and the destination, warn | every question may fail and then looks like an empty answer | green means loaded |
| Mercamio rotation (`etl_rotacion_v2/v3/v4/incremental_3bd.py`) | a row per item and day, with the photo of its inventory and a lock on it | daily, rolling, backfill, company by company | a stock that moves on while days are loaded again; caches over a turn of month; faults between a load and its lock; runs that overlap | the photo is of its day and stays; the sales are the ERP's; no company is skipped in silence |
| Mercamio daily rotation (`etl_rotacion_diaria_sede_3bd_auto.py`) | the table, and a table of the days done and failed | plan, delete and write a day in one transaction, mark it | photos carried over a delete; history that a dead run left out; two runs on one day | photos survive; done days have their sales; zero means nothing is missing |

**How they interact.** The alert run asks systemd (through SSH) what the loads'
units came to; it never sees the destination. The loads know nothing of the
agent. The repair starts the same `run_pipeline.py` as the timers, over the
ranges of its plan, and nothing keeps it and a timer apart but the database. The
orchestrator, which no timer starts, writes ventas' table too. What one load
leaves out, the range of a later one must reach: the timers, the look-back of
the daily load, the report and the monitor make one system, which
`DinastiaWeek` composes. The Mercamio programs are apart from all of this, one
per table, each a replacement of the one before. The
questions about the portal are being built from the bottom: `login_guard`, the
writers of the store and the router have their tests and no caller yet, the
portal client reads allow-listed pages and does not log in. They are modelled
with every caller their interfaces allow: several processes, any order, death at
any point.

## Modules

| module | models | lines of the map | runs |
| --- | --- | --- | --- |
| `LoginBudget` | the budget file and the lock as separate system calls | `portal/budget.py` | `budget_pair`, `budget_race` |
| `LoginBudgetProofs` | six theorems about it | | |
| `QueryLog` | abstract: a log of queries, each asked once and resolved at most once | the docstrings of `audited_call` and `reconstruct_queries` | as `ImplementsQueryLog` |
| `StateStore` | the store's writers as transactions of several processes | `state/store.py` | `store_runs` |
| `StateStoreProofs` | eleven theorems about it, the refinement included | | |
| `AlertIncidents` | the alert run, the server, the operator's belief | `alert_incidents.py`, `alerting.py`, `notify.py`, `collector.py` | `alerts_runs` |
| `AlertIncidentsProofs` | four theorems about it | | |
| `AskRouter` | turns that go down the model rungs | `ask/router.py` | `router_turns` |
| `AskRouterProofs` | five theorems about it | | |
| `EtlLoad` | runs of a pipeline, their transactions, the ERP, the matview and the function built on it | `common/loader.py`, `ventas_rango.py`, `margen_rango.py`, `rotacion_rango.py`, `run_pipeline.py`, `post_run.py`, `db.py` | `etl_runs`, `etl_margen` |
| `EtlLoadProofs` | seven theorems about it | | |
| `SystemdStatus` | one job, what systemd remembers of it, what the monitor concludes | `monitors/systemd.py`, `severity.py` | in `DinastiaWeek` |
| `LoadCalendar` | the ranges of the modes and when their timers elapse | `run_pipeline.py`, `common/utils.py`, `systemd/*.timer` | in `DinastiaWeek` |
| `LoadReport` | what a load asks about itself and concludes | `common/post_run.py` | in `DinastiaWeek` |
| `Orchestrator` | parallel and sequential ETLs, attempts, the exit code | `pipeline_orchestrator.py`, `etl_runner.py` | in `DinastiaWeek` |
| `DinastiaWeek` | the composition of the last four with stores, outages and the table | `run_pipeline.py` | `dinastia_week` |
| `DinastiaWeekProofs` | seven theorems about it and its parts | | |
| `Backfill` | the verdict on a day and the plan, pure | `backfill.py` | through `Repair` |
| `Repair` | `reparar --aplicar` over Backfill's plan | `dinastia_ops.py`, `rotacion_rango.py` | `repair_runs`, `repair_lost` |
| `RepairProofs` | six theorems about it and Backfill | | |
| `RotationSource` | the ERP as the Mercamio programs read it | the queries of the five programs | |
| `RotationRuns` | what a run of any of them has around it: processes, date, sources, table | | |
| `RotationInc`, `RotationV2`, `RotationV3`, `RotationV4` | the rows each program computes, its upserts, its modes | one `etl_rotacion_*.py` each | through `RotationJobs` |
| `RotationJobs` | the runs of any one of the four over its table | their `run`, `process_*`, `load_rows` | `rotation_runs` |
| `RotationDiaria` | plan, reload and tracking of the daily program | `etl_rotacion_diaria_sede_3bd_auto.py` | `rotation_days` |
| `RotationProofs` | eleven theorems about the last two | | |

An `MC...` module and its `.cfg` files hold the instances. In every module an
operator commented "A bug: ..." is a mistake the code could have made; no
behaviour uses it, and putting it in place of the definition after it makes the
property that is paired with it in `PROJECT.json` fail.

## How to run

    tlc -workers 2 -config MCLoginBudget_pair.cfg MCLoginBudget.tla
    tlapm LoginBudgetProofs.tla

and likewise for the other `MC...` and `...Proofs` modules. `PROJECT.json` lists
the runs with what each is expected to find, the mutations that each property
must notice, the source lines behind every definition, the hazards of the code
and the theorems.

## The models, one by one

### LoginBudget: the portal's login budget and its lock

A set of agent processes `Procs` runs `login_guard` again and again. The only
state they share is two files: the `O_EXCL` lock file (`lockFile`: none, or one
with its creator and its modification time) and the budget file (`budgetFile`:
missing, corrupt, or a window and its count). `pc[p]` is where process `p`
stands. Each system call that another process can see is a step of its own:

| code | actions |
| --- | --- |
| `_acquire`: first `open(O_CREAT\|O_EXCL)` | `TryCreate` |
| `_acquire`: `stat` and the age test | `ExamineLock` |
| `_acquire`: `unlink`, second `open` | `UnlinkStale`, `RecreateLock` |
| `login_guard`: the health check | `Preflight` |
| `reserve`: read, refuse or count, write | `ReadBudget`, `WriteReservation` |
| the body of the `with` statement | `SendLogin`, `LoginRejected`, `LoginRateLimited`, `LoginAccepted` |
| `record_rate_limited`, `record_success` | `RecordRateLimited`, `RecordSuccess` |
| `_write` raising | `WriteFails` |
| the `finally` of `lock` | `Release` |
| death of the process, the clock | `Crash`, `Tick` |

The remaining variables are observations: when the portal failed a login since
the last success, how many logins were sent in the window on disk, when a 429
was recorded, and `robbed`, which becomes true when a process unlinks the lock
file of a live one.

- `budget_pair` (2 processes, `MAX` 1, `WINDOW` 2, `STALE` 1, four moments, one
  crash). `Timely` is FALSE: a live process may well keep the lock for longer
  than `STALE`. Checked: single flight until a live lock is stolen
  (`ExclusiveUnlessRobbed`), at most `2 * MAX` failures per window length
  whatever crashed (`SlidingBound`), no reservation within a window of a
  recorded 429 (`RateLimitRespected`), and that an abandoned lock is removed in
  the end (`CrashDoesNotWedge`). Four moments hold two windows, the first of
  which may be reserved at its start and fail at its end.
  Fairness: the clock advances, and a process that runs keeps running (timers
  start it again, every call in it has a timeout). The antecedent of the
  liveness property asks that the lock can still become stale before the
  bounded clock stops.
- `budget_race` finds `MutualExclusion` violated even when no live process
  keeps the lock for as long as `STALE`: two processes judge the same abandoned
  lock stale, the slower one unlinks the lock the faster one has just created. Its
  view `Ages` identifies states that differ only in times older than a window or
  a lock's life.

**Proofs** (`LoginBudgetProofs.tla`, for all `Procs`, `MAX`, `WINDOW`, `STALE`).
`IInv` is inductive. Mutual exclusion alone is not: it needs `Owned` (a process
in the guard owns the only lock file, until a robbery). `SlidingBound` needs
`FailuresByWindow`: the failures split into those older than the previous
window, at most `MAX` of the previous window, and those the file counts; and
`DraftFollowsFile`, because the count travels through the memory of the process
between the read and the write. `RateLimitRespected` needs `LimitOnDisk`: the
mark of a 429 is not overwritten while it is younger than a window.


### StateStore and QueryLog: the agent's memory

One SQLite file (`db`: the ledger, the incidents, the spend per day) and
processes that write it. A writer of the store builds its request, timestamp
included, and then runs one transaction:

| code | actions |
| --- | --- |
| the call of a writer; the first half of `audited_call` | `Ask` |
| `BEGIN IMMEDIATE` and the reads that follow | `Begin` (the process keeps a `view`) |
| 5 s behind another writer | `Busy` |
| the writes and `COMMIT` | `Commit`, which installs `Apply(view, request)` |
| the store refuses, or the engine fails | `Rollback` |
| the body of `audited_call` returns or raises | `Answer` |
| death, the clock | `Crash`, `Tick` |

`Apply` has one operator per writer: `record_attempt`, `record_outcome`,
`open_incident`, `close_incident`, `reserve_budget`. The database is computed
from the *view*, not from `db`: that the two agree at the commit is a theorem
(`WritersAreSerial`), not an assumption, and a deferred transaction breaks it.
A row's hash is modelled by what a collision-free hash tells apart, the sequence
of everything hashed so far. The unique indexes `one_open` and `one_outcome` of
the schema are left out: they are a second line of defence, and the properties
hold without them.

- `store_runs` (2 processes, 2 intents, 2 jobs, 1 day, estimates of 1 and 2
  cents under caps of 2 and 3, 4 rows, 2 incidents): the ledger verifies
  (`ChainVerifies`); an attempt without outcome is under way, or its process
  died, or the store could not take the outcome (`UnresolvedExplained`); the day
  stays within the highest cap used (`WithinCap`); one open incident per job
  (`OneOpenIncident`); and the ledger, read through `reconstruct_queries`,
  implements `QueryLog` (`ImplementsQueryLog`), whose whole promise is: a query
  is asked once and resolved once at most, by anyone, and is never forgotten.
  Four rows are two queries with their outcomes in any interleaving, or four
  attempts; the caps are met, missed by one and differ between callers. The
  constraint `OneTable` keeps a history to one table: a transaction touches one
  table, and the tables share nothing but the lock.
- The action properties `AppendOnly` and `HistoryKept` and the invariants
  `OneOutcome` and `AttemptBeforeCall` are proved, and not run.

**Proofs** (`StateStoreProofs.tla`, for all `Procs`, `Intents`, `Jobs`, `Days`,
`Caps`, `Estimates` and bounds). From `TypeOK` and `Alone` (the process that
writes is the only one, and its view is the database) a step of the database is
one request applied to all of it, and a step of the ledger adds one attempt or
the outcome of one unresolved attempt (`LedgerStep`). Everything else rests on
that: `ChainVerifies`, `AppendOnly`, `OneOutcome`, `WithinCap`,
`OneOpenIncident` and `HistoryKept` directly; `AttemptBeforeCall` with
`Recorded` (the attempt a process remembers is on disk);
`UnresolvedExplained` with `Holds` (a process that made an attempt is calling, or
asks for its outcome to be recorded); the refinement with `AttemptsReferToNothing`, so
that the outcome of a new attempt cannot be there before it.

### AlertIncidents: what the operator is told

A run of `alert_incidents.py` (`pc`, `current`, `unsent`) between the server
(`severity` of each job, `reachable`), the state file and the operator
(`belief`: what he was last told of each id).

| code | actions |
| --- | --- |
| `_server_reachable`, `server_down_status` | `Probe` |
| `collect_live` over SSH | `Collect`: the truth; everything unknown, because the output is empty; or a timeout that ends the run |
| `_load_state`, `diff_incidents`, the exit of a dry run | `Compare` |
| `send_chunked`, one message | `Send`, `SendFails` (before or after the message is out) |
| `write_text` | `Truncate`, `WriteState` |
| death of the run | `Kill` |
| the server | `Change`, `Outage`, `Return` |

- `alerts_runs` (2 jobs, one line per message, so that up to three messages
  make an alert; 3 changes, 1 outage, 2 faults, which is enough for a run
  to fail, the next one to be killed, and things to change around both):
  between runs the file says what the operator was told, except of ids whose
  telling was interrupted (`BeliefFollowsFile`); nothing is told twice, the same
  ids excepted (`NoRepeats`); until the first outage a line about a job was true
  at some time since the line before (`TruthfulLines`); and when server and jobs
  settle, the operator knows (`EventuallyInformed`). There is one run at a time,
  which is what a systemd timer gives; what happens with a run by hand beside it
  is under "What the code does not keep".
- Fairness: the steps of a run. Every command has a timeout and the timer
  starts the next run. Not assumed: that sends succeed; faults are bounded
  instead, so in the end they do.

**Proofs** (`AlertIncidentsProofs.tla`, for all jobs, sizes of a message and
bounds). The types hold whatever runs overlap. What the operator is told needs
one run at a time (`OneRunAtATime`: the set of runs is one timer; a oneshot unit
that is running is not started again), and the invariant says what a run has
still to do: the lines sent and the lines unsent are the difference between the
state file and what the run collected, and the file is behind the operator's
belief by exactly the lines sent. Lines whose telling was interrupted are in
`unsure`, and every clause excepts them.

### SystemdStatus: one job, as systemd remembers it

The properties systemd shows (`active`, `result`, `exitAge`, `triggerAge`) and
what really became of the job (`outcome`, `goodAge`).
`evaluate_systemd` and `classify_freshness` are operators over the former; the
job starts, succeeds, fails, and reboots. Ages are told apart up to one
tick beyond `Critical`.

It has no run of its own: what the severity is worth depends on what the job
does to the table, so `DinastiaWeek` extends it and judges it there
(`NoFalseAlarm`, `SilentMeansYesterday`). There one tick is a third of a day.

### AskRouter: questions, rungs and the day's spend

Turns side by side (`pc`, `rung`, `reply`), each going down the model rungs; the
`ledger` they share; `billed` and `lost` are what the provider billed and
what of it was never charged because the turn ended first.

| code | actions |
| --- | --- |
| `route`: command, keyword, refusal, or on to the models | `Route` |
| `_route_models`: a paid rung the cap forbids | `SkipRung` |
| the call | `Call`, `Classified` (valid, rejected, `None`, not a `ModelReply`, raised) |
| `_charge` and what follows | `Charge`, `ChargeFails` |
| no rung left, no client | `Exhausted` |
| death of the process | `Crash` |

Not assumed: that the ledger can be read or written, or that the client
returns what its type says. Assumed: the provider bills no more than the worst
case of the rung's configuration.

- `router_turns` (2 turns; a free rung, a paid one of 2 cents and one of 1,
  under a cap of 3, so that the second paid rung may fit where the first does
  not): the ledger passes the cap by one worst case per *other* turn at most
  (`OverspendBounded`), what was billed is charged, about to be, or was lost
  with its turn (`NothingForgotten`), every turn ends (`EveryTurnEnds`, if the
  client returns or raises: it takes a timeout).

**Proofs** (`AskRouterProofs.tla`, for all finite sets of turns, lists of rungs
and caps). Both properties add up what each turn has under way. That such a sum
does not depend on the order, and that a step of one turn changes one term of
it, is proved first, from the well-foundedness of strict inclusion: among the
subsets for which it fails, one is smallest. The invariant (`TurnsInv`) is that
a bill that waits to be charged is within the worst case of its rung, and
the bound on the ledger counts the turns that are calling or charging. With one turn at a time the overspend is none
(`AloneWithinCap`), which is what the router's docstring promises.

### EtlLoad: runs of a pipeline against READ COMMITTED

The three pipelines share the loader and differ in their queries and tables, so
a behaviour is of one `pipeline`. A row is what one site sold in one day. A run
(`pc`, `days`, `todo`, `batch`, `cleared`, and the open transaction `seen`,
`dels`, `ins`) reads its range and loads it in batches.

| code | actions |
| --- | --- |
| `extract` of each `*_rango.py`: the query (`VentasQuery` by day, `MargenQuery` unordered, `RotacionQuery` one day at a time) | `Extract`, `ExtractNext` |
| `fetchmany` | `Fetch`, one of the batches the order allows |
| `_clear_partitions`: a `DELETE` begins, waits, ends | `Delete`, `Deleted` |
| the insert of the batch, or the primary key refuses it | `Insert`, `UniqueViolation` |
| `commit` | `Commit` |
| `refresh_materialized_views`: `_matviews_dependientes` and the matviews it finds | `RefreshMatviews`: refreshed, failed (an entry), or not found because the query of the catalogue failed (no entry) |
| the same: the functions of `refresh_views`, in full, or incremental over the range | `RefreshFunctions`: `Rolled`, `Rebuilt`; or failed (an entry) |
| `main` swallows what the refresh raises, and `refresh_result` stays `[]` | `RefreshRaises` |
| `report_run`, which reads `entry` | `Report` |
| PostgreSQL ends one of two runs that wait for each other | `Deadlock` |
| an error that `main` does not catch; SIGKILL, reboot | `Raise`, `Kill` |
| the ERP; `--refresh-only` | `ErpChanges`, `RefreshOnly` |

PostgreSQL is modelled by what these statements need of it: a `DELETE` sees the
rows committed when it begins (`seen`), waits for the transactions that are
deleting one of them (`WaitsFor`) and then skips those that are gone; an insert
waits for a transaction that has inserted or deleted its key and then finds it
free or taken, unless the table has no key (`Keyed`), as margen's.

What a load has to refresh is a chain, as the docstring of
`_matviews_dependientes` tells it: table, `matview` over the table (in the
instances of rotacion only: `Dependents`), and the `rollup` that a declared
function builds from the matview, or from the table where there is none
(`Declared`). `matview` and `rollup` hold the rows they were built from. A function
that finds its matview empty does nothing and reports success. Each of the two
phases is one step, between which, before and after, other runs commit, refresh
and fail; that several matviews or functions of one phase may end differently is
left out. A lost connection makes no `skipped` entries after a load:
`_pg_connect` gives none only without a driver or a host, and then the loader has
raised before (`common/loader.py:176-195`); with `--refresh-only` it changes
nothing.

- `etl_runs` (each pipeline; two runs over the same two days of two sites,
  of which one has not posted its first day, in batches of two rows, so that the
  first batch ends in the middle of a day and, unordered, may leave one row of
  any of them; one trouble: the ERP changes, a run raises or is killed, one part
  of the refresh fails, is not found or raises, or someone refreshes by hand;
  424,690 states): a lone load leaves what it
  read (`LoneLoadIsExact`); loads that overlap, read the same and end well leave
  exactly that where the table has a key (`AgreeingLoadsAreExact`); no day
  loses its last row, not for a moment (`NoDayIsEmptied`); while a
  run has its report to send, a matview it shows as refreshed holds the days it
  loaded and no row they replaced, whatever runs beside it, and where it shows
  the matview and the function, what the function built of the days of a run
  that nothing overlapped is what its query returned, but for the first day of an
  incremental rebuild (`ReportedRefreshShowsTheLoad`); no run waits for ever
  (`EveryRunEnds`).
- `etl_margen` (the daily load of day 2 beside the weekly one of days 1 and 2,
  nothing failing) finds `RerunDoesNotDuplicate` violated: both delete the day,
  neither sees the rows of the other, both insert it.
- Fairness: a statement that need not wait is executed. Two runs of margen that
  read the days in different orders may wait for each other, which PostgreSQL
  notices.

**Proofs** (`EtlLoadProofs.tla`, for all runs, ranges, finite sets of days and
sites, versions, batch sizes and troubles). The invariant says of a run what it
owes and what it may delete (`RunsInv`: rows of its snapshot only, each once; of
a day it deletes it has committed nothing yet), where the rows of the table come
from (`RowsInv`), what open transactions owe to the key (`KeyInv`), that nobody
is active beside a run that is alone and that the table then holds what it has
committed (`LoneInv`), and, while no run failed, that a row that was committed is
there or is owed again (`AgreeInv`). `NoDayIsEmptied` follows with the lemma that
an insert after a delete is of the same day; `AgreeingLoadsAreExact` needs
`AgreeInv`, since a row deleted by one run comes back only because another, which
read the same, still has it to insert. `NoRowTwice` is the key as readers see it.
`ReportedRefreshShowsTheLoad` takes two more: a day that a run has committed rows of keeps some, and none of
those of before (`LoadedInv`); and where a run has an entry for its matview, that
is so of the matview too, whoever refreshed it since (`ViewsInv`: `MatviewOK` for
any run, `LoneViewsOK` for the matview and the rollup of a run that is alone).
The entries are kept apart because a function that succeeds says nothing of the
matview it read: without the entry of the matview the theorem would be false, as
the first of the remarks on the refresh below says.

### DinastiaWeek: the timetable, the report, the monitor and the orchestrator

Some two weeks of one pipeline: a day is a number with three parts (before
07:00, until the evening, after the evening's timers). `erp` and `gcp` give the
rows of each day and store.

| code | actions |
| --- | --- |
| the timers, `Persistent=true` | `TimePasses` (`Elapses`, `due`) |
| `main`: `_range_for_mode` | `Starts` |
| `run` loads its range; raises, or is stopped, with some days committed | `Loads`, `Raises` |
| `report_run`: three questions, each of which may fail | `AsksDestination`, `AsksErp`, `Reports` (`head`) |
| `pipeline_orchestrator.main`, by hand: daily, monthly in its weeks | `RunsByHand` |
| `run_parallel`, `run_sequential`, `run_etl` | `BeginAttempt`, `AttemptEnds`, `ScriptNotFound`, `RunRaises`, `Exit` |
| `evaluate_systemd` of the daily service | `SystemdStatus`, whose actions are steps of these |
| the server, the stores | `GoesDown`, `ComesBack`, `Post` |

- `dinastia_week` (two stores, days 8 to 20, the first of a month on day 11, any
  weekday; no store late, or one of them a day in part or in whole, or both a
  day, or one for longer than the report looks back; or, with every store in time,
  one trouble — an outage, a load that raises, or a run by hand — that begins on
  day 10 at the latest, so that a weekly load and the daily loads
  after it come before the end): what is posted late arrives with the next daily
  load (`LateSalesArrive`); after an outage of a week at most (`WEEKLY_DAYS`) the
  next weekly load leaves nothing missing (`OutageIsRecovered`, of one outage); a report that
  is green, and whose questions were answered, means that every watched store
  is in the table and posts (`GreenMeansLoaded`); a monitor that says nothing
  of the daily service means that yesterday is loaded
  (`SilentMeansYesterday`); it is never CRITICAL for a run or a reboot alone
  (`NoFalseAlarm`); an exit code 0 of the orchestrator, no future lost, means
  that its range is loaded (`ZeroMeansLoaded`).
- Left to other models: two loads at once and what happens inside a day
  (`EtlLoad`). A load commits day by day. Loads end within the part of
  the day they begin in, which their time limits give, and late stores post the
  rest together.
- A report is given only by a run that ends well: `run` returns 0 or raises,
  and what it raises leaves `main` before the report.

**Proofs** (`DinastiaWeekProofs.tla`, for any days, calendar, look-back,
thresholds, stores and ETLs). A table never loses a day it has in full, so what
has to be shown of a day is that some load covered it after its stores had
posted; each promise is kept, or the load that keeps it is due or under way:
`ArriveInv` for the daily load of the day, and for an outage `OutageInv`, in two
halves: the daily loads bring every day until two before the server went down
and every day since it came back, and the first weekly load, at most seven days
later or on the return, brings the days between. That takes one outage
(`outages <= 1`: of two outages in one week the later one may hide the first
weekly load from the earlier), and no load that fails. `RunInv` (one load at a
time, of the range its mode says), `StatusInv` (an exit time that success left
behind is that of the last success) and `OrqInv` (the ETL that writes the table,
once it succeeded, has loaded the range) carry the rest. `SilentMeansYesterday`
needs `AgeInv`, and two conditions on the configuration, which are hypotheses of
the theorem: the monitor warns of exits four thirds of a day old at the latest
(a monitor that warns later is silent about a day that was missed), and the
look-back is one day at least (the code's default is four).

### Backfill and Repair: which days may be loaded again

`Backfill` has `classify_day` and the loop of `plan_ranges` as they are written,
and the plan said in one sentence (`Stretches`: the longest stretches of days
that may be loaded, with one worth it). `Repair` is the command around them, for
each pipeline: `AskSource`, `Plan`, `Cancel`, `StartRange`, `LoadDay`,
`EndRange`, `FailRange`, `Finish`, beside `ErpChanges` and `OtherLoads` (timers,
`dinastia_ops cargar`). A day is loaded whole or fails after some of its sites;
`EtlLoad` has the batches.

- `repair_runs` (3 days in a row, each in one of nine conditions: one for each
  verdict and the borders between them; ventas, margen and rotacion;
  a change of the ERP, a failing range and a day loaded by a timer in between):
  the loop finds `Stretches` (`PlanIsStretches`); no sale the destination held
  when it was asked is lost, the days others loaded excepted (`SalesAreKept`);
  what ended well leaves nothing to load (`NothingIsLeft`) and has brought every
  site of every day that was worth loading (`RepairedDaysAreWhole`, which the
  former does not imply: a day that lacks some of its sites is judged `ok`).
- `repair_lost` finds that no load takes the sales of a day the ERP has lost
  (`LostDaysSurvive`, as backfill.py:10 has it) violated by rotacion,
  whose query returns a grid, so that the guard on zero rows never applies.

**Proofs** (`RepairProofs.tla`, for all days, sites, measures, pipelines and
bounds, and every `Total` that is a natural number and zero only where nothing
was sold, an assumption that refunds could break). `SalesAreKept` needs
`Harmless`: the days still planned or being loaded had no sale when the
destination was asked, which follows from what the additive verdicts mean
(`AdditiveHasNoSale`), however the ERP changes before they load. `PlanIsStretches` is
`PlanRangesFindsStretches`, which follows the loop of `plan_ranges` day by day
(`GroupsInv`: each group is a stretch of additive days that nothing can be added
to, but for the last, which ends with the day before; every additive day so far
is in one), after it is shown that the days of a finite set have an order and
that the fold over it exists. `NothingIsLeft` adds what has been loaded to what
was known: each day of the plan is still to load, or failed (and then the exit
code is 1), or the destination has of it what the ERP has (`Fresh`, `Covered`),
and a day that agrees with its source is in no stretch (`LoadedIsRight`).
`RepairedDaysAreWhole` uses the same two, and that every day worth loading is in a
stretch (`WorthIsCovered`).

### RotationJobs: the Mercamio rotation programs

Four programs write the same kind of table, each in its own way, through the
same driver; a behaviour is of one of them (`version`). `RotationSource` has the
ERP (till tickets, movements of stock, the monthly summary), an item of one store
being one member of `Items`. `RotationInc`, `RotationV2`, `RotationV3` and
`RotationV4` say, each for its file, which rows a day or a range has, with what
photo of the inventory, what the two upserts do to a row that is there, and
which steps daily, rolling and backfill consist of. The driver is:

| code | actions |
| --- | --- |
| `main`, the checks of a backfill | `StartRun` |
| `run`: the next company, its connection, its mode | `Connect`, `ConnectFails` |
| `process_backfill`: the month kept in memory | `ReadMonth` (v3's backfill, all of v4) |
| `extract_day`, `fetch_rows`, `merge_day` | `ExtractStep` |
| `load_rows`, one transaction | `Load` |
| `lock_inventory_snapshot`, a commit of its own | `Lock` |
| `except psycopg2.Error`: roll back, next company | `StepFails` |
| the exit code; death | `Exit`, `CrashRun` |
| tickets, stock, midnight | `PostTicket`, `SummaryMoves`, `DateTurns` |

Since the four drivers are the same, the lines that `PROJECT.json` gives for the
driver are spread over the four files.

- `rotation_runs` (each program; 2 items, one of them sold in two units; 3 days,
  the last of January and the first two of February, December having stock of
  its own; a timer's run of two companies beside a backfill by hand of one; one
  fault, one late ticket, one movement of stock): a locked photo stays as it is
  whatever runs follow (`LockedPhotoStays`, v3 and v4); a rolling run changes no
  photo (`RollingKeepsPhotos`); a photo is of the day's month or, for want of
  one, an earlier one of the year, also when a backfill goes over the turn with
  what it keeps in memory (`PhotoIsOfItsMonth`); where no ticket came after the
  reading, the units are the ERP's (`SalesAreTheErps`); each company is loaded
  or counted as an error, and zero means all of them (`EveryCompanyIsAccountedFor`).

**Proofs** (`RotationProofs.tla`, for all processes, companies, items, days,
months, sources, modes, runs and faults, and any subset of the four programs).
The proof module extends both `RotationJobs` and `RotationDiaria`, which have the
state around a run in common (`RotationRuns`); the proofs of one use nothing that
the other assumes.
None of the properties is inductive: they say nothing of the rows that a run has
read and not yet loaded. `RotationInv` adds what is missing:

- of each source, that tickets are finitely many and that no line of the summary
  it had at first has gone (`ShownInv`);
- of each line of a table, the item and day it stands for, the month of its photo
  and where its units come from (`LinesInv`: `LineOK`, `MonthOK`);
- of the cells a load answered for and no ticket reached since, that the line is
  there and has the units of the ERP (`CleanInv`);
- of each run, that the steps to come are of its mode (`ProgOK`), that the month
  kept in memory is one that had data (`CacheOK`), and that the batch it is about
  to load has good lines and, if no ticket came since it read, the units of the
  ERP for each day of the step (`LotRight`).

`LockedPhotosStay` and `RollingKeepsThePhotos` then follow from the two upserts
of each program, `PhotosAreOfTheirMonth` from `MonthOK`, `CleanDaysHaveTheSales`
from `CleanInv` and a lemma per program that its query sums a day's tickets (of
v3 neither the property nor the invariant says anything there).
`EveryCompanyCounts` is a count on top of it (`AccountsInv`): the companies
loaded, the errors and those still to do are the list, cut in three. It has the
hypothesis `ListsAreSets`, that a list names a company once. The code does not
see to it (`nargs="+"`): a company named twice is loaded twice and is one member
of those loaded, so that the numbers no longer add up.
All six rest on `JobsAssumption`: the companies asked for have a source,
`--rolling-days` is at least one, the tickets are finitely many, and a line of
the monthly summary may move or appear but does not go.

### RotationDiaria: the daily program by company

`etl_rotacion_diaria_sede_3bd_auto.py` plans a window and the days of its
history that `ventas_item_carga_dias` does not call done (`Start`), and reloads
each as one transaction: it reads the day it is to replace and the one before
(`Begin`), deletes the day and waits for whoever is deleting it (`Delete`,
`Unblock`), extracts it again, puts the photos back and looks up last sales
(`Extract`: `Prepared`, `Remaining`, `Dated`), inserts over what another run has
put there meanwhile and marks the day (`Commit`); or rolls back, marks it failed
and goes on, or stops (`ReloadFails`).

- `rotation_days` (days 2 to 4 over a turn of month, nothing loaded or day 2 done,
  two items, the nightly run
  with history beside one by hand: a range, a range with a refresh that stops at
  the first error, or with the current day; one fault, one late ticket, one
  movement of stock, midnight at any moment): no reload but a refresh takes a
  photo from the day (`SnapshotSurvives`); a day that is done has the sales of
  the ERP (`DoneDaysHaveTheSales`); an item sold in the ninety days before has a
  last sale (`RecentSaleIsKnown`); exit code 0 means that every day of the
  window and every missing one was loaded (`ZeroMeansAllDone`).

**Proofs** (`RotationProofs.tla`, for all processes, companies, keys, days,
documents, arguments, runs and faults). `DoneDaysHaveTheSales` rests on what a
run holds of the day it is reloading (`ReloadOK`: the rows it will insert have
the ERP's units, if no ticket came since it read) and on `SalesInv`, which tells
the days that a reload had for itself from those that two reloaded at once.
`RecentSaleIsKnown` goes through the three places a last sale comes from: the
day's own sale, the row of the day before, the look-up over ninety days.
`ZeroMeansAllDone` is a count (`Accounted`): while nothing has failed, each day of
the plan was done or is still in the queue, whose order is shown to have every
element of it.

## What the code does not keep

Three statements of the repository are refuted by runs of their own and listed
as findings in `PROJECT.json`: `budget_race`, `etl_margen`, `repair_lost`. The
following are defined in the modules too, and TLC refutes each when it takes the
place of the properties of the named `.cfg`:

| property, with | what the repository says | what happens |
| --- | --- | --- |
| `FailuresPerWindow`, `MCLoginBudget_pair` | specs/006-preguntas-portal/plan.md:56: "2 fallos de login por ventana de 15 minutos" | the failures at the end of one window and those at the start of the next lie within one window length; the bound is twice the maximum, which is proved, until a live lock is stolen |
| `UnresolvedDied`, `MCStateStore_runs` | state/schema.sql:82: a row without outcome "is a call that died mid-flight" | the call succeeded and the store, busy or full, could not take its outcome |
| `RecoveredIsHealthy`, `MCAlertIncidents_runs` | specs/003-proactive-alerts/spec.md:26: "healthy again" | a job breaks and is told, the server goes away: the report has the server alone, so the job is told recovered |
| `OutageIsOneAlert`, same | spec.md:24: "ONE clear" alert, "not 7 confusing per-job criticals" | the connection is lost between the probe and the collection: the output is empty, every job is CRITICAL |
| `RecoveryTold`, same | spec.md:64, AC-3: "A recovery produces a 'recuperado' notice" | the alert is out, the run fails before it saves, the job recovers: the next run finds nothing to say |
| `NoRepeats`, same with `Runs = {timer, dry}` and `SPECIFICATION Spec` | spec.md:42, NFR-1: "alerted once, not every run" | one run empties the file to rewrite it, the other reads it as no incident and tells everything again; a dry run with nothing to send saves too |
| `CapHolds`, `MCAskRouter_turns` | ask/router.py:20-22: the worst case "is reserved against the daily cap before the call goes out" | it is compared, not reserved: two turns read the same spend |
| `DegradedMeansFree`, same | router.py:322: "a free rung answered" | with two paid rungs, the cheaper one answers |
| `NeverRaises`, same | router.py:511: a failure of the provider "no puede tumbar el turno" | the client returns no `ModelReply`, or the ledger cannot be written: nobody catches it |
| `RepairDeletesNothing`, `MCRepair_runs` | specs/008-reparador-huecos/spec.md:24-25: "incapaz de borrar lo que ya está" | a timer loads a day after the plan was made, the ERP loses it again, the repair loads what is left |
| `EmptyDaysStayUnblocked`, same | backfill.py:49: "rows the source no longer has" | a `both_empty` day next to one worth loading is loaded with it, by rotacion as a grid of zeros, and is `source_empty` ever after |

Beyond these, the models show, or their writing did, where the code and its
documents part, in ways no property states because the model has the code's:

- `run_pipeline.py:48`: to write over a complete day "es inofensivo". A reload
  that fails between two batches leaves part of the day, which is why
  `LoneLoadIsExact` is about runs that end well; the next daily loads mend it
  within `Lookback` days, later ones do not.
- Two overlapping loads whose queries returned different versions of a day may
  both end well and leave rows of each: `AgreeingLoadsAreExact` needs their
  agreement. margen's loads need not meet by chance: after an outage its
  `Persistent` timers start together.
- A query of the catalogue that fails is taken for a table without matviews
  (`post_run.py:104`): the function then reports ✅ over a matview that was not
  refreshed, the very case the docstring above it (:78-92) says is closed.
- A refresh that raises as a whole is swallowed (`run_pipeline.py:120-126`) and the
  report says "(sin vista configurada)" (`post_run.py:759`). It raises where it
  cannot connect, and also where it fails with an error that has no text, since
  `str(exc).splitlines()[0]` is then out of range.
- `_iso` (`post_run.py:61-65`) writes the range of an incremental refresh with dashes
  and the tables write their dates without: a function that compares them as text
  never rebuilds the first day of the range (specs/008-reparador-huecos/tasks.md,
  T7, still open).
- `classify_day` (`backfill.py:83-121`) does not compare the sites the ERP has and the
  destination lacks, and measures only ventas, where less than the ERP has is no
  verdict either: a day that a failing range left half loaded is `ok`, and no later
  repair takes it up. The exit code of the repair is all that tells
  (`RepairedDaysAreWhole`).
- A daily load that fails or is missed while a store posts exactly `Lookback`
  days late leaves the day to the weekly load: `LateSalesArrive` excludes trouble.
- A report is green when all its questions failed, of ERP and destination alike
  (`GreenMeansLoaded` asks that they were answered).
- `post_run.py:323` compares the volume of a day only for ranges of one day, "el
  daily es el que corre a diario y el que debe avisar": with its look-back of four
  days the daily load has ranges of five, and the warning never comes.
- `pipeline_orchestrator.py:17`: "0 all ETLs ok". The result of a future that
  raises is dropped, and the exit code is of the others.
- What `run` raises leaves `main` of `run_pipeline.py` before the report, though
  its docstring says that it refreshes and reports when it ends; only the monitor
  can tell.
- `monitors/systemd.py:168`: a job that hangs is INFO for as long as it hangs;
  the signal of the destination's freshness, which the comment relies on, is not
  in the code yet.
- `etl_rotacion_v2.py:527` sets `inv_foto_bloqueada` from the new row, so v2
  unlocks with every load what `lock_inventory_snapshot` (:737) locks "para evitar
  que reprocesos lo sobreescriban"; `LockedPhotoStays` is about v3 and v4.
- Two runs of the daily program that reload a day at once may leave a row that
  only the first of them read, with the sales it had
  (`DoneDaysHaveTheSales` says what of the day is right nevertheless).
- `DEPLOY_DEBIAN12.md:153` of Mercamio describes an exit code 3 for a load without
  sales that no program of the directory has.
- The READMEs of margen (:33) and rotacion (:34) have the monthly load on the
  first of the month, rebuilding the one that closed, and ventas' (:138) at 14:00:
  the timers fire on the first Sunday at 18:00 and later, and load the month they
  fire in.

## What is proved and what is only checked

Proved for every value of the constants: every safety property that a passing
run checks of `LoginBudget`, `StateStore` (the refinement of `QueryLog` included),
`AlertIncidents`, `AskRouter`, `EtlLoad`, `DinastiaWeek` and the four modules it
composes, `Backfill`, `Repair`, `RotationJobs` with its four programs and
`RotationDiaria`, and the type correctness of each, on its own or inside the
inductive invariant. `PROJECT.json` lists the
theorems. They rest on the assumptions named in the modules (`...Assumption`),
which TLC evaluates on every run, and on hypotheses where a theorem states them:
one alert run at a time, a table with a key, one turn, lists of companies without
repeats, the two conditions on the
monitor's thresholds.

Only checked, on the instances above: the liveness properties
(`CrashDoesNotWedge`, `EventuallyInformed`, `EveryTurnEnds`, `EveryRunEnds`) and
everything that needs `ENABLED`, which the proof system does not treat. The three
runs that end in a violation are counterexamples and need no proof.

## Not modelled

- Answers in part: `_source_stats` and `_quality_stats` may answer some of their
  queries and fail in others; `LoadReport` has each question answered or not. An
  exception of the orchestrator's final report, after all ETLs have ended.
- Pure parsing, rendering and validation, which keeps nothing and of which no
  other part's correctness hangs but as an assumption named there: catalog and
  configuration, redaction, intents, grounding and date parsing, daily report,
  the texts of alerts.
- One command or one HTTP request and the class of its answer: SSH client, portal
  client, probes, operator scripts. Their outcomes are choices in the models that
  call them. The portal client does not log in yet.
- `estado_etl` (MCP): a cache of 20 seconds in one process with one thread.
- The store: `ask_intent_miss` (one upsert), migrations, limits and dates of the
  readers. The indexes that enforce again what the transactions do are left out
  on purpose.
- The loads: BigQuery (a stub), the upsert and append modes, `--dry-run`, the
  catalogue of document types.
- The Mercamio programs: `--recreate-table`, `--dry-run`, `--check-only`, the
  migration of a column, log files, and that `execute_values` sends a batch in
  pages. A quantity stands for its money as well.
- Two runs of the alert script at once: `NoRepeats` fails, as the table above
  says, so the run has one at a time.
- Clocks do not run backwards; files and databases do what their systems promise
  (no torn `O_EXCL`, no lost fsync); money is in cents.

## Plan

No safety property of a passing run is left without its theorem. To state and
prove next: an abstract specification of the reload of a day, in which the rows of
a day are replaced at once, and that a lone `EtlLoad` that ends well and a
`Commit` of `RotationDiaria` implement it; and, of the statements in the table
above that the code does not keep, the conditions under which it does keep them
(`CapHolds` with one turn at a time is proved already, as `AloneWithinCap`).

To model next: the classification of the portal's answers once there is a login
to go with it, and the destination's freshness signal once it is written.
