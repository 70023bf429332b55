# Athena AI: models and proofs

TLA+ modules for the parts of Athena AI in which the order of steps decides
what a client sees: the query engine and its watchdog thread, the durable
dataset catalog and the order of its lists, the loading of files that somebody
else may change, the profiler with the evidence it emits, the store of that
evidence, the API that puts them together, and the example programs. TLC checks
the modules on small instances, and TLAPS proves every safety property that TLC
finds to hold, and both refinements, for every value of the constants.

Paths below are relative to the repository. A line number is one of the source
file named beside it.

## The system

Athena AI registers tabular files under a storage root, and profiles them or
runs SQL on them over an HTTP API. About 2000 lines of Python are implemented;
many package directories hold empty files for later work.

| Component | Code | State it keeps | Operations |
| --- | --- | --- | --- |
| Query engine | `packages/query/duckdb.py` | per call: a connection, `_QueryExecutionState` (lock, `completed`, `timed_out`), a `Timer` thread | `execute`, `_interrupt_for_timeout` |
| Dataset repository | `packages/persistence/` | per process: `_connection`, `_lock`; shared: the SQLite file | `initialize`, `close`, `add`, `get`, `list`, `apply_migrations` |
| Storage provider | `packages/storage/blob/local.py` | none of its own; reads the file system | `describe`, `open_binary` |
| Loaders | `packages/loaders/` | none | `load` (CSV, Excel) |
| Profiler | `packages/profiling/` | none | `profile`, `collect_evidence` |
| Evidence domain and store | `packages/domains/evidence/`, `packages/adapters/evidence/` | one list of items per dataset, in memory | `record`, `for_dataset`, `for_column` |
| Dataset service | `packages/domains/dataset/` | none; uses provider and repository | `register`, `get`, `list` |
| Confidence | `packages/domains/evidence/confidence.py` | none | `from_score`, `insufficient` |
| Application services | `packages/services/` | none; use service, loaders, profiler, engine | `profile`, `query` |
| API | `apps/api/`, `packages/core/application.py` | the application-scoped services | routes, lifespan |
| Examples | `examples/` | none; six programs over loaders, profiler and engine | `main` of each |

How they interact:

- A request runs in a route coroutine that never awaits, so each process
  handles one request at a time on its event loop. Startup calls
  `repository.initialize()`, shutdown calls `repository.close()`.
- `register` calls `describe` of the provider and `add` of the repository.
  `profile` and `query` call `get`, then a loader (`describe`, `open_binary`,
  parse), then the profiler or the engine.
- Concurrency comes from elsewhere: the watchdog thread of each query; other
  processes on the same catalog file; threads that share one repository object
  (it takes an `RLock` and opens its connection with
  `check_same_thread=False`); the owner of the storage root, who changes files
  at will; and crashes and restarts.

What is hard, and what makes each component correct:

- *Query engine.* The query's completion races the deadline, and each side
  leaves a flag for the other. An answer must agree with who won, an
  interrupted query must not be blamed on its SQL, a call must not be refused
  because of another call's deadline, and nothing may outlive the call.
- *Repository.* A row that `add` reported must survive every crash; nobody may
  see an uncommitted row; a migration and its record must be committed
  together; an operation that fails must release lock and transaction.
- *Provider and loaders.* Existence, size, digest and rows are four separate
  looks at a path. They must agree when the file is left alone, no frame may
  mix two files, and an error must have been true at some moment.
- *Profiler.* Statistics, recommendations and evidence are computed in
  different places and must not contradict each other, on empty tables, single
  rows and columns with nulls in particular.
- *Order of the catalog.* `created_at` is drawn before the row is committed,
  from a clock that may stand still or be set back, and is sorted as a text
  whose length varies. Two lists must never disagree.
- *Evidence store.* No lock; a batch is recorded item by item, and read while
  it grows. Nothing recorded may be lost, repeated or moved, and a read must
  have been the answer at some moment.
- *Example programs.* A file is looked for first and loaded later, several
  times by some, and each load reads it twice; a failure in the middle must not
  look like success, and what is printed must be what the last load found.
- *Services and API.* The status must name the cause, a `201` must be durable,
  an answer must be about the dataset asked for, and a client that retries must
  be able to tell what happened. (The row cap of a query is not checked here;
  see "Not modelled".)

`PROJECT.json` lists the components with their status and every hazard at its
line, with the properties that would notice it.

## Modules

| Module | Models | Role |
| --- | --- | --- |
| `QueryGovernance` | what `execute` promises | abstract specification |
| `DuckDBQueryEngine` | `duckdb.py` | implements `QueryGovernance` |
| `DuckDBQueryEngineProofs` | | theorems |
| `DatasetCatalog` | the `DatasetRepository` port | abstract specification |
| `SQLiteDatasetRepository` | `sqlite_dataset_repository.py`, `migrations.py` | implements `DatasetCatalog` |
| `SQLiteDatasetRepositoryProofs` | | theorems |
| `RegistrationOrder` | `service.py` and `models.py` of the dataset domain, `list` of the repository | composes processes, a clock and `DatasetCatalog` |
| `RegistrationOrderProofs` | | theorems |
| `AssetLoading` | `local.py` under `csv.py` and `excel.py` | loads and the owner of the files |
| `AssetLoadingProofs` | | theorems |
| `DatasetProfiler` | `profiler.py` | a function of tables |
| `DatasetProfilerProofs` | | theorems |
| `EvidenceStore` | `in_memory_evidence_store.py`, `evidence/models.py` | runs and readers on one store |
| `EvidenceStoreProofs` | | theorems, also those of `Confidence` |
| `Confidence` | `confidence.py` | a function of scores |
| `DatasetApi` | `apps/api/`, `service.py` of the dataset domain, `packages/services/` | composes processes, clients and `DatasetCatalog` |
| `DatasetApiProofs` | | theorems |
| `ExampleScripts` | `examples/*.py` | one program and the owner of the files |
| `ExampleScriptsProofs` | | theorems |
| `MC...` | | instances for TLC |

In each module the definitions with a comment `Fault:` are not part of the
specification. Each is a plausible bug in the definition that follows it; with
the bug in place TLC finds the property that is meant to notice it violated.
The pairs are listed under "mutants" in `PROJECT.json`.

### DuckDBQueryEngine

A call of `execute` has a label `pc[c]` at each statement whose order matters:
the guard on blank SQL, `connect`, `register`, `timeout.start()`, the query,
`completed = True` under the lock, `timeout.cancel()` in the `finally` clause,
the end of the `with` statement, and the decision from `timed_out`. Every
statement may raise a `duckdb.Error` or something else, and goes to the handler
Python would go to; a failure before `timeout.start()` skips the `finally`.

The watchdog is `Timer.run`: it waits, is cancelled or wakes, takes the lock
and sets `timed_out` unless `completed`, releases the lock, and interrupts the
connection. `cancel()` does nothing to a watchdog that is awake.

DuckDB is external and modelled by one interrupt flag per connection, which is
cleared when a query begins and polled while it runs. That it is cleared is
what makes an early interrupt disappear.

The refinement mapping takes `race` from the two flags: `timed_out` decides if
both are set.

### SQLiteDatasetRepository

Threads belong to processes; a process has one connection and one `RLock`. An
operation takes the lock, dispatches on `_connection`, and runs its statements
one action each; `StatementFails` lets any of them raise. SQLite is external:
one write transaction at a time on a private copy (`writer`, `work`), which
`Commit` makes the committed database (`disk`); a read sees the transaction of
its own connection. `Crash` kills a process between any two steps. The file at
the start is new, or was left by an earlier release with fewer migrations.

`MIGRATIONS` holds one migration today. The module takes their number as a
constant, because `apply_migrations` is a loop over any number of them: with
two, a crash or a second process between migrations is possible.

The refinement mapping shows the port's operations (`add`, `get`, `list`);
`initialize` and `close` are steps of the host that a client does not see.

### RegistrationOrder

`Register` is the moment `DatasetService.register` makes the dataset: it draws
the identifier and reads the clock. `Add` is the repository's work, `Answer` the
return to the client, `Select` and `List` the two ends of `list`; the rows come
from `DatasetCatalog`, so that what the port promises is what is used here.
`Text` is what `isoformat` makes of a UTC time: without microseconds, the offset
follows the seconds at once. `Less` compares such texts as SQLite does: the
seconds, then the character after them, then the fraction. Identifiers are
numbers, in the order of the text of UUIDs.

The clock ticks, stands still between two registrations, and is set back at most
`MaxSetBacks` times. `shown`, `told` and `earlier` are history: which of two
datasets some list had first, when a registration was answered, and what had
been answered, at an earlier reading of the clock, before a dataset was made.

### AssetLoading

One action per system call on the path: `exists`, `is_file`, `stat`, `open`,
reads, and the second `exists`, `is_file` and `open` of `open_binary`. A file
is a sequence of chunks, and a chunk is identified by the file it belongs to
and how often it was rewritten, which is all that digests and rows are compared
by. The owner replaces, rewrites or deletes the file, or makes a directory,
between any two system calls. `kinds`, `inodes` and `stable` are history, used
by properties only. Symbolic links and the lexical checks on the reference are
one refusal at the start; a reference with a NUL in it ends there too, with the
`ValueError` of `resolve()`, which stands outside the `try` (`local.py` line 55).
`Parse` may also end `"Uncaught"`: the loaders turn the exceptions they name into
their own error (`csv.py` line 40, `excel.py` lines 35-43) and let others pass.

### DatasetProfiler

A table is a schema and rows; the statistics, the five recommendations and the
evidence items are operators with the names and guards of the code. Column
names are of three sorts (reserved, suffixed, other) and types of five, which
is what the code's tests on them distinguish. A table has finitely many columns,
as a `DataFrame` has. Percentages are rounded down.
Column order, descriptions, identifiers and the time stamp are left out.

### EvidenceStore

`record` is two actions, `SetDefault` and `AppendItem`, since each of
`dict.setdefault` and `list.append` is one step of the interpreter and there is
no lock. A run records its evidence item by item and may stop between two items.
`for_dataset` is one action; `for_column` evaluates its list once and then takes
one item at a time while runs may append. A list is named by the run that
brought it, so that a run that went on with a list no longer in the dictionary
would be seen. `due` is history: the evidence when a reader asked.

No service of the application records into a store or shares one between
threads yet, and none keeps evidence across restarts, so that nothing can go
wrong there today and `PROJECT.json` lists no hazard for the store; the port (`evidence_store.py`) and its tests say how
it is to be used, and runs and readers are what they name.

### Confidence

A score is an exact number of units, so that the thresholds are exact. Binary
fractions are finer than any fixed unit; the theorems hold for every unit.

### DatasetApi

Server processes with an event loop each. `queue[p]` holds the requests a
process has; `pc[p]` is where the handler of the oldest one is: its first call,
inside the repository, before the load, or executing. A handler never awaits,
so the next request begins only after `Respond`. Requests are sent to any
process; responses are delivered or lost; a process stops when its queue is
empty, crashes at any step, and is started again.

The catalog is an instance of `DatasetCatalog` with a process for each of its
threads: a handler's call is `Request`, the repository's work is `Store`,
`Read` or `Fail`, the return is `Return`, a crash is `Lose`. Since
`SQLiteDatasetRepository` implements `DatasetCatalog`, what holds here holds
with it. `Status` is the table of the routes' `except` clauses. Each use of an
asset may find it or fail, since its owner may change it at any time; what the
loaders and the engine then do is in their own modules, and here each call has
one of the outcomes those leave: a `ValueError` of `describe` for a NUL in the
reference of a registration, and an exception that a loader does not translate,
are among them, and become a `500`.

`due` and `known` are history: the datasets that some client had been told of,
and those among them that a request concerns.

### ExampleScripts

Each program is a record: the directories and extensions of its references,
whether it takes several, its stages, of which `at` is the current one, what it
prints, and the classes its `except` clause names. All six share the actions,
since their code is the same but for these: `Parse`, `Look` and `Discovered` for
the walk of the directory, `Resolve` for a reference of the command line,
`Describe` and `Load` for the two reads of one call of a loader, `Compute` for
profile or query, `Display` for
one result: the one that is `Due`, after those that are `Hidden` because the
program prints only what it computes from what it loads. `Raise` asks `Handles` whether the clause catches an exception or a
class above it. The owner of the files changes them between any two actions.
There are no symbolic links. A content is the number of the change that wrote
it, plus one, so that of two contents one can say which is newer. A result keeps
what its load described (`asset`), what it parsed (`content`), and, as history,
how many changes there had been when that load began (`begun`); `changed` holds
the last change of each path and `fixed` the paths that are there since discovery
began.

`ReportsTheLastLoad` says what follows when the owner leaves a file alone, and
what holds when not: what was described and what was parsed may then differ, so
that the SHA-256 the demonstration prints (`integration_demo.py` line 256) need
not be that of the rows it profiles and queries.
`DomainErrorsAreReported` is about the `except` clause of each `main`. These
name `FileNotFoundError` and `ValueError` besides the errors of the domain, so
that a `UnicodeEncodeError` of the terminal, a plain `FileNotFoundError` and too
few iterations end with a message as well; any other `OSError` ends with a
traceback.

## Runs

| Run | Shows | Instance | States |
| --- | --- | --- | --- |
| `query_engine` | answers agree with what happened, nothing is left behind, `EngineInv`; the engine implements `QueryGovernance`; a running query ends, if its watchdog has yet to interrupt | 2 calls | 9 800 |
| `query_engine_lost_interrupt` | violated: a deadline ends the call | 1 call | |
| `catalog` | durability, no dirty reads, whole migrations, `RepositoryInv`; the repository implements `DatasetCatalog` | 3 threads, 2 processes, 2 datasets, 2 migrations, symmetric | 230 000 |
| `catalog_liveness` | the lock is released | 3 threads, 2 processes, 1 dataset, 1 migration | 67 000 |
| `asset_loading` | reads and errors under a changing file | 1 operation, 2 chunks, 3 files, 1 rewrite of each chunk | 625 000 |
| `asset_deleted_under_load` | violated: a deleted asset is reported as not found | the same | |
| `profiler` | statistics, roles and evidence agree | all tables of up to 3 rows and 6 cells over 3 values and null | 450 000 |
| `api` | what clients are told stays true in every process; a status names its cause; requests are answered | 2 processes, 2 connections, 1 dataset, 2 assets, one without a loader | 286 000 |
| `api_lists_own_process` | violated: `list` is about the current process | 2 processes, 2 connections, 1 dataset | |
| `registration_order` | lists are chronological, agree with each other, and follow the registrations | 2 processes, 2 identifiers, 4 readings of a clock with 2 in a second, set back once, symmetric | 560 000 |
| `evidence_store` | runs are whole, reads were true at a moment, history only grows | 2 runs of up to 2 items, 1 reader, 2 datasets, 2 columns, symmetric | 455 000 |
| `examples` | the programs print what was asked, as the last load of it found it, and report domain errors; discovery finds the first | 5 paths, 2 iterations, 2 changes | 3 760 000 |

Why the bounds are enough. Calls of the engine share only the object's
settings, so two calls show everything one can do to another. Two threads of
one process meet at the `RLock` and the shared connection, and a third in
another process meets them at SQLite's lock; two datasets let one insert fail
while another commits; two migrations give the loop a state between them. Loads
share nothing, so one is enough; three files allow a replacement before and
after each of its two opens, and two chunks a change in the middle of a read.
For the profiler three rows are the first table in which "all values distinct"
and "some value repeated" both have cases with and without nulls. For the API
two processes give a dataset stored by one and looked for by the other, or drawn
by one that dies before it is stored; two connections give a request that waits
behind another, or that another process answers; and two assets one that no
loader takes. A registration is not undone, so that one identifier, stored or
not at the start, has all its states; that an answer is about the dataset asked
for among several is a theorem (`AskedIsAnswered`), and so is everything else
this run checks but liveness. For the order of lists, two identifiers are a
pair, which is all that an order relates; four readings of the clock, two in a
second, have a whole second before and after a fraction; one set-back makes the
younger of two the first. Two runs of the evidence store meet in one dataset or
use one each, each can stop before its second item, and a reader can be
overtaken at each item; readers share nothing. For the examples, two references
have a first and a second, two loads a change between them or between the two
reads of one, and two changes a file that goes and comes back; one of the paths
lies below `datasets/` where only the benchmark takes it.

The runs of the engine and the repository check for deadlock: a finished call
stutters by `Finished`, and a repository can always be called again. A load, a
profile and an example program come to an end, so `profiler` and `examples` do
not check it; in `asset_loading` an operation is only ever waiting for its own
next system call, and the runs check that too.

`TypeOK` is an invariant of its own in the runs of `AssetLoading` and
`DatasetApi`. Elsewhere a checked invariant contains it: `EngineInv`,
`RepositoryInv`, `CountsAgree` and `PrintsWhatWasAsked`. For `RegistrationOrder`
and `EvidenceStore` it is only proved. Each component has a theorem
`TypeCorrectness`.

Fairness. For the engine, both threads are scheduled and DuckDB polls its
interrupt flag; that a query ends by itself is *not* assumed, which is the
reason a watchdog exists. For the repository, a thread that holds the lock is
scheduled; nothing is assumed about callers, crashes, or the order in which an
`RLock` admits its waiters, so there is no claim that a waiting thread ever
gets the lock. A busy database ends in `StatementFails` after `busy_timeout`,
so waiting for another process's transaction is not waiting for ever. That is
why the API may assume that a call of the repository returns. It does not
assume that a query or a profile ends (`Execute` has no fairness): that is the
premise of `RequestIsAnswered`, and after a lost interrupt it is false. Order in
the queue is that of arrival, as in asyncio; clients, crashes and restarts have
no fairness.

### Disagreements with the documentation

- `api_lists_own_process`: `datasets.py` line 53 says that the route returns
  the datasets of the current application process. It reads the shared file, so
  it returns those of other processes and of earlier runs too.
- `query_engine_lost_interrupt`: ADR-0010 says that execution is interrupted
  after 30 seconds. The timer starts before the query; if it fires in between,
  DuckDB forgets the interrupt when the query begins and the query then has no
  limit. `RunningQueryEnds` states what is left of the promise.
- `asset_deleted_under_load`: an asset that disappears while it is described or
  opened is reported as an invalid reference (400) or as a plain
  `FileNotFoundError` (500), not as `StorageAssetNotFoundError` (404).

Seen while modelling, and not the subject of a run:

- `duckdb.py` line 94 says that the watchdog interrupts a running query. It also
  calls `interrupt()` before the query began, after it failed, and on a closed
  connection. No answer becomes wrong by it.
- `dataset_repository.py` line 25 promises "deterministic registration order".
  The order is deterministic (`OrderIsStable`), but it is that of creation times
  and then of random identifiers: two datasets registered one after the other
  within a microsecond, or around a clock that was set back, may be listed the
  other way round. `RegistrationOrder` states what is left.
- Most examples look below `datasets/sample/CSV`, while the repository ships
  `datasets/sample/csv`; on a file system that tells the two apart they find
  nothing. The default files of the benchmark, `TxnLevel.csv` and
  `TxnLevel.xlsx`, are not shipped, and the SQL of the demonstration needs
  columns `Status` and `Amount`.

## Proofs

All theorems hold for any finite or infinite sets of calls, threads, processes,
connections, runs and identifiers (`RegistrationOrder` alone takes a finite set
of these, for its lists), and for tables, files and histories of any size; the
assumptions are the `ASSUME`s of the modules, which state that constants have
the right type and that a value such as `None` is not one of the others.

*Engine* (`DuckDBQueryEngineProofs`). The safety properties are not inductive:
that a result was never interrupted depends on where the watchdog is when the
caller decides. `EngineInv` adds, for each label of one thread, what it knows
of the other's flag: `timed_out` is set exactly from the watchdog's decision
on, `completed` exactly when data was returned and marked, and an interrupt is
never pending without `timed_out`. `EngineInvariance` proves it action by
action; `TypeCorrectness`, `ResultSafety`, `InterruptBlame`, `LimitIsolation`
and `Cleanup` follow. `EngineImplementsGovernance` maps each step to
`Complete`, `Expire`, `Answer` or a stutter.

*Repository* (`SQLiteDatasetRepositoryProofs`). `RepositoryInv` says who may be
where: a thread is inside an operation exactly while it holds its process's
lock (`LockInv`); an open transaction belongs to a process whose lock holder is
between the statement that opened it and the commit (`WriterInv`); the
transaction's copy differs from the committed database by exactly the
operation's own row or migrations (`TransactionInv`), so a commit loses nothing
of anybody else; and an answer about to be given speaks of committed rows only
(`OperationInv`). `Durability`, `NoDirtyReads`, `MigrationAtomicity`,
`OpenIsMigrated`, `TransactionsEnd` and `CommittedStays` follow, and
`RepositoryImplementsCatalog`: `Commit` of an `add` is the moment of `Store`,
`Select` that of `Read`, a crash that of `Lose`.

*Profiler* (`DatasetProfilerProofs`). The invariant only says that the result
and the evidence were computed from the table; the rest are counting arguments
about tables of any size. `UniqueColumn`: the cells that are not null map onto
the distinct values, so if these are as many as the rows, no cell is null and no
two rows are equal. `Uniqueness`, `Roles` and `EvidenceExplains` rest on it.
`NullsAddUp`: the sum of the columns' null counts is the number of null cells.
The sum is a fold, which chooses the order in which it adds, so its lemma
`SumOfNullCounts` is an induction over sets of columns in first-order form: it
takes a smallest set for which the sum would be wrong and one column out of it.
`DuplicatesAreRepetitions`: the height minus the distinct rows is the number of
rows that repeat an earlier one, since each content has one first row. `Counts`
and `TypeCorrectness` rest on these and on `PercentageRange`.

*Loading* (`AssetLoadingProofs`). `LoadingInv` says what a load knows at each
of its system calls: the path once named a file if it got past the checks
(`Watched`), the open handle and each chunk read from it are of one file that
the path named (`OneHandle`), and while nobody touched the path since the load
began, what was seen so far is what the path holds (`Untouched`). Each action of
the load keeps this for itself and for the other loads, and each change by the
owner ends the last part for the loads that are under way. `QuiescentAgreement`,
`OneFile` and `TruthfulErrors` follow.

*Order* (`RegistrationOrderProofs`). The arithmetic is in two lemmas: the texts
of two times compare as the times do (`TextsAreChronological`), and different
times have different texts. `Precedes` is then a total order that does not
change once two datasets are made. `OrderInv` says that what a process was given
is sorted by it, that what was shown agrees with it, and that, while the clock
was not set back, what was answered at an earlier reading was created earlier.
`Chronology`, `StableOrder` and `AnsweredFirst` follow.

*Evidence store* (`EvidenceStoreProofs`). `StoreInv` adds to the properties that
a list in the dictionary belongs to the dataset of the run that brought it, that
any other list is empty (`Owned`), and that a reader under way has found exactly
what is about its column among the items it has passed (`Reading`). The two
lemmas that carry the argument are `AppendItemExtendsView` (an append is to the
list readers see) and `SelectionGrows`. `WholeRuns`, `CurrentReads` and
`AppendOnly` follow.

*API* (`DatasetApiProofs`). The properties speak of responses; whether a
response will be true depends on what the catalog was asked, for which dataset,
and what it said. `ApiInv` follows that chain: what a request concerns is stored
(`SentInv`); an identifier drawn for a registration belongs to the process that
drew it and is stored exactly if the catalog said so (`AddInv`), which is why no
other process can store it and why an insert never meets its own key; what a
look-up found includes what the request concerns (`FindInv`); a connection is in
one place of one queue (`QueueInv`). `RespondPreserves`, `WorkPreserves`,
`ClientPreserves` and `CrashPreserves` are the four kinds of steps, and each
action is one or two of them. `KnownDatasetsAreFound`, `AtomicRegistration`,
`AskedIsAnswered` and `StatusesNameCauses` follow.

*Example programs* (`ExampleScriptsProofs`). `ScriptInv` has one part for each
part of a program. `FindInv`: while the directory is read, a file that was there
all the time and fits is found or not yet looked at; afterwards the one reference
is the first of those found, or the references are those of the command line.
`LoadInv`: the results are those of the references in their order, each after as
many loads as asked, then those computed from the only one; the frame in memory
is the one that was reported; and between the two reads of a load (`Loading`) the
file is what was described, is gone, or was written since. `PrintInv`: what is
printed is an initial part of what is to be printed, the kinds of results are
those of the stages that are over, and at the end nothing is left. The lemma `Programs` collects what the
six programs have in common (all begin alike and end with a print), and `Caught`
says that their `except` clauses catch exactly the errors of the domain, with
`ValueError` and `FileNotFoundError`; the rest never looks at a particular
program. `PrintsAll`, `LastLoad`, `Reported` and `FirstIsFound` follow.

*Composition.* `ApiUsesCatalog` and `OrderUsesCatalog`: `DatasetApi` and
`RegistrationOrder` do nothing to the catalog that `DatasetCatalog` does not
allow, whatever their other state. Each step is one of the catalog's or leaves it
alone, and a crash is a client that is lost. Both modules take their steps on the
catalog from its instance, so these two are short; they are the other side of
`RepositoryImplementsCatalog`.

*Confidence* (in `EvidenceStoreProofs`). `ScoresAreMonotone` and
`DecliningIsNoScore` are about the function itself, by cases on the thresholds.

Model-checked only: the liveness properties `RunningQueryEnds`, `LockIsReleased`
and `RequestIsAnswered`. They rest on fairness, and so on `ENABLED`, which the
provers cannot handle. The three runs that expect a violation have nothing to
prove.

## Not modelled, and what comes next

Constant answers (`system.py`), request and response models, settings, logging
and the empty packages have no behaviour to model. The interpretation records
and semantic types of the evidence domain are declarations that nothing
produces yet, which is why that component is only partly modelled. DuckDB,
SQLite, Polars and the file system are modelled only as far as the code relies
on them.

Two hazards have no property. The size and digest of a registration are never
compared with the file that a later request loads (`service.py` line 36); ADR
0009 puts that out of scope, so the code promises nothing that could fail. The
row cap applies to a result that is already in memory
(`dataset_query_service.py` line 41); the models have no memory, and the cap is
one of the refusals of a query.

What is left to do:

1. When a service records evidence, its runs belong into `DatasetApi`, and a
   durable store, announced by the port, needs crashes in `EvidenceStore`.
2. A second migration would give `LastVersion` a value above one in the code; the
   module and its theorems already cover it.
