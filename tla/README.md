# A TLA+ development of go-evm-indexer

go-evm-indexer reads logs from EVM chains into log stores and hands the stored logs to plugins.
This directory holds TLA+ modules of its parts, the TLC configurations that check them on small
instances, and theorems about them that the TLA+ proof system TLAPS checks for every value of the
constants. `PROJECT.json` gives, for every definition, the lines of the repository it models.

    tlc -workers 2 -config MCSourceIndexer.cfg MCSourceIndexer    # a run
    tlapm SourceIndexerProofs.tla                                 # the proofs of a module

## 1. The system

### Parts, their state and their operations

| part | code | state | operations |
|---|---|---|---|
| source indexer, one worker per source | `internal/indexer/indexer.go` | its copy of the source row, the loop's cursor, the window; columns `sync_block`, `status` | `Serve`, `serveIndexation`, `indexRange`, `registerFactoryChildren`, `markStopped` |
| source manager | `internal/indexer/service.go` | maps source id -> service and token, under a mutex; column `enabled` | `Start`, `EnableSource`, `DisableSource` |
| exporter runner, one per exporter | `internal/exporter/exporter.go` | the place (completed block, last log index), the range; columns `sync_block`, `sync_log_index`, `status` | `Serve`, `run`, `exportRange`, `persistCursor`, `fail` |
| exporter manager | `internal/exporter/service.go` | maps exporter id -> service and token, under a mutex; column `enabled` | `Start`, `EnableExporter`, `DisableExporter` |
| event bus | `internal/bus/bus.go` | registered handlers | `Emit`, synchronous in the caller's goroutine |
| log stores | `internal/database/log-stores/` | logs and transactions | `Init`, `InsertLogs`, `InsertTransactions`, `GetLogsAfter`, reads of users, `DeleteSourceData` |
| metadata database | `internal/database/evmi-database/` | rows of sources, rules, exporters, plugins, users | column updates, full-row saves, creation |
| API handlers | `internal/grpc/` | none of their own | create, update, delete, start and stop of sources and exporters, plugins, users, lists in pages, streams |
| update streams | `internal/grpc/stream-handlers.go` | a bounded channel per client | forwarding of bus events to a client |
| plugin installation | `internal/exporter/loader.go` | plugin rows, `.so` files, the objects a process has opened | install, verify, load |
| authentication | `internal/auth/` | users, tokens, OAuth providers | login, verification, revocation |
| gateway | `internal/gateway/` | resolver caches, client pool | one forwarding method per operation: to an owner, to any instance, to all |
| autoloader | `internal/autoloader/` | none of its own | `Load`: creates rows from a configuration file |

### How they interact

A worker polls its chain, indexes windows of blocks and then moves `sync_block` of its row. A FACTORY
worker also creates the rows of the contracts it discovers and emits `EnableSourceTopic`, on which
the source manager starts their workers, in the goroutine of the worker that emitted. The exporter
never talks to the workers: it reads the source rows, takes the least `sync_block` of the enabled
ones as its head, queries the store up to it and hands the logs to its plugin one at a time, in
(block, index) order, moving its own cursor after each. Both kinds of worker run under suture
supervisors, which call `Serve` again when it returns an error. The managers start and remove
services on bus events, which the API handlers emit. Several instances may share one metadata database,
each working on the pipelines it owns: every one of them seeds the first administrator, loads its configuration
and checks the same tokens; a gateway in front finds the instance that owns what a request is about.

### What is hard

* **Failure at every step.** A window is four writes (logs, child rows, transactions, cursor) without
  a transaction around them, a hand-over two (plugin, cursor). Any of them can fail, and the process
  can die between any two.
* **Several copies of one cursor.** The column, the struct that survives a restart by the supervisor,
  and the loop's local each move at a different moment.
* **A pipeline that changes under the exporter.** Children appear, sources are disabled and rows
  edited between the choice of the head, the query and the hand-over.
* **Handlers on many goroutines.** The source manager's mutex guards its maps only, not the row it read
  before nor the worker it removes after.
* **Waits with a limit.** `RemoveAndWait` gives up after a minute; the worker it removes looks at its
  context only between windows.
* **Look-ups and creations that nothing joins.** Loads, logins, deletions of subtrees and edits are
  sequences of statements without a transaction, on rows that other requests and instances change.
* **Copies that go stale.** The gateway routes by cached rows; a build of minutes ends in a row
  that may have been edited meanwhile; an update handler saves every column it read.

### What makes each part correct

* Worker: the cursor never covers what was not written; it never goes back; a child starts before the
  block that deploys it; with failures that end, everything is stored in the end.
* Exporter: no log is skipped, order is the chain's, what was recorded is not handed over again, and it
  catches up.
* Managers: a source or exporter has one worker, none is lost, a disabled one ends.
* Administration: an edit does not undo what a worker wrote; deletion leaves nothing behind.
* Plugins: what is installed is the build of what the row says; a cut-off install is taken up.
* Users: an administrator always remains, what is revoked stays revoked, a login that was begun can end.
* Gateway and streams: a moved instance is found again, an install misses none, the last update arrives.
* Stores: what was acknowledged can be read, once and in order, whatever was replayed.
* Autoloader: repeated or interrupted, it leads to what was declared.

The hazards, each at its line and with the properties that would catch it, are in `PROJECT.json`.

## 2. The modules

| module | models | checked by | proved in |
|---|---|---|---|
| `LogSource` | the contract of a source: the cursor grows, and covers stored logs only | `source_indexer` (implemented) | `SourceIndexerProofs` |
| `SourceIndexer` | one worker | `source_indexer`, `factory_retry` | `SourceIndexerProofs` |
| `Exporter` | one runner on a changing pipeline, and edits of its row | `exporter`, `exporter_edits` | `ExporterProofs` |
| `SourceManager` | concurrent enabling and disabling of one source | `source_manager` | `AdministrationProofs` |
| `ExporterManager` | concurrent requests about one exporter, under the manager's mutex | `exporter_manager` | `ExporterManagerProofs` |
| `SourceTree` | a tree of factory sources: registration, edits, deletion of the subtree | `source_tree` | `StorageProofs` |
| `Plugins` | one plugin: its row, its builds, its file, what the process has opened | `plugins` | `PluginsProofs` |
| `LogStorage` | the contract of a log store | `log_store` (implemented) | `StorageProofs` |
| `LogStore` | the five kinds of store under replays, deletion and paged reads | `log_store` | `StorageProofs` |
| `Access` | users, tokens, OAuth logins on several instances | `access` | `AccessProofs` |
| `Gateway` | routing, fan-out of installs, update streams | `gateway` | `GatewayProofs` |
| `Catalog` | loads of the configuration by several instances, handlers of the metadata, lists in pages, export | `catalog` | `AdministrationProofs` |

The modules meet in contracts and not in one large product. `SourceIndexer` implements `LogSource`, and
`Exporter` moves its sources as `LogSource` says; `LogStore` implements `LogStorage`, the store the
worker and the runner take for granted; `ExporterManager` and `SourceTree` hold the workers of the other
modules reduced to where they are.

### SourceIndexer

`head` is the chain, `syncBlock` and `status` are columns, `source` is `p.source.SyncBlock`, `latest`,
`current` and `from` are the locals `latestBlockNumberIndexed`, `currentBlock` and `i`; `stored`,
`txStored` and `child` are what the log store and the database hold. One action stands for one call
that can be seen from outside: `Poll` (`eth_blockNumber`), `FetchLogs`, the batches of headers and of transactions
that complete the logs (`LoadBlockTimestamps`, `LoadTransactions`, which count in `toLoad` what is still to be asked for),
`InsertLogs`, one `RegisterFactoryChild` per deployment, `InsertTransactions`, `AdvanceCursor`, and for each the failure:
`InsertLogsFails` leaves any part of the window in the store, `CloneFails` leaves a FACTORY child
without all its rules, `AdvanceCursorFails` leaves the cursor moved in memory only.
`ServeReturnsError` is the supervisor: `Serve` again on the same struct, or the end if the service is
being removed. `Cancel` is removal, `Crash` the death of the process.

What a log registers is computed from the rules of the source as `registerFactoryChildren` does (`Deploys`): the event
and the conditions must match (`ruleConditionsPass`, `evalCondition`, which compares numbers when both values parse as one
and strings otherwise) and the event must have the argument the rule reads the address from; the rule of least id makes
the row (`RuleFor`). Data is abstracted: a log is its block, its index, its event and its arguments, and a value of an argument is
the number it parses as, its place in the order of strings and what it contains. Two rules that name one address are
told apart, several deployments of one log are registered in any order. Decoding is not modelled. The batches of reads are
calls that succeed or fail, since they change nothing outside the worker. `eth_blockNumber` may answer any height up to
the chain's, as a lagging node does. Reorganisations are not modelled because the code does not handle
them: a window once passed is never read again.

### Exporter

The sources of the pipeline move as `LogSource` says (`SourceStores`, `SourceAdvances`), and a factory
registers its children before its cursor covers their birth (`RegisterChild`), which is
`IndexedUpToCursor` and `ChildStartsBeforeDeployment` of `SourceIndexer`. `ToggleSource` is what
`StartSourceIndexer` and `StopSourceIndexer` do to the row. `completed` and `last` are the locals
`completedBlock` and `lastLogIndex`; `syncBlock` and `syncIndex` the columns. `Poll` reads sources and head,
`FetchLogs` queries the store later, from whatever it then holds, `Deliver` and `Persist` are separated so that a crash
or failure fits between them. `EditReads` and `EditSaves` are the two halves of `UpdateEvmiExporter`.
`delivered`, `recorded` and `prev` are history variables, which no action reads in its guard.

The assumption that a nested factory registers its children is the one that finding 1 breaks: below a nested factory whose rules
are incomplete, children are never registered, so their logs are not stored and not exported. Edits are
assumed to keep start block, pipeline and `enabled`; they can change everything the runner writes.

### SourceManager

One source, several callers. A call is a sequence of steps, one per database access and one per critical
section, because those are the points where goroutines interleave; `snap` is the row `EnableSource` has
read, `token` what `DisableSource` took from the map. `DisableWaits` returns whether or not the worker
has ended, which is `RemoveAndWait` with its limit. Workers are `SourceIndexer` reduced to what it does
to the row: enter `Serve`, open a window, write the cursor, stop, fail.

### ExporterManager

One exporter, several requests. `step[c]` is the place of request `c` in `StartExporter` and
`EnableExporter` or in `StopExporter` and `DisableExporter`; both event handlers run in the goroutine
of the request and hold `mu` (`s.mu`) from `Locks` to `Returns`, the wait for the old runner included. `entry`
is the two maps, which hold one service or none. `HandlerFails` is a failed read or write of the handler at any
of its steps; it leaves the maps alone, as the early returns do. `WaitEnds` and `WaitTimesOut` are the two outcomes
of `RemoveAndWait`. Create, update (`UpdateReads`, `UpdateSaves`) and delete do not take the mutex. The
runner is `Exporter` reduced to whether it is in a range. `abandoned` records the runners `RemoveAndWait`
has given up on: only they may exist beside another, and the property says so.

### SourceTree

A root source, the factories below it and their children, each with its row, its `enabled` column, the pipeline its row
names, its rules, its logs in the store of each pipeline, and its workers. `entry` is the manager's maps, which hold one
worker of a source; `worker` has in its slots all that run. `StopSourceIndexer` takes a worker out of the maps and
waits for it outside the mutex, so a start may add a second one while the first is still in its window (`startSource`).
A worker writes to the store of the pipeline its row named when it was started. A start reads the row
(`StartSourceIndexer`) and starts what it has read (`EnableSource`), which may have been deleted in between.
`RegisterChild`, `CopyRules` and `EnableChild` are `registerFactoryChild`, in three steps since each may be the last:
a child whose rules could not be copied stays without them. A source is created as a row, then its rules one by one, as after an edit
(`CreateEvmLogSource`, `UpdateClearsRules`, `UpdateCreatesRules`); `UpdateSaves` writes every column, `enabled` as it was read and
the pipeline of the request. `DeleteEvmLogSource` is one action per step of the
handler: `DeleteReads` finds the source and with it the store to clear (`home`), `collectSourceSubtree` collects the ids
level by level, then for each id the worker in the maps is told to end and waited for, the data are
deleted, then rules, then rows. Each call can fail, which ends the deletion (`DeleteFails`) or, where the code only logs
(`DisableFails`, `RemoveTimesOut`), does not.

`escaped`, `late` and `former` are history: the sources the deletion did not stop for good, the children registered
after their parent had been looked at, and the pipelines an edit has moved the root away from or, while it was
being deleted, to. `DeletedIsGone` says that of a deleted source nothing else is left. A source has escaped when, and only when,
a worker that an earlier stop had removed was running as the deletion came to it, `RemoveAndWait` gave up or `DisableSource`
failed, a start took effect after the deletion had stopped it or deleted its row, or rules were given to it after the deletion
had deleted them. A second deletion at the same time is not modelled; the worker that it would find missing from the maps, because
the first has taken it out and waits for it, is the first of these cases.

Simplified: one deletion, one edit and one start by a user are under way at a time; a factory reads its rules when it
registers a child, not once per window; the autoloader creates the root before requests are served; a child that was deleted
and is registered again would be another node. That `UpdateEvmLogPipeline` may give a pipeline another store is not modelled: it would
leave logs behind as a change of the source's pipeline does.

### Plugins

One plugin. `source`, `status`, `soPath` are the columns, `file` the shared object in the install
directory, `work` and `built` the build directory that all builds of the plugin share. A build is
`InstallReads`, `InstallMarks`, `cloneRepo`, `buildPlugin`, `copyFileOpens`, `copyFile`, `extractConfigSchema` and the
record of the outcome, in a goroutine of a request or at boot; no lock is held. A boot imports the declared plugin, verifies what
is installed and rebuilds what is not there, then serves. `Crash` may come at any step and may wipe the
install directory. `image` is what `plugin.Open` has loaded into the process, by an exporter (`loadInstalledPlugin`) or for the
schema of a new build: it stays until the process ends, whatever is built later, and since
`copyFile` truncates the file that is mapped, it may be spoilt. `crossed` and `lost` are history: builds or edits overlapped, and a database error was ignored, as the code does.

### LogStorage and LogStore

`LogStorage` is what `interface.go` promises its callers: what an insert acknowledged is readable until the source
is deleted. `LogStore` has the five backends, chosen at the start (`kind`), each with its own way of absorbing a
replay: a row per id that is kept (SQL) or replaced (MongoDB, Elasticsearch, whose bulk may stop half way), rows that
pile up and of which `FINAL` shows the newest at each place (ClickHouse), files named after their range, written aside and
renamed (Parquet). `table` says whether a behaviour follows logs or transactions, which differ in their order and, in
ClickHouse, in their key. A store is opened and its tables are made by every worker and request (`LoadStore`);
`ensureIndex` of Elasticsearch looks before it creates, so one of two may be refused and start again. The worker inserts
a window, then advances its cursor, and may die in between; the next window need not end where the last one did. Users
list logs, transactions and the latest logs of a source, an exporter reads all sources of its pipeline, page by page
(Elasticsearch) or file by file (Parquet) while inserts and deletions go on: `ListFiles` lists the directory of a source, `ReadFile`
opens one of the listed files, whatever it then holds, and fails the read if it is gone, `SortFound` sorts what was found. A source may be deleted at any
step of its worker, in ClickHouse by a mutation that removes the rows some time later; in MongoDB, Elasticsearch and Parquet
a deletion may fail and leave a part (`DeletesSomeDocuments`, `DeletesSomeFiles`, `DeletionFails` of the contract). A document inserted
behind a deletion that is under way is not told apart from one inserted after it.

`ReadIsExact` asks of `GetLogsAfter` the order of block and index, as `interface.go` says and the exporter's cursor needs; of
the other reads, which page through nothing, only the order of blocks, which is all that ClickHouse and, for
transactions, most of the others ask their database for (`ByIndex`).

For the stores keyed by log id the sources are disjoint, because ids do not name the source (see Disagreements). A
read of several sources in ClickHouse shows a log that they share once, for one of them (`Has`); what it answers
are rows, so a transaction that has two places in the table comes twice.
All logs are on one chain: the cursor of an exporter, (block, index), cannot tell apart logs of two chains that share a
place. Bounds of a read by block are left out. `GetLogsCount` and `GetLogStream` have no caller, and the connections that
`LoadStore` opens for a request are never closed.

### Access

The three tables with their soft deletion and the unique index of usernames. A request reads its
token (`ReadToken`), the token's owner (`ReadOwner`), writes the last use (`Admit`) and is then served from
these copies, while other requests change the rows; a handler that updates a row reads it and saves all its columns
in two steps. The OAuth login signs a state with the provider's secret, creating it when missing
(`LoginOptionsReads`, `EnsureStateSecret`), and the callback verifies it, finds or creates the user and issues a token.
Signatures are whether the secrets agree. Instances boot, seed an administrator when they count no user, and crash.
`overlapped`, `demoted` and `created` are history.

### Gateway

`db` is the chain of rows from a source or exporter to the address of its instance, `cache` the
resolver's entries with their expiry, `fleet` the cached list of running instances. `LooksUp`, `Loads` and
`Stores` are `getOrLoad`, which reads outside its lock, so an older value may be stored after a newer one. The forwarding
methods are one per operation of the API and fall into kinds: to the owner of an entity (`RouteToEntity`), of a
pipeline (`RouteToPipeline`), to an instance named in the request (`RouteToInstance`), to any instance (`AskAny`,
`AskAnyAccount` for users and logins, `Proxied` for the OAuth callback), a stream from the owner of a pipeline
(`StreamOfPipeline`, pumped by `OpensPump` and `Pumps`), an install on every instance of the list, and a stream
merged from all. `Emits` puts an update in the handler's channel or drops it, `Relays` moves it to the channel the gateway
merges into, `SendsToClient` out of it. Time is a counter: TTL and the length of a database read are compared with it. The client
pool returns one client per address and has no state a request depends on.

### Catalog

The tables of chains, ABIs, stores, pipelines, sources and exporters, as sequences whose positions are the ids.
Each instance loads its configuration resource by resource in the order of `Load`: `EnsureReads` looks up the natural
key and the references, `EnsureCreates` inserts what was not found, `createFactoryRules` adds the rules of a factory,
`EnsureFails` is a database error, which is logged and passed over, and `Dies` is the death of the process at any step. `Users` are the create, update and delete handlers, an
update in two halves. A behaviour of another kind starts from a full table and lists it: `List` returns one page, by offset
and limit, from rows in the order the database scans them, which is that of the ids or, in PostgreSQL, any place a
written row was put (`Scanned`); `RowSaved` stands for the workers and others that save rows of that table. `Exported` is what `ExportConfiguration` writes of a row.

## 3. The runs

| run | configuration | bounds | what it shows |
|---|---|---|---|
| `source_indexer` | `MCSourceIndexer.cfg` | chain of 7 blocks, 6 logs, 2 rules, windows of 2, batches of 1, start block 1 | safety of cursor, store and children, refinement of `LogSource`, and liveness of a worker |
| `exporter` | `MCExporter.cfg` | 3 blocks, 5 logs, a plain source, a factory and its child, batches of 2, start block 1 | order, completeness, confined replay and liveness of a runner |
| `exporter_edits` | `MCExporterEdits.cfg` | 2 blocks, 4 logs, batches of 1, a source that is toggled, edits at any time, no start block | completeness on a pipeline and a row that change |
| `source_manager` | `MCSourceManager.cfg` | 2 callers, 2 workers, 1 block | no lost worker, live entries, removed workers end |
| `exporter_manager` | `MCExporterManager.cfg` | 2 requests at a time, 2 looks at the status, 2 runners | one runner, none lost, every request ends |
| `source_tree` | `MCSourceTree.cfg` | factory, nested factory and its child, 2 workers of a source at a time, 2 pipelines; 3 starts, stops, edits or registrations | what a deletion leaves behind, and only when |
| `plugins` | `MCPlugins.cfg` | 2 sources of the code, 2 requests, the config declares one source or nothing | what is installed is there and current, a cut-off install is resumed |
| `log_store` | `MCLogStore.cfg` | 3 logs or transactions in 2 of 3 blocks, 2 sources, disjoint or overlapping, pages of 1, the latest 1 | each backend implements `LogStorage`; reads are ordered, complete and without doubles, whatever happens between pages or files |
| `access` | `MCAccess.cfg` | 2 instances, 2 requests at a time, 3 in all, 3 users, 3 tokens, 1 provider, 2 boots | an administrator remains, revocation holds, a signed state verifies |
| `gateway` | `MCGateway.cfg` | 1 source, 1 pipeline, 2 instances, 3 addresses, 2 requests at a time, 3 in all, 1 change, 4 units of time, channels of 1, 3 openings of streams | routing, installs and streams with stale caches |
| `catalog` | `MCCatalog.cfg` | 2 instances, 3 boots, 1 database error or change by a user; or a table of 3 rows, pages of 1, 2 changes | loads are complete, and none creates a second row of what was there when it began; what a client misses of a list |
| `factory_retry` | `MCFactoryRetry.cfg` | as `source_indexer` | a violation, see Disagreements |

`TypeOK` is checked once per module (`exporter_edits` for the exporter, where without a start block the
`StartBlock - 1` of `run` would wrap). No run checks one of `Gateway`, `Catalog` and `SourceTree`: their variables hold records of
several shapes or plain sets, and every property reads most of them. Their types are proved.

Why the bounds are enough to be interesting. In `MCSourceIndexer` a block has two logs, a window spans blocks
with and without deployments, the last window is cut short by the head, an address is deployed twice, in
different windows, and one address is a nested factory, so a replayed window meets children that exist. One rule compares fees
as numbers, where strings would compare the other way, and one log of the right event fails its condition; a window has two
batches of each kind. In
`MCExporter` block 1 and block 2 hold logs of two sources, the child is born in the block of the
factory log that announces it, and a range ends inside and at the end of the chain; three blocks are two
ranges. Block 0 is left out of the chains: `blockBefore` says its logs are not resumable. `MaxUint`, the
largest log index, is 3: `cursorBound` uses it as "after every log of the block".

In `MCSourceManager` and `MCExporterManager` two workers are what an overlap takes, and two callers what an interleaving
takes; `MCExporterManager` bounds nothing else, and a request looks twice at the status so that the count matters.
`MCSourceTree` has the depth at which the ids collected level by level can go stale; three events beside creation and deletion
are enough to stop and start a source and then register a child, or move it, so that a deletion meets two workers of one
source, or logs in two stores (3,164,794 distinct states, the most of all runs; `source_indexer` has 18,328, `log_store` 476,514). `MCPlugins` bounds nothing
but its sets: two sources tell a current build from an old one, and the config may declare either. `MCLogStore` has three blocks, so a replay may
use a window that ends before, at or after the first one's end, and two logs of one block, whose order and keys matter. `MCAccess` gives each instance one request at a time; an
overlap of two is what the races take, and the third request shows what they left behind. In `MCGateway` two requests
race for one entry, and after the change there is time for an entry to expire and be read anew; the run
also passes with 5 units of time. `MCCatalog` lets an instance die in the middle of a load, start again and finish beside
another; three pages with two changes between them are enough to miss a row and to get one twice.

Seven configurations do not check deadlock, because the system may stop in them: workers or runners are used up
(`MCSourceManager`, `MCExporterManager`), the bounded requests, boots, changes or time are (`MCAccess`, `MCGateway`,
`MCCatalog`), or a deleted row is the end of the story (`MCPlugins`, `MCSourceTree`).

Every property of a passing run has a mutant in `PROJECT.json`, an operator beside the action it
changes, marked "Mutant" and used nowhere, with which the property fails.

History variables, which no action reads in its guard, keep what a property must speak of: `delivered`,
`recorded`, `prev` of `Exporter`, and the exceptions (`abandoned`, `escaped`, `late`, `crossed`, `lost`, `overlapped`,
`demoted`, `created`), each set by the steps that make it and by no other. An exception is stated as narrowly as
TLC allows: what happens in it is listed below.

### Fairness

Workers and runners are goroutines whose calls return, so a step that stays possible is taken
(`WF_vars(WorkerStep)`, `WF_vars(RunnerStep)`, one per caller and worker in `SourceManager`). A process that
died is started again. Failures must end: `<>[][~Fault]_vars`, since a worker whose node never answers
gets nowhere. Nothing is assumed of the chain (it need not grow), of the sources (they need not move) or
of operators (nobody has to enable anything again): the liveness properties speak of what is
below the head, and except a disabled worker. For the worker, weak fairness includes that the node reports
in the end a head worth indexing when there is one, as a node that lags for ever would not.
`RemovedWorkersEnd` needs no end of failures: a removed worker that fails is gone as well.

In `ExporterManager` a request under way goes on (`WF_vars(Proceed(c))`): goroutines are scheduled, and
`RemoveAndWait` has its limit. A mutex of Go lets everyone in who waits, so taking it is strongly fair. Nothing is
assumed of the runner or its plugin: `EveryRequestReturns` holds although `NewLogEvent` may never return.

### Disagreements

`factory_retry` is expected to fail: the retry of a window does not repair a nested factory whose
rules could not all be copied. Its row exists, so `registerFactoryChild` returns, and the cursor passes,
against the comment that the range is retried.

Other statements of documents and comments are kept as definitions no run names; TLC refutes each when it is added as
an invariant or property to the configuration given.

| definition | configuration | what happens |
|---|---|---|
| `NeverReplaysRecorded` (`Exporter`) | `MCExporter.cfg` | inside the start block the cursor is below `StartBlock`, so a restart resets it and hands recorded logs over again; `ReplaysOnlyStartBlock` shows that it is the only block |
| `DisabledSourceStalls` (`Exporter`) | `MCExporterEdits.cfg` | a disabled source does not stall the exporter; its stored logs are passed over |
| `CursorNeverRewound` (`Exporter`) | `MCExporterEdits.cfg` | `UpdateEvmiExporter` saves the whole row as it read it, so a cursor moved in between goes back; `NoSkip` still holds |
| `StartedAtMostOnce` (`SourceManager`) | `MCSourceManager.cfg` | `DisableSource` frees the map entry before the old worker has ended, so an `EnableSource` starts a second one |
| `NoStaleInstalling` (`Plugins`) | `MCPlugins.cfg` | a reinstall cut off while the old file was there stays INSTALLING |
| `SchemaIsCurrent`, `ImageIsCurrent` (`Plugins`) | `MCPlugins.cfg` | after an edit and a reinstall the process goes on with the image it had opened, and records its schema |
| `RebuildNeverSkipped` (`Plugins`) | `MCPlugins.cfg` | an edit during a build is followed by INSTALLED with the old source's object |

The rest were met while modelling. Where a property holds only beside them, it names the exception.

* A new exporter of the autoloader has `sync_block = StartBlock`, so the start block is not exported.
* An abandoned runner goes on beside the next one (`OneSerialRunner` leaves it out).
* An edit may move a source to another pipeline; its children and its running workers keep the old one, and a deletion
  clears the store of the new one, against the comments that the whole subtree shares one store (`DeletedIsGone` leaves
  `former` out).
* A deletion waits for the worker in the maps, for a minute: one that an earlier stop has taken out of them, one in a longer
  window, or one started from a row read before, writes on when rows and data are gone (`escaped`).
* A factory in its window registers children after `DeleteEvmLogSource` has collected the ids
  (`OrphansAreLate`).
* A load cut off between a source and its rules is never completed: the source exists (`LoadedComplete`
  leaves the rules out). Repeating a load does not lead where one undisturbed load does.
* Two administrators who delete each other, or one who gives up its role, leave none (`AdminRemains`).
* When all users are deleted the name `admin` is still in the unique index, so seeding fails and with it the
  start of the process (first disjunct of `BootSeeds`).
* `InvalidateInstance` has no caller, so a stale address is used until it expires (`RoutesToOwner` waits
  for that); an install leaves out an instance that the cached list does not have yet (`InstallCoversFleet`); a stream
  does without a backend that cannot be reached and says so to nobody.
* An update dropped because the channel is full may be the last one about its row (`StreamIsCurrent`).
* Ids of logs do not name the source: two sources that match one log share its row in SQL, MongoDB and
  Elasticsearch, and the deletion of one takes the other's (`MCLogStore` has overlapping sources for the
  other two kinds only).
* The key of a transaction in ClickHouse is its number in the list of its window, so a replay in another window puts
  it at a second place, and a list returns it twice (`SortingKey`; `ReadIsExact` excepts exactly this).
* `DeleteSourceData` of ClickHouse returns before its rows are gone; reads until then still return them.
* `copyFile` truncates in place an object that exporters of the process may have open.
* `cursorBound` passes the largest 64-bit index to the store, which Go's `database/sql` refuses as an argument.
* `CreateEvmLogPipeline` sets no chain, so an exporter on such a pipeline fails, and the export of the configuration
  cannot be loaded again.

## 4. The proofs

Each proof module extends the module it is about. Two extend a pair of modules, about variables of their own: `StorageProofs` has the
proofs of `SourceTree` first and then those of `LogStore`, `AdministrationProofs` those of `Catalog` and then of `SourceManager`. The assumptions are the `ASSUME`s of that module:
block numbers are naturals, logs have distinct places, windows and batches are not empty
(a `BlockRange` of 0 makes the window loop spin for ever; an `RpcMaxBatchSize` of 0, with which `computeLogsAndTxs` never
ends, is admitted, since it breaks no safety property, and `EventuallyStored` is then refuted), a child's factory is above it in the tree
and not born after it, and, for a stable source, stable too. A config declares what it
refers to, before it: `LoadOrder` is the order of `Load`, of any length. A store has finitely many sources, and the
table of users has room and names for the two administrators of a database in use. No bound on the size of chain, tree or number
of callers and workers is used.

**`SourceIndexerProofs`**: `TypeCorrect`, `CursorIsSafe`, `ChildrenStartInTime`, `CursorIsMonotonic`,
`WorkerImplementsLogSource`. `IndexedUpToCursor` alone is not inductive: the column is
written from the loop's position, which must be known to cover indexed blocks only, and after a failed
write of the column the worker goes on from the field in memory. The invariant (`CursorInv`) says that
column, field and loop position are ordered and each covers indexed blocks, and (`WindowInv`) what is
done of the window at each of its steps. Monotonicity and the refinement of `LogSource` follow from the
same invariant: each step that moves the column meets the guard of `Advance`, each that stores
logs is a `Store` of logs above the cursor or of logs already there.

**`ExporterProofs`**: `TypeCorrect`, `NothingIsSkipped`, `DeliveryIsAPrefix`, `OrderIsAscending`,
`ReplayIsConfined`. The difficulty is the head: it is a minimum over the sources that exist, and a
child that does not exist yet has no part in it. `SourceInv` says that a child whose factory is registered and
which is itself not registered is born above the factory's cursor. For a child whose factory is missing too, take the
unregistered ancestor of least depth: its factory is registered, enabled and below its birth, hence
below the child's, so the head is below every log of the child. That makes a chosen range complete in the store for the chosen sources
(`RangeInv`), which no later step can undo since cursors and stores only grow. `CursorInv` then carries
"covers only what was handed over" through all copies of the place, the one an open edit has read
included, which is why an edit may rewind but never skip. `PlaceInv` gives the order,
`RecordInv` the confinement of replays.

**`AdministrationProofs`, of `Catalog`**: `CatalogTypeCorrect` (of `CatalogTypeInv`, which only this module states), `LoadCreatesNothingTwice`,
`ConfigIsLoaded`, `ListingMissesFew`, for any fleet, config, table and page size. Three invariants, one for each promise.
`KeptInv`: what was there when a load began and nobody has edited is live still, and no such row has the key of
the one that the load is about to create. The look-up establishes it, because it finds every live row with that key (`FoundAgain`); the
creation comes later, but other loads only add rows and rules, neither of which changes the key of a row that is there, and an
edit takes its row out of what was kept. Since rows of other loads may arrive in between, nothing more
can be promised: two instances that start together may each create a row.
`LoadedInv`: as long as nobody disturbs (no edit, no refused call, no listing), every row of every table has all the
references that its kind needs, what a load is about to create has them too, and for each resource it is through with there is a row that is
its own (`Has`). It is an invariant about all instances at once: a load may find the row of another one, which must then
be complete although the other was cut off right after. It lasts because tables only grow (`Grown`), and goes from one
resource to the next because the look-ups find all that was declared before (`Ensured`).
`ScanInv`: the scan has each row once, and what the client has was in front, but for as many rows as
shifts. The numbers are cardinalities of sets of rows, so each kind of write is taken by what it does to the front of the
scan: a row removed or inserted moves one row across its end (`Sizes`, `FrontSize`, `Behind`, `ScanMoves`).

**`AdministrationProofs`, of `SourceManager`**: `TypeCorrect`, `NoWorkerIsLost`, `MapsHoldRunningWorkers`. Every worker that
runs is in one of three places, the maps, a caller's token, the cancelled ones; the invariant adds that
the first is disjoint from the others and that all hold workers that have been made, without which a new worker might
start out cancelled.

**`ExporterManagerProofs`**: `TypeCorrect`, `RunnerIsSerial`, `NoRunnerIsLost`. Both safety properties follow from
one fact (`RunnerInv`): a runner on which `RemoveAndWait` has not given up is the one in the maps. It is
inductive with what the mutex protects (`MutexInv`, `EntryInv`): between the check of `EnableExporter` and its
new service the maps stay empty, and between the removal of `DisableExporter` and the clearing of the maps the
entry is the service that was removed and has ended or been given up by then. `StepKeeps` treats all the steps of requests
that leave the runners alone at once.

**`StorageProofs`, of `SourceTree`**: `TreeTypeCorrect` (of `TreeTypeInv`, which only this module states), `DeletedSourceIsGone`,
`OrphansWereLate`, for any tree, slots of workers and pipelines. The deletion goes over its ids once per step, and each source is cleared by several of
them, so the properties about rows that are gone say nothing while it runs. `DeletionInv` says what is done for the ids a step
has passed: no worker at all, in the maps or out of them, then no logs outside the former pipelines, then no rules; of the source being waited for, only
the worker of the token is left. Nobody undoes it, since only a worker stores logs or registers
children, and a worker comes back only by a start, which counts the source among the escaped; a crash stops everything
(`DownInv`). That one deletion of data is enough rests on `PipelineInv`: a worker, a start under way and the logs of a source are all
of the pipeline the root names, of the one the deletion has read (`home`), or of a former one, since children take their factory's.
Rules come from edits and from factories that copy theirs, which count when they come too late (`RulesKeep`, `CopyKeeps`).
`CollectInv` says that the children of a collected source are collected or still to be, or late.

**`PluginsProofs`**: `TypeCorrect`, `InstalledPluginHasFile`, `InstalledPluginIsCurrent`, `InstallIsResumed`, for any
sources, declarations and requests. The first and last rest on the boot: while it verifies, an INSTALLED row may lack its file,
but then the repair is running (`PhaseInv`, `FileInv`), and the rows that edits will save are consistent as well. That the
file is current needs that builds are alone: `AloneInv` says so as long as nothing has overlapped, and with it `SourceInv` follows a
source from the row through work directory, build directory and file, since every step of a build reads what the step before left
in directories that another build would share. `StatusInv` ties INSTALLING to a build under way.

**`StorageProofs`, of `LogStore`**: `TypeCorrect`, `ReadsAreExact`, `StoreImplementsContract`, `AcknowledgedStays`, for any sources, logs,
blocks and page size, by cases over the five kinds. Replays are harmless because they repeat whole blocks: a place of ClickHouse is
in the block of its log (`CellsInv`) and a file holds all its source has in the blocks of its name (`FilesInv`), so what an insert
puts in their stead contains what was there; a row of the stores keyed by id never changes hands (`RowsInv`). So every step
is an insert, a deletion, the end of what is due, or a stutter of `LogStorage`. The reads then use the contract: what is
readable and not due stays so until its source is deleted, hence a read in pages or file by file finds, or has returned,
all that was readable when it began and still is (`ReaderInv`, `PagesInv`): of a directory that is listed, what is kept has
been found, or lies in a file that is still to be opened, because a replay renames over a file only what contains it and a
deletion takes from what is kept what it takes from the files. The order of block and index follows from that of the places.
A deletion that fails in part is one of the contract (`DeletionLeaves`, `DeleteImplements`). `AcknowledgedStays` is derived from the
contract alone, for every store that implements it.

**`AccessProofs`**: `TypeCorrect`, `AnAdminRemains`, `SignedStatesVerify`, `RevokedTokenStaysRevoked`, for any instances,
requests and sizes of tables. A request is served from a copy of its user, so that the caller of `DeleteUser` is an administrator is
known only while none has overlapped another (`AloneInv`, `CallerInv`); an instance that has counted the users and found some
has found an administrator (`AdminInv`). For the states `SecretInv` says of every copy of a provider's row, whether
it is about to be signed with or saved, that its secret is the one of the row, if the provider was created with one. Revocation is an action property: a request that goes on with a
token it has read writes nothing of it but the time of its last use, and the other steps insert tokens or touch live ones.

**`GatewayProofs`**: `TypeCorrect` (of `TypeInv`), `RequestsReachTheOwner`, `InstallsCoverTheFleet`, `StreamsAreCurrent`, for any rows,
requests, times and channels. That rows have settled says nothing about what is cached, since reads overlap and the older
may be stored last. The invariant dates every copy: an entry says what its row says or expires before the row has settled
(`CacheInv`), and a read that is about to be stored says what the row says or was made before the row was written (`ReadInv`);
a read takes no longer than `MaxLoad` and an entry lives for `TTL`, so storing turns the second into the first. A list of instances is
treated alike: used until it expires, it has each instance that will have settled by then, and nothing else if all will have
(`Complete`). So a request whose way has settled stays on it from hop to hop (`RouteInv`, `PathGoesOn`), and an install has
all settled instances in its list (`ListInv`). For streams `InOrder` itself is inductive, with the remark that nothing has been
emitted to a stream that is being opened; the lemmas treat one step of one channel each, for the stream it belongs to and for the
others. That the kinds of row and the addresses are disjoint sets is assumed.

Only model-checked: the liveness properties (`EventuallyStored`, `EventuallyDelivered`,
`RemovedWorkersEnd`, `EveryRequestReturns`), which need fairness, and what the refuted definitions show. Every safety
invariant and every action property of a passing run is stated by a theorem.

## 5. Plan

Done: the path of a log from chain to plugin, both managers, administration of sources and exporters, plugins and what a
process has of them, the stores with their reads, access, the gateway's routing, streams, autoloader, metadata and its
lists. Left, in this order:

1. **Composition of SourceManager and SourceIndexer**: two workers of one source, each from its own copy
   of the row; whether the cursor can go back and whether `LogSource` then still holds for the exporter.
2. Pure algorithms, against reference definitions: topic filters, argument formatting.
3. The export of the configuration as the several statements it is, against edits in between.

## 6. What is not modelled

ABI decoding and argument formatting, the RPC client, SQL and the storage engines
behind the stores, compilation of plugins, hashing and signatures, migrations, metrics, logging, generated gRPC code and the
web interface: they keep no state the protocols above depend on, or are libraries. The generated code is more than half of
the repository's lines. Handlers that get one row change nothing. The blocks that bound the stores' reads for
users, their counts, and the registration of an instance's address beyond the row that
changes in `Gateway`, are left out. Chain reorganisations, because the code ignores them. The event bus is a library
whose `Emit` calls its handlers in the caller's goroutine, and is modelled as that. The export of the
configuration is one step, although it is several statements without a transaction.
