# DAWA verification project

TLA+ modules, TLC runs and TLAPS proofs for DAWA (Danmarks Adressers Web API), a
node.js and PostgreSQL system that imports the Danish address registers, derives
tables from them, keeps a change log of every table, and serves data and log over
HTTP. Paths below are relative to `src/packages`.

## 1. The system and its parts

```
 DAR --(HTTP, websocket)--> import daemon --+
 other registers (files) -> importers ------+--> component executor --> tables + change tables
                                            |        (processors)          (PostgreSQL)
                                                                                |
 HTTP clients <--> API workers <--- DawaClient / pools <-------------------------+
                     |   ^                                                      |
              schedule   grant                                   replication API (snapshots, events)
                     v   |                                                      |
                  master process                               replication client --> copy
```

| Part | State | Operations | Hard behaviour | What makes it correct |
|---|---|---|---|---|
| Query and connection scheduler (`server/dist-scheduler/*Scheduler.js`) | tasks, the started ones, priorities of the sources | schedule, run, complete a task | limits that meet at their edges, clean-up of idle sources | limits and reserved slots kept, order per client, no stall, no lost account |
| Distributed scheduler (`dist-scheduler-master.js`, `-client.js`, `messaging/`) | in the master the scheduler, timers and subscriptions; in each worker its own tasks | ENQUEUE, READY, REJECT, COMPLETE over process pipes | workers die, both sides have timers, answers arrive late | no slot is lost or given twice for good, the loop never throws |
| Change tables (`import-util/src/table-diff.js`, `transaction.js`) | a table, its `_changes`, `transaction_history` | differences, apply, publish, number | private columns, order of numbers, several tables per transaction | events and snapshots agree, numbers are gapless and final |
| Replication API (`apiSpecification/replikering`) | none of its own | snapshot, events, last transaction | reads the past while imports go on | the past never changes (the code keeps this for all columns but `ændret`, section 7) |
| Replication client (`replication-client`) | a copy of each entity, source_transactions | download, incremental, difference; one or several transactions | failing requests, killed commands, two commands at once | the copy is the snapshot of the transaction it records |
| DAR import daemon (`server/dar10`, `components/importers/dar-api.js`) and notifications (`dar-notification-*`) | raw tables, the channel of notifications, the websocket | status, changesets, notifications, retry | messages lost or late, imports that fail, DAR going on meanwhile | the raw tables are a prefix of DAR's log, and catch up |
| Component executor and materialization (`server/components/{execute,common}.js`, `import-util/src/materialize.js`) | tables, change tables of the run, which tables changed | run importers, then processors in order, by strategy | incremental updates against recomputing, order, rollback | derived tables are what their views say, changes are exact |
| Current and history processors (`import-util/src/current-processor.js`, `history-processor.js`) | history and current tables, the virkning time, the sequence of row keys | merge periods, renew what became valid or invalid | time passes between and in transactions, two importers with different `NOW()`, equal instants | the history is the register, the current table is the history at the virkning time, keys stay |
| Database client and pools (`common/src/postgres`) | connections, their sessions, connection and query slots | borrow, query, withTransaction, withReservedSlot | aborts, timeouts, lost connections, failing BEGIN and ROLLBACK | every connection and slot comes back, clean |
| Channels, cursors, pipes (`common/src/csp-util.js`, `cursor-channel.js`, `apiSpecification/common/resourceImpl.js`) | batches on their way from the cursor to the HTTP client | fetch, put, pipe, write, pause, abort | back pressure, errors before and after the headers, clients that leave | every row once and in order or a visible failure, bounded memory, everything is closed |
| Columns of the change tables and S3 offload (`import-util/src/common-columns.js`, `s3-offload.js`) | versions and times of geometries, references, blobs | hooks before and after the changes are applied; uploads | uploads that are not rolled back, geometries that are equal but written differently | every change keeps its geometry and its version |
| isalive | requests waiting for workers | status | workers that do not answer | an answer in time |
| Other importers, association processors | their tables | read a source, replace tables | formats, spatial SQL | see section 8 |
| Search API, address history, consistency checks, schema, documentation | none | one query each | - | see section 8 |

The master's schedulers and the workers talk by messages; imports, the API and
the client share the database, where import transactions exclude each other by
an advisory lock (`dawa-client.js:10`) and readers see a transaction whole or not
at all; DAR, its notification server and the daemon talk by HTTP and websockets.
`PROJECT.json` lists the sources of each part and, as hazards, what in them is
hard to test, each at its line.

## 2. Modules

| Module | Models | Composes |
|---|---|---|
| `TaskScheduler` | what both schedulers promise: the clients' waiting and running tasks, started oldest first, within both limits (abstract) | |
| `TaskList` | the list of tasks both classes keep | |
| `QuerySchedulerOps`, `ConnectionSchedulerOps` | the methods of the two classes as operators on the object | `TaskList` |
| `QueryScheduler`, `ConnectionScheduler` | the objects with any calls their owner may make; both refine `TaskScheduler` | Ops |
| `DistScheduler` | master loop, dispatcher, pipes, workers, timers of both sides, deaths | both Ops modules |
| `ChangeTable` | differences of two tables and their application | |
| `ReplicationServer` | import transactions over several tables; the API's queries as state functions | `ChangeTable` |
| `ReplicationClient` | the commands of the client against the server that goes on | `ReplicationServer` |
| `DarImport` | DAR's log, notifications, websocket, daemon, raw tables | |
| `Materialization` | dirty rows, incremental and full differences of a view | `ChangeTable` |
| `Components` | scope, order, strategies, importers, processors, rollback | `Materialization` |
| `CurrentTables` | the virkning time, the history of a bitemporal table, the current table, several importers | |
| `ChangeColumns` | an import with the hooks of the geometry columns and the offload to S3 | |
| `Transfer` | what an HTTP client may rely on: a prefix of the rows, a proper end only after all of them, bounded memory (abstract) | |
| `DawaClient` | slots, the pool, sessions of PostgreSQL, queries, transactions and aborts of a request | |
| `ResponseStream` | requests from arrival to the end of the response: cursor, channel, pipe, writer; refines `Transfer` | `DawaClient` |
| `MC*` | constants for TLC | |
| `SharedLemmas` | lemmas that several proofs need: lists of tasks, counting, differences of tables and their application | `TaskList`, `ChangeTable` |
| `QueryScheduler_proofs`, `ConnectionScheduler_proofs`, `Api_proofs` (distributed scheduler, requests), `Replication_proofs` (server and client), `Import_proofs` (DAR import, columns of geometries), `Components_proofs`, `CurrentTables_proofs` | theorems and proofs | the modules they are about |

How the state corresponds to the code:

- **Schedulers.** `scheduler` is the object: `tasks` and `started` are the list
  and the flags in it, `priorities` the map of the sources that have been seen (integers of
  milliseconds; `Durations` says how long tasks take), `threshold` is
  `priorityThreshold`. `unreserved` is a history variable for `ReservedSlots`.
  One action per method. `completeTask` of the query scheduler throws when
  the id is not in the list; in `QueryScheduler` it is called for tasks that are there, and that the
  master keeps to this is `MasterAlive` of `DistScheduler`.
  For the refinement `Waiting` and `Running` give each client its tasks, and
  `olderIn` the order of the list.
- **DistScheduler.** `reliable` says whether workers die and timers fire in this behaviour; the
  scheduler object is of either class (`Scheduler...` are the calls of its methods). Both are chosen at the start. One turn of the master's event loop is one action
  (`TakeEnqueue`, `TakeComplete`, `TakeTimeout`, `RunTask`, `Drained`,
  `Dispatch`, `MasterTimeout`), since the loop only gives up control in
  `select`. The pipes are queues per worker.
  `Crash` takes a worker and its pipes away. `Schedule`, `ReceiveAnswer`, `ClientTimeout` and `Finish`
  are the process of `dist-scheduler-client.js`.
- **ReplicationServer.** `changes[e]` is the change table of entity `e` as a set of
  records; a row has a public and a hidden part, because public is a property of columns.
  An import transaction is one action: it is one database transaction under the
  lock. The numbering uses every ranking SQL leaves open (`Rankings`). Rows have the columns that nothing writes
  again; `changed[e]` is the column `ændret` of the change rows, which the hook at `common-columns.js:24` also
  writes in inserts of earlier transactions (`setChanged`), in the tables that have it (`timed`, chosen at the start; `ejerlav`
  publishes it, `replikering/datamodel.js:393`). `udtraek` is a snapshot without it, `udtraekChanged` the column of that snapshot.
- **ReplicationClient.** `run[r]` is a command: the transaction it read first and
  the entities it has still to do. A database transaction of the client is one
  action; requests inside it only read the past, which `PastStaysButTimes` shows to be constant but for
  `ændret`. That column is not among the copied ones here (the configuration chooses the `attributes`): a copy of `ejerlav` that has it
  keeps the time it downloaded, while the snapshot it came from moves on without an event.
- **DarImport.** `events` is DAR's log with its transactions, `raw` the raw tables
  reduced to the numbers of the events that opened and closed each row,
  `phase` the point where the daemon waits, `channel` the notifications not yet taken (100 at most in the code, any number here),
  `socket` the state of the websocket. `Crash` kills the daemon: memory goes, `raw` stays.
- **Components.** `changes` holds the change rows with the txid of the run,
  `modified` is `context.changes` with total > 0, `todo` the rest of the execution
  order (any order toposort may give), `before` the tables at the savepoint. A
  component is one action: components of a run follow each other in one transaction.
  The views are constants: a materialization is a record as in `tableModel.js`, and
  `Column` and `Reference` are the two sides of the join of a dependent.
- **CurrentTables.** Times are half milliseconds, because the virkning time is a full
  millisecond and the limits of periods need not be. `began[p]` is `NOW()` of the transaction of importer `p`, which is
  the time of BEGIN: the lock comes later. An import is one action from the lock to COMMIT. `raw` is the bitemporal
  table, `history` has its merged periods with their keys, `current` the values at `virkning`. A transaction that fails
  still takes keys from the sequence. `Polling` are the daemons that import every `poll_interval`.
- **ChangeColumns.** `pending` are the change rows of the import under way, `s3` the objects in the
  bucket, `attempts` counts imports and names the uuids of their uploads. Between `Prepare` and `Commit` each upload is
  an action, so that a crash may leave any of them.
- **DawaClient, ResponseStream.** `at`, `pipeAt` and `writerAt` are the places of the three
  processes of a request, named by what they do next. `connection` is the server's side of
  a session: its transaction, its cursor, whether it is lost. Slots are limited in number; which request gets one is
  the business of the schedulers. `pending`, `buffer` and `inHand` are the rows
  between cursor and HTTP client, `unread` what the socket holds.

## 3. Runs

Each passing run has deadlock detection on (modules that may end have an explicit
step that changes nothing), and each property is violated by a plausible slip in the code: the
definitions with a `_` in their name, marked "Slip" (`mutants` in `PROJECT.json`).

| Run | Instance and bounds | Shows |
|---|---|---|
| `query_scheduler` | five tasks, three clients, three slots, two per client, one priority slot, durations 0, 1 and 3, offset 2; tasks and clients symmetric | reserved slots, sound priorities, charges kept, no stall, refinement of `TaskScheduler` |
| `connection_scheduler` | five tasks, three clients, three slots, two per client; symmetric | work conservation, refinement of `TaskScheduler` |
| `dist_scheduler` | three tasks of two clients on two workers, one slot, either scheduler class; with and without deaths and early timers (290 000 states) | the loop never throws, no slot leaks, what runs in the workers keeps to the limits, every held slot is released; without faults every request is answered |
| `replication_server` | one table, two keys, two public and two private values, four transactions; with and without `ændret`; symmetric (190 000 states) | snapshots and events agree, numbers are gapless; past snapshots and events stay as they are but for `ændret`, which moves only where a snapshot shows an insert |
| `replication_client` | two tables with a foreign key, one key each, three server and two local transactions, one command at a time; failures and forced downloads (290 000 states) | the copy is the snapshot it says it is (without `ændret`), commands reach their transaction, local changes fit, commands end, numbers respect the foreign key |
| `dar_import` | two entities with one row each, four events in transactions of one or two; polling or notified, with `no_daemon`, with `pretend` | the raw tables are a prefix of DAR's log, never go back, and catch up |
| `components` | three imported tables, five materializations in four processors, two keys; six runs of the three strategies | materializations stay what their views say, change tables are exact, a rollback loses nothing |
| `current_tables` | two objects, two importers, periods that touch, split, merge and end between milliseconds, four half milliseconds, three row keys | history is the register, current is the history at the virkning time, keys stay; as long as one importer polls, what begins or ends takes effect without changes of the register |
| `change_columns` | two keys; no, a small, a large, an equal large and another large geometry; three committed imports out of four (310 000 states) | every change keeps its geometry and version, the newest change tells what the table has |
| `response_stream` | a streaming request of up to five rows and one with a reserved slot, again and again, over one connection; batches of two, room for one (140 000 states) | refinement of `Transfer`, clean connections in the pool, slots in use, every request ends |
| `replication_client_race` | as `replication_client`, two commands | a violation, see section 7 |
| `past_is_kept` | as `change_columns`, two imports | a violation, see section 7 |

Why the bounds are enough to be interesting:

- Schedulers: three clients are needed for two to overtake a third; two tasks of a client to
  reach its limit, five tasks to fill three slots with two waiting. Durations below and above the offset
  move the threshold past a client and back under it.
- `DistScheduler`: one slot makes every task wait for another; the two
  workers let one die while the other waits; two tasks in one worker share its pipes. Tasks are not
  started again: ids are random UUIDs.
- Replication: three transactions after the initial one give insert, update
  and delete of one key, or a delete and a new insert; private values make an
  update that is not published; two keys keep the orders of numbers apart. In the client,
  three server transactions let a copy fall behind, skip one without events and catch up.
- `DarImport`: four events allow a row of each entity to be created and
  closed, a transaction over both entities, and events that come while an import is under way.
- `Components`: the materializations follow those of the address register: one
  joined by its key and by a column that is not its key, one that also reads a
  table it does not follow, one behind it, and a component of two. Rows can move from one
  partner to another, and partners can appear, change and disappear.
- `CurrentTables`: the clock passes both limits of a period while one importer waits for the lock of the other, and
  a registration time may be ahead of both by more or less than the tolerance. Three keys let
  one object gain a second period next to one of the other.
- `ChangeColumns`: three imports take a key through any three of its geometries (so small, large, NULL); the fourth attempt
  leaves the uploads of a failed one behind. Two keys have large geometries at once.
- `ResponseStream`: five rows need three FETCHes, the last one short, or two full ones and an empty one (four rows); with one row of
  room the cursor, the pipe and the writer each wait for the next. Two requests on one connection find what the other left in it.

The bounds are constants named in the modules: `MaxTxid`, `MaxLocalTxid`, `MaxAttempts` (transactions), `MaxEvents` and
`MaxBatch` (DAR), `TaskIds` and `Durations`, `MaxTime` and `MaxRowkey`, `MaxRows` and `MaxQueries`;
`FetchSize`, `BufferSize`, `BatchSize`, `HighWaterMark` and `Tolerance` are numbers of the code made small;
the others are sets. Reals, hashes and texts do not occur: values are model values.

## 4. Fairness

- `DistScheduler`: weak fairness of event loops (`ReceiveAnswer`, `Dispatch`, the
  turns of the master loop), of `Finish` (a query has a statement timeout) and of the
  master's timer. None for `Schedule`, `Crash` and `ClientTimeout`: nobody has to call,
  and a worker need not give up. `EveryTaskAnswered` speaks of `reliable` behaviours only.
- `ReplicationClient`: weak fairness of the steps of a command that was started: the process
  runs, and the loop at `replication-client-impl.js:313-334` tries again until an attempt goes through.
- `DarImport`: weak fairness of the daemon's own steps; strong fairness of `GetStatus` and
  `ImportIncrementally`, because both are tried again and again and DAR and the database are assumed
  not to fail for ever. A notification may be lost on the way to the daemon, and then only
  a later one, or polling, leads to its events: `EventsAreImported` therefore speaks of
  notifications that reach the daemon. Notifications are posted after their transaction
  can be fetched, in its order.
- `CurrentTables`: weak fairness of `Begin` and strong fairness of `Import`, for the importers in `Polling` only: a daemon
  without `notification_url` asks for the status and imports every `poll_interval` (`importFromApiImpl.js:87-97`, `172-184`), also when
  the status is as before, and DAR answers and an import succeeds now and then. `EverythingTakesEffect` holds in this mode. In the default mode
  (`importDaemon.js:16-21`) the daemon imports once and then waits without a timeout for a notification or the end of its websocket
  (`takeAvailable`), so while the register is silent nothing takes effect, whatever time passes; such daemons and
  commands have no fairness here. The clock need not move: the property starts from a clock that has moved.
- `ResponseStream`: weak fairness of each process of a request: statements end (`statement_timeout`), and waits for slots
  and connections end with a timeout (`dawa-client.js:172`, `database-pool.js`). The
  HTTP client reads, or its connection is closed (`Read`, `Leave`): TCP does not keep a dead connection for ever. Nobody has to send a request.
- `Components`, `ChangeColumns`, the servers and the scheduler objects need none: their properties are safety.

## 5. What is proved

The theorems hold for every value of the constants that satisfies the named
assumptions of the modules (`...Assumption`; TLC evaluates them in the runs). Every `IInv` was checked with TLC before it was proved.

**`QueryScheduler_proofs`, `ConnectionScheduler_proofs`** (with `SharedLemmas` for the list).
The inductive invariant joins the type, that ids are unique and were drawn, that finitely many tasks
run, and the limits. For the query scheduler it needs `SourcesOfTasksKnown` (the clean-up of
`runTask` would otherwise make a priority undefined, and the other steps speak of it) and `CreditBounded`; both together
are `PrioritiesAreSound`.
`ReservedSlots` counts the tasks that took a slot beyond the credit of their source, whatever the threshold became
since: they are among the started ones, and the start of such a task leaves the
reserved slots free. `NoStall` and `WorkConserving` follow from the invariant: a source whose queued
task cannot start is at its limit or the slots are full, and either needs running tasks.
`ChargesAreKept`: the clean-up only raises numbers, and only deletes those of sources without tasks.
`Implements` (one in each module) is the refinement of `TaskScheduler`: a task is in the list once, so pushing it, marking the first
one of a source as started and filtering one out are `Submit`, `Start` and `Leave` on the sets of waiting and
running ids, and `olderIn` of the list changes as the abstract order does.

**`Api_proofs`, distributed scheduler**. What makes the protocol of ENQUEUE, READY, REJECT and COMPLETE sound is that a
task is at one stage at a time, and that every place that keeps a trace of it agrees on the stage. The invariant (`IInv`) says so for each
place: what is in the pipes and channels is there once (`PipesOK`, `MasterOK`); a task the scheduler holds is in `taskMap` and has exactly one
release to come, a pending `receiveOnce` or its id in one of the two channels (`TasksAreTracked`); a task with an ENQUEUE on its way is
unknown to the master; one with a READY on its way was started, and its worker, if alive, still has the descriptor (`TasksOK`); nothing is sent to the dead
(`DeadGetNothing`). The invariant is needed as a whole: that `completeTask` finds its task (`MasterStaysAlive`) rests on the
release being unique, that rests on COMPLETE being handled once, and that on the subscription and the worker being in step.
The scheduler object is only used through four facts, proved for both classes: scheduling adds one task, running
starts one that waits, completing removes one, and ids stay unique (`SchedulerOK`). `MessagesAreExpected` and `RunningStaysAccounted` are the view
of a worker: every answer finds its descriptor, and what runs holds a slot or has been given up. With `LimitsStay` (both classes
start a task only where there is room, among the slots and in the share of its client, and nothing else starts one) the
limits hold in the workers too, over all of them together: what the master has not given up never runs beyond `Slots`, nor
beyond `SlotsPerSource` for one client. For tasks that were given up no such bound holds: their slots are given away while they still run.

**`Api_proofs`, requests**. The invariant has two parts. That of the client (`ClientInv`) ties the place of a request to
its connection: a connection is held by one request at most (`Borrowed`), from which place to which it is held (`HeldAt`),
in which state its session may be at each place (`SessionAt`), and where a slot may be waited for or held (`SlotAt`). Each statement, failure and abort
then leads from a session allowed at one place to one allowed at the next; `PoolStaysClean` and `SlotsStayUsed` follow.
That of the stream (`StreamInv`) says that what was sent, is in hand, in the buffer and pending are segments of the
result, each beginning where the one before it ends, until something has been dropped, and that a channel closes only after
the last row (`RowsInOrder`); and how the outcome and the places of the pipe and the writer belong together (`RunsAt`, `OutcomeAt`).
`StreamImplements` maps every step to one of `Transfer`: the writer sends the next segment, the response ends when the
segments have been sent to the last, an error is only answered before the first row, and all else keeps what was sent.
What is kept is bounded by the sum of a batch of the cursor, the buffer and a batch of the pipe (`Bounded`).

**`SharedLemmas`, change tables**. `Fit(D, txid, source, table)` says that D has exactly one change per differing key, with the
operation and the row that belong to it. `DifferencesFit`: the differences fit.
`ChangesLeadToSource`: changes that fit turn the table into the source, although updates are applied to every row that is
there, whatever the operation.

**`Replication_proofs`, server**. The invariant adds that nothing recorded lies in the
future (`InThePast`) and that no number exceeds the last one (`NumbersUsed`). An import adds changes of a new
txid that fit, so queries about the past see the same rows; the times of `ændret` move as the hook moves them, which is no further
than `MayMove` allows (both in `PastStaysStable`); the newest row of every key
is the one in the table (`SnapshotsAreCurrent`, in all columns but `ændret`), and the public rows that
differ are exactly the published events (`EventsLeadOn`).
The numbers of a transaction count the changes up to each in a total order of all of them (`TotalOrder`), so they are
one-to-one onto the interval after the last one (`NumbersDiffer`, `NumbersAreGiven`); hence `NumbersStayExact`.
Of the order itself only two facts matter for the foreign keys: deletes of a referring table come before those of the table referred
to, inserts after (`ReferencesInOrder`). With the keys kept before and after the transaction, they are kept by any first part of its changes
(`PartsConsistent`), and `PrefixesStayConsistent` follows; private updates are left out of the parts, they do not move rows.

**`Replication_proofs`, client**. The theorems assume that commands run one after the other (`\A r, s \in Runs : r = s`); the run
`replication_client_race` shows that they fail otherwise. `ApplyIsReplay`: keeping the last event per object and choosing
insert or update anew gives what replaying all events one by one gives, because the events of an object have increasing numbers
along their transactions (`NumbersInOrder`). With `EventsLeadToSnapshot` of the server, each of the ways to update an entity leads to the
snapshot of the command's transaction (`UpdateBrings`). The invariant needs that no copy is past the
transaction of the command under way (`RunsAhead`): this is what a second command breaks. `CopyStaysSnapshot` and `CommandsReach`
follow, for all columns but `ændret`. `ChangesStayFit` compares each local transaction with the copies before and after it: one change
per object, with the right operation and row, and one for every row that changed; an initial download, which fills an
empty copy without leaving changes, is excepted.

**`Import_proofs`, DAR**. The invariant names a number `n` and limits `b`: the raw tables are what DAR held after its first
`n` events, `n` ends a transaction, and `b` cuts the posted notifications into whole transactions, each taking up where the last
one ended (`Queued`). An import under way leads from `n` to the end of a later transaction (`Imports`), and what was
received takes up where the tables are, or earlier, unless the next import is of all entities (`Waits`): that is what
`UpdatesAllAtFirst` is for, and that a notification may begin earlier is harmless because of `copyEventIds`.
`ImportBrings` is the heart: from a prefix, fetching up to given events of each entity gives the prefix up to them, whichever order the
records of a range come in. `PrefixAlways` and `NeverBack` follow; the latter needs `PrefixIsUnique`.

**`Import_proofs`, geometries**. `ColumnsInv` joins the three properties with what carries them over an import. A reference names
one object, made in the attempt it is named by, so nothing that an attempt uploads touches what rows refer to already (`ObjectsOK`). Every row of the
table has a geometry of the same shape in the table and behind its reference (`TableOK`): the comparison of an import is with the
first, readers get the second. While an import is under way, what waits is one change per key that differs, of the row that is in the table to the row
of the register, with the version that belongs to it; and the reference is new, or that of a row whose shape is the same (`PendingOK`, `RefOK`).
A commit then gives geometries by transitivity of `SameGeometry` (`CommitTells`), versions because the newest change of a key agrees with the table
(`UpdateCounts`: an update compares with the table, but has to count from the newest change), and that agreement again
(`CommitAgrees`). `GeometryStaysKept`, `VersionsCountGeometry` and `TableStaysNewest` follow. The hook that rewrites times in changes of the past (section 7)
is harmless to all three: `Alike` leaves the time out.

**`CurrentTables_proofs`**. `HistoryFollowsRegister`: merged periods say of every time what the register says and are as long as they can be
(`mergeValidTime` needs the least tail after each head, so finitely many slices). `CurrentFollowsVirkning`: an object that is not renewed has the same value
at the new virkning time, because no limit of its periods lies between the old and the new one. `RowkeysStay` needs that keys of rows lie
below the sequence and that an object has one row per start.

**`Components_proofs`**. The heart is `IncrementalIsRecomputed`: if a materialization was up to date with the old
tables, the change tables cover every difference to the new ones, and no followed reference moved, then renewing only the
dirty rows of table and view gives what recomputing gives. Its lemma `CleanRowsStay` uses the assumption that dependents
are complete. The invariant of a run then says: nothing still to come produces what is
required by a processor that is done or takes no part (`InOrder`, from the closed scope `RunsAreClosed` and the order);
the change rows fit the tables between the savepoint and now; references are kept; a processor that is not to come has kept
fresh what was fresh. Across runs it needs `FollowedAreFresh`: materializations that follow all their
tables are fresh between runs, which is what makes SLOW right to update them incrementally.
`KeepsFresh`, `RepairsScope`, `ChangesAreExact`, `NothingIsLost` and the type follow.

Assumptions of the component theorems, which the code relies on and cannot check:

- the dependents of a materialization are complete: a row of the view changes only with rows it
  joins, before or after (`MaterializationAssumption`; TLC evaluates it for the views of the run);
- a table is produced by one component, no component requires what it produces;
- the materializations of one component follow the same tables: with QUICK the first without a change ends the
  component (`common.js:51`). The one component with several follows none;
- columns that dependents refer to keep their value while the row exists (`KeepsReferences` for imported
  tables; primary keys, or columns that do not depend on the row, for materialized ones). A
  change row only has the new value, so without this
  the rows joined to the old one are not found; see the hazard at `materialize.js:49`.

## 6. What is only model-checked

- Liveness (`SlotsAreReleased`, `EveryTaskAnswered`, `RunsEnd`, `EventsAreImported`, `EverythingTakesEffect`, `EveryRequestEnds`): the
  prover has no rules for fairness and ENABLED.
- `PastIsKept` and the two commands at once of section 7, which are false.
- Nothing else of what the runs check as an invariant, a step property or a refinement: each of these is a theorem. Facts by induction over data (what a fold
  computes for every input) are out of the prover's reach; no property needs one.

## 7. Disagreements found

| Run | Documentation | Code |
|---|---|---|
| `replication_client_race` | `replikering.pug:30-31`: the copy has the data right after the transaction | `replication-client-impl.js:277` reads the last transaction before the lock is taken; a second command can get ahead, and an older download then replaces the newer copy for good |
| `past_is_kept` | `replikering.pug:24-27`: the snapshot of a transaction is how the data looked then | `common-columns.js:24`: AND binds stronger than OR, and every import sets `ændret` in all inserts of the past. `PastStaysButTimes` of `replication_server` shows how far this goes: this column, these rows, nothing else |

Others were met while reading and modelling, and have no run of their own:

- `udtraek/sqlModels.js:52` keeps every change without a sequence number, so that a snapshot by
  `sekvensnummer` may have later public changes, through an update of private columns; `apidoc/replikering.js:39-40` says it has none.
- `--force-download` (`replikeringsklient.pug:134-135`: a new complete download) of a copy that is at the last transaction
  violates a primary key at `replication-client-impl.js:224`; with several transactions the command tries for ever (`Stuck` in `RunsEnd`).
- `importDaemon.js:35`: with `pretend` the transaction is rolled back. With `no_daemon` as well, `importFromApiImpl.js:167` commits it.
- `import-dar-util.js:72` speaks of one minute into the future; the code below it allows two, counted from the greater of `NOW()` and the virkning time.
- `worker.js:29` passes `statementTimeoutMillis` to the pool, which reads `statementTimeout` (`database-pool.js:24`, `:46`).
- `dawa-client.js:73` sets `queryInProgress` on the running process, not on the client, so that the check at line 62 never fails.
- `tableModel.js:1090` has two table names in one string: the executor does not know of either edge, and the order of these components is
  whatever toposort gives. `Components` assumes that all requirements are known.
- `apiSpecification/replikering/datamodel.js:395`: `ændret` is not updated by a change of the geometry only; the hook at `common-columns.js:24` sets
  it for every update. Line 385: `geo_version` grows with every change of the geometry; from or to NULL it does not
  (`VersionsFollowGeometry` says what holds).

## 8. Not modelled, and why

- Formats, spatial SQL and parsing of the other importers and the association processors: in the model they
  are importers that replace their tables, or processors with any view. What they compute lies in PostgreSQL.
- `clearAndMaterialize`, `materializeWithoutEvents`, `offloadToS3`, migrations, first imports from files: run once, by hand. Patches and migrations
  may rewrite change tables; what is said of the past is about imports.
- A full `notificationChan` (100 notifications that the daemon has not taken yet): the channel of `DarImport` has no bound.
- Columns derived from the row alone (bounding boxes, visual centers, text search) are part of the row; preserved
  columns are not modelled.
- Snapshots by sequence number, formats, paging and filters of the replication API.
- In `DawaClient`: READ WRITE transactions (the lock is in the modules of the imports, each a single action per transaction), batched queries, COPY, unpooled
  connections and how the pool is opened. In `ResponseStream`: the pipes of imports, `pipeToArray`, serialization. `parallel` of the library ts-csp is
  taken to abort the other processes when one fails and to wait for them; the end of a channel is taken by itself, not with a batch. `putMany` at
  `resourceImpl.js:277` does not look at the abort signal, but its channel always has room.
- Heartbeat timers, the list of recent notifications and environments of the notification server.
- isalive: a status that is read by monitoring only.
- The search API, parameter parsing, autocomplete, address matching: each request is one
  read-only query; nothing changes state. The pure algorithms among them are in the plan.
- Address history generation, consistency checks, schema, documentation pages, frontend.

## 9. Plan

Done: schedulers and the distributed scheduler; change tables, replication API and client; the DAR
daemon and notifications; the component executor and materialization; history and current tables; the hooks of columns and the offload to
S3; database client, pool and streams. Proofs of every safety property the runs check and of the three refinements.

Left, in this order:

1. `DawaClient` under the schedulers of `DistScheduler` instead of counted slots.
2. isalive (workers that never answer).
3. Pure algorithms (`intervalMath`, `boxMath`, `husnrUtil`, `levenshtein`) against a definition over bounded inputs.
4. A column that dependents refer to and that changes while its row stays (the hazard at `materialize.js:49`).

## 10. Running the checks

```
tlc -workers 2 -config MCComponents.cfg MCComponents      # any run: module and cfg as in PROJECT.json
tlapm Components_proofs.tla                               # any *_proofs module
```
