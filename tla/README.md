# openbridgeserver: formal models

openbridgeserver (`obs/`) is a Python server for building automation. Adapters connect it to KNX,
Modbus, MQTT, Home Assistant and other systems; every value becomes an event of a data point, which
an event bus hands to a registry, a write router, a logic engine, a ring buffer, a history and the
browsers. It is one process with one asyncio event loop: there are no data races, but **every
`await` is a point where any other task may run**, and most of the hard behaviour of the program
lies between two awaits. The rest lies between two commits, because the process may stop there.

This directory holds TLA+ modules of the parts where that matters, TLC configurations that check
them, and proofs. One step of a module is what the code does between two awaits that another task
could make use of.

## The parts of the system

| part | state it keeps | operations | what is hard about it | what makes it right |
|---|---|---|---|---|
| Database (`obs/db/database.py`) | one shared SQLite connection, four locks, the task that owns the shared transaction, private connections | `fetchone/fetchall`, `execute/executemany`, `commit`, `rollback`, `execute_and_commit`, `transaction`, `isolated_transaction`, `checkpoint`, `connect`, `disconnect`, `exclusive_lifecycle` | a transaction of one task spans several calls; four locks in four combinations; statements that raise; a restore that replaces the file | nobody commits another task's rows, private transactions are alone, no lock is left behind, every call returns |
| Write router (`obs/core/write_router.py`) | last value and time sent per binding, the confirmation order | values from the bus, `dp/…/set` of MQTT, the API; resending system values | fetches rows and writes one after the other; filters remember what was sent; adapters come and go | every destination that is up gets the last value, in order, and not its own value back |
| KNX adapter (`obs/adapters/knx/adapter.py`) | bindings and a map from group addresses to them, queued and sent writes, tombstones, confirmation order | `write_with_context`, callbacks of xknx, `_on_telegram`, reload, expiry | its own telegrams come back as echoes and as feedback; a reload while they are under way | a telegram it sent never becomes a new value; confirmations in order; actions once |
| Other adapters | a connection and last values each | poll, subscribe, reconnect | reconnects | the last value of the device is shown |
| Adapter registry (`obs/adapters/registry.py`) | the running instances, in the order of their start | start, restart, stop, reload, all at once or one by one | no lock; a connection is announced before, while and after its instance is registered | who is registered and connected gets the current values |
| Event bus, registry (`obs/core/`) | subscribers; current values | `publish`; load, update | all subscribers of an event run beside each other | no subscriber is skipped, the value shown is the one published last |
| MQTT client (`obs/core/mqtt_client.py`) | a publish queue, two loops | publish, reconnect | an unbounded queue, a message in hand when the connection drops | no message is lost that was accepted |
| Update check (`obs/update/service.py`) | settings on disk, state, release cache, two locks, published values | `load`, `check`, `check_now`, `set_channel`, `keep_after_restore` | a slow request while the channel is switched; crashes between commits; restores | the status answers the question asked; the choice stays; no lock across a request |
| Ring buffer store (`obs/ringbuffer/store/`) | segment files, a manifest database, a writer lease | append, rotate, retention, pending checkpoints, recovery at open, queries without a lock | two databases and a file system without a common commit, readers beside the writer | after any crash the log has every committed event that retention did not drop; a page has no gap |
| Ring buffer migration (`store/offline_migration.py`, `ringbuffer.py`, `persisted_config.py`, `api/v1/ringbuffer.py`) | the old single database, copies, manifest rows, the administrator's decision | keep, skip, discard, start, poll; the copy job; reconciliation at start | four stores without a common commit, three actors, two locks | no row of the old history is lost that nobody gave up, none is shown twice, the assistant ends only when nothing is left |
| Logic engine (`obs/logic/`) | sheets, node state, timers and their tasks, saved state | run for an event, fire a timer, save, disable, delete, stop, restart | a timer fires while its sheet is saved, deleted or run; runs that overtake each other; a restart | a delay fires once for each trigger, a pulse ends, nothing is left on |
| Message archive, visualisation alarms, history, setup, authentication, imports, frontends | see `PROJECT.json` | | | |

How they interact: adapters publish `DataValueEvent`s on the bus, which starts its subscribers
together and in the order of their subscription (registry, ring buffer, history, web socket, alarms,
write router), and waits for all of them. The router reads bindings from the database and calls
adapters; adapters and their registry announce connections and starts on the same bus. The API
writes the database and tells adapters to reload. The update check publishes system data points on
the same bus. A restore stops adapters and logic, replaces the database under the exclusive
lifecycle, reloads the registry, starts everything again and calls `keep_after_restore`.

`PROJECT.json` lists every component with what is left out, and every hazard of the code at the
line where it bites.

## Modules

| module | models |
|---|---|
| `DatabaseLocks` | the locking protocol of `Database` |
| `DatabaseLocksProofs` | its type invariant, inductive invariants and three safety properties, for every set of tasks, and two more while no statement raises |
| `KnxConfirmations` | the router's ordered commands, the KNX adapter's writes and `_on_telegram`, together with the bus and the devices |
| `KnxConfirmationsProofs` | its types, `ActionsAtMostOnce` and, on conditions about the bindings, `ConfirmationsInOrder` and `NoFeedbackLoop`, for any bindings, addresses and bounds |
| `UpdateCheck` | the update check with its settings on disk, GitHub, the data points and restores |
| `UpdateCheckProofs` | its type invariant, inductive invariants, five safety properties and `SwitchIsAnswered`, for every set of clients, versions and lists |
| `RetainedLog` | the promise of the ring buffer: blocks that are filled, sealed and given up whole |
| `SegmentStore` | the segmented ring buffer over files and a manifest, and its refinement of `RetainedLog` |
| `SegmentStoreProofs` | its type invariant and, for a store without queries, the invariant behind `CommittedStayReadable` and the refinement |
| `SegmentQueryProofs` | `WindowsCoverRows` and `PageHasNoGap`, for a store in which no step raises |
| `SystemValues` | the router's filters and resends, the adapter registry, the binding routes and the data point they move |
| `SystemValuesProofs` | its type invariant, `SeenIsConnected` and `OfferedWhenSettled`, for all finite sets of instances and bindings |
| `OfflineMigration` | the old database, its migration and the administrator's decision |
| `OfflineMigrationProofs` | its type invariant, the invariant of what job, requests and retention know, three safety properties and, on a condition about refused writes, `TakesOnlyReleased`, for all sources and chunks |
| `LogicTimers` | the delay and pulse blocks of the logic engine |
| `LogicTimersProofs` | its type invariant, the inductive invariant of its timers and three properties, for all event runs and bounds |
| `MCDatabaseLocks`, `MCKnxConfirmations`, `MCUpdateCheck`, `MCSystemValues` | small instances for TLC; the constants of the other modules are given in the `.cfg` files |

Each module lists its mutated definitions (`…Never`, `…Always`, `…ButWrite` and the like) directly
before the definition they vary. They are used by no action: they are the plausible mistakes
against which the properties were tried, paired with their property in `PROJECT.json`.

### DatabaseLocks

State: `holder` and `waiters` are the four `_LoopReusableLock`s (`lifecycle` is
`_transaction_lifecycle_lock`, `checkpoint` `_checkpoint_lock`, `operation`
`_memory_operation_lock`, `write` `_write_lock`); an asyncio lock is FIFO. `owner` is
`_legacy_write_owner`, `inTx` the `in_transaction` of the shared connection, `rows` what is pending
on it, `privateRows` what is pending on private connections, `durable` what was committed. A row is
known by its writer and by whether its statement succeeded.

A task is `idle`, `waiting` for a lock, `spinning` in the polling loop of `_isolated_operation`,
`running` with all its locks, in the `body` of a context manager, or in the except branch of a
caller (`raised`). `Call` starts an operation, `Acquire` takes the next lock in the order of the
code's `async with`, and the action named for the operation does its work and frees what it took.
`execute` keeps the write lock if its statement left the shared connection in a transaction;
a statement that raises frees it, and sqlite3 may have begun the implicit transaction by then.
`SAVEPOINT` opens a transaction without rows, `RELEASE` of the outermost one commits.

What a caller may do follows the callers in the repository: the owner of a shared transaction only
executes, commits or rolls back, and fetches if `HelperReads`; a caller of `execute` that catches an
error rolls back. A private transaction's body uses its own connection.

Left out: cancellation of a task inside an operation, the separate awaits of `_connect` (pragmas,
checkpoint, migrations), locks of more than one event loop.

### KnxConfirmations

State of the router: `routing` (values whose rows are being fetched), `writing` (rows fetched, still
to be written). Of the order tracker: `seq`, `latest`, `claimed`. Of xknx: `outbox` and the
scheduled handler tasks `inbox`. Of the adapter: `pending`, `invalid`, `owners`, `recent` and `tombs`,
which are `_pending_transmissions`, `_invalidated_transmissions`, `_outgoing_confirmation_owners`,
`_recent_writes` and `_invalidated_state_confirmations`; and `later`, the events a handler has not
yet published. `stored` and `loaded` are the bindings in the table and in the adapter.

`DirectWrite` is a command without an event (MQTT `set`, API); an event of the bus that is no
confirmation is routed by `Publish`. `RouteWrite` issues one order for all rows and activates it for
a propagated event; `WriteRow` is `write_with_context`; `Transmit` is the callback after xknx has
sent a telegram and the local handling of it; `OnTelegram` is the whole of `_on_telegram` up to its
first await, a fold over the entries of the group address; `PublishNext` goes on after an await.
`Rebind` and `Reload` are the API's commit and `_on_bindings_reloaded`; `ExpireEchoes` and
`ExpireStates` the two windows of two and ten seconds. `Feedback` and `Foreign` are the bus: a device
answers every transmitted write that has a state address (`owed`), also one the adapter expects
nothing of. `strayed` notes the address and the payload of the answers the adapter cannot place,
because the write was sent while its binding was set up otherwise than when its row was fetched, or
while a tombstone still waited for the same telegram (`Astray`).

What is assumed of the bus, and why: nothing on a KNX bus tells a device's answer to OBS from the
same telegram sent for another reason, so `Foreign` does not send what an expected answer would say;
a handler task runs long before the bus has carried another telegram of the same kind
(`BusSettled`), within two seconds of the echo, and a device answers within the ten-second window or
not at all, and no later than another expectation or tombstone for the same telegram expires
(`ExpireStates`). Outside these assumptions the code has no means to tell a confirmation from a new
value.

Left out: responses to read requests, disconnect, the initial reads, throttles and filters of the
router, formulas and value maps (a raw payload is a constant function of the value).

### UpdateCheck

`settings` are the three rows of `app_settings`, `backup` their copy in the backup that a restore
brings back. `state`, `derived`, `releases`, `fetchedAt`, `etag`, `attempt`, `lock`, `checkLock` and
`sent` are the attributes of `UpdateCheckService`; `shown` is what the registry has. `load` is three
steps, because it commits after two of them; `check` and `check_now` are `Ask`, `FetchEnds`,
`TakeOver` and `EndCheck`; `set_channel` is `WriteChannel`, `SwitchState` and `EndSwitch`, and goes
on to `Ask` when nothing answers the new channel; a restore is `RestoreDatabase`, `KeepChannel`,
`KeepMarker` and `KeepState`. `Restart` may happen between any two of them, with another installed
version, and forgets everything but the settings.

Abstractions: attempts are numbered instead of stamped with a time; an evaluation is identified with
its question (channel, version, list), because `evaluate_channel` is a function of them; whether the
service has a release source is fixed in a behaviour; publishing under the lock is one step with the
write before it, which may fail and is only logged.

### SystemValues

How a value that is published once and then stays, like the update channel, reaches every
destination. `value` is the registry's value of the data point, `row` and `config` are the tables of
bindings and of adapter instances. `order` is `_instances` of the adapter registry, a dictionary whose
first entry of a type is the fallback; `conn` the connection of each object; `life` the place of the
request that starts or stops an instance (`restart_instance`, `stop_instance`), `sweep` that of
`stop_all` and `start_all`. `seen`, `last` and `sent` are the router's `_connected_instances`,
`_last_value` and `_last_sent`.

A coroutine waits in `queue` for the database, which answers in order, or in `writing` for a slow
adapter, or it is `work`, the one that runs; everything between two awaits is one step. `Publish` is
an event of the update service up to the router's query, `ReadRows` its answer, and `SkipRow`,
`WriteRow` and `EndWrite` are `_write_to_dest_bindings` row by row. `LinkUp` and `AnnounceStarted`
are `handle_adapter_status` and `handle_instance_started`, which go on with
`resend_system_bindings`; `CreateBinding`, `UpdateBinding`, `MigrateBindings` and `DeleteBinding`
are the routes of the API from their commit on: reload the instance, then offer the value.
`ResendNext` is `resend_system_value` with `write_binding`, which empties the caches before it asks
for the row. `Restart`, `Disconnected`, `ReadInstance`, `Register` and `AnnounceStarted` are one
start of an instance, `BeginSweep` to `SweepEnds` an import of a configuration, or a restore, which
empties the registry too.

`got` is what a line was offered last for a binding since the line came up and the binding was
attached. Offered means that `write()` was called while the adapter was connected: what the device
makes of it is its own. `held` remembers the bindings whose latest event a filter dropped, which is
what filters are for, until a write on the binding's own line makes that good, and one case under the
disagreements below, where a write that ends in the wrong moment fills the caches again (`Refilled`).

Abstractions: one data point of five, one adapter type; a filter is none, send-on-change or a
throttle, because the delta filters drop under the same cache; a throttle's time has passed or not,
and one whose time has passed is no filter. Left out: two requests on one instance at once, and a
request on one instance during a restart of all; the changes of rows by an import; a restore brings
back the same bindings; the deferred reloads of a bulk import; formulas.

### SegmentStore and RetainedLog

`RetainedLog` is the promise without the means: a log cut into blocks; an event with a new highest
id goes to the open block, the open block is sealed, retention gives up whole sealed blocks, and
only damage to the disk takes any other block. A crash is not an action of it at all.

`SegmentStore` has the files (`file`: absent, without tables, readable with its rows, or
unreadable), the manifest (`segments`, the counters `lastSegment` and `lastId`) and the process. `pc`
is the place of the one mutating operation under the facade's lock: `OpenStore` to `RefreshOnOpen`
are `SqliteSegmentStore.open` with its reconciliation and the isolation of a corrupt tail; `Record`,
`Reserve`, `Insert`, `Advance` and `Due` are `record` and `append`; `RefreshOnRotate` to `CloseOld`
are `rotate`, with its clean-up (`UndoReplacement`) and its three ways to close the old segment;
`BeginRetention` to `ForgetSegment` are `run_pending_checkpoints`, `enforce_retention` and
`_delete_segment`. Each commit is one step, and `Commit` gives it three ends: done; raised and not
done; raised and done all the same. `Crash` may follow any step and keeps what was committed;
`Damage` spoils, truncates or removes a file the writer does not hold. A query (`BeginQuery`,
`ReadSegment`, `EndQuery`) takes no lock: it lists the segments once and reads one file per step.

An event is its id, and time stamps grow with ids, so that `row_count`, `from_ts` and `to_ts` of a
row are one set, `counted`, of the events they were computed from. Row limits are exact; whether a
byte or age limit is exceeded is left open.

The refinement mapping (`Log`): a segment is the block of the rows a query can reach in it
(`Readable`), the open block is that of the writer's segment or, while the store is down, of the
newest active row (`OpenSegment`); empty segments are no blocks. A crash in the middle of a rotation
may move `OpenSegment` on to a registered segment that nothing was written to: that is `Seal`.

### OfflineMigration

Four stores: the legacy files (`legacyFile`), the copies (`filled`), the manifest (`legacy`,
`migrating`, `closed`, `committed`, `keepSource`, `repair`) and the application database
(`decision`). Three actors: *main* is the start of the process (`Start` to `ProtectForRepair`, then
retention, repair and `Finalize`) and later the retention an event triggers; *job* is
`OfflineLegacyMigrator.run` with the `_run` around it; *api* is one request at a time, `keep`,
`skip`, `discard`, `start` or `poll` of the assistant. `_LEGACY_DECISION_LOCK` and the facade's lock
are `decisionLock` and `writeLock`. Rows are cut into the chunks the job copies; where the cutoff
lies is left open. `Promote` is `commit_offline_migration`, one transaction, used by the job and by
the reconciliation that completes an interrupted commit (a source whose file is gone). A crash may
come between any two writes, a write may be refused, a query may quarantine an unreadable source.

`surrendered` is what somebody entitled to it gave up: rows before the cutoff when the source is
unlinked, a discarded source, a source or copy that retention deletes, an unreadable source.

Left out: the handler that cancels a job and its bookkeeping, the recount of manifest counters,
re-attaching a repaired quarantined source, the setting of the budget, absolute paths of sources.

### LogicTimers

One block of one sheet, a pulse or a delay. `timer` is its `_TimerState`, `dirty` its mark in
`_timer_dirty`, `task` the place of its task, `run` the runs of the sheet under way: the timer's
own and up to two for events. A run has a pass, then its writes, then its end; `Act` is what happens
at the end of the pass before the first await (the level is recorded, a pulse starts, the write
follows the level the pulse had when the run began), `Conclude` the end after the writes (a
delay starts, the state is saved). `FireDelay`, `StartPulse`, `EndPulse` and the actions after them are
`_run_timer_delay` and `_run_timer_pulse` with their retries. `BeginSave` and `EndSave` are
`reinitialize_graph` and the reload that follows, which makes what runs obsolete; `Remove` is the
deletion; `Stop`, `CutRun`, `EndStop`, `Exit` and `StartUp` are `stop()`, the end of the process and
the resumption of what was saved. A deadline lies ahead or has come (`Tick`).

A run takes the sheet's epoch and generation when it begins. `Forget` makes the runs that have begun
`dead` and obsolete, as `_forget_timers` and the removal of both do. The timer's own run is created
(`RunGraph`, stage "new") one turn of the event loop before it begins (`BeginTimerRun`): if the
sheet is deleted in between it takes a fresh epoch and lives, which `sheet.late` notes.
`ForgetRemoved` is the end of a `reload` for another sheet, which forgets the timers of sheets that
are gone. Only runs that are under way count as older than another (`Succeeded`: a slot that is used
again is a newer run).

The process is killed only while no timer change is unsaved; what it would lose otherwise is lost by
design, since a run saves at its end. `lost` remembers that a restart found less than the process
knew, and exempts the rest of that behaviour.

Left out: the limit of cascades, removing or rewiring the block alone, manual runs, caps on
durations, the reset of a node's state, the order of two saves under way at once, and the
end of the retries after three errors (`MaxErrors` is below it).

## Runs

| run | instance | question |
|---|---|---|
| `db_safety` | 3 tasks, 2 calls each, statements fail, owners read | types, `NoLockLeaked`, `PrivateTransactionAlone`, `ReplacedUnderLock` |
| `db_progress` | 3 tasks, one of them with 2 calls, no failing statements, no helper reads | `PendingRowsAreOwned`, `NoCollision`, `EveryCallReturns` |
| `db_helper_read` | 2 tasks, owners read | finding 1 |
| `knx_safety` | a light with two bindings on two command addresses and one state address, 2 commands, 2 inputs, 1 change of a binding | types, `ActionsAtMostOnce`, `NoFeedbackLoop`, `ConfirmationsInOrder` |
| `system_values` | 2 instances, one with slow writes, the other enabled or not, 1 binding with send-on-change or a throttle, 2 values; 4 inputs out of 2 publications, 2 changes of a connection, 1 start or stop, 1 change of the binding | types, `OfferedWhenSettled`, `SeenIsConnected`, `EventuallyOffered` |
| `update_check` | 2 clients and the timer, one call each, 2 events, 2 channels, versions and lists | types and the six properties of the module |
| `segments_recovery` | 4 events, segments of one row, a row budget of 3, 3 rotations; a crash, a failing step, a damaged file; no queries | types, `CommittedStayReadable`, `ImplementsRetainedLog`, `ReopensAlways` |
| `segments_query` | 3 events, segments of two rows, one query for a page of two; a crash, a damaged file | `WindowsCoverRows`, `PageHasNoGap` |
| `segments_quarantine` | 2 events, one query, no faults | finding 2 |
| `offline_migration` | 2 sources of 2 chunks, 2 requests, 2 crashes, a refused write | types, `HistoryIsKept`, `NoRowTwice`, `TerminalLeavesNoSource`, `TakesOnlyReleased`, `RequestsEnd` |
| `logic_timers` | 2 runs for events, 2 events, a save or deletion, an error, a restart | types and the five other properties of the module but `StoppedIsSaved` |
| `logic_unsaved` | 1 event, 1 save, 1 restart | finding 3 |

Why the bounds suffice. *Database*: a conflict needs a task that owns the shared transaction, one
that waits holding a lock, and one that comes between; two calls let each task own, end, and come
back with another kind of operation. *KNX*: two commands are the least that can be reordered or
superseded, two bindings the least that can share an address or a data point; two inputs allow a
direct command and a foreign telegram, or two commands; one rebind meets every phase of a write.
*System values*: two instances are the least with a fallback and a migration; a publication, a
change of the connection, a restart and a change of the binding are one of every kind of actor, and
every pair of publications or of changes of the connection meets two of the others. Two bindings
with 3 inputs, and 5 inputs without filters, were checked too, and take longer than a regular run
should. *Update check*: the races are between a request under way, a switch and a restore, three
actors; two events allow a backup and its restore, an update after a crash, or a new list with
either. *Segments*: with segments of one row and a budget of three, four events rotate three times
and the fourth makes retention delete the oldest; a crash, a failed step and a damaged file can meet
at every step, also one after another (a failed rotation, then a crash, then a damaged tail). A gap
in a page needs a segment of more than one row, a rotation and a deletion while the query runs.
*Migration*: two sources are the least of which one can be migrated and the other left; two chunks
the least that are copied in part; two crashes allow one in a job and one in the start that repairs
it; two requests allow a decision and a migration, or two decisions. *Timers*: two runs for events
overtake each other and the timer's; one save and one restart meet each of them at every place.

Tasks with equal budgets, clients, and the two release lists are symmetric. No run that checks a
liveness property uses symmetry; `SwitchIsAnswered` is a property of steps. `segments_recovery` has no
query, because finding 2 makes `CommittedStayReadable` false with one; `segments_query` and
`segments_quarantine` have one each.

Deadlock checking is on in the three runs of `SegmentStore`: the event loop can always reconfigure
an idle store. It is off in the others, where all budgets (`MaxCalls`, `MaxOrders`, `MaxInputs`,
`MaxRebinds`, `MaxOf`, `MaxEvents`, `MaxRequests`, `MaxSaves`) run out, and a system that nobody
calls is at rest.

Fairness. In `DatabaseLocks` only `EveryCallReturns` needs it (`FairSpec`). Weak fairness of
`Progress(t)` for every task is what asyncio gives: a ready callback runs, a FIFO lock goes to its
first waiter, a polling loop with `sleep(0)` is scheduled again, and the bodies of transactions in
the repository end. Weak fairness of the owner's `commit` or `rollback` is the discipline of the
callers. The property is checked where statements do not fail and owners do not read in between:
finding 1 and the first of the disagreements below are what happens otherwise. `UpdateCheck` and
`KnxConfirmations` are checked for safety only and assume none. `SegmentStore` has weak fairness of
opening, appending, rotating and retaining together: the event loop carries on the one operation
that has begun, and a store that is down is opened again; nothing says that an event is ever
recorded. In `OfflineMigration` each actor goes on (weak fairness), and the four acquisitions of a
lock are strongly fair, because an asyncio lock is handed to its waiters in turn while others
release and take it again and again. `SystemValues` has weak fairness of the router, of the database
and of the registry: coroutines that are ready run, queries are answered in order, and `write()`,
`connect()` and `disconnect()` of adapters return or raise; nothing is ever published, connected or
requested of necessity. `LogicTimers` has weak fairness of each run, of the task, of time, of the
reload after a save, and of the restart of a process that was stopped.

## What the violated runs show

1. `db_helper_read`: ordinary writers wait for `_write_lock` with `_memory_operation_lock` in hand,
   the owner of the former fetches and waits for the latter. `_isolated_operation` was written to
   avoid just this, as its comment says. The `.knxproj` import fetches inside its savepoint.
2. `segments_quarantine`: a query that lists the segments between the registration of a replacement
   and the switch of the writer meets a file without tables and quarantines it; the writer goes on to
   a segment that no query lists. "The active segment is never quarantined", says the comment.
3. `logic_unsaved`: a run of a delay is made obsolete by a save, the reload has saved the cleared
   deadline and taken the mark away, then the task sets the deadline again without a mark; `stop()`
   saves nothing.

## Disagreements known without a run

Met while modelling. Each was seen in a behaviour of the models, and the properties are stated so as
to exclude it; where it is excluded is said.

- *A partial insert is made durable.* `executemany` raises, frees the write lock
  (`database.py:1905`), another task executes and commits on the same connection, then the rollback
  of the import (`api/v1/knxproj.py:976`) finds nothing. `db_progress` assumes that no statement
  fails.
- *Two data points on one command address.* While the handler of an older echo awaits the
  publication for the first data point, a newer one confirms the second and is overwritten
  (`adapter.py:1059`; `RELEASENOTES.md:145` promises the order). `knx_safety` has one data point.
- *Two bindings with one state address.* Two commands one after the other, two answers: the second
  answer meets a superseded or stale expectation of one binding, is skipped before its data point is
  noted as consumed (`adapter.py:984`), finds none of the other binding, and passes for a new value,
  where `RELEASENOTES.md:145` promises that confirmations bypass propagation across every binding
  that shares the address. In `knx_safety` the second binding has no state address.
- *The answer to a write that a reload invalidated is a new value.* A write is queued, its binding is
  moved to another command address and keeps its state address, the reload takes the write out of
  the pending ones (`adapter.py:692` to `704`), then the telegram is sent. It leaves neither an
  expectation nor a tombstone (`1233` to `1242`), so the device's answer, on an address somebody still
  listens on, is published as a new value and propagated (`1018` to `1056`), where
  `RELEASENOTES.md:145` promises that the context of changed bindings is cleaned and that
  confirmations bypass propagation. The same happens to a row written after the reload of its
  binding (`write_router.py:425`). TLC finds it with one command and one change of a binding.
  `NoFeedbackLoop` exempts the answers that read like one to such a write, not only that answer:
  two equal answers change places, since the first takes the newest expectation.
- *A newer expectation takes a tombstone's answer.* A command is transmitted, its binding is moved
  and the reload leaves a tombstone; another command for the same value is transmitted before the
  first is answered. The newer expectation overrides the tombstone (`adapter.py:1302` to `1322`, as
  `test_newer_live_state_confirmation_supersedes_reload_tombstone` in `tests/adapters/test_knx.py:1357`
  wants it), takes the first answer, and the second answer becomes a new value. `NoFeedbackLoop`
  exempts it too: a write sent while a tombstone waits for the same telegram is astray.
- *A derived channel becomes a chosen one* when the process stops between the two commits of the first
  `load()` (`update/service.py:344` and `350`). `ChoiceStays` covers the other direction.
- *A calibration sample becomes visible.* It has no source id. If retention unlinks its source under
  the decision "keep" and the process stops before the row is removed, the next start completes what
  it takes for an interrupted commit and promotes the sample beside the copies
  (`offline_migration.py:676` to `694`, against `633`). `NoRowTwice` leaves the sample out.
- *The protection of a quarantined source is lost.* With a second refused write: the decision could
  not be saved, the readable source was migrated, the process stopped before the repair; the next
  start knows of no decision that protects the other one. `offline_migration` has one refused write.
  A source that is quarantined before any decision is recorded is the only way to this:
  `TakesReleasedIfReadable` proves it.
- *Statistics of a sealed segment lag behind* when a step fails between the commit of the rows and
  that of the row count, and the process then stops in a rotation that has already registered the
  next segment: reconciliation closes the older one without a refresh, and a query for a time window
  may skip it (against the comment at `sqlite_backend.py:1003`). `segments_query` has no failing
  step.
- *Rows out of the order of the segments.* A checkpoint and then the sealing of the old segment fail
  in one rotation, so that segment stays active behind the writer's; in a later rotation a query
  quarantines the new segment (finding 2) and the process stops. The newest active row is then the one
  left over: the next start writes into it again, behind a sealed segment with older rows, and a page
  that is full before it gets there lacks the newest rows. TLC finds it with two failing steps, a crash
  and two queries.
- *A rotation whose commit of the new row raised although it was applied* leaves an active row behind
  the writer's. The next start opens it and seals the writer's segment, which is harmless: it is the
  reason why the mapping needs `Seal` in a crash, and why `NewerAreEmpty` is in the invariant.
- *A pulse that ran out un-started during a save* and is triggered again is on without ever having been
  published as on. `NothingLeftOn` is stated in one direction only.
- *A deleted sheet's timer comes back.* A delay has come due and its run is created
  (`logic/manager.py:2664`), the sheet is deleted before the run begins, and the run then takes an
  epoch of its own (`4217`; `remove_graph` has removed the sheet's, `9046`). It counts as live
  (`8446`), the block is still there for it because the sheet counts as being saved (`2295` to
  `2297`), and it records the trigger level or starts the timer and its task. The comment at `1877`
  says that the epoch is there "so a run still in flight does not bring them back", and
  `test_a_deleted_sheets_run_in_flight_starts_nothing_even_after_a_new_run_began`
  (`test_logic_timer_delay_pulse.py:1898`) covers a run that has begun. The timer stays until a
  reload for another sheet or the end of the process; nothing of it is saved. TLC finds it in six
  steps when `RemovedStaysGone` does not leave out `sheet.late`.

- *The fallback takes bindings that have an instance.* `write_router.py:16` says that it is for those
  without one; a value event falls back too while the binding's own instance is not running (`461` to
  `468`), and the value goes out on another line. A resend does not. `got` counts only the own line.
- *A cached value does swallow a resend* in two orders: `write_binding` empties the caches, a write
  of the same binding fills them again, then the row arrives and send-on-change or the throttle drops
  the offer (`write_router.py:296` says that it must not). The write in between is a slow one that
  ends, or one of an event that read its rows before the binding was moved to another instance, waited
  for a slow binding, and now writes to the line the binding has left. The second needs two bindings:
  TLC found it when `OfferedWhenSettled` was to be proved for any number of them. `held` takes the
  binding out, if its line misses the value.
- *After a restore the event may be dropped.* A comment at `config.py:781` says that destinations
  receive the values because they are published after the adapters' restart; send-on-change compares
  with what was sent before the restore, and while the registry has no value a start offers none.
  `held` again.
- *Bindings without an instance follow the first of their type*, and restarting that one moves it to
  the end: the next one becomes the fallback and is offered nothing. `Owed` asks for an instance.
- *Two restarts of one instance at once* create two objects, of which the table forgets one that
  stays connected (`adapters/registry.py:229` to `261`). `SystemValues` has one request at a time
  per instance.

## What is proved

`DatabaseLocksProofs` proves for every set of tasks and every bound, from `NoTaskAssumption`
(`None` is no task), `MaxCallsAssumption` and `SwitchAssumption`:

- `TypeCorrect`: `Spec => []TypeOK`
- `NoLeak`: `Spec => []NoLockLeaked`
- `PrivateIsAlone`: `Spec => []PrivateTransactionAlone`
- `ReplacedOnlyUnderLock`: `Spec => ReplacedUnderLock`
- `LocksInvariant`: `Spec => []LocksInv`, on which the others rest
- `RowsAreOwned`: `StatementsMayFail = FALSE => (Spec => []PendingRowsAreOwned)`
- `NeverCollides`: `StatementsMayFail = FALSE => (Spec => []NoCollision)`

None of the safety properties is inductive: what a step frees depends on what its task was
supposed to hold. `LocksInv` says that, task by task: a lock is held for the call its holder is in,
or is the write lock of the owner; the owner holds the write lock; a task that runs holds every lock
of its operation, or is the owner and took none; an owner inside a call is looking something up or
took no lock for it; the body of a private transaction holds all four locks on an open connection,
the body of a restore the lifecycle lock on a closed one; only private transactions spin. Two
private transactions then exclude each other because both would hold the same lock, and a running
statement of the owner is excluded because the owner would hold the private transaction's write
lock. Which lock a waiting task is queued for does not matter to safety, so the queues need only their
type. Each action is one lemma, from few facts about what freeing a set of locks leaves alone;
`LocksOfValues` and `FirstIsMember` are the lemmas about the operators.

The last two theorems need that no statement raises, and they are false otherwise: a statement that
raises after it has inserted rows gives the write lock back with the rows pending (see "A partial
insert is made durable" above). Calls that read through a helper are allowed. `RowsInv` adds to
`LocksInv` that a transaction on the shared connection has an owner, whose rows all pending rows are,
and that a closed connection has neither. A task that gets to write then finds nobody else's rows,
because nobody else owns the connection (`WriterFindsNobody`), and a private transaction finds none,
because it holds the write lock that an owner would hold.

`db_safety` checks the first three properties on three tasks, `db_progress` the last two.

`UpdateCheckProofs` proves for every set of clients, channels, versions and lists and every bound,
from `NoneAssumption` (the absent values are no values), `DerivedAssumption` (every version has a
derived channel) and `BoundAssumption`:

- `TypeCorrect`: `Spec => []TypeOK`
- `LockIsFree`: `Spec => []LockNotHeldAcrossRequest`
- `StatusIsCurrent`: `Spec => []StatusAnswersQuestion`
- `PointsAreCurrent`: `Spec => []ShownMatchesState`
- `ErrorIsCurrent`: `Spec => []ErrorIsOfLastAttempt`
- `ChoiceIsKept`: `Spec => []ChoiceStays`
- `SwitchAnswers`: `Spec => SwitchIsAnswered`
- `CheckInvariant`: `Spec => []CheckInv`, on which the first three rest
- `ToldInvariant`: `Spec => []ToldInv`, on which the last four rest

`CheckInv` adds to the types what their preservation needs: the cache holds a list as soon as it has
a time; while `load()` runs nobody calls, and the channel is stored before the state that belongs to
it is read back; a task that switches knows its channel; the state lock is held only by a task inside
its section. `LockIsFree` is the last of these.

`StatusIsCurrent` needs more, because a state is not only computed: it is saved, lost in a crash,
read back by `load()`, carried over a restore and recomputed from the cache by a switch.
`AnswerInv` therefore says of every place a state or a list can come from that it is honest: the
current state, and the states saved in the settings and in a backup, answer their own channel and
version from the list their attempt got; the cached list and ETag are those of the attempt that
filled them; and of all tasks only the holder of the check lock is in an attempt, so the number and
the list it carries cannot become those of another one while it waits for GitHub or for the state
lock. `AnsweredStays` shows that a later attempt makes no earlier answer wrong,
`EvaluatedAnswered` and `FreshAnswered` that the two ways to make a state make an honest one; each
action is one lemma.

What users are told adds a third layer, `ToldInv == AnswerInv /\ Told`. A state goes from memory to
the settings, to `_published` and to the data points in steps of its own, so none of the four
properties is inductive: each is true only while nobody is between two of the steps. `Told` says who
is: `Section` what a task that holds the state lock has done of it, `ShownIsSent` and `SentIsState`
which copies agree except beside such a task, `ChosenInForce` and `ChosenOnDisk` the same for the
administrator's choice (also in a process that crashes before it has written it), `KeptChannel` and
`KeptMarker` what a restore has still to bring back. `AttemptTold` and `TakenTold` say that once an
attempt ended there is an answer or an error, from which `SwitchAnswers` follows: a switch that
finds the cool-down running still has something to return. TLC had checked `ToldInv` on 1.4 million
states before it was proved.

`SegmentStoreProofs` proves for every size of the segments, budgets and bounds, from
`RatioAssumption` (which names the range of the settings that `store/config.py` accepts):

- `TypeCorrect`: `Spec => []TypeOK`
- `Committed`: `MaxReads = 0 => (Spec => []CommittedStayReadable)`
- `Refines`: `MaxReads = 0 => (Spec => ImplementsRetainedLog)`
- `StoreCorrect`: `MaxReads = 0 => (Spec => [](TypeInv /\ StoreInv))`, on which the last two rest

`MaxReads = 0` is a store without queries. It is needed: with one query both properties are false,
as `segments_quarantine` shows. Without queries they hold whatever fails, crashes or is damaged, and
however often.

`TypeInv` adds to the types what each place implies (a store has a writer from the moment it is
open, a victim is chosen before it is unlinked) and that the bounds leave room for the next segment.
`StoreInv` has three parts. *Rows*: every row of a file is in a file that a query can read and that
the manifest lists; no row is in two files; every written event is in a file or gone. *Ids*: ids
only grow, unused segment ids have no row, the writer's segment is registered as active, and
**nothing lies in a segment behind the one that is open**. The last is what a crash in a rotation
depends on: the next start takes the newest active row, not the writer's, and that loses nothing
because the newer one is empty. *Places*: the replacement of a rotation is newer than the writer's
segment; the segment a rotation closes, a pending checkpoint and a victim of retention are never the
writer's.

`MovedRows` and `RecountedRows` say what a commit of the manifest leaves alone; each action is one
lemma. For the refinement, `CalmSteps` shows that a step that leaves the rows where they are is a
stutter or a `Seal`, `InsertRecords`, `UnlinkDrops` and `DamageLoses` treat the three steps that do
not. That retention takes a block and not part of one, or the open one, is the disjointness of the
files together with the status of the victim.

`SegmentQueryProofs` proves, also for every size and bound, with any number of queries, crashes and
damaged files:

- `WindowsCover`: `MaxFaults = 0 => (Spec => []WindowsCoverRows)`
- `PagesHaveNoGap`: `MaxFaults = 0 => (Spec => []PageHasNoGap)`
- `QueryInvariant`: `MaxFaults = 0 => (Spec => [](TypeInv /\ QueryInv))`, on which both rest

`MaxFaults = 0` is a store none of whose steps raises. It is needed: `WindowsCoverRows` is false
after one step that raises ("Statistics of a sealed segment lag behind" above), `PageHasNoGap` after
two ("Rows out of the order of the segments"). Without queries being excluded, `StoreInv` is not at
hand, so `QueryInv` is another invariant: a query may quarantine the segment that is written to,
retention may unlink it, and rows then go where nobody reads. Four things still hold. *Rows*
(`RowFacts`): every row of a newer segment is newer than every row of an older one. *Places*
(`PlaceFacts`): the active rows of the manifest are the writer's and, in a rotation, its replacement
or the segment it retires; nothing lies behind the open segment, nor behind the retired one until it
is sealed. *Counts* (`Counted`): the count of a segment is complete when it is not the open one, and
from the refresh on in a rotation, which is the moment from which a crash may make it a sealed one.
*Queries* (`Reading`): what was visible at the start and is still in its file has still to be read,
was found, or is beaten by a full page of newer rows; what has still to be read is older than all
that was found. The last gives the page its end, and the proof the use of the segments' order. That
the newest `n` of at least `n` rows are `n` (`NewestAreEnough`) is shown by a smallest
counterexample, because induction is out of reach. TLC had checked `QueryInv` on 3.8 million states,
with two queries, a crash and a damaged file, before it was proved; `segments_query` checks both
properties.

`SystemValuesProofs` proves for all finite sets of instances and bindings, all values and all bounds
on what comes from outside, from `FiniteAssumption` (the tables have finitely many rows),
`ValueAssumption` and `FilterAssumption`:

- `TypeCorrect`: `Spec => []TypeOK`
- `RouterKnowsConnections`: `Spec => []SeenIsConnected`
- `ValueIsOnItsWay`: `Spec => []PromiseInv`
- `SettledMeansOffered`: `Spec => []OfferedWhenSettled`

The first two rest on `Inductive`: `Spec => [](TypeInv /\ LifeInv)`. The types need more than types,
since the dictionary of instances holds each of them once only because an instance that is put into
it is not there yet. `SeenIsConnected` needs the same: it speaks of instances that are registered
and not being started, and a start ends after two queries, whose answers come while links, stops and
restarts of others go on. `LifeInv` says that an instance whose request disconnects it, fetches its
row or connects it is not in the dictionary; that each query of a start is on the way once, and
finds its request where it left it (`Placed`, `Orderly`); that a restart of all instances finds all
of them idle or stopped by itself until it has loaded them, the dictionary empty while it loads
them, and none of those it has still to start in the dictionary (`SweepInv`). `RemovedFirst`,
`AppendedSet` and `Enumerated` are the lemmas about the dictionary, `OrderlyAppend`, `OrderlyTail`
and `QueryAnswered` those about the queries. `system_values` checks both on two instances.

`OfferedWhenSettled` speaks of states in which nothing is under way; `PromiseInv`, which implies it,
says of every state who will make it good. A binding that is owed the value and was not offered it
(`Promised`) has somebody `Coming`: a query whose answer brings it a write or a resend, a coroutine
that carries its present row, the write of a resend or the query for it while its caches are still
empty, or the start of its instance, which resends. For the promise to be kept, what is coming has
to bring the present value, and nothing may drop it (`Sound`): an event that waits or runs has the
value of the data point, because the update service publishes one after the other, under its lock; a
resend that read an older value comes before the event with the present one (`Overtaken`,
`OldWrite`); a resend has the binding's present row and nothing behind it (`Resends`). Each step
then has one argument: a write on the binding's own line offers the value or is followed by the
event; a row that a filter drops, and a write that fills the caches under a waiting resend, go to
`held`; a link that comes up, a start and a change of the binding send a query; a link that goes
down and a stop end what was owed. TLC had checked `PromiseInv` with two bindings on four selections
of inputs, up to 4438545 states, before it was proved; `system_values` checks `OfferedWhenSettled`
with one binding and more inputs, since two are beyond five minutes.

`OfflineMigrationProofs` proves for all sources and chunks, whatever the number of crashes and
refused writes, from `SourceAssumption`, `LastSourceAssumption` (a manifest has finitely many rows,
so one source is the last) and the bounds' assumptions:

- `TypeCorrect`: `Spec => []TypeOK`
- `HistoryKept`: `Spec => []HistoryIsKept`
- `RowsOnce`: `Spec => []NoRowTwice`
- `ClosedMeansDone`: `Spec => []TerminalLeavesNoSource`
- `TakesReleasedIfReadable`: `Spec /\ []ReadableUntilDecided => TakesOnlyReleased`
- `TakesReleasedOneFault`: `MaxFaults =< 1 => (Spec => TakesOnlyReleased)`
- `HeldInvariant`: `Spec => []Held`, on which they rest

`Flow`, the part for the types, says who may be where: no job beside a start or a decision, the write
lock with the one that unlinks or commits, the sources protected from retention while a job runs.
What a step does to the rows is one of a dozen *data steps* (`Attaches`, `Finishes`, `Promotes`,
`Drops`, `Trims`, `Takes`, `Forgets`, `Creates`, `Fills`, `GivesUp`, `Unlinks` or none), and each of
these keeps the rows if what its actor believes is true: that the copies it drops are `Spare`, that the
source it unlinks is copied in full or surrendered. So the proof has two halves. One shows that the
data steps keep `Kept`: the copies in the manifest and on disk fit each other, what is discarded is
surrendered, no row is lost. The other shows that the beliefs outlive the steps of the others between
the moment they are formed and used: `Victim` for retention, which chose a source and waited;
`Protects` for whoever turns protection off; `Jobs` for the job, whose chunks are filled when it
unlinks their source and whose source is gone when it commits. `ClosedMeansDone` adds `Closing`: a file
that is not attached yet is the one at the configured path, before a start that has reopened the
assistant.

`TakesOnlyReleased` is about a switch that many set: starts, jobs and decisions turn the protection of
the sources on and off, and retention looks at it long after. `Guards == Held /\ Closing /\ Releases
/\ Deciders /\ LastToGo` says why it is right. `Releases`: in a process that serves requests the
sources are unprotected only when none is attached or a decision "keep" or "skipped" stands without a
half-done migration behind it, and so they were when a job that may still go back to that state found
them. `Deciders`: a request and the end of a job that turn protection off are alone, each with the
decision lock. `LastToGo`: a start that finds no decision does not protect, and finds no source; the
file at the configured path, whose presence makes a start record a decision, is the last that a
migration, a discard or retention removes. The last part needs that no source becomes unreadable
while nothing is decided (`ReadableUntilDecided`): a quarantined source is passed over, and the
readable ones, the file at the configured path among them, go before it. With at most one fault this
cannot happen, because the first start records a decision unless that write is refused
(`FirstFault`); with two it can, which is the disagreement above. TLC had checked the invariant with 2
sources, 3 requests, 1 crash and 2 faults (786345 states), with 2 crashes and 3 faults, and with 3
sources, before it was proved.

`LogicTimersProofs` proves for all event runs and bounds, from `BoundsAssumption` (no event run is the
timer's own):

- `TypeCorrect`: `Spec => []TypeOK`
- `DeletedStaysGone`: `Spec => []RemovedStaysGone`
- `PulseLeavesNothingOn`: `Spec => []NothingLeftOn`
- `FiresOnce`: `Spec => FiresOncePerTrigger`
- `TimersHold`: `Spec => []Inv`, on which they rest

`Inv` says who answers for a timer at each moment. `Owns`: a task waits exactly for the run it
started or has its result before it, and no run is under way in a process that is down. `Gone`: a
deletion leaves nothing of the timer on disk, and nothing in memory or in a task unless a run of it
has begun since (`sheet.late`); the runs that had begun are dead. `PulseEnds`: while the Write
Object is on, the deadline lies ahead, or the end is due (in a run, in the failed result of one, or
in a task that pauses to try again). `DelayFires`: a firing that has not acted answers a trigger
nobody has answered, and a deadline beside it, in memory or saved, stands for a later trigger; this
is what a restart between a firing and the save of its deadline depends on. The effect lemmas
(`...Does`) say what each action leaves of the block's own run, the lemmas after them that it keeps
`Inv`. TLC had checked `Inv`, in a form that did not yet know of late runs, on 5.9 million states,
with two event runs, before it was proved; the proof added that nothing runs while the process is
down.

`KnxConfirmationsProofs` proves for any bindings, addresses, data points, values, codec and bounds,
from the five assumptions of the module (`BindingAssumption`, `CodecAssumption`, `ConfigAssumption`,
`BoundAssumption`, `OriginAssumption`: the mark of a telegram that is not ours is no write):

- `TypeCorrect`: `Spec => []TypeOK`
- `ActsOnce`: `Spec => []ActionsAtMostOnce`
- `InOrder`: `Tidy => (Spec => ConfirmationsInOrder)`
- `NoLoop`: `Separate /\ MaxRebinds = 0 => (Spec => [](NothingBack /\ NoFeedbackLoop))`

The handler is a recursive function over the bindings that listen on an address. `StepsExist` shows
that there is such a function, `EntryDoes` what one entry does (skip, publish a new value, or publish
a confirmation that is not stale), and `StepsKeep` that what each entry keeps the whole handler keeps;
nothing else about the recursion is used. `OnceInv` says that a number that has acted is claimed, and
that every event still waiting in a handler which is to act has claimed its number and is alone with
it: so publishing it later, in any order with other handlers, counts for the first time.

`Tidy` is what the order needs of the configuration: bindings that share an address are of one data
point, and no binding is moved so that its old state address becomes its command address or the other
way round. The code enforces neither. Without the first, an older confirmation waits behind the
publication for the other data point (see "Two data points on one command address" above). Without
the second, a row written for the old setting after the reload is expected on an address where its
binding now takes feedback, and another binding on that address publishes a new value first. TLC
finds both, each with two bindings, two commands and at most one change of a binding. Under
`Tidy`, `OrderInv` says that writes carry numbers already issued, for a setting of their binding; that
an expectation is on one of its write's two addresses; that no confirmation is ever left for later,
because a telegram which is an answer publishes one confirmation and nothing else (an echo has one
owner, and feedback is done with its data point after the first); and that no published confirmation
is ahead of the newest activated command. `knx_safety` satisfies `Tidy`; TLC checked `OnceInv` and
`OrderInv` on the states of that run before they were proved.

`NoLoop` is about a configuration that does not change (`MaxRebinds = 0`) and is `Separate`: the
state address of a binding that is written and read is that of no other binding which is written,
and no address of a binding that only writes for a data point is read for that data point by
another. The code checks neither; TLC has a new value that loops when either is dropped (for the
first, see "Two bindings with one state address" above). Everything else may happen: commands that
overlap, telegrams that cannot be sent, answers that are late, missing or equal, telegrams of other
devices, both kinds of expiry, and publications of one handler among those of others. It also rests
on what the model says of the bus (`BusSettled`, `Foreign`, the guards of the expiries), which no
proof can check. `LoopInv` is a count: of each binding and reading, the answers still to come
(`Owing`) and those whose handlers are to run (in `inbox`) are together not more than the answers
expected (`Awaited`). So an answer always finds an expectation of its data point, though seldom its
own: a handler takes the newest. `NothingBack` is what the invariant gives, and more than
`NoFeedbackLoop`: while the configuration stays, no answer comes back as a new value, stray or not.
For the count to hold, a handler must take nothing else, which is where `Separate` and `IsForeign`
come in (`Takes`, `Fits`). An echo instead finds its own: a write is in one place only, a row still
to be written, the outgoing queue or the inbox (`Queued`, `Once`, `EchoedOnce`), so no other handler
has used up its owner and its expectation. TLC had checked a first form of `LoopInv` on five
configurations of up to three bindings, two data points and four addresses, crossed state and
command addresses among them, before it was proved; two of them were stopped after some ten million
states.

What comes back through a change of a binding is only checked (`knx_safety`, with two commands, and
once with three, 1.5 million states): what the tombstones of a reload count for is not in
`LoopInv`, and with the code as it is `NothingBack` is false (see "The answer to a write that a reload
invalidated is a new value" above).

Only model-checked: `NoFeedbackLoop` while bindings change. `TakesOnlyReleased` is
proved where it is true; with two faults it is false, as above. All liveness (`EveryCallReturns`,
`ReopensAlways`, `RequestsEnd`, `EveryDelayFires`, `EveryPulseEnds` and the like) is out of the proof
system's reach.

## Plan

Modelled so far, in the order of what a failure would cost and how little a test can see of it:
database locks, KNX confirmations, update check, segment store with its refinement, migration,
timers, system values. What is left:

1. `AdapterLifecycle`: two requests on one instance at once, and the reconnect loops of the adapters.
2. Small ones: `MqttPublisher` (the message in hand at a reconnect), `FirstOwnerSetup` on top of
   `DatabaseLocks`, alarms.
3. Extensions: read responses and disconnect of the KNX adapter, cancellation in `DatabaseLocks`,
   cancelling a migration job, rewiring and cascades in `LogicTimers`.

Worth proving next: `NoFeedbackLoop` with changes of bindings, which needs a count of the stray
answers beside the expected ones.

## Not modelled, and why

Pure functions (formulas, conversions, DPT encoding, version evaluation, logic nodes, calendar rules)
are data to the protocols here and are tested by table in the repository. Authentication and the
routers decide one request at a time. The frontends are other programs. What remains is listed above
as planned, and component by component in `PROJECT.json`.
